-------------------- MODULE UserDefinedQuantitiesProofs --------------------
(***************************************************************************)
(* Proofs about UserDefinedQuantities, for every deck of legal records,    *)
(* any number of report steps, quantities and wells.  Four invariants      *)
(* carry them:                                                             *)
(*  - ConfigInv: every snapshot is a sound configuration and is what the   *)
(*    deck makes of the one before it, those that share an object are      *)
(*    equal, and a statement that counts for one evaluation is due until   *)
(*    it is evaluated;                                                     *)
(*  - BookInv: the book of the arguments has one record for a well and a   *)
(*    control, numbered by the index, and a record for every target;       *)
(*  - ValuesInv: the values have their form, and the definitions agree     *)
(*    with what they read;                                                 *)
(*  - RunInv: the configuration and the values of the run agree with those *)
(*    of the uninterrupted one, and what was ASSIGNed has its value.       *)
(* What a fold or a recursive function of the model computes comes from    *)
(* Recursion, one instance for each of them.                               *)
(***************************************************************************)
EXTENDS UserDefinedQuantities, FiniteSetTheorems, SequenceTheorems, TLAPS

(* A configuration: the index lists each known quantity once, and what is  *)
(* kept of a quantity is kept of a known one only.                         *)
IsConfig(c) == c = [index |-> c.index, action |-> c.action, def |-> c.def, asg |-> c.asg,
                    pending |-> c.pending, units |-> c.units]

ConfigSound(c) ==
  /\ IsConfig(c)
  /\ c.index \in Seq(Quantities)
  /\ \A i, j \in DOMAIN c.index : c.index[i] = c.index[j] => i = j
  /\ Range(c.index) = Known(c)
  /\ c.action \in [Known(c) -> {"ASSIGN", "DEFINE"}]
  /\ c.def = [q \in DOMAIN c.def |-> [expr |-> c.def[q].expr, status |-> c.def[q].status]]
  /\ DOMAIN c.def \subseteq Known(c)
  /\ DOMAIN c.asg \subseteq Known(c)
  /\ \A q \in DOMAIN c.asg : c.asg[q] \in Seq(Range(c.asg[q]))
  /\ c.pending \subseteq DOMAIN c.asg
  /\ \A q \in Known(c) : c.action[q] = "DEFINE" => q \in DOMAIN c.def

(* Snapshots that share an object are neighbours and have nothing to clear. *)
Sharing(cs, os) ==
  /\ os \in [Steps -> Steps]
  /\ \A k \in Steps : os[k] <= k
  /\ \A k \in 1 .. N - 1 : \/ os[k] = k
                           \/ os[k] = os[k - 1] /\ cs[k] = cs[k - 1] /\ Inert(cs[k])

SharingSound == Sharing(configs, owner)

Due(c, q) == q \in Assignable(c) \/ (q \in Known(c) /\ Defining(c, q))

(* A quantity whose last statement counts for one evaluation is due until  *)
(* it is evaluated, and never again.                                       *)
OnceOK(c, srv, q) ==
  /\ q \in Known(c) /\ c.action[q] = "DEFINE" => c.def[q].status # "ON"
  /\ srv[q] = IF Due(c, q) THEN 0 ELSE 1

OnceSound ==
  ~fault => \A q \in once : /\ OnceOK(configs[step], served, q)
                            /\ fresh => ~Due(configs[step], q)

-----------------------------------------------------------------------------
(* The operations on a configuration.                                      *)

(* What a longer index still has. *)
Extends(long, short) ==
  /\ Len(short) <= Len(long)
  /\ \A i \in DOMAIN short : long[i] = short[i]

(* Two configurations agree on a quantity. *)
SameAction(c, d, q) == (q \in Known(d) <=> q \in Known(c)) /\ (q \in Known(c) => d.action[q] = c.action[q])
SameAssigns(c, d, q) == /\ q \in DOMAIN d.asg <=> q \in DOMAIN c.asg
                        /\ q \in DOMAIN c.asg => d.asg[q] = c.asg[q]
                        /\ q \in d.pending <=> q \in c.pending

SameDefine(c, d, q) == (q \in DOMAIN d.def <=> q \in DOMAIN c.def) /\ (q \in DOMAIN c.def => d.def[q] = c.def[q])

(* A quantity that is not known goes last in the index. *)
LEMMA IndexGrows ==
  ASSUME NEW s \in Seq(Quantities), \A i, j \in DOMAIN s : s[i] = s[j] => i = j,
         NEW q \in Quantities, NEW t, t = IF q \in Range(s) THEN s ELSE Append(s, q)
  PROVE  /\ t \in Seq(Quantities)
         /\ \A i, j \in DOMAIN t : t[i] = t[j] => i = j
         /\ Range(t) = Range(s) \cup {q}
         /\ Extends(t, s)
<1>1. CASE q \in Range(s)
  BY <1>1 DEF Extends, Range
<1>2. CASE q \notin Range(s)
  <2>1. t = Append(s, q)
    BY <1>2
  <2>2. /\ t \in Seq(Quantities) /\ DOMAIN s = 1 .. Len(s)
        /\ DOMAIN t = 1 .. Len(s) + 1 /\ t[Len(s) + 1] = q
        /\ \A i \in DOMAIN s : t[i] = s[i]
        /\ Len(t) = Len(s) + 1 /\ Len(s) \in Nat
    BY <2>1
  <2>3. \A i \in DOMAIN s : s[i] # q
    BY <1>2 DEF Range
  <2>4. \A i, j \in DOMAIN t : t[i] = t[j] => i = j
    BY <2>2, <2>3
  <2>5. Range(t) = Range(s) \cup {q}
    <3>1. DOMAIN t = DOMAIN s \cup {Len(s) + 1}
      BY <2>2
    <3> QED
      BY <2>2, <3>1 DEF Range
  <2> QED
    BY <2>2, <2>4, <2>5 DEF Extends
<1> QED
  BY <1>1, <1>2

(* A quantity is introduced, or changes from ASSIGN to DEFINE or back. *)
Entered(c, d, q, a) ==
  /\ d.index = IF q \in Range(c.index) THEN c.index ELSE Append(c.index, q)
  /\ d.action = Put(c.action, q, a)

(* Entering a quantity changes the index and the actions, nothing else. *)
LEMMA AddNode ==
  ASSUME NEW c, IsConfig(c), NEW q, NEW a
  PROVE  /\ IsConfig(add_node(c, q, a)) /\ Entered(c, add_node(c, q, a), q, a)
         /\ add_node(c, q, a).def = c.def /\ add_node(c, q, a).asg = c.asg
         /\ add_node(c, q, a).pending = c.pending /\ add_node(c, q, a).units = c.units
<1> DEFINE t == IF q \in Range(c.index) THEN c.index ELSE Append(c.index, q)
           p == Put(c.action, q, a)
<1>1. add_node(c, q, a) = [c EXCEPT !.index = t, !.action = p]
  BY DEF add_node
<1> HIDE DEF t, p
<1>2. add_node(c, q, a) = [index |-> t, action |-> p, def |-> c.def, asg |-> c.asg,
                           pending |-> c.pending, units |-> c.units]
  BY <1>1 DEF IsConfig
<1> DEFINE n == add_node(c, q, a)
<1> HIDE DEF n
<1>3. n.index = t /\ n.action = p
  BY <1>2 DEF n
<1>4. IsConfig(n) /\ n.def = c.def /\ n.asg = c.asg /\ n.pending = c.pending /\ n.units = c.units
  BY <1>2 DEF n, IsConfig
<1> QED
  BY <1>3, <1>4 DEF Entered, n, t, p

(* The index lists a quantity that was entered once. *)
LEMMA EnteredSound ==
  ASSUME NEW c, ConfigSound(c), NEW q \in Quantities, NEW a \in {"ASSIGN", "DEFINE"},
         NEW d, Entered(c, d, q, a)
  PROVE  /\ d.index \in Seq(Quantities)
         /\ \A i, j \in DOMAIN d.index : d.index[i] = d.index[j] => i = j
         /\ Range(d.index) = Known(d)
         /\ Extends(d.index, c.index)
         /\ Known(d) = Known(c) \cup {q}
         /\ d.action \in [Known(d) -> {"ASSIGN", "DEFINE"}]
         /\ d.action[q] = a
         /\ \A x \in Known(c) : x # q => d.action[x] = c.action[x]
<1> DEFINE t == d.index
<1>1. t = IF q \in Range(c.index) THEN c.index ELSE Append(c.index, q)
  BY DEF Entered
<1>2. /\ c.index \in Seq(Quantities)
      /\ \A i, j \in DOMAIN c.index : c.index[i] = c.index[j] => i = j
      /\ Range(c.index) = Known(c)
      /\ c.action \in [Known(c) -> {"ASSIGN", "DEFINE"}]
  BY DEF ConfigSound
<1> HIDE DEF t
<1>3. /\ t \in Seq(Quantities)
      /\ \A i, j \in DOMAIN t : t[i] = t[j] => i = j
      /\ Range(t) = Range(c.index) \cup {q}
      /\ Extends(t, c.index)
  BY <1>1, <1>2, IndexGrows
<1>4. d.action = Put(c.action, q, a)
  BY DEF Entered
<1> DEFINE f == c.action
           g == d.action
<1> HIDE DEF f, g
<1>a. g = Put(f, q, a)
  BY <1>4 DEF f, g
<1>b. /\ DOMAIN g = DOMAIN f \cup {q}
      /\ g[q] = a
      /\ \A x \in DOMAIN f : x # q => g[x] = f[x]
      /\ g = [x \in DOMAIN g |-> g[x]]
  <2> DEFINE h == Put(f, q, a)
  <2>1. /\ DOMAIN h = DOMAIN f \cup {q}
        /\ h[q] = a
        /\ \A x \in DOMAIN f : x # q => h[x] = f[x]
        /\ h = [x \in DOMAIN h |-> h[x]]
    BY DEF Put
  <2> HIDE DEF h
  <2>2. g = h
    BY <1>a DEF h
  <2> QED
    BY <2>1, <2>2
<1>5. /\ Known(d) = Known(c) \cup {q}
      /\ d.action[q] = a
      /\ \A x \in Known(c) : x # q => d.action[x] = c.action[x]
      /\ d.action = [x \in Known(d) |-> d.action[x]]
  BY <1>b DEF Known, f, g
<1>6. d.action \in [Known(d) -> {"ASSIGN", "DEFINE"}]
  <2>1. d.action = [x \in Known(d) |-> d.action[x]]
    BY <1>5
  <2>2. \A x \in Known(d) : d.action[x] \in {"ASSIGN", "DEFINE"}
    BY <1>2, <1>5
  <2> QED
    BY <2>1, <2>2
<1> QED
  BY <1>2, <1>3, <1>5, <1>6 DEF t

(* What a record does to its quantity, and that it does nothing to the     *)
(* others.                                                                 *)
Effect(c, d, r) ==
  /\ ConfigSound(d)
  /\ Extends(d.index, c.index)
  /\ \A q \in DOMAIN c.asg \cup DOMAIN c.def : q \in DOMAIN d.asg \cup DOMAIN d.def
  /\ \A q : q # r.q => SameAction(c, d, q) /\ SameAssigns(c, d, q) /\ SameDefine(c, d, q)
  /\ r.kind = "ASSIGN" => /\ r.q \in Known(d) /\ d.action[r.q] = "ASSIGN"
                          /\ r.q \in DOMAIN d.asg => r.q \in d.pending
                          /\ SameDefine(c, d, r.q)
  /\ r.kind = "DEFINE" => /\ r.q \in Known(d) /\ d.action[r.q] = "DEFINE"
                          /\ r.q \in DOMAIN d.def /\ SameAssigns(c, d, r.q)
  /\ r.kind = "UPDATE" => /\ SameAction(c, d, r.q) /\ SameAssigns(c, d, r.q)
                          /\ r.q \in DOMAIN d.def <=> r.q \in DOMAIN c.def
                          /\ r.q \in DOMAIN c.def => d.def[r.q].status = r.status
  /\ r.kind = "UNITS"  => SameAction(c, d, r.q) /\ SameAssigns(c, d, r.q) /\ SameDefine(c, d, r.q)

(* The records of a quantity after another one. *)
LEMMA AppendRecord ==
  ASSUME NEW s, s \in Seq(Range(s)), NEW x
  PROVE  Append(s, x) \in Seq(Range(Append(s, x)))
<1>1. Append(s, x) \in Seq(Range(s) \cup {x})
  OBVIOUS
<1> DEFINE u == Append(s, x)
<1> HIDE DEF u
<1>2. u \in Seq(Range(s) \cup {x})
  BY <1>1 DEF u
<1>3. \A i \in 1 .. Len(u) : u[i] \in Range(u)
  BY <1>2 DEF Range
<1>4. u \in Seq(Range(u))
  <2>1. u = [i \in 1 .. Len(u) |-> u[i]] /\ Len(u) \in Nat
    BY <1>2
  <2> QED
    BY <1>3, <2>1, SeqDef
<1> QED
  BY <1>4 DEF u

(* An ASSIGN leaves the other quantities, and a sound configuration. *)
LEMMA AssignedKeeps ==
  ASSUME NEW c, ConfigSound(c), NEW q \in Quantities,
         NEW d, IsConfig(d), Entered(c, d, q, "ASSIGN"), d.def = c.def,
         NEW s, s \in Seq(Range(s)), d.asg = c.asg \/ d.asg = Put(c.asg, q, s),
         c.pending \subseteq d.pending, d.pending \subseteq c.pending \cup {q},
         d.pending \subseteq DOMAIN d.asg
  PROVE  /\ ConfigSound(d)
         /\ Extends(d.index, c.index)
         /\ Known(d) = Known(c) \cup {q} /\ d.action[q] = "ASSIGN"
         /\ DOMAIN c.asg \subseteq DOMAIN d.asg /\ DOMAIN d.asg \subseteq DOMAIN c.asg \cup {q}
         /\ \A x : x # q => SameAction(c, d, x) /\ SameAssigns(c, d, x) /\ SameDefine(c, d, x)
         /\ SameDefine(c, d, q)
<1>1. /\ d.index \in Seq(Quantities)
      /\ \A i, j \in DOMAIN d.index : d.index[i] = d.index[j] => i = j
      /\ Range(d.index) = Known(d)
      /\ Extends(d.index, c.index)
      /\ Known(d) = Known(c) \cup {q}
      /\ d.action \in [Known(d) -> {"ASSIGN", "DEFINE"}]
      /\ d.action[q] = "ASSIGN"
      /\ \A x \in Known(c) : x # q => d.action[x] = c.action[x]
  BY EnteredSound
<1>2. /\ DOMAIN d.asg = DOMAIN c.asg \/ DOMAIN d.asg = DOMAIN c.asg \cup {q}
      /\ \A x \in DOMAIN c.asg : x # q => d.asg[x] = c.asg[x]
      /\ q \in DOMAIN d.asg => (d.asg[q] = s \/ (q \in DOMAIN c.asg /\ d.asg[q] = c.asg[q]))
  <2> DEFINE f == c.asg
             g == d.asg
  <2>1. g = f \/ g = Put(f, q, s)
    OBVIOUS
  <2> HIDE DEF f, g
  <2>2. /\ DOMAIN g = DOMAIN f \/ DOMAIN g = DOMAIN f \cup {q}
        /\ \A x \in DOMAIN f : x # q => g[x] = f[x]
        /\ q \in DOMAIN g => (g[q] = s \/ (q \in DOMAIN f /\ g[q] = f[q]))
    <3> DEFINE h == Put(f, q, s)
    <3>1. DOMAIN h = DOMAIN f \cup {q} /\ h[q] = s /\ \A x \in DOMAIN f : x # q => h[x] = f[x]
      BY DEF Put
    <3> HIDE DEF h
    <3>2. g = f \/ g = h
      BY <2>1 DEF h
    <3> QED
      BY <3>1, <3>2
  <2> QED
    BY <2>2 DEF f, g
<1>3. /\ \A x \in DOMAIN c.asg : c.asg[x] \in Seq(Range(c.asg[x]))
      /\ c.pending \subseteq DOMAIN c.asg
      /\ DOMAIN c.asg \subseteq Known(c) /\ DOMAIN c.def \subseteq Known(c)
      /\ c.def = [x \in DOMAIN c.def |-> [expr |-> c.def[x].expr, status |-> c.def[x].status]]
      /\ \A x \in Known(c) : c.action[x] = "DEFINE" => x \in DOMAIN c.def
  BY DEF ConfigSound
<1>4. \A x \in DOMAIN d.asg : d.asg[x] \in Seq(Range(d.asg[x]))
  BY <1>2, <1>3
<1>5. d.pending \subseteq DOMAIN d.asg /\ DOMAIN d.asg \subseteq Known(d)
  BY <1>1, <1>2, <1>3
<1>6. \A x \in Known(d) : d.action[x] = "DEFINE" => x \in DOMAIN d.def
  BY <1>1, <1>3
<1>7. ConfigSound(d)
  BY <1>1, <1>3, <1>4, <1>5, <1>6 DEF ConfigSound
<1>8. \A x : x # q => SameAction(c, d, x) /\ SameAssigns(c, d, x) /\ SameDefine(c, d, x)
  BY <1>1, <1>2, <1>3 DEF SameAction, SameAssigns, SameDefine
<1>9. SameDefine(c, d, q)
  BY DEF SameDefine
<1> QED
  BY <1>1, <1>2, <1>7, <1>8, <1>9

(* The records of an ASSIGN leave a sound configuration. *)
LEMMA AssignedSound ==
  ASSUME NEW c, ConfigSound(c), NEW r, LegalRecord(r), r.kind = "ASSIGN",
         NEW d, IsConfig(d), Entered(c, d, r.q, "ASSIGN"), d.def = c.def,
         NEW s, s \in Seq(Range(s)), d.asg = c.asg \/ d.asg = Put(c.asg, r.q, s),
         d.pending = IF r.q \in DOMAIN d.asg THEN c.pending \cup {r.q} ELSE c.pending
  PROVE  Effect(c, d, r)
<1> DEFINE q == r.q
<1>1. q \in Quantities
  BY DEF LegalRecord
<1>2. DOMAIN c.asg \subseteq DOMAIN d.asg
  BY DEF Put
<1>3. /\ c.pending \subseteq d.pending /\ d.pending \subseteq c.pending \cup {q}
      /\ d.pending \subseteq DOMAIN d.asg
  BY <1>2 DEF ConfigSound
<1>4. /\ ConfigSound(d)
      /\ Extends(d.index, c.index)
      /\ Known(d) = Known(c) \cup {q} /\ d.action[q] = "ASSIGN"
      /\ \A x : x # q => SameAction(c, d, x) /\ SameAssigns(c, d, x) /\ SameDefine(c, d, x)
      /\ SameDefine(c, d, q)
  BY <1>1, <1>3, AssignedKeeps
<1> QED
  BY <1>2, <1>4 DEF Effect

(* The record that an ASSIGN adds, when it adds one, to those there are. *)
GivenWells(r, matches) == IF r.dynamic THEN matches ELSE r.wells
GivenRecord(r, matches) == [wells |-> GivenWells(r, matches), val |-> r.val]
RecordsOf(c, q) == IF q \in DOMAIN c.asg THEN c.asg[q] ELSE << >>

Assigned(c, d, r, matches) ==
  /\ IsConfig(d) /\ Entered(c, d, r.q, "ASSIGN") /\ d.def = c.def
  /\ d.asg = IF GivenWells(r, matches) = {} THEN c.asg
             ELSE Put(c.asg, r.q, Append(RecordsOf(c, r.q), GivenRecord(r, matches)))
  /\ d.pending = IF r.q \in DOMAIN d.asg THEN c.pending \cup {r.q} ELSE c.pending

(* The fields after an ASSIGN. *)
LEMMA AddAssignFields ==
  ASSUME NEW c, IsConfig(c), NEW r, NEW matches, NEW d, d = add_assign(c, r, matches)
  PROVE  Assigned(c, d, r, matches)
<1> DEFINE q == r.q
           n == add_node(c, q, "ASSIGN")
           S == GivenWells(r, matches)
           s == RecordsOf(c, q)
           x == GivenRecord(r, matches)
           a == IF S = {} THEN n ELSE add_assign_impl(n, q, S, r.val)
<1>1. /\ IsConfig(n) /\ Entered(c, n, q, "ASSIGN") /\ n.def = c.def /\ n.asg = c.asg
      /\ n.pending = c.pending /\ n.units = c.units
  BY AddNode
<1>2. add_assign_impl(n, q, S, r.val)
        = [n EXCEPT !.asg = Put(n.asg, q, Append(IF q \in DOMAIN n.asg THEN n.asg[q] ELSE << >>, x))]
  BY DEF add_assign_impl, GivenRecord
<1>3. d = [a EXCEPT !.pending = IF q \in DOMAIN a.asg THEN a.pending \cup {q} ELSE a.pending]
  BY DEF add_assign, GivenWells
<1>4. s = IF q \in DOMAIN c.asg THEN c.asg[q] ELSE << >>
  BY DEF RecordsOf
<1> HIDE DEF n, x, q, S, s
<1> DEFINE asg == Put(c.asg, q, Append(s, x))
<1>5. add_assign_impl(n, q, S, r.val) = [n EXCEPT !.asg = asg]
  BY <1>1, <1>2, <1>4
<1> HIDE DEF asg
<1>6. /\ IsConfig(a) /\ a.index = n.index /\ a.action = n.action /\ a.def = n.def
      /\ a.pending = n.pending /\ a.asg = IF S = {} THEN c.asg ELSE asg
  BY <1>1, <1>5 DEF IsConfig
<1> HIDE DEF a
<1> DEFINE pending == IF q \in DOMAIN a.asg THEN c.pending \cup {q} ELSE c.pending
<1>7. d = [a EXCEPT !.pending = pending]
  BY <1>1, <1>3, <1>6
<1> HIDE DEF pending
<1>8. /\ IsConfig(d) /\ d.index = n.index /\ d.action = n.action /\ d.def = c.def
      /\ d.asg = a.asg /\ d.pending = pending
  BY <1>1, <1>6, <1>7 DEF IsConfig
<1>9. Entered(c, d, q, "ASSIGN")
  BY <1>1, <1>8 DEF Entered
<1> QED
  BY <1>6, <1>8, <1>9 DEF Assigned, asg, pending, q, x, S, s

(* What an ASSIGN does to its quantity. *)
LEMMA AddAssign ==
  ASSUME NEW c, ConfigSound(c), NEW r, LegalRecord(r), r.kind = "ASSIGN", NEW matches
  PROVE  Effect(c, add_assign(c, r, matches), r)
<1> DEFINE s0 == RecordsOf(c, r.q)
           s == Append(s0, GivenRecord(r, matches))
           d == add_assign(c, r, matches)
<1>1. s0 \in Seq(Range(s0))
  <2>1. << >> \in Seq(Range(<< >>))
    OBVIOUS
  <2> QED
    BY <2>1 DEF ConfigSound, RecordsOf
<1>2. Assigned(c, d, r, matches)
  BY AddAssignFields DEF ConfigSound
<1> HIDE DEF s0, d
<1>3. s \in Seq(Range(s))
  BY <1>1, AppendRecord
<1>4. /\ IsConfig(d) /\ Entered(c, d, r.q, "ASSIGN") /\ d.def = c.def
      /\ d.asg = c.asg \/ d.asg = Put(c.asg, r.q, s)
      /\ d.pending = IF r.q \in DOMAIN d.asg THEN c.pending \cup {r.q} ELSE c.pending
  BY <1>2 DEF Assigned, s0
<1> HIDE DEF s
<1> QED
  BY <1>3, <1>4, AssignedSound DEF d

(* A definition: its expression and its update status. *)
Definition(x) == x = [expr |-> x.expr, status |-> x.status]

(* A definition leaves the other quantities, and a sound configuration. *)
LEMMA DefinedKeeps ==
  ASSUME NEW c, ConfigSound(c), NEW q \in Quantities,
         NEW d, IsConfig(d), Entered(c, d, q, "DEFINE"), NEW x, Definition(x),
         d.def = Put(c.def, q, x), d.asg = c.asg, d.pending = c.pending
  PROVE  /\ ConfigSound(d)
         /\ Extends(d.index, c.index)
         /\ Known(d) = Known(c) \cup {q} /\ d.action[q] = "DEFINE"
         /\ DOMAIN d.def = DOMAIN c.def \cup {q} /\ d.def[q] = x
         /\ \A y : y # q => SameAction(c, d, y) /\ SameAssigns(c, d, y) /\ SameDefine(c, d, y)
         /\ SameAssigns(c, d, q)
<1> DEFINE f == c.def
           g == d.def
<1>1. x = [expr |-> x.expr, status |-> x.status]
  BY DEF Definition
<1>2. /\ f = [y \in DOMAIN f |-> [expr |-> f[y].expr, status |-> f[y].status]]
      /\ DOMAIN f \subseteq Known(c)
  BY DEF ConfigSound
<1>3. g = Put(f, q, x)
  OBVIOUS
<1> HIDE DEF f, g
<1>4. /\ DOMAIN g = DOMAIN f \cup {q}
      /\ g[q] = x
      /\ \A y \in DOMAIN f : y # q => g[y] = f[y]
      /\ g = [y \in DOMAIN g |-> g[y]]
  BY <1>3 DEF Put
<1>5. \A y \in DOMAIN g : g[y] = [expr |-> g[y].expr, status |-> g[y].status]
  BY <1>1, <1>2, <1>4
<1>6. g = [y \in DOMAIN g |-> [expr |-> g[y].expr, status |-> g[y].status]]
  BY <1>4, <1>5
<1>7. /\ d.index \in Seq(Quantities)
      /\ \A i, j \in DOMAIN d.index : d.index[i] = d.index[j] => i = j
      /\ Range(d.index) = Known(d)
      /\ Extends(d.index, c.index)
      /\ Known(d) = Known(c) \cup {q}
      /\ d.action \in [Known(d) -> {"ASSIGN", "DEFINE"}]
      /\ d.action[q] = "DEFINE"
      /\ \A y \in Known(c) : y # q => d.action[y] = c.action[y]
  BY EnteredSound
<1>8. /\ \A y \in DOMAIN c.asg : c.asg[y] \in Seq(Range(c.asg[y]))
      /\ c.pending \subseteq DOMAIN c.asg /\ DOMAIN c.asg \subseteq Known(c)
      /\ \A y \in Known(c) : c.action[y] = "DEFINE" => y \in DOMAIN f
  BY DEF ConfigSound, f
<1>9. \A y \in Known(d) : d.action[y] = "DEFINE" => y \in DOMAIN g
  BY <1>4, <1>7, <1>8
<1>10. ConfigSound(d)
  BY <1>2, <1>4, <1>6, <1>7, <1>8, <1>9 DEF ConfigSound, g
<1>11. \A y : y # q => SameAction(c, d, y) /\ SameAssigns(c, d, y) /\ SameDefine(c, d, y)
  BY <1>4, <1>7 DEF SameAction, SameAssigns, SameDefine, f, g
<1>12. SameAssigns(c, d, q)
  BY DEF SameAssigns
<1> QED
  BY <1>4, <1>7, <1>10, <1>11, <1>12 DEF f, g

(* The fields after a DEFINE. *)
LEMMA AddDefineFields ==
  ASSUME NEW c, IsConfig(c), NEW q, NEW e, NEW s, NEW d, d = add_define(c, q, e, s)
  PROVE  /\ IsConfig(d) /\ Entered(c, d, q, "DEFINE")
         /\ d.def = Put(c.def, q, [expr |-> e, status |-> s])
         /\ d.asg = c.asg /\ d.pending = c.pending /\ d.units = c.units
<1> DEFINE n == add_node(c, q, "DEFINE")
           p == Put(c.def, q, [expr |-> e, status |-> s])
<1>1. /\ IsConfig(n) /\ Entered(c, n, q, "DEFINE") /\ n.def = c.def /\ n.asg = c.asg
      /\ n.pending = c.pending /\ n.units = c.units
  BY AddNode
<1>2. d = [n EXCEPT !.def = p]
  BY <1>1 DEF add_define
<1> HIDE DEF n, p
<1>3. /\ IsConfig(d) /\ d.index = n.index /\ d.action = n.action /\ d.def = p
      /\ d.asg = n.asg /\ d.pending = n.pending /\ d.units = n.units
  BY <1>1, <1>2 DEF IsConfig
<1>4. Entered(c, d, q, "DEFINE")
  BY <1>1, <1>3 DEF Entered
<1> QED
  BY <1>1, <1>3, <1>4 DEF p

(* What a DEFINE does to its quantity. *)
LEMMA AddDefine ==
  ASSUME NEW c, ConfigSound(c), NEW r, LegalRecord(r), r.kind = "DEFINE", NEW s
  PROVE  Effect(c, add_define(c, r.q, r.expr, s), r)
<1> DEFINE d == add_define(c, r.q, r.expr, s)
           q == r.q
           x == [expr |-> r.expr, status |-> s]
<1>1. /\ IsConfig(d) /\ Entered(c, d, q, "DEFINE") /\ d.def = Put(c.def, q, x)
      /\ d.asg = c.asg /\ d.pending = c.pending
  BY AddDefineFields DEF ConfigSound
<1>2. q \in Quantities /\ Definition(x)
  BY DEF LegalRecord, Definition
<1> HIDE DEF d, q, x
<1>3. /\ ConfigSound(d)
      /\ Extends(d.index, c.index)
      /\ Known(d) = Known(c) \cup {q} /\ d.action[q] = "DEFINE"
      /\ DOMAIN d.def = DOMAIN c.def \cup {q}
      /\ \A y : y # q => SameAction(c, d, y) /\ SameAssigns(c, d, y) /\ SameDefine(c, d, y)
      /\ SameAssigns(c, d, q)
  BY <1>1, <1>2, DefinedKeeps
<1> QED
  BY <1>1, <1>3 DEF Effect, d, q

(* The definitions of a sound configuration. *)
LEMMA DefinitionsOf ==
  ASSUME NEW c, ConfigSound(c)
  PROVE  /\ IsConfig(c)
         /\ c.def = [q \in DOMAIN c.def |-> c.def[q]]
         /\ \A q \in DOMAIN c.def : Definition(c.def[q])
<1> DEFINE f == c.def
<1>1. f = [q \in DOMAIN f |-> [expr |-> f[q].expr, status |-> f[q].status]] /\ IsConfig(c)
  BY DEF ConfigSound
<1> HIDE DEF f
<1>2. \A q \in DOMAIN f : f[q] = [expr |-> f[q].expr, status |-> f[q].status]
  BY <1>1
<1>3. f = [q \in DOMAIN f |-> f[q]]
  BY <1>1
<1> QED
  BY <1>1, <1>2, <1>3 DEF Definition, f

(* The fields after an UPDATE. *)
LEMMA AddUpdateFields ==
  ASSUME NEW c, ConfigSound(c), NEW q, NEW s, NEW d, d = add_update(c, q, s)
  PROVE  /\ IsConfig(d) /\ d.index = c.index /\ d.action = c.action
         /\ d.asg = c.asg /\ d.pending = c.pending
         /\ d.def = [y \in DOMAIN c.def |-> IF y = q THEN [expr |-> c.def[q].expr, status |-> s]
                                                     ELSE c.def[y]]
<1> DEFINE f == c.def
           h == [y \in DOMAIN f |-> IF y = q THEN [expr |-> f[q].expr, status |-> s] ELSE f[y]]
<1>1. /\ IsConfig(c) /\ f = [y \in DOMAIN f |-> f[y]]
      /\ \A y \in DOMAIN f : Definition(f[y])
  BY DefinitionsOf
<1>2. CASE q \notin DOMAIN f
  <2>1. d = c
    BY <1>2 DEF add_update
  <2>2. h = [y \in DOMAIN f |-> f[y]]
    BY <1>2
  <2> HIDE DEF f, h
  <2> QED
    BY <1>1, <2>1, <2>2 DEF f, h
<1>3. CASE q \in DOMAIN f
  <2> DEFINE g == [f EXCEPT ![q].status = s]
             x == f[q]
  <2>1. d = [c EXCEPT !.def = g]
    BY <1>3 DEF add_update
  <2>2. Definition(x)
    BY <1>1, <1>3
  <2>3. g = [f EXCEPT ![q] = [x EXCEPT !.status = s]]
    OBVIOUS
  <2> HIDE DEF f, g, x
  <2>4. [x EXCEPT !.status = s] = [expr |-> x.expr, status |-> s]
    BY <2>2 DEF Definition
  <2>5. g = [f EXCEPT ![q] = [expr |-> x.expr, status |-> s]]
    BY <2>3, <2>4
  <2>6. g = h
    BY <1>1, <2>5 DEF x
  <2> HIDE DEF h
  <2>7. /\ IsConfig(d) /\ d.index = c.index /\ d.action = c.action /\ d.def = h
        /\ d.asg = c.asg /\ d.pending = c.pending
    BY <1>1, <2>1, <2>6 DEF IsConfig
  <2> QED
    BY <2>7 DEF f, h
<1> QED
  BY <1>2, <1>3
(* What an UPDATE does to its quantity. *)
LEMMA AddUpdate ==
  ASSUME NEW c, ConfigSound(c), NEW r, LegalRecord(r), r.kind = "UPDATE"
  PROVE  Effect(c, add_update(c, r.q, r.status), r)
<1> DEFINE q == r.q
           d == add_update(c, q, r.status)
           f == c.def
           g == [y \in DOMAIN f |-> IF y = q THEN [expr |-> f[q].expr, status |-> r.status] ELSE f[y]]
<1>1. Extends(c.index, c.index)
  BY DEF ConfigSound, Extends
<1>2. /\ IsConfig(d) /\ d.index = c.index /\ d.action = c.action /\ d.def = g
      /\ d.asg = c.asg /\ d.pending = c.pending
  BY AddUpdateFields
<1>3. DOMAIN g = DOMAIN f /\ \A y \in DOMAIN f : y # q => g[y] = f[y]
  OBVIOUS
<1>4. q \in DOMAIN f => g[q].status = r.status
  OBVIOUS
<1>5. g = [y \in DOMAIN g |-> [expr |-> g[y].expr, status |-> g[y].status]]
  <2>1. \A y \in DOMAIN f : Definition(f[y])
    BY DefinitionsOf
  <2>2. \A y \in DOMAIN f : g[y] = [expr |-> g[y].expr, status |-> g[y].status]
    BY <2>1 DEF Definition
  <2>3. g = [y \in DOMAIN g |-> g[y]]
    OBVIOUS
  <2> HIDE DEF g
  <2> QED
    BY <1>3, <2>2, <2>3
<1> HIDE DEF g, d, q
<1>6. Known(d) = Known(c)
  BY <1>2 DEF Known
<1>7. ConfigSound(d)
  BY <1>2, <1>3, <1>5, <1>6 DEF ConfigSound
<1>8. /\ \A y : y # q => SameAction(c, d, y) /\ SameAssigns(c, d, y) /\ SameDefine(c, d, y)
      /\ SameAction(c, d, q) /\ SameAssigns(c, d, q)
  BY <1>2, <1>3, <1>6 DEF SameAction, SameAssigns, SameDefine
<1>9. Extends(d.index, c.index)
  BY <1>1, <1>2
<1> HIDE DEF f
<1> QED
  BY <1>2, <1>3, <1>4, <1>7, <1>8, <1>9 DEF Effect, d, q, f

(* What UNITS does: no quantity, action or definition is touched. *)
LEMMA AddUnit ==
  ASSUME NEW c, ConfigSound(c), NEW r, r.kind = "UNITS", NEW q, NEW u
  PROVE  Effect(c, add_unit(c, q, u), r)
<1> DEFINE p == Put(c.units, q, u)
           d == add_unit(c, q, u)
<1>1. d = [c EXCEPT !.units = p]
  BY DEF add_unit
<1>2. IsConfig(c) /\ c.index \in Seq(Quantities)
  BY DEF ConfigSound
<1> HIDE DEF p, d
<1>3. /\ IsConfig(d) /\ d.index = c.index /\ d.action = c.action /\ d.def = c.def
      /\ d.asg = c.asg /\ d.pending = c.pending
  BY <1>1, <1>2 DEF IsConfig
<1>4. ConfigSound(d)
  BY <1>3 DEF ConfigSound, Known
<1>5. Extends(d.index, c.index)
  BY <1>2, <1>3 DEF Extends
<1>6. \A y : SameAction(c, d, y) /\ SameAssigns(c, d, y) /\ SameDefine(c, d, y)
  BY <1>3 DEF SameAction, SameAssigns, SameDefine, Known
<1> QED
  BY <1>3, <1>4, <1>5, <1>6 DEF Effect, d

(* A record that is not refused does to its quantity what it says. *)
LEMMA AddRecord ==
  ASSUME NEW c, ConfigSound(c), NEW r, LegalRecord(r), NEW matches
  PROVE  Effect(c, add_record(c, r, matches), r)
<1>1. CASE r.kind = "ASSIGN"
  BY <1>1, AddAssign DEF add_record
<1>2. CASE r.kind = "DEFINE"
  BY <1>2, AddDefine DEF add_record
<1>3. CASE r.kind = "UPDATE"
  BY <1>3, AddUpdate DEF add_record
<1>4. CASE r.kind = "UNITS"
  BY <1>4, AddUnit DEF add_record
<1> QED
  BY <1>1, <1>2, <1>3, <1>4 DEF LegalRecord
-----------------------------------------------------------------------------
(* A keyword.  What the first k records of it do to the configuration p    *)
(* was given with.                                                         *)
HandleOp(p, done, r) ==
  IF ~done.ok \/ refused(done.config, r, p.inAction)
  THEN [ok |-> FALSE, config |-> p.config]
  ELSE [ok |-> TRUE, config |-> add_record(done.config, r, p.matches)]

Speaks(r, q) == r.q = q /\ r.kind \in {"ASSIGN", "DEFINE", "UPDATE"}
Gives(r, q) == r.q = q /\ r.kind \in {"ASSIGN", "DEFINE"}

StatedSoFar(c, d, records, k, q) ==
  /\ (\A i \in 1 .. k : ~Gives(records[i], q)) => SameAction(c, d, q) /\ SameAssigns(c, d, q)
  /\ (\A i \in 1 .. k : ~Speaks(records[i], q)) => SameDefine(c, d, q)
  /\ (\E i \in 1 .. k : Speaks(records[i], q)) => q \in Known(d)
  /\ (\E i \in 1 .. k : Gives(records[i], q)) =>
        (d.action[q] = "ASSIGN" /\ q \in DOMAIN d.asg => q \in d.pending)
  /\ \A i \in 1 .. k :
        /\ records[i].q = q /\ records[i].kind = "UPDATE"
        /\ \A j \in i + 1 .. k : ~Speaks(records[j], q)
        => (q \in DOMAIN d.def => d.def[q].status = records[i].status)

Outcome(c, d, records, k) ==
  /\ ConfigSound(d)
  /\ Extends(d.index, c.index)
  /\ \A q \in DOMAIN c.asg \cup DOMAIN c.def : q \in DOMAIN d.asg \cup DOMAIN d.def
  /\ \A q : StatedSoFar(c, d, records, k, q)

HandleInv(p, k, done) ==
  /\ done = [ok |-> done.ok, config |-> done.config] /\ done.ok \in BOOLEAN
  /\ ~done.ok => done.config = p.config
  /\ done.ok => Outcome(p.config, done.config, p.records, k)

Handled == INSTANCE Recursion WITH Op <- HandleOp, Inv <- HandleInv

(* An index that was extended twice was extended. *)
LEMMA ExtendsTrans ==
  ASSUME NEW a \in Seq(Quantities), NEW b \in Seq(Quantities), NEW d \in Seq(Quantities),
         Extends(b, a), Extends(d, b)
  PROVE  Extends(d, a)
<1>1. DOMAIN a \subseteq DOMAIN b
  BY DEF Extends
<1> QED
  BY <1>1 DEF Extends

(* The statements among the first k records of a keyword. *)
LEMMA StatedStep ==
  ASSUME NEW c, NEW d, NEW e, NEW records, NEW k \in Nat, NEW q,
         StatedSoFar(c, d, records, k, q), ConfigSound(d),
         Effect(d, e, records[k + 1]), LegalRecord(records[k + 1]),
         records[k + 1].kind = "UPDATE" => records[k + 1].q \in Known(d)
  PROVE  StatedSoFar(c, e, records, k + 1, q)
<1> DEFINE r == records[k + 1]
<1>1. 1 .. k + 1 = (1 .. k) \cup {k + 1}
  OBVIOUS
<1>2. CASE ~Speaks(r, q)
  <2>1. SameAction(d, e, q) /\ SameAssigns(d, e, q) /\ SameDefine(d, e, q)
    BY <1>2 DEF Effect, LegalRecord, Speaks
  <2>2. ~Gives(r, q)
    BY <1>2 DEF Speaks, Gives
  <2> HIDE DEF r
  <2>3. (\A i \in 1 .. k + 1 : ~Gives(records[i], q)) => SameAction(c, e, q) /\ SameAssigns(c, e, q)
    BY <1>1, <2>1 DEF StatedSoFar, SameAction, SameAssigns
  <2>4. (\A i \in 1 .. k + 1 : ~Speaks(records[i], q)) => SameDefine(c, e, q)
    BY <1>1, <2>1 DEF StatedSoFar, SameDefine
  <2>5. (\E i \in 1 .. k + 1 : Speaks(records[i], q)) => q \in Known(e)
    BY <1>1, <1>2, <2>1 DEF StatedSoFar, SameAction, r
  <2>6. (\E i \in 1 .. k + 1 : Gives(records[i], q)) =>
          (e.action[q] = "ASSIGN" /\ q \in DOMAIN e.asg => q \in e.pending)
    <3> SUFFICES ASSUME NEW i \in 1 .. k + 1, Gives(records[i], q)
                 PROVE  e.action[q] = "ASSIGN" /\ q \in DOMAIN e.asg => q \in e.pending
      OBVIOUS
    <3>1. i \in 1 .. k
      BY <1>1, <2>2 DEF r
    <3>2. q \in Known(d)
      BY <3>1 DEF StatedSoFar, Gives, Speaks
    <3>3. d.action[q] = "ASSIGN" /\ q \in DOMAIN d.asg => q \in d.pending
      BY <3>1 DEF StatedSoFar
    <3> QED
      BY <2>1, <3>2, <3>3 DEF SameAction, SameAssigns
  <2>7. ASSUME NEW i \in 1 .. k + 1, records[i].q = q, records[i].kind = "UPDATE",
               \A j \in i + 1 .. k + 1 : ~Speaks(records[j], q), q \in DOMAIN e.def
        PROVE  e.def[q].status = records[i].status
    <3>1. i \in 1 .. k
      BY <1>1, <1>2, <2>7 DEF r, Speaks
    <3>2. \A j \in i + 1 .. k : j \in i + 1 .. k + 1
      BY <3>1
    <3>3. q \in DOMAIN d.def /\ e.def[q] = d.def[q]
      BY <2>1, <2>7 DEF SameDefine
    <3> QED
      BY <2>7, <3>1, <3>2, <3>3 DEF StatedSoFar
  <2> QED
    BY <2>3, <2>4, <2>5, <2>6, <2>7 DEF StatedSoFar
<1>3. CASE Speaks(r, q)
  <2>1. r.q = q /\ r.kind \in {"ASSIGN", "DEFINE", "UPDATE"} /\ k + 1 \in 1 .. k + 1
    BY <1>3 DEF Speaks
  <2>2. r.kind = "ASSIGN" => /\ q \in Known(e)
                             /\ q \in DOMAIN e.asg => q \in e.pending
    BY <2>1 DEF Effect
  <2>3. r.kind = "DEFINE" => q \in Known(e) /\ e.action[q] = "DEFINE"
    BY <2>1 DEF Effect
  <2>4. r.kind = "UPDATE" => /\ SameAction(d, e, q) /\ SameAssigns(d, e, q)
                             /\ q \in DOMAIN e.def <=> q \in DOMAIN d.def
                             /\ q \in DOMAIN d.def => e.def[q].status = r.status
    BY <2>1 DEF Effect
  <2>5. q \in Known(e)
    BY <2>1, <2>2, <2>3, <2>4 DEF SameAction
  <2>6. r.kind # "UPDATE" => Gives(r, q)
    BY <2>1 DEF Gives
  <2>7. (\A i \in 1 .. k + 1 : ~Gives(records[i], q)) => SameAction(c, e, q) /\ SameAssigns(c, e, q)
    BY <1>1, <2>1, <2>4, <2>6 DEF StatedSoFar, SameAction, SameAssigns
  <2>8. ~\A i \in 1 .. k + 1 : ~Speaks(records[i], q)
    BY <1>3, <2>1
  <2>9. (\E i \in 1 .. k + 1 : Gives(records[i], q)) =>
          (e.action[q] = "ASSIGN" /\ q \in DOMAIN e.asg => q \in e.pending)
    <3>1. CASE r.kind = "UPDATE"
      <4>1. ~Gives(r, q)
        BY <3>1 DEF Gives
      <4> SUFFICES ASSUME NEW i \in 1 .. k + 1, Gives(records[i], q)
                   PROVE  e.action[q] = "ASSIGN" /\ q \in DOMAIN e.asg => q \in e.pending
        OBVIOUS
      <4>2. i \in 1 .. k
        BY <1>1, <4>1
      <4>3. q \in Known(d)
        BY <4>2 DEF StatedSoFar, Gives, Speaks
      <4>4. d.action[q] = "ASSIGN" /\ q \in DOMAIN d.asg => q \in d.pending
        BY <4>2 DEF StatedSoFar
      <4> QED
        BY <2>4, <3>1, <4>3, <4>4 DEF SameAction, SameAssigns
    <3>2. CASE r.kind # "UPDATE"
      BY <2>1, <2>2, <2>3, <3>2
    <3> QED
      BY <3>1, <3>2
  <2>10. ASSUME NEW i \in 1 .. k + 1, records[i].q = q, records[i].kind = "UPDATE",
                \A j \in i + 1 .. k + 1 : ~Speaks(records[j], q), q \in DOMAIN e.def
         PROVE  e.def[q].status = records[i].status
    <3>1. i = k + 1
      <4>1. i \in 1 .. k => k + 1 \in i + 1 .. k + 1
        OBVIOUS
      <4> QED
        BY <1>1, <1>3, <2>10, <4>1
    <3> QED
      BY <2>4, <2>10, <3>1
  <2> QED
    BY <2>5, <2>7, <2>8, <2>9, <2>10 DEF StatedSoFar
<1> QED
  BY <1>2, <1>3

(* One record more of the keyword. *)
LEMMA HandledStep ==
  ASSUME NEW p, NEW k \in Nat \ {0}, NEW done, HandleInv(p, k - 1, done), ConfigSound(p.config),
         LegalRecord(p.records[k])
  PROVE  HandleInv(p, k, HandleOp(p, done, p.records[k]))
<1> DEFINE r == p.records[k]
           d == done.config
           e == add_record(d, r, p.matches)
<1>1. CASE ~done.ok \/ refused(d, r, p.inAction)
  BY <1>1 DEF HandleOp, HandleInv
<1>2. CASE done.ok /\ ~refused(d, r, p.inAction)
  <2>1. HandleOp(p, done, r) = [ok |-> TRUE, config |-> e]
    BY <1>2 DEF HandleOp
  <2>2. Outcome(p.config, d, p.records, k - 1)
    BY <1>2 DEF HandleInv
  <2>3. ConfigSound(d)
    BY <2>2 DEF Outcome
  <2>4. Effect(d, e, r)
    BY <2>3, AddRecord
  <2>5. r.kind = "UPDATE" => r.q \in Known(d)
    BY <1>2, <2>3 DEF refused, ConfigSound
  <2> HIDE DEF d, e, r
  <2>6. ConfigSound(e) /\ Extends(e.index, d.index) /\ Extends(d.index, p.config.index)
    BY <2>2, <2>4 DEF Effect, Outcome
  <2>7. Extends(e.index, p.config.index)
    <3>1. /\ e.index \in Seq(Quantities) /\ d.index \in Seq(Quantities)
          /\ p.config.index \in Seq(Quantities)
      BY <2>3, <2>6 DEF ConfigSound
    <3> QED
      BY <2>6, <3>1, ExtendsTrans
  <2>8. \A q \in DOMAIN p.config.asg \cup DOMAIN p.config.def : q \in DOMAIN e.asg \cup DOMAIN e.def
    BY <2>2, <2>4 DEF Effect, Outcome
  <2>9. ASSUME NEW q PROVE StatedSoFar(p.config, e, p.records, k, q)
    <3> DEFINE m == k - 1
    <3>1. m \in Nat /\ m + 1 = k
      OBVIOUS
    <3>2. StatedSoFar(p.config, d, p.records, m, q)
      BY <2>2 DEF Outcome
    <3>3. /\ LegalRecord(p.records[m + 1]) /\ Effect(d, e, p.records[m + 1])
          /\ p.records[m + 1].kind = "UPDATE" => p.records[m + 1].q \in Known(d)
      BY <2>4, <2>5, <3>1 DEF r
    <3> HIDE DEF m
    <3>4. StatedSoFar(p.config, e, p.records, m + 1, q)
      BY <2>3, <3>1, <3>2, <3>3, StatedStep
    <3> QED
      BY <3>1, <3>4
  <2>10. Outcome(p.config, e, p.records, k)
    BY <2>6, <2>7, <2>8, <2>9 DEF Outcome
  <2>11. HandleInv(p, k, [ok |-> TRUE, config |-> e])
    BY <2>10 DEF HandleInv
  <2> QED
    BY <2>1, <2>11 DEF r
<1>3. done.ok \in BOOLEAN
  BY DEF HandleInv
<1> QED
  BY <1>1, <1>2, <1>3

(* What the keyword makes of a sound configuration. *)
LEMMA HandleUDQ ==
  ASSUME NEW c, ConfigSound(c), NEW records, Legal(records), NEW matches, NEW inAction
  PROVE  LET done == handleUDQ(c, records, matches, inAction)
         IN  /\ done.ok \in BOOLEAN
             /\ ~done.ok => done.config = c
             /\ done.ok => Outcome(c, done.config, records, Len(records))
             /\ ConfigSound(done.config)
<1> DEFINE p == [config |-> c, records |-> records, matches |-> matches, inAction |-> inAction]
           first == [ok |-> TRUE, config |-> c]
           done == handleUDQ(c, records, matches, inAction)
<1>1. done = Handled!Fold(p, first, records)
  BY DEF Handled!Fold, HandleOp, handleUDQ, FoldLeft, MapThenFoldSet, Handled!MapThenFoldSet, Max, Handled!Max
<1>2. records \in Seq(Range(records)) /\ \A r \in Range(records) : LegalRecord(r)
  BY DEF Legal
<1>3. HandleInv(p, 0, first)
  <2>1. c.index \in Seq(Quantities)
    BY DEF ConfigSound
  <2>2. Extends(c.index, c.index)
    BY <2>1 DEF Extends
  <2>3. 1 .. 0 = {}
    OBVIOUS
  <2>4. \A q : StatedSoFar(c, c, records, 0, q)
    BY <2>3 DEF StatedSoFar, SameAction, SameAssigns, SameDefine
  <2>5. Outcome(c, c, records, 0)
    BY <2>2, <2>4 DEF Outcome
  <2> QED
    BY <2>5 DEF HandleInv
<1>4. ASSUME NEW k \in 1 .. Len(records), NEW a, HandleInv(p, k - 1, a)
      PROVE  HandleInv(p, k, HandleOp(p, a, records[k]))
  <2>1. k \in Nat \ {0} /\ LegalRecord(records[k])
    <3>1. k \in DOMAIN records /\ k \in Nat \ {0}
      BY <1>2
    <3> QED
      BY <1>2, <3>1 DEF Range
  <2>2. p.records = records /\ p.config = c
    OBVIOUS
  <2> HIDE DEF p
  <2> QED
    BY <1>4, <2>1, <2>2, HandledStep
<1> HIDE DEF p, first
<1>5. HandleInv(p, Len(records), Handled!Fold(p, first, records))
  BY <1>2, <1>3, <1>4, Handled!FoldKeeps
<1>6. p.config = c /\ p.records = records
  BY DEF p
<1> HIDE DEF done
<1>7. HandleInv(p, Len(records), done)
  BY <1>1, <1>5
<1>8. done.ok => ConfigSound(done.config)
  BY <1>6, <1>7 DEF HandleInv, Outcome
<1> QED
  BY <1>6, <1>7, <1>8 DEF HandleInv, done

(* A keyword without records leaves everything as it is. *)
LEMMA HandleNothing ==
  ASSUME NEW c, NEW matches, NEW inAction
  PROVE  handleUDQ(c, << >>, matches, inAction) = [ok |-> TRUE, config |-> c]
<1> DEFINE p == [config |-> c, matches |-> matches, inAction |-> inAction]
           first == [ok |-> TRUE, config |-> c]
<1>1. handleUDQ(c, << >>, matches, inAction) = Handled!Fold(p, first, << >>)
  BY DEF Handled!Fold, HandleOp, handleUDQ, FoldLeft, MapThenFoldSet, Handled!MapThenFoldSet, Max, Handled!Max
<1>2. Handled!Fold(p, first, << >>) = first
  BY ONLY Handled!FoldNothing
<1> QED
  BY <1>1, <1>2

-----------------------------------------------------------------------------
(* The two ways to clear a configuration.                                  *)
LEMMA AfterNextIs ==
  ASSUME NEW x, Definition(x)
  PROVE  /\ Definition(AfterNext(x))
         /\ AfterNext(x).expr = x.expr
         /\ AfterNext(x).status = IF x.status = "NEXT" THEN "OFF" ELSE x.status
         /\ AfterNext(AfterNext(x)) = AfterNext(x)
<1> DEFINE y == [x EXCEPT !.status = "OFF"]
<1>1. y = [expr |-> x.expr, status |-> "OFF"]
  BY DEF Definition
<1> HIDE DEF y
<1>2. AfterNext(x) = IF x.status = "NEXT" THEN y ELSE x
  BY DEF AfterNext, y
<1> DEFINE z == AfterNext(x)
<1>3. z = IF x.status = "NEXT" THEN y ELSE x
  BY <1>2
<1> HIDE DEF z
<1>4. Definition(z) /\ z.expr = x.expr /\ z.status = IF x.status = "NEXT" THEN "OFF" ELSE x.status
  BY <1>1, <1>3 DEF Definition
<1>5. AfterNext(z) = z
  BY <1>4 DEF AfterNext
<1> QED
  BY <1>4, <1>5 DEF z

(* What changes are the pending ASSIGNs and the definitions. *)
ClearedTo(c, d, g) ==
  /\ IsConfig(d) /\ d.index = c.index /\ d.action = c.action /\ d.asg = c.asg
  /\ d.pending = {} /\ d.units = c.units /\ d.def = g

(* The next snapshot has nothing pending, and no UPDATE NEXT. *)
LEMMA Cleared ==
  ASSUME NEW c, IsConfig(c)
  PROVE  ClearedTo(c, NewReportStep(c), [q \in DOMAIN c.def |-> AfterNext(c.def[q])])
<1> DEFINE b == [c EXCEPT !.pending = {}]
           g == [q \in DOMAIN c.def |-> AfterNext(c.def[q])]
           d == NewReportStep(c)
<1>1. ClearedTo(c, b, c.def)
  BY DEF IsConfig, ClearedTo
<1>2. d = clear_update_next(b)
  BY DEF NewReportStep, clear_pending_assignments
<1> HIDE DEF b, d, g
<1>3. d = [b EXCEPT !.def = g]
  BY <1>1, <1>2 DEF clear_update_next, ClearedTo, g
<1>4. ClearedTo(c, d, g)
  BY <1>1, <1>3 DEF ClearedTo, IsConfig
<1> QED
  BY <1>4 DEF d, g

(* An evaluation clears what it has served. *)
LEMMA EvaluatedIs ==
  ASSUME NEW c, IsConfig(c)
  PROVE  ClearedTo(c, evaluated(c), [q \in DOMAIN c.def |-> IF q \in Known(c) /\ Defining(c, q)
                                                            THEN AfterNext(c.def[q]) ELSE c.def[q]])
<1> DEFINE g == [q \in DOMAIN c.def |-> IF q \in Known(c) /\ Defining(c, q)
                                        THEN AfterNext(c.def[q]) ELSE c.def[q]]
           d == evaluated(c)
<1>1. d = [c EXCEPT !.pending = {}, !.def = g]
  BY DEF evaluated
<1> HIDE DEF g, d
<1>2. ClearedTo(c, d, g)
  BY <1>1 DEF IsConfig, ClearedTo
<1> QED
  BY <1>2 DEF d, g

(* A configuration that was cleared is sound. *)
LEMMA ClearedSound ==
  ASSUME NEW c, ConfigSound(c), NEW d, NEW g, ClearedTo(c, d, g),
         DOMAIN g = DOMAIN c.def, g = [q \in DOMAIN g |-> g[q]], \A q \in DOMAIN g : Definition(g[q])
  PROVE  ConfigSound(d)
<1>1. g = [q \in DOMAIN g |-> [expr |-> g[q].expr, status |-> g[q].status]]
  BY DEF Definition
<1>2. Known(d) = Known(c)
  BY DEF ClearedTo, Known
<1> QED
  BY <1>1, <1>2 DEF ConfigSound, ClearedTo

(* The next snapshot starts out sound. *)
LEMMA NewReportStepSound ==
  ASSUME NEW c, ConfigSound(c) PROVE ConfigSound(NewReportStep(c))
<1> DEFINE g == [q \in DOMAIN c.def |-> AfterNext(c.def[q])]
<1>1. ClearedTo(c, NewReportStep(c), g)
  BY Cleared, DefinitionsOf
<1>2. \A q \in DOMAIN g : Definition(g[q])
  BY DefinitionsOf, AfterNextIs
<1>3. DOMAIN g = DOMAIN c.def /\ g = [q \in DOMAIN g |-> g[q]]
  OBVIOUS
<1> HIDE DEF g
<1> QED
  BY <1>1, <1>2, <1>3, ClearedSound

(* An evaluation leaves a sound configuration. *)
LEMMA EvaluatedSound ==
  ASSUME NEW c, ConfigSound(c) PROVE ConfigSound(evaluated(c))
<1> DEFINE on(q) == q \in Known(c) /\ Defining(c, q)
           g == [q \in DOMAIN c.def |-> IF on(q) THEN AfterNext(c.def[q]) ELSE c.def[q]]
<1>1. ClearedTo(c, evaluated(c), g)
  BY EvaluatedIs, DefinitionsOf
<1> HIDE DEF on
<1>2. \A q \in DOMAIN g : Definition(g[q])
  BY DefinitionsOf, AfterNextIs
<1>3. DOMAIN g = DOMAIN c.def /\ g = [q \in DOMAIN g |-> g[q]]
  OBVIOUS
<1> HIDE DEF g
<1> QED
  BY <1>1, <1>2, <1>3, ClearedSound

(* Two ways to clear that leave the same definitions are the same. *)
LEMMA ClearedEqual ==
  ASSUME NEW c, NEW d, NEW e, NEW g, ClearedTo(c, d, g), ClearedTo(c, e, g)
  PROVE  d = e
  BY DEF ClearedTo, IsConfig

(* The next snapshot does not see whether the configuration was evaluated. *)
LEMMA EvaluatedNext ==
  ASSUME NEW c, ConfigSound(c)
  PROVE  NewReportStep(evaluated(c)) = NewReportStep(c)
<1> DEFINE on(q) == q \in Known(c) /\ Defining(c, q)
           g == [q \in DOMAIN c.def |-> IF on(q) THEN AfterNext(c.def[q]) ELSE c.def[q]]
           h == [q \in DOMAIN c.def |-> AfterNext(c.def[q])]
           i == [q \in DOMAIN g |-> AfterNext(g[q])]
           e == evaluated(c)
           d == NewReportStep(e)
<1>1. ClearedTo(c, e, g)
  BY EvaluatedIs, DefinitionsOf
<1>2. ConfigSound(e)
  BY EvaluatedSound
<1> HIDE DEF on, e
<1>3. i = h
  <2>1. \A q \in DOMAIN c.def : Definition(c.def[q])
    BY DefinitionsOf
  <2>2. \A q \in DOMAIN c.def : AfterNext(AfterNext(c.def[q])) = AfterNext(c.def[q])
    BY <2>1, AfterNextIs
  <2>3. DOMAIN g = DOMAIN c.def
    OBVIOUS
  <2>4. \A q \in DOMAIN c.def : AfterNext(g[q]) = AfterNext(c.def[q])
    BY <2>2
  <2> HIDE DEF g
  <2> QED
    BY <2>3, <2>4
<1>4. ClearedTo(e, d, [q \in DOMAIN e.def |-> AfterNext(e.def[q])])
  BY <1>2, Cleared, DefinitionsOf
<1> HIDE DEF d, g
<1>5. ClearedTo(e, d, i)
  BY <1>1, <1>4 DEF ClearedTo
<1> HIDE DEF i, h
<1>6. ClearedTo(c, d, h)
  BY <1>1, <1>3, <1>5 DEF ClearedTo
<1>7. ClearedTo(c, NewReportStep(c), h)
  BY Cleared, DefinitionsOf DEF h
<1> QED
  BY <1>6, <1>7, ClearedEqual DEF d, e

(* Nothing to clear. *)
LEMMA InertStays ==
  ASSUME NEW c, ConfigSound(c), Inert(c)
  PROVE  NewReportStep(c) = c /\ evaluated(c) = c
<1> DEFINE on(q) == q \in Known(c) /\ Defining(c, q)
           g == [q \in DOMAIN c.def |-> IF on(q) THEN AfterNext(c.def[q]) ELSE c.def[q]]
           h == [q \in DOMAIN c.def |-> AfterNext(c.def[q])]
<1>1. c.def = [q \in DOMAIN c.def |-> c.def[q]] /\ IsConfig(c)
  BY DefinitionsOf
<1>2. \A q \in DOMAIN c.def : AfterNext(c.def[q]) = c.def[q]
  BY DEF Inert, AfterNext
<1>3. ClearedTo(c, NewReportStep(c), h) /\ ClearedTo(c, evaluated(c), g)
  BY <1>1, Cleared, EvaluatedIs
<1> HIDE DEF on
<1>4. h = c.def /\ g = c.def
  BY <1>1, <1>2
<1> HIDE DEF g, h
<1>5. ClearedTo(c, c, c.def)
  BY <1>1 DEF ClearedTo, Inert
<1> QED
  BY <1>3, <1>4, <1>5, ClearedEqual

-----------------------------------------------------------------------------
(* Building snapshots.                                                     *)
RebuildOp(p, a, j) ==
  LET b == handleUDQ(NewReportStep(a.config), p[j], {}, FALSE)
  IN  [ok |-> a.ok /\ b.ok, config |-> b.config]

RebuildInv(p, j, a) == a = [ok |-> a.ok, config |-> a.config] /\ a.ok \in BOOLEAN /\ ConfigSound(a.config)

Rebuilding == INSTANCE Recursion WITH Op <- RebuildOp, Inv <- RebuildInv

OwnerOp(p, a, j) == IF p.deck[j] = << >> /\ Inert(p.snapshots[j - 1].config) THEN a ELSE j

OwnerInv(p, j, a) == a \in 0 .. j

Owning == INSTANCE Recursion WITH Op <- OwnerOp, Inv <- OwnerInv

LegalDeck == \A k \in Steps : Legal(deck[k])

(* The keywords of a report step leave a sound configuration. *)
LEMMA BlockSound ==
  ASSUME LegalDeck, NEW k \in Steps, NEW c, ConfigSound(c)
  PROVE  /\ Block(c, k).ok \in BOOLEAN
         /\ ConfigSound(Block(c, k).config)
<1> DEFINE d == NewReportStep(c)
<1>1. ConfigSound(d) /\ Legal(deck[k])
  BY NewReportStepSound DEF LegalDeck
<1> HIDE DEF d
<1>2. /\ handleUDQ(d, deck[k], {}, FALSE).ok \in BOOLEAN
      /\ ConfigSound(handleUDQ(d, deck[k], {}, FALSE).config)
  BY <1>1, HandleUDQ
<1> QED
  BY <1>2 DEF Block, d

(* The snapshots that are built are each the block of the one before. *)
LEMMA RebuiltIs ==
  ASSUME LegalDeck, NEW k \in Steps, NEW c, ConfigSound(c), NEW f, f = Rebuilt(k, c)
  PROVE  /\ f[k] = [ok |-> TRUE, config |-> c]
         /\ \A j \in k + 1 .. N - 1 : /\ (f[j].ok => f[j - 1].ok /\ Block(f[j - 1].config, j).ok)
                                      /\ f[j].config = Block(f[j - 1].config, j).config
         /\ \A j \in k .. N - 1 : f[j].ok \in BOOLEAN /\ ConfigSound(f[j].config)
         /\ f[N - 1].ok => \A j \in k .. N - 1 : f[j].ok
<1> DEFINE first == [ok |-> TRUE, config |-> c]
           F == Rebuilding!Chain(deck, first, k, N - 1)
<1>0. k \in Nat /\ N \in Nat \ {0} /\ k \in k .. N - 1
  BY UDQAssumption DEF Steps
<1>1. f = F
  BY DEF Rebuilt, Rebuilding!Chain, RebuildOp, Block
<1>2. F = [j \in k .. N - 1 |-> IF j = k THEN first ELSE RebuildOp(deck, F[j - 1], j)]
  <2>1. k \in Int /\ N - 1 \in Int
    BY <1>0
  <2> HIDE DEF first
  <2> QED
    BY ONLY <2>1, Rebuilding!ChainSteps
<1>3. RebuildInv(deck, k, first)
  BY DEF RebuildInv
<1>4. ASSUME NEW j \in k + 1 .. N - 1, NEW a, RebuildInv(deck, j - 1, a)
      PROVE  RebuildInv(deck, j, RebuildOp(deck, a, j))
  <2>1. j \in Steps
    BY <1>0 DEF Steps
  <2>2. Block(a.config, j).ok \in BOOLEAN /\ ConfigSound(Block(a.config, j).config) /\ a.ok \in BOOLEAN
    BY <1>4, <2>1, BlockSound DEF RebuildInv
  <2>3. RebuildOp(deck, a, j) = [ok |-> a.ok /\ Block(a.config, j).ok,
                                 config |-> Block(a.config, j).config]
    BY DEF RebuildOp, Block
  <2>4. ASSUME NEW x \in BOOLEAN, NEW y, ConfigSound(y) PROVE RebuildInv(deck, j, [ok |-> x, config |-> y])
    BY <2>4 DEF RebuildInv
  <2> QED
    BY <2>2, <2>3, <2>4
<1>5. \A j \in k .. N - 1 : RebuildInv(deck, j, F[j])
  <2> HIDE DEF first
  <2> QED
    BY <1>0, <1>3, <1>4, Rebuilding!ChainKeeps
<1> HIDE DEF F
<1>6. f[k] = first
  BY <1>0, <1>1, <1>2
<1>7. ASSUME NEW j \in k + 1 .. N - 1
      PROVE  /\ (f[j].ok => f[j - 1].ok /\ Block(f[j - 1].config, j).ok)
             /\ f[j].config = Block(f[j - 1].config, j).config
  <2>1. f[j] = RebuildOp(deck, f[j - 1], j)
    <3>1. j \in k .. N - 1 /\ j # k
      BY <1>0
    <3> QED
      BY <1>1, <1>2, <3>1
  <2> DEFINE a == f[j - 1]
  <2> HIDE DEF a
  <2>2. f[j] = [ok |-> a.ok /\ Block(a.config, j).ok, config |-> Block(a.config, j).config]
    BY <2>1 DEF RebuildOp, Block, a
  <2>3. f[j].ok = (a.ok /\ Block(a.config, j).ok)
    BY <2>2
  <2>4. f[j].ok => a.ok /\ Block(a.config, j).ok
    BY ONLY <2>3, Zenon
  <2>5. f[j].config = Block(a.config, j).config
    BY <2>2
  <2> QED
    BY <2>4, <2>5 DEF a
<1>8. \A j \in k .. N - 1 : f[j].ok \in BOOLEAN /\ ConfigSound(f[j].config)
  BY <1>1, <1>5 DEF RebuildInv
<1>9. ASSUME f[N - 1].ok PROVE \A j \in k .. N - 1 : f[j].ok
  <2> DEFINE T == {n \in Nat : N - 1 - n \in k .. N - 1 => f[N - 1 - n].ok}
  <2>1. 0 \in T
    BY <1>0, <1>9
  <2>2. ASSUME NEW n \in Nat, n \in T PROVE n + 1 \in T
    <3> SUFFICES ASSUME N - 1 - (n + 1) \in k .. N - 1 PROVE f[N - 1 - (n + 1)].ok
      OBVIOUS
    <3> DEFINE j == N - 1 - n
    <3>1. j \in k + 1 .. N - 1 /\ j \in k .. N - 1 /\ j - 1 = N - 1 - (n + 1)
      BY <1>0
    <3>2. f[j].ok
      BY <2>2, <3>1
    <3> HIDE DEF j, T
    <3> QED
      BY <1>7, <3>1, <3>2
  <2> HIDE DEF T
  <2>3. Nat \subseteq T
    BY <2>1, <2>2, Rebuilding!NatSetInduction
  <2>4. ASSUME NEW j \in k .. N - 1 PROVE f[j].ok
    <3>1. N - 1 - j \in T /\ N - 1 - (N - 1 - j) = j
      BY <1>0, <2>3
    <3> QED
      BY <3>1 DEF T
  <2> QED
    BY <2>4
<1> QED
  BY <1>6, <1>7, <1>8, <1>9

(* Each snapshot has an object of its own or the one of its neighbour. *)
LEMMA OwnersAre ==
  ASSUME NEW k \in Steps, NEW f, NEW g, g = Owners(k, k, f)
  PROVE  /\ g[k] = k
         /\ \A j \in k + 1 .. N - 1 : g[j] = IF deck[j] = << >> /\ Inert(f[j - 1].config)
                                             THEN g[j - 1] ELSE j
         /\ \A j \in k .. N - 1 : g[j] \in 0 .. j
         /\ g = [j \in k .. N - 1 |-> g[j]]
<1> DEFINE p == [deck |-> deck, snapshots |-> f]
           G == Owning!Chain(p, k, k, N - 1)
<1>0. k \in Nat /\ N \in Nat \ {0} /\ k \in k .. N - 1
  BY UDQAssumption DEF Steps
<1>1. g = G
  BY DEF Owners, Owning!Chain, OwnerOp
<1>2. G = [j \in k .. N - 1 |-> IF j = k THEN k ELSE OwnerOp(p, G[j - 1], j)]
  <2>1. k \in Int /\ N - 1 \in Int
    BY <1>0
  <2> HIDE DEF p
  <2> QED
    BY ONLY <2>1, Owning!ChainSteps
<1>3. OwnerInv(p, k, k)
  BY <1>0 DEF OwnerInv
<1>4. \A j \in k + 1 .. N - 1 : \A a : OwnerInv(p, j - 1, a) => OwnerInv(p, j, OwnerOp(p, a, j))
  BY <1>0 DEF OwnerInv, OwnerOp
<1>5. \A j \in k .. N - 1 : OwnerInv(p, j, G[j])
  <2> HIDE DEF p
  <2> QED
    BY <1>0, <1>3, <1>4, Owning!ChainKeeps
<1> HIDE DEF G
<1>7. g = [j \in k .. N - 1 |-> g[j]]
  BY <1>1, <1>2
<1>6. \A j \in k + 1 .. N - 1 : g[j] = OwnerOp(p, g[j - 1], j)
  <2> HIDE DEF p
  <2> QED
    BY <1>0, <1>1, <1>2
<1> QED
  BY <1>0, <1>1, <1>2, <1>5, <1>6, <1>7 DEF OwnerOp, OwnerInv

(* What holds of the snapshots after the step, when no error was raised:   *)
(* each is what the deck makes of the one before.                          *)
Built(cs, k) == \A j \in k + 1 .. N - 1 : /\ Block(cs[j - 1], j).ok
                                          /\ cs[j] = Block(cs[j - 1], j).config

(* The snapshots cs, whose objects os says, are ds and ps up to k, and from *)
(* k on c and what the deck makes of it.                                    *)
Installing(k, c, f, g, ds, ps, cs, os) ==
  /\ k \in Steps /\ ConfigSound(c)
  /\ f = Rebuilt(k, c)
  /\ g = Owners(k, k, f)
  /\ cs = [j \in Steps |-> IF j < k THEN ds[j] ELSE f[j].config]
  /\ os = [j \in Steps |-> IF j < k THEN ps[j] ELSE g[j]]
  /\ \A j \in Steps : j < k => ConfigSound(ds[j]) /\ ps[j] \in 0 .. j
  /\ \A j \in 1 .. N - 1 : j < k => \/ ps[j] = j
                                    \/ ps[j] = ps[j - 1] /\ ds[j] = ds[j - 1] /\ Inert(ds[j])

(* The snapshots that are installed are built, and share what is equal. *)
LEMMA Installed ==
  ASSUME LegalDeck, NEW k, NEW c, NEW f, NEW g, NEW ds, NEW ps, NEW cs, NEW os,
         Installing(k, c, f, g, ds, ps, cs, os)
  PROVE  /\ \A j \in Steps : ConfigSound(cs[j])
         /\ Sharing(cs, os)
         /\ cs[k] = c
         /\ f[N - 1].ok => Built(cs, k)
<1> USE DEF Installing
<1>0. k \in Nat /\ N \in Nat \ {0} /\ k \in k .. N - 1 /\ Steps = 0 .. N - 1
  BY UDQAssumption DEF Steps
<1>1. /\ f[k] = [ok |-> TRUE, config |-> c]
      /\ \A j \in k + 1 .. N - 1 : /\ (f[j].ok => f[j - 1].ok /\ Block(f[j - 1].config, j).ok)
                                   /\ f[j].config = Block(f[j - 1].config, j).config
      /\ \A j \in k .. N - 1 : f[j].ok \in BOOLEAN /\ ConfigSound(f[j].config)
      /\ f[N - 1].ok => \A j \in k .. N - 1 : f[j].ok
  BY RebuiltIs
<1>2. /\ g[k] = k
      /\ \A j \in k + 1 .. N - 1 : g[j] = IF deck[j] = << >> /\ Inert(f[j - 1].config)
                                          THEN g[j - 1] ELSE j
      /\ \A j \in k .. N - 1 : g[j] \in 0 .. j
  BY OwnersAre
<1>3. \A j \in Steps : IF j < k THEN cs[j] = ds[j] /\ os[j] = ps[j]
                                ELSE cs[j] = f[j].config /\ os[j] = g[j]
  OBVIOUS
<1>4. \A j \in Steps : ConfigSound(cs[j])
  BY <1>0, <1>1, <1>3
<1>5. os \in [Steps -> Steps] /\ \A j \in Steps : os[j] <= j
  <2>1. \A j \in Steps : os[j] \in 0 .. j
    BY <1>0, <1>2, <1>3
  <2>2. \A j \in Steps : os[j] \in Steps /\ os[j] <= j
    BY <1>0, <2>1
  <2> QED
    BY <2>2
<1>6. ASSUME NEW j \in 1 .. N - 1
      PROVE  \/ os[j] = j
             \/ os[j] = os[j - 1] /\ cs[j] = cs[j - 1] /\ Inert(cs[j])
  <2>0. j \in Steps /\ j - 1 \in Steps /\ j - 1 < j
    BY <1>0
  <2>1. CASE j < k
    <3>1. j - 1 < k
      BY <1>0, <2>1
    <3> QED
      BY <1>3, <2>0, <2>1, <3>1
  <2>2. CASE j = k
    BY <1>2, <1>3, <2>0, <2>2
  <2>3. CASE j > k
    <3>1. j \in k + 1 .. N - 1 /\ j - 1 \in k .. N - 1 /\ ~(j < k) /\ ~(j - 1 < k)
      BY <1>0, <2>3
    <3>2. CASE deck[j] = << >> /\ Inert(f[j - 1].config)
      <4> DEFINE b == f[j - 1].config
      <4>1. ConfigSound(b) /\ Inert(b)
        BY <1>1, <3>1, <3>2
      <4> HIDE DEF b
      <4>2. Block(b, j) = [ok |-> TRUE, config |-> b]
        <5>1. NewReportStep(b) = b
          BY <4>1, InertStays
        <5>2. Block(b, j) = handleUDQ(b, << >>, {}, FALSE)
          BY <3>2, <5>1 DEF Block
        <5> QED
          BY <5>2, HandleNothing
      <4>3. f[j].config = b
        BY <1>1, <3>1, <4>2 DEF b
      <4>4. os[j] = os[j - 1]
        BY <1>2, <1>3, <2>0, <3>1, <3>2
      <4> QED
        BY <1>3, <2>0, <3>1, <4>1, <4>3, <4>4 DEF b
    <3>3. CASE ~(deck[j] = << >> /\ Inert(f[j - 1].config))
      BY <1>2, <1>3, <2>0, <3>1, <3>3
    <3> QED
      BY <3>2, <3>3
  <2> QED
    BY <1>0, <2>1, <2>2, <2>3
<1>7. cs[k] = c
  BY <1>0, <1>1, <1>3
<1>8. ASSUME f[N - 1].ok, NEW j \in k + 1 .. N - 1
      PROVE  Block(cs[j - 1], j).ok /\ cs[j] = Block(cs[j - 1], j).config
  <2>1. /\ j \in Steps /\ j - 1 \in Steps /\ ~(j < k) /\ ~(j - 1 < k)
        /\ j \in k .. N - 1 /\ j - 1 \in k .. N - 1
    BY <1>0
  <2>2. cs[j] = f[j].config /\ cs[j - 1] = f[j - 1].config
    BY <1>3, <2>1
  <2>3. f[j].ok
    BY <1>1, <1>8, <2>1
  <2> QED
    BY <1>1, <2>2, <2>3
<1> QED
  BY <1>4, <1>5, <1>6, <1>7, <1>8 DEF Sharing, Built

-----------------------------------------------------------------------------
(* Snapshots that share an object: they are equal, and nothing is to be    *)
(* cleared, so that evaluating the object changes the snapshot of the step *)
(* alone, or nothing.                                                      *)
LEMMA SharedEqual ==
  ASSUME NEW cs, NEW os, Sharing(cs, os), NEW i \in Steps, NEW j \in Steps, i < j, os[i] = os[j]
  PROVE  cs[i] = cs[j] /\ Inert(cs[j])
<1> DEFINE Like(n) == os[j] <= n => os[n] = os[j] /\ cs[n] = cs[j] /\ (n < j => Inert(cs[j]))
           T == {m \in Nat : m <= j => Like(j - m)}
<1>0. N \in Nat \ {0} /\ Steps = 0 .. N - 1 /\ i \in Nat /\ j \in Nat
  BY UDQAssumption DEF Steps
<1>1. 0 \in T
  BY <1>0
<1>2. ASSUME NEW m \in Nat, m \in T PROVE m + 1 \in T
  <2> SUFFICES ASSUME m + 1 <= j, os[j] <= j - (m + 1)
               PROVE  os[j - (m + 1)] = os[j] /\ cs[j - (m + 1)] = cs[j] /\ Inert(cs[j])
    BY <1>0
  <2> DEFINE n == j - m
  <2>1. n \in 1 .. N - 1 /\ n <= j /\ j - (m + 1) = n - 1 /\ n \in Steps /\ os[j] <= n
        /\ os[j] # n
    <3>1. os[j] \in Int
      BY <1>0 DEF Sharing
    <3> QED
      BY <1>0, <3>1
  <2>2. os[n] = os[j] /\ cs[n] = cs[j] /\ (n < j => Inert(cs[j]))
    BY <1>0, <1>2, <2>1
  <2> HIDE DEF n, T
  <2>3. os[n] = os[n - 1] /\ cs[n] = cs[n - 1] /\ Inert(cs[n])
    BY <2>1, <2>2 DEF Sharing
  <2> QED
    BY <2>1, <2>2, <2>3
<1> HIDE DEF T
<1>3. Nat \subseteq T
  BY <1>1, <1>2, Rebuilding!NatSetInduction
<1>4. j - i \in T /\ j - i <= j /\ j - (j - i) = i
  BY <1>0, <1>3
<1>5. Like(i)
  BY <1>4 DEF T
<1>6. os[i] <= i
  BY DEF Sharing
<1> QED
  BY <1>5, <1>6

(* An evaluation changes the snapshots that share the object, and all of   *)
(* them alike.                                                             *)
LEMMA EvaluateOne ==
  ASSUME NEW cs, NEW os, Sharing(cs, os), NEW k \in Steps, ConfigSound(cs[k]),
         cs = [j \in Steps |-> cs[j]],
         NEW ds, ds = [j \in Steps |-> IF os[j] = os[k] THEN evaluated(cs[k]) ELSE cs[j]]
  PROVE  /\ \A j \in Steps : ds[j] = IF j = k THEN evaluated(cs[k]) ELSE cs[j]
         /\ Sharing(ds, os)
<1>0. N \in Nat \ {0} /\ Steps = 0 .. N - 1 /\ k \in Nat
  BY UDQAssumption DEF Steps
<1>1. ASSUME NEW j \in Steps, j # k, os[j] = os[k]
      PROVE  evaluated(cs[k]) = cs[k] /\ cs[j] = cs[k]
  <2>1. cs[j] = cs[k] /\ Inert(cs[k])
    <3>1. CASE j < k
      BY <1>1, <3>1, SharedEqual
    <3>2. CASE k < j
      BY <1>1, <3>2, SharedEqual
    <3> QED
      BY <1>0, <1>1, <3>1, <3>2
  <2> QED
    BY <2>1, InertStays
<1>2. \A j \in Steps : ds[j] = IF j = k THEN evaluated(cs[k]) ELSE cs[j]
  BY <1>1
<1>3. ASSUME NEW j \in 1 .. N - 1, os[j] # j
      PROVE  os[j] = os[j - 1] /\ ds[j] = ds[j - 1] /\ Inert(ds[j])
  <2>1. j \in Steps /\ j - 1 \in Steps /\ j # j - 1 /\ j - 1 < j
    BY <1>0
  <2>2. os[j] = os[j - 1] /\ cs[j] = cs[j - 1] /\ Inert(cs[j])
    BY <1>3 DEF Sharing
  <2>3. (j = k \/ j - 1 = k) => evaluated(cs[k]) = cs[k]
    BY <1>1, <2>1, <2>2
  <2> QED
    BY <1>2, <2>1, <2>2, <2>3
<1>4. Sharing(ds, os)
  BY <1>3 DEF Sharing
<1> QED
  BY <1>2, <1>4
-----------------------------------------------------------------------------
(* The restart file.                                                       *)

(* A finite set as a sequence. *)
LEMMA SetToSeqIs ==
  ASSUME NEW S, IsFiniteSet(S)
  PROVE  /\ SetToSeq(S) \in Seq(S) /\ Range(SetToSeq(S)) = S
         /\ \A i, j \in DOMAIN SetToSeq(S) : SetToSeq(S)[i] = SetToSeq(S)[j] => i = j
<1> DEFINE n == Cardinality(S)
           t == SetToSeq(S)
<1>1. n \in Nat /\ ExistsBijection(1 .. n, S)
  BY FS_CardinalityType
<1>2. \E f \in [1 .. n -> S] : IsInjective(f)
  BY <1>1 DEF ExistsBijection, Bijection, Injection
<1>3. t \in [1 .. n -> S] /\ IsInjective(t)
  BY <1>2 DEF SetToSeq
<1> HIDE DEF t
<1>4. Cardinality(1 .. n) = n
  BY <1>1, FS_Interval
<1> HIDE DEF n
<1>5. t \in Injection(1 .. n, S)
  BY <1>3 DEF Injection
<1>6. t \in Surjection(1 .. n, S)
  BY <1>4, <1>5, FS_Injection DEF n
<1>7. Range(t) = S
  BY <1>3, <1>6 DEF Surjection, Range
<1>8. t \in Seq(S)
  BY <1>1, <1>3, SeqDef
<1>9. \A i, j \in DOMAIN t : t[i] = t[j] => i = j
  BY <1>3 DEF IsInjective
<1> QED
  BY <1>7, <1>8, <1>9 DEF t

(* The records that are read back of an ASSIGN are a sequence. *)
LEMMA RstRecords ==
  ASSUME NEW v PROVE rst_records(v) \in Seq(Range(rst_records(v)))
<1> DEFINE W == {x \in Wells : v[x] # Undefined}
           g == [w \in W |-> [wells |-> {w}, val |-> v[w]]]
           T == {[wells |-> {w}, val |-> v[w]] : w \in W}
<1>1. IsFiniteSet(W)
  BY UDQAssumption, FS_Subset
<1>2. g \in Surjection(W, T)
  BY DEF Surjection
<1> HIDE DEF g
<1>3. IsFiniteSet(T)
  BY <1>1, <1>2, FS_Surjection
<1>4. rst_records(v) = SetToSeq(T)
  BY DEF rst_records
<1> HIDE DEF T
<1> QED
  BY <1>3, <1>4, SetToSeqIs

RestoreOp(p, n, q) ==
  LET m == rst_quantity(p.config, p.values, n, q)
  IN  IF q \in DOMAIN p.config.units THEN add_unit(m, q, p.config.units[q]) ELSE m

(* What is read back of a quantity. *)
ReadBack(c, vs, n, q) ==
  /\ n.action[q] = c.action[q]
  /\ q \in DOMAIN n.def <=> c.action[q] = "DEFINE"
  /\ q \in DOMAIN n.def => n.def[q] = [expr |-> c.def[q].expr, status |-> WrittenStatus(c.def[q].status)]
  /\ q \in DOMAIN n.asg <=> c.action[q] = "ASSIGN"
  /\ q \in DOMAIN n.asg => n.asg[q] = rst_records(ValueOf(vs, q))

AllReadBack(c, vs, n) == \A q \in Known(n) : ReadBack(c, vs, n, q)

RestoreInv(p, k, n) ==
  /\ ConfigSound(n)
  /\ Len(n.index) = k /\ \A i \in 1 .. k : n.index[i] = p.config.index[i]
  /\ n.pending = {}
  /\ AllReadBack(p.config, p.values, n)

Restoring == INSTANCE Recursion WITH Op <- RestoreOp, Inv <- RestoreInv

(* The units of a quantity are read. *)
LEMMA RestoreUnit ==
  ASSUME NEW m, ConfigSound(m), NEW q, NEW u
  PROVE  /\ ConfigSound(add_unit(m, q, u))
         /\ add_unit(m, q, u).index = m.index /\ add_unit(m, q, u).action = m.action
         /\ add_unit(m, q, u).def = m.def /\ add_unit(m, q, u).asg = m.asg
         /\ add_unit(m, q, u).pending = m.pending
<1> DEFINE p == Put(m.units, q, u)
           d == add_unit(m, q, u)
<1>1. d = [m EXCEPT !.units = p] /\ IsConfig(m)
  BY DEF add_unit, ConfigSound
<1> HIDE DEF p, d
<1>2. /\ IsConfig(d) /\ d.index = m.index /\ d.action = m.action /\ d.def = m.def
      /\ d.asg = m.asg /\ d.pending = m.pending
  BY <1>1 DEF IsConfig
<1>3. ConfigSound(d)
  BY <1>2 DEF ConfigSound, Known
<1> QED
  BY <1>2, <1>3 DEF d

(* One quantity more is read. *)
LEMMA RestoreDefine ==
  ASSUME NEW c, NEW vs, NEW n, ConfigSound(n), n.pending = {},
         NEW q \in Quantities, q \notin Known(n), c.action[q] = "DEFINE",
         AllReadBack(c, vs, n),
         NEW m, m = add_define(n, q, c.def[q].expr, WrittenStatus(c.def[q].status))
  PROVE  /\ ConfigSound(m) /\ m.pending = {}
         /\ m.index = Append(n.index, q) /\ Known(m) = Known(n) \cup {q}
         /\ AllReadBack(c, vs, m)
<1> DEFINE y == [expr |-> c.def[q].expr, status |-> WrittenStatus(c.def[q].status)]
<1>1. IsConfig(n) /\ q \notin Range(n.index) /\ q \notin DOMAIN n.asg
  BY DEF ConfigSound
<1>2. /\ IsConfig(m) /\ Entered(n, m, q, "DEFINE") /\ m.def = Put(n.def, q, y)
      /\ m.asg = n.asg /\ m.pending = n.pending
  BY <1>1, AddDefineFields
<1>3. Definition(y)
  BY DEF Definition
<1> HIDE DEF y
<1>4. /\ ConfigSound(m)
      /\ Known(m) = Known(n) \cup {q} /\ m.action[q] = "DEFINE"
      /\ DOMAIN m.def = DOMAIN n.def \cup {q} /\ m.def[q] = y
      /\ \A x : x # q => SameAction(n, m, x) /\ SameAssigns(n, m, x) /\ SameDefine(n, m, x)
  BY ONLY ConfigSound(n), q \in Quantities, <1>2, <1>3, DefinedKeeps
<1>5. m.index = Append(n.index, q)
  BY <1>1, <1>2 DEF Entered
<1>6. ASSUME NEW x \in Known(n) PROVE ReadBack(c, vs, m, x)
  BY <1>4 DEF AllReadBack, ReadBack, SameAction, SameAssigns, SameDefine
<1>7. ReadBack(c, vs, m, q)
  BY <1>1, <1>2, <1>4 DEF ReadBack, y
<1> QED
  BY <1>2, <1>4, <1>5, <1>6, <1>7 DEF AllReadBack

(* A quantity that was ASSIGNed is read. *)
LEMMA RestoreAssign ==
  ASSUME NEW c, NEW vs, NEW n, ConfigSound(n), n.pending = {},
         NEW q \in Quantities, q \notin Known(n), c.action[q] = "ASSIGN",
         AllReadBack(c, vs, n),
         NEW m, m = [add_node(n, q, "ASSIGN") EXCEPT !.asg = Put(@, q, rst_records(ValueOf(vs, q)))]
  PROVE  /\ ConfigSound(m) /\ m.pending = {}
         /\ m.index = Append(n.index, q) /\ Known(m) = Known(n) \cup {q}
         /\ AllReadBack(c, vs, m)
<1> DEFINE a == add_node(n, q, "ASSIGN")
           s == rst_records(ValueOf(vs, q))
           p == Put(n.asg, q, s)
<1>1. IsConfig(n) /\ q \notin Range(n.index) /\ q \notin DOMAIN n.def
  BY DEF ConfigSound
<1>2. /\ IsConfig(a) /\ Entered(n, a, q, "ASSIGN") /\ a.def = n.def /\ a.asg = n.asg
      /\ a.pending = n.pending
  BY <1>1, AddNode
<1>3. m = [a EXCEPT !.asg = p]
  BY <1>2
<1>4. s \in Seq(Range(s))
  BY RstRecords
<1> HIDE DEF a, s, p
<1>5. /\ IsConfig(m) /\ m.index = a.index /\ m.action = a.action /\ m.def = n.def
      /\ m.asg = p /\ m.pending = {}
  BY <1>2, <1>3 DEF IsConfig
<1>6. Entered(n, m, q, "ASSIGN")
  BY <1>2, <1>5 DEF Entered
<1>7. m.asg = Put(n.asg, q, s)
  BY <1>5 DEF p
<1>8. q \in DOMAIN m.asg /\ m.asg[q] = s
  BY <1>7 DEF Put
<1>9. /\ n.pending \subseteq m.pending /\ m.pending \subseteq n.pending \cup {q}
      /\ m.pending \subseteq DOMAIN m.asg /\ m.def = n.def
  BY <1>5
<1>10. /\ ConfigSound(m) /\ Known(m) = Known(n) \cup {q} /\ m.action[q] = "ASSIGN"
       /\ \A x : x # q => SameAction(n, m, x) /\ SameAssigns(n, m, x) /\ SameDefine(n, m, x)
  BY ONLY ConfigSound(n), q \in Quantities, <1>4, <1>5, <1>6, <1>7, <1>9, AssignedKeeps
<1>11. m.index = Append(n.index, q)
  BY <1>1, <1>6 DEF Entered
<1>12. ASSUME NEW x \in Known(n) PROVE ReadBack(c, vs, m, x)
  BY <1>10 DEF AllReadBack, ReadBack, SameAction, SameAssigns, SameDefine
<1>13. ReadBack(c, vs, m, q)
  BY <1>1, <1>5, <1>8, <1>10 DEF ReadBack, s
<1> QED
  BY <1>5, <1>10, <1>11, <1>12, <1>13 DEF AllReadBack

(* A quantity is read, either way. *)
LEMMA RestoreOne ==
  ASSUME NEW c, ConfigSound(c), NEW vs, NEW n, ConfigSound(n), n.pending = {},
         NEW q \in Known(c), q \notin Known(n), AllReadBack(c, vs, n),
         NEW m, m = rst_quantity(c, vs, n, q)
  PROVE  /\ ConfigSound(m) /\ m.pending = {}
         /\ m.index = Append(n.index, q) /\ Known(m) = Known(n) \cup {q}
         /\ AllReadBack(c, vs, m)
<1>1. q \in Quantities /\ c.action[q] \in {"ASSIGN", "DEFINE"}
  BY DEF ConfigSound, Range
<1>2. CASE c.action[q] = "DEFINE"
  <2>1. m = add_define(n, q, c.def[q].expr, WrittenStatus(c.def[q].status))
    BY <1>2 DEF rst_quantity
  <2> QED
    BY <1>1, <1>2, <2>1, RestoreDefine
<1>3. CASE c.action[q] = "ASSIGN"
  <2>1. m = [add_node(n, q, "ASSIGN") EXCEPT !.asg = Put(@, q, rst_records(ValueOf(vs, q)))]
    BY <1>3 DEF rst_quantity
  <2> QED
    BY <1>1, <1>3, <2>1, RestoreAssign
<1> QED
  BY <1>1, <1>2, <1>3

(* The configuration that is read back has the quantities in their order,  *)
(* and each either as it is defined or as its values.                      *)
LEMMA RestoredIs ==
  ASSUME NEW c, ConfigSound(c), NEW vs, NEW n, n = restored(c, vs)
  PROVE  /\ ConfigSound(n) /\ n.pending = {}
         /\ n.index = c.index /\ Known(n) = Known(c)
         /\ AllReadBack(c, vs, n)
<1> DEFINE p == [config |-> c, values |-> vs]
<1>1. n = Restoring!Fold(p, EmptyConfig, c.index)
  BY DEF Restoring!Fold, RestoreOp, restored, FoldLeft, MapThenFoldSet, Restoring!MapThenFoldSet, Max, Restoring!Max
<1>2. c.index \in Seq(Quantities) /\ Range(c.index) = Known(c)
      /\ \A i, j \in DOMAIN c.index : c.index[i] = c.index[j] => i = j
  BY DEF ConfigSound
<1>p. p.config = c /\ p.values = vs
  OBVIOUS
<1> HIDE DEF p
<1>3. RestoreInv(p, 0, EmptyConfig)
  <2>1. << >> \in Seq(Quantities) /\ Len(<< >>) = 0 /\ DOMAIN << >> = {} /\ 1 .. 0 = {} /\ Range(<< >>) = {}
    BY DEF Range
  <2>2. DOMAIN EmptyFunction = {} /\ EmptyFunction \in [{} -> {"ASSIGN", "DEFINE"}]
    BY DEF EmptyFunction
  <2>3. EmptyFunction = [q \in DOMAIN EmptyFunction |-> [expr |-> EmptyFunction[q].expr,
                                                         status |-> EmptyFunction[q].status]]
    BY DEF EmptyFunction
  <2>4. /\ EmptyConfig.index = << >> /\ EmptyConfig.action = EmptyFunction
        /\ EmptyConfig.def = EmptyFunction /\ EmptyConfig.asg = EmptyFunction
        /\ EmptyConfig.pending = {} /\ IsConfig(EmptyConfig)
    BY DEF EmptyConfig, IsConfig
  <2>5. Known(EmptyConfig) = {}
    BY <2>2, <2>4 DEF Known
  <2>6. ConfigSound(EmptyConfig)
    BY <2>1, <2>2, <2>3, <2>4, <2>5 DEF ConfigSound
  <2> QED
    BY <2>1, <2>4, <2>5, <2>6 DEF RestoreInv, AllReadBack
<1>4. ASSUME NEW k \in 1 .. Len(c.index), NEW a, RestoreInv(p, k - 1, a)
      PROVE  RestoreInv(p, k, RestoreOp(p, a, c.index[k]))
  <2> DEFINE q == c.index[k]
             m == rst_quantity(c, vs, a, q)
             d == RestoreOp(p, a, q)
  <2>1. /\ ConfigSound(a) /\ Len(a.index) = k - 1 /\ \A i \in 1 .. k - 1 : a.index[i] = c.index[i]
        /\ a.pending = {} /\ AllReadBack(c, vs, a)
    BY <1>p, <1>4 DEF RestoreInv
  <2>2. q \in Known(c)
    BY <1>2 DEF Range
  <2>3. q \notin Known(a)
    <3>1. a.index \in Seq(Quantities) /\ Range(a.index) = Known(a)
      BY <2>1 DEF ConfigSound
    <3>2. DOMAIN a.index = 1 .. k - 1 /\ k \in DOMAIN c.index
          /\ \A i \in 1 .. k - 1 : i \in DOMAIN c.index /\ i # k
      BY <1>2, <2>1, <3>1
    <3>3. \A i \in DOMAIN a.index : a.index[i] # q
      BY <1>2, <2>1, <3>2
    <3> QED
      BY <3>1, <3>3 DEF Range
  <2>4. d = IF q \in DOMAIN c.units THEN add_unit(m, q, c.units[q]) ELSE m
    BY <1>p DEF RestoreOp
  <2> HIDE DEF q
  <2>5. /\ ConfigSound(m) /\ m.pending = {}
        /\ m.index = Append(a.index, q)
        /\ AllReadBack(c, vs, m)
    BY <2>1, <2>2, <2>3, RestoreOne
  <2> HIDE DEF m, d
  <2>6. /\ ConfigSound(d) /\ d.index = m.index /\ d.action = m.action /\ d.def = m.def
        /\ d.asg = m.asg /\ d.pending = {}
    BY <2>4, <2>5, RestoreUnit
  <2>7. AllReadBack(c, vs, d)
    BY <2>5, <2>6 DEF AllReadBack, ReadBack, Known
  <2>8. Len(d.index) = k /\ \A i \in 1 .. k : d.index[i] = c.index[i]
    <3>1. a.index \in Seq(Quantities)
      BY <2>1 DEF ConfigSound
    <3>2. Len(d.index) = k /\ d.index[k] = q /\ \A i \in 1 .. k - 1 : d.index[i] = a.index[i]
      BY <2>1, <2>5, <2>6, <3>1
    <3>3. \A i \in 1 .. k : i = k \/ i \in 1 .. k - 1
      OBVIOUS
    <3> QED
      BY <2>1, <3>2, <3>3 DEF q
  <2> QED
    BY <1>p, <2>6, <2>7, <2>8 DEF RestoreInv, d, q
<1>5. RestoreInv(p, Len(c.index), n)
  <2> DEFINE s == c.index
             first == EmptyConfig
  <2>1. s \in Seq(Quantities) /\ RestoreInv(p, 0, first)
    BY <1>2, <1>3
  <2>2. \A k \in 1 .. Len(s) : \A a : RestoreInv(p, k - 1, a) => RestoreInv(p, k, RestoreOp(p, a, s[k]))
    BY <1>4
  <2> HIDE DEF s, first
  <2>3. RestoreInv(p, Len(s), Restoring!Fold(p, first, s))
    BY <2>1, <2>2, Restoring!FoldKeeps
  <2> QED
    BY <1>1, <2>3 DEF s, first
<1>6. n.index = c.index
  <2>1. n.index \in Seq(Quantities)
    BY <1>5 DEF RestoreInv, ConfigSound
  <2> QED
    BY <1>p, <1>2, <1>5, <2>1 DEF RestoreInv
<1>7. Known(n) = Known(c)
  BY <1>2, <1>5, <1>6 DEF RestoreInv, ConfigSound
<1> QED
  BY <1>p, <1>5, <1>6, <1>7 DEF RestoreInv
-----------------------------------------------------------------------------
(* The statements that count for one evaluation.                           *)

LEMMA Greatest == ASSUME NEW n \in Nat, NEW T \in SUBSET (1 .. n), T # {}
                  PROVE \E x \in T : \A y \in T : y <= x
<1> DEFINE D == {n - x : x \in T}
<1>1. D \in SUBSET Nat /\ D # {}
  <2>1. \A x \in T : n - x \in Nat
    OBVIOUS
  <2>2. PICK x \in T : TRUE
    OBVIOUS
  <2>3. n - x \in D
    OBVIOUS
  <2> QED
    BY <2>1, <2>3
<1> HIDE DEF D
<1>2. PICK d \in D : \A e \in D : d <= e
  BY <1>1, Rebuilding!Least
<1>3. PICK x \in T : d = n - x
  BY DEF D
<1>4. ASSUME NEW y \in T PROVE y <= x
  <2>1. n - y \in D
    BY DEF D
  <2>2. n - x <= n - y
    BY <1>2, <1>3, <2>1
  <2> QED
    BY <2>2
<1> QED
  BY <1>4

(* The last statement of a keyword decides whether it counts for one       *)
(* evaluation.                                                             *)
LEMMA Stating ==
  ASSUME NEW c, ConfigSound(c), NEW records, Legal(records),
         NEW d, Outcome(c, d, records, Len(records)), NEW q \in Quantities, NEW one, NEW srv,
         q \in one => OnceOK(c, srv, q), q \in Once(d, records, one)
  PROVE  OnceOK(d, Served(d, records, srv), q)
<1> DEFINE n == Len(records)
           at == Stated(d, records, q)
<1>1. n \in Nat /\ DOMAIN records = 1 .. n
  BY DEF Legal
<1>2. ConfigSound(d) /\ StatedSoFar(c, d, records, n, q)
  BY DEF Outcome
<1>3. at = {i \in 1 .. n : /\ records[i].q = q
                           /\ \/ records[i].kind \in {"ASSIGN", "DEFINE"}
                              \/ records[i].kind = "UPDATE" /\ d.action[q] = "DEFINE"}
  BY <1>1 DEF Stated
<1>4. Served(d, records, srv)[q] = IF at # {} THEN 0 ELSE srv[q]
  BY DEF Served
<1> HIDE DEF n, at
<1>5. CASE at = {}
  <2>1. q \in one
    BY <1>5 DEF Once, at
  <2>2. OnceOK(c, srv, q)
    BY <2>1
  <2>3. \A i \in 1 .. n : ~Gives(records[i], q)
    BY <1>3, <1>5 DEF Gives
  <2>4. SameAction(c, d, q) /\ SameAssigns(c, d, q)
    BY <1>2, <2>3 DEF StatedSoFar
  <2>5. q \in Known(d) /\ d.action[q] = "DEFINE" => SameDefine(c, d, q)
    <3>1. d.action[q] = "DEFINE" => \A i \in 1 .. n : ~Speaks(records[i], q)
      BY <1>3, <1>5 DEF Speaks
    <3> QED
      BY <1>2, <3>1 DEF StatedSoFar
  <2>7. q \in Known(d) /\ d.action[q] = "DEFINE" => q \in DOMAIN d.def
    BY <1>2 DEF ConfigSound
  <2>8. Due(d, q) <=> Due(c, q)
    BY <2>4, <2>5, <2>7 DEF Due, Assignable, Defining, SameAction, SameAssigns, SameDefine
  <2>9. q \in Known(d) /\ d.action[q] = "DEFINE" => d.def[q].status # "ON"
    BY <2>2, <2>4, <2>5, <2>7 DEF OnceOK, SameAction, SameDefine
  <2> QED
    BY <1>4, <1>5, <2>2, <2>8, <2>9 DEF OnceOK
<1>6. CASE at # {}
  <2> DEFINE m == CHOOSE i \in at : \A j \in at : j <= i
             r == records[m]
  <2>1. \E i \in at : \A j \in at : j <= i
    BY <1>1, <1>3, <1>6, Greatest
  <2>2. m \in at /\ \A j \in at : j <= m
    BY <2>1
  <2>3. IF d.action[q] = "ASSIGN" THEN q \in DOMAIN d.asg ELSE r.kind = "UPDATE" /\ r.status = "NEXT"
    BY <1>6 DEF Once, at
  <2> HIDE DEF m
  <2>4. m \in 1 .. n /\ Speaks(r, q) /\ r.q = q
    BY <1>3, <2>2 DEF Speaks
  <2>5. q \in Known(d)
    BY <1>2, <2>4 DEF StatedSoFar
  <2>6. CASE d.action[q] = "ASSIGN"
    <3>1. Gives(r, q)
      BY <1>3, <2>2, <2>6 DEF Gives
    <3>2. q \in d.pending /\ q \in DOMAIN d.asg
      BY <1>2, <2>3, <2>4, <2>6, <3>1 DEF StatedSoFar
    <3>3. Due(d, q)
      BY <3>2 DEF Due, Assignable
    <3> QED
      BY <1>4, <1>6, <2>6, <3>3 DEF OnceOK
  <2>7. CASE d.action[q] # "ASSIGN"
    <3>1. d.action[q] = "DEFINE" /\ q \in DOMAIN d.def
      BY <1>2, <2>5, <2>7 DEF ConfigSound
    <3>2. \A j \in m + 1 .. n : ~Speaks(records[j], q)
      <4> SUFFICES ASSUME NEW j \in m + 1 .. n, Speaks(records[j], q) PROVE FALSE
        OBVIOUS
      <4>1. j \in 1 .. n /\ m < j
        BY <1>1, <2>4
      <4>2. j \in at
        BY <1>3, <3>1, <4>1 DEF Speaks
      <4> QED
        BY <1>1, <2>2, <2>4, <4>1, <4>2
    <3>3. r.kind = "UPDATE" /\ r.status = "NEXT"
      BY <2>3, <2>7
    <3>4. d.def[q].status = "NEXT"
      BY <1>2, <2>4, <3>1, <3>2, <3>3 DEF StatedSoFar
    <3>5. Due(d, q)
      BY <2>5, <3>1, <3>4 DEF Due, Defining
    <3> QED
      BY <1>4, <1>6, <3>4, <3>5 DEF OnceOK
  <2> QED
    BY <2>6, <2>7
<1> QED
  BY <1>5, <1>6

(* Evaluation: what was due is served, and nothing stays due. *)
LEMMA EvaluateOnce ==
  ASSUME NEW c, ConfigSound(c), NEW q, NEW srv, OnceOK(c, srv, q), NEW new,
         new[q] = IF Due(c, q) THEN IF srv[q] < 2 THEN srv[q] + 1 ELSE 2 ELSE srv[q]
  PROVE  OnceOK(evaluated(c), new, q) /\ ~Due(evaluated(c), q)
<1> DEFINE on == q \in Known(c) /\ Defining(c, q)
           g == [x \in DOMAIN c.def |-> IF x \in Known(c) /\ Defining(c, x)
                                        THEN AfterNext(c.def[x]) ELSE c.def[x]]
           e == evaluated(c)
<1>1. ClearedTo(c, e, g)
  BY EvaluatedIs, DefinitionsOf
<1>2. /\ Known(e) = Known(c) /\ e.action = c.action /\ e.pending = {} /\ DOMAIN e.def = DOMAIN c.def
      /\ q \in DOMAIN c.def => e.def[q] = IF on THEN AfterNext(c.def[q]) ELSE c.def[q]
  BY <1>1 DEF ClearedTo, Known
<1>3. q \in Known(c) /\ c.action[q] = "DEFINE" => q \in DOMAIN c.def
  BY DEF ConfigSound
<1>4. q \in DOMAIN c.def => Definition(c.def[q])
  BY DefinitionsOf
<1> HIDE DEF g, e
<1>5. q \in Known(c) /\ c.action[q] = "DEFINE" => e.def[q].status \notin {"ON", "NEXT"}
  <2> SUFFICES ASSUME q \in Known(c), c.action[q] = "DEFINE" PROVE e.def[q].status \notin {"ON", "NEXT"}
    OBVIOUS
  <2>1. c.def[q].status # "ON" /\ Definition(c.def[q]) /\ q \in DOMAIN c.def
    BY <1>3, <1>4 DEF OnceOK
  <2>2. AfterNext(c.def[q]).status = IF c.def[q].status = "NEXT" THEN "OFF" ELSE c.def[q].status
    BY <2>1, AfterNextIs
  <2>3. CASE on
    BY <1>2, <2>1, <2>2, <2>3
  <2>4. CASE ~on
    BY <1>2, <2>1, <2>4 DEF Defining
  <2> QED
    BY <2>3, <2>4
<1>6. ~Due(e, q)
  BY <1>2, <1>5 DEF Due, Assignable, Defining
<1>7. new[q] = 1
  BY DEF OnceOK
<1> QED
  BY <1>2, <1>5, <1>6, <1>7 DEF OnceOK, e

(* The next snapshot: what is not due does not become due. *)
LEMMA ClearOnce ==
  ASSUME NEW c, ConfigSound(c), NEW q, NEW srv, OnceOK(c, srv, q), ~Due(c, q)
  PROVE  OnceOK(NewReportStep(c), srv, q)
<1> DEFINE g == [x \in DOMAIN c.def |-> AfterNext(c.def[x])]
           e == NewReportStep(c)
<1>1. ClearedTo(c, e, g)
  BY Cleared, DefinitionsOf
<1>2. /\ Known(e) = Known(c) /\ e.action = c.action /\ e.pending = {} /\ DOMAIN e.def = DOMAIN c.def
      /\ q \in DOMAIN c.def => e.def[q] = AfterNext(c.def[q])
  BY <1>1 DEF ClearedTo, Known
<1>3. q \in Known(c) /\ c.action[q] = "DEFINE" => q \in DOMAIN c.def /\ Definition(c.def[q])
  BY DefinitionsOf DEF ConfigSound
<1> HIDE DEF g, e
<1>4. q \in Known(c) /\ c.action[q] = "DEFINE" => e.def[q].status \notin {"ON", "NEXT"}
  <2> SUFFICES ASSUME q \in Known(c), c.action[q] = "DEFINE" PROVE e.def[q].status \notin {"ON", "NEXT"}
    OBVIOUS
  <2>1. AfterNext(c.def[q]).status = IF c.def[q].status = "NEXT" THEN "OFF" ELSE c.def[q].status
    BY <1>3, AfterNextIs
  <2>2. c.def[q].status \notin {"ON", "NEXT"}
    BY DEF Due, Defining
  <2> QED
    BY <1>2, <1>3, <2>1, <2>2
<1>5. ~Due(e, q)
  BY <1>2, <1>4 DEF Due, Assignable, Defining
<1> QED
  BY <1>2, <1>4, <1>5 DEF OnceOK, e

(* The configuration that is read back: what is not due is not due then.   *)
LEMMA RestoreOnceOK ==
  ASSUME NEW c, ConfigSound(c), NEW q, NEW srv, OnceOK(c, srv, q), ~Due(c, q), NEW vs
  PROVE  OnceOK(restored(c, vs), srv, q) /\ ~Due(restored(c, vs), q)
<1> DEFINE e == restored(c, vs)
<1>1. ConfigSound(e) /\ e.pending = {} /\ Known(e) = Known(c) /\ \A x \in Known(e) : ReadBack(c, vs, e, x)
  BY RestoredIs DEF AllReadBack
<1> HIDE DEF e
<1>2. q \in Known(e) /\ e.action[q] = "DEFINE" => e.def[q].status \notin {"ON", "NEXT"}
  <2> SUFFICES ASSUME q \in Known(e), e.action[q] = "DEFINE" PROVE e.def[q].status \notin {"ON", "NEXT"}
    OBVIOUS
  <2>1. /\ c.action[q] = "DEFINE" /\ q \in Known(c)
        /\ e.def[q] = [expr |-> c.def[q].expr, status |-> WrittenStatus(c.def[q].status)]
    BY <1>1 DEF ReadBack
  <2>2. c.def[q].status # "ON"
    BY <2>1 DEF OnceOK
  <2>3. e.def[q].status = "OFF"
    BY <2>1, <2>2 DEF WrittenStatus
  <2> QED
    BY <2>3
<1>3. ~Due(e, q)
  BY <1>1, <1>2 DEF Due, Assignable, Defining
<1> QED
  BY <1>2, <1>3 DEF OnceOK, e
-----------------------------------------------------------------------------
(* The configurations of the snapshots, and what they owe, are sound.      *)
ConfigInv ==
  /\ deck \in Decks
  /\ step \in Steps
  /\ fresh \in BOOLEAN /\ fault \in BOOLEAN
  /\ once \subseteq Quantities
  /\ configs = [k \in Steps |-> configs[k]]
  /\ \A k \in Steps : ConfigSound(configs[k])
  /\ SharingSound
  /\ ~fault => Built(configs, step)
  /\ OnceSound

(* The empty configuration is sound, and has nothing to clear. *)
LEMMA EmptySound == ConfigSound(EmptyConfig) /\ Inert(EmptyConfig) /\ \A q : ~Due(EmptyConfig, q)
<1>1. << >> \in Seq(Quantities) /\ Len(<< >>) = 0 /\ DOMAIN << >> = {} /\ Range(<< >>) = {}
  BY DEF Range
<1>2. /\ DOMAIN EmptyFunction = {} /\ EmptyFunction \in [{} -> {"ASSIGN", "DEFINE"}]
      /\ EmptyFunction = [q \in DOMAIN EmptyFunction |-> [expr |-> EmptyFunction[q].expr,
                                                          status |-> EmptyFunction[q].status]]
  BY DEF EmptyFunction
<1>3. /\ EmptyConfig.index = << >> /\ EmptyConfig.action = EmptyFunction
      /\ EmptyConfig.def = EmptyFunction /\ EmptyConfig.asg = EmptyFunction
      /\ EmptyConfig.pending = {} /\ IsConfig(EmptyConfig)
  BY DEF EmptyConfig, IsConfig
<1>4. Known(EmptyConfig) = {}
  BY <1>2, <1>3 DEF Known
<1> QED
  BY <1>1, <1>2, <1>3, <1>4 DEF ConfigSound, Inert, Due, Assignable

(* The report steps. *)
LEMMA StepsFacts == N \in Nat \ {0} /\ Steps = 0 .. N - 1 /\ 0 \in Steps
  BY UDQAssumption DEF Steps

(* A deck holds legal records. *)
LEMMA LegalDecks == ASSUME deck \in Decks PROVE LegalDeck
  BY UDQAssumption DEF LegalDeck

(* A keyword at the beginning of a report step. *)
LEMMA BlockOnce ==
  ASSUME NEW c, ConfigSound(c), NEW records, Legal(records), NEW matches, NEW inAction,
         NEW done, done = handleUDQ(c, records, matches, inAction), done.ok,
         NEW one, one \subseteq Quantities, NEW srv, \A q \in one : OnceOK(c, srv, q)
  PROVE  /\ ConfigSound(done.config)
         /\ Once(done.config, records, one) \subseteq Quantities
         /\ \A q \in Once(done.config, records, one) : OnceOK(done.config, Served(done.config, records, srv), q)
<1>1. ConfigSound(done.config) /\ Outcome(c, done.config, records, Len(records))
  BY HandleUDQ
<1>2. Once(done.config, records, one) \subseteq Quantities
  BY DEF Once
<1>3. ASSUME NEW q \in Once(done.config, records, one)
      PROVE  OnceOK(done.config, Served(done.config, records, srv), q)
  <2>1. q \in Quantities /\ (q \in one => OnceOK(c, srv, q))
    BY <1>2
  <2> QED
    BY <1>1, <2>1, Stating
<1> QED
  BY <1>1, <1>2, <1>3

(* The snapshots of the beginning are installed from the first one on. *)
LEMMA InstalledFirst ==
  ASSUME LegalDeck, NEW c, ConfigSound(c), NEW f, f = Rebuilt(0, c), NEW g, g = Owners(0, 0, f),
         NEW cs, cs = [j \in Steps |-> f[j].config]
  PROVE  /\ \A j \in Steps : ConfigSound(cs[j])
         /\ Sharing(cs, g)
         /\ cs[0] = c
         /\ f[N - 1].ok => Built(cs, 0)
<1> DEFINE k == 0
<1>1. k \in Steps /\ Steps = 0 .. N - 1 /\ k = 0 /\ \A j \in Steps : ~(j < k)
  BY StepsFacts
<1>2. \A j \in 1 .. N - 1 : ~(j < k)
  OBVIOUS
<1>3. f = Rebuilt(k, c) /\ g = Owners(k, k, f)
  OBVIOUS
<1> HIDE DEF k
<1>4. g = [j \in Steps |-> g[j]]
  <2>1. g = [j \in k .. N - 1 |-> g[j]]
    BY <1>1, <1>3, OwnersAre
  <2> QED
    BY <1>1, <2>1
<1>5. /\ cs = [j \in Steps |-> IF j < k THEN cs[j] ELSE f[j].config]
      /\ g = [j \in Steps |-> IF j < k THEN g[j] ELSE g[j]]
  BY <1>1, <1>4
<1>6. /\ \A j \in Steps : ConfigSound(cs[j])
      /\ Sharing(cs, g)
      /\ cs[k] = c
      /\ f[N - 1].ok => Built(cs, k)
  <2>1. Installing(k, c, f, g, cs, g, cs, g)
    BY <1>1, <1>2, <1>3, <1>5 DEF Installing
  <2> QED
    BY <2>1, Installed
<1> QED
  BY <1>1, <1>6

(* The snapshots that are built from the deck are in order. *)
LEMMA InitConfigInv == Init => ConfigInv
<1> SUFFICES ASSUME Init PROVE ConfigInv
  OBVIOUS
<1> DEFINE first == handleUDQ(EmptyConfig, deck[0], {}, FALSE)
           f == Rebuilt(0, first.config)
           g == Owners(0, 0, f)
           zero == [q \in Quantities |-> 0]
<1>1. /\ deck \in Decks /\ step = 0 /\ fresh = FALSE
      /\ configs = [j \in Steps |-> f[j].config]
      /\ owner = g
      /\ fault = ~(first.ok /\ f[N - 1].ok)
      /\ once = Once(first.config, deck[0], {})
      /\ served = zero
  BY DEF Init
<1>2. LegalDeck /\ 0 \in Steps /\ N \in Nat \ {0} /\ Steps = 0 .. N - 1
  BY <1>1, LegalDecks, StepsFacts
<1>3. Legal(deck[0])
  BY <1>2 DEF LegalDeck
<1>4. first.ok \in BOOLEAN /\ ConfigSound(first.config)
  BY <1>3, EmptySound, HandleUDQ
<1> DEFINE c == first.config
<1>5. first = handleUDQ(EmptyConfig, deck[0], {}, FALSE)
  OBVIOUS
<1> HIDE DEF first
<1>6. f = Rebuilt(0, c) /\ g = Owners(0, 0, f)
  OBVIOUS
<1>s. ConfigSound(c)
  BY <1>4
<1>k. first.config = c
  OBVIOUS
<1> HIDE DEF f, g, c
<1>7. f[N - 1].ok \in BOOLEAN
  <2>1. \A j \in 0 .. N - 1 : f[j].ok \in BOOLEAN
    BY <1>2, <1>s, <1>6, RebuiltIs
  <2> QED
    BY <1>2, <2>1
<1>10. /\ \A j \in Steps : ConfigSound(configs[j])
       /\ Sharing(configs, owner)
       /\ configs[0] = c
       /\ f[N - 1].ok => Built(configs, 0)
  <2>1. configs = [j \in Steps |-> f[j].config]
    BY <1>1
  <2> DEFINE cs == configs
  <2>2. cs = [j \in Steps |-> f[j].config] /\ cs = configs
    BY <2>1
  <2> HIDE DEF cs
  <2>3. /\ \A j \in Steps : ConfigSound(cs[j])
        /\ Sharing(cs, g)
        /\ cs[0] = c
        /\ f[N - 1].ok => Built(cs, 0)
    BY ONLY <1>2, <1>s, <1>6, <2>2, InstalledFirst
  <2> QED
    BY <1>1, <2>2, <2>3
<1>11. configs = [k \in Steps |-> configs[k]]
  BY <1>1
<1>12. ~fault => first.ok /\ f[N - 1].ok
  BY <1>1, <1>4, <1>7
<1>13. OnceSound
  <2> SUFFICES ASSUME ~fault PROVE \A q \in once : OnceOK(configs[step], served, q)
    BY <1>1 DEF OnceSound
  <2>1. \A q \in Once(c, deck[0], {}) : OnceOK(c, Served(c, deck[0], zero), q)
    BY <1>3, <1>5, <1>12, <1>k, EmptySound, BlockOnce
  <2>2. Served(c, deck[0], zero) = zero
    BY DEF Served
  <2> QED
    BY <1>1, <1>10, <1>k, <2>1, <2>2
<1>14. once \subseteq Quantities
  BY <1>1 DEF Once
<1> QED
  BY <1>1, <1>2, <1>4, <1>7, <1>10, <1>11, <1>12, <1>13, <1>14 DEF ConfigInv, SharingSound

(* An evaluation keeps the configurations in order. *)
LEMMA EvaluateConfigInv == ASSUME ConfigInv, Evaluate PROVE ConfigInv'
<1> DEFINE c == configs[step]
           e == evaluated(c)
<1>1. /\ ~fault /\ deck' = deck /\ step' = step /\ owner' = owner /\ fault' = fault /\ once' = once
      /\ fresh' = TRUE
      /\ configs' = [j \in Steps |-> IF owner[j] = owner[step] THEN e ELSE configs[j]]
      /\ served' = [q \in Quantities |-> IF Due(c, q) THEN IF served[q] < 2 THEN served[q] + 1 ELSE 2
                                                      ELSE served[q]]
  BY DEF Evaluate, Due
<1>2. /\ deck \in Decks /\ step \in Steps /\ once \subseteq Quantities
      /\ configs = [k \in Steps |-> configs[k]]
      /\ \A k \in Steps : ConfigSound(configs[k])
      /\ Sharing(configs, owner)
      /\ Built(configs, step)
      /\ \A q \in once : OnceOK(c, served, q)
  BY <1>1 DEF ConfigInv, SharingSound, OnceSound
<1>3. N \in Nat \ {0} /\ Steps = 0 .. N - 1
  BY StepsFacts
<1>4. ConfigSound(c)
  BY <1>2
<1>5. ConfigSound(e) /\ NewReportStep(e) = NewReportStep(c)
  BY <1>4, EvaluatedSound, EvaluatedNext
<1>6. /\ \A j \in Steps : configs'[j] = IF j = step THEN e ELSE configs[j]
      /\ Sharing(configs', owner)
  <2> DEFINE cs == configs
             os == owner
             k == step
             ds == configs'
  <2>1. Sharing(cs, os) /\ k \in Steps /\ ConfigSound(cs[k]) /\ cs = [j \in Steps |-> cs[j]]
        /\ ds = [j \in Steps |-> IF os[j] = os[k] THEN evaluated(cs[k]) ELSE cs[j]]
    BY <1>1, <1>2
  <2> HIDE DEF cs, os, k, ds
  <2>2. /\ \A j \in Steps : ds[j] = IF j = k THEN evaluated(cs[k]) ELSE cs[j]
        /\ Sharing(ds, os)
    BY <2>1, EvaluateOne
  <2> QED
    BY <2>2 DEF cs, os, k, ds
<1> HIDE DEF e, c
<1>7. \A k \in Steps : ConfigSound(configs'[k])
  BY <1>2, <1>5, <1>6
<1>8. Sharing(configs', owner')
  BY <1>1, <1>6
<1>9. ASSUME NEW j \in step + 1 .. N - 1
      PROVE  Block(configs'[j - 1], j).ok /\ configs'[j] = Block(configs'[j - 1], j).config
  <2>1. j \in Steps /\ j - 1 \in Steps /\ j # step
    BY <1>2, <1>3
  <2>2. Block(configs[j - 1], j).ok /\ configs[j] = Block(configs[j - 1], j).config
    BY <1>2 DEF Built
  <2>3. configs'[j] = configs[j]
    BY <1>6, <2>1
  <2>4. Block(configs'[j - 1], j) = Block(configs[j - 1], j)
    BY <1>5, <1>6, <2>1 DEF Block, c
  <2> QED
    BY <2>2, <2>3, <2>4
<1>10. Built(configs, step)'
  BY <1>1, <1>9 DEF Built, Block
<1>11. \A q \in once : OnceOK(e, served', q) /\ ~Due(e, q)
  <2> SUFFICES ASSUME NEW q \in once PROVE OnceOK(e, served', q) /\ ~Due(e, q)
    OBVIOUS
  <2> DEFINE new == served'
  <2>1. new[q] = IF Due(c, q) THEN IF served[q] < 2 THEN served[q] + 1 ELSE 2 ELSE served[q]
    BY <1>1, <1>2
  <2> HIDE DEF new
  <2>2. OnceOK(evaluated(c), new, q) /\ ~Due(evaluated(c), q)
    BY <1>2, <1>4, <2>1, EvaluateOnce
  <2> QED
    BY <2>2 DEF e, new
<1>12. OnceSound'
  <2>1. configs'[step'] = e
    BY <1>1, <1>2, <1>6
  <2>2. \A q \in once' : OnceOK(configs'[step'], served', q) /\ ~Due(configs'[step'], q)
    BY <1>1, <1>11, <2>1
  <2> QED
    BY <2>2 DEF OnceSound
<1>13. configs' = [k \in Steps |-> configs'[k]]
  BY <1>1
<1> QED
  BY <1>1, <1>2, <1>7, <1>8, <1>10, <1>12, <1>13 DEF ConfigInv, SharingSound

(* A step that leaves the snapshots alone. *)
LEMMA UnmovedConfigInv ==
  ASSUME ConfigInv, ~fault, fault' \in BOOLEAN,
         UNCHANGED <<deck, configs, owner, step, fresh, served, once>>
  PROVE  ConfigInv'
<1>1. /\ deck \in Decks /\ step \in Steps /\ fresh \in BOOLEAN /\ once \subseteq Quantities
      /\ configs = [k \in Steps |-> configs[k]]
      /\ \A k \in Steps : ConfigSound(configs[k])
      /\ Sharing(configs, owner)
      /\ Built(configs, step)
      /\ \A q \in once : OnceOK(configs[step], served, q) /\ (fresh => ~Due(configs[step], q))
  BY DEF ConfigInv, SharingSound, OnceSound
<1>2. Built(configs, step)'
  BY <1>1 DEF Built, Block
<1>3. OnceSound' /\ SharingSound'
  BY <1>1 DEF OnceSound, SharingSound
<1> QED
  BY <1>1, <1>2, <1>3 DEF ConfigInv

(* An action, which has the later snapshots rebuilt, keeps them in order. *)
LEMMA ApplyActionConfigInv == ASSUME ConfigInv, ApplyAction PROVE ConfigInv'
<1>1. PICK records \in ActionBlocks, matches \in MatchSets :
        LET done == handleUDQ(configs[step], records, matches, TRUE)
        IN  IF done.ok
            THEN /\ Install(step, done.config, step)
                 /\ Continue(handleUDQ(base.config, records, matches, TRUE))
                 /\ served' = Served(done.config, records, served)
                 /\ once' = Once(done.config, records, once)
                 /\ fresh' = FALSE
            ELSE /\ fault' = TRUE
                 /\ UNCHANGED <<configs, owner, base, served, once, fresh>>
  BY DEF ApplyAction
<1>2. ~fault /\ deck' = deck /\ step' = step
  BY DEF ApplyAction
<1>3. /\ deck \in Decks /\ step \in Steps /\ once \subseteq Quantities
      /\ \A k \in Steps : ConfigSound(configs[k])
      /\ Sharing(configs, owner)
      /\ \A q \in once : OnceOK(configs[step], served, q)
  BY <1>2 DEF ConfigInv, SharingSound, OnceSound
<1>4. N \in Nat \ {0} /\ Steps = 0 .. N - 1 /\ LegalDeck /\ Legal(records)
  BY <1>3, StepsFacts, LegalDecks, UDQAssumption
<1> DEFINE done == handleUDQ(configs[step], records, matches, TRUE)
           c == done.config
           f == Rebuilt(step, c)
           g == Owners(step, step, f)
<1>5. CASE ~done.ok
  <2>1. /\ fault' = TRUE
        /\ UNCHANGED <<configs, owner, base, served, once, fresh>>
    BY <1>1, <1>5
  <2> QED
    BY <1>2, <2>1, UnmovedConfigInv
<1>6. CASE done.ok
  <2>1. /\ configs' = [j \in Steps |-> IF j < step THEN configs[j] ELSE f[j].config]
        /\ owner' = [j \in Steps |-> IF j < step THEN owner[j] ELSE g[j]]
        /\ fault' = ~f[N - 1].ok
        /\ served' = Served(c, records, served)
        /\ once' = Once(c, records, once)
        /\ fresh' = FALSE
    BY <1>1, <1>6 DEF Install
  <2>2. /\ ConfigSound(c)
        /\ once' \subseteq Quantities
        /\ \A q \in once' : OnceOK(c, served', q)
    BY <1>3, <1>4, <1>6, <2>1, BlockOnce
  <2> DEFINE cs == configs'
             os == owner'
  <2>3. Installing(step, c, f, g, configs, owner, cs, os)
    <3>1. \A j \in Steps : ConfigSound(configs[j]) /\ owner[j] \in 0 .. j
      BY <1>3, <1>4 DEF Sharing
    <3>2. \A j \in 1 .. N - 1 : \/ owner[j] = j
                                \/ owner[j] = owner[j - 1] /\ configs[j] = configs[j - 1] /\ Inert(configs[j])
      BY <1>3 DEF Sharing
    <3> HIDE DEF f, g, c, done
    <3>3. f = Rebuilt(step, c) /\ g = Owners(step, step, f)
      BY DEF f, g
    <3> QED
      BY <1>3, <2>1, <2>2, <3>1, <3>2, <3>3 DEF Installing
  <2> HIDE DEF cs, os, f, g, c, done
  <2>4. /\ \A j \in Steps : ConfigSound(cs[j])
        /\ Sharing(cs, os)
        /\ cs[step] = c
        /\ f[N - 1].ok => Built(cs, step)
    BY ONLY <1>4, <2>3, Installed
  <2>5. fault' \in BOOLEAN
    <3>1. \A j \in step .. N - 1 : f[j].ok \in BOOLEAN
      BY <1>3, <1>4, <2>2, RebuiltIs DEF f
    <3> QED
      BY <1>3, <1>4, <2>1, <3>1
  <2>6. ~fault' => Built(configs, step)'
    <3>1. ~fault' => Built(cs, step)
      BY <2>1, <2>4
    <3> QED
      BY <1>2, <3>1 DEF Built, Block, cs
  <2>7. OnceSound' /\ SharingSound'
    BY <1>2, <2>1, <2>2, <2>4 DEF OnceSound, SharingSound, cs, os
  <2>8. configs' = [k \in Steps |-> configs'[k]]
    BY <2>1
  <2> QED
    BY <1>2, <1>3, <2>1, <2>2, <2>4, <2>5, <2>6, <2>7, <2>8 DEF ConfigInv, cs, os
<1> QED
  BY <1>5, <1>6

(* The next report step keeps them in order. *)
LEMMA NextStepConfigInv == ASSUME ConfigInv, NextStep PROVE ConfigInv'
<1> DEFINE c == configs[step]
           k == step + 1
           n == NewReportStep(c)
           done == handleUDQ(n, deck[k], {}, FALSE)
<1>1. /\ ~fault /\ fresh /\ step < N - 1 /\ step' = k /\ fresh' = FALSE
      /\ served' = Served(configs[k], deck[k], served)
      /\ once' = Once(configs[k], deck[k], once)
      /\ UNCHANGED <<deck, configs, owner, fault>>
  BY DEF NextStep
<1>2. /\ deck \in Decks /\ step \in Steps /\ once \subseteq Quantities
      /\ configs = [j \in Steps |-> configs[j]]
      /\ \A j \in Steps : ConfigSound(configs[j])
      /\ Sharing(configs, owner)
      /\ Built(configs, step)
      /\ \A q \in once : OnceOK(c, served, q) /\ ~Due(c, q)
  BY <1>1 DEF ConfigInv, SharingSound, OnceSound
<1>3. /\ N \in Nat \ {0} /\ Steps = 0 .. N - 1 /\ LegalDeck
      /\ k \in Steps /\ k \in step + 1 .. N - 1 /\ k - 1 = step
  BY <1>1, <1>2, StepsFacts, LegalDecks
<1>4. done.ok /\ configs[k] = done.config
  BY <1>2, <1>3 DEF Built, Block
<1>5. ConfigSound(n) /\ \A q \in once : OnceOK(n, served, q)
  BY <1>2, ClearOnce, NewReportStepSound
<1>6. Legal(deck[k])
  BY <1>3 DEF LegalDeck
<1> HIDE DEF n
<1>7. /\ once' \subseteq Quantities
      /\ \A q \in once' : OnceOK(configs[k], served', q)
  <2>1. once' = Once(done.config, deck[k], once) /\ served' = Served(done.config, deck[k], served)
    BY <1>1, <1>4
  <2> HIDE DEF k, c
  <2>2. /\ Once(done.config, deck[k], once) \subseteq Quantities
        /\ \A q \in Once(done.config, deck[k], once) :
             OnceOK(done.config, Served(done.config, deck[k], served), q)
    BY <1>2, <1>4, <1>5, <1>6, BlockOnce
  <2> QED
    BY <1>4, <2>1, <2>2
<1>8. Built(configs, step)'
  <2>1. \A j \in k + 1 .. N - 1 : j \in step + 1 .. N - 1
    BY <1>2, <1>3
  <2>2. Built(configs, k)
    BY <1>2, <2>1 DEF Built
  <2> QED
    BY <1>1, <2>2 DEF Built, Block
<1>9. OnceSound' /\ SharingSound'
  BY <1>1, <1>2, <1>7 DEF OnceSound, SharingSound
<1> QED
  BY <1>1, <1>2, <1>3, <1>7, <1>8, <1>9 DEF ConfigInv

(* A restart, which builds them from what was read, leaves them in order. *)
LEMMA RestartConfigInv == ASSUME ConfigInv, Restart PROVE ConfigInv'
<1> DEFINE c == configs[step]
           k == step + 1
           n == restored(c, values)
           first == handleUDQ(n, deck[k], {}, FALSE)
           d == first.config
           f == Rebuilt(k, d)
           g == Owners(k, k, f)
<1>1. /\ ~fault /\ fresh /\ step < N - 1 /\ step' = k /\ fresh' = FALSE /\ deck' = deck
      /\ configs' = [j \in Steps |-> IF j <= step THEN EmptyConfig ELSE f[j].config]
      /\ owner' = [j \in Steps |-> IF j <= step THEN 0 ELSE g[j]]
      /\ fault' = ~(first.ok /\ f[N - 1].ok)
      /\ once' = Once(d, deck[k], once)
      /\ served' = Served(d, deck[k], served)
  BY DEF Restart, Restored
<1>2. /\ deck \in Decks /\ step \in Steps /\ once \subseteq Quantities
      /\ \A j \in Steps : ConfigSound(configs[j])
      /\ \A q \in once : OnceOK(c, served, q) /\ ~Due(c, q)
  BY <1>1 DEF ConfigInv, SharingSound, OnceSound
<1>3. /\ N \in Nat \ {0} /\ Steps = 0 .. N - 1 /\ LegalDeck
      /\ k \in Steps /\ \A j \in Steps : j <= step <=> j < k
  BY <1>1, <1>2, StepsFacts, LegalDecks
<1>4. ConfigSound(n) /\ \A q \in once : OnceOK(n, served, q)
  BY <1>2, RestoredIs, RestoreOnceOK
<1>5. Legal(deck[k])
  BY <1>3 DEF LegalDeck
<1> HIDE DEF n
<1>6. first.ok \in BOOLEAN /\ ConfigSound(d)
  BY <1>4, <1>5, HandleUDQ
<1>7. /\ once' \subseteq Quantities
      /\ first.ok => \A q \in once' : OnceOK(d, served', q)
  BY <1>1, <1>2, <1>4, <1>5, BlockOnce DEF Once
<1> DEFINE cs == configs'
           os == owner'
           ds == [j \in Steps |-> EmptyConfig]
           ps == [j \in Steps |-> 0]
<1>8. Installing(k, d, f, g, ds, ps, cs, os)
  <2>1. f = Rebuilt(k, d) /\ g = Owners(k, k, f)
    OBVIOUS
  <2> HIDE DEF f, g, d, k
  <2>2. cs = [j \in Steps |-> IF j < k THEN ds[j] ELSE f[j].config]
    BY <1>1, <1>3
  <2>3. os = [j \in Steps |-> IF j < k THEN ps[j] ELSE g[j]]
    BY <1>1, <1>3
  <2>4. \A j \in Steps : ConfigSound(ds[j]) /\ ps[j] \in 0 .. j
    BY <1>3, EmptySound
  <2>5. \A j \in 1 .. N - 1 : ps[j] = ps[j - 1] /\ ds[j] = ds[j - 1] /\ Inert(ds[j])
    BY <1>3, EmptySound
  <2> HIDE DEF cs, os, ds, ps
  <2> QED
    BY <1>3, <1>6, <2>1, <2>2, <2>3, <2>4, <2>5 DEF Installing
<1>e. configs' = [j \in Steps |-> configs'[j]]
  BY <1>1
<1> HIDE DEF cs, os, ds, ps, f, g, d, first
<1>9. /\ \A j \in Steps : ConfigSound(cs[j])
      /\ Sharing(cs, os)
      /\ cs[k] = d
      /\ f[N - 1].ok => Built(cs, k)
  BY ONLY <1>3, <1>8, Installed
<1>10. f[N - 1].ok \in BOOLEAN
  <2>1. f = Rebuilt(k, d)
    BY DEF f
  <2>2. \A j \in k .. N - 1 : f[j].ok \in BOOLEAN
    <3> HIDE DEF k
    <3> QED
      BY <1>3, <1>6, <2>1, RebuiltIs
  <2> QED
    BY <1>3, <2>2
<1>11. ~fault' => Built(configs, step)'
  <2>1. ~fault' => Built(cs, k)
    BY <1>1, <1>6, <1>9, <1>10
  <2> QED
    BY <1>1, <2>1 DEF Built, Block, cs
<1>12. OnceSound' /\ SharingSound'
  BY <1>1, <1>6, <1>7, <1>9, <1>10 DEF OnceSound, SharingSound, cs, os
<1> QED
  BY <1>1, <1>2, <1>3, <1>6, <1>7, <1>e, <1>9, <1>10, <1>11, <1>12 DEF ConfigInv, cs, os

(* What is built beforehand, which snapshots share an object, and what is  *)
(* still to be evaluated stay sound, for all quantities, decks and actions *)
(* and however many report steps there are.                                *)
THEOREM ConfigInvariant == Spec => []ConfigInv
<1>1. ASSUME ConfigInv, [Next]_vars PROVE ConfigInv'
  <2>1. CASE Evaluate
    BY <1>1, <2>1, EvaluateConfigInv
  <2>2. CASE ApplyAction
    BY <1>1, <2>2, ApplyActionConfigInv
  <2>3. CASE NextStep
    BY <1>1, <2>3, NextStepConfigInv
  <2>4. CASE SetTarget
    <3>1. /\ ~fault /\ fault' \in BOOLEAN
          /\ UNCHANGED <<deck, configs, owner, step, fresh, served, once>>
      BY <1>1, <2>4 DEF SetTarget, WCONPROD, WELTARG, SetTargets, ghostVars, ConfigInv
    <3> QED
      BY <1>1, <3>1, UnmovedConfigInv
  <2>5. CASE Write
    <3>1. /\ ~fault /\ fault' \in BOOLEAN
          /\ UNCHANGED <<deck, configs, owner, step, fresh, served, once>>
      BY <2>5 DEF Write, ghostVars
    <3> QED
      BY <1>1, <3>1, UnmovedConfigInv
  <2>6. CASE Restart
    BY <1>1, <2>6, RestartConfigInv
  <2>7. CASE UNCHANGED vars
    <3>1. UNCHANGED <<deck, configs, owner, step, fresh, served, once, fault>>
      BY <2>7 DEF vars
    <3>2. Built(configs, step)' <=> Built(configs, step)
      BY <3>1 DEF Built, Block
    <3> QED
      BY <1>1, <3>1, <3>2 DEF ConfigInv, OnceSound, SharingSound
  <2> QED
    BY <1>1, <2>1, <2>2, <2>3, <2>4, <2>5, <2>6, <2>7 DEF Next
<1> QED
  BY <1>1, InitConfigInv, PTL DEF Spec

(* The snapshots that were built beforehand are those the deck makes from  *)
(* the one before, after every evaluation, action and restart.             *)
THEOREM CoherentHolds == Spec => []Coherent
<1>1. ConfigInv => Coherent
  BY DEF ConfigInv, Coherent, Built
<1> QED
  BY <1>1, ConfigInvariant, PTL

(* An ASSIGN and an UPDATE NEXT take effect in exactly one evaluation.     *)
THEOREM EvaluatedOnceHolds == Spec => []EvaluatedOnce
<1>1. ConfigInv => EvaluatedOnce
  BY DEF ConfigInv, OnceSound, OnceOK, EvaluatedOnce
<1> QED
  BY <1>1, ConfigInvariant, PTL
-----------------------------------------------------------------------------
(* The book of the arguments.                                              *)

Controlling == Keywords \X Fields

Uses == [input_index : Nat, udq : Quantities, wgname : Wells, control : Controlling]

(* A well and a control have one record at most. *)
Unrepeated(book) ==
  \A i, j \in DOMAIN book : book[i].wgname = book[j].wgname /\ book[i].control = book[j].control
                              => i = j

(* The fields of a record of the book. *)
LEMMA UsesFields ==
  /\ \A r \in Uses : /\ r.input_index \in Nat /\ r.udq \in Quantities /\ r.wgname \in Wells
                     /\ r.control \in Controlling
  /\ \A n \in Nat, q \in Quantities, w \in Wells, c \in Controlling :
       /\ InputRecord(n, q, w, c) \in Uses
       /\ InputRecord(n, q, w, c).input_index = n /\ InputRecord(n, q, w, c).udq = q
       /\ InputRecord(n, q, w, c).wgname = w /\ InputRecord(n, q, w, c).control = c
  BY DEF Uses, InputRecord

(* Taking a record away. *)
LEMMA Removed ==
  ASSUME NEW S, NEW s \in Seq(S), NEW i \in 1 .. Len(s)
  PROVE  /\ RemoveAt(s, i) \in Seq(S)
         /\ DOMAIN RemoveAt(s, i) = 1 .. Len(s) - 1
         /\ \A k \in 1 .. Len(s) - 1 : RemoveAt(s, i)[k] = IF k < i THEN s[k] ELSE s[k + 1]
<1> DEFINE a == SubSeq(s, 1, i - 1)
           b == SubSeq(s, i + 1, Len(s))
<1>1. /\ a \in Seq(S) /\ Len(a) = i - 1
      /\ \A k \in 1 .. i - 1 : a[k] = s[k]
  OBVIOUS
<1>2. /\ b \in Seq(S) /\ Len(b) = Len(s) - i
      /\ \A k \in 1 .. Len(s) - i : b[k] = s[k + i]
  OBVIOUS
<1> HIDE DEF a, b
<1>3. a \o b \in Seq(S) /\ Len(a \o b) = Len(s) - 1
  <2>1. a \in Seq(S) /\ b \in Seq(S) /\ Len(a) = i - 1 /\ Len(b) = Len(s) - i
    BY <1>1, <1>2
  <2> QED
    BY <2>1
<1>4. ASSUME NEW k \in 1 .. Len(s) - 1
      PROVE  (a \o b)[k] = IF k < i THEN s[k] ELSE s[k + 1]
  <2>1. CASE k < i
    BY <1>1, <1>2, <2>1
  <2>2. CASE ~(k < i)
    <3>1. (a \o b)[k] = b[k - (i - 1)] /\ k - (i - 1) \in 1 .. Len(s) - i
      BY <1>1, <1>2, <2>2
    <3>2. b[k - (i - 1)] = s[k - (i - 1) + i]
      BY <1>2, <3>1
    <3> QED
      BY <2>2, <3>1, <3>2
  <2> QED
    BY <2>1, <2>2
<1>5. DOMAIN (a \o b) = 1 .. Len(a \o b)
  BY <1>3
<1> QED
  BY <1>3, <1>4, <1>5 DEF RemoveAt, a, b

(* The record of a well and a control, if there is one. *)
LEMMA FoundIs ==
  ASSUME NEW book \in Seq(Uses), NEW w, NEW c, NEW n, n = Found(book, w, c)
  PROVE  \/ n = 0 /\ \A i \in DOMAIN book : ~(book[i].wgname = w /\ book[i].control = c)
         \/ n \in DOMAIN book /\ n # 0 /\ book[n].wgname = w /\ book[n].control = c
<1> DEFINE at == {i \in DOMAIN book : book[i].wgname = w /\ book[i].control = c}
<1>1. n = IF at = {} THEN 0 ELSE CHOOSE i \in at : \A j \in at : i <= j
  BY DEF Found
<1>2. at \in SUBSET Nat /\ DOMAIN book = 1 .. Len(book)
  OBVIOUS
<1>3. CASE at = {}
  BY <1>1, <1>3
<1>4. CASE at # {}
  <2>1. \E i \in at : \A j \in at : i <= j
    <3> HIDE DEF at
    <3> QED
      BY <1>2, <1>4, Rebuilding!Least
  <2>2. n \in at
    BY <1>1, <1>4, <2>1
  <2> QED
    BY <1>2, <2>2
<1> QED
  BY <1>3, <1>4

(* What an update makes of the book: the records of other wells and        *)
(* controls stay, the one of the well and the control has the quantity,    *)
(* and there is none for a number.                                         *)
Changed(book, n, x, w, c, new) ==
  /\ new \in Seq(Uses) /\ Unrepeated(new)
  /\ \A i \in DOMAIN new : \/ \E j \in DOMAIN book : new[i] = book[j]
                           \/ x # Number /\ new[i] = InputRecord(n, x, w, c)
  /\ \A j \in DOMAIN book : ~(book[j].wgname = w /\ book[j].control = c)
                             => \E i \in DOMAIN new : new[i] = book[j]
  /\ x # Number => \E i \in DOMAIN new : new[i].wgname = w /\ new[i].control = c /\ new[i].udq = x

(* What an update leaves of the book, and what it adds. *)
LEMMA UpdateIs ==
  ASSUME NEW book \in Seq(Uses), Unrepeated(book), NEW n, NEW x \in Quantities \cup {Number},
         NEW w \in Wells, NEW c \in Controlling, x # Number => n \in Nat,
         NEW new, new = update(book, n, x, w, c)
  PROVE  Changed(book, n, x, w, c, new)
<1> DEFINE at == Found(book, w, c)
           rest == IF at = 0 THEN book ELSE RemoveAt(book, at)
           r == InputRecord(n, x, w, c)
<1>1. /\ new = IF x = Number THEN rest
               ELSE IF at # 0 /\ book[at].udq = x THEN book
               ELSE Append(rest, r)
  BY DEF update
<1>2. \/ at = 0 /\ \A i \in DOMAIN book : ~(book[i].wgname = w /\ book[i].control = c)
      \/ at \in DOMAIN book /\ at # 0 /\ book[at].wgname = w /\ book[at].control = c
  BY FoundIs
<1> HIDE DEF at
<1>3. DOMAIN book = 1 .. Len(book) /\ Len(book) \in Nat
  OBVIOUS
<1>4. /\ rest \in Seq(Uses) /\ Unrepeated(rest)
      /\ \A i \in DOMAIN rest : /\ \E j \in DOMAIN book : rest[i] = book[j]
                                /\ ~(rest[i].wgname = w /\ rest[i].control = c)
      /\ \A j \in DOMAIN book : ~(book[j].wgname = w /\ book[j].control = c)
                                  => \E i \in DOMAIN rest : rest[i] = book[j]
  <2>1. CASE at = 0
    BY <1>2, <2>1
  <2>2. CASE at # 0
    <3>1. at \in 1 .. Len(book) /\ book[at].wgname = w /\ book[at].control = c
      BY <1>2, <1>3, <2>2
    <3>2. /\ rest \in Seq(Uses) /\ DOMAIN rest = 1 .. Len(book) - 1
          /\ \A k \in 1 .. Len(book) - 1 : rest[k] = IF k < at THEN book[k] ELSE book[k + 1]
      BY <2>2, <3>1, Removed
    <3> HIDE DEF rest
    <3> DEFINE to(k) == IF k < at THEN k ELSE k + 1
    <3>3. \A k \in DOMAIN rest : to(k) \in DOMAIN book /\ to(k) # at /\ rest[k] = book[to(k)]
      BY <1>3, <3>1, <3>2
    <3>4. \A k, l \in DOMAIN rest : to(k) = to(l) => k = l
      BY <3>1, <3>2
    <3> HIDE DEF to
    <3>5. Unrepeated(rest)
      BY <3>3, <3>4 DEF Unrepeated
    <3>6. \A i \in DOMAIN rest : ~(rest[i].wgname = w /\ rest[i].control = c)
      BY <3>1, <3>3, <1>3 DEF Unrepeated
    <3>7. ASSUME NEW j \in DOMAIN book, ~(book[j].wgname = w /\ book[j].control = c)
          PROVE  \E i \in DOMAIN rest : rest[i] = book[j]
      <4>1. j # at
        BY <3>1, <3>7
      <4>2. CASE j < at
        <5>1. j \in DOMAIN rest /\ rest[j] = book[j]
          BY <1>3, <3>1, <3>2, <4>2
        <5> QED
          BY <5>1
      <4>3. CASE j > at
        <5>1. j - 1 \in DOMAIN rest /\ rest[j - 1] = book[j]
          BY <1>3, <3>1, <3>2, <4>3
        <5> QED
          BY <5>1
      <4> QED
        BY <1>3, <3>1, <4>1, <4>2, <4>3
    <3> QED
      BY <3>2, <3>3, <3>5, <3>6, <3>7
  <2> QED
    BY <2>1, <2>2
<1> HIDE DEF rest, r
<1>5. CASE x = Number
  BY <1>1, <1>4, <1>5 DEF Changed
<1>6. CASE x # Number /\ at # 0 /\ book[at].udq = x
  BY <1>1, <1>2, <1>6 DEF Changed
<1>7. CASE x # Number /\ ~(at # 0 /\ book[at].udq = x)
  <2>1. new = Append(rest, r)
    BY <1>1, <1>7
  <2>2. r \in Uses /\ r.wgname = w /\ r.control = c /\ r.udq = x
    BY <1>7, UsesFields DEF r
  <2>3. /\ new \in Seq(Uses) /\ DOMAIN new = 1 .. Len(rest) + 1 /\ Len(rest) \in Nat
        /\ DOMAIN rest = 1 .. Len(rest)
        /\ new[Len(rest) + 1] = r /\ \A i \in 1 .. Len(rest) : new[i] = rest[i]
    BY <1>4, <2>1, <2>2, AppendProperties
  <2>4. Unrepeated(new)
    <3> SUFFICES ASSUME NEW i \in DOMAIN new, NEW j \in DOMAIN new, new[i].wgname = new[j].wgname,
                        new[i].control = new[j].control
                 PROVE  i = j
      BY DEF Unrepeated
    <3>1. i \in DOMAIN rest \/ i = Len(rest) + 1
      BY <2>3
    <3>2. j \in DOMAIN rest \/ j = Len(rest) + 1
      BY <2>3
    <3>3. CASE i \in DOMAIN rest /\ j \in DOMAIN rest
      BY <1>4, <2>3, <3>3 DEF Unrepeated
    <3>4. CASE i \in DOMAIN rest /\ j = Len(rest) + 1
      BY <1>4, <2>2, <2>3, <3>4
    <3>5. CASE i = Len(rest) + 1 /\ j \in DOMAIN rest
      BY <1>4, <2>2, <2>3, <3>5
    <3> QED
      BY <3>1, <3>2, <3>3, <3>4, <3>5
  <2>5. \A i \in DOMAIN new : \/ \E j \in DOMAIN book : new[i] = book[j]
                              \/ new[i] = r
    BY <1>4, <2>3
  <2>6. \A j \in DOMAIN book : ~(book[j].wgname = w /\ book[j].control = c)
                                 => \E i \in DOMAIN new : new[i] = book[j]
    BY <1>4, <2>3
  <2>7. Len(rest) + 1 \in DOMAIN new
    BY <2>3
  <2> QED
    BY <1>7, <2>2, <2>3, <2>4, <2>5, <2>6, <2>7 DEF Changed, r
<1> QED
  BY <1>5, <1>6, <1>7

-----------------------------------------------------------------------------
(* The two arrays of the restart file.                                     *)

(* A sequence grows by one element at a time. *)
LEMMA GrowsByOne ==
  ASSUME NEW S, NEW s \in Seq(S)
  PROVE  /\ SubSeq(s, 1, 0) = << >>
         /\ SubSeq(s, 1, Len(s)) = s
         /\ \A k \in 1 .. Len(s) : /\ SubSeq(s, 1, k - 1) \in Seq(S)
                                   /\ SubSeq(s, 1, k) = Append(SubSeq(s, 1, k - 1), s[k])
<1>1. ASSUME NEW k \in 1 .. Len(s)
      PROVE  /\ SubSeq(s, 1, k - 1) \in Seq(S)
             /\ SubSeq(s, 1, k) = Append(SubSeq(s, 1, k - 1), s[k])
  <2> DEFINE a == SubSeq(s, 1, k - 1)
             b == SubSeq(s, 1, k)
  <2>1. a \in Seq(S) /\ Len(a) = k - 1 /\ \A i \in 1 .. k - 1 : a[i] = s[i]
    OBVIOUS
  <2>2. b \in Seq(S) /\ Len(b) = k /\ \A i \in 1 .. k : b[i] = s[i]
    OBVIOUS
  <2> HIDE DEF a, b
  <2>3. s[k] \in S
    OBVIOUS
  <2>4. /\ Append(a, s[k]) \in Seq(S) /\ Len(Append(a, s[k])) = k
        /\ \A i \in 1 .. k : Append(a, s[k])[i] = s[i]
    BY <2>1, <2>3, AppendProperties
  <2>5. b = Append(a, s[k])
    BY <2>2, <2>4, SeqEqual
  <2> QED
    BY <2>1, <2>5 DEF a, b
<1> QED
  BY <1>1, SubSeqEmpty, SubSeqFull

UsesOp(r, uses, s) == IF SameUse(s, r) THEN Append(uses, s) ELSE uses

UsesInv(r, k, uses) == uses \in Seq(Uses) /\ \A i \in DOMAIN uses : SameUse(uses[i], r)

Alike == INSTANCE Recursion WITH Op <- UsesOp, Inv <- UsesInv

UseRecords == [udq : Quantities, input_index : Nat, control : Controlling, use_count : Nat]

NewUse(r) == [udq |-> r.udq, input_index |-> r.input_index, control |-> r.control, use_count |-> 1]

Counted(out, r) ==
  [i \in DOMAIN out |-> IF SameUse(out[i], r) THEN [out[i] EXCEPT !.use_count = @ + 1] ELSE out[i]]

HasUse(out, r) == \E i \in DOMAIN out : SameUse(out[i], r)

CountOp(p, out, r) == IF HasUse(out, r) THEN Counted(out, r) ELSE Append(out, NewUse(r))

CountInv(p, k, out) == out \in Seq(UseRecords)

Counting == INSTANCE Recursion WITH Op <- CountOp, Inv <- CountInv

ListOp(book, out, r) == IF HasUse(out, r) THEN out ELSE out \o UsesLike(book, r)

ListInv(book, k, out) == out \in Seq(Uses)

Listing == INSTANCE Recursion WITH Op <- ListOp, Inv <- ListInv

(* The records of one use. *)
LEMMA UsesAre == ASSUME NEW book, NEW r PROVE UsesLike(book, r) = Alike!Fold(r, << >>, book)
  BY DEF UsesLike, Alike!Fold, UsesOp, FoldLeft, MapThenFoldSet, Alike!MapThenFoldSet, Max, Alike!Max

(* There are no records in an empty book. *)
LEMMA UsesNothing == ASSUME NEW r PROVE UsesLike(<< >>, r) = << >>
  BY UsesAre, Alike!FoldNothing

(* A record more is one of the use, or not. *)
LEMMA UsesAppend ==
  ASSUME NEW book \in Seq(Uses), NEW x \in Uses, NEW r
  PROVE  UsesLike(Append(book, x), r) = IF SameUse(x, r) THEN Append(UsesLike(book, r), x)
                                        ELSE UsesLike(book, r)
<1>1. Alike!Fold(r, << >>, Append(book, x)) = UsesOp(r, Alike!Fold(r, << >>, book), x)
  BY Alike!FoldAppend
<1> QED
  BY <1>1, UsesAre DEF UsesOp

(* Records of the same use have the same records alike. *)
LEMMA UsesSame ==
  ASSUME NEW book \in Seq(Uses), NEW r, NEW r2, SameUse(r, r2)
  PROVE  UsesLike(book, r) = UsesLike(book, r2)
<1>1. \A a : \A k \in 1 .. Len(book) : UsesOp(r, a, book[k]) = UsesOp(r2, a, book[k])
  BY DEF UsesOp, SameUse
<1>2. Alike!Fold(r, << >>, book) = Alike!Fold(r2, << >>, book)
  BY <1>1, Alike!FoldAgree
<1> QED
  BY <1>2, UsesAre

(* The records of one use are records. *)
LEMMA UsesTyped ==
  ASSUME NEW book \in Seq(Uses), NEW r, NEW u, u = UsesLike(book, r)
  PROVE  u \in Seq(Uses) /\ \A i \in DOMAIN u : SameUse(u[i], r)
<1>1. UsesInv(r, 0, << >>)
  BY DEF UsesInv
<1>2. ASSUME NEW k \in 1 .. Len(book), NEW a, UsesInv(r, k - 1, a)
      PROVE  UsesInv(r, k, UsesOp(r, a, book[k]))
  <2>1. a \in Seq(Uses) /\ book[k] \in Uses
    BY <1>2 DEF UsesInv
  <2>2. CASE SameUse(book[k], r)
    <3> DEFINE x == book[k]
    <3> HIDE DEF x
    <3>1. /\ Append(a, x) \in Seq(Uses) /\ DOMAIN Append(a, x) = 1 .. Len(a) + 1
          /\ DOMAIN a = 1 .. Len(a) /\ Len(a) \in Nat
          /\ Append(a, x)[Len(a) + 1] = x /\ \A i \in 1 .. Len(a) : Append(a, x)[i] = a[i]
      BY <2>1, AppendProperties DEF x
    <3>2. \A i \in DOMAIN Append(a, x) : SameUse(Append(a, x)[i], r)
      BY <1>2, <2>2, <3>1 DEF UsesInv, x
    <3> QED
      BY <2>2, <3>1, <3>2 DEF UsesInv, UsesOp, x
  <2>3. CASE ~SameUse(book[k], r)
    BY <1>2, <2>3 DEF UsesInv, UsesOp
  <2> QED
    BY <2>2, <2>3
<1>3. UsesInv(r, Len(book), Alike!Fold(r, << >>, book))
  <2>1. \A k \in 1 .. Len(book) : \A a : UsesInv(r, k - 1, a) => UsesInv(r, k, UsesOp(r, a, book[k]))
    BY <1>2
  <2> QED
    BY <1>1, <2>1, Alike!FoldKeeps
<1> QED
  BY <1>3, UsesAre DEF UsesInv

(* They are the records of the book that have that use. *)
LEMMA UsesFrom ==
  ASSUME NEW book \in Seq(Uses), NEW r
  PROVE  Range(UsesLike(book, r)) = {book[j] : j \in {x \in DOMAIN book : SameUse(book[x], r)}}
<1> DEFINE P(k) == SubSeq(book, 1, k)
           From(k) == {book[j] : j \in {x \in 1 .. k : SameUse(book[x], r)}}
           T == {k \in Nat : k <= Len(book) => Range(UsesLike(P(k), r)) = From(k)}
<1>1. 0 \in T
  <2>1. UsesLike(P(0), r) = << >>
    BY GrowsByOne, UsesNothing
  <2>2. Range(<< >>) = {} /\ From(0) = {}
    BY DEF Range
  <2> QED
    BY <2>1, <2>2
<1>2. ASSUME NEW n \in Nat, n \in T PROVE n + 1 \in T
  <2> SUFFICES ASSUME n + 1 <= Len(book) PROVE Range(UsesLike(P(n + 1), r)) = From(n + 1)
    OBVIOUS
  <2> DEFINE x == book[n + 1]
             u == UsesLike(P(n), r)
  <2>1. P(n + 1) = Append(P(n), x) /\ P(n) \in Seq(Uses) /\ x \in Uses
    <3>1. n + 1 \in 1 .. Len(book) /\ (n + 1) - 1 = n
      OBVIOUS
    <3> QED
      BY <3>1, GrowsByOne
  <2>2. Range(u) = From(n)
    BY <1>2
  <2>3. u \in Seq(Uses)
    BY <2>1, UsesTyped
  <2>4. From(n + 1) = IF SameUse(x, r) THEN From(n) \cup {x} ELSE From(n)
    OBVIOUS
  <2>5. UsesLike(P(n + 1), r) = IF SameUse(x, r) THEN Append(u, x) ELSE u
    <3> HIDE DEF P, x
    <3> QED
      BY <2>1, UsesAppend
  <2>6. Range(Append(u, x)) = Range(u) \cup {x}
    <3> HIDE DEF u, x
    <3>1. /\ DOMAIN Append(u, x) = 1 .. Len(u) + 1 /\ DOMAIN u = 1 .. Len(u) /\ Len(u) \in Nat
          /\ Append(u, x)[Len(u) + 1] = x /\ \A i \in 1 .. Len(u) : Append(u, x)[i] = u[i]
      BY <2>1, <2>3, AppendProperties
    <3> QED
      BY <3>1 DEF Range
  <2> HIDE DEF P, From, u, x
  <2> QED
    BY <2>2, <2>4, <2>5, <2>6
<1>3. Nat \subseteq T
  <2> HIDE DEF T
  <2> QED
    BY <1>1, <1>2, Rebuilding!NatSetInduction
<1>4. Len(book) \in T /\ Len(book) \in Nat
  BY <1>3
<1>5. P(Len(book)) = book /\ DOMAIN book = 1 .. Len(book)
  BY GrowsByOne
<1>6. Range(UsesLike(P(Len(book)), r)) = From(Len(book))
  BY <1>4
<1>7. From(Len(book)) = {book[j] : j \in {x \in DOMAIN book : SameUse(book[x], r)}}
  BY <1>5
<1> HIDE DEF P, From, T
<1> QED
  BY <1>5, <1>6, <1>7

(* The records of the uses are in a block of their own each, one after the *)
(* other: from offs[i] on those of the i-th use.                           *)
Blocks(book, out, list, offs) ==
  /\ offs \in [1 .. Len(out) + 1 -> Nat]
  /\ offs[1] = 0 /\ Len(list) = offs[Len(out) + 1]
  /\ \A i \in 1 .. Len(out) :
       /\ offs[i + 1] = offs[i] + Len(UsesLike(book, out[i]))
       /\ offs[i + 1] <= Len(list)
       /\ \A x \in 1 .. Len(UsesLike(book, out[i])) : list[offs[i] + x] = UsesLike(book, out[i])[x]
  /\ \A n \in 1 .. Len(list) :
       \E i \in 1 .. Len(out) : \E x \in 1 .. Len(UsesLike(book, out[i])) : n = offs[i] + x

(* IUAD so far has each use once, counted, and IUAP so far the blocks of   *)
(* these uses.                                                             *)
ArraysMatch(book, seen, out, list) ==
  /\ out \in Seq(UseRecords) /\ list \in Seq(Uses)
  /\ \A i, j \in DOMAIN out : SameUse(out[i], out[j]) => i = j
  /\ \A i \in DOMAIN out :
       /\ out[i].use_count = Len(UsesLike(seen, out[i]))
       /\ \E j \in DOMAIN seen : /\ SameUse(seen[j], out[i])
                                 /\ seen[j].input_index = out[i].input_index
  /\ \A j \in DOMAIN seen : HasUse(out, seen[j])
  /\ \E offs : Blocks(book, out, list, offs)

(* The records of IUAD count at least one well each. *)
LEMMA RecordsOfUses ==
  /\ \A u \in UseRecords : /\ u.udq \in Quantities /\ u.input_index \in Nat
                           /\ u.control \in Controlling /\ u.use_count \in Nat
                           /\ [u EXCEPT !.use_count = @ + 1] \in UseRecords
                           /\ SameUse([u EXCEPT !.use_count = @ + 1], u)
                           /\ [u EXCEPT !.use_count = @ + 1].use_count = u.use_count + 1
                           /\ [u EXCEPT !.use_count = @ + 1].input_index = u.input_index
  /\ \A r \in Uses : /\ NewUse(r) \in UseRecords /\ SameUse(NewUse(r), r)
                     /\ NewUse(r).use_count = 1 /\ NewUse(r).input_index = r.input_index
  BY DEF UseRecords, Uses, NewUse, SameUse

(* A record of a use that is in IUAD is counted. *)
LEMMA CountedMatch ==
  ASSUME NEW book \in Seq(Uses), NEW seen \in Seq(Uses), NEW x \in Uses, NEW out, NEW list,
         ArraysMatch(book, seen, out, list), HasUse(out, x)
  PROVE  ArraysMatch(book, Append(seen, x), Counted(out, x), list)
<1> DEFINE new == Counted(out, x)
           more == Append(seen, x)
<1>1. /\ out \in Seq(UseRecords) /\ list \in Seq(Uses)
      /\ \A i, j \in DOMAIN out : SameUse(out[i], out[j]) => i = j
      /\ \A i \in DOMAIN out :
           /\ out[i].use_count = Len(UsesLike(seen, out[i]))
           /\ \E j \in DOMAIN seen : /\ SameUse(seen[j], out[i])
                                     /\ seen[j].input_index = out[i].input_index
      /\ \A j \in DOMAIN seen : HasUse(out, seen[j])
  BY DEF ArraysMatch
<1>2. PICK offs : Blocks(book, out, list, offs)
  BY DEF ArraysMatch
<1>3. /\ DOMAIN out = 1 .. Len(out) /\ Len(out) \in Nat
      /\ \A i \in DOMAIN out : out[i] \in UseRecords
  BY <1>1
<1>4. /\ new = [i \in DOMAIN out |-> new[i]]
      /\ \A i \in DOMAIN out : new[i] = IF SameUse(out[i], x) THEN [out[i] EXCEPT !.use_count = @ + 1]
                                        ELSE out[i]
  BY DEF Counted
<1> HIDE DEF new
<1>5. \A i \in DOMAIN out : /\ new[i] \in UseRecords /\ SameUse(new[i], out[i])
                            /\ new[i].input_index = out[i].input_index
                            /\ new[i].use_count = IF SameUse(out[i], x) THEN out[i].use_count + 1
                                                  ELSE out[i].use_count
  <2> SUFFICES ASSUME NEW i \in DOMAIN out
               PROVE  /\ new[i] \in UseRecords /\ SameUse(new[i], out[i])
                      /\ new[i].input_index = out[i].input_index
                      /\ new[i].use_count = IF SameUse(out[i], x) THEN out[i].use_count + 1
                                            ELSE out[i].use_count
    OBVIOUS
  <2>1. CASE SameUse(out[i], x)
    BY <1>3, <1>4, <2>1, RecordsOfUses
  <2>2. CASE ~SameUse(out[i], x)
    BY <1>3, <1>4, <2>2 DEF SameUse
  <2> QED
    BY <2>1, <2>2
<1>6. new \in Seq(UseRecords) /\ DOMAIN new = DOMAIN out /\ Len(new) = Len(out)
  <2>1. new \in [1 .. Len(out) -> UseRecords]
    BY <1>3, <1>4, <1>5
  <2> QED
    BY <1>3, <2>1
<1>7. /\ DOMAIN more = 1 .. Len(seen) + 1 /\ DOMAIN seen = 1 .. Len(seen) /\ Len(seen) \in Nat
      /\ more[Len(seen) + 1] = x /\ \A j \in DOMAIN seen : more[j] = seen[j]
  BY AppendProperties
<1> HIDE DEF more
<1>8. \A i, j \in DOMAIN new : SameUse(new[i], new[j]) => i = j
  BY <1>1, <1>5, <1>6 DEF SameUse
<1>9. ASSUME NEW i \in DOMAIN new
      PROVE  /\ new[i].use_count = Len(UsesLike(more, new[i]))
             /\ \E j \in DOMAIN more : /\ SameUse(more[j], new[i])
                                       /\ more[j].input_index = new[i].input_index
  <2>1. UsesLike(more, new[i]) = IF SameUse(x, new[i]) THEN Append(UsesLike(seen, new[i]), x)
                                 ELSE UsesLike(seen, new[i])
    BY UsesAppend DEF more
  <2>2. UsesLike(seen, new[i]) = UsesLike(seen, out[i])
    BY <1>5, <1>6, UsesSame
  <2>3. UsesLike(seen, out[i]) \in Seq(Uses)
    BY UsesTyped
  <2>4. SameUse(x, new[i]) <=> SameUse(out[i], x)
    BY <1>5, <1>6 DEF SameUse
  <2>5. new[i].use_count = Len(UsesLike(more, new[i]))
    <3> DEFINE u == UsesLike(seen, out[i])
    <3>1. out[i].use_count = Len(u) /\ u \in Seq(Uses)
      BY <1>1, <1>6, <2>3
    <3>2. Len(Append(u, x)) = Len(u) + 1
      BY <3>1, AppendProperties
    <3> QED
      BY <1>5, <1>6, <2>1, <2>2, <2>4, <3>1, <3>2
  <2>6. PICK j \in DOMAIN seen : /\ SameUse(seen[j], out[i])
                                 /\ seen[j].input_index = out[i].input_index
    BY <1>1, <1>6
  <2>7. j \in DOMAIN more /\ more[j] = seen[j]
    BY <1>7
  <2>8. SameUse(more[j], new[i]) /\ more[j].input_index = new[i].input_index
    BY <1>5, <1>6, <2>6, <2>7 DEF SameUse
  <2> QED
    BY <2>5, <2>7, <2>8
<1>10. ASSUME NEW j \in DOMAIN more PROVE HasUse(new, more[j])
  <2>1. HasUse(out, more[j])
    BY <1>1, <1>7
  <2>2. PICK i \in DOMAIN out : SameUse(out[i], more[j])
    BY <2>1 DEF HasUse
  <2>3. SameUse(new[i], more[j])
    BY <1>5, <2>2 DEF SameUse
  <2> QED
    BY <1>6, <2>3 DEF HasUse
<1>11. Blocks(book, new, list, offs)
  <2>1. \A i \in 1 .. Len(out) : UsesLike(book, new[i]) = UsesLike(book, out[i])
    BY <1>3, <1>5, UsesSame
  <2> QED
    BY <1>2, <1>6, <2>1 DEF Blocks
<1> QED
  BY <1>1, <1>6, <1>8, <1>9, <1>10, <1>11 DEF ArraysMatch, new, more

(* A record of a use that is not in IUAD adds the use, and its block. *)
LEMMA AddedMatch ==
  ASSUME NEW book \in Seq(Uses), NEW seen \in Seq(Uses), NEW x \in Uses, NEW out, NEW list,
         ArraysMatch(book, seen, out, list), ~HasUse(out, x)
  PROVE  ArraysMatch(book, Append(seen, x), Append(out, NewUse(x)), list \o UsesLike(book, x))
<1> DEFINE r == NewUse(x)
           b == UsesLike(book, x)
           new == Append(out, r)
           more == Append(seen, x)
           longer == list \o b
           m == Len(out)
<1>1. /\ out \in Seq(UseRecords) /\ list \in Seq(Uses)
      /\ \A i, j \in DOMAIN out : SameUse(out[i], out[j]) => i = j
      /\ \A i \in DOMAIN out :
           /\ out[i].use_count = Len(UsesLike(seen, out[i]))
           /\ \E j \in DOMAIN seen : /\ SameUse(seen[j], out[i])
                                     /\ seen[j].input_index = out[i].input_index
      /\ \A j \in DOMAIN seen : HasUse(out, seen[j])
  BY DEF ArraysMatch
<1>2. PICK offs : Blocks(book, out, list, offs)
  BY DEF ArraysMatch
<1>3. r \in UseRecords /\ SameUse(r, x) /\ r.use_count = 1 /\ r.input_index = x.input_index
  BY RecordsOfUses
<1>4. b \in Seq(Uses) /\ Len(b) \in Nat /\ b = UsesLike(book, r)
  BY <1>3, UsesTyped, UsesSame
<1> HIDE DEF r, b
<1>5. /\ new \in Seq(UseRecords) /\ Len(new) = m + 1 /\ m \in Nat
      /\ DOMAIN out = 1 .. m /\ DOMAIN new = 1 .. m + 1
      /\ new[m + 1] = r /\ \A i \in 1 .. m : new[i] = out[i]
  BY <1>1, <1>3, AppendProperties
<1>6. /\ DOMAIN more = 1 .. Len(seen) + 1 /\ DOMAIN seen = 1 .. Len(seen) /\ Len(seen) \in Nat
      /\ more[Len(seen) + 1] = x /\ \A j \in DOMAIN seen : more[j] = seen[j]
  BY AppendProperties
<1>7. /\ longer \in Seq(Uses) /\ Len(longer) = Len(list) + Len(b) /\ Len(list) \in Nat
      /\ \A i \in 1 .. Len(list) : longer[i] = list[i]
      /\ \A i \in 1 .. Len(b) : longer[Len(list) + i] = b[i]
  BY <1>1, <1>4, ConcatProperties
<1>n. m \in Nat /\ Len(list) \in Nat /\ Len(b) \in Nat /\ Len(longer) = Len(list) + Len(b)
  BY <1>4, <1>5, <1>7
<1>u. /\ \A u : UsesLike(more, u) = IF SameUse(x, u) THEN Append(UsesLike(seen, u), x)
                                    ELSE UsesLike(seen, u)
  BY UsesAppend
<1> HIDE DEF new, more, longer, m
<1>8. \A i \in DOMAIN out : ~SameUse(out[i], x)
  BY DEF HasUse
<1>9. ASSUME NEW i \in DOMAIN new, NEW j \in DOMAIN new, SameUse(new[i], new[j]) PROVE i = j
  <2>1. CASE i \in DOMAIN out /\ j \in DOMAIN out
    BY <1>1, <1>5, <1>9, <2>1
  <2>2. CASE i \in DOMAIN out /\ j = m + 1
    BY <1>3, <1>5, <1>8, <1>9, <2>2 DEF SameUse
  <2>3. CASE i = m + 1 /\ j \in DOMAIN out
    BY <1>3, <1>5, <1>8, <1>9, <2>3 DEF SameUse
  <2> QED
    BY <1>5, <2>1, <2>2, <2>3
<1>10. ASSUME NEW i \in DOMAIN new
       PROVE  /\ new[i].use_count = Len(UsesLike(more, new[i]))
              /\ \E j \in DOMAIN more : /\ SameUse(more[j], new[i])
                                        /\ more[j].input_index = new[i].input_index
  <2>1. CASE i \in DOMAIN out
    <3>1. ~SameUse(x, out[i]) /\ new[i] = out[i]
      BY <1>5, <1>8, <2>1 DEF SameUse
    <3>2. new[i].use_count = Len(UsesLike(more, new[i]))
      BY <1>1, <1>u, <2>1, <3>1
    <3>3. \E j \in DOMAIN more : /\ SameUse(more[j], new[i])
                                 /\ more[j].input_index = new[i].input_index
      <4>1. PICK j \in DOMAIN seen : /\ SameUse(seen[j], out[i])
                                     /\ seen[j].input_index = out[i].input_index
        BY <1>1, <2>1
      <4>2. j \in DOMAIN more /\ more[j] = seen[j]
        BY <1>6
      <4> QED
        BY <3>1, <4>1, <4>2
    <3> QED
      BY <3>2, <3>3
  <2>2. CASE i = m + 1
    <3>1. Range(UsesLike(seen, r)) = {} /\ UsesLike(seen, r) \in Seq(Uses)
      <4>1. \A j \in DOMAIN seen : ~SameUse(seen[j], r)
        BY <1>1, <1>3, <1>8 DEF HasUse, SameUse
      <4> QED
        BY <4>1, UsesFrom, UsesTyped
    <3>2. UsesLike(seen, r) = << >>
      BY <3>1 DEF Range
    <3>3. UsesLike(more, r) = Append(<< >>, x)
      BY <1>3, <1>u, <3>2 DEF SameUse
    <3>4. Len(Append(<< >>, x)) = 1
      OBVIOUS
    <3>5. new[i] = r
      BY <1>5, <2>2
    <3>6. new[i].use_count = Len(UsesLike(more, new[i]))
      BY <1>3, <3>3, <3>4, <3>5
    <3>7. /\ Len(seen) + 1 \in DOMAIN more /\ SameUse(more[Len(seen) + 1], new[i])
          /\ more[Len(seen) + 1].input_index = new[i].input_index
      <4>1. Len(seen) + 1 \in DOMAIN more /\ more[Len(seen) + 1] = x
        BY <1>6
      <4> QED
        BY <1>3, <3>5, <4>1 DEF SameUse
    <3> QED
      BY <3>6, <3>7
  <2> QED
    BY <1>5, <2>1, <2>2
<1>11. ASSUME NEW j \in DOMAIN more PROVE HasUse(new, more[j])
  <2>1. CASE j \in DOMAIN seen
    <3>1. HasUse(out, more[j])
      BY <1>1, <1>6, <2>1
    <3> QED
      BY <1>5, <3>1 DEF HasUse
  <2>2. CASE j = Len(seen) + 1
    <3>1. m + 1 \in DOMAIN new /\ SameUse(new[m + 1], more[j])
      BY <1>3, <1>5, <1>6, <2>2
    <3> QED
      BY <3>1 DEF HasUse
  <2> QED
    BY <1>6, <2>1, <2>2
<1> DEFINE offs2 == [i \in 1 .. m + 2 |-> IF i = m + 2 THEN Len(list) + Len(b) ELSE offs[i]]
<1>12. Blocks(book, new, longer, offs2)
  <2>1. /\ offs \in [1 .. m + 1 -> Nat] /\ offs[1] = 0 /\ Len(list) = offs[m + 1]
        /\ \A i \in 1 .. m :
             /\ offs[i + 1] = offs[i] + Len(UsesLike(book, out[i]))
             /\ offs[i + 1] <= Len(list)
             /\ \A y \in 1 .. Len(UsesLike(book, out[i])) : list[offs[i] + y] = UsesLike(book, out[i])[y]
        /\ \A n \in 1 .. Len(list) :
             \E i \in 1 .. m : \E y \in 1 .. Len(UsesLike(book, out[i])) : n = offs[i] + y
    BY ONLY <1>2 DEF Blocks, m
  <2>2. /\ offs2 \in [1 .. m + 2 -> Nat] /\ offs2[m + 2] = Len(list) + Len(b)
        /\ \A i \in 1 .. m + 1 : offs2[i] = offs[i]
    BY <1>4, <1>5, <1>7, <2>1
  <2> HIDE DEF offs2, m
  <2>3. ASSUME NEW i \in 1 .. m + 1
        PROVE  /\ offs2[i + 1] = offs2[i] + Len(UsesLike(book, new[i]))
               /\ offs2[i + 1] <= Len(longer)
               /\ \A y \in 1 .. Len(UsesLike(book, new[i])) :
                    longer[offs2[i] + y] = UsesLike(book, new[i])[y]
    <3>1. CASE i = m + 1
      <4>1. /\ i + 1 = m + 2 /\ i \in 1 .. m + 1 /\ m + 1 \in 1 .. m + 1
        BY ONLY <1>n, <3>1
      <4>2. offs2[i + 1] = Len(list) + Len(b) /\ offs2[i] = Len(list)
        BY ONLY <2>1, <2>2, <3>1, <4>1
      <4>3. UsesLike(book, new[i]) = b
        BY ONLY <1>4, <1>5, <3>1
      <4>4. Len(list) + Len(b) <= Len(longer)
        BY ONLY <1>n
      <4>5. \A y \in 1 .. Len(b) : longer[Len(list) + y] = b[y]
        BY ONLY <1>7
      <4> QED
        BY ONLY <4>2, <4>3, <4>4, <4>5
    <3>2. CASE i \in 1 .. m
      <4> DEFINE u == UsesLike(book, out[i])
      <4>1. u \in Seq(Uses) /\ new[i] = out[i] /\ Len(u) \in Nat
        BY <1>5, <3>2, UsesTyped
      <4> HIDE DEF u
      <4>2. offs[i + 1] = offs[i] + Len(u) /\ offs[i + 1] <= Len(list) /\ offs[i] \in Nat
            /\ \A y \in 1 .. Len(u) : list[offs[i] + y] = u[y]
        BY <1>5, <2>1, <3>2 DEF u
      <4>3. offs2[i + 1] = offs[i + 1] /\ offs2[i] = offs[i]
        <5>1. i \in 1 .. m + 1 /\ i + 1 \in 1 .. m + 1
          BY <1>n, <3>2
        <5> QED
          BY <2>2, <5>1
      <4>4. ASSUME NEW y \in 1 .. Len(u) PROVE longer[offs[i] + y] = u[y]
        <5>1. offs[i] + y \in 1 .. Len(list)
          BY <1>n, <4>1, <4>2
        <5>2. longer[offs[i] + y] = list[offs[i] + y]
          BY <1>7, <5>1
        <5> QED
          BY <4>2, <5>2
      <4>5. offs2[i + 1] <= Len(longer)
        <5>1. offs[i + 1] \in Nat
          BY <4>1, <4>2
        <5> QED
          BY <1>n, <4>2, <4>3, <5>1
      <4>6. UsesLike(book, new[i]) = u
        BY <4>1 DEF u
      <4> QED
        BY <4>2, <4>3, <4>4, <4>5, <4>6
    <3> QED
      BY <1>5, <3>1, <3>2
  <2>4. ASSUME NEW n \in 1 .. Len(longer)
        PROVE  \E i \in 1 .. m + 1 : \E y \in 1 .. Len(UsesLike(book, new[i])) : n = offs2[i] + y
    <3>1. CASE n <= Len(list)
      <4>1. PICK i \in 1 .. m : \E y \in 1 .. Len(UsesLike(book, out[i])) : n = offs[i] + y
        BY <1>7, <2>1, <3>1
      <4>2. i \in 1 .. m + 1 /\ new[i] = out[i] /\ offs2[i] = offs[i]
        BY <1>5, <2>2
      <4> QED
        BY <4>1, <4>2
    <3>2. CASE n > Len(list)
      <4>1. n - Len(list) \in 1 .. Len(b) /\ n = Len(list) + (n - Len(list))
        BY <1>4, <1>7, <3>2
      <4>2. m + 1 \in 1 .. m + 1 /\ offs2[m + 1] = Len(list) /\ UsesLike(book, new[m + 1]) = b
        BY <1>4, <1>5, <2>1, <2>2
      <4> QED
        BY <4>1, <4>2
    <3> QED
      BY <1>7, <3>1, <3>2
  <2>5. offs2[1] = 0 /\ Len(longer) = offs2[m + 2] /\ (m + 1) + 1 = m + 2
    BY <1>5, <1>7, <2>1, <2>2
  <2>6. Len(new) = m + 1
    BY <1>5
  <2> QED
    BY ONLY <2>2, <2>3, <2>4, <2>5, <2>6 DEF Blocks
<1> HIDE DEF offs2
<1> QED
  BY <1>1, <1>5, <1>7, <1>9, <1>10, <1>11, <1>12 DEF ArraysMatch, new, more, longer, r, b

(* IUAP so far has a record of a use just when IUAD so far has. *)
LEMMA SameHasUse ==
  ASSUME NEW book \in Seq(Uses), NEW seen, NEW x \in Uses, NEW out, NEW list,
         ArraysMatch(book, seen, out, list),
         \A j \in DOMAIN seen : \E l \in DOMAIN book : book[l] = seen[j]
  PROVE  HasUse(list, x) <=> HasUse(out, x)
<1>1. PICK offs : Blocks(book, out, list, offs)
  BY DEF ArraysMatch
<1>2. /\ out \in Seq(UseRecords) /\ list \in Seq(Uses)
      /\ DOMAIN out = 1 .. Len(out) /\ DOMAIN list = 1 .. Len(list)
      /\ Len(out) \in Nat /\ Len(list) \in Nat
      /\ \A i \in DOMAIN out : \E j \in DOMAIN seen : SameUse(seen[j], out[i])
  BY DEF ArraysMatch
<1>3. ASSUME NEW i \in DOMAIN out
      PROVE  \A y \in 1 .. Len(UsesLike(book, out[i])) : SameUse(UsesLike(book, out[i])[y], out[i])
  BY UsesTyped
<1>4. /\ offs \in [1 .. Len(out) + 1 -> Nat]
      /\ \A i \in 1 .. Len(out) :
           /\ offs[i + 1] = offs[i] + Len(UsesLike(book, out[i]))
           /\ offs[i + 1] <= Len(list)
           /\ \A y \in 1 .. Len(UsesLike(book, out[i])) : list[offs[i] + y] = UsesLike(book, out[i])[y]
      /\ \A n \in 1 .. Len(list) :
           \E i \in 1 .. Len(out) : \E y \in 1 .. Len(UsesLike(book, out[i])) : n = offs[i] + y
  BY ONLY <1>1 DEF Blocks
<1>5. ASSUME HasUse(list, x) PROVE HasUse(out, x)
  <2>1. PICK n \in 1 .. Len(list) : SameUse(list[n], x)
    BY <1>2, <1>5 DEF HasUse
  <2>2. PICK i \in 1 .. Len(out) : \E y \in 1 .. Len(UsesLike(book, out[i])) : n = offs[i] + y
    BY <1>4
  <2>3. PICK y \in 1 .. Len(UsesLike(book, out[i])) : n = offs[i] + y
    BY <2>2
  <2>4. list[n] = UsesLike(book, out[i])[y]
    BY <1>4, <2>3
  <2>5. SameUse(out[i], x)
    BY <1>2, <1>3, <2>1, <2>4 DEF SameUse
  <2> QED
    BY <1>2, <2>5 DEF HasUse
<1>6. ASSUME HasUse(out, x) PROVE HasUse(list, x)
  <2>1. PICK i \in 1 .. Len(out) : SameUse(out[i], x)
    BY <1>2, <1>6 DEF HasUse
  <2>2. PICK l \in DOMAIN book : SameUse(book[l], out[i])
    <3>1. PICK j \in DOMAIN seen : SameUse(seen[j], out[i])
      BY <1>2
    <3>2. \E l \in DOMAIN book : book[l] = seen[j]
      OBVIOUS
    <3> QED
      BY <3>1, <3>2
  <2> DEFINE u == UsesLike(book, out[i])
  <2>3. book[l] \in Range(u)
    BY <2>2, UsesFrom
  <2>4. u \in Seq(Uses) /\ \A y \in DOMAIN u : SameUse(u[y], out[i])
    BY UsesTyped
  <2>5. /\ offs[i + 1] = offs[i] + Len(u) /\ offs[i + 1] <= Len(list) /\ offs[i] \in Nat
        /\ \A y \in 1 .. Len(u) : list[offs[i] + y] = u[y]
    <3>1. i \in 1 .. Len(out) + 1 /\ i \in 1 .. Len(out)
      BY <1>2
    <3> QED
      BY <1>4, <3>1
  <2> HIDE DEF u
  <2>6. DOMAIN u = 1 .. Len(u) /\ Len(u) \in Nat
    BY <2>4
  <2>7. 1 \in DOMAIN u
    BY <2>3, <2>6 DEF Range
  <2>8. offs[i] + 1 \in DOMAIN list /\ list[offs[i] + 1] = u[1]
    BY <1>2, <2>5, <2>6, <2>7
  <2>9. SameUse(list[offs[i] + 1], x)
    BY <2>1, <2>4, <2>7, <2>8 DEF SameUse
  <2> QED
    BY <2>8, <2>9 DEF HasUse
<1> QED
  BY <1>5, <1>6

(* IUAD is made by a fold. *)
LEMMA CountingIs ==
  ASSUME NEW book PROVE constructOutputRecords(book) = Counting!Fold(0, << >>, book)
  BY DEF constructOutputRecords, Counting!Fold, CountOp, HasUse, Counted, NewUse, FoldLeft,
         MapThenFoldSet, Counting!MapThenFoldSet, Max, Counting!Max

(* IUAP is made by a fold. *)
LEMMA ListingIs ==
  ASSUME NEW book PROVE iuap(book) = Listing!Fold(book, << >>, book)
  BY DEF iuap, Listing!Fold, ListOp, HasUse, FoldLeft, MapThenFoldSet, Listing!MapThenFoldSet, Max, Listing!Max

(* The two arrays match, although each is computed by a pass of its own. *)
LEMMA BothArrays ==
  ASSUME NEW book \in Seq(Uses)
  PROVE  ArraysMatch(book, book, constructOutputRecords(book), iuap(book))
<1> DEFINE P(k) == SubSeq(book, 1, k)
           out(k) == Counting!Fold(0, << >>, P(k))
           list(k) == Listing!Fold(book, << >>, P(k))
           T == {k \in Nat : k <= Len(book) => ArraysMatch(book, P(k), out(k), list(k))}
<1>1. 0 \in T
  <2>1. out(0) = << >> /\ list(0) = << >> /\ P(0) = << >>
    BY GrowsByOne, Counting!FoldNothing, Listing!FoldNothing
  <2>2. Blocks(book, << >>, << >>, [i \in 1 .. 1 |-> 0])
    BY DEF Blocks
  <2>3. ArraysMatch(book, << >>, << >>, << >>)
    BY <2>2 DEF ArraysMatch, HasUse
  <2> HIDE DEF P, out, list
  <2> QED
    BY <2>1, <2>3
<1>2. ASSUME NEW n \in Nat, n \in T PROVE n + 1 \in T
  <2> SUFFICES ASSUME n + 1 <= Len(book) PROVE ArraysMatch(book, P(n + 1), out(n + 1), list(n + 1))
    OBVIOUS
  <2> DEFINE x == book[n + 1]
  <2>1. ArraysMatch(book, P(n), out(n), list(n))
    BY <1>2
  <2>2. P(n + 1) = Append(P(n), x) /\ P(n) \in Seq(Uses) /\ x \in Uses
    <3>1. n + 1 \in 1 .. Len(book) /\ (n + 1) - 1 = n
      OBVIOUS
    <3> QED
      BY <3>1, GrowsByOne
  <2>3. \A j \in DOMAIN P(n) : \E l \in DOMAIN book : book[l] = P(n)[j]
    OBVIOUS
  <2> HIDE DEF x, P
  <2>4. out(n + 1) = CountOp(0, out(n), x) /\ list(n + 1) = ListOp(book, list(n), x)
    <3>1. Counting!Fold(0, << >>, Append(P(n), x)) = CountOp(0, Counting!Fold(0, << >>, P(n)), x)
      BY ONLY <2>2, Counting!FoldAppend
    <3>2. Listing!Fold(book, << >>, Append(P(n), x)) = ListOp(book, Listing!Fold(book, << >>, P(n)), x)
      BY ONLY <2>2, Listing!FoldAppend
    <3> QED
      BY <2>2, <3>1, <3>2
  <2> HIDE DEF out, list
  <2>5. HasUse(list(n), x) <=> HasUse(out(n), x)
    BY <2>1, <2>2, <2>3, SameHasUse
  <2>6. CASE HasUse(out(n), x)
    <3>1. ArraysMatch(book, Append(P(n), x), Counted(out(n), x), list(n))
      BY <2>1, <2>2, <2>6, CountedMatch
    <3> QED
      BY <2>2, <2>4, <2>5, <2>6, <3>1 DEF CountOp, ListOp
  <2>7. CASE ~HasUse(out(n), x)
    <3>1. ArraysMatch(book, Append(P(n), x), Append(out(n), NewUse(x)), list(n) \o UsesLike(book, x))
      BY <2>1, <2>2, <2>7, AddedMatch
    <3> QED
      BY <2>2, <2>4, <2>5, <2>7, <3>1 DEF CountOp, ListOp
  <2> QED
    BY <2>6, <2>7
<1>3. Nat \subseteq T
  <2> HIDE DEF T
  <2> QED
    BY <1>1, <1>2, Rebuilding!NatSetInduction
<1>4. Len(book) \in T /\ Len(book) \in Nat
  BY <1>3
<1>5. P(Len(book)) = book
  BY GrowsByOne
<1>6. ArraysMatch(book, P(Len(book)), out(Len(book)), list(Len(book)))
  BY <1>4
<1> HIDE DEF T
<1> QED
  BY <1>5, <1>6, CountingIs, ListingIs

-----------------------------------------------------------------------------
(* The offsets, and the arguments read back.                               *)

OffsetOp(p, n, r) == n + r.use_count

OffsetInv(p, k, n) == n \in Nat

Adding == INSTANCE Recursion WITH Op <- OffsetOp, Inv <- OffsetInv

(* The offset is computed by a fold. *)
LEMMA OffsetIs ==
  ASSUME NEW out, NEW i PROVE Offset(out, i) = Adding!Fold(0, 0, SubSeq(out, 1, i - 1))
  BY DEF Offset, Adding!Fold, OffsetOp, FoldLeft, MapThenFoldSet, Adding!MapThenFoldSet, Max, Adding!Max

(* The offset of a record is where its block starts. *)
LEMMA OffsetOfBlock ==
  ASSUME NEW book \in Seq(Uses), NEW out \in Seq(UseRecords), NEW list, NEW offs,
         Blocks(book, out, list, offs),
         \A i \in DOMAIN out : out[i].use_count = Len(UsesLike(book, out[i]))
  PROVE  \A i \in 1 .. Len(out) + 1 : Offset(out, i) = offs[i]
<1> DEFINE T == {k \in Nat : k <= Len(out) => Adding!Fold(0, 0, SubSeq(out, 1, k)) = offs[k + 1]}
<1>1. /\ offs[1] = 0 /\ DOMAIN out = 1 .. Len(out) /\ Len(out) \in Nat
      /\ \A i \in 1 .. Len(out) : offs[i + 1] = offs[i] + Len(UsesLike(book, out[i]))
  BY DEF Blocks
<1>2. 0 \in T
  <2>1. Adding!Fold(0, 0, SubSeq(out, 1, 0)) = 0
    BY GrowsByOne, Adding!FoldNothing
  <2> QED
    BY <1>1, <2>1
<1>3. ASSUME NEW n \in Nat, n \in T PROVE n + 1 \in T
  <2> SUFFICES ASSUME n + 1 <= Len(out)
               PROVE  Adding!Fold(0, 0, SubSeq(out, 1, n + 1)) = offs[n + 1 + 1]
    OBVIOUS
  <2> DEFINE x == out[n + 1]
             s == SubSeq(out, 1, n)
  <2>1. n + 1 \in 1 .. Len(out) /\ (n + 1) - 1 = n
    OBVIOUS
  <2>2. SubSeq(out, 1, n + 1) = Append(s, x) /\ s \in Seq(UseRecords) /\ x \in UseRecords
    BY <2>1, GrowsByOne
  <2>3. Adding!Fold(0, 0, s) = offs[n + 1]
    BY <1>3
  <2> HIDE DEF x, s
  <2>4. Adding!Fold(0, 0, Append(s, x)) = OffsetOp(0, Adding!Fold(0, 0, s), x)
    BY ONLY <2>2, Adding!FoldAppend
  <2>5. offs[n + 1 + 1] = offs[n + 1] + x.use_count
    BY <1>1, <2>1 DEF x
  <2> QED
    BY <2>2, <2>3, <2>4, <2>5 DEF OffsetOp
<1>4. Nat \subseteq T
  <2> HIDE DEF T
  <2> QED
    BY <1>2, <1>3, Rebuilding!NatSetInduction
<1>5. ASSUME NEW i \in 1 .. Len(out) + 1 PROVE Offset(out, i) = offs[i]
  <2>1. i - 1 \in Nat /\ i - 1 <= Len(out) /\ (i - 1) + 1 = i
    BY <1>1
  <2>2. i - 1 \in T
    BY <1>4, <2>1
  <2> QED
    BY <2>1, <2>2, OffsetIs
<1> QED
  BY <1>5

(* What the restart reads for a record of IUAP. *)
Argument(r) == [control |-> r.control, udq |-> r.udq, wgname |-> r.wgname]

Arguments == [control : Controlling, udq : Quantities, wgname : Wells]

(* The names of the quantities are the ones the uses were registered with. *)
NamedBy(names, book) ==
  \A i \in DOMAIN book : names[book[i].input_index] = book[i].udq

(* A sequence that begins with one sequence, and goes on with another. *)
Begins(list, a) == \A y \in 1 .. Len(a) : a[y] = list[y]

Continues(list, n, b) == \A y \in 1 .. Len(b) : list[n + y] = b[y]

(* Two sequences that a list has one after the other, joined. *)
LEMMA Joined ==
  ASSUME NEW S, NEW a \in Seq(S), NEW b \in Seq(S), NEW list, NEW c, c = a \o b,
         Begins(list, a), Continues(list, Len(a), b)
  PROVE  c \in Seq(S) /\ Len(c) = Len(a) + Len(b) /\ Begins(list, c)
<1>1. /\ a \o b \in Seq(S) /\ Len(a \o b) = Len(a) + Len(b)
      /\ Len(a) \in Nat /\ Len(b) \in Nat
      /\ \A y \in 1 .. Len(a) : (a \o b)[y] = a[y]
      /\ \A y \in 1 .. Len(b) : (a \o b)[Len(a) + y] = b[y]
  OBVIOUS
<1> DEFINE n == Len(a)
<1>a. /\ \A y \in 1 .. Len(a) : a[y] = list[y]
      /\ \A y \in 1 .. Len(b) : list[n + y] = b[y]
  BY DEF Begins, Continues
<1> HIDE DEF n
<1>2. ASSUME NEW y \in 1 .. n + Len(b) PROVE c[y] = list[y]
  <2>1. CASE y <= n
    BY <1>1, <1>a, <2>1 DEF n
  <2>2. CASE y > n
    <3>1. y - n \in 1 .. Len(b) /\ n + (y - n) = y
      BY <1>1, <2>2 DEF n
    <3>2. c[n + (y - n)] = b[y - n] /\ list[n + (y - n)] = b[y - n]
      BY <1>1, <1>a, <3>1 DEF n
    <3> QED
      BY <3>1, <3>2
  <2> QED
    BY <1>1, <2>1, <2>2 DEF n
<1> QED
  BY <1>1, <1>2 DEF Begins, n

(* A sequence of sequences, flattened, is the sequence that has them one   *)
(* after the other, each from its offset on.                               *)
Laid(seqs, offs, list) ==
  /\ offs \in [1 .. Len(seqs) + 1 -> Nat]
  /\ offs[1] = 0 /\ Len(list) = offs[Len(seqs) + 1]
  /\ \A i \in 1 .. Len(seqs) :
       /\ offs[i + 1] = offs[i] + Len(seqs[i])
       /\ offs[i + 1] <= Len(list)
       /\ \A y \in 1 .. Len(seqs[i]) : list[offs[i] + y] = seqs[i][y]

(* Blocks that a list has one after the other make up the list. *)
LEMMA Flattened ==
  ASSUME NEW S, NEW seqs \in Seq(Seq(S)), NEW list \in Seq(S),
         NEW offs, Laid(seqs, offs, list)
  PROVE  FlattenSeq(seqs) = list
<1>0. /\ offs \in [1 .. Len(seqs) + 1 -> Nat]
      /\ offs[1] = 0 /\ Len(list) = offs[Len(seqs) + 1]
      /\ \A i \in 1 .. Len(seqs) :
           /\ offs[i + 1] = offs[i] + Len(seqs[i])
           /\ offs[i + 1] <= Len(list)
           /\ \A y \in 1 .. Len(seqs[i]) : list[offs[i] + y] = seqs[i][y]
  BY DEF Laid
<1> DEFINE Join(a, b) == a \o b
           IsFlat(n, f) == f = [i \in 1 .. n |-> IF i = 1 THEN seqs[i] ELSE Join(f[i - 1], seqs[i])]
           T == {n \in Nat : \E f : IsFlat(n, f)}
           L == Len(seqs)
<1>1. L \in Nat /\ DOMAIN seqs = 1 .. L /\ \A i \in 1 .. L : seqs[i] \in Seq(S)
  OBVIOUS
<1>2. 0 \in T
  <2>1. IsFlat(0, [i \in 1 .. 0 |-> << >>])
    OBVIOUS
  <2> HIDE DEF IsFlat
  <2> QED
    BY <2>1
<1>3. ASSUME NEW n \in Nat, n \in T PROVE n + 1 \in T
  <2>1. PICK f : IsFlat(n, f)
    BY <1>3
  <2> DEFINE g == [i \in 1 .. n + 1 |-> IF i = n + 1
                                        THEN IF i = 1 THEN seqs[i] ELSE Join(f[n], seqs[i])
                                        ELSE f[i]]
  <2>2. ASSUME NEW i \in 1 .. n + 1
        PROVE  g[i] = IF i = 1 THEN seqs[i] ELSE Join(g[i - 1], seqs[i])
    <3> HIDE DEF Join
    <3> QED
      BY <2>1
  <2> HIDE DEF g
  <2>3. g = [i \in 1 .. n + 1 |-> g[i]]
    BY DEF g
  <2>4. IsFlat(n + 1, g)
    BY <2>2, <2>3
  <2> HIDE DEF IsFlat
  <2> QED
    BY <2>4
<1>4. L \in T
  <2> HIDE DEF T
  <2> QED
    BY <1>1, <1>2, <1>3, Rebuilding!NatSetInduction
<1> DEFINE flat == CHOOSE f : IsFlat(L, f)
<1>5. FlattenSeq(seqs) = IF L = 0 THEN seqs ELSE flat[L]
  BY DEF FlattenSeq
<1>6. IsFlat(L, flat)
  <2> HIDE DEF IsFlat
  <2> QED
    BY <1>4
<1> HIDE DEF flat
<1> DEFINE Starts(n) == /\ flat[n] \in Seq(S) /\ Len(flat[n]) = offs[n + 1]
                        /\ \A y \in 1 .. Len(flat[n]) : flat[n][y] = list[y]
           U == {n \in Nat : n = 0 \/ n > L \/ Starts(n)}
<1>7. ASSUME NEW n \in Nat, n \in U PROVE n + 1 \in U
  <2> SUFFICES ASSUME n + 1 <= L PROVE Starts(n + 1)
    BY <1>1
  <2>1. n + 1 \in 1 .. L /\ (n + 1) - 1 = n /\ n + 1 \in 1 .. L + 1 /\ n + 1 + 1 \in 1 .. L + 1
    BY <1>1
  <2> DEFINE s == seqs[n + 1]
             o == offs[n + 1]
  <2>2. /\ s \in Seq(S) /\ o \in Nat /\ Len(s) \in Nat
        /\ offs[n + 1 + 1] = o + Len(s) /\ o + Len(s) <= Len(list)
        /\ \A y \in 1 .. Len(s) : list[o + y] = s[y]
    <3>1. /\ s \in Seq(S) /\ o \in Nat
          /\ offs[n + 1 + 1] = o + Len(s) /\ offs[n + 1 + 1] <= Len(list)
      BY <1>0, <1>1, <2>1
    <3>2. \A y \in 1 .. Len(s) : list[o + y] = s[y]
      BY <1>0, <2>1
    <3> HIDE DEF s, o
    <3> QED
      BY <3>1, <3>2
  <2> HIDE DEF s, o
  <2>3. CASE n = 0
    <3>1. flat[n + 1] = s
      BY <1>6, <2>1, <2>3 DEF s
    <3>2. o = 0
      BY <1>0, <2>3 DEF o
    <3> QED
      BY <2>2, <3>1, <3>2
  <2>4. CASE n # 0
    <3>1. flat[n + 1] = Join(flat[n], s)
      <4> HIDE DEF Join
      <4> QED
        BY <1>6, <2>1, <2>4 DEF s
    <3> DEFINE a == flat[n]
    <3>2. a \in Seq(S) /\ Len(a) = o /\ \A y \in 1 .. Len(a) : a[y] = list[y]
      <4>1. ~(n > L)
        BY <1>1
      <4> HIDE DEF L
      <4>2. Starts(n)
        BY <1>7, <2>4, <4>1
      <4> QED
        BY <4>2 DEF o
    <3> HIDE DEF a
    <3> DEFINE b == a \o s
    <3>3. b \in Seq(S) /\ Len(b) = Len(a) + Len(s) /\ \A y \in 1 .. Len(b) : b[y] = list[y]
      <4>1. Begins(list, a) /\ Continues(list, Len(a), s)
        BY <2>2, <3>2 DEF Begins, Continues
      <4>2. b \in Seq(S) /\ Len(b) = Len(a) + Len(s) /\ Begins(list, b)
        BY ONLY <2>2, <3>2, <4>1, Joined
      <4> QED
        BY <4>2 DEF Begins
    <3>4. Len(b) = offs[n + 1 + 1]
      BY <2>2, <3>2, <3>3
    <3> HIDE DEF b
    <3>5. flat[n + 1] = b
      BY <3>1 DEF a, b
    <3> QED
      BY <3>3, <3>4, <3>5
  <2> QED
    BY <2>3, <2>4
<1>8. L \in U
  <2>1. 0 \in U
    OBVIOUS
  <2> HIDE DEF U
  <2> QED
    BY <1>1, <1>7, <2>1, Rebuilding!NatSetInduction
<1>9. CASE L = 0
  <2>1. seqs = << >> /\ list = << >>
    BY <1>0, <1>9
  <2> QED
    BY <1>5, <1>9, <2>1
<1>10. CASE L # 0
  <2> DEFINE b == flat[L]
  <2>1. b \in Seq(S) /\ Len(b) = offs[L + 1] /\ \A y \in 1 .. Len(b) : b[y] = list[y]
    BY <1>1, <1>8, <1>10
  <2> HIDE DEF b, L
  <2>2. Len(b) = Len(list)
    BY <1>0, <2>1 DEF L
  <2>3. b = list
    BY <2>1, <2>2, SeqEqual
  <2> QED
    BY <1>5, <1>10, <2>3 DEF b
<1> QED
  BY <1>9, <1>10

(* The arguments read back are the records of IUAP, one for one. *)
LEMMA ReadBackArguments ==
  ASSUME NEW book \in Seq(Uses), NEW names, NamedBy(names, book),
         NEW out, out = constructOutputRecords(book), NEW list, list = iuap(book),
         NEW wells, wells = [i \in DOMAIN list |-> list[i].wgname]
  PROVE  load_rst(out, wells, names) = [n \in DOMAIN list |-> Argument(list[n])]
<1>1. ArraysMatch(book, book, out, list)
  BY BothArrays
<1>2. /\ out \in Seq(UseRecords) /\ list \in Seq(Uses)
      /\ \A i \in DOMAIN out : /\ out[i].use_count = Len(UsesLike(book, out[i]))
                               /\ \E j \in DOMAIN book : /\ SameUse(book[j], out[i])
                                                         /\ book[j].input_index = out[i].input_index
  BY <1>1 DEF ArraysMatch
<1>3. PICK offs : Blocks(book, out, list, offs)
  BY <1>1 DEF ArraysMatch
<1>4. \A i \in 1 .. Len(out) + 1 : Offset(out, i) = offs[i]
  BY <1>2, <1>3, OffsetOfBlock
<1>5. /\ offs \in [1 .. Len(out) + 1 -> Nat]
      /\ offs[1] = 0 /\ Len(list) = offs[Len(out) + 1]
      /\ \A i \in 1 .. Len(out) :
           /\ offs[i + 1] = offs[i] + Len(UsesLike(book, out[i]))
           /\ offs[i + 1] <= Len(list)
           /\ \A y \in 1 .. Len(UsesLike(book, out[i])) : list[offs[i] + y] = UsesLike(book, out[i])[y]
  BY ONLY <1>3 DEF Blocks
<1> DEFINE block(i) == [k \in 1 .. out[i].use_count |->
                          [control |-> out[i].control, udq |-> names[out[i].input_index],
                           wgname |-> wells[Offset(out, i) + k]]]
           blocks == [i \in DOMAIN out |-> block(i)]
           read == [n \in DOMAIN list |-> Argument(list[n])]
<1>6. load_rst(out, wells, names) = FlattenSeq(blocks)
  BY DEF load_rst
<1>7. /\ DOMAIN out = 1 .. Len(out) /\ DOMAIN list = 1 .. Len(list)
      /\ Len(out) \in Nat /\ Len(list) \in Nat
      /\ \A n \in DOMAIN list : list[n] \in Uses
  BY <1>2
<1>8. /\ read \in Seq(Arguments) /\ Len(read) = Len(list)
      /\ \A n \in 1 .. Len(list) : read[n] = Argument(list[n])
  <2>1. read \in [1 .. Len(list) -> Arguments]
    BY <1>7, UsesFields DEF Argument, Arguments
  <2> HIDE DEF read
  <2>2. read \in Seq(Arguments) /\ Len(read) = Len(list)
    BY <1>7, <2>1
  <2> QED
    BY <1>7, <2>2 DEF read
<1>9. ASSUME NEW i \in 1 .. Len(out)
      PROVE  /\ block(i) \in Seq(Arguments) /\ Len(block(i)) = Len(UsesLike(book, out[i]))
             /\ \A k \in 1 .. Len(block(i)) : read[offs[i] + k] = block(i)[k]
  <2> DEFINE u == UsesLike(book, out[i])
  <2>1. /\ u \in Seq(Uses) /\ Len(u) \in Nat /\ DOMAIN u = 1 .. Len(u)
        /\ \A k \in DOMAIN u : SameUse(u[k], out[i])
    BY UsesTyped
  <2>2. /\ offs[i] \in Nat /\ offs[i] + Len(u) <= Len(list) /\ out[i].use_count = Len(u)
        /\ \A k \in 1 .. Len(u) : list[offs[i] + k] = u[k]
    <3>1. i \in 1 .. Len(out) + 1 /\ i \in DOMAIN out
      BY <1>7
    <3> QED
      BY <1>2, <1>5, <3>1
  <2>3. names[out[i].input_index] = out[i].udq
    <3>1. PICK j \in DOMAIN book : /\ SameUse(book[j], out[i])
                                   /\ book[j].input_index = out[i].input_index
      BY <1>2, <1>7
    <3> QED
      BY <3>1 DEF NamedBy, SameUse
  <2>4. Offset(out, i) = offs[i]
    BY <1>4, <1>7
  <2> DEFINE b == block(i)
  <2>5. b = [k \in 1 .. Len(u) |-> [control |-> out[i].control, udq |-> out[i].udq,
                                    wgname |-> wells[offs[i] + k]]]
    BY <2>2, <2>3, <2>4
  <2> HIDE DEF u, b
  <2>6. ASSUME NEW k \in 1 .. Len(u)
        PROVE  b[k] \in Arguments /\ b[k] = read[offs[i] + k]
    <3>1. offs[i] + k \in 1 .. Len(list)
      BY <1>7, <2>1, <2>2
    <3>2. list[offs[i] + k] = u[k] /\ u[k] \in Uses /\ SameUse(u[k], out[i])
      BY <2>1, <2>2
    <3>3. wells[offs[i] + k] = u[k].wgname
      BY <1>7, <3>1, <3>2
    <3>4. b[k] = Argument(u[k])
      BY <2>5, <3>2, <3>3 DEF Argument, SameUse
    <3>5. read[offs[i] + k] = Argument(u[k])
      BY <1>8, <3>1, <3>2
    <3> QED
      BY <3>2, <3>4, <3>5, UsesFields DEF Argument, Arguments
  <2>7. b \in [1 .. Len(u) -> Arguments]
    BY <2>5, <2>6
  <2>8. b \in Seq(Arguments) /\ Len(b) = Len(u)
    BY <2>1, <2>7
  <2> QED
    BY <2>6, <2>8 DEF b, u
<1> HIDE DEF block, read
<1>10. /\ blocks \in Seq(Seq(Arguments)) /\ Len(blocks) = Len(out)
       /\ \A i \in 1 .. Len(out) : blocks[i] = block(i)
  <2>1. blocks \in [1 .. Len(out) -> Seq(Arguments)]
    BY <1>7, <1>9
  <2> HIDE DEF blocks
  <2>2. blocks \in Seq(Seq(Arguments)) /\ Len(blocks) = Len(out)
    BY <1>7, <2>1
  <2> QED
    BY <1>7, <2>2 DEF blocks
<1> HIDE DEF blocks
<1>11. Laid(blocks, offs, read)
  <2>1. Len(blocks) = Len(out) /\ Len(read) = Len(list)
    BY <1>8, <1>10
  <2>2. ASSUME NEW i \in 1 .. Len(blocks)
        PROVE  /\ offs[i + 1] = offs[i] + Len(blocks[i])
               /\ offs[i + 1] <= Len(read)
               /\ \A y \in 1 .. Len(blocks[i]) : read[offs[i] + y] = blocks[i][y]
    <3>1. i \in 1 .. Len(out) /\ blocks[i] = block(i)
      BY <1>10, <2>1
    <3>2. /\ Len(block(i)) = Len(UsesLike(book, out[i]))
          /\ \A y \in 1 .. Len(block(i)) : read[offs[i] + y] = block(i)[y]
      BY <1>9, <3>1
    <3>3. offs[i + 1] = offs[i] + Len(UsesLike(book, out[i])) /\ offs[i + 1] <= Len(list)
      BY <1>5, <3>1
    <3> QED
      BY <2>1, <3>1, <3>2, <3>3
  <2>3. offs \in [1 .. Len(blocks) + 1 -> Nat] /\ offs[1] = 0 /\ Len(read) = offs[Len(blocks) + 1]
    BY <1>5, <2>1
  <2> QED
    BY ONLY <2>2, <2>3 DEF Laid
<1>12. FlattenSeq(blocks) = read
  <2>1. blocks \in Seq(Seq(Arguments)) /\ read \in Seq(Arguments)
    BY <1>8, <1>10
  <2> QED
    BY ONLY <2>1, <1>11, Flattened
<1> QED
  BY <1>6, <1>12 DEF read

(* The records of IUAP are those of the book. *)
LEMMA ListedRecords ==
  ASSUME NEW book \in Seq(Uses), NEW list, list = iuap(book)
  PROVE  list \in Seq(Uses) /\ Range(list) = Range(book)
<1> DEFINE out == constructOutputRecords(book)
<1>1. ArraysMatch(book, book, out, list)
  BY BothArrays
<1> HIDE DEF out
<1>2. /\ out \in Seq(UseRecords) /\ list \in Seq(Uses)
      /\ \A j \in DOMAIN book : HasUse(out, book[j])
  BY <1>1 DEF ArraysMatch
<1>3. PICK offs : Blocks(book, out, list, offs)
  BY <1>1 DEF ArraysMatch
<1>4. /\ offs \in [1 .. Len(out) + 1 -> Nat]
      /\ \A i \in 1 .. Len(out) :
           /\ offs[i + 1] = offs[i] + Len(UsesLike(book, out[i]))
           /\ offs[i + 1] <= Len(list)
           /\ \A y \in 1 .. Len(UsesLike(book, out[i])) : list[offs[i] + y] = UsesLike(book, out[i])[y]
      /\ \A n \in 1 .. Len(list) :
           \E i \in 1 .. Len(out) : \E y \in 1 .. Len(UsesLike(book, out[i])) : n = offs[i] + y
  BY ONLY <1>3 DEF Blocks
<1>5. /\ DOMAIN out = 1 .. Len(out) /\ DOMAIN list = 1 .. Len(list)
      /\ Len(out) \in Nat /\ Len(list) \in Nat
  BY <1>2
<1>6. ASSUME NEW i \in 1 .. Len(out), NEW y \in 1 .. Len(UsesLike(book, out[i]))
      PROVE  /\ offs[i] + y \in DOMAIN list
             /\ list[offs[i] + y] = UsesLike(book, out[i])[y]
  <2> DEFINE u == UsesLike(book, out[i])
  <2>1. u \in Seq(Uses) /\ Len(u) \in Nat
    BY UsesTyped
  <2>2. i \in 1 .. Len(out) + 1
    BY <1>5
  <2>3. offs[i] \in Nat /\ offs[i] + Len(u) <= Len(list) /\ list[offs[i] + y] = u[y]
    BY <1>4, <2>2
  <2> HIDE DEF u
  <2>4. y \in 1 .. Len(u)
    BY DEF u
  <2> QED
    BY <1>5, <2>1, <2>3, <2>4 DEF u
<1>7. ASSUME NEW n \in DOMAIN list PROVE list[n] \in Range(book)
  <2>1. PICK i \in 1 .. Len(out) : \E y \in 1 .. Len(UsesLike(book, out[i])) : n = offs[i] + y
    BY <1>4, <1>5
  <2>2. PICK y \in 1 .. Len(UsesLike(book, out[i])) : n = offs[i] + y
    BY <2>1
  <2>3. list[n] = UsesLike(book, out[i])[y]
    BY <1>6, <2>2
  <2>4. y \in DOMAIN UsesLike(book, out[i])
    BY UsesTyped
  <2>5. list[n] \in Range(UsesLike(book, out[i]))
    BY <2>3, <2>4 DEF Range
  <2>6. PICK l \in DOMAIN book : list[n] = book[l]
    BY <2>5, UsesFrom
  <2> QED
    BY <2>6 DEF Range
<1>8. ASSUME NEW j \in DOMAIN book PROVE book[j] \in Range(list)
  <2>1. PICK i \in 1 .. Len(out) : SameUse(out[i], book[j])
    BY <1>2, <1>5 DEF HasUse
  <2>2. book[j] \in Range(UsesLike(book, out[i]))
    BY <2>1, UsesFrom DEF SameUse
  <2>3. DOMAIN UsesLike(book, out[i]) = 1 .. Len(UsesLike(book, out[i]))
    BY UsesTyped
  <2>4. PICK y \in 1 .. Len(UsesLike(book, out[i])) : UsesLike(book, out[i])[y] = book[j]
    BY <2>2, <2>3 DEF Range
  <2> QED
    BY <1>6, <2>4 DEF Range
<1> QED
  BY <1>2, <1>7, <1>8 DEF Range

(* The wells of each record of IUAD are found at its offset in IUAP. *)
Leads(book, out, list) ==
  /\ Len(list) = Offset(out, Len(out) + 1)
  /\ \A i \in DOMAIN out :
       {list[Offset(out, i) + k] : k \in 1 .. out[i].use_count}
         = {book[j] : j \in {x \in DOMAIN book : SameUse(book[x], out[i])}}

(* The offsets lead to the wells of each use. *)
LEMMA OffsetsLead ==
  ASSUME NEW book \in Seq(Uses), NEW out, out = constructOutputRecords(book),
         NEW list, list = iuap(book)
  PROVE  Leads(book, out, list)
<1>1. ArraysMatch(book, book, out, list)
  BY BothArrays
<1>2. /\ out \in Seq(UseRecords) /\ list \in Seq(Uses)
      /\ \A i \in DOMAIN out : out[i].use_count = Len(UsesLike(book, out[i]))
  BY <1>1 DEF ArraysMatch
<1>3. PICK offs : Blocks(book, out, list, offs)
  BY <1>1 DEF ArraysMatch
<1>4. \A i \in 1 .. Len(out) + 1 : Offset(out, i) = offs[i]
  BY <1>2, <1>3, OffsetOfBlock
<1>5. /\ Len(list) = offs[Len(out) + 1]
      /\ \A i \in 1 .. Len(out) :
           \A y \in 1 .. Len(UsesLike(book, out[i])) : list[offs[i] + y] = UsesLike(book, out[i])[y]
  BY ONLY <1>3 DEF Blocks
<1>6. DOMAIN out = 1 .. Len(out) /\ Len(out) \in Nat
  BY <1>2
<1>7. Len(list) = Offset(out, Len(out) + 1)
  <2>1. Len(out) + 1 \in 1 .. Len(out) + 1
    BY <1>6
  <2> QED
    BY <1>4, <1>5, <2>1
<1>8. ASSUME NEW i \in DOMAIN out
      PROVE  {list[Offset(out, i) + k] : k \in 1 .. out[i].use_count}
               = {book[j] : j \in {x \in DOMAIN book : SameUse(book[x], out[i])}}
  <2> DEFINE u == UsesLike(book, out[i])
  <2>1. DOMAIN u = 1 .. Len(u) /\ Range(u) = {book[j] : j \in {x \in DOMAIN book : SameUse(book[x], out[i])}}
    BY UsesTyped, UsesFrom
  <2>2. Offset(out, i) = offs[i] /\ out[i].use_count = Len(u)
    BY <1>2, <1>4, <1>6
  <2>3. \A k \in 1 .. Len(u) : list[offs[i] + k] = u[k]
    BY <1>5, <1>6
  <2> HIDE DEF u
  <2>4. {list[offs[i] + k] : k \in 1 .. Len(u)} = Range(u)
    BY <2>1, <2>3 DEF Range
  <2> QED
    BY <2>1, <2>2, <2>4
<1> QED
  BY <1>7, <1>8 DEF Leads

-----------------------------------------------------------------------------
(* Registering the arguments.                                              *)

(* The records name their quantities by the numbers of the index. *)
IndexedBy(c, book) ==
  \A i \in DOMAIN book : /\ book[i].input_index \in DOMAIN c.index
                         /\ c.index[book[i].input_index] = book[i].udq

(* The number of a quantity. *)
LEMMA IndexOfKnown ==
  ASSUME NEW c, ConfigSound(c), NEW q \in Known(c), NEW n, n = IndexOf(c, q)
  PROVE  n \in DOMAIN c.index /\ c.index[n] = q /\ n \in Nat /\ q \in Quantities
<1>1. c.index \in Seq(Quantities) /\ Range(c.index) = Known(c)
  BY DEF ConfigSound
<1>2. \E i \in DOMAIN c.index : c.index[i] = q
  BY <1>1 DEF Range
<1>3. n \in DOMAIN c.index /\ c.index[n] = q
  BY <1>2 DEF IndexOf
<1> QED
  BY <1>1, <1>3

(* The numbers stay when quantities are added. *)
LEMMA IndexedMore ==
  ASSUME NEW c, NEW d, ConfigSound(c), ConfigSound(d), Extends(d.index, c.index),
         NEW book, IndexedBy(c, book)
  PROVE  IndexedBy(d, book)
<1>1. c.index \in Seq(Quantities) /\ d.index \in Seq(Quantities)
  BY DEF ConfigSound
<1>2. DOMAIN c.index \subseteq DOMAIN d.index
  BY <1>1 DEF Extends
<1> QED
  BY <1>2 DEF Extends, IndexedBy

(* What an update makes of a book that is in order. *)
Updated(c, book, x, w, ctl, new) ==
  /\ new \in Seq(Uses) /\ Unrepeated(new) /\ IndexedBy(c, new)
  /\ \A j \in DOMAIN book : ~(book[j].wgname = w /\ book[j].control = ctl)
                              => \E i \in DOMAIN new : new[i] = book[j]
  /\ x # Number => \E i \in DOMAIN new : new[i].wgname = w /\ new[i].control = ctl /\ new[i].udq = x

(* An update leaves the book in order. *)
LEMMA UpdatedBook ==
  ASSUME NEW c, ConfigSound(c), NEW book \in Seq(Uses), Unrepeated(book), IndexedBy(c, book),
         NEW x \in Quantities \cup {Number}, NEW n, x # Number => n \in DOMAIN c.index /\ c.index[n] = x,
         NEW w \in Wells, NEW ctl \in Controlling, NEW new, new = update(book, n, x, w, ctl)
  PROVE  Updated(c, book, x, w, ctl, new)
<1>1. x # Number => n \in Nat
  BY DEF ConfigSound
<1>2. Changed(book, n, x, w, ctl, new)
  BY <1>1, UpdateIs
<1>3. ASSUME NEW i \in DOMAIN new
      PROVE  new[i].input_index \in DOMAIN c.index /\ c.index[new[i].input_index] = new[i].udq
  <2>1. CASE \E j \in DOMAIN book : new[i] = book[j]
    BY <2>1 DEF IndexedBy
  <2>2. CASE x # Number /\ new[i] = InputRecord(n, x, w, ctl)
    BY <2>2 DEF InputRecord
  <2> QED
    BY <1>2, <2>1, <2>2 DEF Changed
<1> QED
  BY <1>2, <1>3 DEF Changed, Updated, IndexedBy

RegisterOp(p, book, f) ==
  update(book, IF p.given[f] = Number THEN 0 ELSE IndexOf(p.config, p.given[f]), p.given[f],
         p.well, <<p.keyword, f>>)

RegisterInv(p, k, book) ==
  /\ book \in Seq(Uses) /\ Unrepeated(book) /\ IndexedBy(p.config, book)
  /\ \A j \in DOMAIN p.book :
       ~(p.book[j].wgname = p.well /\ p.book[j].control[2] \in DOMAIN p.given)
         => \E i \in DOMAIN book : book[i] = p.book[j]
  /\ \A l \in 1 .. k : p.given[p.order[l]] # Number =>
       \E i \in DOMAIN book : /\ book[i].wgname = p.well /\ book[i].control = <<p.keyword, p.order[l]>>
                              /\ book[i].udq = p.given[p.order[l]]

Registering == INSTANCE Recursion WITH Op <- RegisterOp, Inv <- RegisterInv

(* A keyword of a well registers the targets it gives, one after another. *)
RegisterRecord(p) ==
  /\ p = [config |-> p.config, book |-> p.book, given |-> p.given, well |-> p.well,
          keyword |-> p.keyword, order |-> p.order]
  /\ ConfigSound(p.config)
  /\ p.book \in Seq(Uses) /\ Unrepeated(p.book) /\ IndexedBy(p.config, p.book)
  /\ DOMAIN p.given \subseteq Fields
  /\ p.given \in [DOMAIN p.given -> Quantities \cup {Number}]
  /\ \A f \in DOMAIN p.given : p.given[f] # Number => p.given[f] \in Known(p.config)
  /\ p.well \in Wells /\ p.keyword \in Keywords
  /\ p.order = SetToSeq(DOMAIN p.given)

(* One target more is registered. *)
LEMMA RegisterStep ==
  ASSUME NEW p, RegisterRecord(p), NEW k \in 1 .. Len(p.order), p.order \in Seq(DOMAIN p.given),
         \A i, j \in DOMAIN p.order : p.order[i] = p.order[j] => i = j,
         NEW book, RegisterInv(p, k - 1, book)
  PROVE  RegisterInv(p, k, RegisterOp(p, book, p.order[k]))
<1> DEFINE f == p.order[k]
           x == p.given[f]
           n == IF x = Number THEN 0 ELSE IndexOf(p.config, x)
           w == p.well
           ctl == <<p.keyword, f>>
           new == update(book, n, x, w, ctl)
<1>1. /\ ConfigSound(p.config) /\ book \in Seq(Uses) /\ Unrepeated(book) /\ IndexedBy(p.config, book)
      /\ w \in Wells
  BY DEF RegisterRecord, RegisterInv
<1>2. f \in DOMAIN p.given /\ f \in Fields /\ DOMAIN p.order = 1 .. Len(p.order)
  BY DEF RegisterRecord
<1>3. x \in Quantities \cup {Number} /\ (x # Number => x \in Known(p.config))
  BY <1>2 DEF RegisterRecord
<1>4. x # Number => n \in DOMAIN p.config.index /\ p.config.index[n] = x
  BY <1>1, <1>3, IndexOfKnown
<1>5. ctl \in Controlling /\ ctl[2] = f /\ ctl = <<p.keyword, f>>
  BY <1>2 DEF RegisterRecord, Controlling
<1>6. RegisterOp(p, book, p.order[k]) = new
  BY DEF RegisterOp
<1> HIDE DEF n, x, ctl
<1>7. Updated(p.config, book, x, w, ctl, new)
  <2> HIDE DEF w, f
  <2> QED
    BY <1>1, <1>3, <1>4, <1>5, UpdatedBook
<1> HIDE DEF new
<1>8. ASSUME NEW j \in DOMAIN p.book,
             ~(p.book[j].wgname = p.well /\ p.book[j].control[2] \in DOMAIN p.given)
      PROVE  \E i \in DOMAIN new : new[i] = p.book[j]
  <2>1. PICK i \in DOMAIN book : book[i] = p.book[j]
    BY <1>8 DEF RegisterInv
  <2>2. ~(book[i].wgname = w /\ book[i].control = ctl)
    BY <1>2, <1>5, <1>8, <2>1
  <2> QED
    BY <1>7, <2>1, <2>2 DEF Updated
<1>9. ASSUME NEW l \in 1 .. k, p.given[p.order[l]] # Number
      PROVE  \E i \in DOMAIN new : /\ new[i].wgname = p.well /\ new[i].control = <<p.keyword, p.order[l]>>
                                   /\ new[i].udq = p.given[p.order[l]]
  <2>1. CASE l = k
    <3>1. <<p.keyword, p.order[l]>> = ctl /\ p.given[p.order[l]] = x
      BY <1>5, <2>1 DEF x
    <3> QED
      BY <1>7, <1>9, <3>1 DEF Updated
  <2>2. CASE l # k
    <3>1. l \in 1 .. k - 1 /\ l \in DOMAIN p.order /\ k \in DOMAIN p.order
      BY <1>2, <2>2
    <3>2. PICK i \in DOMAIN book : /\ book[i].wgname = p.well
                                   /\ book[i].control = <<p.keyword, p.order[l]>>
                                   /\ book[i].udq = p.given[p.order[l]]
      BY <1>9, <3>1 DEF RegisterInv
    <3>3. p.order[l] # p.order[k]
      BY <2>2, <3>1
    <3>4. book[i].control # ctl
      <4>1. <<p.keyword, p.order[l]>>[2] = p.order[l]
        OBVIOUS
      <4> QED
        BY <1>5, <3>2, <3>3, <4>1
    <3>5. PICK m \in DOMAIN new : new[m] = book[i]
      BY <1>7, <3>4 DEF Updated
    <3> QED
      BY <3>2, <3>5
  <2> QED
    BY <2>1, <2>2
<1> QED
  BY <1>6, <1>7, <1>8, <1>9 DEF RegisterInv, Updated

AllRegistered(c, book, given, w, kw, new) ==
  /\ new \in Seq(Uses) /\ Unrepeated(new) /\ IndexedBy(c, new)
  /\ \A j \in DOMAIN book : ~(book[j].wgname = w /\ book[j].control[2] \in DOMAIN given)
                             => \E i \in DOMAIN new : new[i] = book[j]
  /\ \A f \in DOMAIN given : given[f] # Number =>
       \E i \in DOMAIN new : new[i].wgname = w /\ new[i].control = <<kw, f>> /\ new[i].udq = given[f]

(* All targets of the keyword are registered, and the records of others    *)
(* stay.                                                                   *)
LEMMA Registered ==
  ASSUME NEW p, RegisterRecord(p), NEW new, new = Registering!Fold(p, p.book, p.order)
  PROVE  AllRegistered(p.config, p.book, p.given, p.well, p.keyword, new)
<1>1. IsFiniteSet(DOMAIN p.given)
  BY UDQAssumption, FS_Subset DEF RegisterRecord
<1>2. /\ p.order \in Seq(DOMAIN p.given) /\ Range(p.order) = DOMAIN p.given
      /\ \A i, j \in DOMAIN p.order : p.order[i] = p.order[j] => i = j
  BY <1>1, SetToSeqIs DEF RegisterRecord
<1>3. RegisterInv(p, 0, p.book)
  BY DEF RegisterInv, RegisterRecord
<1>4. \A k \in 1 .. Len(p.order) : \A a : RegisterInv(p, k - 1, a) => RegisterInv(p, k, RegisterOp(p, a, p.order[k]))
  BY <1>2, RegisterStep
<1>5. RegisterInv(p, Len(p.order), new)
  <2> DEFINE s == p.order
             first == p.book
             S == DOMAIN p.given
  <2>1. s \in Seq(S) /\ RegisterInv(p, 0, first) /\ new = Registering!Fold(p, first, s)
        /\ \A k \in 1 .. Len(s) : \A a : RegisterInv(p, k - 1, a) => RegisterInv(p, k, RegisterOp(p, a, s[k]))
    BY <1>2, <1>3, <1>4
  <2> HIDE DEF s, first, S
  <2>2. RegisterInv(p, Len(s), new)
    BY <2>1, Registering!FoldKeeps
  <2> QED
    BY <2>2 DEF s
<1>6. ASSUME NEW f \in DOMAIN p.given PROVE \E l \in 1 .. Len(p.order) : p.order[l] = f
  BY <1>2 DEF Range
<1>7. /\ new \in Seq(Uses) /\ Unrepeated(new) /\ IndexedBy(p.config, new)
      /\ \A j \in DOMAIN p.book :
           ~(p.book[j].wgname = p.well /\ p.book[j].control[2] \in DOMAIN p.given)
             => \E i \in DOMAIN new : new[i] = p.book[j]
  BY <1>5 DEF RegisterInv
<1>8. ASSUME NEW f \in DOMAIN p.given, p.given[f] # Number
      PROVE  \E i \in DOMAIN new : /\ new[i].wgname = p.well /\ new[i].control = <<p.keyword, f>>
                                   /\ new[i].udq = p.given[f]
  <2>1. PICK l \in 1 .. Len(p.order) : p.order[l] = f
    BY <1>6
  <2>2. \E i \in DOMAIN new : /\ new[i].wgname = p.well /\ new[i].control = <<p.keyword, p.order[l]>>
                              /\ new[i].udq = p.given[p.order[l]]
    BY <1>5, <1>8, <2>1 DEF RegisterInv
  <2> QED
    BY <2>1, <2>2
<1>9. \A f \in DOMAIN p.given : p.given[f] # Number =>
        \E i \in DOMAIN new : /\ new[i].wgname = p.well /\ new[i].control = <<p.keyword, f>>
                              /\ new[i].udq = p.given[f]
  BY <1>8
<1> QED
  BY ONLY <1>7, <1>9 DEF AllRegistered
-----------------------------------------------------------------------------
(* Reading the arguments again.                                            *)

ReadOp(p, book, r) == update(book, IndexOf(p.config, r.udq), r.udq, r.wgname, r.control)

ReadInv(p, k, book) ==
  /\ book \in Seq(Uses) /\ Unrepeated(book) /\ IndexedBy(p.config, book)
  /\ \A l \in 1 .. k : \E i \in DOMAIN book : /\ book[i].wgname = p.args[l].wgname
                                              /\ book[i].control = p.args[l].control
                                              /\ book[i].udq = p.args[l].udq

Reading == INSTANCE Recursion WITH Op <- ReadOp, Inv <- ReadInv

(* Of the arguments those of a well and a control name one quantity. *)
ReadRecord(p) ==
  /\ p = [config |-> p.config, args |-> p.args]
  /\ ConfigSound(p.config)
  /\ p.args \in Seq(Arguments)
  /\ \A l \in DOMAIN p.args : p.args[l].udq \in Known(p.config)
  /\ \A l, m \in DOMAIN p.args :
       p.args[l].wgname = p.args[m].wgname /\ p.args[l].control = p.args[m].control
         => p.args[l].udq = p.args[m].udq

(* One argument more is read back. *)
LEMMA ReadStep ==
  ASSUME NEW p, ReadRecord(p), NEW k \in 1 .. Len(p.args), NEW book, ReadInv(p, k - 1, book)
  PROVE  ReadInv(p, k, ReadOp(p, book, p.args[k]))
<1> DEFINE r == p.args[k]
           x == r.udq
           n == IndexOf(p.config, x)
           new == update(book, n, x, r.wgname, r.control)
<1>1. /\ ConfigSound(p.config) /\ book \in Seq(Uses) /\ Unrepeated(book) /\ IndexedBy(p.config, book)
  BY DEF ReadRecord, ReadInv
<1>2. r \in Arguments /\ x \in Known(p.config) /\ DOMAIN p.args = 1 .. Len(p.args) /\ Len(p.args) \in Nat
  BY DEF ReadRecord
<1>3. r.wgname \in Wells /\ r.control \in Controlling /\ x \in Quantities
  BY <1>2 DEF Arguments
<1>4. n \in DOMAIN p.config.index /\ p.config.index[n] = x
  BY <1>1, <1>2, IndexOfKnown
<1>5. ReadOp(p, book, p.args[k]) = new
  BY DEF ReadOp
<1>6. x # Number /\ x \in Quantities \cup {Number}
  BY <1>3, UDQAssumption
<1>7. Updated(p.config, book, x, r.wgname, r.control, new)
  <2> DEFINE w == r.wgname
             ctl == r.control
             c == p.config
  <2>1. /\ w \in Wells /\ ctl \in Controlling /\ new = update(book, n, x, w, ctl)
        /\ ConfigSound(c) /\ IndexedBy(c, book) /\ n \in DOMAIN c.index /\ c.index[n] = x
    BY <1>1, <1>3, <1>4
  <2> HIDE DEF w, ctl, c, new, n, x, r
  <2>2. Updated(c, book, x, w, ctl, new)
    BY <1>1, <1>6, <2>1, UpdatedBook
  <2> QED
    BY <2>2 DEF w, ctl, c
<1> HIDE DEF new, n
<1>8. ASSUME NEW l \in 1 .. k
      PROVE  \E i \in DOMAIN new : /\ new[i].wgname = p.args[l].wgname
                                   /\ new[i].control = p.args[l].control
                                   /\ new[i].udq = p.args[l].udq
  <2>0. l \in DOMAIN p.args /\ k \in DOMAIN p.args
    BY <1>2
  <2>1. CASE p.args[l].wgname = r.wgname /\ p.args[l].control = r.control
    <3>1. p.args[l].udq = x
      BY <2>0, <2>1 DEF ReadRecord
    <3> QED
      BY <1>6, <1>7, <2>1, <3>1 DEF Updated
  <2>2. CASE ~(p.args[l].wgname = r.wgname /\ p.args[l].control = r.control)
    <3>1. l \in 1 .. k - 1
      BY <1>2, <2>2
    <3>2. PICK i \in DOMAIN book : /\ book[i].wgname = p.args[l].wgname
                                   /\ book[i].control = p.args[l].control
                                   /\ book[i].udq = p.args[l].udq
      BY <3>1 DEF ReadInv
    <3>3. \E m \in DOMAIN new : new[m] = book[i]
      BY <1>7, <2>2, <3>2 DEF Updated
    <3> QED
      BY <3>2, <3>3
  <2> QED
    BY <2>1, <2>2
<1> QED
  BY <1>5, <1>7, <1>8 DEF ReadInv, Updated

(* All arguments are read back, each with its record. *)
LEMMA ReadAgain ==
  ASSUME NEW p, ReadRecord(p), NEW new, new = Reading!Fold(p, << >>, p.args)
  PROVE  ReadInv(p, Len(p.args), new)
<1> DEFINE s == p.args
<1>1. s \in Seq(Arguments)
  BY DEF ReadRecord
<1>2. ReadInv(p, 0, << >>)
  BY DEF ReadInv, Unrepeated, IndexedBy
<1>3. \A k \in 1 .. Len(s) : \A a : ReadInv(p, k - 1, a) => ReadInv(p, k, ReadOp(p, a, s[k]))
  BY ReadStep
<1>4. new = Reading!Fold(p, << >>, s)
  OBVIOUS
<1> HIDE DEF s
<1>5. ReadInv(p, Len(s), new)
  BY <1>1, <1>2, <1>3, <1>4, Reading!FoldKeeps
<1> QED
  BY <1>5 DEF s

TargetOp(args, t, r) == [t EXCEPT ![r.wgname][r.control[2]] = r.udq]

Targets == [Wells -> [Fields -> Quantities \cup {Number}]]

(* A target has the quantity of an argument for it, if there is one. *)
Gave(args, k, t, w, f) ==
  \/ t[w][f] = Number /\ \A l \in 1 .. k : ~(args[l].wgname = w /\ args[l].control[2] = f)
  \/ \E l \in 1 .. k : args[l].wgname = w /\ args[l].control[2] = f /\ t[w][f] = args[l].udq

TargetInv(args, k, t) ==
  /\ t \in Targets
  /\ \A w \in Wells, f \in Fields : Gave(args, k, t, w, f)

Giving == INSTANCE Recursion WITH Op <- TargetOp, Inv <- TargetInv

(* Every target that is read back is given by one of the arguments. *)
LEMMA TargetsGiven ==
  ASSUME NEW args \in Seq(Arguments), NEW first,
         first = [w \in Wells |-> [f \in Fields |-> Number]],
         NEW t, t = Giving!Fold(args, first, args)
  PROVE  TargetInv(args, Len(args), t)
<1>1. TargetInv(args, 0, first)
  BY DEF TargetInv, Targets, Gave
<1>2. ASSUME NEW k \in 1 .. Len(args), NEW a, TargetInv(args, k - 1, a)
      PROVE  TargetInv(args, k, TargetOp(args, a, args[k]))
  <2> DEFINE r == args[k]
             v == r.wgname
             g == r.control[2]
             b == TargetOp(args, a, r)
  <2>1. r \in Arguments /\ v \in Wells /\ g \in Fields /\ r.udq \in Quantities
    <3>1. r \in Arguments
      OBVIOUS
    <3> QED
      BY <3>1 DEF Arguments, Controlling
  <2>2. a \in Targets /\ \A w \in Wells, f \in Fields : Gave(args, k - 1, a, w, f)
    BY <1>2 DEF TargetInv
  <2>3. b = [a EXCEPT ![v][g] = r.udq]
    BY DEF TargetOp
  <2> HIDE DEF b
  <2>4. b \in Targets
    BY <2>1, <2>2, <2>3 DEF Targets
  <2>5. \A w \in Wells, f \in Fields : b[w][f] = IF w = v /\ f = g THEN r.udq ELSE a[w][f]
    BY <2>1, <2>2, <2>3 DEF Targets
  <2>6. ASSUME NEW w \in Wells, NEW f \in Fields PROVE Gave(args, k, b, w, f)
    <3>1. CASE w = v /\ f = g
      <4>1. k \in 1 .. k /\ args[k].wgname = w /\ args[k].control[2] = f /\ b[w][f] = args[k].udq
        BY <2>5, <3>1
      <4> QED
        BY <4>1 DEF Gave
    <3>2. CASE ~(w = v /\ f = g)
      <4>1. b[w][f] = a[w][f] /\ Gave(args, k - 1, a, w, f)
        BY <2>2, <2>5, <3>2
      <4>2. CASE \E l \in 1 .. k - 1 : args[l].wgname = w /\ args[l].control[2] = f /\ a[w][f] = args[l].udq
        <5>1. PICK l \in 1 .. k - 1 : args[l].wgname = w /\ args[l].control[2] = f /\ a[w][f] = args[l].udq
          BY <4>2
        <5>2. l \in 1 .. k
          OBVIOUS
        <5> QED
          BY <4>1, <5>1, <5>2 DEF Gave
      <4>3. CASE a[w][f] = Number /\ \A l \in 1 .. k - 1 : ~(args[l].wgname = w /\ args[l].control[2] = f)
        <5>1. \A l \in 1 .. k : l = k \/ l \in 1 .. k - 1
          OBVIOUS
        <5>2. \A l \in 1 .. k : ~(args[l].wgname = w /\ args[l].control[2] = f)
          BY <3>2, <4>3, <5>1
        <5> QED
          BY <4>1, <4>3, <5>2 DEF Gave
      <4> QED
        BY <4>1, <4>2, <4>3 DEF Gave
    <3> QED
      BY <3>1, <3>2
  <2> QED
    BY <2>4, <2>6 DEF TargetInv, b
<1>3. TargetInv(args, Len(args), Giving!Fold(args, first, args))
  <2>1. \A k \in 1 .. Len(args) : \A a : TargetInv(args, k - 1, a) => TargetInv(args, k, TargetOp(args, a, args[k]))
    BY <1>2
  <2>2. args \in Seq(Arguments)
    OBVIOUS
  <2> QED
    BY ONLY <1>1, <2>1, <2>2, Giving!FoldKeeps
<1> QED
  BY <1>3
-----------------------------------------------------------------------------
(* The book and the targets.                                               *)

(* A target that a quantity gives has a record that says so. *)
Backed(t, book) ==
  \A w \in Wells, f \in Fields : t[w][f] # Number =>
    \E i \in DOMAIN book : book[i].wgname = w /\ book[i].control[2] = f /\ book[i].udq = t[w][f]

BookInv ==
  /\ active \in Seq(Uses) /\ Unrepeated(active)
  /\ output \in {<< >>, constructOutputRecords(active)}
  /\ target \in Targets /\ Backed(target, active)
  /\ ~fault => IndexedBy(configs[step], active)

(* The book is empty at the beginning. *)
LEMMA InitBookInv == ASSUME Init PROVE BookInv
  BY DEF Init, BookInv, Unrepeated, Targets, Backed, IndexedBy

(* A step that leaves the book and the targets alone, and at most adds     *)
(* quantities to the configuration.                                        *)
LEMMA UnmovedBookInv ==
  ASSUME ConfigInv, ConfigInv', BookInv, ~fault, UNCHANGED <<active, target>>,
         output' \in {output, constructOutputRecords(active)},
         fault' \/ Extends(configs'[step'].index, configs[step].index)
  PROVE  BookInv'
<1> DEFINE c == configs[step]
           d == configs'[step']
<1>1. IndexedBy(c, active) /\ active \in Seq(Uses) /\ Unrepeated(active) /\ target \in Targets
      /\ Backed(target, active) /\ output' \in {<< >>, constructOutputRecords(active)}
  BY DEF BookInv
<1>2. ConfigSound(c)
  BY DEF ConfigInv
<1>3. ConfigSound(d)
  BY DEF ConfigInv
<1>4. ~fault' => Extends(d.index, c.index)
  OBVIOUS
<1> HIDE DEF c, d
<1>5. ~fault' => IndexedBy(d, active)
  BY <1>1, <1>2, <1>3, <1>4, IndexedMore
<1> QED
  BY <1>1, <1>5 DEF BookInv, d

(* An evaluation leaves the numbers of the quantities. *)
LEMMA EvaluateBookInv == ASSUME ConfigInv, ConfigInv', BookInv, Evaluate PROVE BookInv'
<1> DEFINE c == configs[step]
<1>1. ~fault /\ UNCHANGED <<step, active, target, output, fault>>
      /\ configs' = [j \in Steps |-> IF owner[j] = owner[step] THEN evaluated(c) ELSE configs[j]]
  BY DEF Evaluate
<1>2. ConfigSound(c) /\ step \in Steps
  BY DEF ConfigInv
<1>3. configs'[step'] = evaluated(c)
  BY <1>1, <1>2
<1>4. evaluated(c).index = c.index
  BY <1>2, EvaluatedIs DEF ClearedTo, ConfigSound
<1>5. Extends(c.index, c.index)
  BY <1>2 DEF Extends, ConfigSound
<1> QED
  BY <1>1, <1>3, <1>4, <1>5, UnmovedBookInv

(* An action may add quantities, behind the others. *)
LEMMA ApplyActionBookInv == ASSUME ConfigInv, ConfigInv', BookInv, ApplyAction PROVE BookInv'
<1>1. PICK records \in ActionBlocks, matches \in MatchSets :
        LET done == handleUDQ(configs[step], records, matches, TRUE)
        IN  IF done.ok THEN Install(step, done.config, step) ELSE fault' = TRUE
  BY DEF ApplyAction
<1>2. ~fault /\ UNCHANGED <<deck, step, active, output, target>>
  BY DEF ApplyAction
<1> DEFINE c == configs[step]
           done == handleUDQ(c, records, matches, TRUE)
<1>3. ConfigSound(c) /\ step \in Steps /\ LegalDeck
  BY LegalDecks DEF ConfigInv
<1>4. Legal(records)
  BY UDQAssumption
<1>5. CASE ~done.ok
  BY <1>1, <1>2, <1>5, UnmovedBookInv
<1>6. CASE done.ok
  <2> DEFINE d == done.config
             f == Rebuilt(step, d)
  <2>1. ConfigSound(d) /\ Extends(d.index, c.index)
    BY <1>3, <1>4, <1>6, HandleUDQ DEF Outcome
  <2>2. configs'[step] = f[step].config
    <3>1. configs' = [j \in Steps |-> IF j < step THEN configs[j] ELSE f[j].config]
      BY <1>1, <1>6 DEF Install
    <3> HIDE DEF f
    <3>2. ~(step < step)
      BY <1>3, StepsFacts
    <3> QED
      BY <1>3, <3>1, <3>2
  <2>3. f[step].config = d
    <3> HIDE DEF d
    <3>1. f[step] = [ok |-> TRUE, config |-> d]
      BY <1>3, <2>1, RebuiltIs
    <3> QED
      BY <3>1
  <2>4. Extends(configs'[step'].index, c.index)
    BY <1>2, <2>1, <2>2, <2>3
  <2> QED
    BY <1>2, <2>4, UnmovedBookInv
<1> QED
  BY <1>5, <1>6

(* The next report step may add quantities, behind the others. *)
LEMMA NextStepBookInv == ASSUME ConfigInv, ConfigInv', BookInv, NextStep PROVE BookInv'
<1> DEFINE c == configs[step]
           k == step + 1
           n == NewReportStep(c)
           done == handleUDQ(n, deck[k], {}, FALSE)
<1>1. /\ ~fault /\ step < N - 1 /\ step' = k
      /\ UNCHANGED <<deck, configs, active, target, output, fault>>
  BY DEF NextStep
<1>2. /\ step \in Steps /\ ConfigSound(c) /\ Built(configs, step)
  BY <1>1 DEF ConfigInv
<1>3. LegalDeck /\ N \in Nat \ {0} /\ Steps = 0 .. N - 1 /\ k \in Steps /\ k \in step + 1 .. N - 1 /\ k - 1 = step
  BY <1>1, <1>2, StepsFacts, LegalDecks DEF ConfigInv
<1>4. done.ok /\ configs[k] = done.config
  BY <1>2, <1>3 DEF Built, Block
<1>5. ConfigSound(n) /\ Legal(deck[k])
  BY <1>2, <1>3, NewReportStepSound DEF LegalDeck
<1>6. n.index = c.index
  BY <1>2, Cleared DEF ClearedTo, ConfigSound
<1> HIDE DEF n
<1>7. Extends(done.config.index, n.index)
  <2> HIDE DEF k
  <2> QED
    BY <1>4, <1>5, HandleUDQ DEF Outcome
<1>8. Extends(configs'[step'].index, c.index)
  BY <1>1, <1>4, <1>6, <1>7
<1> QED
  BY <1>1, <1>8, UnmovedBookInv

(* A keyword of a well. *)
LEMMA SetTargetsBookInv ==
  ASSUME ConfigInv, BookInv, ~fault, NEW w \in Wells, NEW kw \in Keywords,
         NEW given, given \in [DOMAIN given -> Quantities \cup {Number}], DOMAIN given \subseteq Fields,
         SetTargets(w, kw, given), UNCHANGED <<configs, step>>
  PROVE  BookInv'
<1> DEFINE c == configs[step]
           order == SetToSeq(DOMAIN given)
           p == [config |-> c, book |-> active, given |-> given, well |-> w, keyword |-> kw,
                 order |-> order]
           new == Registering!Fold(p, active, order)
           refusing == \E f \in DOMAIN given : given[f] # Number /\ ~HasKeyword(c, given[f])
<1>1. /\ active \in Seq(Uses) /\ Unrepeated(active) /\ IndexedBy(c, active)
      /\ output \in {<< >>, constructOutputRecords(active)}
      /\ target \in Targets /\ Backed(target, active)
  BY DEF BookInv
<1>2. ConfigSound(c)
  BY DEF ConfigInv
<1>3. /\ refusing => fault' = TRUE /\ UNCHANGED <<active, output, target>>
      /\ ~refusing => /\ target' = [target EXCEPT ![w] =
                            [f \in Fields |-> IF f \in DOMAIN given THEN given[f] ELSE @[f]]]
                      /\ active' = new
                      /\ output' = keptOutput(new)
                      /\ UNCHANGED fault
  BY DEF SetTargets, Registering!Fold, RegisterOp, FoldLeft, MapThenFoldSet, Registering!MapThenFoldSet, Max, Registering!Max
<1>4. CASE refusing
  BY <1>1, <1>3, <1>4 DEF BookInv
<1>5. CASE ~refusing
  <2>1. /\ p.config = c /\ p.book = active /\ p.given = given /\ p.well = w /\ p.keyword = kw
        /\ p.order = order
        /\ p = [config |-> p.config, book |-> p.book, given |-> p.given, well |-> p.well,
                keyword |-> p.keyword, order |-> p.order]
    OBVIOUS
  <2>2. \A f \in DOMAIN given : given[f] # Number => given[f] \in Known(c)
    BY <1>2, <1>5 DEF HasKeyword, ConfigSound
  <2>3. order = SetToSeq(DOMAIN given)
    OBVIOUS
  <2> HIDE DEF p, order, c, new
  <2>4. RegisterRecord(p)
    BY <1>1, <1>2, <2>1, <2>2, <2>3 DEF RegisterRecord
  <2>5. new = Registering!Fold(p, p.book, p.order)
    BY <2>1 DEF new
  <2>6. /\ new \in Seq(Uses) /\ Unrepeated(new) /\ IndexedBy(c, new)
        /\ \A j \in DOMAIN active :
             ~(active[j].wgname = w /\ active[j].control[2] \in DOMAIN given)
               => \E i \in DOMAIN new : new[i] = active[j]
        /\ \A f \in DOMAIN given : given[f] # Number =>
             \E i \in DOMAIN new : /\ new[i].wgname = w /\ new[i].control = <<kw, f>>
                                   /\ new[i].udq = given[f]
    <3>1. AllRegistered(c, active, given, w, kw, new)
      BY <2>1, <2>4, <2>5, Registered
    <3> QED
      BY <3>1 DEF AllRegistered
  <2> DEFINE t == target'
  <2>7. /\ t = [target EXCEPT ![w] = [f \in Fields |-> IF f \in DOMAIN given THEN given[f] ELSE @[f]]]
        /\ active' = new /\ output' = keptOutput(new) /\ fault' = fault
    BY <1>3, <1>5
  <2> HIDE DEF t
  <2>8. \A v \in Wells, f \in Fields : t[v][f] = IF v = w /\ f \in DOMAIN given THEN given[f]
                                                 ELSE target[v][f]
    BY <1>1, <2>7 DEF Targets
  <2>9. t \in Targets
    BY <1>1, <2>7 DEF Targets
  <2>10. ASSUME NEW v \in Wells, NEW f \in Fields, t[v][f] # Number
         PROVE  \E i \in DOMAIN new : new[i].wgname = v /\ new[i].control[2] = f /\ new[i].udq = t[v][f]
    <3>1. CASE v = w /\ f \in DOMAIN given
      <4>1. PICK i \in DOMAIN new : /\ new[i].wgname = w /\ new[i].control = <<kw, f>>
                                    /\ new[i].udq = given[f]
        BY <2>6, <2>8, <2>10, <3>1
      <4>2. new[i].control[2] = f
        BY <4>1
      <4> QED
        BY <2>8, <3>1, <4>1, <4>2
    <3>2. CASE ~(v = w /\ f \in DOMAIN given)
      <4>1. t[v][f] = target[v][f]
        BY <2>8, <3>2
      <4>2. PICK j \in DOMAIN active : /\ active[j].wgname = v /\ active[j].control[2] = f
                                       /\ active[j].udq = target[v][f]
        BY <1>1, <2>10, <4>1 DEF Backed
      <4>3. PICK i \in DOMAIN new : new[i] = active[j]
        BY <2>6, <3>2, <4>2
      <4> QED
        BY <4>1, <4>2, <4>3
    <3> QED
      BY <3>1, <3>2
  <2>11. Backed(t, new)
    BY <2>10 DEF Backed
  <2>12. output' \in {<< >>, constructOutputRecords(new)}
    BY <1>1, <2>7 DEF keptOutput
  <2>13. configs'[step'] = c
    BY DEF c
  <2> QED
    BY <2>6, <2>7, <2>9, <2>11, <2>12, <2>13 DEF BookInv, t
<1> QED
  BY <1>4, <1>5

(* Both keywords keep the book in order. *)
LEMMA SetTargetBookInv == ASSUME ConfigInv, BookInv, SetTarget PROVE BookInv'
<1>1. ~fault /\ UNCHANGED <<configs, step>>
  BY DEF SetTarget
<1>2. PICK w \in Wells : WCONPROD(w) \/ WELTARG(w)
  BY DEF SetTarget
<1>3. CASE WCONPROD(w)
  <2>1. PICK given \in [Fields -> Quantities \cup {Number}] : SetTargets(w, "WCONPROD", given)
    BY <1>3 DEF WCONPROD
  <2>2. given \in [DOMAIN given -> Quantities \cup {Number}] /\ DOMAIN given \subseteq Fields
        /\ "WCONPROD" \in Keywords
    BY DEF Keywords
  <2> QED
    BY <1>1, <2>1, <2>2, SetTargetsBookInv
<1>4. CASE WELTARG(w)
  <2>1. PICK f \in Fields, x \in Quantities \cup {Number} : SetTargets(w, "WELTARG", [g \in {f} |-> x])
    BY <1>4 DEF WELTARG
  <2> DEFINE given == [g \in {f} |-> x]
  <2>2. given \in [DOMAIN given -> Quantities \cup {Number}] /\ DOMAIN given \subseteq Fields
        /\ "WELTARG" \in Keywords /\ SetTargets(w, "WELTARG", given)
    BY <2>1 DEF Keywords
  <2> HIDE DEF given
  <2> QED
    BY <1>1, <2>2, SetTargetsBookInv
<1> QED
  BY <1>2, <1>3, <1>4

(* Writing keeps the IUAD that was computed. *)
LEMMA WriteBookInv == ASSUME ConfigInv, ConfigInv', BookInv, Write PROVE BookInv'
<1>1. ~fault /\ UNCHANGED <<configs, step, active, target>> /\ output' = iuad
  BY DEF Write
<1>2. output' \in {output, constructOutputRecords(active)}
  BY <1>1 DEF iuad
<1>3. Extends(configs'[step'].index, configs[step].index)
  BY <1>1 DEF Extends, ConfigInv, ConfigSound
<1> QED
  BY <1>1, <1>2, <1>3, UnmovedBookInv

(* The arguments a restart reads are those of the book. *)
LEMMA ArgumentsOf ==
  ASSUME ConfigInv, BookInv, ~fault, NEW args, args = RstArguments
  PROVE  /\ ConfigSound(Restored) /\ IndexedBy(Restored, active)
         /\ args \in Seq(Arguments)
         /\ \A l \in DOMAIN args : \E j \in DOMAIN active : args[l] = Argument(active[j])
         /\ \A j \in DOMAIN active : \E l \in DOMAIN args : args[l] = Argument(active[j])
<1> DEFINE c == configs[step]
           n == Restored
           list == iuap(active)
           wells == [i \in DOMAIN list |-> list[i].wgname]
<1>1. /\ active \in Seq(Uses) /\ IndexedBy(c, active)
      /\ output \in {<< >>, constructOutputRecords(active)}
  BY DEF BookInv
<1>2. ConfigSound(c)
  BY DEF ConfigInv
<1>3. ConfigSound(n) /\ n.index = c.index
  BY <1>2, RestoredIs DEF Restored
<1>4. IndexedBy(n, active)
  BY <1>1, <1>3 DEF IndexedBy
<1>5. iuad = constructOutputRecords(active)
  BY <1>1 DEF iuad
<1>6. args = load_rst(constructOutputRecords(active), wells, n.index)
  BY <1>5 DEF RstArguments
<1>7. NamedBy(n.index, active)
  BY <1>4 DEF NamedBy, IndexedBy
<1>8. args = [l \in DOMAIN list |-> Argument(list[l])]
  <2> DEFINE names == n.index
             out == constructOutputRecords(active)
  <2>1. list = iuap(active) /\ wells = [i \in DOMAIN list |-> list[i].wgname]
        /\ out = constructOutputRecords(active)
    OBVIOUS
  <2>2. args = load_rst(out, wells, names) /\ NamedBy(names, active)
    BY <1>6, <1>7
  <2> HIDE DEF list, wells, names, out
  <2> QED
    BY <1>1, <2>1, <2>2, ReadBackArguments
<1>9. list \in Seq(Uses) /\ Range(list) = Range(active)
  BY <1>1, ListedRecords
<1> HIDE DEF list
<1>10. args \in Seq(Arguments)
  <2>1. DOMAIN list = 1 .. Len(list) /\ Len(list) \in Nat /\ \A l \in DOMAIN list : list[l] \in Uses
    BY <1>9
  <2>2. args \in [1 .. Len(list) -> Arguments]
    BY <1>8, <2>1, UsesFields DEF Argument, Arguments
  <2> QED
    BY <2>1, <2>2
<1>11. DOMAIN args = DOMAIN list /\ \A l \in DOMAIN list : args[l] = Argument(list[l])
  BY <1>8
<1>12. \A l \in DOMAIN args : \E j \in DOMAIN active : args[l] = Argument(active[j])
  <2>1. \A l \in DOMAIN list : \E j \in DOMAIN active : list[l] = active[j]
    BY <1>9 DEF Range
  <2> QED
    BY <1>11, <2>1
<1>13. \A j \in DOMAIN active : \E l \in DOMAIN args : args[l] = Argument(active[j])
  <2>1. \A j \in DOMAIN active : \E l \in DOMAIN list : list[l] = active[j]
    BY <1>9 DEF Range
  <2> QED
    BY <1>11, <2>1
<1> QED
  BY <1>3, <1>4, <1>10, <1>12, <1>13

(* A restart makes the book and the targets anew, from the arguments. *)
LEMMA RestartBook ==
  ASSUME ConfigInv, BookInv, Restart, NEW args, args = RstArguments
  PROVE  /\ ReadInv([config |-> Restored, args |-> args], Len(args), active')
         /\ TargetInv(args, Len(args), target')
<1>1. ~fault
  BY DEF Restart
<1> DEFINE p == [config |-> Restored, args |-> args]
           first == [w \in Wells |-> [f \in Fields |-> Number]]
<1>2. /\ ConfigSound(Restored) /\ IndexedBy(Restored, active)
      /\ args \in Seq(Arguments)
      /\ \A l \in DOMAIN args : \E j \in DOMAIN active : args[l] = Argument(active[j])
  BY <1>1, ArgumentsOf
<1>3. \A j \in DOMAIN active : active[j].udq \in Known(Restored)
  <2> DEFINE n == Restored
  <2>1. Range(n.index) = Known(n) /\ IndexedBy(n, active)
    BY <1>2 DEF ConfigSound
  <2> HIDE DEF n
  <2>2. \A j \in DOMAIN active : active[j].udq \in Known(n)
    BY <2>1 DEF IndexedBy, Range
  <2> QED
    BY <2>2 DEF n
<1>4. p.config = Restored /\ p.args = args /\ p = [config |-> p.config, args |-> p.args]
  OBVIOUS
<1> HIDE DEF p
<1>5. ReadRecord(p)
  <2>1. \A l \in DOMAIN args : args[l].udq \in Known(Restored)
    BY <1>2, <1>3 DEF Argument
  <2>2. \A l, m \in DOMAIN args : args[l].wgname = args[m].wgname /\ args[l].control = args[m].control
                                    => args[l].udq = args[m].udq
    BY <1>2 DEF Argument, BookInv, Unrepeated
  <2> QED
    BY <1>2, <1>4, <2>1, <2>2 DEF ReadRecord
<1>6. active' = Reading!Fold(p, << >>, args)
  BY <1>4 DEF Restart, Reading!Fold, ReadOp, FoldLeft, MapThenFoldSet, Reading!MapThenFoldSet, Max, Reading!Max
<1>7. target' = Giving!Fold(args, first, args)
  BY DEF Restart, Giving!Fold, TargetOp, FoldLeft, MapThenFoldSet, Giving!MapThenFoldSet, Max, Giving!Max
<1>8. ReadInv(p, Len(args), active')
  <2> DEFINE new == active'
  <2>1. new = Reading!Fold(p, << >>, p.args)
    BY <1>4, <1>6
  <2> HIDE DEF new
  <2>2. ReadInv(p, Len(p.args), new)
    BY <1>5, <2>1, ReadAgain
  <2> QED
    BY <1>4, <2>2 DEF new
<1>9. TargetInv(args, Len(args), target')
  <2> DEFINE t == target'
  <2>1. first = [w \in Wells |-> [f \in Fields |-> Number]]
    OBVIOUS
  <2>2. t = Giving!Fold(args, first, args)
    BY <1>7
  <2> HIDE DEF t, first
  <2> QED
    BY <1>2, <2>1, <2>2, TargetsGiven DEF t
<1> QED
  BY <1>8, <1>9 DEF p

(* A restart leaves the book in order. *)
LEMMA RestartBookInv == ASSUME ConfigInv, BookInv, Restart PROVE BookInv'
<1> DEFINE args == RstArguments
           c == configs[step]
           k == step + 1
           n == Restored
           first == handleUDQ(n, deck[k], {}, FALSE)
           d == first.config
           f == Rebuilt(k, d)
<1>1. /\ ~fault /\ step < N - 1 /\ step' = k /\ deck' = deck
      /\ configs' = [j \in Steps |-> IF j <= step THEN EmptyConfig ELSE f[j].config]
      /\ fault' = ~(first.ok /\ f[N - 1].ok)
      /\ output' = << >>
  BY DEF Restart
<1>2. ReadInv([config |-> n, args |-> args], Len(args), active') /\ TargetInv(args, Len(args), target')
  BY RestartBook
<1>3. ConfigSound(n) /\ args \in Seq(Arguments)
  BY <1>1, ArgumentsOf
<1> HIDE DEF args, n
<1>4. /\ active' \in Seq(Uses) /\ Unrepeated(active') /\ IndexedBy(n, active')
      /\ \A l \in 1 .. Len(args) : \E i \in DOMAIN active' : /\ active'[i].wgname = args[l].wgname
                                                             /\ active'[i].control = args[l].control
                                                             /\ active'[i].udq = args[l].udq
  <2> DEFINE p == [config |-> n, args |-> args]
             new == active'
  <2>1. p.config = n /\ p.args = args /\ ReadInv(p, Len(args), new)
    BY <1>2
  <2> HIDE DEF p, new
  <2>2. /\ new \in Seq(Uses) /\ Unrepeated(new) /\ IndexedBy(n, new)
        /\ \A l \in 1 .. Len(args) : \E i \in DOMAIN new : /\ new[i].wgname = args[l].wgname
                                                           /\ new[i].control = args[l].control
                                                           /\ new[i].udq = args[l].udq
    BY <2>1 DEF ReadInv
  <2> QED
    BY <2>2 DEF new
<1>5. target' \in Targets /\ Backed(target', active')
  <2> DEFINE t == target'
             new == active'
  <2>1. t \in Targets /\ \A w \in Wells, g \in Fields : Gave(args, Len(args), t, w, g)
    BY <1>2 DEF TargetInv
  <2>2. \A l \in 1 .. Len(args) : \E i \in DOMAIN new : /\ new[i].wgname = args[l].wgname
                                                        /\ new[i].control = args[l].control
                                                        /\ new[i].udq = args[l].udq
    BY <1>4
  <2> HIDE DEF t, new
  <2>3. ASSUME NEW w \in Wells, NEW g \in Fields, t[w][g] # Number
        PROVE  \E i \in DOMAIN new : new[i].wgname = w /\ new[i].control[2] = g /\ new[i].udq = t[w][g]
    <3>1. PICK l \in 1 .. Len(args) : args[l].wgname = w /\ args[l].control[2] = g /\ t[w][g] = args[l].udq
      BY <2>1, <2>3 DEF Gave
    <3> QED
      BY <2>2, <3>1
  <2> QED
    BY <2>1, <2>3 DEF Backed, t, new
<1>6. LegalDeck /\ N \in Nat \ {0} /\ Steps = 0 .. N - 1 /\ k \in Steps /\ ~(k <= step)
  BY <1>1, StepsFacts, LegalDecks DEF ConfigInv
<1>7. ASSUME ~fault' PROVE IndexedBy(configs'[step'], active')
  <2>1. first.ok
    BY <1>1, <1>7
  <2>2. Legal(deck[k])
    BY <1>6 DEF LegalDeck
  <2>3. ConfigSound(d) /\ Extends(d.index, n.index)
    <3> HIDE DEF k
    <3> QED
      BY <1>3, <2>1, <2>2, HandleUDQ DEF Outcome
  <2>4. f[k].config = d
    <3>1. f = Rebuilt(k, d)
      OBVIOUS
    <3> HIDE DEF f, d, k
    <3>2. f[k] = [ok |-> TRUE, config |-> d]
      BY <1>6, <2>3, <3>1, RebuiltIs
    <3> QED
      BY <3>2
  <2>5. configs'[step'] = d
    <3> HIDE DEF f
    <3> QED
      BY <1>1, <1>6, <2>4
  <2> DEFINE new == active'
  <2>6. IndexedBy(n, new)
    BY <1>4
  <2> HIDE DEF d, new
  <2>7. IndexedBy(d, new)
    BY <1>3, <2>3, <2>6, IndexedMore
  <2> QED
    BY <2>5, <2>7 DEF new
<1> QED
  BY <1>1, <1>4, <1>5, <1>7 DEF BookInv

(* The book of the arguments is in order, whatever keywords gave targets,  *)
(* and however often the run was restarted: a well and a control have one  *)
(* record, the records name their quantities by the numbers of the index,  *)
(* a kept IUAD is the one that would be computed, and every target has the *)
(* record it takes its quantity from.                                      *)
THEOREM BookInvariant == Spec => []BookInv
<1>1. Init => BookInv
  BY InitBookInv
<1>2. ASSUME ConfigInv, ConfigInv', BookInv, [Next]_vars PROVE BookInv'
  <2>1. CASE Evaluate
    BY <1>2, <2>1, EvaluateBookInv
  <2>2. CASE ApplyAction
    BY <1>2, <2>2, ApplyActionBookInv
  <2>3. CASE NextStep
    BY <1>2, <2>3, NextStepBookInv
  <2>4. CASE SetTarget
    BY <1>2, <2>4, SetTargetBookInv
  <2>5. CASE Write
    BY <1>2, <2>5, WriteBookInv
  <2>6. CASE Restart
    BY <1>2, <2>6, RestartBookInv
  <2>7. CASE UNCHANGED vars
    BY <1>2, <2>7 DEF vars, BookInv
  <2> QED
    BY <1>2, <2>1, <2>2, <2>3, <2>4, <2>5, <2>6, <2>7 DEF Next
<1> QED
  BY <1>1, <1>2, ConfigInvariant, PTL DEF Spec

(* What the restart file says of the arguments can be followed from IUAD   *)
(* to the quantity and to the wells.                                       *)
THEOREM UsesAddressedHolds == Spec => []UsesAddressed
<1>1. ASSUME BookInv PROVE UsesAddressed
  <2>1. /\ active \in Seq(Uses) /\ output \in {<< >>, constructOutputRecords(active)}
        /\ ~fault => IndexedBy(configs[step], active)
    BY <1>1 DEF BookInv
  <2>2. ArgumentsIndexed
    BY <2>1 DEF ArgumentsIndexed, IndexedBy
  <2>3. iuad = constructOutputRecords(active)
    BY <2>1 DEF iuad
  <2>4. OffsetsMatch
    <3> DEFINE out == constructOutputRecords(active)
               list == iuap(active)
    <3>1. out = constructOutputRecords(active) /\ list = iuap(active) /\ iuad = out
      BY <2>3
    <3> HIDE DEF out, list
    <3>2. Leads(active, out, list)
      BY <2>1, <3>1, OffsetsLead
    <3>3. Leads(active, iuad, iuap(active))
      BY ONLY <3>1, <3>2
    <3> QED
      BY ONLY <3>3 DEF Leads, OffsetsMatch
  <2> QED
    BY <2>2, <2>4 DEF UsesAddressed
<1> QED
  BY <1>1, BookInvariant, PTL

(* A restart keeps the argument of every target that one keyword gave. *)
THEOREM ArgumentsRestoredHolds == Spec => ArgumentsRestored
<1> DEFINE Kept == \A w \in Wells, f \in Fields :
                     target[w][f] # Number /\ Cardinality(Controls(w, f)) = 1
                       => target'[w][f] = target[w][f]
           Emptied == configs[step] # EmptyConfig /\ configs'[step] = EmptyConfig
<1>1. ASSUME ConfigInv, BookInv, Restart PROVE Kept
  <2> DEFINE args == RstArguments
  <2>1. /\ args \in Seq(Arguments)
        /\ \A l \in DOMAIN args : \E j \in DOMAIN active : args[l] = Argument(active[j])
        /\ \A j \in DOMAIN active : \E l \in DOMAIN args : args[l] = Argument(active[j])
    BY <1>1, ArgumentsOf DEF Restart
  <2>2. TargetInv(args, Len(args), target')
    BY <1>1, RestartBook
  <2> HIDE DEF args
  <2>3. active \in Seq(Uses) /\ Unrepeated(active) /\ Backed(target, active)
    BY <1>1 DEF BookInv
  <2> SUFFICES ASSUME NEW w \in Wells, NEW f \in Fields, target[w][f] # Number,
                      Cardinality(Controls(w, f)) = 1
               PROVE  target'[w][f] = target[w][f]
    OBVIOUS
  <2> DEFINE v == target[w][f]
             t == target'
  <2>4. PICK j \in DOMAIN active : active[j].wgname = w /\ active[j].control[2] = f /\ active[j].udq = v
    BY <2>3 DEF Backed
  <2>5. ASSUME NEW i \in DOMAIN active, active[i].wgname = w, active[i].control[2] = f
        PROVE  active[i].control[1] \in Controls(w, f) /\ active[i].control = <<active[i].control[1], f>>
    <3> DEFINE ctl == active[i].control
               kw == ctl[1]
    <3>1. ctl \in Controlling
      BY <2>3, UsesFields
    <3>2. kw \in Keywords /\ ctl = <<kw, f>>
      BY <2>5, <3>1 DEF Controlling
    <3>3. Found(active, w, ctl) # 0
      <4> DEFINE m == Found(active, w, ctl)
      <4>1. \/ m = 0 /\ \A x \in DOMAIN active : ~(active[x].wgname = w /\ active[x].control = ctl)
            \/ m \in DOMAIN active /\ m # 0 /\ active[m].wgname = w /\ active[m].control = ctl
        BY <2>3, FoundIs
      <4> HIDE DEF m
      <4>2. m # 0
        BY <2>5, <4>1
      <4> QED
        BY <4>2 DEF m
    <3> HIDE DEF ctl, kw
    <3>4. kw \in Controls(w, f)
      BY <3>2, <3>3 DEF Controls
    <3> QED
      BY <3>2, <3>4 DEF ctl, kw
  <2>6. \A i \in DOMAIN active : active[i].wgname = w /\ active[i].control[2] = f
                                   => active[i].control = active[j].control
    <3>1. IsFiniteSet(Controls(w, f))
      <4>1. IsFiniteSet({"WCONPROD", "WELTARG"})
        <5>1. IsFiniteSet({"WCONPROD"}) /\ {"WCONPROD", "WELTARG"} = {"WCONPROD"} \cup {"WELTARG"}
          BY FS_Singleton
        <5> QED
          BY <5>1, FS_AddElement
      <4>2. Controls(w, f) \subseteq {"WCONPROD", "WELTARG"}
        BY DEF Controls, Keywords
      <4> QED
        BY <4>1, <4>2, FS_Subset
    <3>2. PICK kw : Controls(w, f) = {kw}
      BY <3>1, FS_Singleton
    <3>3. \A i \in DOMAIN active : active[i].wgname = w /\ active[i].control[2] = f
                                     => active[i].control[1] = kw /\ active[i].control = <<active[i].control[1], f>>
      BY <2>5, <3>2
    <3> QED
      BY <2>4, <3>3
  <2>7. \A i \in DOMAIN active : active[i].wgname = w /\ active[i].control[2] = f => active[i].udq = v
    BY <2>3, <2>4, <2>6 DEF Unrepeated
  <2>8. \A l \in DOMAIN args : args[l].wgname = w /\ args[l].control[2] = f => args[l].udq = v
    <3> HIDE DEF v
    <3> SUFFICES ASSUME NEW l \in DOMAIN args, args[l].wgname = w, args[l].control[2] = f
                 PROVE  args[l].udq = v
      OBVIOUS
    <3>1. PICK i \in DOMAIN active : args[l] = Argument(active[i])
      BY <2>1
    <3>2. /\ args[l].wgname = active[i].wgname /\ args[l].control = active[i].control
          /\ args[l].udq = active[i].udq
      BY <3>1 DEF Argument
    <3> QED
      BY <2>7, <3>2
  <2>9. \E l \in DOMAIN args : args[l].wgname = w /\ args[l].control[2] = f
    BY <2>1, <2>4 DEF Argument
  <2>10. DOMAIN args = 1 .. Len(args)
    BY <2>1
  <2>11. Gave(args, Len(args), t, w, f)
    BY <2>2 DEF TargetInv
  <2> HIDE DEF t, v
  <2>12. t[w][f] = v
    BY <2>8, <2>9, <2>10, <2>11 DEF Gave
  <2> QED
    BY <2>12 DEF t, v
<1>2. ASSUME ConfigInv, BookInv, [Next]_vars PROVE Emptied => Kept
  <2>1. CASE Restart
    BY <1>1, <1>2, <2>1
  <2>2. CASE SetTarget
    BY <2>2 DEF SetTarget
  <2>3. CASE ~Restart /\ ~SetTarget
    <3>1. target' = target
      BY <1>2, <2>3 DEF Next, Evaluate, ApplyAction, NextStep, Write, vars
    <3> QED
      BY <3>1
  <2> QED
    BY <2>1, <2>2, <2>3
<1>3. ASSUME ConfigInv, BookInv, [Next]_vars
      PROVE  [configs[step] # EmptyConfig /\ configs'[step] = EmptyConfig =>
               \A w \in Wells, f \in Fields :
                 target[w][f] # Number /\ Cardinality(Controls(w, f)) = 1
                   => target'[w][f] = target[w][f]]_vars
  BY <1>2, <1>3
<1> QED
  BY <1>3, ConfigInvariant, BookInvariant, PTL DEF Spec, ArgumentsRestored
-----------------------------------------------------------------------------
(* Evaluation.                                                             *)

ValuesTyped(v) == \A q \in DOMAIN v : q \in Quantities /\ DOMAIN v[q] = Wells

ReplayOp(p, v, r) == [w \in Wells |-> IF w \in r.wells THEN r.val ELSE v[w]]
ReplayInv(p, k, v) == v = [w \in Wells |-> v[w]]

Replaying == INSTANCE Recursion WITH Op <- ReplayOp, Inv <- ReplayInv

(* Replaying records of an ASSIGN gives a value, or none, for every well. *)
LEMMA ReplayedTyped ==
  ASSUME NEW records, records \in Seq(Range(records)), NEW v, v = Replayed(records)
  PROVE  v = [w \in Wells |-> v[w]]
<1>1. v = Replaying!Fold(0, NoValue, records)
  BY DEF Replaying!Fold, ReplayOp, Replayed, FoldLeft, MapThenFoldSet, Replaying!MapThenFoldSet, Max, Replaying!Max
<1>2. ReplayInv(0, 0, NoValue)
  BY DEF ReplayInv, NoValue
<1>3. \A k \in 1 .. Len(records) : \A a :
        ReplayInv(0, k - 1, a) => ReplayInv(0, k, ReplayOp(0, a, records[k]))
  BY DEF ReplayInv, ReplayOp
<1>4. ReplayInv(0, Len(records), Replaying!Fold(0, NoValue, records))
  BY <1>2, <1>3, Replaying!FoldKeeps
<1> QED
  BY <1>1, <1>4 DEF ReplayInv

(* The ASSIGNs leave values of the right form. *)
LEMMA AssignedTyped ==
  ASSUME NEW c, ConfigSound(c), NEW v, ValuesTyped(v)
  PROVE  ValuesTyped(eval_assign(c, v))
<1> DEFINE e == eval_assign(c, v)
<1>1. e = [q \in Assignable(c) \cup DOMAIN v |->
             IF q \in Assignable(c) THEN Replayed(c.asg[q]) ELSE v[q]]
  BY DEF eval_assign
<1> HIDE DEF e
<1>2. ASSUME NEW q \in Assignable(c) PROVE q \in Quantities /\ DOMAIN Replayed(c.asg[q]) = Wells
  <2>1. q \in DOMAIN c.asg /\ DOMAIN c.asg \subseteq Known(c) /\ Known(c) = Range(c.index)
        /\ c.index \in Seq(Quantities) /\ c.asg[q] \in Seq(Range(c.asg[q]))
    BY DEF Assignable, ConfigSound
  <2>2. q \in Quantities
    BY <2>1 DEF Range
  <2> DEFINE s == c.asg[q]
  <2>3. s \in Seq(Range(s))
    BY <2>1
  <2> HIDE DEF s
  <2>4. DOMAIN Replayed(s) = Wells
    <3> DEFINE u == Replayed(s)
    <3>1. u = [w \in Wells |-> u[w]]
      BY <2>3, ReplayedTyped
    <3> HIDE DEF u
    <3>2. DOMAIN u = Wells
      BY <3>1
    <3> QED
      BY <3>2 DEF u
  <2> QED
    BY <2>2, <2>4 DEF s
<1>3. ValuesTyped(e)
  BY <1>1, <1>2 DEF ValuesTyped
<1> QED
  BY <1>3 DEF e

(* What a definition computes. *)
Computed(c, v, rate, q) == IF c.def[q].expr = Rate THEN [w \in Wells |-> rate] ELSE ValueOf(v, c.def[q].expr)

EvalOp(p, v, q) == IF ~Defining(p.config, q) THEN v ELSE Put(v, q, Computed(p.config, v, p.rate, q))

(* A quantity that a definition may read and that is evaluated before it, *)
(* or that no definition changes.                                          *)
Before(c, x, i) == c.action[x] = "ASSIGN" \/ \E j \in 1 .. i - 1 : c.index[j] = x

SettledTo(c, k, v) ==
  \A i \in 1 .. k :
    LET q == c.index[i]
        x == c.def[q].expr
    IN  Defining(c, q) /\ x # Rate /\ x \in Known(c) /\ Before(c, x, i)
          => ValueOf(v, q) = ValueOf(v, x)

EvalInv(p, k, v) == ValuesTyped(v) /\ SettledTo(p.config, k, v)

Evaluating == INSTANCE Recursion WITH Op <- EvalOp, Inv <- EvalInv

(* The value of a quantity has the form of a value. *)
LEMMA ValueTyped ==
  ASSUME NEW v, ValuesTyped(v), NEW q PROVE DOMAIN ValueOf(v, q) = Wells
  BY DEF ValuesTyped, ValueOf, NoValue

(* One definition more is evaluated: those before it stay settled. *)
LEMMA EvaluateNextOne ==
  ASSUME NEW c, ConfigSound(c), NEW k \in 1 .. Len(c.index), NEW v, ValuesTyped(v),
         SettledTo(c, k - 1, v), NEW rate, NEW q, q = c.index[k], NEW new,
         new = IF ~Defining(c, q) THEN v ELSE Put(v, q, Computed(c, v, rate, q))
  PROVE  ValuesTyped(new) /\ SettledTo(c, k, new)
<1> DEFINE a == Computed(c, v, rate, q)
<1>1. /\ c.index \in Seq(Quantities) /\ DOMAIN c.index = 1 .. Len(c.index)
      /\ \A i, j \in DOMAIN c.index : c.index[i] = c.index[j] => i = j
      /\ q \in Quantities
  BY DEF ConfigSound
<1>2. DOMAIN a = Wells
  BY ValueTyped DEF Computed
<1>3. Defining(c, q) /\ c.def[q].expr # Rate => a = ValueOf(v, c.def[q].expr)
  BY DEF Computed
<1> HIDE DEF a
<1>4. ValuesTyped(new)
  BY <1>1, <1>2 DEF ValuesTyped, Put, a
<1>5. \A x : x # q \/ ~Defining(c, q) => ValueOf(new, x) = ValueOf(v, x)
  BY DEF Put, ValueOf
<1>6. Defining(c, q) => ValueOf(new, q) = a
  BY DEF Put, ValueOf, a
<1>7. ASSUME NEW x, NEW i \in 1 .. k, Before(c, x, i), Defining(c, q)
      PROVE  x # q
  <2>1. CASE c.action[x] = "ASSIGN"
    BY <1>7, <2>1 DEF Defining
  <2>2. CASE \E j \in 1 .. i - 1 : c.index[j] = x
    <3>1. PICK j \in 1 .. i - 1 : c.index[j] = x
      BY <2>2
    <3>2. j \in DOMAIN c.index /\ k \in DOMAIN c.index /\ j # k
      BY <1>1
    <3> QED
      BY <1>1, <3>1, <3>2
  <2> QED
    BY <1>7, <2>1, <2>2 DEF Before
<1>8. ASSUME NEW i \in 1 .. k, NEW y, y = c.index[i], NEW x, x = c.def[y].expr,
             Defining(c, y), x # Rate, x \in Known(c), Before(c, x, i)
      PROVE  ValueOf(new, y) = ValueOf(new, x)
  <2>1. x # q \/ ~Defining(c, q)
    BY <1>7, <1>8
  <2>2. ValueOf(new, x) = ValueOf(v, x)
    BY <1>5, <2>1
  <2>3. CASE i = k
    BY <1>3, <1>6, <1>8, <2>2, <2>3
  <2>4. CASE i # k
    <3>1. i \in 1 .. k - 1 /\ i \in DOMAIN c.index /\ k \in DOMAIN c.index
      BY <1>1, <2>4
    <3>2. y # q
      BY <1>1, <1>8, <2>4, <3>1
    <3>3. ValueOf(v, y) = ValueOf(v, x)
      BY <1>8, <3>1 DEF SettledTo
    <3> QED
      BY <1>5, <2>2, <3>2, <3>3
  <2> QED
    BY <2>3, <2>4
<1>9. SettledTo(c, k, new)
  BY <1>8 DEF SettledTo
<1> QED
  BY <1>4, <1>9

(* An evaluation settles the definitions, in the order of the index. *)
LEMMA EvaluatedValues ==
  ASSUME NEW c, ConfigSound(c), NEW v, ValuesTyped(v), NEW rate, NEW e, e = eval(c, v, rate)
  PROVE  ValuesTyped(e) /\ SettledTo(c, Len(c.index), e)
<1> DEFINE a == eval_assign(c, v)
           p == [config |-> c, rate |-> rate]
           s == c.index
<1>1. ValuesTyped(a)
  BY AssignedTyped
<1>2. p.config = c /\ p.rate = rate
  OBVIOUS
<1>3. e = eval_define(c, a, rate)
  BY DEF eval
<1> HIDE DEF a
<1>4. eval_define(c, a, rate) = Evaluating!Fold(p, a, s)
  BY DEF Evaluating!Fold, EvalOp, Computed, eval_define, FoldLeft, MapThenFoldSet, Evaluating!MapThenFoldSet, Max, Evaluating!Max
<1>5. s \in Seq(Quantities)
  BY DEF ConfigSound
<1> HIDE DEF p
<1>6. EvalInv(p, 0, a)
  BY <1>1, <1>2 DEF EvalInv, SettledTo
<1>7. ASSUME NEW k \in 1 .. Len(s), NEW b, EvalInv(p, k - 1, b) PROVE EvalInv(p, k, EvalOp(p, b, s[k]))
  <2> DEFINE q == s[k]
             new == EvalOp(p, b, q)
  <2>1. new = IF ~Defining(c, q) THEN b ELSE Put(b, q, Computed(c, b, rate, q))
    BY <1>2 DEF EvalOp
  <2>2. ValuesTyped(b) /\ SettledTo(c, k - 1, b)
    BY <1>2, <1>7 DEF EvalInv
  <2> HIDE DEF new
  <2>3. ValuesTyped(new) /\ SettledTo(c, k, new)
    BY <2>1, <2>2, EvaluateNextOne
  <2> QED
    BY <1>2, <2>3 DEF EvalInv, new
<1> HIDE DEF s
<1>8. EvalInv(p, Len(s), Evaluating!Fold(p, a, s))
  BY <1>5, <1>6, <1>7, Evaluating!FoldKeeps
<1> QED
  BY <1>2, <1>3, <1>4, <1>8 DEF EvalInv, s
-----------------------------------------------------------------------------
(* The values, and the type invariant.                                     *)

ValuesInv ==
  /\ ValuesTyped(values)
  /\ served \in [Quantities -> 0 .. 2]
  /\ lost \in BOOLEAN
  /\ DefinesSettled

(* What was evaluated is settled, whatever the evaluation does to the object. *)
LEMMA SettledAfter ==
  ASSUME NEW c, ConfigSound(c), NEW v, SettledTo(c, Len(c.index), v),
         NEW d, d = evaluated(c), NEW q \in Known(d), d.action[q] = "DEFINE", d.def[q].status = "ON",
         NEW x, x = d.def[q].expr, x # Rate, x \in Known(d),
         d.action[x] = "ASSIGN" \/ IndexOf(d, x) < IndexOf(d, q)
  PROVE  ValueOf(v, q) = ValueOf(v, x)
<1> DEFINE on(y) == y \in Known(c) /\ Defining(c, y)
           g == [y \in DOMAIN c.def |-> IF on(y) THEN AfterNext(c.def[y]) ELSE c.def[y]]
<1>1. ClearedTo(c, d, g)
  BY EvaluatedIs, DefinitionsOf
<1>2. /\ d.index = c.index /\ d.action = c.action /\ d.def = g /\ Known(d) = Known(c)
  BY <1>1 DEF ClearedTo, Known
<1>3. q \in DOMAIN c.def /\ \A y \in DOMAIN c.def : Definition(c.def[y])
  BY <1>2, DefinitionsOf DEF ConfigSound
<1>4. AfterNext(c.def[q]).status = "ON" => c.def[q].status = "ON"
  BY <1>3, AfterNextIs
<1>5. AfterNext(c.def[q]).expr = c.def[q].expr
  BY <1>3, AfterNextIs
<1>6. c.def[q].status = "ON" /\ c.def[q].expr = x
  BY <1>2, <1>3, <1>4, <1>5
<1>7. Defining(c, q)
  BY <1>2, <1>6 DEF Defining
<1> HIDE DEF g
<1>8. IndexOf(d, x) = IndexOf(c, x) /\ IndexOf(d, q) = IndexOf(c, q)
  BY <1>2 DEF IndexOf
<1> DEFINE i == IndexOf(c, q)
           j == IndexOf(c, x)
<1>9. i \in DOMAIN c.index /\ c.index[i] = q /\ j \in DOMAIN c.index /\ c.index[j] = x
  BY <1>2, IndexOfKnown
<1>10. c.action[x] = "ASSIGN" \/ j < i
  BY <1>2, <1>8
<1> HIDE DEF i, j
<1>11. i \in 1 .. Len(c.index) /\ (j < i => j \in 1 .. i - 1)
  BY <1>9 DEF ConfigSound
<1>12. Before(c, x, i)
  BY <1>9, <1>10, <1>11 DEF Before
<1> QED
  BY <1>2, <1>6, <1>7, <1>9, <1>11, <1>12 DEF SettledTo

(* Every step keeps the values in order. *)
LEMMA EvaluateValuesInv == ASSUME ConfigInv, ValuesInv, Evaluate PROVE ValuesInv'
<1> DEFINE c == configs[step]
<1>1. /\ step' = step /\ lost' = lost
      /\ configs' = [j \in Steps |-> IF owner[j] = owner[step] THEN evaluated(c) ELSE configs[j]]
      /\ served' = [q \in Quantities |->
           IF q \in Assignable(c) \/ (q \in Known(c) /\ Defining(c, q))
           THEN IF served[q] < 2 THEN served[q] + 1 ELSE 2 ELSE served[q]]
  BY DEF Evaluate
<1>2. PICK rate \in Rates : values' = eval(c, values, rate)
  BY DEF Evaluate
<1>3. ConfigSound(c) /\ step \in Steps
  BY DEF ConfigInv
<1>4. ValuesTyped(values) /\ served \in [Quantities -> 0 .. 2] /\ lost \in BOOLEAN
  BY DEF ValuesInv
<1>5. configs'[step'] = evaluated(c)
  BY <1>1, <1>3
<1>6. served' \in [Quantities -> 0 .. 2]
  <2>1. \A q \in Quantities : (IF served[q] < 2 THEN served[q] + 1 ELSE 2) \in 0 .. 2
    BY <1>4
  <2> QED
    BY <1>1, <1>4, <2>1
<1> HIDE DEF c
<1>7. ValuesTyped(values') /\ SettledTo(c, Len(c.index), values')
  BY <1>2, <1>3, <1>4, EvaluatedValues
<1>8. DefinesSettled'
  <2> DEFINE d == configs'[step']
  <2>1. d = evaluated(c)
    BY <1>5
  <2> HIDE DEF d
  <2>2. ASSUME NEW q \in Known(d), d.action[q] = "DEFINE", d.def[q].status = "ON",
               NEW x, x = d.def[q].expr, x # Rate, x \in Known(d),
               d.action[x] = "ASSIGN" \/ IndexOf(d, x) < IndexOf(d, q)
        PROVE  ValueOf(values', q) = ValueOf(values', x)
    BY <1>3, <1>7, <2>1, <2>2, SettledAfter
  <2> QED
    BY <2>2 DEF DefinesSettled, d
<1> QED
  BY <1>1, <1>4, <1>6, <1>7, <1>8 DEF ValuesInv, ValuesTyped

(* The counts of evaluations start again at 0. *)
LEMMA ServedTyped ==
  ASSUME NEW c, NEW records, NEW srv \in [Quantities -> 0 .. 2]
  PROVE  Served(c, records, srv) \in [Quantities -> 0 .. 2]
  BY DEF Served

(* The steps that do not evaluate leave the values. *)
LEMMA OtherValuesInv ==
  ASSUME ValuesInv, ApplyAction \/ NextStep \/ SetTarget \/ Write \/ UNCHANGED vars
  PROVE  ValuesInv'
<1>1. ValuesTyped(values) /\ served \in [Quantities -> 0 .. 2] /\ lost \in BOOLEAN /\ DefinesSettled
  BY DEF ValuesInv
<1>2. values' = values /\ lost' = lost
  BY DEF ApplyAction, NextStep, SetTarget, Write, ghostVars, vars
<1>3. CASE ApplyAction
  <2>1. PICK records \in ActionBlocks, matches \in MatchSets :
          LET done == handleUDQ(configs[step], records, matches, TRUE)
          IN  \/ served' = Served(done.config, records, served) /\ fresh' = FALSE
              \/ served' = served /\ fault' = TRUE
    BY <1>3 DEF ApplyAction
  <2> DEFINE c == handleUDQ(configs[step], records, matches, TRUE).config
  <2>2. \/ served' = Served(c, records, served) /\ fresh' = FALSE
        \/ served' = served /\ fault' = TRUE
    BY <2>1
  <2> HIDE DEF c
  <2>3. served' \in [Quantities -> 0 .. 2]
    BY <1>1, <2>2, ServedTyped
  <2>4. DefinesSettled'
    BY <2>2 DEF DefinesSettled
  <2> QED
    BY <1>1, <1>2, <2>3, <2>4 DEF ValuesInv, ValuesTyped
<1>4. CASE NextStep
  <2>1. served' = Served(configs[step + 1], deck[step + 1], served) /\ fresh' = FALSE
    BY <1>4 DEF NextStep
  <2>2. served' \in [Quantities -> 0 .. 2]
    BY <1>1, <2>1, ServedTyped
  <2>3. DefinesSettled'
    BY <2>1 DEF DefinesSettled
  <2> QED
    BY <1>1, <1>2, <2>2, <2>3 DEF ValuesInv, ValuesTyped
<1>5. CASE SetTarget \/ Write \/ UNCHANGED vars
  <2>1. UNCHANGED <<configs, step, fresh, values, served, lost>>
    BY <1>5 DEF SetTarget, Write, ghostVars, vars
  <2>2. ~fault' => ~fault
    BY <1>5 DEF SetTarget, Write, vars
  <2>3. DefinesSettled'
    BY <1>1, <2>1, <2>2 DEF DefinesSettled, ValueOf
  <2> QED
    BY <1>1, <2>1, <2>3 DEF ValuesInv, ValuesTyped
<1> QED
  BY <1>3, <1>4, <1>5

(* A restart keeps the values of the quantities it has read. *)
LEMMA RestartValuesInv == ASSUME ValuesInv, Restart PROVE ValuesInv'
<1>1. ValuesTyped(values) /\ served \in [Quantities -> 0 .. 2] /\ lost \in BOOLEAN
  BY DEF ValuesInv
<1> DEFINE first == handleUDQ(Restored, deck[step + 1], {}, FALSE)
           kept == Range(Restored.index) \cap DOMAIN values
<1>2. /\ served' = Served(first.config, deck[step + 1], served)
      /\ values' = Restrict(values, kept)
      /\ fresh' = FALSE
      /\ lost' = (lost \/ \E q \in Known(configs[step]) :
                             configs[step].action[q] = "DEFINE" /\ q \in DOMAIN configs[step].asg)
  BY DEF Restart
<1>3. kept \subseteq DOMAIN values
  OBVIOUS
<1> HIDE DEF first, kept
<1>4. served' \in [Quantities -> 0 .. 2]
  BY <1>1, <1>2, ServedTyped
<1>5. ValuesTyped(values')
  BY <1>1, <1>2, <1>3 DEF ValuesTyped, Restrict
<1>6. DefinesSettled'
  BY <1>2 DEF DefinesSettled
<1>7. lost' \in BOOLEAN
  BY <1>2
<1> QED
  BY <1>4, <1>5, <1>6, <1>7 DEF ValuesInv, ValuesTyped

(* The values keep their form, and the definitions that are ON agree with  *)
(* what they read, after every evaluation.                                 *)
THEOREM ValuesInvariant == Spec => []ValuesInv
<1>1. ASSUME Init PROVE ValuesInv
  <2>1. /\ values = EmptyFunction /\ fresh = FALSE
        /\ served = [q \in Quantities |-> 0] /\ lost = FALSE
    BY <1>1 DEF Init
  <2>2. served \in [Quantities -> 0 .. 2]
    BY <2>1
  <2>3. ValuesTyped(values)
    BY <2>1 DEF ValuesTyped, EmptyFunction
  <2> QED
    BY <2>1, <2>2, <2>3 DEF ValuesInv, DefinesSettled
<1>2. ASSUME ConfigInv, ValuesInv, [Next]_vars PROVE ValuesInv'
  BY <1>2, EvaluateValuesInv, OtherValuesInv, RestartValuesInv DEF Next
<1> QED
  BY <1>1, <1>2, ConfigInvariant, PTL DEF Spec

(* After an evaluation a definition that is ON has the value of the        *)
(* quantity it reads, when that one was evaluated before it.               *)
THEOREM DefinesSettledHolds == Spec => []DefinesSettled
<1>1. ValuesInv => DefinesSettled
  BY DEF ValuesInv
<1> QED
  BY <1>1, ValuesInvariant, PTL

(* The index of a sound configuration is as long as there are quantities. *)
LEMMA SoundConfigOK ==
  ASSUME NEW c, ConfigSound(c) PROVE ConfigOK(c)
<1> DEFINE s == c.index
           n == Len(s)
<1>1. s \in Seq(Quantities) /\ (\A i, j \in DOMAIN s : s[i] = s[j] => i = j) /\ Range(s) = Known(c)
  BY DEF ConfigSound
<1>2. DOMAIN s = 1 .. n /\ n \in Nat
  BY <1>1
<1>3. s \in [1 .. n -> Known(c)]
  BY <1>1, <1>2 DEF Range
<1> HIDE DEF s, n
<1>4. s \in Bijection(1 .. n, Known(c))
  BY <1>1, <1>2, <1>3 DEF Bijection, Injection, Surjection, IsInjective, Range
<1>5. Cardinality(Known(c)) = n
  BY <1>2, <1>4, FS_CountingElements DEF ExistsBijection
<1>6. Known(c) \subseteq Quantities
  BY <1>1, <1>2, <1>3 DEF Range
<1> QED
  BY <1>1, <1>5, <1>6 DEF ConfigOK, ConfigSound, s, n

(* Every variable stays in its range. *)
THEOREM TypeCorrect == Spec => []TypeOK
<1>1. ASSUME ConfigInv, BookInv, ValuesInv PROVE TypeOK
  <2>1. \A k \in Steps : ConfigOK(configs[k]) /\ owner[k] \in 0 .. k
    <3>1. \A k \in Steps : ConfigSound(configs[k])
      BY <1>1 DEF ConfigInv
    <3>2. owner \in [Steps -> Steps] /\ \A k \in Steps : owner[k] <= k
      BY <1>1 DEF ConfigInv, SharingSound, Sharing
    <3>3. \A k \in Steps : owner[k] \in 0 .. k
      BY <3>2, StepsFacts
    <3> QED
      BY <3>1, <3>3, SoundConfigOK
  <2>2. step \in Steps /\ fresh \in BOOLEAN /\ fault \in BOOLEAN /\ once \subseteq Quantities
    BY <1>1 DEF ConfigInv
  <2>3. lost \in BOOLEAN /\ served \in [Quantities -> 0 .. 2]
        /\ \A q \in DOMAIN values : q \in Quantities /\ DOMAIN values[q] = Wells
    BY <1>1 DEF ValuesInv, ValuesTyped
  <2>4. active \in Seq(Uses) /\ target \in [Wells -> [Fields -> Quantities \cup {Number}]]
    BY <1>1 DEF BookInv, Targets
  <2>5. \A i \in DOMAIN active : active[i].udq \in Quantities /\ active[i].wgname \in Wells
    BY <2>4, UsesFields
  <2> QED
    BY <2>1, <2>2, <2>3, <2>4, <2>5 DEF TypeOK
<1> QED
  BY <1>1, ConfigInvariant, BookInvariant, ValuesInvariant, PTL

-----------------------------------------------------------------------------
(* A run that is restarted and the uninterrupted one.                      *)

UpdateStatus == {"ON", "OFF", "NEXT"}

(* Two configurations that a run can go on with alike: of a quantity that  *)
(* is ASSIGNed its definition does not count, and of the records of an     *)
(* ASSIGN what they give together.                                         *)
Agree(c, b) ==
  /\ ConfigSound(c) /\ ConfigSound(b)
  /\ b.index = c.index /\ b.action = c.action /\ b.pending = c.pending
  /\ DOMAIN b.asg = DOMAIN c.asg
  /\ \A q \in DOMAIN c.asg : Replayed(b.asg[q]) = Replayed(c.asg[q])
  /\ \A q \in Known(c) : c.action[q] = "DEFINE" =>
       b.def[q] = c.def[q] /\ c.def[q].status \in UpdateStatus

(* One record more is replayed on top of the others. *)
LEMMA ReplayedAppend ==
  ASSUME NEW s, s \in Seq(Range(s)), NEW x
  PROVE  Replayed(Append(s, x)) = ReplayOp(0, Replayed(s), x)
<1>1. \A t : Replayed(t) = Replaying!Fold(0, NoValue, t)
  BY DEF Replaying!Fold, ReplayOp, Replayed, FoldLeft, MapThenFoldSet, Replaying!MapThenFoldSet, Max, Replaying!Max
<1> DEFINE S == Range(s) \cup {x}
<1>2. s \in Seq(S) /\ x \in S
  OBVIOUS
<1> HIDE DEF S
<1>3. Replaying!Fold(0, NoValue, Append(s, x)) = ReplayOp(0, Replaying!Fold(0, NoValue, s), x)
  BY ONLY <1>2, Replaying!FoldAppend
<1> QED
  BY <1>1, <1>3

(* Two indices and two maps of actions that are the same stay so. *)
LEMMA EnteredAlike ==
  ASSUME NEW c, NEW b, b.index = c.index, b.action = c.action, NEW q, NEW a,
         NEW d, NEW e, Entered(c, d, q, a), Entered(b, e, q, a)
  PROVE  /\ e.index = d.index /\ e.action = d.action
         /\ d.action[q] = a
         /\ \A y \in Known(d) : y # q => y \in Known(c) /\ d.action[y] = c.action[y]
  BY DEF Entered, Put, Known

(* An ASSIGN keeps them in agreement. *)
LEMMA AssignAgrees ==
  ASSUME NEW c, NEW b, Agree(c, b), NEW r, LegalRecord(r), r.kind = "ASSIGN", NEW matches,
         NEW d, d = add_assign(c, r, matches), NEW e, e = add_assign(b, r, matches)
  PROVE  Agree(d, e)
<1> DEFINE q == r.q
           S == GivenWells(r, matches)
           x == GivenRecord(r, matches)
           s == RecordsOf(c, q)
           t == RecordsOf(b, q)
<1>1. ConfigSound(c) /\ ConfigSound(b)
  BY DEF Agree
<1>2. ConfigSound(d) /\ ConfigSound(e)
  BY <1>1, AddAssign DEF Effect
<1>3. IsConfig(c) /\ IsConfig(b) /\ s \in Seq(Range(s)) /\ t \in Seq(Range(t))
  <2>1. << >> \in Seq(Range(<< >>))
    OBVIOUS
  <2> QED
    BY <1>1, <2>1 DEF ConfigSound, RecordsOf
<1>6. Replayed(t) = Replayed(s)
  BY DEF Agree, RecordsOf
<1>e. Assigned(c, d, r, matches) /\ Assigned(b, e, r, matches)
  BY <1>3, AddAssignFields
<1>4. /\ Entered(c, d, q, "ASSIGN") /\ d.def = c.def
      /\ d.asg = IF S = {} THEN c.asg ELSE Put(c.asg, q, Append(s, x))
      /\ d.pending = IF q \in DOMAIN d.asg THEN c.pending \cup {q} ELSE c.pending
  BY <1>e DEF Assigned
<1>5. /\ Entered(b, e, q, "ASSIGN") /\ e.def = b.def
      /\ e.asg = IF S = {} THEN b.asg ELSE Put(b.asg, q, Append(t, x))
      /\ e.pending = IF q \in DOMAIN e.asg THEN b.pending \cup {q} ELSE b.pending
  BY <1>e DEF Assigned
<1> HIDE DEF s, t, x, S, q
<1>7. Replayed(Append(t, x)) = Replayed(Append(s, x))
  BY <1>3, <1>6, ReplayedAppend
<1> DEFINE u == Append(s, x)
           v == Append(t, x)
<1>8. /\ d.asg = IF S = {} THEN c.asg ELSE Put(c.asg, q, u)
      /\ e.asg = IF S = {} THEN b.asg ELSE Put(b.asg, q, v)
      /\ Replayed(v) = Replayed(u)
  BY <1>4, <1>5, <1>7
<1> HIDE DEF u, v
<1>9. /\ DOMAIN e.asg = DOMAIN d.asg
      /\ \A y \in DOMAIN d.asg : Replayed(e.asg[y]) = Replayed(d.asg[y])
  BY <1>8 DEF Agree, Put
<1>10. /\ e.index = d.index /\ e.action = d.action /\ d.action[q] = "ASSIGN"
       /\ \A y \in Known(d) : y # q => y \in Known(c) /\ d.action[y] = c.action[y]
  BY <1>4, <1>5, EnteredAlike DEF Agree
<1>11. e.pending = d.pending
  BY <1>4, <1>5, <1>9 DEF Agree
<1>12. ASSUME NEW y \in Known(d), d.action[y] = "DEFINE"
       PROVE  e.def[y] = d.def[y] /\ d.def[y].status \in UpdateStatus
  BY <1>4, <1>5, <1>10, <1>12 DEF Agree
<1> QED
  BY <1>2, <1>9, <1>10, <1>11, <1>12 DEF Agree

(* So does a DEFINE. *)
LEMMA DefineAgrees ==
  ASSUME NEW c, NEW b, Agree(c, b), NEW r, LegalRecord(r), r.kind = "DEFINE",
         NEW d, d = add_define(c, r.q, r.expr, "ON"), NEW e, e = add_define(b, r.q, r.expr, "ON")
  PROVE  Agree(d, e)
<1> DEFINE q == r.q
           x == [expr |-> r.expr, status |-> "ON"]
<1>1. ConfigSound(c) /\ ConfigSound(b) /\ IsConfig(c) /\ IsConfig(b)
  BY DEF Agree, ConfigSound
<1>2. ConfigSound(d) /\ ConfigSound(e)
  BY <1>1, AddDefine DEF Effect
<1>3. /\ Entered(c, d, q, "DEFINE") /\ d.def = Put(c.def, q, x)
      /\ d.asg = c.asg /\ d.pending = c.pending
  BY <1>1, AddDefineFields
<1>4. /\ Entered(b, e, q, "DEFINE") /\ e.def = Put(b.def, q, x)
      /\ e.asg = b.asg /\ e.pending = b.pending
  BY <1>1, AddDefineFields
<1>5. x.status \in UpdateStatus
  BY DEF UpdateStatus
<1> HIDE DEF q, x
<1>6. /\ e.index = d.index /\ e.action = d.action /\ d.action[q] = "DEFINE"
      /\ \A y \in Known(d) : y # q => y \in Known(c) /\ d.action[y] = c.action[y]
  BY <1>3, <1>4, EnteredAlike DEF Agree
<1>7. ASSUME NEW y \in Known(d), d.action[y] = "DEFINE"
      PROVE  e.def[y] = d.def[y] /\ d.def[y].status \in UpdateStatus
  <2>1. CASE y = q
    BY <1>3, <1>4, <1>5, <2>1 DEF Put
  <2>2. CASE y # q
    <3>1. y \in Known(c) /\ c.action[y] = "DEFINE"
      BY <1>6, <1>7, <2>2
    <3>2. y \in DOMAIN c.def /\ y \in DOMAIN b.def
      BY <1>1, <3>1 DEF ConfigSound, Agree, Known
    <3>3. d.def[y] = c.def[y] /\ e.def[y] = b.def[y]
      BY <1>3, <1>4, <2>2, <3>2 DEF Put
    <3> QED
      BY <3>1, <3>3 DEF Agree
  <2> QED
    BY <2>1, <2>2
<1> QED
  BY <1>2, <1>3, <1>4, <1>6, <1>7 DEF Agree

(* So does an UPDATE. *)
LEMMA UpdateAgrees ==
  ASSUME NEW c, NEW b, Agree(c, b), NEW r, LegalRecord(r), r.kind = "UPDATE",
         NEW d, d = add_update(c, r.q, r.status), NEW e, e = add_update(b, r.q, r.status)
  PROVE  Agree(d, e)
<1> DEFINE q == r.q
           s == r.status
<1>1. ConfigSound(c) /\ ConfigSound(b) /\ s \in UpdateStatus
  BY DEF Agree, LegalRecord, UpdateStatus
<1>2. ConfigSound(d) /\ ConfigSound(e)
  BY <1>1, AddUpdate DEF Effect
<1>3. /\ d.index = c.index /\ d.action = c.action /\ d.asg = c.asg /\ d.pending = c.pending
      /\ d.def = [y \in DOMAIN c.def |-> IF y = q THEN [expr |-> c.def[q].expr, status |-> s]
                                                  ELSE c.def[y]]
  BY <1>1, AddUpdateFields
<1>4. /\ e.index = b.index /\ e.action = b.action /\ e.asg = b.asg /\ e.pending = b.pending
      /\ e.def = [y \in DOMAIN b.def |-> IF y = q THEN [expr |-> b.def[q].expr, status |-> s]
                                                  ELSE b.def[y]]
  BY <1>1, AddUpdateFields
<1> HIDE DEF q, s
<1>5. ASSUME NEW y \in Known(d), d.action[y] = "DEFINE"
      PROVE  e.def[y] = d.def[y] /\ d.def[y].status \in UpdateStatus
  <2>1. y \in Known(c) /\ c.action[y] = "DEFINE"
    BY <1>3, <1>5 DEF Known
  <2>2. y \in DOMAIN c.def /\ y \in DOMAIN b.def
    BY <1>1, <2>1 DEF ConfigSound, Agree, Known
  <2>3. b.def[y] = c.def[y] /\ c.def[y].status \in UpdateStatus
    BY <2>1 DEF Agree
  <2> QED
    BY <1>1, <1>3, <1>4, <2>2, <2>3
<1> QED
  BY <1>2, <1>3, <1>4, <1>5 DEF Agree

(* UNITS says nothing about what is compared. *)
LEMMA UnitAgrees ==
  ASSUME NEW c, NEW b, Agree(c, b), NEW q, NEW u
  PROVE  Agree(add_unit(c, q, u), add_unit(b, q, u))
<1> DEFINE d == add_unit(c, q, u)
           e == add_unit(b, q, u)
<1>1. /\ ConfigSound(d) /\ d.index = c.index /\ d.action = c.action
      /\ d.def = c.def /\ d.asg = c.asg /\ d.pending = c.pending
  BY RestoreUnit DEF Agree
<1>2. /\ ConfigSound(e) /\ e.index = b.index /\ e.action = b.action
      /\ e.def = b.def /\ e.asg = b.asg /\ e.pending = b.pending
  BY RestoreUnit DEF Agree
<1> HIDE DEF d, e
<1> QED
  BY <1>1, <1>2 DEF Agree, Known, d, e

(* A record that neither of them refuses keeps them in agreement. *)
LEMMA RecordAgrees ==
  ASSUME NEW c, NEW b, Agree(c, b), NEW r, LegalRecord(r), NEW matches
  PROVE  Agree(add_record(c, r, matches), add_record(b, r, matches))
<1>1. CASE r.kind = "ASSIGN"
  BY <1>1, AssignAgrees DEF add_record
<1>2. CASE r.kind = "DEFINE"
  BY <1>2, DefineAgrees DEF add_record
<1>3. CASE r.kind = "UPDATE"
  BY <1>3, UpdateAgrees DEF add_record
<1>4. CASE r.kind = "UNITS"
  BY <1>4, UnitAgrees DEF add_record
<1> QED
  BY <1>1, <1>2, <1>3, <1>4 DEF LegalRecord

-----------------------------------------------------------------------------
(* The same keyword in two configurations: one goes along the other.       *)
AlongsideInv(p, k, done) ==
  done.ok /\ p.other[k].ok => Agree(p.other[k].config, done.config)

Alongside == INSTANCE Recursion WITH Op <- HandleOp, Inv <- AlongsideInv

(* A record goes well only after those before it. *)
LEMMA HandleOpIs ==
  ASSUME NEW p, NEW done, NEW r, NEW new, new = HandleOp(p, done, r), new.ok
  PROVE  done.ok /\ new.config = add_record(done.config, r, p.matches)
  BY DEF HandleOp

(* A keyword that goes well in both leaves them in agreement. *)
LEMMA HandleAgrees ==
  ASSUME NEW c, NEW b, Agree(c, b), NEW records, Legal(records), NEW matches, NEW inAction,
         NEW d, d = handleUDQ(c, records, matches, inAction), d.ok,
         NEW e, e = handleUDQ(b, records, matches, inAction), e.ok
  PROVE  Agree(d.config, e.config)
<1> DEFINE p == [config |-> c, matches |-> matches, inAction |-> inAction]
           x == [ok |-> TRUE, config |-> c]
           y == [ok |-> TRUE, config |-> b]
<1>1. d = Handled!Fold(p, x, records)
  BY DEF Handled!Fold, HandleOp, handleUDQ, FoldLeft, MapThenFoldSet, Handled!MapThenFoldSet, Max, Handled!Max
<1>2. records \in Seq(Range(records)) /\ \A r \in Range(records) : LegalRecord(r)
  BY DEF Legal
<1>3. p.matches = matches
  OBVIOUS
<1> HIDE DEF p, x
<1>4. PICK F : Handled!Values(p, x, records, F)
  BY ONLY <1>2, Handled!FoldHasValues
<1>5. /\ F[0] = x /\ d = F[Len(records)] /\ Len(records) \in Nat
      /\ \A k \in 1 .. Len(records) : F[k] = HandleOp(p, F[k - 1], records[k])
  BY <1>1, <1>2, <1>4 DEF Handled!Values
<1> DEFINE q == [config |-> b, matches |-> matches, inAction |-> inAction, other |-> F]
<1>6. e = Alongside!Fold(q, y, records)
  BY DEF Alongside!Fold, HandleOp, handleUDQ, FoldLeft, MapThenFoldSet, Alongside!MapThenFoldSet, Max, Alongside!Max
<1>7. q.matches = matches /\ q.other = F
  OBVIOUS
<1> HIDE DEF q
<1>8. AlongsideInv(q, 0, y)
  BY <1>5, <1>7 DEF AlongsideInv, x
<1>9. ASSUME NEW k \in 1 .. Len(records), NEW a, AlongsideInv(q, k - 1, a)
      PROVE  AlongsideInv(q, k, HandleOp(q, a, records[k]))
  <2> DEFINE r == records[k]
             f == F[k]
             g == HandleOp(q, a, r)
  <2> SUFFICES ASSUME f.ok, g.ok PROVE Agree(f.config, g.config)
    BY <1>7 DEF AlongsideInv
  <2>1. f = HandleOp(p, F[k - 1], r)
    BY <1>5
  <2>2. LegalRecord(r)
    BY <1>2 DEF Range
  <2> HIDE DEF r, f, g
  <2>3. F[k - 1].ok /\ f.config = add_record(F[k - 1].config, r, matches)
    BY <1>3, <2>1, HandleOpIs
  <2>4. a.ok /\ g.config = add_record(a.config, r, matches)
    BY <1>7, HandleOpIs DEF g
  <2>5. Agree(F[k - 1].config, a.config)
    BY <1>7, <1>9, <2>3, <2>4 DEF AlongsideInv
  <2> QED
    BY <2>2, <2>3, <2>4, <2>5, RecordAgrees
<1> HIDE DEF y
<1>10. AlongsideInv(q, Len(records), Alongside!Fold(q, y, records))
  BY <1>2, <1>8, <1>9, Alongside!FoldKeeps
<1> QED
  BY <1>5, <1>6, <1>7, <1>10 DEF AlongsideInv

(* Clearing both leaves them in agreement. *)
LEMMA ClearedAgree ==
  ASSUME NEW c, NEW b, Agree(c, b), NEW d, ConfigSound(d), NEW e, ConfigSound(e),
         NEW g, NEW h, ClearedTo(c, d, g), ClearedTo(b, e, h),
         \A q \in Known(c) : c.action[q] = "DEFINE" => h[q] = g[q] /\ g[q].status \in UpdateStatus
  PROVE  Agree(d, e)
  BY DEF Agree, ClearedTo, Known

(* A definition that is cleared keeps a status. *)
LEMMA StatusAfterNext ==
  ASSUME NEW x, Definition(x), x.status \in UpdateStatus
  PROVE  AfterNext(x).status \in UpdateStatus
  BY AfterNextIs DEF UpdateStatus

(* The next report step. *)
LEMMA NextAgrees ==
  ASSUME NEW c, NEW b, Agree(c, b)
  PROVE  Agree(NewReportStep(c), NewReportStep(b))
<1> DEFINE g == [q \in DOMAIN c.def |-> AfterNext(c.def[q])]
           h == [q \in DOMAIN b.def |-> AfterNext(b.def[q])]
<1>1. ConfigSound(c) /\ ConfigSound(b)
  BY DEF Agree
<1>2. ClearedTo(c, NewReportStep(c), g) /\ ClearedTo(b, NewReportStep(b), h)
  BY <1>1, Cleared, DefinitionsOf
<1>3. ConfigSound(NewReportStep(c)) /\ ConfigSound(NewReportStep(b))
  BY <1>1, NewReportStepSound
<1>4. ASSUME NEW q \in Known(c), c.action[q] = "DEFINE"
      PROVE  h[q] = g[q] /\ g[q].status \in UpdateStatus
  <2>1. q \in DOMAIN c.def /\ q \in DOMAIN b.def
    BY <1>1, <1>4 DEF ConfigSound, Agree, Known
  <2>2. b.def[q] = c.def[q] /\ c.def[q].status \in UpdateStatus
    BY <1>4 DEF Agree
  <2>3. Definition(c.def[q])
    BY <1>1, <2>1, DefinitionsOf
  <2> QED
    BY <2>1, <2>2, <2>3, StatusAfterNext
<1> HIDE DEF g, h
<1> QED
  BY <1>2, <1>3, <1>4, ClearedAgree

(* An evaluation of both. *)
LEMMA EvaluatedAgrees ==
  ASSUME NEW c, NEW b, Agree(c, b)
  PROVE  Agree(evaluated(c), evaluated(b))
<1> DEFINE on(q) == q \in Known(c) /\ Defining(c, q)
           also(q) == q \in Known(b) /\ Defining(b, q)
           g == [q \in DOMAIN c.def |-> IF on(q) THEN AfterNext(c.def[q]) ELSE c.def[q]]
           h == [q \in DOMAIN b.def |-> IF also(q) THEN AfterNext(b.def[q]) ELSE b.def[q]]
<1>1. ConfigSound(c) /\ ConfigSound(b)
  BY DEF Agree
<1>2. ClearedTo(c, evaluated(c), g) /\ ClearedTo(b, evaluated(b), h)
  BY <1>1, EvaluatedIs, DefinitionsOf
<1>3. ConfigSound(evaluated(c)) /\ ConfigSound(evaluated(b))
  BY <1>1, EvaluatedSound
<1>4. ASSUME NEW q \in Known(c), c.action[q] = "DEFINE"
      PROVE  h[q] = g[q] /\ g[q].status \in UpdateStatus
  <2>1. q \in DOMAIN c.def /\ q \in DOMAIN b.def
    BY <1>1, <1>4 DEF ConfigSound, Agree, Known
  <2>2. b.def[q] = c.def[q] /\ c.def[q].status \in UpdateStatus
    BY <1>4 DEF Agree
  <2>3. Definition(c.def[q])
    BY <1>1, <2>1, DefinitionsOf
  <2>4. also(q) <=> on(q)
    BY <2>2 DEF Agree, Defining, Known
  <2> HIDE DEF on, also
  <2> QED
    BY <2>1, <2>2, <2>3, <2>4, StatusAfterNext
<1> HIDE DEF g, h
<1> QED
  BY <1>2, <1>3, <1>4, ClearedAgree

(* They give the same values. *)
LEMMA EvalAgrees ==
  ASSUME NEW c, NEW b, Agree(c, b), NEW v, NEW rate
  PROVE  eval(b, v, rate) = eval(c, v, rate)
<1> DEFINE p == [config |-> c, rate |-> rate]
           r == [config |-> b, rate |-> rate]
           u == eval_assign(c, v)
<1>1. eval_assign(b, v) = u
  <2>1. Assignable(b) = Assignable(c) /\ \A q \in Assignable(c) : Replayed(b.asg[q]) = Replayed(c.asg[q])
    BY DEF Agree, Assignable
  <2> QED
    BY <2>1 DEF eval_assign
<1> HIDE DEF u
<1>2. eval(c, v, rate) = eval_define(c, u, rate) /\ eval(b, v, rate) = eval_define(b, u, rate)
  BY <1>1 DEF eval, u
<1>3. eval_define(c, u, rate) = Evaluating!Fold(p, u, c.index)
  BY DEF Evaluating!Fold, EvalOp, Computed, eval_define, FoldLeft, MapThenFoldSet, Evaluating!MapThenFoldSet, Max, Evaluating!Max
<1>4. eval_define(b, u, rate) = Evaluating!Fold(r, u, b.index)
  BY DEF Evaluating!Fold, EvalOp, Computed, eval_define, FoldLeft, MapThenFoldSet, Evaluating!MapThenFoldSet, Max, Evaluating!Max
<1>5. b.index = c.index /\ c.index \in Seq(Quantities) /\ Range(c.index) = Known(c)
  BY DEF Agree, ConfigSound
<1>6. p.config = c /\ p.rate = rate /\ r.config = b /\ r.rate = rate
  OBVIOUS
<1> HIDE DEF p, r
<1>7. ASSUME NEW a, NEW k \in 1 .. Len(c.index)
      PROVE  EvalOp(p, a, c.index[k]) = EvalOp(r, a, c.index[k])
  <2> DEFINE q == c.index[k]
  <2>1. q \in Known(c)
    BY <1>5 DEF Range
  <2> HIDE DEF q
  <2>2. Defining(b, q) <=> Defining(c, q)
    BY <2>1 DEF Agree, Defining
  <2>3. Defining(c, q) => b.def[q] = c.def[q]
    BY <2>1 DEF Agree, Defining
  <2>4. EvalOp(p, a, q) = EvalOp(r, a, q)
    BY <1>6, <2>2, <2>3 DEF EvalOp, Computed
  <2> QED
    BY <2>4 DEF q
<1> DEFINE s == c.index
<1>8. s \in Seq(Quantities) /\ \A a : \A k \in 1 .. Len(s) : EvalOp(p, a, s[k]) = EvalOp(r, a, s[k])
  BY <1>5, <1>7
<1> HIDE DEF s
<1>9. Evaluating!Fold(p, u, s) = Evaluating!Fold(r, u, s)
  BY ONLY <1>8, Evaluating!FoldAgree
<1> QED
  BY <1>2, <1>3, <1>4, <1>5, <1>9 DEF s

-----------------------------------------------------------------------------
(* What was ASSIGNed and is not pending any more has been applied. *)
Applied(c, v) ==
  \A q \in DOMAIN c.asg : c.action[q] = "ASSIGN" /\ q \notin c.pending
                            => ValueOf(v, q) = Replayed(c.asg[q])

(* The values of what is ASSIGNed, after the first k definitions. *)
IsFunction(v) == v = [q \in DOMAIN v |-> v[q]]

KeptInv(p, k, v) ==
  /\ IsFunction(v) /\ DOMAIN v \subseteq Known(p.config)
  /\ \A q \in Known(p.config) : p.config.action[q] = "ASSIGN" => ValueOf(v, q) = ValueOf(p.first, q)

Keeping == INSTANCE Recursion WITH Op <- EvalOp, Inv <- KeptInv

(* The definitions leave the values of what is ASSIGNed. *)
LEMMA DefinesKeep ==
  ASSUME NEW c, ConfigSound(c), NEW u, IsFunction(u), DOMAIN u \subseteq Known(c), NEW rate,
         NEW e, e = eval_define(c, u, rate)
  PROVE  /\ IsFunction(e) /\ DOMAIN e \subseteq Known(c)
         /\ \A q \in Known(c) : c.action[q] = "ASSIGN" => ValueOf(e, q) = ValueOf(u, q)
<1> DEFINE p == [config |-> c, rate |-> rate, first |-> u]
           s == c.index
<1>1. e = Keeping!Fold(p, u, s)
  BY DEF Keeping!Fold, EvalOp, Computed, eval_define, FoldLeft, MapThenFoldSet, Keeping!MapThenFoldSet, Max, Keeping!Max
<1>2. p.config = c /\ p.first = u
  OBVIOUS
<1>3. s \in Seq(Quantities) /\ Range(s) = Known(c)
  BY DEF ConfigSound
<1> HIDE DEF p
<1>4. KeptInv(p, 0, u)
  BY <1>2 DEF KeptInv
<1>5. ASSUME NEW k \in 1 .. Len(s), NEW a, KeptInv(p, k - 1, a)
      PROVE  KeptInv(p, k, EvalOp(p, a, s[k]))
  <2> DEFINE q == s[k]
             x == Computed(p.config, a, p.rate, q)
             n == EvalOp(p, a, q)
  <2>1. q \in Known(c)
    BY <1>3 DEF Range
  <2>2. n = IF ~Defining(c, q) THEN a ELSE Put(a, q, x)
    BY <1>2 DEF EvalOp
  <2> HIDE DEF q, x, n
  <2>3. DOMAIN n \subseteq Known(c)
    BY <1>2, <1>5, <2>1, <2>2 DEF KeptInv, Put
  <2>4. ASSUME NEW y \in Known(c), c.action[y] = "ASSIGN" PROVE ValueOf(n, y) = ValueOf(a, y)
    BY <2>2, <2>4 DEF Defining, Put, ValueOf
  <2>5. IsFunction(n)
    <3>1. IsFunction(a)
      BY <1>5 DEF KeptInv
    <3>2. IsFunction(Put(a, q, x))
      BY DEF Put, IsFunction
    <3> QED
      BY <2>2, <3>1, <3>2
  <2>6. KeptInv(p, k, n)
    BY <1>2, <1>5, <2>3, <2>4, <2>5 DEF KeptInv
  <2> QED
    BY <2>6 DEF n, q
<1> HIDE DEF s
<1>6. KeptInv(p, Len(s), Keeping!Fold(p, u, s))
  BY <1>3, <1>4, <1>5, Keeping!FoldKeeps
<1> QED
  BY <1>1, <1>2, <1>6 DEF KeptInv

(* An evaluation applies what is pending. *)
LEMMA EvalApplies ==
  ASSUME NEW c, ConfigSound(c), NEW v, DOMAIN v \subseteq Known(c), Applied(c, v), NEW rate,
         NEW e, e = eval(c, v, rate)
  PROVE  IsFunction(e) /\ DOMAIN e \subseteq Known(c) /\ Applied(evaluated(c), e)
<1> DEFINE u == eval_assign(c, v)
           d == evaluated(c)
<1>1. DOMAIN c.asg \subseteq Known(c)
  BY DEF ConfigSound
<1>0. IsFunction(u)
  BY DEF eval_assign, IsFunction
<1>2. /\ DOMAIN u \subseteq Known(c)
      /\ \A q \in DOMAIN c.asg : c.action[q] = "ASSIGN" => ValueOf(u, q) = Replayed(c.asg[q])
  BY <1>1 DEF eval_assign, Assignable, Applied, ValueOf
<1>3. e = eval_define(c, u, rate)
  BY DEF eval
<1> HIDE DEF u
<1>4. /\ IsFunction(e) /\ DOMAIN e \subseteq Known(c)
      /\ \A q \in Known(c) : c.action[q] = "ASSIGN" => ValueOf(e, q) = ValueOf(u, q)
  BY <1>0, <1>2, <1>3, DefinesKeep
<1>5. d.action = c.action /\ d.asg = c.asg
  BY EvaluatedIs, DefinitionsOf DEF ClearedTo
<1> HIDE DEF d
<1>6. Applied(d, e)
  BY <1>1, <1>2, <1>4, <1>5 DEF Applied
<1> QED
  BY <1>4, <1>6 DEF d

(* A keyword that goes well has nothing applied that it changes. *)
LEMMA HandleApplied ==
  ASSUME NEW c, ConfigSound(c), NEW v, Applied(c, v), NEW records, Legal(records),
         NEW matches, NEW inAction, NEW done, done = handleUDQ(c, records, matches, inAction), done.ok
  PROVE  Applied(done.config, v) /\ Known(c) \subseteq Known(done.config)
<1> DEFINE d == done.config
           n == Len(records)
<1>1. ConfigSound(d) /\ Outcome(c, d, records, n)
  BY HandleUDQ
<1>2. Known(c) \subseteq Known(d)
  <2>1. /\ c.index \in Seq(Quantities) /\ Range(c.index) = Known(c)
        /\ d.index \in Seq(Quantities) /\ Range(d.index) = Known(d)
    BY <1>1 DEF ConfigSound
  <2>2. Len(c.index) <= Len(d.index) /\ \A i \in DOMAIN c.index : d.index[i] = c.index[i]
    BY <1>1 DEF Outcome, Extends
  <2>3. \A i \in DOMAIN c.index : i \in DOMAIN d.index
    BY <2>1, <2>2
  <2> QED
    BY <2>1, <2>2, <2>3 DEF Range
<1> HIDE DEF d, n
<1>3. ASSUME NEW q \in DOMAIN d.asg, d.action[q] = "ASSIGN", q \notin d.pending
      PROVE  ValueOf(v, q) = Replayed(d.asg[q])
  <2>1. StatedSoFar(c, d, records, n, q)
    BY <1>1 DEF Outcome
  <2>2. SameAction(c, d, q) /\ SameAssigns(c, d, q)
    BY <1>3, <2>1 DEF StatedSoFar
  <2>3. q \in Known(d)
    BY <1>1 DEF ConfigSound
  <2> QED
    BY <1>3, <2>2, <2>3 DEF SameAction, SameAssigns, Applied
<1> QED
  BY <1>2, <1>3 DEF Applied, d

(* The report step begins with what is applied, when nothing is pending. *)
LEMMA NextApplied ==
  ASSUME NEW c, ConfigSound(c), c.pending = {}, NEW v, Applied(c, v)
  PROVE  Applied(NewReportStep(c), v) /\ Known(NewReportStep(c)) = Known(c)
<1> DEFINE d == NewReportStep(c)
<1>1. d.action = c.action /\ d.asg = c.asg
  BY Cleared, DefinitionsOf DEF ClearedTo
<1> HIDE DEF d
<1> QED
  BY <1>1 DEF Applied, Known, d

-----------------------------------------------------------------------------
(* What is read back.                                                      *)
PartInv(p, k, v) ==
  v = [w \in Wells |-> IF \E i \in 1 .. k : w \in p.records[i].wells THEN p.value[w] ELSE Undefined]

Parts == INSTANCE Recursion WITH Op <- ReplayOp, Inv <- PartInv

(* The records that a value is written as give the value again. *)
LEMMA ReplayedBack ==
  ASSUME NEW v, v = [w \in Wells |-> v[w]] PROVE Replayed(rst_records(v)) = v
<1> DEFINE W == {x \in Wells : v[x] # Undefined}
           g == [w \in W |-> [wells |-> {w}, val |-> v[w]]]
           T == {[wells |-> {w}, val |-> v[w]] : w \in W}
           s == rst_records(v)
           p == [records |-> s, value |-> v]
<1>1. IsFiniteSet(W)
  BY UDQAssumption, FS_Subset
<1>2. g \in Surjection(W, T)
  BY DEF Surjection
<1>3. s = SetToSeq(T)
  BY DEF rst_records
<1>4. \A x \in T : \E w \in W : x.wells = {w} /\ x.val = v[w]
  OBVIOUS
<1>5. \A w \in W : \E x \in T : x.wells = {w}
  <2>1. \A w \in W : [wells |-> {w}, val |-> v[w]] \in T
    OBVIOUS
  <2> HIDE DEF T
  <2> QED
    BY <2>1
<1> HIDE DEF g, T
<1>6. IsFiniteSet(T)
  BY <1>1, <1>2, FS_Surjection
<1>7. s \in Seq(T) /\ Range(s) = T
  BY <1>3, <1>6, SetToSeqIs
<1>8. Replayed(s) = Parts!Fold(p, NoValue, s)
  BY DEF Parts!Fold, ReplayOp, Replayed, FoldLeft, MapThenFoldSet, Parts!MapThenFoldSet, Max, Parts!Max
<1>9. p.records = s /\ p.value = v
  OBVIOUS
<1> HIDE DEF p, s
<1>10. PartInv(p, 0, NoValue)
  BY DEF PartInv, NoValue
<1>11. ASSUME NEW k \in 1 .. Len(s), NEW a, PartInv(p, k - 1, a)
       PROVE  PartInv(p, k, ReplayOp(p, a, s[k]))
  <2> DEFINE r == s[k]
             n == ReplayOp(p, a, r)
  <2>1. r \in T
    BY <1>7
  <2>2. PICK x \in W : r.wells = {x} /\ r.val = v[x]
    BY <1>4, <2>1
  <2>3. n = [w \in Wells |-> IF w = x THEN v[x] ELSE a[w]]
    BY <2>2 DEF ReplayOp
  <2>4. a = [w \in Wells |-> IF \E i \in 1 .. k - 1 : w \in s[i].wells THEN v[w] ELSE Undefined]
    BY <1>9, <1>11 DEF PartInv
  <2>5. \A i \in 1 .. k : i = k \/ i \in 1 .. k - 1
    OBVIOUS
  <2>6. \A i \in 1 .. k - 1 : i \in 1 .. k
    OBVIOUS
  <2>7. \A w : (\E i \in 1 .. k : w \in s[i].wells) <=> w = x \/ \E i \in 1 .. k - 1 : w \in s[i].wells
    BY <2>2, <2>5, <2>6
  <2> HIDE DEF r, n
  <2>8. n = [w \in Wells |-> IF \E i \in 1 .. k : w \in s[i].wells THEN v[w] ELSE Undefined]
    BY <2>3, <2>4, <2>7
  <2> QED
    BY <1>9, <2>8 DEF PartInv, n, r
<1>12. PartInv(p, Len(s), Parts!Fold(p, NoValue, s))
  BY <1>7, <1>10, <1>11, Parts!FoldKeeps
<1>13. ASSUME NEW w \in Wells
       PROVE  (\E i \in 1 .. Len(s) : w \in s[i].wells) <=> v[w] # Undefined
  <2>1. DOMAIN s = 1 .. Len(s)
    BY <1>7
  <2>2. ASSUME NEW i \in 1 .. Len(s), w \in s[i].wells PROVE v[w] # Undefined
    <3>1. s[i] \in T
      BY <1>7, <2>2
    <3> QED
      BY <1>4, <2>2, <3>1
  <2>3. ASSUME v[w] # Undefined PROVE \E i \in 1 .. Len(s) : w \in s[i].wells
    <3>1. PICK x \in T : x.wells = {w}
      BY <1>5, <2>3
    <3>2. PICK i \in DOMAIN s : s[i] = x
      BY <1>7, <3>1 DEF Range
    <3> QED
      BY <2>1, <3>1, <3>2
  <2> QED
    BY <2>2, <2>3
<1> DEFINE u == Replayed(s)
<1>14. u = [w \in Wells |-> IF \E i \in 1 .. Len(s) : w \in s[i].wells THEN v[w] ELSE Undefined]
  BY <1>8, <1>9, <1>12 DEF PartInv
<1> HIDE DEF u
<1>15. u = [w \in Wells |-> v[w]]
  BY <1>13, <1>14
<1> QED
  BY <1>15 DEF u, s

(* The quantity has the object that its action says. *)
HasObject(c, q) == q \in IF c.action[q] = "DEFINE" THEN DOMAIN c.def ELSE DOMAIN c.asg

InputOp(c, out, q) == IF HasObject(c, q) THEN Append(out, q) ELSE out

InputInv(c, k, out) ==
  /\ out \in Seq(Quantities)
  /\ Len(out) <= k
  /\ Len(out) = k => \A i \in 1 .. k : HasObject(c, c.index[i])

Answering == INSTANCE Recursion WITH Op <- InputOp, Inv <- InputInv

(* When all quantities are answered each has an object. *)
LEMMA AllAnswered ==
  ASSUME NEW c, ConfigSound(c), Len(input(c)) = Len(c.index)
  PROVE  \A q \in Known(c) : HasObject(c, q)
<1> DEFINE s == c.index
           none == << >>
<1>1. input(c) = Answering!Fold(c, none, s)
  BY DEF Answering!Fold, InputOp, HasObject, input, FoldLeft, MapThenFoldSet, Answering!MapThenFoldSet, Max, Answering!Max
<1>2. s \in Seq(Quantities) /\ Range(s) = Known(c)
  BY DEF ConfigSound
<1>3. InputInv(c, 0, none)
  BY DEF InputInv
<1>4. ASSUME NEW k \in 1 .. Len(s), NEW a, InputInv(c, k - 1, a)
      PROVE  InputInv(c, k, InputOp(c, a, s[k]))
  <2> DEFINE q == s[k]
             n == InputOp(c, a, q)
  <2>1. q \in Quantities
    BY <1>2
  <2>2. a \in Seq(Quantities) /\ Len(a) <= k - 1
    BY <1>4 DEF InputInv
  <2>3. CASE HasObject(c, q)
    <3>1. n = Append(a, q)
      BY <2>3 DEF InputOp
    <3> HIDE DEF n, q
    <3>2. n \in Seq(Quantities) /\ Len(n) = Len(a) + 1
      BY <2>1, <2>2, <3>1
    <3>3. Len(n) = k => \A i \in 1 .. k : HasObject(c, s[i])
      <4> SUFFICES ASSUME Len(n) = k, NEW i \in 1 .. k PROVE HasObject(c, s[i])
        OBVIOUS
      <4>1. Len(a) = k - 1
        BY <2>2, <3>2
      <4>2. i = k \/ i \in 1 .. k - 1
        OBVIOUS
      <4> QED
        BY <1>4, <2>3, <4>1, <4>2 DEF InputInv, q
    <3>4. Len(n) <= k
      BY <2>2, <3>2
    <3> QED
      BY <3>2, <3>3, <3>4 DEF InputInv, n, q
  <2>4. CASE ~HasObject(c, q)
    <3>1. n = a
      BY <2>4 DEF InputOp
    <3>2. Len(a) <= k /\ Len(a) # k
      BY <2>2
    <3> HIDE DEF n, q
    <3> QED
      BY <2>2, <3>1, <3>2 DEF InputInv, n, q
  <2> QED
    BY <2>3, <2>4
<1> HIDE DEF s, none
<1>5. InputInv(c, Len(s), Answering!Fold(c, none, s))
  BY <1>2, <1>3, <1>4, Answering!FoldKeeps
<1>6. \A i \in 1 .. Len(s) : HasObject(c, s[i])
  BY <1>1, <1>5 DEF InputInv, s
<1> QED
  BY <1>2, <1>6 DEF Range

(* What has been evaluated: nothing is pending, and no UPDATE NEXT left.   *)
Done(c) ==
  /\ c.pending = {}
  /\ \A q \in Known(c) : c.action[q] = "DEFINE" => c.def[q].status # "NEXT"

(* An evaluation leaves nothing to do. *)
LEMMA EvaluatedDone ==
  ASSUME NEW c, ConfigSound(c) PROVE Done(evaluated(c))
<1> DEFINE on(q) == q \in Known(c) /\ Defining(c, q)
           g == [q \in DOMAIN c.def |-> IF on(q) THEN AfterNext(c.def[q]) ELSE c.def[q]]
           d == evaluated(c)
<1>1. ClearedTo(c, d, g)
  BY EvaluatedIs, DefinitionsOf
<1> HIDE DEF d
<1>2. d.pending = {} /\ d.action = c.action /\ d.def = g
  BY <1>1 DEF ClearedTo
<1> HIDE DEF g
<1>3. ASSUME NEW q \in Known(d), d.action[q] = "DEFINE" PROVE d.def[q].status # "NEXT"
  <2>1. q \in Known(c) /\ c.action[q] = "DEFINE" /\ q \in DOMAIN c.def
    BY <1>2, <1>3 DEF Known, ConfigSound
  <2>2. Definition(c.def[q])
    BY <2>1, DefinitionsOf
  <2>3. c.def[q].status = "NEXT" => on(q)
    BY <2>1 DEF Defining
  <2>4. g[q] = IF on(q) THEN AfterNext(c.def[q]) ELSE c.def[q]
    BY <2>1 DEF g
  <2> HIDE DEF on
  <2>5. AfterNext(c.def[q]).status # "NEXT"
    BY <2>2, AfterNextIs
  <2> QED
    BY <1>2, <2>3, <2>4, <2>5
<1> QED
  BY <1>2, <1>3 DEF Done, d

(* An ASSIGN that is read back has been applied. *)
LEMMA RestoredApplied ==
  ASSUME NEW c, ConfigSound(c), c.pending = {}, \A q \in Known(c) : HasObject(c, q),
         NEW v, Applied(c, v), NEW n, n = restored(c, v), NEW q \in DOMAIN n.asg
  PROVE  /\ q \in DOMAIN c.asg /\ q \in Known(c) /\ c.action[q] = "ASSIGN"
         /\ Replayed(n.asg[q]) = Replayed(c.asg[q]) /\ ValueOf(v, q) = Replayed(n.asg[q])
<1>1. ConfigSound(n) /\ Known(n) = Known(c) /\ AllReadBack(c, v, n)
  BY RestoredIs
<1>2. q \in Known(n)
  BY <1>1 DEF ConfigSound
<1>3. q \in Known(c) /\ c.action[q] = "ASSIGN" /\ n.asg[q] = rst_records(ValueOf(v, q))
  BY <1>1, <1>2 DEF AllReadBack, ReadBack, ConfigSound
<1>4. q \in DOMAIN c.asg /\ ValueOf(v, q) = Replayed(c.asg[q])
  BY <1>3 DEF HasObject, Applied
<1> DEFINE s == c.asg[q]
           u == Replayed(s)
<1>5. s \in Seq(Range(s))
  BY <1>4 DEF ConfigSound
<1> HIDE DEF s
<1>6. u = [w \in Wells |-> u[w]]
  BY <1>5, ReplayedTyped
<1> HIDE DEF u
<1>7. Replayed(rst_records(u)) = u
  BY <1>6, ReplayedBack
<1> QED
  BY <1>3, <1>4, <1>7 DEF u, s

(* What is read back goes on as the next report step of the other one.     *)
LEMMA RestoredAgrees ==
  ASSUME NEW c, NEW b, Agree(c, b), Done(c), Len(input(c)) = Len(c.index),
         \A q \in Known(c) : c.action[q] = "DEFINE" => q \notin DOMAIN c.asg,
         NEW v, Applied(c, v), NEW n, n = restored(c, v)
  PROVE  Agree(n, NewReportStep(b)) /\ Applied(n, v)
<1> DEFINE h == [q \in DOMAIN b.def |-> AfterNext(b.def[q])]
           m == NewReportStep(b)
<1>1. ConfigSound(c) /\ ConfigSound(b)
  BY DEF Agree
<1>2. /\ ConfigSound(n) /\ n.pending = {} /\ n.index = c.index /\ Known(n) = Known(c)
      /\ AllReadBack(c, v, n)
  BY <1>1, RestoredIs
<1>3. ClearedTo(b, m, h) /\ ConfigSound(m)
  BY <1>1, Cleared, DefinitionsOf, NewReportStepSound
<1>4. \A q \in Known(c) : HasObject(c, q)
  BY <1>1, AllAnswered
<1> HIDE DEF m, h
<1>5. n.action = c.action
  <2>1. /\ c.action \in [Known(c) -> {"ASSIGN", "DEFINE"}]
        /\ n.action \in [Known(c) -> {"ASSIGN", "DEFINE"}]
    BY <1>1, <1>2 DEF ConfigSound
  <2>2. \A q \in Known(c) : n.action[q] = c.action[q]
    BY <1>2 DEF AllReadBack, ReadBack
  <2> QED
    BY <2>1, <2>2
<1>6. m.index = n.index /\ m.action = n.action /\ m.pending = n.pending /\ m.asg = b.asg /\ m.def = h
  BY <1>2, <1>3, <1>5 DEF ClearedTo, Agree
<1>7. DOMAIN n.asg \subseteq Known(c) /\ DOMAIN c.asg \subseteq Known(c)
  BY <1>1, <1>2 DEF ConfigSound
<1>8. DOMAIN n.asg = DOMAIN c.asg
  <2>1. \A q \in Known(c) : q \in DOMAIN n.asg <=> c.action[q] = "ASSIGN"
    BY <1>2 DEF AllReadBack, ReadBack
  <2>2. \A q \in Known(c) : q \in DOMAIN c.asg <=> c.action[q] = "ASSIGN"
    BY <1>1, <1>4 DEF ConfigSound, HasObject
  <2> QED
    BY <1>7, <2>1, <2>2
<1>9. ASSUME NEW q \in DOMAIN n.asg
      PROVE  Replayed(n.asg[q]) = Replayed(c.asg[q]) /\ ValueOf(v, q) = Replayed(n.asg[q])
  BY <1>1, <1>4, RestoredApplied DEF Done
<1>10. ASSUME NEW q \in Known(n), n.action[q] = "DEFINE"
       PROVE  m.def[q] = n.def[q] /\ n.def[q].status \in UpdateStatus
  <2>1. q \in Known(c) /\ c.action[q] = "DEFINE" /\ q \in DOMAIN c.def /\ q \in DOMAIN b.def
    BY <1>1, <1>2, <1>5, <1>10 DEF ConfigSound, Agree, Known
  <2>2. b.def[q] = c.def[q] /\ c.def[q].status \in UpdateStatus /\ c.def[q].status # "NEXT"
    BY <2>1 DEF Agree, Done
  <2>3. n.def[q] = [expr |-> c.def[q].expr, status |-> WrittenStatus(c.def[q].status)]
    BY <1>2, <2>1 DEF AllReadBack, ReadBack
  <2>4. Definition(c.def[q])
    BY <1>1, <2>1, DefinitionsOf
  <2> DEFINE x == c.def[q]
  <2>5. WrittenStatus(x.status) = x.status
    BY <2>2 DEF WrittenStatus, UpdateStatus
  <2>6. x = [expr |-> x.expr, status |-> x.status]
    BY <2>4 DEF Definition
  <2> HIDE DEF x
  <2>7. n.def[q] = x
    BY <2>3, <2>5, <2>6 DEF x
  <2>8. AfterNext(x) = x
    BY <2>2 DEF AfterNext, x
  <2>9. m.def[q] = AfterNext(x)
    BY <1>6, <2>1, <2>2 DEF h, x
  <2> QED
    BY <2>2, <2>7, <2>8, <2>9 DEF x
<1>11. DOMAIN m.asg = DOMAIN n.asg /\ \A q \in DOMAIN n.asg : Replayed(m.asg[q]) = Replayed(n.asg[q])
  BY <1>6, <1>8, <1>9 DEF Agree
<1>12. Agree(n, m)
  BY <1>2, <1>3, <1>6, <1>10, <1>11 DEF Agree
<1> QED
  BY <1>9, <1>12 DEF Applied, m

-----------------------------------------------------------------------------
(* A run that was restarted and the uninterrupted one.                     *)

BaseTyped ==
  /\ base = [config |-> base.config, values |-> base.values, ok |-> base.ok]
  /\ base.ok \in BOOLEAN

(* The values are those of known quantities, and what was ASSIGNed gave    *)
(* its value.  Both go on alike, unless the uninterrupted one has failed   *)
(* or ASSIGNs were dropped.                                                *)
RunInv ==
  /\ BaseTyped
  /\ ~fault =>
       /\ IsFunction(values) /\ DOMAIN values \subseteq Known(configs[step])
       /\ Applied(configs[step], values)
       /\ fresh => Done(configs[step])
       /\ ~lost /\ base.ok => Agree(configs[step], base.config) /\ base.values = values

(* At the beginning both are the same. *)
LEMMA InitRunInv == Init => RunInv
<1> SUFFICES ASSUME Init PROVE RunInv
  OBVIOUS
<1> DEFINE first == handleUDQ(EmptyConfig, deck[0], {}, FALSE)
           c == first.config
           f == Rebuilt(0, c)
<1>1. /\ deck \in Decks /\ step = 0 /\ fresh = FALSE /\ values = EmptyFunction
      /\ configs = [j \in Steps |-> f[j].config]
      /\ fault = ~(first.ok /\ f[N - 1].ok)
      /\ base = [config |-> c, values |-> EmptyFunction, ok |-> first.ok]
  BY DEF Init
<1>2. 0 \in Steps /\ Legal(deck[0]) /\ LegalDeck
  BY <1>1, LegalDecks, StepsFacts DEF LegalDeck
<1>3. Agree(EmptyConfig, EmptyConfig) /\ Applied(EmptyConfig, EmptyFunction)
  <2>1. EmptyConfig.asg = EmptyFunction /\ EmptyConfig.action = EmptyFunction
    BY DEF EmptyConfig
  <2>2. DOMAIN EmptyFunction = {}
    BY DEF EmptyFunction
  <2> QED
    BY <2>1, <2>2, EmptySound DEF Agree, Applied, Known
<1>b. BaseTyped
  <2>1. first.ok \in BOOLEAN
    BY <1>2, EmptySound, HandleUDQ
  <2> HIDE DEF first
  <2> QED
    BY <1>1, <2>1 DEF BaseTyped
<1> SUFFICES ASSUME ~fault PROVE RunInv
  BY <1>b DEF RunInv
<1>4. first.ok
  BY <1>1
<1> DEFINE e == EmptyConfig
<1>5. first = handleUDQ(e, deck[0], {}, FALSE) /\ e = EmptyConfig /\ ConfigSound(e)
  BY EmptySound
<1> HIDE DEF first, e
<1>6. Agree(c, c) /\ Applied(c, EmptyFunction) /\ ConfigSound(c)
  <2>1. Agree(e, e) /\ Applied(e, EmptyFunction)
    BY <1>3, <1>5
  <2>2. Agree(first.config, first.config)
    BY <1>2, <1>4, <1>5, <2>1, HandleAgrees
  <2>3. Applied(first.config, EmptyFunction)
    BY <1>2, <1>4, <1>5, <2>1, HandleApplied
  <2> QED
    BY <2>2, <2>3 DEF Agree
<1>7. configs[0] = c
  <2>1. f[0] = [ok |-> TRUE, config |-> c]
    BY <1>2, <1>6, RebuiltIs
  <2> QED
    BY <1>1, <1>2, <2>1
<1> HIDE DEF c, f
<1>8. IsFunction(values) /\ DOMAIN values \subseteq Known(configs[step])
  BY <1>1 DEF EmptyFunction, IsFunction
<1> QED
  BY <1>1, <1>b, <1>6, <1>7, <1>8 DEF RunInv

(* What the uninterrupted run is after a keyword. *)
LEMMA Continued ==
  ASSUME BaseTyped, NEW done, done.ok \in BOOLEAN, Continue(done)
  PROVE  /\ BaseTyped'
         /\ base'.config = done.config /\ base'.values = base.values
         /\ base'.ok = (base.ok /\ done.ok)
<1> DEFINE y == base.ok /\ done.ok
           x == [config |-> done.config, values |-> base.values, ok |-> y]
<1>1. base' = [base EXCEPT !.config = done.config, !.ok = y]
  BY DEF Continue
<1>2. y \in BOOLEAN
  BY DEF BaseTyped
<1> HIDE DEF y
<1>3. base' = x
  BY <1>1 DEF BaseTyped
<1>4. x.config = done.config /\ x.values = base.values /\ x.ok = y /\ x = [config |-> x.config, values |-> x.values, ok |-> x.ok]
  OBVIOUS
<1> HIDE DEF x
<1>5. BaseTyped'
  BY <1>2, <1>3, <1>4 DEF BaseTyped
<1> QED
  BY <1>3, <1>4, <1>5 DEF y

(* Both are evaluated. *)
LEMMA EvaluateRunInv == ASSUME ConfigInv, RunInv, Evaluate PROVE RunInv'
<1> DEFINE c == configs[step]
           b == base.config
<1>1. /\ ~fault /\ step' = step /\ lost' = lost /\ fault' = fault
      /\ configs' = [j \in Steps |-> IF owner[j] = owner[step] THEN evaluated(c) ELSE configs[j]]
  BY DEF Evaluate
<1>2. PICK rate \in Rates :
        /\ values' = eval(c, values, rate)
        /\ base' = [base EXCEPT !.config = evaluated(@), !.values = eval(base.config, @, rate)]
  BY DEF Evaluate
<1>3. step \in Steps /\ ConfigSound(c)
  BY DEF ConfigInv
<1>4. configs'[step'] = evaluated(c)
  BY <1>1, <1>3
<1>5. BaseTyped' /\ base'.config = evaluated(b) /\ base'.ok = base.ok
      /\ base'.values = eval(b, base.values, rate)
  <2> DEFINE d == evaluated(b)
             v == eval(b, base.values, rate)
             x == [config |-> d, values |-> v, ok |-> base.ok]
  <2>1. base' = [base EXCEPT !.config = d, !.values = v]
    BY <1>2
  <2> HIDE DEF d, v
  <2>2. base' = x /\ base.ok \in BOOLEAN
    BY <2>1 DEF RunInv, BaseTyped
  <2>3. x.config = d /\ x.values = v /\ x.ok = base.ok /\ x = [config |-> x.config, values |-> x.values, ok |-> x.ok]
    OBVIOUS
  <2> HIDE DEF x
  <2>4. BaseTyped'
    BY <2>2, <2>3 DEF BaseTyped
  <2> QED
    BY <2>2, <2>3, <2>4 DEF d, v
<1>6. /\ IsFunction(values) /\ DOMAIN values \subseteq Known(c) /\ Applied(c, values)
      /\ ~lost /\ base.ok => Agree(c, b) /\ base.values = values
  BY <1>1 DEF RunInv
<1> HIDE DEF c, b
<1>7. IsFunction(values') /\ DOMAIN values' \subseteq Known(c) /\ Applied(evaluated(c), values')
  BY <1>2, <1>3, <1>6, EvalApplies
<1>8. Known(evaluated(c)) = Known(c)
  BY <1>3, EvaluatedIs, DefinitionsOf DEF ClearedTo, Known
<1>9. Done(evaluated(c))
  BY <1>3, EvaluatedDone
<1>10. ASSUME ~lost, base.ok PROVE Agree(evaluated(c), base'.config) /\ base'.values = values'
  BY <1>2, <1>5, <1>6, <1>10, EvaluatedAgrees, EvalAgrees
<1> QED
  BY <1>1, <1>4, <1>5, <1>7, <1>8, <1>9, <1>10 DEF RunInv

(* What a keyword that goes well leaves in both. *)
AfterKeyword(c, b, v, d, e) ==
  /\ DOMAIN v \subseteq Known(d.config) /\ Applied(d.config, v)
  /\ Agree(c, b) /\ e.ok => Agree(d.config, e.config)

(* Both have a keyword, when it goes well. *)
LEMMA HandledRun ==
  ASSUME NEW c, ConfigSound(c), NEW b, NEW v, DOMAIN v \subseteq Known(c), Applied(c, v),
         NEW records, Legal(records), NEW matches, NEW inAction,
         NEW d, d = handleUDQ(c, records, matches, inAction), d.ok,
         NEW e, e = handleUDQ(b, records, matches, inAction)
  PROVE  AfterKeyword(c, b, v, d, e)
<1>1. Applied(d.config, v) /\ Known(c) \subseteq Known(d.config)
  BY HandleApplied
<1>2. ASSUME Agree(c, b), e.ok PROVE Agree(d.config, e.config)
  BY <1>2, HandleAgrees
<1> QED
  BY <1>1, <1>2 DEF AfterKeyword

(* The result of a keyword says whether it went well. *)
LEMMA HandledOk ==
  ASSUME NEW c, NEW records, Legal(records), NEW matches, NEW inAction
  PROVE  handleUDQ(c, records, matches, inAction).ok \in BOOLEAN
<1> DEFINE p == [config |-> c, records |-> records, matches |-> matches, inAction |-> inAction]
           first == [ok |-> TRUE, config |-> c]
           e == handleUDQ(c, records, matches, inAction)
<1>1. e = Alongside!Fold(p, first, records)
  BY DEF Alongside!Fold, HandleOp, handleUDQ, FoldLeft, MapThenFoldSet, Alongside!MapThenFoldSet, Max, Alongside!Max
<1>2. records \in Seq(Range(records))
  BY DEF Legal
<1>3. PICK F : Alongside!Values(p, first, records, F)
  BY ONLY <1>2, Alongside!FoldHasValues
<1> HIDE DEF p, e, first
<1>4. /\ F[0] = first /\ e = F[Len(records)] /\ Len(records) \in Nat
      /\ \A k \in 1 .. Len(records) : F[k] = HandleOp(p, F[k - 1], records[k])
  BY <1>1, <1>2, <1>3 DEF Alongside!Values
<1>5. F[0].ok = TRUE
  BY <1>4 DEF first
<1>6. \A a, r : HandleOp(p, a, r).ok = TRUE \/ HandleOp(p, a, r).ok = FALSE
  BY DEF HandleOp
<1>7. Len(records) = 0 \/ Len(records) \in 1 .. Len(records)
  BY <1>4
<1>8. e.ok = TRUE \/ e.ok = FALSE
  BY <1>4, <1>5, <1>6, <1>7
<1> QED
  BY <1>8 DEF e

(* An action, in both. *)
LEMMA ApplyActionRunInv == ASSUME ConfigInv, RunInv, ApplyAction PROVE RunInv'
<1>1. PICK records \in ActionBlocks, matches \in MatchSets :
        LET done == handleUDQ(configs[step], records, matches, TRUE)
        IN  IF done.ok
            THEN /\ Install(step, done.config, step)
                 /\ Continue(handleUDQ(base.config, records, matches, TRUE))
                 /\ fresh' = FALSE
            ELSE fault' = TRUE /\ base' = base
  BY DEF ApplyAction
<1>2. ~fault /\ step' = step /\ values' = values /\ lost' = lost
  BY DEF ApplyAction
<1>3. /\ step \in Steps /\ ConfigSound(configs[step]) /\ LegalDeck /\ Legal(records)
  BY LegalDecks, UDQAssumption DEF ConfigInv
<1>4. /\ BaseTyped /\ IsFunction(values) /\ DOMAIN values \subseteq Known(configs[step]) /\ Applied(configs[step], values)
      /\ ~lost /\ base.ok => Agree(configs[step], base.config) /\ base.values = values
  BY <1>2 DEF RunInv
<1> DEFINE done == handleUDQ(configs[step], records, matches, TRUE)
           e == handleUDQ(base.config, records, matches, TRUE)
           c == done.config
           f == Rebuilt(step, c)
<1>5. CASE ~done.ok
  <2>1. fault' /\ base' = base
    BY <1>1, <1>5
  <2> QED
    BY <1>4, <2>1 DEF RunInv, BaseTyped
<1>6. CASE done.ok
  <2>1. /\ configs' = [j \in Steps |-> IF j < step THEN configs[j] ELSE f[j].config]
        /\ Continue(e) /\ fresh' = FALSE
    BY <1>1, <1>6 DEF Install
  <2>2. ConfigSound(c)
    BY <1>3, HandleUDQ
  <2>3. e.ok \in BOOLEAN
    BY <1>3, HandledOk
  <2>4. AfterKeyword(configs[step], base.config, values, done, e)
    BY <1>3, <1>4, <1>6, HandledRun
  <2> HIDE DEF e, done
  <2>c. c = done.config
    OBVIOUS
  <2> HIDE DEF c
  <2>5. /\ BaseTyped' /\ base'.config = e.config /\ base'.values = base.values
        /\ base'.ok = (base.ok /\ e.ok)
    BY <1>4, <2>1, <2>3, Continued
  <2>6. configs'[step'] = c
    <3>1. f[step] = [ok |-> TRUE, config |-> c]
      BY <1>3, <2>2, RebuiltIs
    <3> HIDE DEF f
    <3> QED
      BY <1>2, <1>3, <2>1, <3>1, StepsFacts
  <2>7. /\ DOMAIN values \subseteq Known(c) /\ Applied(c, values)
        /\ ~lost /\ base.ok /\ e.ok => Agree(c, e.config) /\ base.values = values
    BY <1>4, <2>4, <2>c DEF AfterKeyword
  <2> QED
    BY <1>2, <1>4, <2>1, <2>5, <2>6, <2>7 DEF RunInv
<1> QED
  BY <1>5, <1>6

(* The next report step, in both. *)
LEMMA NextStepRunInv == ASSUME ConfigInv, RunInv, NextStep PROVE RunInv'
<1> DEFINE c == configs[step]
           k == step + 1
           n == NewReportStep(c)
           m == NewReportStep(base.config)
           d == handleUDQ(n, deck[k], {}, FALSE)
           e == handleUDQ(m, deck[k], {}, FALSE)
<1>1. /\ ~fault /\ fresh /\ step < N - 1 /\ step' = k /\ fresh' = FALSE
      /\ Continue(Block(base.config, k))
      /\ UNCHANGED <<configs, values, fault, lost>>
  BY DEF NextStep
<1>2. /\ deck \in Decks /\ step \in Steps /\ ConfigSound(c) /\ Built(configs, step)
  BY <1>1 DEF ConfigInv
<1>3. LegalDeck /\ k \in Steps /\ k \in step + 1 .. N - 1 /\ k - 1 = step
  BY <1>1, <1>2, StepsFacts, LegalDecks
<1>4. d.ok /\ configs[k] = d.config
  BY <1>2, <1>3 DEF Built, Block
<1>5. Legal(deck[k])
  BY <1>3 DEF LegalDeck
<1>6. /\ BaseTyped /\ IsFunction(values) /\ DOMAIN values \subseteq Known(c) /\ Applied(c, values) /\ Done(c)
      /\ ~lost /\ base.ok => Agree(c, base.config) /\ base.values = values
  BY <1>1 DEF RunInv
<1>7. ConfigSound(n) /\ Applied(n, values) /\ Known(n) = Known(c)
  BY <1>2, <1>6, NewReportStepSound, NextApplied DEF Done
<1>8. Agree(c, base.config) => Agree(n, m)
  BY NextAgrees
<1>9. e.ok \in BOOLEAN /\ Continue(e)
  BY <1>1, <1>5, HandledOk DEF Block
<1> HIDE DEF n, m, k, c
<1>10. AfterKeyword(n, m, values, d, e)
  <2>1. DOMAIN values \subseteq Known(n)
    BY <1>6, <1>7
  <2> QED
    BY <1>4, <1>5, <1>7, <2>1, HandledRun
<1> HIDE DEF d, e
<1>11. /\ BaseTyped' /\ base'.config = e.config /\ base'.values = base.values
       /\ base'.ok = (base.ok /\ e.ok)
  BY <1>6, <1>9, Continued
<1>12. /\ DOMAIN values \subseteq Known(d.config) /\ Applied(d.config, values)
       /\ ~lost /\ base.ok /\ e.ok => Agree(d.config, e.config) /\ base.values = values
  BY <1>6, <1>8, <1>10 DEF AfterKeyword
<1> QED
  BY <1>1, <1>4, <1>6, <1>11, <1>12 DEF RunInv

(* A restart of the one is the next report step of the other. *)
LEMMA RestartRunInv == ASSUME ConfigInv, RunInv, Restart PROVE RunInv'
<1> DEFINE c == configs[step]
           k == step + 1
           n == restored(c, values)
           m == NewReportStep(base.config)
           d == handleUDQ(n, deck[k], {}, FALSE)
           e == handleUDQ(m, deck[k], {}, FALSE)
           x == d.config
           f == Rebuilt(k, x)
           kept == Range(n.index) \cap DOMAIN values
<1>1. /\ ~fault /\ fresh /\ step < N - 1 /\ step' = k /\ fresh' = FALSE
      /\ Len(input(c)) = Len(c.index)
      /\ configs' = [j \in Steps |-> IF j <= step THEN EmptyConfig ELSE f[j].config]
      /\ fault' = ~(d.ok /\ f[N - 1].ok)
      /\ values' = Restrict(values, kept)
      /\ lost' = (lost \/ \E q \in Known(c) : c.action[q] = "DEFINE" /\ q \in DOMAIN c.asg)
      /\ Continue(Block(base.config, k))
  BY DEF Restart, Restored
<1>2. deck \in Decks /\ step \in Steps /\ ConfigSound(c)
  BY DEF ConfigInv
<1>3. LegalDeck /\ k \in Steps /\ k \in Nat /\ step \in Nat /\ ~(k <= step) /\ N - 1 \in Nat
  BY <1>1, <1>2, StepsFacts, LegalDecks
<1>5. Legal(deck[k])
  BY <1>3 DEF LegalDeck
<1>6. /\ BaseTyped /\ IsFunction(values) /\ DOMAIN values \subseteq Known(c) /\ Applied(c, values) /\ Done(c)
      /\ ~lost /\ base.ok => Agree(c, base.config) /\ base.values = values
  BY <1>1 DEF RunInv
<1>7. e.ok \in BOOLEAN /\ Continue(e)
  BY <1>1, <1>5, HandledOk DEF Block
<1>8. ConfigSound(n) /\ Known(n) = Known(c) /\ n.index = c.index
  BY <1>2, RestoredIs
<1>9. values' = values
  <2>1. Range(n.index) = Known(c)
    BY <1>2, <1>8 DEF ConfigSound
  <2>2. kept = DOMAIN values
    BY <1>6, <2>1
  <2> HIDE DEF kept
  <2> QED
    BY <1>1, <1>6, <2>2 DEF Restrict, IsFunction
<1>4. \A q \in Known(c) : HasObject(c, q)
  BY <1>1, <1>2, AllAnswered
<1>10. Applied(n, values) /\ DOMAIN values \subseteq Known(n)
  <2>1. ASSUME NEW q \in DOMAIN n.asg PROVE ValueOf(values, q) = Replayed(n.asg[q])
    BY <1>2, <1>4, <1>6, RestoredApplied DEF Done
  <2> QED
    BY <1>6, <1>8, <2>1 DEF Applied
<1> HIDE DEF n, m, e, d
<1>11. BaseTyped' /\ base'.config = e.config /\ base'.values = base.values /\ base'.ok = (base.ok /\ e.ok)
  BY <1>6, <1>7, Continued
<1> SUFFICES ASSUME ~fault' PROVE RunInv'
  BY <1>11 DEF RunInv
<1>12. d.ok
  BY <1>1
<1>13. AfterKeyword(n, m, values, d, e)
  BY <1>5, <1>8, <1>10, <1>12, HandledRun DEF d, e
<1>14. ConfigSound(x)
  BY <1>5, <1>8, HandleUDQ DEF d
<1>15. configs'[step'] = x
  <2>1. f[k] = [ok |-> TRUE, config |-> x]
    BY <1>3, <1>14, RebuiltIs
  <2> HIDE DEF f, x
  <2> QED
    BY <1>1, <1>3, <2>1
<1>16. ASSUME ~lost', base.ok, e.ok PROVE Agree(x, e.config) /\ base.values = values
  <2>1. ~lost /\ \A q \in Known(c) : c.action[q] = "DEFINE" => q \notin DOMAIN c.asg
    BY <1>1, <1>16
  <2>2. Agree(c, base.config)
    BY <1>6, <1>16, <2>1
  <2>3. Agree(n, m)
    BY <1>1, <1>6, <2>1, <2>2, RestoredAgrees DEF n, m
  <2> QED
    BY <1>6, <1>13, <1>16, <2>1, <2>3 DEF AfterKeyword
<1>17. DOMAIN values \subseteq Known(x) /\ Applied(x, values)
  BY <1>13 DEF AfterKeyword
<1> HIDE DEF x, k
<1> QED
  BY <1>1, <1>6, <1>9, <1>11, <1>15, <1>16, <1>17 DEF RunInv

(* Targets and the restart file change neither run. *)
LEMMA UnmovedRunInv ==
  ASSUME RunInv, UNCHANGED <<configs, step, fresh, values, base, lost>>, fault => fault'
  PROVE  RunInv'
<1>1. BaseTyped'
  BY DEF RunInv, BaseTyped
<1> QED
  BY <1>1 DEF RunInv

(* The run that was restarted and the uninterrupted one go on alike. *)
THEOREM RunInvariant == Spec => []RunInv
<1>1. ASSUME ConfigInv, RunInv, [Next]_vars PROVE RunInv'
  <2>1. CASE Evaluate
    BY <1>1, <2>1, EvaluateRunInv
  <2>2. CASE ApplyAction
    BY <1>1, <2>2, ApplyActionRunInv
  <2>3. CASE NextStep
    BY <1>1, <2>3, NextStepRunInv
  <2>4. CASE SetTarget
    <3>1. ~fault /\ UNCHANGED <<configs, step, fresh, values, base, lost>>
      BY <2>4 DEF SetTarget, ghostVars
    <3> QED
      BY <1>1, <3>1, UnmovedRunInv
  <2>5. CASE Write
    <3>1. ~fault /\ UNCHANGED <<configs, step, fresh, values, base, lost>>
      BY <2>5 DEF Write, ghostVars
    <3> QED
      BY <1>1, <3>1, UnmovedRunInv
  <2>6. CASE Restart
    BY <1>1, <2>6, RestartRunInv
  <2>7. CASE UNCHANGED vars
    <3>1. UNCHANGED <<configs, step, fresh, values, base, lost, fault>>
      BY <2>7 DEF vars
    <3> QED
      BY <1>1, <3>1, UnmovedRunInv
  <2> QED
    BY <1>1, <2>1, <2>2, <2>3, <2>4, <2>5, <2>6, <2>7 DEF Next
<1> QED
  BY <1>1, InitRunInv, ConfigInvariant, PTL DEF Spec

(* A restarted run has the values of the run that was never interrupted,   *)
(* however many evaluations, actions and restarts there were, unless that  *)
(* one has an error or ASSIGNs of a DEFINEd quantity were dropped.         *)
THEOREM RestartTransparentHolds == Spec => []RestartTransparent
<1>1. RunInv => RestartTransparent
  BY DEF RunInv, RestartTransparent
<1> QED
  BY <1>1, RunInvariant, PTL
=============================================================================

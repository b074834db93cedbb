---------------------------- MODULE TypesProofs ----------------------------
(***************************************************************************)
(* For every set of units over any names of types, with any bounds: type   *)
(* checking stays within its types, and TypeConcretifier asks only for the *)
(* variables that ExprTypographer has put into the graph.                  *)
(***************************************************************************)
EXTENDS Types, StackFacts

Typedefs == {i \in DOMAIN unit : unit[i].kind = "Typedef"}

(* The ids that a type expression can have, and those that have a type.      *)
KnownIds == {PrimitiveId[n] : n \in Primitives} \cup {ItemId(i) : i \in Typedefs}
TypeIds == KnownIds \cap DOMAIN types

(* An item that ItemTypeIdentifier has visited and found no fault with.      *)
Identified(i) ==
    /\ type_ids[i] # <<>>
    /\ unit[i].kind = "Fn" => /\ Len(type_ids[i]) = Len(unit[i].params) + 1
                              /\ ItemId(i) \in DOMAIN types

(* What ItemTypeIdentifier establishes, and no later stage starts without.   *)
ScopeInv ==
    /\ unit \in Seq(Item)
    /\ DOMAIN budget = {"forms", "nodes"}
    /\ Primitives \subseteq DOMAIN names
    /\ \A n \in DOMAIN names : names[n] \in KnownIds
    /\ type_ids \in [DOMAIN unit -> Seq(TypeIds)]
    /\ errors = {} => \A i \in DOMAIN unit : stage # "identify" \/ i < item => Identified(i)
    /\ stage \in {"items", "expressions"} => errors = {}

(* The items that have a variable: the aliases that ItemTypographer has      *)
(* visited, and the functions that ExprTypographer has.                      *)
HasVar(i) ==
    \/ stage \in {"expressions", "concretify"} /\ unit[i].kind = "Typedef"
    \/ stage = "items" /\ unit[i].kind = "Typedef" /\ i < item
    \/ stage = "expressions" /\ i < item
    \/ stage = "concretify"

(* The functions, whose types ItemTypographer adds. *)
HasType(i) ==
    /\ unit[i].kind = "Fn"
    /\ stage = "expressions" \/ (stage = "items" /\ i < item)

ItemVarsInv ==
    /\ {PrimitiveId[n] : n \in Primitives} \subseteq concrete
    /\ \A i \in DOMAIN unit : HasVar(i) => ItemId(i) \in variables
    /\ \A i \in DOMAIN unit : HasType(i) => ItemId(i) \in concrete

(* How many children a node has, where that is fixed. *)
Arity == [node \in {"fn", "block", "let", "return", "stmt", "unary", "if_expr",
                    "equality", "comparison", "arithmetic"} |->
             CASE node \in {"fn", "block", "let", "return", "stmt", "unary"} -> 1
               [] node \in {"equality", "comparison", "arithmetic"} -> 2
               [] node = "if_expr" -> 3]

(* The visit f still awaits a child.                                         *)
Open(f) == Len(f.children) < f.arity

(* The visit f fits the variables V and the ids K of types.                  *)
Fits(f, V, K) ==
    /\ Len(f.children) <= f.arity
    /\ f.node \in DOMAIN Arity => f.arity = Arity[f.node]
    /\ f.declared \subseteq V
    /\ f.node = "if" => f.id \in V
    /\ f.node = "let" => f.id \in K \cup {None}

VisitOf(N) ==
    [node : {"fn", "block", "if", "let", "return", "stmt", "if_expr", "unary",
             "equality", "comparison", "arithmetic", "call"},
     id : Seq(Nat), arity : Nat, children : Seq(N), source : BOOLEAN,
     phase : {"start", "stmts", "last"}, declared : SUBSET Seq(Nat)]

(* The stack of the visits of one function: each but the last one awaits the *)
(* one above it as a child.                                                  *)
Stacked(vs, N, V, K) ==
    /\ vs \in Seq(VisitOf(N))
    /\ vs # <<>>
    /\ \A i \in 1..Len(vs) : Fits(vs[i], V, K) /\ (vs[i].node = "fn" <=> i = 1)
    /\ \A i \in 1..(Len(vs) - 1) : Open(vs[i])

(* The ids of the blocks of vs that have a value: they were asked for when   *)
(* their visits began, and get a node when these end.                        *)
Valued(f) == IF f.node = "block" /\ f.source THEN {f.id} ELSE {}
Pending(vs) == UNION {Valued(vs[i]) : i \in 1..Len(vs)}

VisitsInv ==
    stage = "expressions" /\ visits # <<>> =>
        /\ item \in DOMAIN unit /\ unit[item].kind = "Fn"
        /\ fn_ret_type \in Nodes
        /\ ItemId(item) \in variables
        /\ \A p \in Params : ParamId(item, p) \in variables
        /\ Stacked(visits, Nodes, variables, KnownIds)

(* The ids of the items that ExprTypographer has not done with.              *)
Later == {ItemId(i) : i \in {j \in DOMAIN unit : j >= item}}

AskedInv ==
    /\ stage \in {"identify", "items"} => asked = <<>>
    /\ stage = "expressions" => ToSet(asked) \subseteq variables \cup Later \cup Pending(visits)
    /\ stage = "concretify" => ToSet(asked) \subseteq variables

(* What Names leaves over has been asked for already: only a block that has  *)
(* a source leaves its id.                                                   *)
LeftInv ==
    /\ stage \in {"identify", "items"} => lvalues = <<>>
    /\ stage = "expressions" =>
          /\ ToSet(lvalues) \subseteq variables \cup Pending(visits)
          /\ ToSet(lvalues) \cup Pending(visits) \subseteq ToSet(asked)

(* A step that leaves at most ids of blocks that are visited.                *)
Lefts ==
    /\ lvalues' \in Seq(Seq(Nat))
    /\ ToSet(lvalues') \subseteq ToSet(lvalues) \cup Pending(visits)

IInv == TypeOK /\ ScopeInv /\ ItemVarsInv /\ VisitsInv /\ AskedInv /\ LeftInv

-----------------------------------------------------------------------------
(* Stacks of visits. *)

LEMMA StackTop ==
    ASSUME NEW N, NEW V, NEW K, NEW vs, Stacked(vs, N, V, K)
    PROVE  /\ Len(vs) \in Nat \ {0}
           /\ vs[Len(vs)] \in VisitOf(N)
           /\ Fits(vs[Len(vs)], V, K)
           /\ vs[Len(vs)].node = "fn" <=> Len(vs) = 1
<1>1. vs \in Seq(VisitOf(N)) /\ vs # <<>>
  BY DEF Stacked
<1>2. Len(vs) \in Nat \ {0} /\ vs[Len(vs)] \in VisitOf(N)
  BY <1>1, FrontItems
<1>3. Len(vs) \in 1..Len(vs)
  BY <1>2
<1> QED
  BY <1>2, <1>3 DEF Stacked

LEMMA PendingItems ==
    ASSUME NEW vs, NEW x
    PROVE  x \in Pending(vs) <=> \E i \in 1..Len(vs) : x \in Valued(vs[i])
BY DEF Pending

LEMMA PushStack ==
    ASSUME NEW N, NEW V, NEW K, NEW vs, Stacked(vs, N, V, K), Open(vs[Len(vs)]),
           NEW f \in VisitOf(N), Fits(f, V, K), f.node # "fn"
    PROVE  /\ Stacked(Append(vs, f), N, V, K)
           /\ Pending(Append(vs, f)) = Pending(vs) \cup Valued(f)
<1> DEFINE n == Len(vs)
           a == Append(vs, f)
<1>1. /\ vs \in Seq(VisitOf(N)) /\ n \in Nat \ {0}
      /\ \A i \in 1..n : Fits(vs[i], V, K) /\ (vs[i].node = "fn" <=> i = 1)
      /\ \A i \in 1..(n - 1) : Open(vs[i])
  BY StackTop DEF Stacked
<1>2. /\ a \in Seq(VisitOf(N)) /\ a # <<>>
      /\ Len(a) = n + 1
      /\ \A i \in 1..n : a[i] = vs[i]
      /\ a[n + 1] = f
  BY <1>1, AppendItem
<1>3. Open(vs[n])
  OBVIOUS
<1> HIDE DEF n, a
<1>4. \A i \in 1..(n + 1) : Fits(a[i], V, K) /\ (a[i].node = "fn" <=> i = 1)
  BY <1>1, <1>2
<1>5. \A i \in 1..((n + 1) - 1) : Open(a[i])
  BY <1>1, <1>2, <1>3
<1>6. Stacked(a, N, V, K)
  BY <1>2, <1>4, <1>5 DEF Stacked
<1>7. ASSUME NEW x
      PROVE  x \in Pending(a) <=> x \in Pending(vs) \/ x \in Valued(f)
  <2>1. x \in Pending(a) <=> \E i \in 1..(n + 1) : x \in Valued(a[i])
    BY <1>2, PendingItems
  <2>2. x \in Pending(vs) <=> \E i \in 1..n : x \in Valued(vs[i])
    BY PendingItems DEF n
  <2>3. (\E i \in 1..(n + 1) : x \in Valued(a[i]))
            <=> (\E i \in 1..n : x \in Valued(vs[i])) \/ x \in Valued(f)
    <3>1. n + 1 \in 1..(n + 1) /\ \A i \in 1..(n + 1) : i \in 1..n \/ i = n + 1
      BY <1>1
    <3>2. \A i \in 1..n : i \in 1..(n + 1)
      BY <1>1
    <3> QED
      BY <1>2, <3>1, <3>2
  <2> QED
    BY <2>1, <2>2, <2>3
<1>8. Pending(a) = Pending(vs) \cup Valued(f)
  BY <1>7
<1> QED
  BY <1>6, <1>8 DEF a

LEMMA PopStack ==
    ASSUME NEW N, NEW V, NEW K, NEW vs, Stacked(vs, N, V, K), vs[Len(vs)].node # "fn"
    PROVE  /\ Stacked(Front(vs), N, V, K)
           /\ Len(Front(vs)) = Len(vs) - 1
           /\ Open(Front(vs)[Len(Front(vs))])
           /\ Pending(vs) = Pending(Front(vs)) \cup Valued(vs[Len(vs)])
<1> DEFINE n == Len(vs)
           b == Front(vs)
<1>1. /\ vs \in Seq(VisitOf(N)) /\ vs # <<>> /\ n \in Nat \ {0} /\ n # 1
      /\ \A i \in 1..n : Fits(vs[i], V, K) /\ (vs[i].node = "fn" <=> i = 1)
      /\ \A i \in 1..(n - 1) : Open(vs[i])
  BY StackTop DEF Stacked
<1>2. /\ b \in Seq(VisitOf(N))
      /\ Len(b) = n - 1
      /\ \A i \in 1..(n - 1) : b[i] = vs[i]
      /\ b = <<>> <=> n = 1
  BY <1>1, FrontItems
<1> HIDE DEF n, b
<1>3. b # <<>>
  BY <1>1, <1>2
<1>4. \A i \in 1..(n - 1) : Fits(b[i], V, K) /\ (b[i].node = "fn" <=> i = 1)
  BY <1>1, <1>2
<1>5. \A i \in 1..((n - 1) - 1) : Open(b[i])
  BY <1>1, <1>2
<1>6. Stacked(b, N, V, K)
  BY <1>2, <1>3, <1>4, <1>5 DEF Stacked
<1>7. Open(b[n - 1])
  BY <1>1, <1>2
<1>8. ASSUME NEW x
      PROVE  x \in Pending(vs) <=> x \in Pending(b) \/ x \in Valued(vs[n])
  <2>1. x \in Pending(b) <=> \E i \in 1..(n - 1) : x \in Valued(b[i])
    BY <1>2, PendingItems
  <2>2. x \in Pending(vs) <=> \E i \in 1..n : x \in Valued(vs[i])
    BY PendingItems DEF n
  <2>3. n \in 1..n /\ \A i \in 1..n : i \in 1..(n - 1) \/ i = n
    BY <1>1
  <2>4. \A i \in 1..(n - 1) : i \in 1..n
    BY <1>1
  <2> QED
    BY <1>2, <2>1, <2>2, <2>3, <2>4
<1>9. Pending(vs) = Pending(b) \cup Valued(vs[n])
  BY <1>8
<1>10. Open(b[Len(b)])
  BY <1>2, <1>7
<1> QED
  BY <1>2, <1>6, <1>9, <1>10 DEF b, n

(* The visit on top becomes f, which is one of the same node. *)
LEMMA SetTop ==
    ASSUME NEW N, NEW V, NEW K, NEW vs, Stacked(vs, N, V, K),
           NEW f \in VisitOf(N), Fits(f, V, K), f.node = vs[Len(vs)].node,
           Valued(f) = Valued(vs[Len(vs)])
    PROVE  /\ Stacked([vs EXCEPT ![Len(vs)] = f], N, V, K)
           /\ Len([vs EXCEPT ![Len(vs)] = f]) = Len(vs)
           /\ [vs EXCEPT ![Len(vs)] = f][Len(vs)] = f
           /\ Pending([vs EXCEPT ![Len(vs)] = f]) = Pending(vs)
<1> DEFINE n == Len(vs)
           r == [vs EXCEPT ![n] = f]
<1>1. /\ vs \in Seq(VisitOf(N)) /\ vs # <<>> /\ n \in Nat \ {0}
      /\ \A i \in 1..n : Fits(vs[i], V, K) /\ (vs[i].node = "fn" <=> i = 1)
      /\ \A i \in 1..(n - 1) : Open(vs[i])
  BY StackTop DEF Stacked
<1>2. n \in 1..n
  BY <1>1
<1>3. /\ r \in Seq(VisitOf(N))
      /\ Len(r) = n
      /\ \A i \in 1..n : r[i] = IF i = n THEN f ELSE vs[i]
  BY <1>1, <1>2, ExceptSeq
<1>4. r # <<>>
  BY <1>1, <1>3, EmptySeq
<1>5. f.node = vs[n].node /\ Valued(f) = Valued(vs[n])
  OBVIOUS
<1> HIDE DEF n, r
<1>6. \A i \in 1..n : Fits(r[i], V, K) /\ (r[i].node = "fn" <=> i = 1)
  BY <1>1, <1>3, <1>5
<1>7. \A i \in 1..(n - 1) : Open(r[i])
  BY <1>1, <1>3
<1>8. Stacked(r, N, V, K)
  BY <1>3, <1>4, <1>6, <1>7 DEF Stacked
<1>9. \A i \in 1..n : Valued(r[i]) = Valued(vs[i])
  BY <1>3, <1>5
<1>10. ASSUME NEW x
       PROVE  x \in Pending(r) <=> x \in Pending(vs)
  <2>1. x \in Pending(r) <=> \E i \in 1..n : x \in Valued(r[i])
    BY <1>3, PendingItems
  <2>2. x \in Pending(vs) <=> \E i \in 1..n : x \in Valued(vs[i])
    BY PendingItems DEF n
  <2> QED
    BY <1>9, <2>1, <2>2
<1>11. Pending(r) = Pending(vs)
  BY <1>10
<1>12. r[n] = f
  BY <1>2, <1>3
<1> QED
  BY <1>3, <1>8, <1>11, <1>12 DEF r, n

(* The type t is left for the visit on top, which awaits it. *)
LEMMA LeaveStack ==
    ASSUME NEW N, NEW V, NEW K, NEW vs, Stacked(vs, N, V, K), Open(vs[Len(vs)]), NEW t \in N
    PROVE  /\ Stacked(Leave(vs, t), N, V, K)
           /\ Pending(Leave(vs, t)) = Pending(vs)
<1> DEFINE f == vs[Len(vs)]
           g == [f EXCEPT !.children = Append(@, t)]
<1>1. f \in VisitOf(N) /\ Fits(f, V, K) /\ Open(f)
  BY StackTop
<1>2. vs[Len(vs)] = f
  OBVIOUS
<1> HIDE DEF f
<1>3. /\ Append(f.children, t) \in Seq(N)
      /\ Len(Append(f.children, t)) = Len(f.children) + 1
      /\ Len(f.children) \in Nat /\ f.arity \in Nat
  <2>1. f.children \in Seq(N) /\ f.arity \in Nat
    BY <1>1 DEF VisitOf
  <2> QED
    BY <2>1, AppendItem, LenProperties
<1>4. g \in VisitOf(N) /\ g.children = Append(f.children, t) /\ g.arity = f.arity
      /\ g.node = f.node /\ g.declared = f.declared /\ g.id = f.id /\ g.source = f.source
  BY <1>1, <1>3 DEF VisitOf
<1>5. Fits(g, V, K) /\ Valued(g) = Valued(f)
  <2>1. Len(g.children) <= g.arity
    BY <1>1, <1>3, <1>4 DEF Open
  <2> QED
    BY <1>1, <1>4, <2>1 DEF Fits, Valued
<1>6. Leave(vs, t) = vs \/ Leave(vs, t) = [vs EXCEPT ![Len(vs)] = g]
  BY <1>2 DEF Leave, g
<1> HIDE DEF g
<1>7. /\ Stacked([vs EXCEPT ![Len(vs)] = g], N, V, K)
      /\ Pending([vs EXCEPT ![Len(vs)] = g]) = Pending(vs)
  BY <1>2, <1>4, <1>5, SetTop
<1> QED
  BY <1>6, <1>7

LEMMA StackGrows ==
    ASSUME NEW N, NEW V, NEW K, NEW N2, NEW V2, N \subseteq N2, V \subseteq V2,
           NEW vs, Stacked(vs, N, V, K)
    PROVE  Stacked(vs, N2, V2, K)
<1>1. \A s \in Seq(N) : s \in Seq(N2)
  BY SeqMonotonic
<1>2. VisitOf(N) \subseteq VisitOf(N2)
  BY <1>1 DEF VisitOf
<1>3. vs \in Seq(VisitOf(N2))
  BY <1>2, SeqMonotonic DEF Stacked
<1>4. \A f : Fits(f, V, K) => Fits(f, V2, K)
  BY DEF Fits
<1> QED
  BY <1>3, <1>4 DEF Stacked

-----------------------------------------------------------------------------
(* The graph, which only grows. *)

LEMMA UnitItems ==
    ASSUME unit \in Seq(Item)
    PROVE  /\ Len(unit) \in Nat
           /\ DOMAIN unit = 1..Len(unit)
           /\ \A i \in DOMAIN unit :
                 /\ i \in Nat
                 /\ unit[i].kind \in {"Fn", "Typedef"}
                 /\ unit[i].kind = "Fn" => /\ unit[i].params \in Seq(TypeNames)
                                           /\ unit[i].ret \in TypeNames
                 /\ unit[i].kind = "Typedef" => /\ unit[i].name \in TextNames
                                                /\ unit[i].type \in TextNames
           /\ TextNames \subseteq TypeNames
<1>1. Len(unit) \in Nat /\ DOMAIN unit = 1..Len(unit)
  BY LenProperties
<1>2. \A i \in DOMAIN unit : unit[i] \in Item
  BY <1>1, ElementOfSeq
<1>3. TextNames \subseteq TypeNames
  BY DEF TextNames
<1>4. \A s \in Seq(TextNames) : s \in Seq(TypeNames)
  BY <1>3, SeqMonotonic
<1> QED
  BY <1>1, <1>2, <1>3, <1>4 DEF Item

LEMMA IdTypes ==
    /\ None \in Seq(Nat)
    /\ \A n \in Primitives : PrimitiveId[n] \in Seq(Nat)
    /\ \A i \in Nat : ItemId(i) \in Seq(Nat)
    /\ \A i, p \in Nat : ParamId(i, p) \in Seq(Nat)
<1>1. None \in Seq(Nat)
  BY EmptySeq DEF None
<1>2. <<1>> \in Seq(Nat) /\ <<2>> \in Seq(Nat) /\ <<3>> \in Seq(Nat)
  OBVIOUS
<1>3. ASSUME NEW n \in Primitives
      PROVE  PrimitiveId[n] \in Seq(Nat)
  BY <1>2 DEF PrimitiveId, Primitives
<1>4. ASSUME NEW i \in Nat
      PROVE  ItemId(i) \in Seq(Nat)
  BY DEF ItemId
<1>5. ASSUME NEW i \in Nat, NEW p \in Nat
      PROVE  ParamId(i, p) \in Seq(Nat)
  BY DEF ParamId
<1> QED
  BY <1>1, <1>3, <1>4, <1>5

LEMMA KnownTypes ==
    ASSUME unit \in Seq(Item)
    PROVE  \A id \in KnownIds : id \in Seq(Nat)
BY UnitItems, IdTypes DEF KnownIds, Typedefs

LEMMA GraphGrows ==
    ASSUME concrete \subseteq concrete', variables \subseteq variables',
           temps \in Nat, temps' \in Nat, temps <= temps'
    PROVE  /\ Nodes \subseteq Nodes'
           /\ \A n \in 1..temps' : Temp(n) \in Nodes'
           /\ \A id \in variables' : Var(id) \in Nodes'
           /\ \A id \in concrete' : Type(id) \in Nodes'
<1>1. \A n \in 1..temps : n \in 1..temps'
  OBVIOUS
<1> QED
  BY <1>1 DEF Nodes, Type, Var, Temp

LEMMA GetTypeNodes ==
    ASSUME NEW id, id \in concrete \cup variables
    PROVE  GetType(id) \in Nodes
BY DEF GetType, Nodes

LEMMA GetTypeHas ==
    ASSUME NEW id, id \notin concrete \cup variables
    PROVE  GetType(id) = NoNode
BY DEF GetType

(* add_type gives each id a node. *)
LEMMA AddedHasNode ==
    ASSUME NEW S, NEW id \in S,
           \/ concrete' = concrete \cup Missing(S)
           \/ concrete' = concrete \cup {ItemId(item)} \cup Missing(S),
           variables \subseteq variables', temps' = temps, temps \in Nat
    PROVE  AddedType(id) \in Nodes'
<1>1. Nodes \subseteq Nodes' /\ \A i \in concrete' : Type(i) \in Nodes'
  BY GraphGrows
<1>2. CASE GetType(id) = NoNode
  BY <1>1, <1>2 DEF Missing, AddedType
<1>3. CASE GetType(id) # NoNode
  BY <1>1, <1>3, GetTypeHas, GetTypeNodes DEF AddedType
<1> QED
  BY <1>2, <1>3

-----------------------------------------------------------------------------
(* ItemTypeIdentifier and ItemTypographer. *)

LEMMA PutProperties ==
    ASSUME NEW f, NEW a, NEW b
    PROVE  /\ DOMAIN Put(f, a, b) = DOMAIN f \cup {a}
           /\ Put(f, a, b)[a] = b
           /\ \A x \in DOMAIN f \ {a} : Put(f, a, b)[x] = f[x]
BY DEF Put

LEMMA InitInv == Init => IInv
<1> SUFFICES ASSUME Init PROVE IInv
  OBVIOUS
<1>0. DOMAIN PrimitiveId = Primitives
  BY DEF PrimitiveId
<1> USE DEF Init
<1>1. PICK u \in Units : unit = u.items /\ budget = [forms |-> u.forms, nodes |-> u.nodes]
  OBVIOUS
<1>2. unit \in Seq(Item) /\ budget.forms = u.forms /\ budget.nodes \in Nat
  BY <1>1, UnitsAssumption
<1>3. [items |-> unit, forms |-> budget.forms] \in
          {[items |-> w.items, forms |-> w.forms] : w \in Units}
  BY <1>1, <1>2
<1>4. /\ DOMAIN names = Primitives
      /\ DOMAIN types = {PrimitiveId[n] : n \in Primitives}
      /\ \A n \in DOMAIN names : names[n] \in DOMAIN types
  BY <1>0
<1>5. DOMAIN results = {}
  BY EmptySeq
<1>6. visits \in Seq(Visit) /\ asked \in Seq(Seq(Nat))
  BY EmptySeq
<1>7. TypeOK
  BY <1>2, <1>3, <1>4, <1>5, <1>6 DEF TypeOK
<1>8. type_ids \in [DOMAIN unit -> Seq(TypeIds)]
  <2>1. <<>> \in Seq(TypeIds)
    BY EmptySeq
  <2> QED
    BY <2>1
<1>9. \A i \in DOMAIN unit : ~(i < item)
  BY <1>2, UnitItems
<1>10. DOMAIN budget = {"forms", "nodes"}
  BY <1>1
<1>11. ScopeInv
  BY <1>2, <1>4, <1>8, <1>9, <1>10 DEF ScopeInv, KnownIds
<1>12. ItemVarsInv /\ VisitsInv /\ AskedInv /\ LeftInv
  BY DEF ItemVarsInv, HasVar, HasType, VisitsInv, AskedInv, LeftInv
<1> QED
  BY <1>7, <1>11, <1>12 DEF IInv

LEMMA TypeExprsTypes ==
    ASSUME IInv, item \in DOMAIN unit
    PROVE  /\ TypeExprs \in Seq(TypeNames) /\ TypeExprs # <<>>
           /\ unit[item].kind = "Fn" => Len(TypeExprs) = Len(unit[item].params) + 1
<1>1. unit \in Seq(Item)
  BY DEF IInv, ScopeInv
<1>2. CASE unit[item].kind = "Fn"
  BY <1>1, <1>2, UnitItems, AppendItem DEF TypeExprs
<1>3. CASE unit[item].kind = "Typedef"
  <2>1. unit[item].type \in TypeNames
    BY <1>1, <1>3, UnitItems
  <2>2. TypeExprs = <<unit[item].type>>
    BY <1>3 DEF TypeExprs
  <2> QED
    BY <1>3, <2>1, <2>2
<1> QED
  BY <1>1, <1>2, <1>3, UnitItems

(* The steps of ItemTypeIdentifier that find the types of an item.           *)
LEMMA IdentifyStep ==
    ASSUME IInv, stage = "identify", item \in DOMAIN unit, TypesKnown, IdentifyTypes,
           DOMAIN types' = DOMAIN types \cup {ItemId(item)},
           Primitives \subseteq DOMAIN names',
           DOMAIN names' \subseteq TypeNames \cup Primitives,
           \A n \in DOMAIN names' : names'[n] \in TypeIds',
           errors' \in {errors, errors \cup {"Circular"}},
           item' = item + 1,
           UNCHANGED <<unit, stage, graph, visits, fn_ret_type, asked, results, ids, lvalues,
                       budget>>
    PROVE  IInv'
<1> DEFINE found == [e \in DOMAIN TypeExprs |-> names[TypeExprs[e]]]
<1>1. TypeOK /\ ScopeInv /\ ItemVarsInv /\ AskedInv /\ asked = <<>>
  BY DEF IInv, AskedInv
<1>2. unit \in Seq(Item) /\ item \in Nat
  BY <1>1 DEF ScopeInv, TypeOK
<1>3. KnownIds' = KnownIds /\ TypeIds \subseteq TypeIds'
  BY DEF KnownIds, Typedefs, TypeIds
<1>4. /\ TypeExprs \in Seq(TypeNames) /\ TypeExprs # <<>>
      /\ Len(TypeExprs) \in Nat \ {0} /\ DOMAIN TypeExprs = 1..Len(TypeExprs)
  BY TypeExprsTypes, LenProperties, EmptySeq
<1>5. \A e \in DOMAIN TypeExprs : names[TypeExprs[e]] \in TypeIds'
  <2>1. \A n \in DOMAIN names : names[n] \in TypeIds
    BY <1>1 DEF TypeOK, ScopeInv, TypeIds
  <2> QED
    BY <1>3, <2>1 DEF TypesKnown
<1>6. /\ found \in Seq(TypeIds')
      /\ found # <<>>
      /\ Len(found) = Len(TypeExprs)
  <2>1. found \in [1..Len(TypeExprs) -> TypeIds']
    BY <1>4, <1>5
  <2>2. found \in Seq(TypeIds')
    BY <1>4, <2>1, SeqDef
  <2>3. Len(found) = Len(TypeExprs)
    BY <1>4, <2>1, <2>2, LenProperties
  <2> QED
    BY <1>4, <2>2, <2>3, EmptySeq
<1> HIDE DEF found
<1>7. type_ids' = [type_ids EXCEPT ![item] = found] /\ type_ids \in [DOMAIN unit -> Seq(TypeIds)]
  BY <1>1 DEF IdentifyTypes, found, ScopeInv
<1>8. \A s \in Seq(TypeIds) : s \in Seq(TypeIds')
  BY <1>3, SeqMonotonic
<1>9. type_ids' \in [DOMAIN unit -> Seq(TypeIds')]
  BY <1>6, <1>7, <1>8
<1>10. ASSUME errors' = {}, NEW i \in DOMAIN unit, i < item + 1
       PROVE  Identified(i)'
  <2>1. CASE i = item
    <3>1. type_ids'[i] = found
      BY <1>7, <2>1
    <3> QED
      BY <1>6, <2>1, <3>1, TypeExprsTypes DEF Identified
  <2>2. CASE i # item
    <3>1. i < item
      BY <1>2, <1>10, <2>2, UnitItems
    <3>2. errors = {}
      BY <1>10
    <3>3. Identified(i)
      BY <1>1, <3>1, <3>2 DEF ScopeInv
    <3>4. type_ids'[i] = type_ids[i]
      BY <1>7, <2>2
    <3> QED
      BY <3>3, <3>4 DEF Identified
  <2> QED
    BY <2>1, <2>2
<1>11. ScopeInv'
  BY <1>1, <1>3, <1>9, <1>10 DEF ScopeInv, TypeIds
<1>12. Nodes' = Nodes /\ Visit' = Visit
  BY DEF graph, Nodes, Visit
<1>13. TypeOK'
  <2>1. concrete \subseteq DOMAIN types'
    BY <1>1 DEF TypeOK
  <2>2. errors' \subseteq {"UnknownType", "Circular", "NoInfo", "Conflict"}
    BY <1>1 DEF TypeOK
  <2>3. \A n \in DOMAIN names' : names'[n] \in DOMAIN types'
    BY DEF TypeIds
  <2> QED
    BY <1>1, <1>12, <2>1, <2>2, <2>3 DEF TypeOK, graph
<1>14. ItemVarsInv' /\ VisitsInv' /\ AskedInv' /\ LeftInv'
  BY <1>1 DEF IInv, ItemVarsInv, HasVar, HasType, VisitsInv, AskedInv, LeftInv, graph
<1> QED
  BY <1>11, <1>13, <1>14 DEF IInv

LEMMA IdentifyFnInv ==
    ASSUME IInv, IdentifyFn
    PROVE  IInv'
<1>1. TypeOK /\ ScopeInv
  BY DEF IInv
<1>2. DOMAIN types' = DOMAIN types \cup {ItemId(item)}
  BY PutProperties DEF IdentifyFn
<1>3. KnownIds' = KnownIds /\ names' = names
  BY DEF IdentifyFn, KnownIds, Typedefs
<1>4. \A n \in DOMAIN names' : names'[n] \in TypeIds'
  BY <1>1, <1>2, <1>3 DEF TypeOK, ScopeInv, TypeIds
<1>5. DOMAIN names' \subseteq TypeNames \cup Primitives /\ Primitives \subseteq DOMAIN names'
  BY <1>1, <1>3 DEF TypeOK, ScopeInv
<1> QED
  BY <1>2, <1>4, <1>5, IdentifyStep DEF IdentifyFn, AtItem

LEMMA IdentifyTypedefInv ==
    ASSUME IInv, IdentifyTypedef
    PROVE  IInv'
<1> DEFINE id == ItemId(item)
           name == unit[item].name
<1>1. TypeOK /\ ScopeInv /\ item \in DOMAIN unit /\ unit[item].kind = "Typedef"
  BY DEF IInv, IdentifyTypedef, AtItem
<1>2. DOMAIN types' = DOMAIN types \cup {id}
  BY PutProperties DEF IdentifyTypedef
<1>3. KnownIds' = KnownIds /\ id \in KnownIds
  BY <1>1 DEF IdentifyTypedef, KnownIds, Typedefs
<1>4. names' = Put(names, name, id)
  BY DEF IdentifyTypedef
<1>5. /\ DOMAIN names' = DOMAIN names \cup {name}
      /\ names'[name] = id
      /\ \A n \in DOMAIN names \ {name} : names'[n] = names[n]
  <2> HIDE DEF id, name
  <2>1. /\ DOMAIN Put(names, name, id) = DOMAIN names \cup {name}
        /\ Put(names, name, id)[name] = id
        /\ \A n \in DOMAIN names \ {name} : Put(names, name, id)[n] = names[n]
    BY DEF Put
  <2> QED
    BY <1>4, <2>1
<1>6. \A n \in DOMAIN names' : names'[n] \in TypeIds'
  BY <1>1, <1>2, <1>3, <1>5 DEF TypeOK, ScopeInv, TypeIds
<1>7. name \in TypeNames
  BY <1>1, UnitItems DEF ScopeInv
<1>8. DOMAIN names' \subseteq TypeNames \cup Primitives /\ Primitives \subseteq DOMAIN names'
  BY <1>1, <1>5, <1>7 DEF TypeOK, ScopeInv
<1>9. errors' \in {errors, errors \cup {"Circular"}}
  BY DEF IdentifyTypedef
<1> QED
  BY <1>2, <1>6, <1>8, <1>9, IdentifyStep DEF IdentifyTypedef, AtItem

LEMMA IdentifyUnknownInv ==
    ASSUME IInv, IdentifyUnknown
    PROVE  IInv'
<1>0. /\ stage = "identify" /\ item' = item + 1
      /\ errors' = errors \cup {"UnknownType"}
      /\ UNCHANGED <<unit, stage, type_ids, names, types, concrete, variables, temps, edges,
                     visits, fn_ret_type, asked, results, ids, lvalues, budget>>
  BY DEF IdentifyUnknown, scope, graph
<1>1. TypeOK /\ ScopeInv /\ ItemVarsInv /\ AskedInv /\ LeftInv
  BY DEF IInv
<1>2. Nodes' = Nodes /\ Visit' = Visit /\ KnownIds' = KnownIds /\ TypeIds' = TypeIds
  BY <1>0 DEF Nodes, Visit, KnownIds, Typedefs, TypeIds
<1>3. TypeOK'
  <2>1. errors' \subseteq {"UnknownType", "Circular", "NoInfo", "Conflict"}
    BY <1>0, <1>1 DEF TypeOK
  <2> QED
    BY <1>0, <1>1, <1>2, <2>1 DEF TypeOK
<1>4. ScopeInv'
  BY <1>0, <1>1, <1>2 DEF ScopeInv
<1>5. ItemVarsInv' /\ VisitsInv' /\ AskedInv' /\ LeftInv'
  BY <1>0, <1>1 DEF ItemVarsInv, HasVar, HasType, VisitsInv, AskedInv, LeftInv
<1> QED
  BY <1>3, <1>4, <1>5 DEF IInv

LEMMA NextStageInv ==
    ASSUME IInv, NextStage
    PROVE  IInv'
<1>0. /\ stage \in {"identify", "items", "expressions"} /\ visits = <<>>
      /\ item = Len(unit) + 1 /\ item' = 1
      /\ stage' = IF errors # {} THEN "rejected"
                  ELSE CASE stage = "identify"    -> "items"
                         [] stage = "items"       -> "expressions"
                         [] stage = "expressions" -> "concretify"
      /\ UNCHANGED <<unit, type_ids, names, types, concrete, variables, temps, edges,
                     visits, fn_ret_type, asked, results, errors, ids, lvalues, budget>>
  BY DEF NextStage, scope, graph
<1>1. TypeOK /\ ScopeInv /\ ItemVarsInv /\ AskedInv /\ LeftInv
  BY DEF IInv
<1>2. \/ errors # {} /\ stage' = "rejected"
      \/ errors = {} /\ stage = "identify" /\ stage' = "items"
      \/ errors = {} /\ stage = "items" /\ stage' = "expressions"
      \/ errors = {} /\ stage = "expressions" /\ stage' = "concretify"
  BY <1>0
<1>3. \A i \in DOMAIN unit : i < item /\ ~(i < 1)
  BY <1>0, <1>1, UnitItems DEF ScopeInv
<1>4. Nodes' = Nodes /\ Visit' = Visit /\ KnownIds' = KnownIds /\ TypeIds' = TypeIds
  BY <1>0 DEF Nodes, Visit, KnownIds, Typedefs, TypeIds
<1>5. TypeOK'
  <2>1. stage' \in {"items", "expressions", "concretify", "rejected"} /\ item' \in Nat
    BY <1>0, <1>2
  <2> QED
    BY <1>0, <1>1, <1>4, <2>1 DEF TypeOK
<1>6. ScopeInv'
  <2>1. errors = {} => \A i \in DOMAIN unit : Identified(i)
    BY <1>0, <1>1, <1>3 DEF ScopeInv
  <2>2. stage' \in {"items", "expressions"} => errors = {}
    BY <1>2
  <2>3. \A i : Identified(i)' <=> Identified(i)
    BY <1>0 DEF Identified
  <2> QED
    BY <1>0, <1>1, <1>4, <2>1, <2>2, <2>3 DEF ScopeInv
<1>7. ItemVarsInv'
  BY <1>0, <1>1, <1>2, <1>3 DEF ItemVarsInv, HasVar, HasType
<1>8. AskedInv'
  <2>1. stage \in {"identify", "items"} => ToSet(asked) = {}
    BY <1>1, EmptySeq DEF AskedInv, ToSet
  <2>2. Later = {}
    <3>1. ASSUME NEW j \in DOMAIN unit
          PROVE  ~(j >= item)
      BY <1>0, <1>3, <1>1, UnitItems DEF ScopeInv
    <3> QED
      BY <3>1 DEF Later
  <2>3. Pending(visits) = {}
    BY <1>0, EmptySeq DEF Pending
  <2>4. asked' = asked /\ variables' = variables
    BY <1>0
  <2>5. CASE stage = "identify"
    BY <1>1, <1>2, <2>4, <2>5 DEF AskedInv
  <2>6. CASE stage = "items"
    BY <1>1, <1>2, <2>1, <2>4, <2>6 DEF AskedInv
  <2>7. CASE stage = "expressions"
    BY <1>1, <1>2, <2>2, <2>3, <2>4, <2>7 DEF AskedInv
  <2> QED
    BY <1>0, <2>5, <2>6, <2>7
<1>9. VisitsInv' /\ LeftInv'
  <2>1. stage \in {"identify", "items"} => ToSet(lvalues) = {}
    BY <1>1, EmptySeq DEF LeftInv, ToSet
  <2>2. Pending(visits) = {}
    BY <1>0, EmptySeq DEF Pending
  <2> QED
    BY <1>0, <1>1, <1>2, <2>1, <2>2 DEF VisitsInv, LeftInv
<1> QED
  BY <1>5, <1>6, <1>7, <1>8, <1>9 DEF IInv

(* ItemTypographer visits an item that ItemTypeIdentifier has visited.       *)
LEMMA ItemTypeIds ==
    ASSUME IInv, stage \in {"items", "expressions"}, item \in DOMAIN unit
    PROVE  /\ Identified(item)
           /\ type_ids[item] \in Seq(TypeIds)
           /\ RetType \in TypeIds
           /\ unit[item].kind = "Fn" =>
                 \A p \in Params : p \in Nat /\ ParamType(p) \in TypeIds
<1>1. ScopeInv
  BY DEF IInv
<1>2. Identified(item) /\ type_ids[item] \in Seq(TypeIds) /\ type_ids[item] # <<>>
  BY <1>1 DEF ScopeInv, Identified
<1>3. Len(type_ids[item]) \in Nat \ {0} /\ type_ids[item][Len(type_ids[item])] \in TypeIds
  BY <1>2, FrontItems
<1>4. RetType \in TypeIds
  BY <1>3 DEF RetType, Last
<1>5. ASSUME unit[item].kind = "Fn", NEW p \in Params
      PROVE  p \in Nat /\ ParamType(p) \in TypeIds
  <2>1. unit[item].params \in Seq(TypeNames)
    BY <1>1, <1>5, UnitItems DEF ScopeInv
  <2>2. p \in 1..Len(unit[item].params) /\ Len(unit[item].params) \in Nat
    BY <2>1, LenProperties DEF Params
  <2>3. Len(type_ids[item]) = Len(unit[item].params) + 1
    BY <1>2, <1>5 DEF Identified
  <2>4. p \in 1..Len(type_ids[item])
    BY <2>2, <2>3
  <2> QED
    BY <1>2, <2>2, <2>4, ElementOfSeq DEF ParamType
<1> QED
  BY <1>2, <1>4, <1>5

(* The steps that put an item into the graph. *)
LEMMA ItemStep ==
    ASSUME IInv, stage = "items", item \in DOMAIN unit, visits = <<>>,
           concrete \subseteq concrete', concrete' \subseteq DOMAIN types,
           variables \subseteq variables',
           unit[item].kind = "Typedef" => ItemId(item) \in variables',
           unit[item].kind = "Fn" => ItemId(item) \in concrete',
           edges' \subseteq Nodes' \X Nodes',
           item' = item + 1,
           UNCHANGED <<unit, stage, scope, temps, visits, fn_ret_type, asked, results,
                       errors, ids, lvalues, budget>>
    PROVE  IInv'
<1>1. TypeOK /\ ScopeInv /\ ItemVarsInv /\ AskedInv /\ LeftInv
  BY DEF IInv
<1>2. unit \in Seq(Item) /\ item \in Nat /\ temps \in Nat /\ temps <= temps'
  BY <1>1 DEF ScopeInv, TypeOK
<1>3. Nodes \subseteq Nodes'
  BY <1>2, GraphGrows
<1>4. KnownIds' = KnownIds /\ TypeIds' = TypeIds
  BY DEF KnownIds, Typedefs, TypeIds, scope
<1>5. TypeOK'
  <2>1. visits' \in Seq(Visit')
    BY EmptySeq
  <2>2. fn_ret_type' \in Nodes' \cup {NoNode}
    BY <1>1, <1>3 DEF TypeOK
  <2>3. DOMAIN results' \subseteq variables'
    BY <1>1 DEF TypeOK
  <2>4. /\ asked' = asked /\ errors' = errors /\ ids' = ids /\ budget' = budget
        /\ unit' = unit /\ stage' = stage /\ names' = names /\ types' = types
        /\ item' \in Nat /\ temps' \in Nat
    BY <1>2 DEF scope
  <2> QED
    BY <1>1, <2>1, <2>2, <2>3, <2>4 DEF TypeOK
<1>6. ScopeInv'
  BY <1>1, <1>4 DEF ScopeInv, Identified, scope
<1>7. ItemVarsInv'
  <2>1. \A i \in DOMAIN unit : i < item + 1 => i < item \/ i = item
    BY <1>2, UnitItems
  <2> QED
    BY <1>1, <2>1 DEF ItemVarsInv, HasVar, HasType
<1>8. VisitsInv' /\ AskedInv' /\ LeftInv'
  BY <1>1 DEF VisitsInv, AskedInv, LeftInv
<1> QED
  BY <1>5, <1>6, <1>7, <1>8 DEF IInv

LEMMA ItemFnInv ==
    ASSUME IInv, ItemFn
    PROVE  IInv'
<1> DEFINE S == {ParamType(p) : p \in Params}
<1>0. /\ stage = "items" /\ visits = <<>> /\ item \in DOMAIN unit /\ unit[item].kind = "Fn"
      /\ concrete' = concrete \cup {ItemId(item)} \cup Missing(S)
      /\ variables' = variables \cup {ParamId(item, p) : p \in Params}
      /\ edges' = edges \cup ParamEdges
      /\ item' = item + 1
      /\ UNCHANGED <<unit, stage, scope, temps, visits, fn_ret_type, asked, results,
                     errors, ids, lvalues, budget>>
  BY DEF ItemFn, AtItem
<1>1. TypeOK /\ temps \in Nat /\ temps <= temps'
  BY <1>0 DEF IInv, TypeOK
<1>2. Identified(item) /\ S \subseteq TypeIds
  BY <1>0, ItemTypeIds
<1>3. concrete \subseteq concrete' /\ concrete' \subseteq DOMAIN types
  BY <1>0, <1>1, <1>2 DEF TypeOK, Identified, Missing, TypeIds
<1> HIDE DEF S
<1>4. ASSUME NEW p \in Params
      PROVE  AddedType(ParamType(p)) \in Nodes' /\ Var(ParamId(item, p)) \in Nodes'
  <2>1. ParamType(p) \in S /\ ParamId(item, p) \in variables'
    BY <1>0 DEF S
  <2>2. AddedType(ParamType(p)) \in Nodes'
    BY <1>0, <1>1, <2>1, AddedHasNode
  <2> QED
    BY <1>0, <1>1, <1>3, <2>1, <2>2, GraphGrows
<1>5. Nodes \subseteq Nodes'
  BY <1>0, <1>1, <1>3, GraphGrows
<1>6. edges' \subseteq Nodes' \X Nodes'
  BY <1>0, <1>1, <1>4, <1>5 DEF ParamEdges, TypeOK
<1> QED
  BY <1>0, <1>3, <1>6, ItemStep

LEMMA ItemTypedefInv ==
    ASSUME IInv, ItemTypedef
    PROVE  IInv'
<1>0. /\ stage = "items" /\ visits = <<>> /\ item \in DOMAIN unit /\ unit[item].kind = "Typedef"
      /\ concrete' = concrete \cup Missing({RetType})
      /\ variables' = variables \cup {ItemId(item)}
      /\ edges' = edges \cup {<<Var(ItemId(item)), AddedType(RetType)>>}
      /\ item' = item + 1
      /\ UNCHANGED <<unit, stage, scope, temps, visits, fn_ret_type, asked, results,
                     errors, ids, lvalues, budget>>
  BY DEF ItemTypedef, AtItem
<1>1. TypeOK /\ temps \in Nat /\ temps <= temps'
  BY <1>0 DEF IInv, TypeOK
<1>2. RetType \in TypeIds
  BY <1>0, ItemTypeIds
<1>3. concrete \subseteq concrete' /\ concrete' \subseteq DOMAIN types
  BY <1>0, <1>1, <1>2 DEF TypeOK, Missing, TypeIds
<1>4. AddedType(RetType) \in Nodes'
  BY <1>0, <1>1, AddedHasNode
<1>5. Nodes \subseteq Nodes' /\ Var(ItemId(item)) \in Nodes'
  BY <1>0, <1>1, <1>3, GraphGrows
<1>6. edges' \subseteq Nodes' \X Nodes'
  BY <1>0, <1>1, <1>4, <1>5 DEF TypeOK
<1> QED
  BY <1>0, <1>3, <1>6, ItemStep

-----------------------------------------------------------------------------
(* What the steps of ExprTypographer have in common. *)

LEMMA Walks ==
    ASSUME IInv, stage = "expressions", visits # <<>>
    PROVE  /\ item \in DOMAIN unit /\ unit[item].kind = "Fn" /\ item \in Nat
           /\ fn_ret_type \in Nodes /\ temps \in Nat /\ ids \in Nat
           /\ NewId \in Seq(Nat)
           /\ edges \subseteq Nodes \X Nodes
           /\ asked \in Seq(Seq(Nat))
           /\ Stacked(visits, Nodes, variables, KnownIds)
           /\ top \in VisitOf(Nodes) /\ Fits(top, variables, KnownIds)
           /\ top = visits[Len(visits)]
<1>1. /\ item \in DOMAIN unit /\ unit[item].kind = "Fn"
      /\ fn_ret_type \in Nodes
      /\ Stacked(visits, Nodes, variables, KnownIds)
  BY DEF IInv, VisitsInv
<1>2. /\ temps \in Nat /\ ids \in Nat /\ edges \subseteq Nodes \X Nodes /\ item \in Nat
      /\ asked \in Seq(Seq(Nat))
  BY DEF IInv, TypeOK
<1>3. NewId \in Seq(Nat)
  BY <1>2 DEF NewId
<1>4. top \in VisitOf(Nodes) /\ Fits(top, variables, KnownIds)
  BY <1>1, StackTop DEF top
<1> QED
  BY <1>1, <1>2, <1>3, <1>4 DEF top

(* A visit that does not end awaits a child, and of which kind.              *)
LEMMA AwaitsProperties ==
    ASSUME NEW N, NEW f \in VisitOf(N), NEW V, NEW K, Fits(f, V, K)
    PROVE  /\ Awaits(f) # "end" => Open(f)
           /\ Awaits(f) = "stmt" => f.node = "block"
           /\ Awaits(f) = "block" => f.node = "if"
           /\ Awaits(f) = "end" => Len(f.children) = f.arity
<1>1. Len(f.children) \in Nat /\ f.arity \in Nat
  BY LenProperties DEF VisitOf
<1>2. Len(f.children) # f.arity => Open(f)
  BY <1>1 DEF Open, Fits
<1>3. CASE Len(f.children) = f.arity
  BY <1>3 DEF Awaits
<1>4. CASE Len(f.children) # f.arity
  <2>1. Awaits(f) = CASE f.node = "block" -> "stmt"
                      [] f.node = "if" /\ (Len(f.children) % 2 = 1 \/ Len(f.children) + 1 = f.arity)
                                -> "block"
                      [] OTHER -> "expr"
    BY <1>4 DEF Awaits
  <2>2. CASE f.node = "block"
    <3>1. Awaits(f) = "stmt"
      BY <2>1, <2>2
    <3> QED
      BY <1>2, <1>4, <2>2, <3>1
  <2>3. CASE f.node # "block"
    <3>1. Awaits(f) = IF f.node = "if" /\ (Len(f.children) % 2 = 1 \/ Len(f.children) + 1 = f.arity)
                      THEN "block" ELSE "expr"
      BY <2>1, <2>3
    <3> QED
      BY <1>2, <1>4, <3>1
  <2> QED
    BY <2>2, <2>3
<1> QED
  BY <1>3, <1>4

(* The name of a type, and so each id of a type, has a node by now.          *)
LEMMA KnownHaveNodes ==
    ASSUME IInv, stage = "expressions"
    PROVE  /\ \A id \in KnownIds : GetType(id) \in Nodes
           /\ \A n \in Primitives : Primitive(n) \in Nodes
           /\ \A n \in DOMAIN names : names[n] \in KnownIds
<1>1. ScopeInv /\ ItemVarsInv
  BY DEF IInv
<1>2. ASSUME NEW id \in KnownIds
      PROVE  id \in concrete \cup variables
  <2>1. CASE id \in {PrimitiveId[n] : n \in Primitives}
    BY <1>1, <2>1 DEF ItemVarsInv
  <2>2. CASE id \in {ItemId(i) : i \in Typedefs}
    BY <1>1, <2>2 DEF ItemVarsInv, HasVar, HasType, Typedefs
  <2> QED
    BY <2>1, <2>2 DEF KnownIds
<1>3. \A id \in KnownIds : GetType(id) \in Nodes
  BY <1>2, GetTypeNodes
<1> QED
  BY <1>1, <1>3 DEF ScopeInv, Primitive

LEMMA AskMore ==
    ASSUME NEW s \in Seq(Seq(Nat)), NEW more \in Seq(Seq(Nat))
    PROVE  /\ s \o more \in Seq(Seq(Nat))
           /\ ToSet(s \o more) = ToSet(s) \cup ToSet(more)
<1>1. s \o more \in Seq(Seq(Nat))
  BY ConcatProperties
<1>2. Range(s \o more) = Range(s) \cup Range(more)
  BY RangeConcatenation
<1> QED
  BY <1>1, <1>2 DEF ToSet, Range

LEMMA AsksOfTypes ==
    ASSUME NEW source \in Seq(Nat), NEW id \in Seq(Nat)
    PROVE  /\ AsksOf(source, id) \in Seq(Seq(Nat))
           /\ ToSet(AsksOf(source, id)) = IF source = None THEN {} ELSE {source, id}
<1>1. CASE source = None
  BY <1>1, EmptySeq DEF AsksOf, ToSet
<1>2. CASE source # None
  <2>1. AsksOf(source, id) = <<source, id>>
    BY <1>2 DEF AsksOf
  <2>2. <<source, id>> \in Seq(Seq(Nat)) /\ ToSet(<<source, id>>) = {source, id}
    BY DEF ToSet
  <2> QED
    BY <1>2, <2>1, <2>2
<1> QED
  BY <1>1, <1>2

(* A visit that begins can be one of such a node. *)
CanBe(node, id, arity, V, K) ==
    /\ node \in {"fn", "block", "if", "let", "return", "stmt", "if_expr", "unary",
                "equality", "comparison", "arithmetic", "call"}
    /\ id \in Seq(Nat) /\ arity \in Nat
    /\ node \in DOMAIN Arity => arity = Arity[node]
    /\ node = "if" => id \in V
    /\ node = "let" => id \in K \cup {None}

LEMMA NewVisits ==
    ASSUME NEW N, NEW V, NEW K, NEW node, NEW id, NEW arity, CanBe(node, id, arity, V, K)
    PROVE  /\ NewVisit(node, id, arity) \in VisitOf(N)
           /\ Fits(NewVisit(node, id, arity), V, K)
           /\ NewVisit(node, id, arity).node = node
           /\ NewVisit(node, id, arity).id = id
           /\ arity > 0 => Open(NewVisit(node, id, arity))
           /\ Valued(NewVisit(node, id, arity)) = {}
<1> DEFINE f == NewVisit(node, id, arity)
           none == {}
<1>1. <<>> \in Seq(N) /\ Len(<<>>) = 0 /\ none \in SUBSET Seq(Nat)
  BY EmptySeq
<1>2. f = [node |-> node, id |-> id, arity |-> arity, children |-> <<>>,
           source |-> FALSE, phase |-> "start", declared |-> none]
  BY DEF NewVisit
<1>3. none = {}
  OBVIOUS
<1> HIDE DEF f, none
<1>4. f \in VisitOf(N)
  BY <1>1, <1>2 DEF VisitOf, CanBe
<1>5. /\ Fits(f, V, K)
      /\ f.node = node /\ f.id = id /\ f.source = FALSE
      /\ arity > 0 => Open(f)
  BY <1>1, <1>2, <1>3 DEF Fits, Open, CanBe
<1>6. Valued(f) = {}
  BY <1>5 DEF Valued
<1> QED
  BY <1>4, <1>5, <1>6 DEF f

(* A visit gets a source. *)
LEMMA SourceVisits ==
    ASSUME NEW N, NEW V, NEW K, NEW f \in VisitOf(N), Fits(f, V, K)
    PROVE  /\ [f EXCEPT !.source = TRUE] \in VisitOf(N)
           /\ [f EXCEPT !.source = FALSE] \in VisitOf(N)
           /\ Fits([f EXCEPT !.source = TRUE], V, K)
           /\ Fits([f EXCEPT !.source = FALSE], V, K)
           /\ \A s : /\ [f EXCEPT !.source = s].node = f.node
                     /\ [f EXCEPT !.source = s].id = f.id
                     /\ [f EXCEPT !.source = s].source = s
BY DEF VisitOf, Fits

LEMMA ArityOne ==
    \A node \in {"fn", "block", "let", "return", "stmt", "unary"} :
        node \in DOMAIN Arity /\ Arity[node] = 1
BY DEF Arity

LEMMA BlockVisits ==
    ASSUME NEW N, NEW V, NEW K, NEW source, NEW id \in Seq(Nat)
    PROVE  /\ BlockVisit(source, id) \in VisitOf(N)
           /\ Fits(BlockVisit(source, id), V, K)
           /\ BlockVisit(source, id).node = "block"
           /\ Valued(BlockVisit(source, id)) = IF source = None THEN {} ELSE {id}
<1> DEFINE f == BlockVisit(source, id)
<1>1. ASSUME NEW i \in Seq(Nat)
      PROVE  CanBe("block", i, 1, V, K)
  BY ArityOne DEF CanBe
<1>2. CASE source = None
  <2> DEFINE g == NewVisit("block", None, 1)
  <2>1. (source # None) = FALSE
    BY <1>2
  <2>2. f = [g EXCEPT !.source = FALSE]
    BY <1>2, <2>1, Zenon DEF BlockVisit
  <2>3. CanBe("block", None, 1, V, K)
    BY <1>1, IdTypes
  <2>4. g \in VisitOf(N)
    BY <2>3, NewVisits
  <2>5. Fits(g, V, K)
    BY <2>3, NewVisits
  <2>9. g.node = "block"
    BY DEF NewVisit
  <2> HIDE DEF f, g
  <2>6. f \in VisitOf(N) /\ Fits(f, V, K)
    BY <2>2, <2>4, <2>5, SourceVisits
  <2>7. f.node = "block" /\ f.source = FALSE
    BY <2>2, <2>4, <2>9 DEF VisitOf
  <2>8. Valued(f) = {}
    BY <2>7 DEF Valued
  <2> QED
    BY <1>2, <2>6, <2>7, <2>8 DEF f
<1>3. CASE source # None
  <2> DEFINE g == NewVisit("block", id, 1)
  <2>1. (source # None) = TRUE
    BY <1>3
  <2>2. f = [g EXCEPT !.source = TRUE]
    BY <1>3, <2>1, Zenon DEF BlockVisit
  <2>3. CanBe("block", id, 1, V, K)
    BY <1>1
  <2>4. g \in VisitOf(N)
    BY <2>3, NewVisits
  <2>5. Fits(g, V, K)
    BY <2>3, NewVisits
  <2>9. g.node = "block" /\ g.id = id
    BY DEF NewVisit
  <2> HIDE DEF f, g
  <2>6. f \in VisitOf(N) /\ Fits(f, V, K)
    BY <2>2, <2>4, <2>5, SourceVisits
  <2>7. f.node = "block" /\ f.source = TRUE /\ f.id = id
    BY <2>2, <2>4, <2>9 DEF VisitOf
  <2>8. Valued(f) = {id}
    BY <2>7 DEF Valued
  <2> QED
    BY <1>3, <2>6, <2>7, <2>8 DEF f
<1> QED
  BY <1>2, <1>3

(* A step within a function keeps the invariant if it keeps the stack of     *)
(* visits and asks only for what has a node, or will get one.                *)
LEMMA WalkStep ==
    ASSUME IInv, stage = "expressions", visits # <<>>,
           variables \subseteq variables', temps' \in Nat, temps <= temps',
           edges' \subseteq Nodes' \X Nodes',
           Stacked(visits', Nodes', variables', KnownIds),
           asked' \in Seq(Seq(Nat)),
           ToSet(asked') \subseteq variables' \cup Later \cup Pending(visits'),
           lvalues' \in Seq(Seq(Nat)), ToSet(lvalues') \subseteq variables' \cup Pending(visits'),
           ToSet(lvalues') \cup Pending(visits') \subseteq ToSet(asked'),
           ids' \in Nat,
           UNCHANGED budget \/ \E form : Counted(form),
           UNCHANGED <<unit, stage, item, scope, concrete, fn_ret_type, results, errors>>
    PROVE  IInv'
<1>1. TypeOK /\ ScopeInv /\ ItemVarsInv /\ VisitsInv /\ AskedInv /\ LeftInv
  BY DEF IInv
<1>2. temps \in Nat /\ concrete \subseteq concrete'
  BY <1>1 DEF TypeOK
<1>3. Nodes \subseteq Nodes'
  BY <1>2, GraphGrows
<1>4. KnownIds' = KnownIds /\ TypeIds' = TypeIds /\ Later' = Later
  BY DEF KnownIds, Typedefs, TypeIds, Later, scope
<1>5. budget'.forms = budget.forms /\ budget'.nodes \in Nat /\ DOMAIN budget' = {"forms", "nodes"}
  <2>1. DOMAIN budget = {"forms", "nodes"} /\ budget.nodes \in Nat
    BY <1>1 DEF ScopeInv, TypeOK
  <2>2. ASSUME NEW form, Counted(form)
        PROVE  budget'.forms = budget.forms /\ budget'.nodes \in Nat
                   /\ DOMAIN budget' = {"forms", "nodes"}
    BY <2>1, <2>2 DEF Counted
  <2> QED
    BY <2>1, <2>2
<1>6. TypeOK'
  <2>1. visits' \in Seq(Visit')
    BY DEF Stacked, VisitOf, Visit
  <2>2. fn_ret_type' \in Nodes' \cup {NoNode} /\ DOMAIN results' \subseteq variables'
        /\ concrete' \subseteq DOMAIN types'
    BY <1>1, <1>3 DEF TypeOK, scope
  <2>3. /\ errors' = errors /\ unit' = unit /\ stage' = stage /\ item' = item
        /\ names' = names /\ types' = types
    BY DEF scope
  <2> QED
    BY <1>1, <1>5, <2>1, <2>2, <2>3 DEF TypeOK
<1>7. ScopeInv'
  BY <1>1, <1>4, <1>5 DEF ScopeInv, Identified, scope
<1>8. ItemVarsInv'
  BY <1>1 DEF ItemVarsInv, HasVar, HasType
<1>9. VisitsInv'
  <2>1. Params' = Params
    BY DEF Params
  <2> QED
    BY <1>1, <1>3, <1>4, <2>1 DEF VisitsInv
<1>10. AskedInv' /\ LeftInv'
  BY <1>4 DEF AskedInv, LeftInv
<1> QED
  BY <1>6, <1>7, <1>8, <1>9, <1>10 DEF IInv

(* The visit on top ends, and leaves the type t for the one that awaits it.  *)
LEMMA LeaveFrontStack ==
    ASSUME NEW N, NEW V, NEW K, NEW vs, Stacked(vs, N, V, K), vs[Len(vs)].node # "fn",
           NEW t \in N
    PROVE  /\ Stacked(Leave(Front(vs), t), N, V, K)
           /\ Pending(vs) = Pending(Leave(Front(vs), t)) \cup Valued(vs[Len(vs)])
<1> DEFINE b == Front(vs)
<1>1. /\ Stacked(b, N, V, K)
      /\ Open(b[Len(b)])
      /\ Pending(vs) = Pending(b) \cup Valued(vs[Len(vs)])
  BY PopStack
<1> HIDE DEF b
<1>2. Stacked(Leave(b, t), N, V, K) /\ Pending(Leave(b, t)) = Pending(b)
  BY <1>1, LeaveStack
<1> QED
  BY <1>1, <1>2 DEF b

(* What is there before a step is there after it. *)
LEMMA WalkGrows ==
    ASSUME IInv, stage = "expressions", visits # <<>>,
           variables \subseteq variables', temps' \in Nat, temps <= temps',
           UNCHANGED concrete
    PROVE  /\ Nodes \subseteq Nodes'
           /\ \A n \in 1..temps' : Temp(n) \in Nodes'
           /\ \A id \in variables' : Var(id) \in Nodes'
           /\ edges \subseteq Nodes' \X Nodes'
           /\ fn_ret_type \in Nodes'
           /\ \A id \in KnownIds : GetType(id) \in Nodes'
           /\ \A n \in Primitives : Primitive(n) \in Nodes'
           /\ \A vs : Stacked(vs, Nodes, variables, KnownIds)
                         => Stacked(vs, Nodes', variables', KnownIds)
           /\ \A f : f \in VisitOf(Nodes) => f \in VisitOf(Nodes')
<1>1. temps \in Nat /\ edges \subseteq Nodes \X Nodes /\ fn_ret_type \in Nodes
  BY Walks
<1>2. /\ Nodes \subseteq Nodes'
      /\ \A n \in 1..temps' : Temp(n) \in Nodes'
      /\ \A id \in variables' : Var(id) \in Nodes'
  BY <1>1, GraphGrows
<1>3. edges \subseteq Nodes' \X Nodes' /\ fn_ret_type \in Nodes'
  BY <1>1, <1>2
<1>4. /\ \A id \in KnownIds : GetType(id) \in Nodes'
      /\ \A n \in Primitives : Primitive(n) \in Nodes'
  BY <1>2, KnownHaveNodes
<1>5. ASSUME NEW vs, Stacked(vs, Nodes, variables, KnownIds)
      PROVE  Stacked(vs, Nodes', variables', KnownIds)
  <2> DEFINE N == Nodes
             N2 == Nodes'
             V2 == variables'
  <2>1. N \subseteq N2 /\ variables \subseteq V2 /\ Stacked(vs, N, variables, KnownIds)
    BY <1>2, <1>5
  <2> HIDE DEF N, N2, V2
  <2>2. Stacked(vs, N2, V2, KnownIds)
    BY <2>1, StackGrows
  <2> QED
    BY <2>2 DEF N2, V2
<1>6. ASSUME NEW f \in VisitOf(Nodes)
      PROVE  f \in VisitOf(Nodes')
  <2>1. Seq(Nodes) \subseteq Seq(Nodes')
    BY <1>2, SeqMonotonic
  <2> QED
    BY <2>1 DEF VisitOf
<1> QED
  BY <1>2, <1>3, <1>4, <1>5, <1>6

LEMMA LeftsSame ==
    ASSUME IInv, UNCHANGED lvalues
    PROVE  Lefts
BY DEF IInv, TypeOK, Lefts

(* A step that ends a visit. *)
LEMMA EndStep ==
    ASSUME IInv, stage = "expressions", visits # <<>>, top.node # "fn",
           variables \subseteq variables', temps' \in Nat, temps <= temps',
           NEW t \in Nodes', visits' = Leave(Front(visits), t),
           edges' \subseteq Nodes' \X Nodes', Valued(top) \subseteq variables',
           ids' \in Nat,
           UNCHANGED <<unit, stage, item, scope, concrete, fn_ret_type, asked, results,
                       errors, lvalues, budget>>
    PROVE  IInv'
<1> DEFINE N2 == Nodes'
           V2 == variables'
<1>1. /\ Stacked(visits, Nodes, variables, KnownIds) /\ top = visits[Len(visits)]
      /\ asked \in Seq(Seq(Nat))
  BY Walks
<1>2. Stacked(visits, N2, V2, KnownIds)
  BY <1>1, WalkGrows
<1>3. visits[Len(visits)].node # "fn" /\ t \in N2
  BY <1>1
<1> HIDE DEF N2, V2
<1>4. /\ Stacked(Leave(Front(visits), t), N2, V2, KnownIds)
      /\ Pending(visits) = Pending(Leave(Front(visits), t)) \cup Valued(visits[Len(visits)])
  BY <1>2, <1>3, LeaveFrontStack
<1>5. Stacked(visits', Nodes', variables', KnownIds)
  BY <1>4 DEF N2, V2
<1>6. ToSet(asked) \subseteq variables \cup Later \cup Pending(visits)
  BY DEF IInv, AskedInv
<1>7. ToSet(asked') \subseteq variables' \cup Later \cup Pending(visits')
  BY <1>1, <1>4, <1>6
<1>8. /\ lvalues \in Seq(Seq(Nat)) /\ ToSet(lvalues) \subseteq variables \cup Pending(visits)
      /\ ToSet(lvalues) \cup Pending(visits) \subseteq ToSet(asked)
  BY DEF IInv, TypeOK, LeftInv
<1>9. /\ lvalues' \in Seq(Seq(Nat)) /\ ToSet(lvalues') \subseteq variables' \cup Pending(visits')
      /\ ToSet(lvalues') \cup Pending(visits') \subseteq ToSet(asked')
  BY <1>1, <1>4, <1>8
<1> QED
  BY <1>1, <1>5, <1>7, <1>9, WalkStep

(* A step that begins the visit f. *)
LEMMA PushStep ==
    ASSUME IInv, stage = "expressions", visits # <<>>,
           NEW vs, Stacked(vs, Nodes, variables, KnownIds), Open(vs[Len(vs)]),
           Pending(vs) = Pending(visits),
           variables \subseteq variables',
           NEW f \in VisitOf(Nodes'), Fits(f, variables', KnownIds), f.node # "fn",
           visits' = Append(vs, f),
           NEW more \in Seq(Seq(Nat)), asked' = asked \o more,
           ToSet(more) \subseteq variables \cup Later \cup Pending(visits) \cup Valued(f),
           Valued(f) \subseteq ToSet(more),
           Lefts, ids' \in Nat, UNCHANGED budget \/ \E form : Counted(form),
           UNCHANGED <<unit, stage, item, scope, concrete, temps, edges, fn_ret_type,
                       results, errors>>
    PROVE  IInv'
<1> DEFINE N2 == Nodes'
           V2 == variables'
<1>1. /\ asked \in Seq(Seq(Nat)) /\ temps \in Nat
      /\ temps' \in Nat /\ temps <= temps'
  BY Walks
<1>2. Stacked(vs, N2, V2, KnownIds) /\ edges' \subseteq Nodes' \X Nodes'
  BY <1>1, WalkGrows
<1>3. f \in VisitOf(N2) /\ Fits(f, V2, KnownIds)
  OBVIOUS
<1> HIDE DEF N2, V2
<1>4. /\ Stacked(Append(vs, f), N2, V2, KnownIds)
      /\ Pending(Append(vs, f)) = Pending(vs) \cup Valued(f)
  BY <1>2, <1>3, PushStack
<1>5. Stacked(visits', Nodes', variables', KnownIds)
  BY <1>4 DEF N2, V2
<1>6. ToSet(asked) \subseteq variables \cup Later \cup Pending(visits)
  BY DEF IInv, AskedInv
<1>10. asked' \in Seq(Seq(Nat)) /\ ToSet(asked') = ToSet(asked) \cup ToSet(more)
  BY <1>1, AskMore
<1>7. /\ asked' \in Seq(Seq(Nat))
      /\ ToSet(asked') \subseteq variables' \cup Later \cup Pending(visits')
  BY <1>4, <1>6, <1>10
<1>8. /\ ToSet(lvalues) \subseteq variables \cup Pending(visits)
      /\ ToSet(lvalues) \cup Pending(visits) \subseteq ToSet(asked)
  BY DEF IInv, LeftInv
<1>9. /\ lvalues' \in Seq(Seq(Nat)) /\ ToSet(lvalues') \subseteq variables' \cup Pending(visits')
      /\ ToSet(lvalues') \cup Pending(visits') \subseteq ToSet(asked')
  BY <1>4, <1>8, <1>10 DEF Lefts
<1> QED
  BY <1>1, <1>2, <1>5, <1>7, <1>9, WalkStep

(* A step that leaves a type for the visit on top. *)
LEMMA LeafStep ==
    ASSUME IInv, stage = "expressions", visits # <<>>,
           NEW vs, Stacked(vs, Nodes, variables, KnownIds), Open(vs[Len(vs)]),
           Pending(vs) = Pending(visits),
           temps' \in Nat, temps <= temps', edges' \subseteq Nodes' \X Nodes',
           NEW t \in Nodes', visits' = Leave(vs, t),
           NEW more \in Seq(Seq(Nat)), asked' = asked \o more, ToSet(more) \subseteq variables,
           Lefts, UNCHANGED budget \/ \E form : Counted(form),
           UNCHANGED <<unit, stage, item, scope, concrete, variables, fn_ret_type,
                       results, errors, ids>>
    PROVE  IInv'
<1> DEFINE N2 == Nodes'
<1>1. asked \in Seq(Seq(Nat)) /\ temps \in Nat /\ ids \in Nat
  BY Walks
<1>2. Stacked(vs, N2, variables, KnownIds)
  BY <1>1, WalkGrows
<1>3. t \in N2
  OBVIOUS
<1> HIDE DEF N2
<1>4. /\ Stacked(Leave(vs, t), N2, variables, KnownIds)
      /\ Pending(Leave(vs, t)) = Pending(vs)
  BY <1>2, <1>3, LeaveStack
<1>5. Stacked(visits', Nodes', variables', KnownIds)
  BY <1>4 DEF N2
<1>6. ToSet(asked) \subseteq variables \cup Later \cup Pending(visits)
  BY DEF IInv, AskedInv
<1>10. asked' \in Seq(Seq(Nat)) /\ ToSet(asked') = ToSet(asked) \cup ToSet(more)
  BY <1>1, AskMore
<1>7. /\ asked' \in Seq(Seq(Nat))
      /\ ToSet(asked') \subseteq variables' \cup Later \cup Pending(visits')
  BY <1>4, <1>6, <1>10
<1>8. /\ ToSet(lvalues) \subseteq variables \cup Pending(visits)
      /\ ToSet(lvalues) \cup Pending(visits) \subseteq ToSet(asked)
  BY DEF IInv, LeftInv
<1>9. /\ lvalues' \in Seq(Seq(Nat)) /\ ToSet(lvalues') \subseteq variables' \cup Pending(visits')
      /\ ToSet(lvalues') \cup Pending(visits') \subseteq ToSet(asked')
  BY <1>4, <1>8, <1>10 DEF Lefts
<1> QED
  BY <1>1, <1>5, <1>7, <1>9, WalkStep

-----------------------------------------------------------------------------
(* Expressions. *)

(* The variables of a name that can be used: only those of later functions   *)
(* are not there yet.                                                        *)
LEMMA VisibleKnown ==
    ASSUME IInv, stage = "expressions", visits # <<>>
    PROVE  \A id \in Visible :
              /\ id \in Seq(Nat)
              /\ id \in variables \/ \E i \in DOMAIN unit : i > item /\ id = ItemId(i)
<1>1. /\ item \in DOMAIN unit /\ item \in Nat /\ unit[item].kind = "Fn"
      /\ Stacked(visits, Nodes, variables, KnownIds)
  BY Walks
<1>2. /\ unit \in Seq(Item)
      /\ \A i \in DOMAIN unit : HasVar(i) => ItemId(i) \in variables
      /\ ItemId(item) \in variables
      /\ \A p \in Params : ParamId(item, p) \in variables
  BY DEF IInv, ScopeInv, ItemVarsInv, VisitsInv
<1>3. ASSUME NEW i \in DOMAIN unit
      PROVE  /\ ItemId(i) \in Seq(Nat)
             /\ ItemId(i) \in variables \/ i > item
  <2>1. i \in Nat
    BY <1>2, UnitItems
  <2>2. i < item => ItemId(i) \in variables
    BY <1>2 DEF HasVar
  <2>3. i < item \/ i = item \/ i > item
    BY <1>1, <2>1
  <2> QED
    BY <1>2, <2>1, <2>2, <2>3, IdTypes
<1>4. ASSUME NEW p \in Params
      PROVE  ParamId(item, p) \in Seq(Nat)
  <2>1. unit[item].params \in Seq(TypeNames)
    BY <1>1, <1>2, UnitItems
  <2>2. p \in Nat
    BY <2>1, LenProperties DEF Params
  <2> QED
    BY <1>1, <2>2, IdTypes
<1>5. ASSUME NEW v \in DOMAIN visits, NEW id \in visits[v].declared
      PROVE  id \in Seq(Nat) /\ id \in variables
  <2>1. /\ visits \in Seq(VisitOf(Nodes))
        /\ \A i \in 1..Len(visits) : Fits(visits[i], variables, KnownIds)
    BY <1>1 DEF Stacked
  <2>2. v \in 1..Len(visits)
    BY <2>1, LenProperties
  <2>3. visits[v] \in VisitOf(Nodes) /\ Fits(visits[v], variables, KnownIds)
    BY <2>1, <2>2, ElementOfSeq
  <2> QED
    BY <1>5, <2>3 DEF VisitOf, Fits
<1>6. ASSUME NEW id \in Visible
      PROVE  \/ \E i \in DOMAIN unit : id = ItemId(i)
             \/ \E p \in Params : id = ParamId(item, p)
             \/ \E v \in DOMAIN visits : id \in visits[v].declared
  BY <1>6 DEF Visible
<1> QED
  BY <1>2, <1>3, <1>4, <1>5, <1>6

LEMMA VisibleLater ==
    ASSUME IInv, stage = "expressions", visits # <<>>, NEW id \in Visible
    PROVE  id \in variables \cup Later
<1>1. item \in Nat /\ unit \in Seq(Item)
  BY Walks DEF IInv, ScopeInv
<1>2. \A i \in DOMAIN unit : i > item => i >= item
  BY <1>1, UnitItems
<1> QED
  BY <1>2, VisibleKnown DEF Later

(* What the visit of an expression starts from. *)
LEMMA AtOpen ==
    ASSUME IInv, NEW what, what # "end", Visits(what)
    PROVE  /\ stage = "expressions" /\ visits # <<>>
           /\ Stacked(visits, Nodes, variables, KnownIds)
           /\ Open(visits[Len(visits)])
           /\ top = visits[Len(visits)]
           /\ top \in VisitOf(Nodes) /\ Fits(top, variables, KnownIds)
           /\ Awaits(top) = what
           /\ temps \in Nat /\ ids \in Nat
<1>1. stage = "expressions" /\ visits # <<>> /\ Awaits(top) = what
  BY DEF Visits
<1>2. /\ Stacked(visits, Nodes, variables, KnownIds)
      /\ top \in VisitOf(Nodes) /\ Fits(top, variables, KnownIds)
      /\ top = visits[Len(visits)]
      /\ temps \in Nat /\ ids \in Nat
  BY <1>1, Walks
<1>3. Open(top)
  BY <1>1, <1>2, AwaitsProperties
<1> QED
  BY <1>1, <1>2, <1>3

LEMMA LiteralInv ==
    ASSUME IInv, NEW name \in {"bool", "float"}, Literal(name)
    PROVE  IInv'
<1>1. /\ stage = "expressions" /\ visits # <<>>
      /\ Stacked(visits, Nodes, variables, KnownIds)
      /\ Open(visits[Len(visits)])
      /\ temps \in Nat
  BY AtOpen DEF Literal, Goes
<1>2. /\ temps' = temps + 1 /\ visits' = Leave(visits, NewTemp)
      /\ edges' = edges \cup {<<NewTemp, Primitive(name)>>}
      /\ UNCHANGED budget \/ \E form : Counted(form)
      /\ UNCHANGED <<unit, stage, item, scope, concrete, variables, fn_ret_type, asked,
                     results, errors, ids, lvalues>>
  BY DEF Literal, Goes, Visits, Draw
<1>3. temps' \in Nat /\ temps <= temps'
  BY <1>1, <1>2
<1>4. /\ NewTemp \in Nodes'
      /\ Primitive(name) \in Nodes' /\ edges \subseteq Nodes' \X Nodes'
  <2>1. name \in Primitives /\ temps + 1 \in 1..temps' /\ variables \subseteq variables'
    BY <1>1, <1>2 DEF Primitives
  <2> QED
    BY <1>1, <1>2, <1>3, <2>1, WalkGrows DEF NewTemp
<1>5. edges' \subseteq Nodes' \X Nodes'
  BY <1>2, <1>4
<1>6. <<>> \in Seq(Seq(Nat)) /\ asked' = asked \o <<>> /\ ToSet(<<>>) \subseteq variables
  <2>1. asked \in Seq(Seq(Nat))
    BY <1>1, Walks
  <2> QED
    BY <1>2, <2>1, EmptySeq, ConcatEmptySeq DEF ToSet
<1> QED
  BY <1>1, <1>2, <1>3, <1>4, <1>5, <1>6, LeftsSame, LeafStep

LEMMA VarRefInv ==
    ASSUME IInv, NEW id \in Visible, VarRef(id), id \in variables
    PROVE  IInv'
<1>1. /\ stage = "expressions" /\ visits # <<>>
      /\ Stacked(visits, Nodes, variables, KnownIds)
      /\ Open(visits[Len(visits)])
      /\ temps \in Nat
  BY AtOpen DEF VarRef, Expression, Goes
<1>2. /\ temps' = temps /\ visits' = Leave(visits, Var(id)) /\ edges' = edges
      /\ asked' = asked \o <<id>>
      /\ \E form : Counted(form)
      /\ UNCHANGED <<unit, stage, item, scope, concrete, variables, fn_ret_type,
                     results, errors, ids, lvalues>>
  BY DEF VarRef, Expression, Goes, Visits, Asks
<1>3. temps' \in Nat /\ temps <= temps'
  BY <1>1, <1>2
<1>4. Var(id) \in Nodes' /\ edges' \subseteq Nodes' \X Nodes'
  BY <1>1, <1>2, <1>3, WalkGrows
<1>5. <<id>> \in Seq(Seq(Nat)) /\ ToSet(<<id>>) \subseteq variables
  <2>1. id \in Seq(Nat)
    BY <1>1, VisibleKnown
  <2> QED
    BY <2>1 DEF ToSet
<1> QED
  BY <1>1, <1>2, <1>3, <1>4, <1>5, LeftsSame, LeafStep

(* A panic ends it all. *)
LEMMA VarRefPanics ==
    ASSUME IInv, NEW id, VarRef(id), id \notin variables
    PROVE  IInv'
<1>1. TypeOK /\ ScopeInv /\ ItemVarsInv /\ stage = "expressions"
  BY DEF IInv, VarRef, Expression, Goes, Visits
<1>2. /\ stage' = "panic"
      /\ \E form : Counted(form)
      /\ UNCHANGED <<unit, item, scope, graph, visits, fn_ret_type, asked, results,
                     errors, ids, lvalues>>
  BY DEF VarRef, Expression, Goes, Visits, graph
<1>3. budget'.forms = budget.forms /\ budget'.nodes \in Nat /\ DOMAIN budget' = {"forms", "nodes"}
  BY <1>1, <1>2 DEF Counted, ScopeInv, TypeOK
<1>4. /\ Nodes' = Nodes /\ Visit' = Visit /\ KnownIds' = KnownIds /\ TypeIds' = TypeIds
  BY <1>2 DEF Nodes, Visit, graph, KnownIds, Typedefs, TypeIds, scope
<1>5. TypeOK'
  BY <1>1, <1>2, <1>3, <1>4 DEF TypeOK, graph, scope
<1>6. ScopeInv'
  BY <1>1, <1>2, <1>3, <1>4 DEF ScopeInv, Identified, scope
<1>7. ItemVarsInv'
  BY <1>1, <1>2 DEF ItemVarsInv, HasVar, HasType, graph
<1>8. VisitsInv' /\ AskedInv' /\ LeftInv'
  BY <1>2 DEF VisitsInv, AskedInv, LeftInv
<1> QED
  BY <1>5, <1>6, <1>7, <1>8 DEF IInv

LEMMA OperationInv ==
    ASSUME IInv, NEW node \in {"if_expr", "unary", "equality", "comparison", "arithmetic"},
           Operation(node, Arity[node])
    PROVE  IInv'
<1> DEFINE f == NewVisit(node, None, Arity[node])
<1>1. /\ stage = "expressions" /\ visits # <<>>
      /\ Stacked(visits, Nodes, variables, KnownIds)
      /\ Open(visits[Len(visits)])
      /\ ids \in Nat
  BY AtOpen DEF Operation, Expression, Goes
<1>2. /\ visits' = Append(visits, f)
      /\ \E form : Counted(form)
      /\ UNCHANGED <<unit, stage, item, scope, concrete, variables, temps, edges,
                     fn_ret_type, asked, results, errors, ids, lvalues>>
  BY DEF Operation, Expression, Goes, Visits
<1>3. CanBe(node, None, Arity[node], variables', KnownIds)
  <2>1. Arity[node] \in Nat
    BY DEF Arity
  <2> QED
    BY <2>1, IdTypes DEF CanBe
<1>4. f \in VisitOf(Nodes')
  BY <1>3, NewVisits
<1>5. Fits(f, variables', KnownIds)
  BY <1>3, NewVisits
<1>6. f.node # "fn"
  BY DEF NewVisit
<1>7. <<>> \in Seq(Seq(Nat)) /\ asked' = asked \o <<>> /\ ToSet(<<>>) = {}
  <2>1. asked \in Seq(Seq(Nat))
    BY <1>1, Walks
  <2> QED
    BY <1>2, <2>1, EmptySeq, ConcatEmptySeq DEF ToSet
<1>8. Valued(f) = {}
  BY <1>3, NewVisits
<1> HIDE DEF f
<1> QED
  BY <1>1, <1>2, <1>4, <1>5, <1>6, <1>7, <1>8, LeftsSame, PushStep

LEMMA CallInv ==
    ASSUME IInv, NEW id \in Visible, NEW args \in 0..MaxArgs, Call(id, args)
    PROVE  IInv'
<1> DEFINE f == NewVisit("call", id, args)
<1>1. /\ stage = "expressions" /\ visits # <<>>
      /\ Stacked(visits, Nodes, variables, KnownIds)
      /\ Open(visits[Len(visits)])
      /\ ids \in Nat
  BY AtOpen DEF Call, Expression, Goes
<1>2. /\ visits' = Append(visits, f)
      /\ asked' = asked \o <<id>>
      /\ \E form : Counted(form)
      /\ UNCHANGED <<unit, stage, item, scope, concrete, variables, temps, edges,
                     fn_ret_type, results, errors, ids, lvalues>>
  BY DEF Call, Expression, Goes, Visits, Asks
<1>3. id \in Seq(Nat) /\ id \in variables \cup Later
  BY <1>1, VisibleKnown, VisibleLater
<1>4. CanBe("call", id, args, variables', KnownIds)
  <2>1. args \in Nat /\ "call" \notin DOMAIN Arity
    BY BoundsAssumption DEF Arity
  <2> QED
    BY <1>3, <2>1 DEF CanBe
<1>5. f \in VisitOf(Nodes')
  BY <1>4, NewVisits
<1>6. Fits(f, variables', KnownIds)
  BY <1>4, NewVisits
<1>7. f.node # "fn"
  BY DEF NewVisit
<1>8. /\ <<id>> \in Seq(Seq(Nat))
      /\ ToSet(<<id>>) \subseteq variables \cup Later \cup Pending(visits) \cup Valued(f)
  BY <1>3 DEF ToSet
<1>9. Valued(f) = {}
  BY <1>4, NewVisits
<1> HIDE DEF f
<1> QED
  BY <1>1, <1>2, <1>5, <1>6, <1>7, <1>8, <1>9, LeftsSame, PushStep

(* What the end of a visit starts from. *)
LEMMA AtEnd ==
    ASSUME IInv, Visits("end")
    PROVE  /\ stage = "expressions" /\ visits # <<>>
           /\ Stacked(visits, Nodes, variables, KnownIds)
           /\ top = visits[Len(visits)]
           /\ top \in VisitOf(Nodes) /\ Fits(top, variables, KnownIds)
           /\ top.arity \in Nat
           /\ \A i \in 1..top.arity : top.children[i] \in Nodes
           /\ top.node \in DOMAIN Arity => top.arity = Arity[top.node]
           /\ temps \in Nat /\ ids \in Nat
<1>1. stage = "expressions" /\ visits # <<>> /\ Awaits(top) = "end"
  BY DEF Visits
<1>2. /\ Stacked(visits, Nodes, variables, KnownIds)
      /\ top \in VisitOf(Nodes) /\ Fits(top, variables, KnownIds)
      /\ top = visits[Len(visits)]
      /\ temps \in Nat /\ ids \in Nat
  BY <1>1, Walks
<1>3. Len(top.children) = top.arity
  BY <1>1, <1>2, AwaitsProperties
<1>4. top.arity \in Nat /\ top.children \in Seq(Nodes)
  BY <1>2 DEF VisitOf
<1>5. \A i \in 1..top.arity : top.children[i] \in Nodes
  BY <1>3, <1>4, ElementOfSeq
<1>6. top.node \in DOMAIN Arity => top.arity = Arity[top.node]
  BY <1>2 DEF Fits
<1> QED
  BY <1>1, <1>2, <1>4, <1>5, <1>6

(* An expression that ends adds temps, and edges between what is there then. *)
LEMMA ExprEndStep ==
    ASSUME IInv, NEW node, node \notin {"fn", "block"}, ExprEnd(node),
           temps' \in Nat, temps <= temps',
           NEW t \in Nodes', visits' = Leave(Front(visits), t),
           NEW new \in SUBSET (Nodes' \X Nodes'), edges' = edges \cup new
    PROVE  IInv'
<1>1. /\ stage = "expressions" /\ visits # <<>>
      /\ ids \in Nat
  BY AtEnd DEF ExprEnd, Goes
<1>2. /\ top.node = node
      /\ UNCHANGED <<unit, stage, item, scope, concrete, variables, fn_ret_type, asked,
                     results, errors, ids, lvalues, budget>>
  BY DEF ExprEnd, Goes, Visits
<1>3. top.node # "fn" /\ Valued(top) = {}
  BY <1>2 DEF Valued
<1>4. edges \subseteq Nodes' \X Nodes'
  BY <1>1, <1>2, WalkGrows
<1> QED
  BY <1>1, <1>2, <1>3, <1>4, EndStep

(* The nodes that the edges of an expression can join. *)
LEMMA ExprEndNodes ==
    ASSUME IInv, NEW node, ExprEnd(node), temps' = temps + 1
    PROVE  /\ \A i \in 1..top.arity : top.children[i] \in Nodes'
           /\ NewTemp \in Nodes' /\ temps' \in Nat /\ temps <= temps'
           /\ \A n \in Primitives : Primitive(n) \in Nodes'
           /\ node \in DOMAIN Arity => top.arity = Arity[node]
<1>1. /\ stage = "expressions" /\ visits # <<>> /\ temps \in Nat
      /\ \A i \in 1..top.arity : top.children[i] \in Nodes
      /\ top.node \in DOMAIN Arity => top.arity = Arity[top.node]
  BY AtEnd DEF ExprEnd, Goes
<1>2. UNCHANGED <<concrete, variables>> /\ top.node = node
  BY DEF ExprEnd
<1>3. temps' \in Nat /\ temps <= temps' /\ temps + 1 \in 1..temps'
  BY <1>1
<1>4. /\ Nodes \subseteq Nodes'
      /\ \A n \in 1..temps' : Temp(n) \in Nodes'
      /\ \A n \in Primitives : Primitive(n) \in Nodes'
  BY <1>1, <1>2, <1>3, WalkGrows
<1>5. NewTemp \in Nodes'
  BY <1>3, <1>4 DEF NewTemp
<1> QED
  BY <1>1, <1>2, <1>3, <1>4, <1>5

LEMMA IfExprEndInv ==
    ASSUME IInv, IfExprEnd
    PROVE  IInv'
<1> DEFINE left == top.children[2]
           right == top.children[3]
           new == {<<child, Primitive("bool")>>} \cup IfExprEdges(NewTemp, left, right)
<1>1. /\ ExprEnd("if_expr") /\ temps' = temps + 1
      /\ edges' = edges \cup new /\ visits' = Leave(Front(visits), NewTemp)
  BY DEF IfExprEnd, Draw
<1>2. /\ \A i \in 1..top.arity : top.children[i] \in Nodes'
      /\ NewTemp \in Nodes' /\ temps' \in Nat /\ temps <= temps'
      /\ \A n \in Primitives : Primitive(n) \in Nodes'
      /\ "if_expr" \in DOMAIN Arity => top.arity = Arity["if_expr"]
  BY <1>1, ExprEndNodes
<1>3. top.arity = 3
  BY <1>2 DEF Arity
<1>4. child \in Nodes' /\ left \in Nodes' /\ right \in Nodes'
  BY <1>2, <1>3 DEF child
<1>5. new \in SUBSET (Nodes' \X Nodes')
  BY <1>2, <1>4 DEF IfExprEdges, Primitives
<1> HIDE DEF new
<1> QED
  BY <1>1, <1>2, <1>5, ExprEndStep

LEMMA UnaryEndInv ==
    ASSUME IInv, UnaryEnd
    PROVE  IInv'
<1> DEFINE new == {<<child, Primitive("float")>>, <<NewTemp, Primitive("float")>>}
<1>1. /\ ExprEnd("unary") /\ temps' = temps + 1
      /\ edges' = edges \cup new /\ visits' = Leave(Front(visits), child)
  BY DEF UnaryEnd, Draw
<1>2. /\ \A i \in 1..top.arity : top.children[i] \in Nodes'
      /\ NewTemp \in Nodes' /\ temps' \in Nat /\ temps <= temps'
      /\ \A n \in Primitives : Primitive(n) \in Nodes'
      /\ "unary" \in DOMAIN Arity => top.arity = Arity["unary"]
  BY <1>1, ExprEndNodes
<1>3. top.arity = 1
  BY <1>2, ArityOne
<1>4. child \in Nodes'
  BY <1>2, <1>3 DEF child
<1>5. new \in SUBSET (Nodes' \X Nodes')
  BY <1>2, <1>4 DEF Primitives
<1> HIDE DEF new
<1> QED
  BY <1>1, <1>2, <1>4, <1>5, ExprEndStep

LEMMA BinaryEndInv ==
    ASSUME IInv, NEW node \in {"equality", "comparison", "arithmetic"}, BinaryEnd(node)
    PROVE  IInv'
<1> DEFINE right == top.children[2]
           new == BinaryEdges(node, NewTemp, child, right)
<1>1. /\ ExprEnd(node) /\ temps' = temps + 1
      /\ edges' = edges \cup new /\ visits' = Leave(Front(visits), NewTemp)
  BY DEF BinaryEnd, Draw
<1>2. /\ \A i \in 1..top.arity : top.children[i] \in Nodes'
      /\ NewTemp \in Nodes' /\ temps' \in Nat /\ temps <= temps'
      /\ \A n \in Primitives : Primitive(n) \in Nodes'
      /\ node \in DOMAIN Arity => top.arity = Arity[node]
  BY <1>1, ExprEndNodes
<1>3. top.arity = 2
  BY <1>2 DEF Arity
<1>4. child \in Nodes' /\ right \in Nodes'
  BY <1>2, <1>3 DEF child
<1>5. Primitive("float") \in Nodes' /\ Primitive("bool") \in Nodes'
  BY <1>2 DEF Primitives
<1> HIDE DEF right
<1>6. new \in SUBSET (Nodes' \X Nodes')
  <2>1. CASE node = "equality"
    BY <1>2, <1>4, <1>5, <2>1 DEF BinaryEdges
  <2>2. CASE node = "comparison"
    BY <1>2, <1>4, <1>5, <2>2 DEF BinaryEdges
  <2>3. CASE node = "arithmetic"
    BY <1>2, <1>4, <1>5, <2>3 DEF BinaryEdges
  <2> QED
    BY <2>1, <2>2, <2>3
<1> HIDE DEF new
<1> QED
  BY <1>1, <1>2, <1>6, ExprEndStep

LEMMA CallEndInv ==
    ASSUME IInv, CallEnd
    PROVE  IInv'
<1> DEFINE new == {<<Temp(temps + a), top.children[a]>> : a \in 1..top.arity}
           t == Temp(temps + top.arity + 1)
<1>1. /\ ExprEnd("call") /\ temps' = temps + top.arity + 1
      /\ edges' = edges \cup new /\ visits' = Leave(Front(visits), t)
  BY DEF CallEnd, Draw
<1>2. /\ stage = "expressions" /\ visits # <<>> /\ temps \in Nat /\ top.arity \in Nat
      /\ \A i \in 1..top.arity : top.children[i] \in Nodes
  BY <1>1, AtEnd DEF ExprEnd, Goes
<1>3. UNCHANGED <<concrete, variables>>
  BY <1>1 DEF ExprEnd
<1>4. /\ temps' \in Nat /\ temps <= temps' /\ temps + top.arity + 1 \in 1..temps'
      /\ \A a \in 1..top.arity : temps + a \in 1..temps'
  BY <1>1, <1>2
<1>5. Nodes \subseteq Nodes' /\ \A n \in 1..temps' : Temp(n) \in Nodes'
  BY <1>2, <1>3, <1>4, WalkGrows
<1>6. new \in SUBSET (Nodes' \X Nodes') /\ t \in Nodes'
  BY <1>2, <1>4, <1>5
<1> HIDE DEF new, t
<1> QED
  BY <1>1, <1>4, <1>6, ExprEndStep

-----------------------------------------------------------------------------
(* Statements and blocks. *)

LEMMA Phases ==
    ASSUME IInv, Statement, NEW last \in BOOLEAN
    PROVE  /\ stage = "expressions" /\ visits # <<>>
           /\ Stacked(AtPhase(last), Nodes, variables, KnownIds)
           /\ Open(AtPhase(last)[Len(AtPhase(last))])
           /\ Pending(AtPhase(last)) = Pending(visits)
           /\ top \in VisitOf(Nodes) /\ top.node = "block"
           /\ temps \in Nat /\ ids \in Nat
<1>1. /\ stage = "expressions" /\ visits # <<>>
      /\ Stacked(visits, Nodes, variables, KnownIds)
      /\ Open(visits[Len(visits)])
      /\ top = visits[Len(visits)]
      /\ top \in VisitOf(Nodes) /\ Fits(top, variables, KnownIds)
      /\ Awaits(top) = "stmt"
      /\ temps \in Nat /\ ids \in Nat
  BY AtOpen DEF Statement, Goes
<1>2. top.node = "block"
  BY <1>1, AwaitsProperties
<1> DEFINE phase == IF last THEN "last" ELSE "stmts"
           f == [top EXCEPT !.phase = phase]
<1>3. phase \in {"start", "stmts", "last"}
  OBVIOUS
<1>4. AtPhase(last) = [visits EXCEPT ![Len(visits)] = f]
  BY <1>1 DEF AtPhase
<1> HIDE DEF phase
<1>5. f \in VisitOf(Nodes)
  BY <1>1, <1>3 DEF VisitOf
<1>6. /\ f.node = top.node /\ f.id = top.id /\ f.arity = top.arity
      /\ f.children = top.children /\ f.declared = top.declared /\ f.source = top.source
  BY <1>1 DEF VisitOf
<1> HIDE DEF f
<1>7. Fits(f, variables, KnownIds) /\ Valued(f) = Valued(top) /\ Open(f)
  BY <1>1, <1>6 DEF Fits, Valued, Open
<1> DEFINE vs == [visits EXCEPT ![Len(visits)] = f]
<1>8. /\ Stacked(vs, Nodes, variables, KnownIds)
      /\ Len(vs) = Len(visits) /\ vs[Len(visits)] = f
      /\ Pending(vs) = Pending(visits)
  BY <1>1, <1>5, <1>6, <1>7, SetTop
<1> QED
  BY <1>1, <1>2, <1>4, <1>7, <1>8

LEMMA NothingMore ==
    ASSUME IInv, stage = "expressions", visits # <<>>
    PROVE  <<>> \in Seq(Seq(Nat)) /\ asked = asked \o <<>> /\ ToSet(<<>>) = {}
<1>1. asked \in Seq(Seq(Nat))
  BY Walks
<1> QED
  BY <1>1, EmptySeq, ConcatEmptySeq DEF ToSet

(* The last statement of a block with a source leaves the id of the block.   *)
LEMMA SimpleLefts ==
    ASSUME IInv, NEW last \in BOOLEAN, Simple(last)
    PROVE  Lefts
<1>1. /\ top \in VisitOf(Nodes) /\ top.node = "block"
      /\ Stacked(visits, Nodes, variables, KnownIds)
  <2>1. Statement
    BY DEF Simple
  <2> QED
    BY <2>1, Phases, Walks DEF Statement, Goes, Visits
<1>2. lvalues \in Seq(Seq(Nat)) /\ lvalues' = LeftBy(last)
  BY DEF IInv, TypeOK, Simple
<1>3. CASE last /\ top.source
  <2>1. lvalues' = Append(lvalues, top.id) /\ top.id \in Seq(Nat)
    BY <1>1, <1>2, <1>3 DEF LeftBy, VisitOf
  <2>2. top.id \in Pending(visits)
    <3>1. Len(visits) \in 1..Len(visits)
      <4>1. Len(visits) \in Nat \ {0}
        BY <1>1, StackTop
      <4> QED
        BY <4>1
    <3>2. top.id \in Valued(visits[Len(visits)])
      BY <1>1, <1>3 DEF Valued, top
    <3> QED
      BY <3>1, <3>2, PendingItems
  <2>3. <<top.id>> \in Seq(Seq(Nat)) /\ ToSet(<<top.id>>) = {top.id}
    BY <2>1 DEF ToSet
  <2>4. Append(lvalues, top.id) = lvalues \o <<top.id>>
    BY <1>2, <2>1, AppendIsConcat
  <2>5. /\ lvalues' \in Seq(Seq(Nat))
        /\ ToSet(lvalues') = ToSet(lvalues) \cup {top.id}
    <3> DEFINE more == <<top.id>>
    <3>1. lvalues' = lvalues \o more /\ more \in Seq(Seq(Nat)) /\ ToSet(more) = {top.id}
      BY <2>1, <2>3, <2>4
    <3> HIDE DEF more
    <3> QED
      BY <1>2, <3>1, AskMore
  <2> QED
    BY <2>2, <2>5 DEF Lefts
<1>4. CASE ~(last /\ top.source)
  BY <1>2, <1>4 DEF LeftBy, Lefts
<1> QED
  BY <1>3, <1>4

(* pop_source *)
LEMMA PopLefts ==
    ASSUME NEW s \in Seq(Seq(Nat)), s # <<>>
    PROVE  /\ Front(s) \in Seq(Seq(Nat)) /\ ToSet(Front(s)) \subseteq ToSet(s)
           /\ Last(s) \in Seq(Nat) /\ Last(s) \in ToSet(s)
<1>1. /\ Len(s) \in Nat \ {0} /\ Front(s) \in Seq(Seq(Nat))
      /\ s[Len(s)] \in Seq(Nat)
      /\ Len(Front(s)) = Len(s) - 1
      /\ \A i \in 1..(Len(s) - 1) : Front(s)[i] = s[i]
  BY FrontItems
<1>2. DOMAIN s = 1..Len(s) /\ DOMAIN Front(s) = 1..Len(Front(s))
  BY <1>1, LenProperties
<1>3. \A i \in 1..Len(Front(s)) : i \in 1..Len(s) /\ Front(s)[i] = s[i]
  BY <1>1
<1>4. Len(s) \in 1..Len(s)
  BY <1>1
<1> QED
  BY <1>1, <1>2, <1>3, <1>4 DEF ToSet, Last

LEMMA SimpleBeginInv ==
    ASSUME IInv, NEW last \in BOOLEAN, Simple(last),
           NEW node \in {"let", "return", "stmt"}, NEW id \in KnownIds \cup {None},
           visits' = Append(AtPhase(last), NewVisit(node, id, 1)),
           UNCHANGED budget \/ \E form : Counted(form), UNCHANGED edges
    PROVE  IInv'
<1> DEFINE f == NewVisit(node, id, 1)
           vs == AtPhase(last)
<1>1. Statement
  BY DEF Simple
<1>2. /\ stage = "expressions" /\ visits # <<>>
      /\ Stacked(vs, Nodes, variables, KnownIds)
      /\ Open(vs[Len(vs)])
      /\ Pending(vs) = Pending(visits)
      /\ ids \in Nat
  BY <1>1, Phases
<1>3. /\ visits' = Append(vs, f)
      /\ UNCHANGED <<unit, stage, item, scope, concrete, variables, temps, edges,
                     fn_ret_type, asked, results, errors, ids>>
  BY DEF Simple, Statement, Goes, Visits
<1>4. CanBe(node, id, 1, variables', KnownIds)
  <2>1. unit \in Seq(Item)
    BY DEF IInv, ScopeInv
  <2>2. id \in Seq(Nat)
    BY <2>1, KnownTypes, IdTypes
  <2> QED
    BY <2>2, ArityOne DEF CanBe
<1>5. f \in VisitOf(Nodes')
  BY <1>4, NewVisits
<1>6. Fits(f, variables', KnownIds)
  BY <1>4, NewVisits
<1>7. f.node # "fn"
  BY DEF NewVisit
<1>8. <<>> \in Seq(Seq(Nat)) /\ asked' = asked \o <<>> /\ ToSet(<<>>) = {}
  BY <1>2, <1>3, NothingMore
<1>9. Valued(f) = {}
  BY <1>4, NewVisits
<1> HIDE DEF f, vs
<1> QED
  BY <1>2, <1>3, <1>5, <1>6, <1>7, <1>8, <1>9, SimpleLefts, PushStep

LEMMA LetBeginInv ==
    ASSUME IInv, NEW last \in BOOLEAN, NEW type \in DeclaredTypes \cup {None},
           LetBegin(last, type)
    PROVE  IInv'
<1>1. \A n \in DOMAIN names : names[n] \in KnownIds
  BY DEF IInv, ScopeInv
<1>2. type \in KnownIds \cup {None}
  BY <1>1 DEF DeclaredTypes
<1>3. /\ Simple(last)
      /\ visits' = Append(AtPhase(last), NewVisit("let", type, 1))
      /\ \E form : Counted(form)
      /\ UNCHANGED edges
  BY DEF LetBegin
<1> QED
  BY <1>2, <1>3, SimpleBeginInv

LEMMA ReturnBeginInv ==
    ASSUME IInv, NEW last \in BOOLEAN, ReturnBegin(last)
    PROVE  IInv'
<1>1. /\ Simple(last)
      /\ visits' = Append(AtPhase(last), NewVisit("return", None, 1))
      /\ \E form : Counted(form)
      /\ UNCHANGED edges
  BY DEF ReturnBegin
<1> QED
  BY <1>1, SimpleBeginInv

LEMMA ExprBeginInv ==
    ASSUME IInv, NEW last \in BOOLEAN, ExprBegin(last)
    PROVE  IInv'
<1>1. /\ Simple(last)
      /\ visits' = Append(AtPhase(last), NewVisit("stmt", None, 1))
      /\ UNCHANGED budget \/ \E form : Counted(form)
      /\ UNCHANGED edges
  BY DEF ExprBegin
<1> QED
  BY <1>1, SimpleBeginInv

LEMMA ReturnEmptyInv ==
    ASSUME IInv, NEW last \in BOOLEAN, ReturnEmpty(last)
    PROVE  IInv'
<1> DEFINE vs == AtPhase(last)
           t == Primitive("()")
<1>1. Statement
  BY DEF ReturnEmpty, Simple
<1>2. /\ stage = "expressions" /\ visits # <<>>
      /\ Stacked(vs, Nodes, variables, KnownIds)
      /\ Open(vs[Len(vs)])
      /\ Pending(vs) = Pending(visits)
      /\ temps \in Nat
  BY <1>1, Phases
<1>3. /\ visits' = Leave(vs, t)
      /\ edges' = edges \cup EmptyReturnEdges
      /\ \E form : Counted(form)
      /\ UNCHANGED <<unit, stage, item, scope, concrete, variables, temps, fn_ret_type,
                     asked, results, errors, ids>>
  BY DEF ReturnEmpty, Simple, Statement, Goes, Visits, Draw
<1>4. temps' \in Nat /\ temps <= temps'
  BY <1>2, <1>3
<1>5. t \in Nodes' /\ fn_ret_type \in Nodes' /\ edges \subseteq Nodes' \X Nodes'
  <2>1. "()" \in Primitives
    BY DEF Primitives
  <2> QED
    BY <1>2, <1>3, <1>4, <2>1, WalkGrows
<1>6. edges' \subseteq Nodes' \X Nodes'
  BY <1>3, <1>5 DEF EmptyReturnEdges
<1>7. <<>> \in Seq(Seq(Nat)) /\ asked' = asked \o <<>> /\ ToSet(<<>>) \subseteq variables
  BY <1>2, <1>3, NothingMore
<1>8. Lefts
  BY SimpleLefts DEF ReturnEmpty
<1> HIDE DEF vs, t
<1> QED
  BY <1>2, <1>3, <1>4, <1>5, <1>6, <1>7, <1>8, LeafStep

(* A block takes the source of the node it belongs to.                       *)
LEMMA BlockBeginInv ==
    ASSUME IInv, stage = "expressions", visits # <<>>,
           NEW vs, Stacked(vs, Nodes, variables, KnownIds), Open(vs[Len(vs)]),
           Pending(vs) = Pending(visits),
           NEW source \in Seq(Nat),
           source # None => source \in variables \cup Pending(visits),
           visits' = Append(vs, BlockVisit(source, NewId)),
           asked' = asked \o AsksOf(source, NewId),
           ids' \in Nat, UNCHANGED budget \/ \E form : Counted(form),
           UNCHANGED <<unit, stage, item, scope, concrete, variables, temps, edges,
                       fn_ret_type, results, errors, lvalues>>
    PROVE  IInv'
<1> DEFINE f == BlockVisit(source, NewId)
           more == AsksOf(source, NewId)
<1>1. NewId \in Seq(Nat)
  BY Walks
<1>2. f \in VisitOf(Nodes')
  BY <1>1, BlockVisits
<1>3. Fits(f, variables', KnownIds)
  BY <1>1, BlockVisits
<1>4. f.node # "fn"
  <2>1. f.node = "block"
    BY <1>1, BlockVisits
  <2> QED
    BY <2>1
<1>5. Valued(f) = IF source = None THEN {} ELSE {NewId}
  BY <1>1, BlockVisits
<1>6. /\ more \in Seq(Seq(Nat))
      /\ ToSet(more) = IF source = None THEN {} ELSE {source, NewId}
  BY <1>1, AsksOfTypes
<1>7. ToSet(more) \subseteq variables \cup Later \cup Pending(visits) \cup Valued(f)
  BY <1>5, <1>6
<1>9. Valued(f) \subseteq ToSet(more)
  BY <1>5, <1>6
<1> HIDE DEF f, more
<1>8. visits' = Append(vs, f) /\ asked' = asked \o more
  BY DEF f, more
<1> QED
  BY <1>2, <1>3, <1>4, <1>6, <1>7, <1>8, <1>9, LeftsSame, PushStep

LEMMA DoBlockInv ==
    ASSUME IInv, NEW last \in BOOLEAN, DoBlock(last)
    PROVE  IInv'
<1> DEFINE vs == AtPhase(last)
           source == IF last /\ top.source THEN top.id ELSE None
<1>1. Statement
  BY DEF DoBlock, Nested
<1>2. /\ stage = "expressions" /\ visits # <<>>
      /\ Stacked(vs, Nodes, variables, KnownIds)
      /\ Open(vs[Len(vs)])
      /\ Pending(vs) = Pending(visits)
      /\ top \in VisitOf(Nodes) /\ top.node = "block"
      /\ ids \in Nat
  BY <1>1, Phases
<1>3. /\ visits' = Append(vs, BlockVisit(source, NewId))
      /\ asked' = asked \o AsksOf(source, NewId)
      /\ ids' = ids + 1
      /\ \E form : Counted(form)
      /\ UNCHANGED <<unit, stage, item, scope, concrete, variables, temps, edges,
                     fn_ret_type, results, errors, lvalues>>
  BY DEF DoBlock, Nested, Statement, Goes, Visits, Asks
<1>4. source \in Seq(Nat)
  BY <1>2, IdTypes DEF VisitOf
<1>5. source # None => source \in variables \cup Pending(visits)
  <2>1. Stacked(visits, Nodes, variables, KnownIds) /\ top = visits[Len(visits)]
    BY <1>2, Walks
  <2>2. Len(visits) \in 1..Len(visits)
    BY <2>1, StackTop
  <2>3. \A x \in Valued(top) : x \in Pending(visits)
    BY <2>1, <2>2, PendingItems
  <2>4. source # None => source \in Valued(top)
    BY <1>2 DEF Valued
  <2> QED
    BY <2>3, <2>4
<1>6. ids' \in Nat
  BY <1>2, <1>3
<1> HIDE DEF vs, source
<1> QED
  BY <1>2, <1>3, <1>4, <1>5, <1>6, BlockBeginInv

LEMMA IfBlockInv ==
    ASSUME IInv, IfBlock
    PROVE  IInv'
<1> DEFINE source == IF top.source THEN top.id ELSE None
<1>1. /\ stage = "expressions" /\ visits # <<>>
      /\ Stacked(visits, Nodes, variables, KnownIds)
      /\ Open(visits[Len(visits)])
      /\ top \in VisitOf(Nodes) /\ Fits(top, variables, KnownIds)
      /\ Awaits(top) = "block"
      /\ ids \in Nat
  BY AtOpen DEF IfBlock, Goes
<1>2. /\ visits' = Append(visits, BlockVisit(source, NewId))
      /\ asked' = asked \o AsksOf(source, NewId)
      /\ ids' = ids + 1
      /\ UNCHANGED <<unit, stage, item, scope, concrete, variables, temps, edges,
                     fn_ret_type, results, errors, lvalues, budget>>
  BY DEF IfBlock, Goes, Visits, Asks, graph
<1>3. top.node = "if"
  BY <1>1, AwaitsProperties
<1>4. source \in Seq(Nat)
  BY <1>1, IdTypes DEF VisitOf
<1>5. source # None => source \in variables
  BY <1>1, <1>3 DEF Fits
<1>6. ids' \in Nat
  BY <1>1, <1>2
<1> HIDE DEF source
<1> QED
  BY <1>1, <1>2, <1>4, <1>5, <1>6, BlockBeginInv

LEMMA IfBeginInv ==
    ASSUME IInv, NEW last \in BOOLEAN, NEW branches \in 1..MaxBranches, NEW else \in BOOLEAN,
           IfBegin(last, branches, else)
    PROVE  IInv'
<1> DEFINE vs == AtPhase(last)
           arity == 2 * branches + IF else THEN 1 ELSE 0
           g == NewVisit("if", NewId, arity)
           valued == last /\ top.source
           f == [g EXCEPT !.source = valued]
<1>1. Statement
  BY DEF IfBegin, Nested
<1>2. /\ stage = "expressions" /\ visits # <<>>
      /\ Stacked(vs, Nodes, variables, KnownIds)
      /\ Open(vs[Len(vs)])
      /\ Pending(vs) = Pending(visits)
      /\ top \in VisitOf(Nodes)
      /\ ids \in Nat
  BY <1>1, Phases
<1>3. /\ visits' = Append(vs, f)
      /\ variables' = variables \cup {NewId}
      /\ ids' = ids + 1
      /\ \E form : Counted(form)
      /\ UNCHANGED <<unit, stage, item, scope, concrete, temps, edges, fn_ret_type,
                     asked, results, errors, lvalues>>
  BY DEF IfBegin, Nested, Statement, Goes, Visits
<1>4. CanBe("if", NewId, arity, variables', KnownIds)
  <2>1. NewId \in Seq(Nat)
    BY <1>2, Walks
  <2>2. arity \in Nat /\ "if" \notin DOMAIN Arity
    BY BoundsAssumption DEF Arity
  <2> QED
    BY <1>3, <2>1, <2>2 DEF CanBe
<1>5. g \in VisitOf(Nodes')
  BY <1>4, NewVisits
<1>6. Fits(g, variables', KnownIds)
  BY <1>4, NewVisits
<1>7. g.node = "if"
  BY DEF NewVisit
<1>13. g.node = "if"
  BY DEF NewVisit
<1> HIDE DEF g
<1>8. f = [g EXCEPT !.source = TRUE] \/ f = [g EXCEPT !.source = FALSE]
  <2>1. CASE valued
    <3>1. valued = TRUE
      BY <2>1
    <3> QED
      BY <3>1, Zenon
  <2>2. CASE ~valued
    <3>1. valued = FALSE
      BY <2>2
    <3> QED
      BY <3>1, Zenon
  <2> QED
    BY <2>1, <2>2
<1> HIDE DEF f
<1>9. f \in VisitOf(Nodes') /\ Fits(f, variables', KnownIds)
  <2> DEFINE N2 == Nodes'
             V2 == variables'
  <2>1. g \in VisitOf(N2) /\ Fits(g, V2, KnownIds)
    BY <1>5, <1>6
  <2> HIDE DEF N2, V2
  <2>2. /\ [g EXCEPT !.source = TRUE] \in VisitOf(N2)
        /\ [g EXCEPT !.source = FALSE] \in VisitOf(N2)
    BY <2>1, SourceVisits
  <2>3. /\ Fits([g EXCEPT !.source = TRUE], V2, KnownIds)
        /\ Fits([g EXCEPT !.source = FALSE], V2, KnownIds)
    BY <2>1, SourceVisits
  <2> QED
    BY <1>8, <2>2, <2>3 DEF N2, V2
<1>12. f.node # "fn" /\ Valued(f) = {}
  <2>1. f.node = "if"
    BY <1>5, <1>8, <1>13 DEF VisitOf
  <2> QED
    BY <2>1 DEF Valued
<1>10. <<>> \in Seq(Seq(Nat)) /\ asked' = asked \o <<>> /\ ToSet(<<>>) = {}
  BY <1>2, <1>3, NothingMore
<1>11. ids' \in Nat
  BY <1>2, <1>3
<1> HIDE DEF vs
<1> QED
  BY <1>2, <1>3, <1>9, <1>10, <1>11, <1>12, LeftsSame, PushStep

LEMMA EmptyBlockInv ==
    ASSUME IInv, EmptyBlock
    PROVE  IInv'
<1>1. /\ stage = "expressions" /\ visits # <<>>
      /\ top \in VisitOf(Nodes) /\ Fits(top, variables, KnownIds)
      /\ Awaits(top) = "stmt"
      /\ temps \in Nat /\ ids \in Nat
  BY AtOpen DEF EmptyBlock, Goes
<1>2. /\ visits' = Leave(Front(visits), Primitive("()"))
      /\ ~top.source
      /\ UNCHANGED <<unit, stage, item, scope, concrete, variables, temps, edges,
                     fn_ret_type, asked, results, errors, ids, lvalues, budget>>
  BY DEF EmptyBlock, Goes, Visits, graph
<1>3. top.node = "block"
  BY <1>1, AwaitsProperties
<1>4. temps' \in Nat /\ temps <= temps' /\ ids' \in Nat
  BY <1>1, <1>2
<1>5. Primitive("()") \in Nodes' /\ edges' \subseteq Nodes' \X Nodes'
  <2>1. "()" \in Primitives
    BY DEF Primitives
  <2> QED
    BY <1>1, <1>2, <1>4, <2>1, WalkGrows
<1>6. Valued(top) \subseteq variables'
  BY <1>2 DEF Valued
<1> QED
  BY <1>1, <1>2, <1>3, <1>4, <1>5, <1>6, EndStep

(* A statement or a block that ends. *)
LEMMA EndsStep ==
    ASSUME IInv, NEW node, node # "fn", Ends(node),
           variables \subseteq variables', ids' \in Nat, asked' = asked,
           NEW t \in Nodes', visits' = Leave(Front(visits), t),
           Valued(top) \subseteq variables',
           NEW new \in SUBSET (Nodes' \X Nodes'), edges' = edges \cup new
    PROVE  IInv'
<1>1. /\ stage = "expressions" /\ visits # <<>>
      /\ temps \in Nat
  BY AtEnd DEF Ends, Goes
<1>2. /\ top.node = node
      /\ UNCHANGED <<unit, stage, item, scope, concrete, temps, fn_ret_type,
                     results, errors, lvalues, budget>>
  BY DEF Ends, Goes, Visits
<1>3. temps' \in Nat /\ temps <= temps'
  BY <1>1, <1>2
<1>4. edges' \subseteq Nodes' \X Nodes'
  <2>1. edges \subseteq Nodes' \X Nodes'
    BY <1>1, <1>2, <1>3, WalkGrows
  <2> QED
    BY <2>1
<1> QED
  BY <1>1, <1>2, <1>3, <1>4, EndStep

LEMMA EndsNodes ==
    ASSUME IInv, NEW node, Ends(node), variables \subseteq variables'
    PROVE  /\ \A i \in 1..top.arity : top.children[i] \in Nodes'
           /\ \A id \in variables' : Var(id) \in Nodes'
           /\ \A n \in Primitives : Primitive(n) \in Nodes'
           /\ \A id \in KnownIds : GetType(id) \in Nodes'
           /\ fn_ret_type \in Nodes'
           /\ node \in DOMAIN Arity => top.arity = Arity[node]
           /\ ids \in Nat /\ top.arity \in Nat
           /\ top \in VisitOf(Nodes) /\ Fits(top, variables, KnownIds)
<1>1. /\ stage = "expressions" /\ visits # <<>> /\ temps \in Nat /\ ids \in Nat
      /\ top.arity \in Nat
      /\ \A i \in 1..top.arity : top.children[i] \in Nodes
      /\ top.node \in DOMAIN Arity => top.arity = Arity[top.node]
      /\ top \in VisitOf(Nodes) /\ Fits(top, variables, KnownIds)
  BY AtEnd DEF Ends, Goes
<1>2. UNCHANGED <<concrete, temps>> /\ top.node = node
  BY DEF Ends
<1>3. temps' \in Nat /\ temps <= temps'
  BY <1>1, <1>2
<1>4. /\ Nodes \subseteq Nodes'
      /\ \A id \in variables' : Var(id) \in Nodes'
      /\ \A n \in Primitives : Primitive(n) \in Nodes'
      /\ \A id \in KnownIds : GetType(id) \in Nodes'
      /\ fn_ret_type \in Nodes'
  BY <1>1, <1>2, <1>3, WalkGrows
<1> QED
  BY <1>1, <1>2, <1>4

LEMMA BlockEndInv ==
    ASSUME IInv, BlockEnd
    PROVE  IInv'
<1>1. Ends("block") /\ UNCHANGED <<asked, ids, lvalues>> /\ top.node = "block"
  BY DEF BlockEnd, Ends
<1>2. variables \subseteq variables'
  BY DEF BlockEnd
<1>3. /\ \A i \in 1..top.arity : top.children[i] \in Nodes'
      /\ \A id \in variables' : Var(id) \in Nodes'
      /\ \A n \in Primitives : Primitive(n) \in Nodes'
      /\ "block" \in DOMAIN Arity => top.arity = Arity["block"]
      /\ ids' \in Nat
  BY <1>1, <1>2, EndsNodes
<1>4. child \in Nodes'
  <2>1. 1 \in 1..top.arity
    BY <1>3, ArityOne
  <2> QED
    BY <1>3, <2>1 DEF child
<1>5. CASE top.source
  <2> DEFINE new == {<<Var(top.id), child>>}
             t == Var(top.id)
  <2>1. /\ variables' = variables \cup {top.id}
        /\ edges' = edges \cup new
        /\ visits' = Leave(Front(visits), t)
    BY <1>5 DEF BlockEnd, Draw
  <2>2. t \in Nodes' /\ Valued(top) \subseteq variables'
    BY <1>3, <2>1 DEF Valued
  <2>3. new \in SUBSET (Nodes' \X Nodes')
    BY <1>4, <2>2
  <2> HIDE DEF new, t
  <2> QED
    BY <1>1, <1>2, <1>3, <2>1, <2>2, <2>3, EndsStep
<1>6. CASE ~top.source
  <2> DEFINE new == {}
             t == Primitive("()")
  <2>1. edges' = edges \cup new /\ visits' = Leave(Front(visits), t)
    BY <1>6 DEF BlockEnd
  <2>2. t \in Nodes' /\ Valued(top) \subseteq variables'
    BY <1>3, <1>6 DEF Valued, Primitives
  <2>3. new \in SUBSET (Nodes' \X Nodes')
    OBVIOUS
  <2> HIDE DEF new, t
  <2> QED
    BY <1>1, <1>2, <1>3, <2>1, <2>2, <2>3, EndsStep
<1> QED
  BY <1>5, <1>6

LEMMA ExprStmtEndInv ==
    ASSUME IInv, ExprStmtEnd
    PROVE  IInv'
<1> DEFINE new == {}
<1>1. /\ Ends("stmt") /\ UNCHANGED <<variables, edges, asked, ids, lvalues>> /\ top.node = "stmt"
      /\ visits' = Leave(Front(visits), child)
  BY DEF ExprStmtEnd, Ends
<1>2. /\ \A i \in 1..top.arity : top.children[i] \in Nodes'
      /\ "stmt" \in DOMAIN Arity => top.arity = Arity["stmt"]
      /\ ids' \in Nat
  BY <1>1, EndsNodes
<1>3. child \in Nodes'
  BY <1>2, ArityOne DEF child
<1>4. new \in SUBSET (Nodes' \X Nodes') /\ edges' = edges \cup new
  BY <1>1
<1>5. Valued(top) \subseteq variables'
  BY <1>1 DEF Valued
<1> HIDE DEF new
<1> QED
  BY <1>1, <1>2, <1>3, <1>4, <1>5, EndsStep

LEMMA ReturnEndInv ==
    ASSUME IInv, ReturnEnd
    PROVE  IInv'
<1> DEFINE new == IF child = Primitive("()") THEN {} ELSE {<<child, fn_ret_type>>}
<1>1. /\ Ends("return") /\ UNCHANGED <<variables, asked, ids, lvalues>> /\ top.node = "return"
      /\ visits' = Leave(Front(visits), child)
      /\ edges' = edges \cup new
  BY DEF ReturnEnd, Ends, Draw
<1>2. /\ \A i \in 1..top.arity : top.children[i] \in Nodes'
      /\ "return" \in DOMAIN Arity => top.arity = Arity["return"]
      /\ fn_ret_type \in Nodes'
      /\ ids' \in Nat
  BY <1>1, EndsNodes
<1>3. child \in Nodes'
  BY <1>2, ArityOne DEF child
<1>4. new \in SUBSET (Nodes' \X Nodes')
  BY <1>2, <1>3
<1>5. Valued(top) \subseteq variables'
  BY <1>1 DEF Valued
<1> HIDE DEF new
<1> QED
  BY <1>1, <1>2, <1>3, <1>4, <1>5, EndsStep

LEMMA IfEndInv ==
    ASSUME IInv, IfEnd
    PROVE  IInv'
<1> DEFINE n == top.arity \div 2
           var == Var(top.id)
           conditions == {top.children[2 * b - 1] : b \in 1..n}
           others == IF top.arity = 2 * n THEN {} ELSE {top.children[top.arity]}
           values == {<<var, top.children[2 * b]>> : b \in 1..n}
           valued == IF top.source THEN values \cup {<<o, var>> : o \in others} ELSE {}
           new == {<<c, Primitive("bool")>> : c \in conditions} \cup valued
           t == IF top.source THEN var ELSE Primitive("()")
<1>1. /\ Ends("if") /\ UNCHANGED <<variables, asked, ids, lvalues>> /\ top.node = "if"
      /\ visits' = Leave(Front(visits), t)
      /\ edges' = edges \cup new
  BY DEF IfEnd, Ends, Draw
<1>2. /\ \A i \in 1..top.arity : top.children[i] \in Nodes'
      /\ \A id \in variables' : Var(id) \in Nodes'
      /\ \A p \in Primitives : Primitive(p) \in Nodes'
      /\ ids' \in Nat /\ top.arity \in Nat
      /\ Fits(top, variables, KnownIds)
  BY <1>1, EndsNodes
<1>3. var \in Nodes' /\ Primitive("bool") \in Nodes' /\ Primitive("()") \in Nodes'
  BY <1>1, <1>2 DEF Fits, Primitives
<1>4. \A b \in 1..n : 2 * b - 1 \in 1..top.arity /\ 2 * b \in 1..top.arity
  BY <1>2
<1>5. conditions \subseteq Nodes'
  BY <1>2, <1>4
<1>6. others \subseteq Nodes'
  <2>1. top.arity # 2 * n => top.arity \in 1..top.arity
    BY <1>2
  <2> QED
    BY <1>2, <2>1
<1>7. values \subseteq Nodes' \X Nodes'
  BY <1>2, <1>3, <1>4
<1> HIDE DEF n, var, conditions, others, values
<1>8. valued \subseteq Nodes' \X Nodes'
  BY <1>3, <1>6, <1>7
<1> HIDE DEF valued
<1>9. new \in SUBSET (Nodes' \X Nodes')
  BY <1>3, <1>5, <1>8
<1>10. t \in Nodes' /\ Valued(top) \subseteq variables'
  BY <1>1, <1>3 DEF Valued
<1> HIDE DEF new, t
<1> QED
  BY <1>1, <1>2, <1>9, <1>10, EndsStep

LEMMA LetEndInv ==
    ASSUME IInv, LetEnd
    PROVE  IInv'
<1> DEFINE b == Front(visits)
           k == Len(b)
           f == [b[k] EXCEPT !.declared = @ \cup {NewId}]
           vs == [b EXCEPT ![k] = f]
           t == Primitive("()")
           new == LetEdges(NewId, top.id)
           N2 == Nodes'
           V2 == variables'
<1>1. /\ Ends("let") /\ top.node = "let"
      /\ variables' = variables \cup {NewId}
      /\ edges' = edges \cup new
      /\ asked' = asked \o <<NewId>>
      /\ ids' = ids + 1
      /\ visits' = Leave([Front(visits) EXCEPT ![Len(visits) - 1].declared = @ \cup {NewId}], t)
      /\ UNCHANGED <<unit, stage, item, scope, concrete, temps, fn_ret_type, results,
                     errors, lvalues, budget>>
  BY DEF LetEnd, Ends, Goes, Visits, Draw, Asks
<1>2. /\ stage = "expressions" /\ visits # <<>> /\ temps \in Nat /\ ids \in Nat
      /\ Stacked(visits, Nodes, variables, KnownIds) /\ top = visits[Len(visits)]
      /\ asked \in Seq(Seq(Nat)) /\ NewId \in Seq(Nat)
  BY <1>1, AtEnd, Walks DEF Ends, Goes
<1>3. /\ \A i \in 1..top.arity : top.children[i] \in N2
      /\ \A id \in variables' : Var(id) \in N2
      /\ \A n \in Primitives : Primitive(n) \in N2
      /\ \A id \in KnownIds : GetType(id) \in N2
      /\ "let" \in DOMAIN Arity => top.arity = Arity["let"]
      /\ Fits(top, variables, KnownIds)
  BY <1>1, EndsNodes
<1>4. temps' \in Nat /\ temps <= temps' /\ ids' \in Nat
  BY <1>1, <1>2
<1>5. t \in N2 /\ edges' \subseteq Nodes' \X Nodes'
  <2>1. edges \subseteq Nodes' \X Nodes'
    BY <1>1, <1>2, <1>4, WalkGrows
  <2>2. child \in Nodes'
    BY <1>3, ArityOne DEF child
  <2>3. NewId \in variables' /\ Var(NewId) \in Nodes'
    BY <1>1, <1>3
  <2>4. top.id # None => GetType(top.id) \in Nodes'
    BY <1>1, <1>3 DEF Fits
  <2>5. new \subseteq Nodes' \X Nodes'
    BY <2>2, <2>3, <2>4 DEF LetEdges
  <2>6. t \in N2
    BY <1>3 DEF Primitives
  <2> HIDE DEF new, t, N2
  <2> QED
    BY <1>1, <2>1, <2>5, <2>6
<1>6. Stacked(visits, N2, V2, KnownIds) /\ NewId \in V2
  BY <1>1, <1>2, <1>4, WalkGrows
<1>7. visits[Len(visits)].node # "fn" /\ Valued(visits[Len(visits)]) = {}
  BY <1>1, <1>2 DEF Valued
<1> HIDE DEF N2, V2
<1>8. /\ Stacked(b, N2, V2, KnownIds)
      /\ k = Len(visits) - 1
      /\ Open(b[k])
      /\ Pending(b) = Pending(visits)
  <2>1. /\ Stacked(b, N2, V2, KnownIds)
        /\ Len(b) = Len(visits) - 1
        /\ Open(b[Len(b)])
        /\ Pending(visits) = Pending(b) \cup Valued(visits[Len(visits)])
    BY <1>6, <1>7, PopStack
  <2> HIDE DEF b
  <2> QED
    BY <1>7, <2>1
<1>9. b[k] \in VisitOf(N2) /\ Fits(b[k], V2, KnownIds)
  BY <1>8, StackTop
<1>10. visits' = Leave(vs, t)
  <2>1. vs = [b EXCEPT ![k].declared = @ \cup {NewId}]
    OBVIOUS
  <2> HIDE DEF vs
  <2> QED
    BY <1>1, <1>8, <2>1 DEF b, t
<1> HIDE DEF b, k, t
<1>11. f \in VisitOf(N2)
  BY <1>2, <1>9 DEF VisitOf
<1>12. /\ f.node = b[k].node /\ f.id = b[k].id /\ f.arity = b[k].arity
       /\ f.children = b[k].children /\ f.source = b[k].source
       /\ f.declared = b[k].declared \cup {NewId}
  BY <1>9 DEF VisitOf
<1> HIDE DEF f
<1>13. Fits(f, V2, KnownIds) /\ Valued(f) = Valued(b[k]) /\ Open(f)
  BY <1>6, <1>8, <1>9, <1>12 DEF Fits, Valued, Open
<1>14. /\ Stacked(vs, N2, V2, KnownIds)
       /\ Len(vs) = k /\ vs[k] = f
       /\ Pending(vs) = Pending(b)
  BY <1>8, <1>11, <1>12, <1>13, SetTop DEF k
<1> HIDE DEF vs
<1>15. /\ Stacked(visits', N2, V2, KnownIds)
       /\ Pending(visits') = Pending(visits)
  BY <1>5, <1>8, <1>10, <1>13, <1>14, LeaveStack
<1>16. Stacked(visits', Nodes', variables', KnownIds)
  BY <1>15 DEF N2, V2
<1>19. asked' \in Seq(Seq(Nat)) /\ ToSet(asked') = ToSet(asked) \cup {NewId}
  <2>1. <<NewId>> \in Seq(Seq(Nat)) /\ ToSet(<<NewId>>) = {NewId}
    BY <1>2 DEF ToSet
  <2> QED
    BY <1>1, <1>2, <2>1, AskMore
<1>17. /\ asked' \in Seq(Seq(Nat))
       /\ ToSet(asked') \subseteq variables' \cup Later \cup Pending(visits')
  <2>1. ToSet(asked) \subseteq variables \cup Later \cup Pending(visits)
    BY <1>2 DEF IInv, AskedInv
  <2> QED
    BY <1>1, <1>15, <1>19, <2>1
<1>18. /\ lvalues' \in Seq(Seq(Nat)) /\ ToSet(lvalues') \subseteq variables' \cup Pending(visits')
       /\ ToSet(lvalues') \cup Pending(visits') \subseteq ToSet(asked')
  <2>1. /\ lvalues \in Seq(Seq(Nat)) /\ ToSet(lvalues) \subseteq variables \cup Pending(visits)
        /\ ToSet(lvalues) \cup Pending(visits) \subseteq ToSet(asked)
    BY <1>2 DEF IInv, TypeOK, LeftInv
  <2> QED
    BY <1>1, <1>15, <1>19, <2>1
<1> QED
  BY <1>1, <1>2, <1>4, <1>5, <1>16, <1>17, <1>18, WalkStep

-----------------------------------------------------------------------------
(* The beginning and the end of an item. *)

(* ExprTypographer has done with an item. *)
LEMMA NextItemInv ==
    ASSUME IInv, stage = "expressions", item \in DOMAIN unit, ItemId(item) \in variables,
           Pending(visits) \subseteq variables,
           asked' \in Seq(Seq(Nat)), ToSet(asked') \subseteq ToSet(asked) \cup {ItemId(item)},
           ToSet(asked) \subseteq ToSet(asked'), Lefts, edges' \subseteq Nodes \X Nodes,
           visits' = <<>>, item' = item + 1,
           UNCHANGED <<unit, stage, scope, concrete, variables, temps, fn_ret_type, results,
                       errors, ids, budget>>
    PROVE  IInv'
<1>1. TypeOK /\ ScopeInv /\ ItemVarsInv /\ AskedInv /\ LeftInv
  BY DEF IInv
<1>2. unit \in Seq(Item) /\ item \in Nat
  BY <1>1 DEF ScopeInv, TypeOK
<1>3. Nodes' = Nodes /\ Visit' = Visit /\ KnownIds' = KnownIds /\ TypeIds' = TypeIds
  BY DEF Nodes, Visit, KnownIds, Typedefs, TypeIds, scope
<1>4. \A i \in DOMAIN unit : /\ i < item + 1 => i < item \/ i = item
                             /\ i >= item => i >= item + 1 \/ i = item
  BY <1>2, UnitItems
<1>5. TypeOK'
  <2>1. visits' \in Seq(Visit')
    BY EmptySeq
  <2>2. /\ unit' = unit /\ stage' = stage /\ names' = names /\ types' = types
        /\ concrete' = concrete /\ variables' = variables /\ temps' = temps
        /\ fn_ret_type' = fn_ret_type /\ results' = results /\ errors' = errors
        /\ ids' = ids /\ budget' = budget /\ item' \in Nat
    BY <1>2 DEF scope
  <2>3. lvalues' \in Seq(Seq(Nat))
    BY DEF Lefts
  <2> QED
    BY <1>1, <1>3, <2>1, <2>2, <2>3 DEF TypeOK
<1>6. ScopeInv'
  BY <1>1, <1>3 DEF ScopeInv, Identified, scope
<1>7. ItemVarsInv'
  <2>1. ASSUME NEW i \in DOMAIN unit, HasVar(i)'
        PROVE  ItemId(i) \in variables
    <3>1. HasVar(i) \/ i = item
      BY <1>4, <2>1 DEF HasVar
    <3> QED
      BY <1>1, <3>1 DEF ItemVarsInv
  <2>2. ASSUME NEW i \in DOMAIN unit, HasType(i)'
        PROVE  ItemId(i) \in concrete
    <3>1. unit' = unit
      OBVIOUS
    <3>2. HasType(i)
      BY <2>2, <3>1 DEF HasType
    <3> QED
      BY <1>1, <3>2 DEF ItemVarsInv
  <2> QED
    BY <1>1, <2>1, <2>2 DEF ItemVarsInv
<1>8. AskedInv'
  <2>1. ToSet(asked) \subseteq variables \cup Later
    BY <1>1 DEF AskedInv
  <2>2. Later \subseteq Later' \cup {ItemId(item)}
    BY <1>4 DEF Later
  <2> QED
    BY <2>1, <2>2 DEF AskedInv
<1>9. VisitsInv'
  BY DEF VisitsInv
<1>10. LeftInv'
  <2>1. Pending(visits') = {}
    BY EmptySeq DEF Pending
  <2> QED
    BY <1>1, <2>1 DEF LeftInv, Lefts
<1> QED
  BY <1>5, <1>6, <1>7, <1>8, <1>9, <1>10 DEF IInv

LEMMA SkipTypedefInv ==
    ASSUME IInv, SkipTypedef
    PROVE  IInv'
<1>1. /\ stage = "expressions" /\ visits = <<>> /\ item \in DOMAIN unit
      /\ unit[item].kind = "Typedef"
      /\ asked' = Append(asked, ItemId(item)) /\ visits' = <<>> /\ item' = item + 1
      /\ UNCHANGED <<unit, stage, scope, concrete, variables, temps, edges, fn_ret_type,
                     results, errors, ids, lvalues, budget>>
  BY DEF SkipTypedef, AtItem, graph
<1>2. /\ ItemId(item) \in variables /\ edges \subseteq Nodes \X Nodes
      /\ asked \in Seq(Seq(Nat)) /\ item \in Nat
  BY <1>1 DEF IInv, TypeOK, ItemVarsInv, HasVar
<1>3. Pending(visits) = {}
  BY <1>1, EmptySeq DEF Pending
<1>4. asked' \in Seq(Seq(Nat)) /\ ToSet(asked') = ToSet(asked) \cup {ItemId(item)}
  <2>1. ItemId(item) \in Seq(Nat)
    BY <1>2, IdTypes
  <2>2. <<ItemId(item)>> \in Seq(Seq(Nat)) /\ ToSet(<<ItemId(item)>>) = {ItemId(item)}
    BY <2>1 DEF ToSet
  <2>3. asked' = asked \o <<ItemId(item)>>
    BY <1>1, <1>2, <2>1, AppendIsConcat
  <2> QED
    BY <1>2, <2>2, <2>3, AskMore
<1> QED
  BY <1>1, <1>2, <1>3, <1>4, LeftsSame, NextItemInv

LEMMA FnEndInv ==
    ASSUME IInv, FnEnd
    PROVE  IInv'
<1>1. /\ Visits("end") /\ top.node = "fn"
      /\ edges' = edges \cup ReturnedEdges
      /\ visits' = <<>> /\ item' = item + 1
      /\ UNCHANGED <<unit, stage, scope, concrete, variables, temps, fn_ret_type, asked,
                     results, errors, ids, budget>>
  BY DEF FnEnd, Visits, Draw
<1>2. /\ stage = "expressions" /\ visits # <<>>
      /\ Stacked(visits, Nodes, variables, KnownIds)
      /\ top = visits[Len(visits)]
      /\ \A i \in 1..top.arity : top.children[i] \in Nodes
      /\ top.node \in DOMAIN Arity => top.arity = Arity[top.node]
  BY <1>1, AtEnd
<1>3. /\ item \in DOMAIN unit /\ ItemId(item) \in variables /\ fn_ret_type \in Nodes
      /\ edges \subseteq Nodes \X Nodes /\ asked \in Seq(Seq(Nat))
  BY <1>2, Walks DEF IInv, VisitsInv
<1>4. Pending(visits) = {}
  <2>1. Len(visits) = 1
    BY <1>1, <1>2, StackTop
  <2>2. \A i \in 1..1 : i = 1
    OBVIOUS
  <2>3. Valued(visits[1]) = {}
    BY <1>1, <1>2, <2>1 DEF Valued
  <2>4. \A x : x \notin Pending(visits)
    BY <2>1, <2>2, <2>3, PendingItems
  <2> QED
    BY <2>4
<1>5. child \in Nodes
  BY <1>1, <1>2, ArityOne DEF child
<1>6. edges' \subseteq Nodes \X Nodes
  BY <1>1, <1>3, <1>5 DEF ReturnedEdges
<1>7. asked' \in Seq(Seq(Nat)) /\ ToSet(asked') \subseteq ToSet(asked) \cup {ItemId(item)}
  BY <1>1, <1>3
<1>8. Lefts
  <2>1. lvalues \in Seq(Seq(Nat)) /\ lvalues' = PopSource
    BY DEF IInv, TypeOK, FnEnd
  <2> QED
    BY <2>1, PopLefts DEF PopSource, Lefts
<1> QED
  BY <1>1, <1>2, <1>3, <1>4, <1>6, <1>7, <1>8, NextItemInv

(* The visits of a function and of its block begin together.                 *)
LEMMA FirstVisits ==
    ASSUME NEW N, NEW V, NEW K, NEW f \in VisitOf(N), NEW g \in VisitOf(N),
           Fits(f, V, K), Fits(g, V, K), f.node = "fn", g.node # "fn", Open(f)
    PROVE  /\ Stacked(<<f, g>>, N, V, K)
           /\ Pending(<<f, g>>) = Valued(g)
<1> DEFINE vs == <<f, g>>
<1>1. vs \in Seq(VisitOf(N)) /\ Len(vs) = 2 /\ vs[1] = f /\ vs[2] = g
  OBVIOUS
<1>2. vs # <<>>
  BY <1>1, EmptySeq
<1> HIDE DEF vs
<1>3. \A i \in 1..2 : i = 1 \/ i = 2
  OBVIOUS
<1>4. \A i \in 1..Len(vs) : Fits(vs[i], V, K) /\ (vs[i].node = "fn" <=> i = 1)
  BY <1>1, <1>3
<1>5. \A i \in 1..(Len(vs) - 1) : Open(vs[i])
  BY <1>1
<1>6. Stacked(vs, N, V, K)
  BY <1>1, <1>2, <1>4, <1>5 DEF Stacked
<1>7. 2 \in 1..Len(vs)
  BY <1>1
<1>8. \A x : x \in Pending(vs) <=> x \in Valued(g)
  <2>1. Valued(f) = {}
    BY DEF Valued
  <2> QED
    BY <1>1, <1>3, <1>7, <2>1, PendingItems
<1> QED
  BY <1>6, <1>8 DEF vs

LEMMA FnBeginInv ==
    ASSUME IInv, FnBegin
    PROVE  IInv'
<1> DEFINE id == ItemId(item)
           source == FnSource
           S == {ParamType(p) : p \in Params}
           params == [p \in Params |-> ParamId(item, p)]
           f == NewVisit("fn", id, 1)
           g == BlockVisit(source, NewId)
<1>1. /\ stage = "expressions" /\ visits = <<>> /\ item \in DOMAIN unit
      /\ unit[item].kind = "Fn"
      /\ concrete' = concrete \cup Missing(S)
      /\ variables' = variables \cup {id} \cup {ParamId(item, p) : p \in Params}
      /\ edges' = edges \cup {<<Var(id), AddedType(id)>>} \cup ParamEdges
      /\ fn_ret_type' = GetType(RetType)
      /\ visits' = <<f, g>>
      /\ asked' = asked \o <<id>> \o params \o AsksOf(source, NewId)
      /\ ids' = ids + 1
      /\ lvalues' = IF NeedRetValue THEN lvalues ELSE PopSource
      /\ UNCHANGED <<unit, stage, item, scope, temps, results, errors, budget>>
  BY DEF FnBegin, AtItem
<1>2. TypeOK /\ ScopeInv /\ ItemVarsInv /\ AskedInv /\ LeftInv
  BY DEF IInv
<1>3. /\ temps \in Nat /\ temps' \in Nat /\ temps <= temps' /\ item \in Nat /\ ids \in Nat
      /\ edges \subseteq Nodes \X Nodes /\ asked \in Seq(Seq(Nat)) /\ unit \in Seq(Item)
  BY <1>1, <1>2 DEF TypeOK, ScopeInv
<1>4. /\ RetType \in TypeIds /\ S \subseteq TypeIds
      /\ \A p \in Params : p \in Nat /\ ParamType(p) \in TypeIds
  BY <1>1, ItemTypeIds
<1>20. /\ source \in {id, None} \cup ToSet(lvalues)
       /\ lvalues' \in Seq(Seq(Nat)) /\ ToSet(lvalues') \subseteq ToSet(lvalues)
       /\ \A x \in ToSet(lvalues) : x \in Seq(Nat) /\ x \in variables
  <2>1. lvalues \in Seq(Seq(Nat))
    BY <1>2 DEF TypeOK
  <2>2. ASSUME NEW x \in ToSet(lvalues)
        PROVE  x \in Seq(Nat) /\ x \in variables
    <3>1. Pending(visits) = {}
      BY <1>1, EmptySeq DEF Pending
    <3>2. x \in variables
      BY <1>1, <1>2, <2>2, <3>1 DEF LeftInv
    <3>3. PICK i \in 1..Len(lvalues) : x = lvalues[i]
      BY <2>1, <2>2, LenProperties DEF ToSet
    <3>4. x \in Seq(Nat)
      BY <2>1, <3>3, ElementOfSeq
    <3> QED
      BY <3>2, <3>4
  <2>3. CASE lvalues = <<>> \/ NeedRetValue
    BY <1>1, <2>1, <2>2, <2>3 DEF FnSource, PopSource
  <2>4. CASE lvalues # <<>> /\ ~NeedRetValue
    BY <1>1, <2>1, <2>2, <2>4, PopLefts DEF FnSource, PopSource
  <2> QED
    BY <2>3, <2>4
<1>5. id \in Seq(Nat) /\ NewId \in Seq(Nat) /\ source \in Seq(Nat)
      /\ \A p \in Params : ParamId(item, p) \in Seq(Nat)
  <2>1. /\ id \in Seq(Nat) /\ None \in Seq(Nat)
        /\ \A p \in Params : ParamId(item, p) \in Seq(Nat)
    BY <1>3, <1>4, IdTypes
  <2>2. NewId \in Seq(Nat)
    BY <1>3 DEF NewId
  <2>3. source \in Seq(Nat)
    <3> HIDE DEF id, source
    <3> QED
      BY <1>20, <2>1
  <2> QED
    BY <2>1, <2>2, <2>3
<1>6. concrete \subseteq concrete' /\ variables \subseteq variables'
      /\ concrete' \subseteq DOMAIN types
  BY <1>1, <1>2, <1>4 DEF TypeOK, Missing, TypeIds
<1>7. /\ Nodes \subseteq Nodes'
      /\ \A i \in variables' : Var(i) \in Nodes'
  BY <1>3, <1>6, GraphGrows
<1>8. ParamEdges \subseteq Nodes' \X Nodes'
  <2>1. ASSUME NEW p \in Params
        PROVE  AddedType(ParamType(p)) \in Nodes' /\ Var(ParamId(item, p)) \in Nodes'
    <3>1. ParamType(p) \in S /\ ParamId(item, p) \in variables'
      BY <1>1
    <3> HIDE DEF S
    <3>2. AddedType(ParamType(p)) \in Nodes'
      BY <1>1, <1>3, <1>6, <3>1, AddedHasNode
    <3> QED
      BY <1>7, <3>1, <3>2
  <2> QED
    BY <2>1 DEF ParamEdges
<1>9. AddedType(id) \in Nodes' /\ Var(id) \in Nodes'
  <2>1. id \in concrete
    BY <1>1, <1>2 DEF ItemVarsInv, HasType
  <2>2. GetType(id) = Type(id) /\ Type(id) \in Nodes
    BY <2>1 DEF GetType, Nodes
  <2>3. AddedType(id) = Type(id)
    BY <2>2 DEF AddedType
  <2>4. id \in variables'
    BY <1>1
  <2> QED
    BY <1>7, <2>2, <2>3, <2>4
<1>10. edges' \subseteq Nodes' \X Nodes'
  <2> HIDE DEF id, S
  <2> QED
    BY <1>1, <1>3, <1>7, <1>8, <1>9
<1>11. fn_ret_type' \in Nodes'
  BY <1>1, <1>2, <1>4, <1>7, KnownHaveNodes DEF TypeIds
<1>12. /\ Stacked(visits', Nodes', variables', KnownIds)
       /\ Pending(visits') = IF source = None THEN {} ELSE {NewId}
  <2> DEFINE N2 == Nodes'
             V2 == variables'
  <2>1. CanBe("fn", id, 1, V2, KnownIds)
    BY <1>5, ArityOne DEF CanBe
  <2>2. f \in VisitOf(N2)
    BY <2>1, NewVisits
  <2>3. Fits(f, V2, KnownIds)
    BY <2>1, NewVisits
  <2>4. Open(f)
    <3>1. 1 > 0
      OBVIOUS
    <3> QED
      BY <2>1, <3>1, NewVisits
  <2>5. f.node = "fn"
    BY DEF NewVisit
  <2>6. g \in VisitOf(N2)
    BY <1>5, BlockVisits
  <2>7. Fits(g, V2, KnownIds)
    BY <1>5, BlockVisits
  <2>8. g.node = "block"
    BY <1>5, BlockVisits
  <2>9. Valued(g) = IF source = None THEN {} ELSE {NewId}
    BY <1>5, BlockVisits
  <2>10. g.node # "fn"
    BY <2>8
  <2> HIDE DEF f, g, N2, V2, source
  <2>11. Stacked(<<f, g>>, N2, V2, KnownIds) /\ Pending(<<f, g>>) = Valued(g)
    BY <2>2, <2>3, <2>4, <2>5, <2>6, <2>7, <2>10, FirstVisits
  <2> QED
    BY <1>1, <2>9, <2>11 DEF N2, V2
<1>13. /\ asked' \in Seq(Seq(Nat))
       /\ ToSet(asked') \subseteq variables' \cup Later' \cup Pending(visits')
       /\ ToSet(asked) \cup Pending(visits') \subseteq ToSet(asked')
  <2>1. ToSet(asked) \subseteq variables \cup Later
    <3>1. Pending(visits) = {}
      BY <1>1, EmptySeq DEF Pending
    <3> QED
      BY <1>1, <1>2, <3>1 DEF AskedInv
  <2>2. <<id>> \in Seq(Seq(Nat)) /\ ToSet(<<id>>) = {id}
    BY <1>5 DEF ToSet
  <2>3. params \in Seq(Seq(Nat)) /\ ToSet(params) = {ParamId(item, p) : p \in Params}
    <3>1. unit[item].params \in Seq(TypeNames)
      BY <1>1, <1>3, UnitItems
    <3>2. Params = 1..Len(unit[item].params) /\ Len(unit[item].params) \in Nat
      BY <3>1, LenProperties DEF Params
    <3>3. params \in [1..Len(unit[item].params) -> Seq(Nat)]
      BY <1>5, <3>2
    <3>4. params \in Seq(Seq(Nat))
      BY <3>2, <3>3, SeqDef
    <3> QED
      BY <3>4 DEF ToSet
  <2> DEFINE more == AsksOf(source, NewId)
  <2>4. /\ more \in Seq(Seq(Nat))
        /\ ToSet(more) = IF source = None THEN {} ELSE {source, NewId}
    BY <1>5, AsksOfTypes
  <2>5. source # None => source \in variables'
    <3> HIDE DEF source
    <3> QED
      BY <1>1, <1>20
  <2>6. {id} \subseteq variables' /\ {ParamId(item, p) : p \in Params} \subseteq variables'
    BY <1>1
  <2> HIDE DEF params, more, source, id
  <2>7. /\ asked \o <<id>> \in Seq(Seq(Nat))
        /\ ToSet(asked \o <<id>>) = ToSet(asked) \cup {id}
    BY <1>3, <2>2, AskMore
  <2>8. /\ asked \o <<id>> \o params \in Seq(Seq(Nat))
        /\ ToSet(asked \o <<id>> \o params) = ToSet(asked) \cup {id} \cup ToSet(params)
    BY <2>3, <2>7, AskMore
  <2>9. /\ asked' \in Seq(Seq(Nat))
        /\ ToSet(asked') = ToSet(asked) \cup {id} \cup ToSet(params) \cup ToSet(more)
    BY <1>1, <2>4, <2>8, AskMore DEF more
  <2>10. Later' = Later
    BY <1>1 DEF Later
  <2> QED
    BY <1>6, <1>12, <2>1, <2>3, <2>4, <2>5, <2>6, <2>9, <2>10
<1>14. KnownIds' = KnownIds /\ TypeIds' = TypeIds
  BY <1>1 DEF KnownIds, Typedefs, TypeIds, scope
<1>15. TypeOK'
  <2>1. visits' \in Seq(Visit')
    BY <1>12 DEF Stacked, VisitOf, Visit
  <2>2. DOMAIN results' \subseteq variables' /\ ids' \in Nat
    BY <1>1, <1>2, <1>3, <1>6 DEF TypeOK
  <2>3. /\ errors' = errors /\ unit' = unit /\ stage' = stage /\ item' = item
        /\ names' = names /\ types' = types /\ temps' = temps /\ budget' = budget
    BY <1>1 DEF scope
  <2> HIDE DEF id, source, S, params, f, g
  <2> QED
    BY <1>2, <1>6, <1>10, <1>11, <1>13, <1>20, <2>1, <2>2, <2>3 DEF TypeOK
<1>16. ScopeInv'
  BY <1>1, <1>2, <1>14 DEF ScopeInv, Identified, scope
<1>17. ItemVarsInv'
  BY <1>1, <1>2, <1>6 DEF ItemVarsInv, HasVar, HasType
<1>18. VisitsInv'
  <2>1. Params' = Params
    BY <1>1 DEF Params
  <2>2. ItemId(item) \in variables' /\ \A p \in Params : ParamId(item, p) \in variables'
    BY <1>1
  <2> QED
    BY <1>1, <1>11, <1>12, <1>14, <2>1, <2>2 DEF VisitsInv
<1>19. AskedInv' /\ LeftInv'
  <2>1. stage' = "expressions" /\ ToSet(lvalues) \subseteq ToSet(asked)
    BY <1>1, <1>2 DEF LeftInv
  <2>2. ToSet(lvalues') \subseteq variables'
    <3> HIDE DEF source, id
    <3> QED
      BY <1>6, <1>20
  <2>3. ToSet(lvalues') \cup Pending(visits') \subseteq ToSet(asked')
    <3> HIDE DEF source, id
    <3> QED
      BY <1>13, <1>20, <2>1
  <2>4. LeftInv'
    BY <2>1, <2>2, <2>3 DEF LeftInv
  <2>5. AskedInv'
    BY <1>13, <2>1 DEF AskedInv
  <2> QED
    BY <2>4, <2>5
<1> QED
  BY <1>15, <1>16, <1>17, <1>18, <1>19 DEF IInv

-----------------------------------------------------------------------------
(* TypeConcretifier. *)

LEMMA NextAsked ==
    ASSUME NEW s \in Seq(Seq(Nat)), s # <<>>
    PROVE  Tail(s) \in Seq(Seq(Nat)) /\ ToSet(Tail(s)) \subseteq ToSet(s)
<1>1. /\ Tail(s) \in Seq(Seq(Nat)) /\ Len(s) \in Nat /\ Len(Tail(s)) = Len(s) - 1
      /\ \A i \in 1..Len(Tail(s)) : Tail(s)[i] = s[i + 1]
  BY HeadTailProperties, LenProperties
<1>2. DOMAIN s = 1..Len(s) /\ DOMAIN Tail(s) = 1..Len(Tail(s))
  BY <1>1, LenProperties
<1>3. \A i \in 1..Len(Tail(s)) : i + 1 \in 1..Len(s)
  BY <1>1
<1> QED
  BY <1>1, <1>2, <1>3 DEF ToSet

LEMMA InferStep ==
    ASSUME IInv, NEW id, Infer(id),
           edges' \subseteq Nodes \X Nodes, DOMAIN results' \subseteq variables,
           errors' \subseteq {"UnknownType", "Circular", "NoInfo", "Conflict"},
           errors \subseteq errors', stage' \in {"concretify", "panic"}
    PROVE  IInv'
<1>1. /\ stage = "concretify" /\ asked # <<>> /\ asked' = Tail(asked)
      /\ UNCHANGED <<unit, item, type_ids, names, types, concrete, variables, temps,
                     visits, fn_ret_type, ids, lvalues, budget>>
  BY DEF Infer, scope
<1>2. TypeOK /\ ScopeInv /\ ItemVarsInv /\ AskedInv /\ LeftInv
  BY DEF IInv
<1>3. Nodes' = Nodes /\ Visit' = Visit /\ KnownIds' = KnownIds /\ TypeIds' = TypeIds
  BY <1>1 DEF Nodes, Visit, KnownIds, Typedefs, TypeIds
<1>4. asked' \in Seq(Seq(Nat)) /\ ToSet(asked') \subseteq ToSet(asked)
  BY <1>1, <1>2, NextAsked DEF TypeOK
<1>5. TypeOK'
  <2>1. stage' \in {"identify", "items", "expressions", "concretify",
                    "accepted", "rejected", "panic"}
    OBVIOUS
  <2> QED
    BY <1>1, <1>2, <1>3, <1>4, <2>1 DEF TypeOK
<1>6. ScopeInv'
  <2>1. \A i : Identified(i)' <=> Identified(i)
    BY <1>1 DEF Identified
  <2>2. errors' = {} => \A i \in DOMAIN unit : Identified(i)
    BY <1>1, <1>2 DEF ScopeInv
  <2> QED
    BY <1>1, <1>2, <1>3, <2>1, <2>2 DEF ScopeInv
<1>7. ItemVarsInv'
  BY <1>1, <1>2 DEF ItemVarsInv, HasVar, HasType
<1>8. VisitsInv' /\ AskedInv' /\ LeftInv'
  BY <1>1, <1>2, <1>4 DEF VisitsInv, AskedInv, LeftInv
<1> QED
  BY <1>5, <1>6, <1>7, <1>8 DEF IInv

LEMMA InferInv ==
    ASSUME IInv, NEW id \in ToSet(asked), InferKnown(id) \/ InferOne(id) \/ InferNot(id)
    PROVE  IInv'
<1>1. Infer(id) /\ stage = "concretify"
  BY DEF InferKnown, InferOne, InferNot, Infer
<1>2. id \in variables
  BY <1>1 DEF IInv, AskedInv
<1>3. /\ edges \subseteq Nodes \X Nodes /\ DOMAIN results \subseteq variables
      /\ errors \subseteq {"UnknownType", "Circular", "NoInfo", "Conflict"}
  BY DEF IInv, TypeOK
<1>4. CASE InferKnown(id)
  <2>1. UNCHANGED <<stage, edges, results, errors>>
    BY <1>4 DEF InferKnown
  <2> QED
    BY <1>1, <1>3, <2>1, InferStep
<1>5. CASE InferOne(id)
  <2>1. PICK t \in Found(id) : /\ results' = Put(results, id, types[t])
                               /\ edges' = edges \cup {<<Var(id), Type(t)>>}
    BY <1>5 DEF InferOne, Draw
  <2>2. UNCHANGED <<stage, errors>>
    BY <1>5 DEF InferOne
  <2>3. t \in concrete
    BY DEF Found
  <2>4. Type(t) \in Nodes /\ Var(id) \in Nodes
    BY <1>2, <2>3 DEF Nodes
  <2>5. DOMAIN results' = DOMAIN results \cup {id}
    BY <2>1, PutProperties
  <2> QED
    BY <1>1, <1>2, <1>3, <2>1, <2>2, <2>4, <2>5, InferStep
<1>6. CASE InferNot(id)
  <2>1. errors' \in {errors, errors \cup {"NoInfo"}, errors \cup {"Conflict"}}
    BY <1>6 DEF InferNot
  <2>2. UNCHANGED <<edges, results>> /\ stage' \in {stage, "panic"}
    BY <1>6 DEF InferNot
  <2>3. /\ errors' \subseteq {"UnknownType", "Circular", "NoInfo", "Conflict"}
        /\ errors \subseteq errors'
    BY <1>3, <2>1
  <2> QED
    BY <1>1, <1>3, <2>2, <2>3, InferStep
<1> QED
  BY <1>4, <1>5, <1>6

LEMMA ConcretifyEndInv ==
    ASSUME IInv, ConcretifyEnd
    PROVE  IInv'
<1>1. /\ stage = "concretify" /\ stage' \in {"accepted", "rejected"}
      /\ UNCHANGED <<unit, item, type_ids, names, types, concrete, variables, temps, edges,
                     visits, fn_ret_type, asked, results, errors, ids, lvalues, budget>>
  BY DEF ConcretifyEnd, scope, graph
<1>2. TypeOK /\ ScopeInv /\ ItemVarsInv
  BY DEF IInv
<1>3. Nodes' = Nodes /\ Visit' = Visit /\ KnownIds' = KnownIds /\ TypeIds' = TypeIds
  BY <1>1 DEF Nodes, Visit, KnownIds, Typedefs, TypeIds
<1>4. TypeOK'
  <2>1. stage' \in {"identify", "items", "expressions", "concretify",
                    "accepted", "rejected", "panic"}
    BY <1>1
  <2> QED
    BY <1>1, <1>2, <1>3, <2>1 DEF TypeOK
<1>5. ScopeInv'
  <2>1. \A i : Identified(i)' <=> Identified(i)
    BY <1>1 DEF Identified
  <2>2. errors = {} => \A i \in DOMAIN unit : Identified(i)
    BY <1>1, <1>2 DEF ScopeInv
  <2> QED
    BY <1>1, <1>2, <1>3, <2>1, <2>2 DEF ScopeInv
<1>6. ItemVarsInv'
  BY <1>1, <1>2 DEF ItemVarsInv, HasVar, HasType
<1>7. VisitsInv' /\ AskedInv' /\ LeftInv'
  BY <1>1 DEF VisitsInv, AskedInv, LeftInv
<1> QED
  BY <1>4, <1>5, <1>6, <1>7 DEF IInv

-----------------------------------------------------------------------------
LEMMA StutterInv ==
    ASSUME IInv, UNCHANGED vars
    PROVE  IInv'
<1>1. UNCHANGED <<unit, stage, item, type_ids, names, types, concrete, variables, temps,
                  edges, visits, fn_ret_type, asked, results, errors, ids, lvalues, budget>>
  BY DEF vars, scope, graph
<1>2. Nodes' = Nodes /\ Visit' = Visit /\ KnownIds' = KnownIds /\ TypeIds' = TypeIds
      /\ Later' = Later /\ Params' = Params
  BY <1>1 DEF Nodes, Visit, KnownIds, Typedefs, TypeIds, Later, Params
<1>3. TypeOK'
  BY <1>1, <1>2 DEF IInv, TypeOK
<1>4. ScopeInv' /\ ItemVarsInv'
  BY <1>1, <1>2 DEF IInv, ScopeInv, Identified, ItemVarsInv, HasVar, HasType
<1>5. VisitsInv' /\ AskedInv' /\ LeftInv'
  BY <1>1, <1>2 DEF IInv, VisitsInv, AskedInv, LeftInv
<1> QED
  BY <1>3, <1>4, <1>5 DEF IInv

LEMMA NextInv == IInv /\ [Next]_vars => IInv'
<1> SUFFICES ASSUME IInv, [Next]_vars
             PROVE  IInv'
  OBVIOUS
<1>1. CASE IdentifyUnknown \/ IdentifyFn \/ IdentifyTypedef \/ NextStage \/ ItemFn \/ ItemTypedef
  BY <1>1, IdentifyUnknownInv, IdentifyFnInv, IdentifyTypedefInv, NextStageInv, ItemFnInv,
     ItemTypedefInv
<1>2. CASE FnBegin \/ FnEnd \/ SkipTypedef
  BY <1>2, FnBeginInv, FnEndInv, SkipTypedefInv
<1>3. CASE \E name \in {"bool", "float"} : Literal(name)
  BY <1>3, LiteralInv
<1>4. ASSUME NEW id \in Visible, VarRef(id)
      PROVE  IInv'
  BY <1>4, VarRefInv, VarRefPanics
<1>5. ASSUME NEW id \in Visible, NEW args \in 0..MaxArgs, Call(id, args)
      PROVE  IInv'
  BY <1>5, CallInv
<1>6. CASE \/ Operation("if_expr", 3) \/ Operation("unary", 1)
           \/ \E node \in {"equality", "comparison", "arithmetic"} : Operation(node, 2)
  <2>1. /\ Arity["if_expr"] = 3 /\ Arity["unary"] = 1
        /\ \A node \in {"equality", "comparison", "arithmetic"} : Arity[node] = 2
    BY DEF Arity
  <2>2. \A node \in {"if_expr", "unary", "equality", "comparison", "arithmetic"} :
           Operation(node, Arity[node]) => IInv'
    BY OperationInv
  <2> QED
    BY <1>6, <2>1, <2>2
<1>7. CASE \E node \in {"equality", "comparison", "arithmetic"} : BinaryEnd(node)
  BY <1>7, BinaryEndInv
<1>8. CASE IfExprEnd \/ UnaryEnd \/ CallEnd
  BY <1>8, IfExprEndInv, UnaryEndInv, CallEndInv
<1>9. ASSUME NEW last \in BOOLEAN, \E type \in DeclaredTypes \cup {None} : LetBegin(last, type)
      PROVE  IInv'
  BY <1>9, LetBeginInv
<1>10. ASSUME NEW last \in BOOLEAN,
              ReturnBegin(last) \/ ReturnEmpty(last) \/ ExprBegin(last) \/ DoBlock(last)
       PROVE  IInv'
  BY <1>10, ReturnBeginInv, ReturnEmptyInv, ExprBeginInv, DoBlockInv
<1>11. ASSUME NEW last \in BOOLEAN, NEW branches \in 1..MaxBranches, NEW else \in BOOLEAN,
              IfBegin(last, branches, else)
       PROVE  IInv'
  BY <1>11, IfBeginInv
<1>12. CASE IfBlock \/ EmptyBlock \/ BlockEnd
  BY <1>12, IfBlockInv, EmptyBlockInv, BlockEndInv
<1>13. CASE LetEnd \/ ReturnEnd \/ ExprStmtEnd \/ IfEnd
  BY <1>13, LetEndInv, ReturnEndInv, ExprStmtEndInv, IfEndInv
<1>14. ASSUME NEW id \in ToSet(asked), InferKnown(id) \/ InferOne(id) \/ InferNot(id)
       PROVE  IInv'
  BY <1>14, InferInv
<1>15. CASE ConcretifyEnd
  BY <1>15, ConcretifyEndInv
<1>16. CASE Done \/ UNCHANGED vars
  BY <1>16, StutterInv DEF Done
<1> QED
  BY <1>1, <1>2, <1>3, <1>4, <1>5, <1>6, <1>7, <1>8, <1>9, <1>10, <1>11, <1>12, <1>13,
     <1>14, <1>15, <1>16 DEF Next

LEMMA Invariance == Spec => []IInv
BY InitInv, NextInv, PTL DEF Spec

(* Type checking keeps its state within its types: every edge joins nodes of *)
(* the graph, every name has a type, and only variables get results.         *)
THEOREM TypeCorrect == Spec => []TypeOK
<1>1. IInv => TypeOK
  BY DEF IInv
<1> QED
  BY <1>1, Invariance, PTL

LEMMA AskedAreKnown == IInv => InferredVarsAreKnown
<1> SUFFICES ASSUME IInv PROVE InferredVarsAreKnown
  OBVIOUS
<1>1. ASSUME stage = "expressions", visits # <<>>, NEW id \in Visible \ variables
      PROVE  id \in {ItemId(i) : i \in (item + 1)..Len(unit)}
  <2>1. PICK i \in DOMAIN unit : i > item /\ id = ItemId(i)
    BY <1>1, VisibleKnown
  <2>2. /\ item \in Nat /\ i \in Nat /\ Len(unit) \in Nat /\ i \in 1..Len(unit)
    BY UnitItems DEF IInv, ScopeInv, TypeOK
  <2>3. i \in (item + 1)..Len(unit)
    BY <2>1, <2>2
  <2> QED
    BY <2>1, <2>3
<1>2. stage = "concretify" => ToSet(asked) \subseteq variables
  BY DEF IInv, AskedInv
<1> QED
  BY <1>1, <1>2 DEF InferredVarsAreKnown

(* ExprTypographer adds each variable before a name can mean it, except the  *)
(* later functions; and TypeConcretifier asks only for variables that have a *)
(* node in the graph, of whatever unit with whatever nesting of blocks.      *)
THEOREM AskedVarsAreKnown == Spec => []InferredVarsAreKnown
BY Invariance, AskedAreKnown, PTL
=============================================================================

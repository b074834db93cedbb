------------------------- MODULE TypesSearchProofs --------------------------
(***************************************************************************)
(* What TypeConcretifier finds is what the text says, for every set of     *)
(* units over any names of types, with any bounds: in a unit that is       *)
(* accepted the variables have the types that are declared, returned and   *)
(* asked for by their uses, no function that declares a type returns       *)
(* nothing, and without calls a unit is rejected only if its edges join    *)
(* two types.  The graph is accounted for by what its edges lead to: the   *)
(* invariant says it of every node that the visitor has drawn, and of      *)
(* those that wait on its stack of visits for their edges.                 *)
(***************************************************************************)
EXTENDS TypesProofs

-----------------------------------------------------------------------------
(* What the search finds.                                                    *)

Closed(C, E) == \A e \in E : e[1] \in C => e[2] \in C

(* There is a path from a to b along the edges in E. *)
Leads(a, b, E) == \A C : a \in C /\ Closed(C, E) => b \in C

LEMMA LeadsOn ==
    ASSUME NEW E
    PROVE  /\ \A a : Leads(a, a, E)
           /\ \A a, b : <<a, b>> \in E => Leads(a, b, E)
           /\ \A a, b, c : Leads(a, b, E) /\ Leads(b, c, E) => Leads(a, c, E)
<1>1. \A a : Leads(a, a, E)
  BY DEF Leads
<1>2. ASSUME NEW a, NEW b, <<a, b>> \in E PROVE Leads(a, b, E)
  <2> SUFFICES ASSUME NEW C, a \in C, Closed(C, E) PROVE b \in C
    BY DEF Leads
  <2>1. <<a, b>>[1] = a /\ <<a, b>>[2] = b
    OBVIOUS
  <2> QED
    BY <1>2, <2>1 DEF Closed
<1>3. ASSUME NEW a, NEW b, NEW c, Leads(a, b, E), Leads(b, c, E) PROVE Leads(a, c, E)
  BY <1>3 DEF Leads
<1> QED
  BY <1>1, <1>2, <1>3

LEMMA LeadsMore ==
    ASSUME NEW E, NEW E2, E \subseteq E2
    PROVE  \A a, b : Leads(a, b, E) => Leads(a, b, E2)
BY DEF Leads, Closed

(* An edge along a path makes no new ones. *)
LEMMA LeadsSame ==
    ASSUME NEW E, NEW a, NEW b, Leads(a, b, E)
    PROVE  \A x, y : Leads(x, y, E \cup {<<a, b>>}) <=> Leads(x, y, E)
<1>1. ASSUME NEW C, Closed(C, E) PROVE Closed(C, E \cup {<<a, b>>})
  <2>1. a \in C => b \in C
    BY <1>1 DEF Leads
  <2>2. <<a, b>>[1] = a /\ <<a, b>>[2] = b
    OBVIOUS
  <2> QED
    BY <1>1, <2>1, <2>2 DEF Closed
<1>2. ASSUME NEW C, Closed(C, E \cup {<<a, b>>}) PROVE Closed(C, E)
  BY <1>2 DEF Closed
<1> QED
  BY <1>1, <1>2, Zenon DEF Leads

(* A search over the set N of nodes that goes on until it finds no more.     *)
Searches(f, N, E) ==
    /\ DOMAIN f = SUBSET N
    /\ \A T \in SUBSET N :
          LET more == T \cup {e[2] : e \in {d \in E : d[1] \in T}}
          IN f[T] = IF more = T THEN T ELSE f[more]

LEMMA SearchEnds ==
    ASSUME NEW N, IsFiniteSet(N), NEW E \in SUBSET (N \X N), NEW f, Searches(f, N, E),
           NEW a \in N, NEW b \in N
    PROVE  b \in f[{a}] <=> Leads(a, b, E)
<1> DEFINE From(T) == {n \in N : \A C \in SUBSET N : T \subseteq C /\ Closed(C, E) => n \in C}
           More(T) == T \cup {e[2] : e \in {d \in E : d[1] \in T}}
           S == {k \in Nat : \A T \in SUBSET N : Cardinality(N \ T) <= k => f[T] = From(T)}
<1>1. ASSUME NEW T \in SUBSET N
      PROVE  /\ More(T) \in SUBSET N /\ T \subseteq More(T)
             /\ f[T] = IF More(T) = T THEN T ELSE f[More(T)]
             /\ More(T) = T => From(T) = T
             /\ From(More(T)) = From(T)
  <2>1. \A e \in E : e[1] \in N /\ e[2] \in N
    OBVIOUS
  <2>2. More(T) \in SUBSET N /\ T \subseteq More(T)
    BY <2>1
  <2>3. f[T] = IF More(T) = T THEN T ELSE f[More(T)]
    BY DEF Searches
  <2>4. ASSUME More(T) = T PROVE From(T) = T
    <3>1. Closed(T, E)
      BY <2>4 DEF Closed
    <3> QED
      BY <3>1
  <2>5. ASSUME NEW C \in SUBSET N, Closed(C, E)
        PROVE  T \subseteq C <=> More(T) \subseteq C
    BY <2>5, <2>2 DEF Closed
  <2>6. From(More(T)) = From(T)
    BY <2>5
  <2> QED
    BY <2>2, <2>3, <2>4, <2>6
<1> HIDE DEF From, More
<1>2. ASSUME NEW T \in SUBSET N
      PROVE  IsFiniteSet(N \ T) /\ Cardinality(N \ T) \in Nat
  BY FS_Subset, FS_CardinalityType, N \ T \subseteq N
<1>3. ASSUME NEW T \in SUBSET N, More(T) # T
      PROVE  Cardinality(N \ More(T)) < Cardinality(N \ T)
  <2>1. PICK n : n \in N \ T /\ n \notin N \ More(T)
    BY <1>1, <1>3
  <2>2. (N \ More(T)) \subseteq (N \ T) /\ N \ More(T) # N \ T
    BY <1>1, <2>1
  <2>3. IsFiniteSet(N \ T) /\ Cardinality(N \ T) \in Nat /\ Cardinality(N \ More(T)) \in Nat
    BY <1>1, <1>2
  <2>4. /\ Cardinality(N \ More(T)) <= Cardinality(N \ T)
        /\ Cardinality(N \ T) = Cardinality(N \ More(T)) => N \ T = N \ More(T)
    BY <2>2, <2>3, FS_Subset
  <2> QED
    BY <2>2, <2>3, <2>4
<1>4. 0 \in S
  <2> SUFFICES ASSUME NEW T \in SUBSET N, Cardinality(N \ T) <= 0 PROVE f[T] = From(T)
    OBVIOUS
  <2>1. Cardinality(N \ T) = 0
    BY <1>2
  <2>2. More(T) = T
    <3> SUFFICES ASSUME More(T) # T PROVE FALSE
      OBVIOUS
    <3>1. Cardinality(N \ More(T)) < 0 /\ Cardinality(N \ More(T)) \in Nat
      BY <1>1, <1>2, <1>3, <2>1
    <3> QED
      BY <3>1
  <2> QED
    BY <1>1, <2>2
<1>5. ASSUME NEW k \in Nat, k \in S PROVE k + 1 \in S
  <2> SUFFICES ASSUME NEW T \in SUBSET N, Cardinality(N \ T) <= k + 1 PROVE f[T] = From(T)
    OBVIOUS
  <2>1. CASE More(T) = T
    BY <1>1, <2>1
  <2>2. CASE More(T) # T
    <3>1. More(T) \in SUBSET N
      BY <1>1
    <3>2. Cardinality(N \ More(T)) <= k
      BY <1>2, <1>3, <2>2, <3>1
    <3>3. f[More(T)] = From(More(T))
      BY <1>5, <3>1, <3>2
    <3> QED
      BY <1>1, <2>2, <3>3
  <2> QED
    BY <2>1, <2>2
<1>6. \A k \in Nat : k \in S
  <2> HIDE DEF S
  <2> QED
    BY <1>4, <1>5, Induction
<1>7. f[{a}] = From({a})
  <2>1. {a} \in SUBSET N
    OBVIOUS
  <2>2. PICK k \in Nat : k = Cardinality(N \ {a})
    BY <1>2, <2>1
  <2>3. Cardinality(N \ {a}) <= k
    BY <2>2
  <2> QED
    BY <1>6, <2>1, <2>3
<1>8. b \in From({a}) <=> Leads(a, b, E)
  <2>1. ASSUME Leads(a, b, E) PROVE b \in From({a})
    BY <2>1 DEF From, Leads
  <2>2. ASSUME b \in From({a}) PROVE Leads(a, b, E)
    <3> SUFFICES ASSUME NEW C, a \in C, Closed(C, E) PROVE b \in C
      BY DEF Leads
    <3>1. Closed(C \cap N, E)
      BY DEF Closed
    <3>2. {a} \subseteq C \cap N /\ C \cap N \in SUBSET N
      OBVIOUS
    <3> QED
      BY <2>2, <3>1, <3>2 DEF From
  <2> QED
    BY <2>1, <2>2
<1> QED
  BY <1>7, <1>8

LEMMA ReachedSearches ==
    ASSUME IsFiniteSet(Nodes), NEW E \in SUBSET (Nodes \X Nodes)
    PROVE  \E f : Searches(f, Nodes, E) /\ \A S : Reached(S, E) = f[S]
<1> DEFINE More(T) == T \cup {e[2] : e \in {d \in E : d[1] \in T}}
           Body(f) == [T \in SUBSET Nodes |-> IF More(T) = T THEN T ELSE f[More(T)]]
           F == [T \in SUBSET Nodes |->
                   {n \in Nodes : \A C \in SUBSET Nodes : T \subseteq C /\ Closed(C, E) => n \in C}]
<1>1. ASSUME NEW T \in SUBSET Nodes
      PROVE  F[T] = IF More(T) = T THEN T ELSE F[More(T)]
  <2>1. \A e \in E : e[1] \in Nodes /\ e[2] \in Nodes
    OBVIOUS
  <2>2. More(T) \in SUBSET Nodes /\ T \subseteq More(T)
    BY <2>1
  <2>3. ASSUME More(T) = T PROVE F[T] = T
    <3>1. Closed(T, E)
      BY <2>3 DEF Closed
    <3> QED
      BY <3>1
  <2>4. ASSUME NEW C \in SUBSET Nodes, Closed(C, E)
        PROVE  T \subseteq C <=> More(T) \subseteq C
    BY <2>4, <2>2 DEF Closed
  <2>5. F[More(T)] = F[T]
    BY <2>2, <2>4
  <2> QED
    BY <2>3, <2>5
<1>2. F = Body(F)
  BY <1>1
<1>3. \E f : f = Body(f)
  BY <1>2
<1> DEFINE g == CHOOSE f : f = Body(f)
<1>4. g = Body(g)
  BY <1>3
<1>5. \A S : Reached(S, E) = g[S]
  BY DEF Reached
<1> HIDE DEF g
<1>6. /\ DOMAIN g = SUBSET Nodes
      /\ \A T \in SUBSET Nodes : g[T] = IF More(T) = T THEN T ELSE g[More(T)]
  BY <1>4
<1>7. Searches(g, Nodes, E)
  BY <1>6 DEF Searches
<1> QED
  BY <1>5, <1>7

-----------------------------------------------------------------------------
(* What is claimed is found.                                                 *)

UnitId == PrimitiveId["()"]

(* What ItemTypeIdentifier has found out: an alias has the type of what it   *)
(* names, and nothing but the return type of a function is "()".             *)
TypesInv ==
    /\ names["()"] = UnitId /\ types[UnitId] = Named("()")
    /\ \A n \in DOMAIN names : names[n] = UnitId => n = "()"
    /\ \A id \in TypeIds : types[id] = Named("()") => id = UnitId
    /\ stage = "identify" =>
          /\ variables = {}
          /\ \A id \in DOMAIN types :
                id \in {PrimitiveId[n] : n \in Primitives} \cup {ItemId(i) : i \in 1..(item - 1)}
    /\ \A i \in Typedefs :
          type_ids[i] # <<>> => /\ ItemId(i) \in DOMAIN types
                                /\ types[ItemId(i)] = types[Last(type_ids[i])]
    /\ IsFiniteSet(concrete) /\ IsFiniteSet(variables)
    /\ stage \notin {"expressions", "panic"} => visits = <<>>

(* The node of a type leads to a type that it is.                            *)
Means(id) ==
    GetType(id) # NoNode =>
        \E t \in concrete : Leads(GetType(id), Type(t), edges) /\ types[t] = types[id]

AliasInv == \A id \in KnownIds : Means(id)

(* Something is known of the type of n, but for the results of calls.        *)
Informed(n) == claims.calls # {} \/ \E t \in concrete : Leads(n, Type(t), edges)
InformedNodes == {n \in Nodes : Informed(n)}

(* n is the node of an expression: if it is a variable, then one of A.       *)
IsOf(n, A) == n[1] = "temp" \/ \E b \in A : n = Var(b)

(* The child k of f is an expression, and so is the one that f awaits.       *)
TakesExpr(f, k) ==
    f.node \notin {"fn", "block"} /\ (f.node = "if" => k % 2 = 1 /\ k # f.arity)

Statements == {"block", "if", "let", "return", "stmt"}

FitsFor(f, A, I, C) ==
    /\ \A k \in 1..Len(f.children) :
          f.children[k] \in I /\ (TakesExpr(f, k) => IsOf(f.children[k], A))
    /\ \A id \in f.declared : Var(id) \in I
    /\ f.node = "if" => f.arity >= 2
    /\ f.node = "call" => C # {}

Founded(vs, A, I, C) ==
    /\ \A i \in 1..Len(vs) : FitsFor(vs[i], A, I, C)
    /\ \A i \in 1..(Len(vs) - 1) :
          vs[i + 1].node \in Statements => ~TakesExpr(vs[i], Len(vs[i].children) + 1)

(* The node that stands for the block of a function with a value. *)
Body(vs) == IF Len(vs) = 1 THEN vs[1].children[1] ELSE Var(vs[2].id)

HasBody(vs, A) ==
    /\ \E b \in A : Body(vs) = Var(b)
    /\ IF Len(vs) = 1 THEN ~Open(vs[1]) ELSE vs[2].node = "block" /\ vs[2].source

(* The blocks and ifs with a value that are still visited. *)
Valuable(f) == IF f.node \in {"block", "if"} /\ f.source THEN {f.id} ELSE {}
Awaited(vs) == UNION {Valuable(vs[i]) : i \in 1..Len(vs)}

WalkInv ==
    stage = "expressions" /\ visits # <<>> =>
        /\ fn_ret_type = GetType(RetType)
        /\ NeedRetValue => HasBody(visits, ToSet(asked))
        /\ Founded(visits, ToSet(asked), InformedNodes, claims.calls)
        /\ \A p \in Params : Informed(Var(ParamId(item, p)))

Answered == ToSet(asked) \cup DOMAIN results

InfoInv ==
    /\ \A i \in DOMAIN unit : ItemId(i) \in variables => Informed(Var(ItemId(i)))
    /\ \A k \in 1..temps : Informed(Temp(k))
    /\ \A id \in Answered : Informed(Var(id)) \/ id \in Awaited(visits)

TypeClaims ==
    claims.declared \cup claims.returned
        \cup {<<n, names["float"]>> : n \in claims.arithmetic}
        \cup {<<n, names["bool"]>> : n \in claims.condition}

(* The edges lead from what a claim is about to its type, or will when the   *)
(* function ends.                                                            *)
Holds(p) ==
    \/ Leads(p[1], GetType(p[2]), edges)
    \/ visits # <<>> /\ NeedRetValue /\ p = <<Body(visits), RetType>>

(* A variable that is to have two types. *)
UnitAndMore ==
    \/ \E b \in Answered, r \in KnownIds \ {UnitId} :
          Leads(Var(b), GetType(r), edges) /\ Leads(Var(b), Type(UnitId), edges)
    \/ visits # <<>> /\ NeedRetValue /\ Leads(fn_ret_type, Type(UnitId), edges)

ClaimsInv ==
    /\ DOMAIN claims = {"declared", "returned", "arithmetic", "condition", "equality",
                        "branches", "calls", "empty"}
    /\ stage \in {"identify", "items"} => claims = NoClaims
    /\ errors = {} =>
          /\ \A p \in TypeClaims : IsOf(p[1], Answered) /\ p[2] \in KnownIds /\ Holds(p)
          /\ \A e \in claims.equality :
                IsOf(e[1], Answered) /\ IsOf(e[2], Answered) /\ Leads(e[2], e[1], edges)
          /\ claims.empty => UnitAndMore

FoundFor(id, t) ==
    /\ Leads(Var(id), Type(t), edges)
    /\ \A s \in concrete : Leads(Var(id), Type(s), edges) => s = t

ResultsInv ==
    /\ stage \in {"identify", "items", "expressions"} => results = <<>>
    /\ \A id \in DOMAIN results : \E t \in concrete : FoundFor(id, t) /\ results[id] = types[t]

(* What the errors of TypeConcretifier say of the graph. *)
ErrorsInv ==
    /\ "NoInfo" \in errors => claims.calls # {}
    /\ "Conflict" \in errors =>
          \E s, t \in concrete :
             s # t /\ \E n \in Nodes : Leads(n, Type(s), edges) /\ Leads(n, Type(t), edges)
    /\ stage = "rejected" => errors # {}
    /\ stage = "accepted" => errors = {} /\ asked = <<>>

SearchInv ==
    /\ TypesInv /\ AliasInv /\ WalkInv /\ InfoInv /\ ClaimsInv /\ ResultsInv /\ ErrorsInv

-----------------------------------------------------------------------------
(* Stacks of visits with what their children stand for. *)

(* The node, the id and what has been given to f and to g are the same.      *)
Alike(f, g) == /\ f.node = g.node /\ f.id = g.id /\ f.source = g.source
               /\ f.arity = g.arity

LEMMA FoundedGrows ==
    ASSUME NEW A, NEW I, NEW C, NEW A2, NEW I2, NEW C2,
           A \subseteq A2, I \subseteq I2, C \subseteq C2,
           NEW vs, Founded(vs, A, I, C)
    PROVE  Founded(vs, A2, I2, C2)
<1>1. \A n : IsOf(n, A) => IsOf(n, A2)
  BY DEF IsOf
<1>2. \A f : FitsFor(f, A, I, C) => FitsFor(f, A2, I2, C2)
  BY <1>1 DEF FitsFor
<1> QED
  BY <1>2 DEF Founded

LEMMA FoundedPush ==
    ASSUME NEW N, NEW V, NEW K, NEW A, NEW I, NEW C,
           NEW vs, Stacked(vs, N, V, K), Founded(vs, A, I, C),
           NEW f \in VisitOf(N), FitsFor(f, A, I, C),
           f.node \in Statements => ~TakesExpr(vs[Len(vs)], Len(vs[Len(vs)].children) + 1)
    PROVE  /\ Founded(Append(vs, f), A, I, C)
           /\ Awaited(Append(vs, f)) = Awaited(vs) \cup Valuable(f)
           /\ Len(Append(vs, f)) = Len(vs) + 1
           /\ \A i \in 1..Len(vs) : Append(vs, f)[i] = vs[i]
<1> DEFINE n == Len(vs)
           a == Append(vs, f)
<1>1. /\ vs \in Seq(VisitOf(N)) /\ n \in Nat \ {0}
      /\ \A i \in 1..n : FitsFor(vs[i], A, I, C)
      /\ \A i \in 1..(n - 1) :
            vs[i + 1].node \in Statements => ~TakesExpr(vs[i], Len(vs[i].children) + 1)
  BY StackTop DEF Stacked, Founded
<1>2. /\ Len(a) = n + 1
      /\ \A i \in 1..n : a[i] = vs[i]
      /\ a[n + 1] = f
  BY <1>1, AppendItem
<1>3. f.node \in Statements => ~TakesExpr(vs[n], Len(vs[n].children) + 1)
  OBVIOUS
<1> HIDE DEF n, a
<1>4. \A i \in 1..(n + 1) : FitsFor(a[i], A, I, C)
  BY <1>1, <1>2
<1>5. ASSUME NEW i \in 1..((n + 1) - 1), a[i + 1].node \in Statements
      PROVE  ~TakesExpr(a[i], Len(a[i].children) + 1)
  <2>1. CASE i = n
    BY <1>1, <1>2, <1>3, <1>5, <2>1
  <2>2. CASE i # n
    <3>1. i \in 1..(n - 1) /\ i + 1 \in 1..n /\ i \in 1..n
      BY <1>1, <2>2
    <3> QED
      BY <1>1, <1>2, <1>5, <3>1
  <2> QED
    BY <2>1, <2>2
<1>6. Founded(a, A, I, C)
  BY <1>2, <1>4, <1>5 DEF Founded
<1>7. \A i : i \in 1..(n + 1) <=> i \in 1..n \/ i = n + 1
  BY <1>1
<1>8. ASSUME NEW x
      PROVE  x \in Awaited(a) <=> x \in Awaited(vs) \/ x \in Valuable(f)
  <2>1. x \in Awaited(a) <=> \E i \in 1..(n + 1) : x \in Valuable(a[i])
    BY <1>2 DEF Awaited
  <2>2. x \in Awaited(vs) <=> \E i \in 1..n : x \in Valuable(vs[i])
    BY DEF Awaited, n
  <2> QED
    BY <1>2, <1>7, <2>1, <2>2
<1> QED
  BY <1>2, <1>6, <1>8 DEF a, n

LEMMA FoundedFront ==
    ASSUME NEW N, NEW V, NEW K, NEW A, NEW I, NEW C,
           NEW vs, Stacked(vs, N, V, K), Founded(vs, A, I, C),
           vs[Len(vs)].node # "fn"
    PROVE  /\ Founded(Front(vs), A, I, C)
           /\ Awaited(vs) = Awaited(Front(vs)) \cup Valuable(vs[Len(vs)])
           /\ Len(Front(vs)) = Len(vs) - 1
           /\ \A i \in 1..(Len(vs) - 1) : Front(vs)[i] = vs[i]
           /\ vs[Len(vs)].node \in Statements =>
                 ~TakesExpr(vs[Len(vs) - 1], Len(vs[Len(vs) - 1].children) + 1)
<1> DEFINE n == Len(vs)
           b == Front(vs)
<1>1. /\ vs \in Seq(VisitOf(N)) /\ vs # <<>> /\ n \in Nat \ {0} /\ n # 1
      /\ \A i \in 1..n : FitsFor(vs[i], A, I, C)
      /\ \A i \in 1..(n - 1) :
            vs[i + 1].node \in Statements => ~TakesExpr(vs[i], Len(vs[i].children) + 1)
  BY StackTop DEF Stacked, Founded
<1>2. /\ Len(b) = n - 1
      /\ \A i \in 1..(n - 1) : b[i] = vs[i]
  BY <1>1, FrontItems
<1> HIDE DEF n, b
<1>3. \A i \in 1..(n - 1) : FitsFor(b[i], A, I, C)
  BY <1>1, <1>2
<1>4. \A i \in 1..((n - 1) - 1) :
         b[i + 1].node \in Statements => ~TakesExpr(b[i], Len(b[i].children) + 1)
  <2> SUFFICES ASSUME NEW i \in 1..((n - 1) - 1), b[i + 1].node \in Statements
               PROVE  ~TakesExpr(b[i], Len(b[i].children) + 1)
    OBVIOUS
  <2>1. i \in 1..(n - 1) /\ i + 1 \in 1..(n - 1)
    BY <1>1
  <2> QED
    BY <1>1, <1>2, <2>1
<1>5. Founded(b, A, I, C)
  BY <1>2, <1>3, <1>4 DEF Founded
<1>6. \A i : i \in 1..n <=> i \in 1..(n - 1) \/ i = n
  BY <1>1
<1>7. ASSUME NEW x
      PROVE  x \in Awaited(vs) <=> x \in Awaited(b) \/ x \in Valuable(vs[n])
  <2>1. x \in Awaited(b) <=> \E i \in 1..(n - 1) : x \in Valuable(b[i])
    BY <1>2 DEF Awaited
  <2>2. x \in Awaited(vs) <=> \E i \in 1..n : x \in Valuable(vs[i])
    BY DEF Awaited, n
  <2> QED
    BY <1>2, <1>6, <2>1, <2>2
<1>8. vs[n].node \in Statements => ~TakesExpr(vs[n - 1], Len(vs[n - 1].children) + 1)
  <2>1. n - 1 \in 1..(n - 1) /\ (n - 1) + 1 = n
    BY <1>1
  <2> QED
    BY <1>1, <2>1
<1> QED
  BY <1>2, <1>5, <1>7, <1>8 DEF b, n

(* The visit on top becomes f, which has the same node. *)
LEMMA FoundedSet ==
    ASSUME NEW N, NEW V, NEW K, NEW A, NEW I, NEW C,
           NEW vs, Stacked(vs, N, V, K), Founded(vs, A, I, C),
           NEW f \in VisitOf(N), FitsFor(f, A, I, C), Alike(f, vs[Len(vs)])
    PROVE  LET r == [vs EXCEPT ![Len(vs)] = f]
           IN /\ Founded(r, A, I, C)
              /\ Awaited(r) = Awaited(vs)
              /\ Len(r) = Len(vs)
              /\ r[Len(vs)] = f
              /\ \A i \in 1..Len(vs) : i # Len(vs) => r[i] = vs[i]
<1> DEFINE n == Len(vs)
           r == [vs EXCEPT ![n] = f]
<1>1. /\ vs \in Seq(VisitOf(N)) /\ vs # <<>> /\ n \in Nat \ {0}
      /\ \A i \in 1..n : FitsFor(vs[i], A, I, C)
      /\ \A i \in 1..(n - 1) :
            vs[i + 1].node \in Statements => ~TakesExpr(vs[i], Len(vs[i].children) + 1)
  BY StackTop DEF Stacked, Founded
<1>2. n \in 1..n
  BY <1>1
<1>3. /\ Len(r) = n
      /\ \A i \in 1..n : r[i] = IF i = n THEN f ELSE vs[i]
  BY <1>1, <1>2, ExceptSeq
<1>4. Alike(f, vs[n])
  OBVIOUS
<1> HIDE DEF n, r
<1>5. \A i \in 1..n : FitsFor(r[i], A, I, C)
  BY <1>1, <1>3
<1>6. \A i \in 1..n : Alike(r[i], vs[i])
  BY <1>3, <1>4 DEF Alike
<1>7. \A i \in 1..(n - 1) :
         r[i + 1].node \in Statements => ~TakesExpr(r[i], Len(r[i].children) + 1)
  <2> SUFFICES ASSUME NEW i \in 1..(n - 1), r[i + 1].node \in Statements
               PROVE  ~TakesExpr(r[i], Len(r[i].children) + 1)
    OBVIOUS
  <2>1. i \in 1..n /\ i + 1 \in 1..n /\ i # n
    BY <1>1
  <2>2. r[i] = vs[i] /\ vs[i + 1].node \in Statements
    BY <1>3, <1>6, <2>1 DEF Alike
  <2> QED
    BY <1>1, <2>2
<1>8. Founded(r, A, I, C)
  BY <1>3, <1>5, <1>7 DEF Founded
<1>9. ASSUME NEW x
      PROVE  x \in Awaited(r) <=> x \in Awaited(vs)
  <2>1. x \in Awaited(r) <=> \E i \in 1..n : x \in Valuable(r[i])
    BY <1>3 DEF Awaited
  <2>2. x \in Awaited(vs) <=> \E i \in 1..n : x \in Valuable(vs[i])
    BY DEF Awaited, n
  <2>3. \A i \in 1..n : Valuable(r[i]) = Valuable(vs[i])
    BY <1>6 DEF Alike, Valuable
  <2> QED
    BY <2>1, <2>2, <2>3
<1>10. Awaited(r) = Awaited(vs)
  BY <1>9
<1>11. r[n] = f /\ \A i \in 1..n : i # n => r[i] = vs[i]
  BY <1>2, <1>3
<1> QED
  BY <1>3, <1>8, <1>10, <1>11 DEF n, r

LEMMA FoundedLeave ==
    ASSUME NEW N, NEW V, NEW K, NEW A, NEW I, NEW C,
           NEW vs, Stacked(vs, N, V, K), Founded(vs, A, I, C), Open(vs[Len(vs)]),
           NEW t \in N, t \in I,
           TakesExpr(vs[Len(vs)], Len(vs[Len(vs)].children) + 1) => IsOf(t, A)
    PROVE  /\ Founded(Leave(vs, t), A, I, C)
           /\ Awaited(Leave(vs, t)) = Awaited(vs)
           /\ Len(Leave(vs, t)) = Len(vs)
           /\ \A i \in 1..Len(vs) : i # Len(vs) => Leave(vs, t)[i] = vs[i]
           /\ Alike(Leave(vs, t)[Len(vs)], vs[Len(vs)])
<1> DEFINE f == vs[Len(vs)]
           g == [f EXCEPT !.children = Append(@, t)]
<1>1. f \in VisitOf(N) /\ Open(f) /\ Len(vs) \in Nat \ {0}
  BY StackTop
<1>2. vs[Len(vs)] = f /\ FitsFor(f, A, I, C)
  BY <1>1 DEF Founded
<1>3. TakesExpr(f, Len(f.children) + 1) => IsOf(t, A)
  OBVIOUS
<1> HIDE DEF f
<1>4. /\ Append(f.children, t) \in Seq(N)
      /\ Len(Append(f.children, t)) = Len(f.children) + 1
      /\ \A k \in 1..Len(f.children) : Append(f.children, t)[k] = f.children[k]
      /\ Append(f.children, t)[Len(f.children) + 1] = t
      /\ Len(f.children) \in Nat
  <2>1. f.children \in Seq(N)
    BY <1>1 DEF VisitOf
  <2> QED
    BY <2>1, AppendItem, LenProperties
<1>5. g \in VisitOf(N) /\ g.children = Append(f.children, t) /\ g.declared = f.declared
      /\ Alike(g, f)
  BY <1>1, <1>4 DEF VisitOf, Alike
<1> HIDE DEF g
<1>6. FitsFor(g, A, I, C)
  <2>1. \A k : TakesExpr(g, k) <=> TakesExpr(f, k)
    BY <1>5 DEF TakesExpr, Alike
  <2>2. ASSUME NEW k \in 1..Len(g.children)
        PROVE  g.children[k] \in I /\ (TakesExpr(g, k) => IsOf(g.children[k], A))
    <3>1. k \in 1..Len(f.children) \/ k = Len(f.children) + 1
      BY <1>4, <1>5
    <3>2. CASE k \in 1..Len(f.children)
      BY <1>2, <1>4, <1>5, <2>1, <3>2 DEF FitsFor
    <3>3. CASE k = Len(f.children) + 1
      BY <1>3, <1>4, <1>5, <2>1, <3>3
    <3> QED
      BY <3>1, <3>2, <3>3
  <2> QED
    BY <1>2, <1>5, <2>2 DEF FitsFor, Alike
<1>7. Leave(vs, t) = vs \/ Leave(vs, t) = [vs EXCEPT ![Len(vs)] = g]
  BY <1>2 DEF Leave, g
<1>8. Alike(g, vs[Len(vs)]) /\ Alike(f, f)
  BY <1>2, <1>5 DEF Alike
<1>9. LET r == [vs EXCEPT ![Len(vs)] = g]
      IN /\ Founded(r, A, I, C)
         /\ Awaited(r) = Awaited(vs)
         /\ Len(r) = Len(vs)
         /\ r[Len(vs)] = g
         /\ \A i \in 1..Len(vs) : i # Len(vs) => r[i] = vs[i]
  BY <1>5, <1>6, <1>8, FoundedSet
<1>10. CASE Leave(vs, t) = vs
  BY <1>2, <1>8, <1>10
<1>11. CASE Leave(vs, t) = [vs EXCEPT ![Len(vs)] = g]
  BY <1>8, <1>9, <1>11
<1> QED
  BY <1>7, <1>10, <1>11

-----------------------------------------------------------------------------
(* What is known stays known.                                                *)

LEMMA ImageFinite ==
    ASSUME NEW S, IsFiniteSet(S), NEW T, NEW f \in [S -> T]
    PROVE  IsFiniteSet({f[x] : x \in S})
<1> DEFINE R == {f[x] : x \in S}
<1>1. f \in Surjection(S, R)
  BY DEF Surjection
<1> QED
  BY <1>1, FS_Surjection

LEMMA LeadsWithin ==
    ASSUME NEW N, NEW E \in SUBSET (N \X N), NEW a, NEW b, Leads(a, b, E), a # b
    PROVE  b \in N
<1>1. Closed(N \cup {a}, E)
  BY DEF Closed
<1> QED
  BY <1>1 DEF Leads

LEMMA InformedGrows ==
    ASSUME concrete \subseteq concrete', edges \subseteq edges',
           claims.calls \subseteq claims'.calls
    PROVE  \A n : Informed(n) => Informed(n)'
<1>1. \A a, b : Leads(a, b, edges) => Leads(a, b, edges')
  BY LeadsMore
<1> QED
  BY <1>1 DEF Informed

(* An edge to what leads to a type informs. *)
LEMMA InformedByEdge ==
    ASSUME NEW n, NEW m, <<n, m>> \in edges,
           \/ Informed(m)
           \/ \E t \in concrete : Leads(m, Type(t), edges)
    PROVE  Informed(n)
BY LeadsOn DEF Informed

LEMMA KnownLead ==
    ASSUME IInv, AliasInv, stage = "expressions"
    PROVE  \A id \in KnownIds :
              \E t \in concrete : Leads(GetType(id), Type(t), edges) /\ types[t] = types[id]
<1> SUFFICES ASSUME NEW id \in KnownIds
             PROVE  \E t \in concrete : /\ Leads(GetType(id), Type(t), edges)
                                        /\ types[t] = types[id]
  OBVIOUS
<1>1. GetType(id) \in Nodes
  BY KnownHaveNodes
<1>2. NoNode \notin Nodes
  BY DEF NoNode, Nodes, Type, Var, Temp, None
<1> QED
  BY <1>1, <1>2 DEF AliasInv, Means

LEMMA KnownStay ==
    ASSUME IInv, stage = "expressions", variables \subseteq variables', UNCHANGED concrete
    PROVE  \A id \in KnownIds : GetType(id)' = GetType(id)
<1> SUFFICES ASSUME NEW id \in KnownIds PROVE GetType(id)' = GetType(id)
  OBVIOUS
<1>1. GetType(id) # NoNode
  <2>1. GetType(id) \in Nodes
    BY KnownHaveNodes
  <2> QED
    BY <2>1 DEF NoNode, Nodes, Type, Var, Temp, None
<1> QED
  BY <1>1 DEF GetType

LEMMA AliasStay ==
    ASSUME IInv, AliasInv, stage = "expressions", variables \subseteq variables',
           edges \subseteq edges', UNCHANGED <<unit, types, concrete>>
    PROVE  AliasInv'
<1>1. KnownIds' = KnownIds
  BY DEF KnownIds, Typedefs
<1>2. \A id \in KnownIds : GetType(id)' = GetType(id)
  BY KnownStay
<1>3. \A a, b : Leads(a, b, edges) => Leads(a, b, edges')
  BY LeadsMore
<1>4. ASSUME NEW id \in KnownIds PROVE Means(id)'
  <2>1. PICK t \in concrete : Leads(GetType(id), Type(t), edges) /\ types[t] = types[id]
    BY KnownLead
  <2>2. Leads(GetType(id)', Type(t), edges') /\ types'[t] = types'[id] /\ t \in concrete'
    BY <1>2, <1>3, <2>1
  <2> QED
    BY <2>2 DEF Means
<1> QED
  BY <1>1, <1>4 DEF AliasInv

(* The value of a function is known by its block, and stays what it was.     *)
BodyKept(vs, ws) ==
    \/ Len(ws) >= 2 /\ Len(vs) >= 2 /\ Alike(ws[2], vs[2])
    \/ /\ Len(vs) = 2 /\ Len(ws) = 1 /\ ~Open(ws[1])
       /\ ws[1].children[1] = Var(vs[2].id)

LEMMA BodyStays ==
    ASSUME NEW A, NEW A2, A \subseteq A2, NEW vs, HasBody(vs, A),
           NEW ws, BodyKept(vs, ws)
    PROVE  Body(ws) = Body(vs) /\ HasBody(ws, A2)
<1>1. CASE Len(ws) >= 2 /\ Len(vs) >= 2 /\ Alike(ws[2], vs[2])
  <2>1. Len(ws) # 1 /\ Len(vs) # 1
    BY <1>1
  <2>2. Body(ws) = Body(vs)
    BY <1>1, <2>1 DEF Body, Alike
  <2> QED
    BY <1>1, <2>1, <2>2 DEF HasBody, Alike
<1>2. CASE /\ Len(vs) = 2 /\ Len(ws) = 1 /\ ~Open(ws[1])
           /\ ws[1].children[1] = Var(vs[2].id)
  <2>1. Body(ws) = Body(vs)
    BY <1>2 DEF Body
  <2> QED
    BY <1>2, <2>1 DEF HasBody
<1> QED
  BY <1>1, <1>2 DEF BodyKept

-----------------------------------------------------------------------------
(* What the steps of ExprTypographer must see to.                            *)

ClaimsGrow ==
    /\ DOMAIN claims' = DOMAIN claims /\ claims.calls \subseteq claims'.calls
    /\ \A p \in TypeClaims' : \/ p \in TypeClaims
                              \/ IsOf(p[1], Answered)' /\ p[2] \in KnownIds /\ Holds(p)'
    /\ \A e \in claims'.equality :
          \/ e \in claims.equality
          \/ IsOf(e[1], Answered)' /\ IsOf(e[2], Answered)' /\ Leads(e[2], e[1], edges)'
    /\ claims'.empty => claims.empty \/ UnitAndMore'

InfoGrows ==
    /\ \A i \in DOMAIN unit :
          ItemId(i) \in variables' => ItemId(i) \in variables \/ Informed(Var(ItemId(i)))'
    /\ \A k \in 1..temps' : k \in 1..temps \/ Informed(Temp(k))'
    /\ \A id \in ToSet(asked') \cup Awaited(visits) :
          \/ id \in ToSet(asked) /\ id \notin Awaited(visits)
          \/ Informed(Var(id))' \/ id \in Awaited(visits')

BodyAccounted ==
    visits # <<>> /\ NeedRetValue =>
        \/ visits' # <<>> /\ Body(visits') = Body(visits) /\ UNCHANGED <<item, fn_ret_type>>
        \/ Leads(Body(visits), fn_ret_type, edges')

LEMMA IsOfGrows ==
    ASSUME NEW A, NEW A2, A \subseteq A2
    PROVE  \A n : IsOf(n, A) => IsOf(n, A2)
BY DEF IsOf

LEMMA SearchStep ==
    ASSUME IInv, SearchInv, stage = "expressions",
           UNCHANGED <<unit, stage, scope, concrete, results, errors>>,
           variables \subseteq variables', IsFiniteSet(variables'), edges \subseteq edges',
           ToSet(asked) \subseteq ToSet(asked'),
           WalkInv', InfoGrows, BodyAccounted, ClaimsGrow
    PROVE  SearchInv'
<1>1. TypesInv /\ AliasInv /\ WalkInv /\ InfoInv /\ ClaimsInv /\ ResultsInv /\ ErrorsInv
  BY DEF SearchInv
<1>2. /\ unit' = unit /\ stage' = stage /\ type_ids' = type_ids /\ names' = names /\ types' = types
      /\ concrete' = concrete /\ results' = results /\ errors' = errors
  BY DEF scope
<1>3. KnownIds' = KnownIds /\ TypeIds' = TypeIds /\ Typedefs' = Typedefs
  BY <1>2 DEF KnownIds, Typedefs, TypeIds
<1>4. errors = {} /\ results = <<>>
  BY <1>1 DEF IInv, ScopeInv, ResultsInv
<1>5. \A n : Informed(n) => Informed(n)'
  BY <1>2, InformedGrows DEF ClaimsGrow
<1>6. Answered \subseteq Answered'
  BY <1>2 DEF Answered
<1>7. \A a, b : Leads(a, b, edges) => Leads(a, b, edges')
  BY LeadsMore
<1>8. \A id \in KnownIds : GetType(id)' = GetType(id)
  BY <1>2, KnownStay
<1>9. TypesInv'
  BY <1>1, <1>2, <1>3 DEF TypesInv
<1>10. AliasInv'
  BY <1>1, <1>2, AliasStay
<1>11. InfoInv'
  <2>1. \A i \in DOMAIN unit' : ItemId(i) \in variables' => Informed(Var(ItemId(i)))'
    BY <1>1, <1>2, <1>5 DEF InfoInv, InfoGrows
  <2>2. \A k \in 1..temps' : Informed(Temp(k))'
    BY <1>1, <1>5 DEF InfoInv, InfoGrows
  <2>3. ASSUME NEW id \in Answered'
        PROVE  Informed(Var(id))' \/ id \in Awaited(visits')
    <3>1. id \in ToSet(asked')
      BY <1>2, <1>4 DEF Answered
    <3>2. id \in ToSet(asked) /\ id \notin Awaited(visits) => Informed(Var(id))
      BY <1>1 DEF InfoInv, Answered
    <3> QED
      BY <1>5, <3>1, <3>2 DEF InfoGrows
  <2> QED
    BY <2>1, <2>2, <2>3 DEF InfoInv
<1>12. ASSUME visits # <<>>, NeedRetValue
       PROVE  /\ fn_ret_type = GetType(RetType) /\ RetType \in KnownIds \ {UnitId}
              /\ \E b \in Answered : Body(visits) = Var(b)
  <2>1. fn_ret_type = GetType(RetType) /\ HasBody(visits, ToSet(asked))
    BY <1>1, <1>12 DEF WalkInv
  <2>2. RetType \in KnownIds
    <3>1. item \in DOMAIN unit
      BY <1>12, Walks
    <3> QED
      BY <3>1, ItemTypeIds DEF TypeIds
  <2>3. RetType # UnitId
    BY <1>1, <1>12 DEF NeedRetValue, TypesInv
  <2> QED
    BY <2>1, <2>2, <2>3 DEF HasBody, Answered
<1>13. ASSUME NEW p, p[2] \in KnownIds, Holds(p)
       PROVE  Holds(p)'
  <2>1. CASE Leads(p[1], GetType(p[2]), edges)
    BY <1>7, <1>8, <1>13, <2>1 DEF Holds
  <2>2. CASE visits # <<>> /\ NeedRetValue /\ p = <<Body(visits), RetType>>
    <3>1. CASE visits' # <<>> /\ Body(visits') = Body(visits) /\ UNCHANGED <<item, fn_ret_type>>
      BY <1>2, <2>2, <3>1 DEF Holds, NeedRetValue, RetType
    <3>2. CASE Leads(Body(visits), fn_ret_type, edges')
      <4>1. Leads(p[1], GetType(p[2]), edges')
        BY <1>12, <2>2, <3>2
      <4> QED
        BY <1>8, <1>13, <4>1 DEF Holds
    <3> QED
      BY <2>2, <3>1, <3>2 DEF BodyAccounted
  <2> QED
    BY <1>13, <2>1, <2>2 DEF Holds
<1>14. ASSUME UnitAndMore PROVE UnitAndMore'
  <2>1. ASSUME NEW b \in Answered, NEW r \in KnownIds \ {UnitId},
               Leads(Var(b), GetType(r), edges), Leads(Var(b), Type(UnitId), edges)
        PROVE  UnitAndMore'
    <3>1. /\ b \in Answered' /\ r \in KnownIds' \ {UnitId}
          /\ Leads(Var(b), GetType(r)', edges') /\ Leads(Var(b), Type(UnitId), edges')
      BY <1>3, <1>6, <1>7, <1>8, <2>1
    <3> QED
      BY <3>1 DEF UnitAndMore
  <2>2. CASE visits # <<>> /\ NeedRetValue /\ Leads(fn_ret_type, Type(UnitId), edges)
    <3>1. CASE visits' # <<>> /\ Body(visits') = Body(visits) /\ UNCHANGED <<item, fn_ret_type>>
      BY <1>2, <1>7, <2>2, <3>1 DEF UnitAndMore, NeedRetValue, RetType
    <3>2. CASE Leads(Body(visits), fn_ret_type, edges')
      <4>1. PICK b \in Answered : Body(visits) = Var(b)
        BY <1>12, <2>2
      <4>2. Leads(fn_ret_type, Type(UnitId), edges')
        BY <1>7, <2>2
      <4>3. Leads(Var(b), fn_ret_type, edges') /\ Leads(Var(b), Type(UnitId), edges')
        BY <3>2, <4>1, <4>2, LeadsOn
      <4>4. PICK r \in KnownIds \ {UnitId} : fn_ret_type = GetType(r)
        BY <1>12, <2>2
      <4>5. r \in KnownIds' \ {UnitId} /\ Leads(Var(b), GetType(r)', edges')
        BY <1>3, <1>8, <4>3, <4>4
      <4> QED
        BY <1>6, <4>1, <4>3, <4>5 DEF UnitAndMore
    <3> QED
      BY <2>2, <3>1, <3>2 DEF BodyAccounted
  <2> QED
    BY <1>14, <2>1, <2>2 DEF UnitAndMore
<1>15. ClaimsInv'
  <2>1. /\ DOMAIN claims' = {"declared", "returned", "arithmetic", "condition", "equality",
                             "branches", "calls", "empty"}
        /\ stage' \notin {"identify", "items"}
    BY <1>1, <1>2 DEF ClaimsInv, ClaimsGrow
  <2>2. ASSUME NEW p \in TypeClaims'
        PROVE  IsOf(p[1], Answered)' /\ p[2] \in KnownIds' /\ Holds(p)'
    <3>1. CASE p \in TypeClaims
      <4>1. IsOf(p[1], Answered) /\ p[2] \in KnownIds /\ Holds(p)
        BY <1>1, <1>4, <3>1 DEF ClaimsInv
      <4> QED
        BY <1>3, <1>6, <1>13, <4>1, IsOfGrows
    <3>2. CASE IsOf(p[1], Answered)' /\ p[2] \in KnownIds /\ Holds(p)'
      BY <1>3, <3>2
    <3> QED
      BY <3>1, <3>2 DEF ClaimsGrow
  <2>3. ASSUME NEW e \in claims'.equality
        PROVE  IsOf(e[1], Answered)' /\ IsOf(e[2], Answered)' /\ Leads(e[2], e[1], edges)'
    <3>1. CASE e \in claims.equality
      <4>1. IsOf(e[1], Answered) /\ IsOf(e[2], Answered) /\ Leads(e[2], e[1], edges)
        BY <1>1, <1>4, <3>1 DEF ClaimsInv
      <4> QED
        BY <1>6, <1>7, <4>1, IsOfGrows
    <3> QED
      BY <3>1 DEF ClaimsGrow
  <2>4. claims'.empty => UnitAndMore'
    BY <1>1, <1>4, <1>14 DEF ClaimsInv, ClaimsGrow
  <2> QED
    BY <2>1, <2>2, <2>3, <2>4 DEF ClaimsInv
<1>16. ResultsInv' /\ ErrorsInv'
  BY <1>2, <1>4 DEF ResultsInv, ErrorsInv
<1> QED
  BY <1>9, <1>10, <1>11, <1>15, <1>16 DEF SearchInv

-----------------------------------------------------------------------------
(* The steps within a function.                                              *)

WalkOn ==
    /\ stage = "expressions" /\ visits # <<>>
    /\ UNCHANGED <<unit, stage, item, scope, concrete, fn_ret_type, results, errors>>
    /\ \/ variables' = variables
       \/ \E id : variables' = variables \cup {id} /\ (id = NewId \/ Informed(Var(id))')
    /\ edges \subseteq edges' /\ temps' \in Nat /\ temps <= temps'
    /\ \A k \in 1..temps' : k \in 1..temps \/ Informed(Temp(k))'
    /\ ToSet(asked) \subseteq ToSet(asked')
    /\ ClaimsGrow

LEMMA WalkOnProperties ==
    ASSUME IInv, SearchInv, WalkOn
    PROVE  /\ variables \subseteq variables' /\ IsFiniteSet(variables')
           /\ UNCHANGED <<names, types>>
           /\ \A i \in DOMAIN unit :
                 ItemId(i) \in variables' => ItemId(i) \in variables \/ Informed(Var(ItemId(i)))'
           /\ \A n : Informed(n) => Informed(n)'
           /\ InformedNodes \subseteq InformedNodes'
           /\ ToSet(asked) \subseteq ToSet(asked') /\ claims.calls \subseteq claims'.calls
<1>1. IsFiniteSet(variables)
  BY DEF SearchInv, TypesInv
<1>2. variables \subseteq variables' /\ IsFiniteSet(variables')
  BY <1>1, FS_AddElement DEF WalkOn
<1>3. UNCHANGED <<names, types>>
  BY DEF WalkOn, scope
<1>4. ASSUME NEW i \in DOMAIN unit, ItemId(i) \in variables'
      PROVE  ItemId(i) \in variables \/ Informed(Var(ItemId(i)))'
  <2>1. ItemId(i) # NewId
    BY DEF ItemId, NewId
  <2> QED
    BY <1>4, <2>1 DEF WalkOn
<1>5. \A n : Informed(n) => Informed(n)'
  BY InformedGrows DEF WalkOn, ClaimsGrow
<1>6. InformedNodes \subseteq InformedNodes'
  <2>1. Nodes \subseteq Nodes'
    <3>1. concrete' = concrete
      BY DEF WalkOn
    <3>2. \A n \in 1..temps : n \in 1..temps'
      BY DEF IInv, TypeOK, WalkOn
    <3> QED
      BY <1>2, <3>1, <3>2 DEF Nodes, Type, Var, Temp
  <2> QED
    BY <1>5, <2>1 DEF InformedNodes
<1> QED
  BY <1>2, <1>3, <1>4, <1>5, <1>6 DEF WalkOn, ClaimsGrow

LEMMA WalkSearch ==
    ASSUME IInv, SearchInv, WalkOn, visits' # <<>>,
           Founded(visits', ToSet(asked'), InformedNodes', claims'.calls),
           NeedRetValue => BodyKept(visits, visits'),
           \A id \in ToSet(asked') \cup Awaited(visits) :
              \/ id \in ToSet(asked) /\ id \notin Awaited(visits)
              \/ Informed(Var(id))' \/ id \in Awaited(visits')
    PROVE  SearchInv'
<1>1. /\ variables \subseteq variables' /\ IsFiniteSet(variables')
      /\ \A i \in DOMAIN unit :
            ItemId(i) \in variables' => ItemId(i) \in variables \/ Informed(Var(ItemId(i)))'
      /\ \A n : Informed(n) => Informed(n)'
  BY WalkOnProperties
<1>2. /\ stage = "expressions" /\ visits # <<>>
      /\ UNCHANGED <<unit, stage, item, scope, concrete, fn_ret_type, results, errors>>
      /\ edges \subseteq edges' /\ ToSet(asked) \subseteq ToSet(asked')
      /\ ClaimsGrow
      /\ \A k \in 1..temps' : k \in 1..temps \/ Informed(Temp(k))'
  BY DEF WalkOn
<1>3. /\ fn_ret_type = GetType(RetType)
      /\ NeedRetValue => HasBody(visits, ToSet(asked))
      /\ \A p \in Params : Informed(Var(ParamId(item, p)))
  BY <1>2 DEF SearchInv, WalkInv
<1>4. NeedRetValue => Body(visits') = Body(visits) /\ HasBody(visits', ToSet(asked'))
  BY <1>2, <1>3, BodyStays
<1>5. RetType' = RetType /\ NeedRetValue' = NeedRetValue /\ Params' = Params
  BY <1>2 DEF RetType, NeedRetValue, Params, scope
<1>6. GetType(RetType)' = GetType(RetType)
  <2>1. PICK r : r = RetType
    OBVIOUS
  <2>2. r \in KnownIds
    BY <1>2, <2>1, Walks, ItemTypeIds DEF TypeIds
  <2>3. GetType(r)' = GetType(r)
    BY <1>1, <1>2, <2>2, KnownStay
  <2>4. r = RetType'
    BY <1>5, <2>1
  <2>5. GetType(RetType)' = GetType(r)'
    BY <2>4
  <2> QED
    BY <2>1, <2>3, <2>5
<1>7. WalkInv'
  BY <1>1, <1>2, <1>3, <1>4, <1>5, <1>6 DEF WalkInv
<1>8. InfoGrows
  BY <1>1, <1>2 DEF InfoGrows
<1>9. BodyAccounted
  BY <1>2, <1>4 DEF BodyAccounted
<1> QED
  BY <1>1, <1>2, <1>7, <1>8, <1>9, SearchStep

(* The stack vs of visits is like that of the state, but for the phase of    *)
(* the visit on top.                                                         *)
LikeVisits(vs) ==
    /\ Stacked(vs, Nodes, variables, KnownIds)
    /\ Founded(vs, ToSet(asked), InformedNodes, claims.calls)
    /\ Awaited(vs) = Awaited(visits)
    /\ Len(vs) = Len(visits)
    /\ \A i \in 1..Len(vs) : Alike(vs[i], visits[i])

(* While a function is visited with a value to come, its block is there.     *)
LEMMA OpenBody ==
    ASSUME IInv, SearchInv, stage = "expressions", visits # <<>>, NeedRetValue,
           Open(visits[Len(visits)])
    PROVE  Len(visits) >= 2 /\ visits[2].node = "block" /\ visits[2].source
<1>1. HasBody(visits, ToSet(asked))
  BY DEF SearchInv, WalkInv
<1>2. Len(visits) \in Nat \ {0}
  <2>1. Stacked(visits, Nodes, variables, KnownIds)
    BY Walks
  <2> QED
    BY <2>1, StackTop
<1>3. Len(visits) # 1
  BY <1>1 DEF HasBody
<1>4. Len(visits) >= 2
  <2> DEFINE n == Len(visits)
  <2>1. n \in Nat \ {0} /\ n # 1
    BY <1>2, <1>3
  <2> HIDE DEF n
  <2>2. n >= 2
    BY <2>1
  <2> QED
    BY <2>2 DEF n
<1> QED
  BY <1>1, <1>3, <1>4 DEF HasBody

LEMMA VisitsAlike ==
    ASSUME IInv, SearchInv, stage = "expressions", visits # <<>>
    PROVE  LikeVisits(visits)
<1>1. Stacked(visits, Nodes, variables, KnownIds)
  BY Walks
<1>2. Founded(visits, ToSet(asked), InformedNodes, claims.calls)
  BY DEF SearchInv, WalkInv
<1> QED
  BY <1>1, <1>2 DEF LikeVisits, Alike

(* A visit that begins has no children yet. *)
Fresh(f) == f.children = <<>> /\ f.declared = {}

LEMMA FreshFits ==
    ASSUME NEW f, Fresh(f), NEW A, NEW I, NEW C,
           f.node = "if" => f.arity >= 2, f.node = "call" => C # {}
    PROVE  FitsFor(f, A, I, C)
<1>1. Len(f.children) = 0
  BY EmptySeq DEF Fresh
<1>2. \A k \in 1..0 : FALSE
  OBVIOUS
<1> QED
  BY <1>1, <1>2 DEF FitsFor, Fresh

LEMMA PushSearch ==
    ASSUME IInv, SearchInv, WalkOn,
           NEW vs, LikeVisits(vs), Open(visits[Len(visits)]),
           NEW f \in VisitOf(Nodes'), Fresh(f), f.node = "if" => f.arity >= 2,
           f.node = "call" => claims'.calls # {},
           f.node \in Statements => ~TakesExpr(vs[Len(vs)], Len(vs[Len(vs)].children) + 1),
           visits' = Append(vs, f),
           \A id \in ToSet(asked') :
              \/ id \in ToSet(asked) \/ Informed(Var(id))'
              \/ id \in Awaited(visits) \cup Valuable(f)
    PROVE  SearchInv'
<1> DEFINE N2 == Nodes'
           V2 == variables'
           A2 == ToSet(asked')
           I2 == InformedNodes'
           C2 == claims'.calls
<1>1. /\ stage = "expressions" /\ visits # <<>> /\ concrete' = concrete
      /\ temps' \in Nat /\ temps <= temps'
  BY DEF WalkOn
<1>2. /\ variables \subseteq V2 /\ ToSet(asked) \subseteq A2
      /\ InformedNodes \subseteq I2 /\ claims.calls \subseteq C2
  BY WalkOnProperties
<1>3. Stacked(vs, N2, V2, KnownIds)
  BY <1>1, <1>2, WalkGrows DEF LikeVisits
<1>4. f \in VisitOf(N2) /\ (f.node = "call" => C2 # {})
  OBVIOUS
<1> HIDE DEF N2, V2, A2, I2, C2
<1>5. Founded(vs, A2, I2, C2)
  <2>1. Founded(vs, ToSet(asked), InformedNodes, claims.calls)
    BY DEF LikeVisits
  <2> QED
    BY <1>2, <2>1, FoundedGrows
<1>6. FitsFor(f, A2, I2, C2)
  BY <1>4, FreshFits
<1>7. /\ Founded(Append(vs, f), A2, I2, C2)
      /\ Awaited(Append(vs, f)) = Awaited(vs) \cup Valuable(f)
      /\ Len(Append(vs, f)) = Len(vs) + 1
      /\ \A i \in 1..Len(vs) : Append(vs, f)[i] = vs[i]
  BY <1>3, <1>4, <1>5, <1>6, FoundedPush
<1>8. Len(vs) = Len(visits) /\ Awaited(vs) = Awaited(visits)
      /\ \A i \in 1..Len(vs) : Alike(vs[i], visits[i])
  BY DEF LikeVisits
<1>9. Len(visits) \in Nat \ {0}
  <2>1. Stacked(visits, Nodes, variables, KnownIds)
    BY <1>1, Walks
  <2> QED
    BY <2>1, StackTop
<1>10. Founded(visits', ToSet(asked'), InformedNodes', claims'.calls)
  BY <1>7 DEF A2, I2, C2
<1>11. visits' # <<>>
  <2>1. visits' \in Seq(VisitOf(N2))
    BY <1>3, <1>4, AppendItem DEF Stacked
  <2> QED
    BY <1>3, <1>4, AppendItem DEF Stacked
<1>12. ASSUME NeedRetValue PROVE BodyKept(visits, visits')
  <2>1. Len(visits) >= 2
    BY <1>1, <1>12, OpenBody
  <2> DEFINE n == Len(visits)
  <2>2. /\ n \in Nat /\ n >= 2 /\ Len(visits') = n + 1
        /\ \A i \in 1..n : visits'[i] = vs[i]
        /\ \A i \in 1..n : Alike(vs[i], visits[i])
    BY <1>7, <1>8, <1>9, <2>1
  <2> HIDE DEF n
  <2>3. 2 \in 1..n /\ Len(visits') >= 2
    BY <2>2
  <2>4. Alike(visits'[2], visits[2])
    BY <2>2, <2>3
  <2> QED
    BY <2>1, <2>3, <2>4 DEF BodyKept
<1>13. \A id \in ToSet(asked') \cup Awaited(visits) :
          \/ id \in ToSet(asked) /\ id \notin Awaited(visits)
          \/ Informed(Var(id))' \/ id \in Awaited(visits')
  <2>1. Awaited(visits') = Awaited(visits) \cup Valuable(f)
    BY <1>7, <1>8
  <2> QED
    BY <2>1
<1> QED
  BY <1>10, <1>11, <1>12, <1>13, WalkSearch

(* The stack b has what is left of the visits, and the type t is left for    *)
(* the one on top.                                                           *)
LEMMA LeaveSearch ==
    ASSUME IInv, SearchInv, WalkOn,
           NEW b, Stacked(b, Nodes', variables', KnownIds), Open(b[Len(b)]),
           Founded(b, ToSet(asked'), InformedNodes', claims'.calls),
           NEW t \in InformedNodes',
           TakesExpr(b[Len(b)], Len(b[Len(b)].children) + 1) => IsOf(t, ToSet(asked')),
           visits' = Leave(b, t),
           \A id \in Awaited(visits) : Informed(Var(id))' \/ id \in Awaited(b),
           \A id \in ToSet(asked') : id \in ToSet(asked) \/ Informed(Var(id))',
           NeedRetValue => \/ Len(b) >= 2 /\ Len(visits) >= 2 /\ Alike(b[2], visits[2])
                           \/ Len(b) = 1 /\ Len(visits) = 2 /\ t = Var(visits[2].id)
    PROVE  SearchInv'
<1> DEFINE N2 == Nodes'
           V2 == variables'
           A2 == ToSet(asked')
           I2 == InformedNodes'
           C2 == claims'.calls
<1>1. t \in I2 /\ t \in N2
  BY DEF InformedNodes
<1>2. /\ Stacked(b, N2, V2, KnownIds) /\ Open(b[Len(b)])
      /\ Founded(b, A2, I2, C2) /\ t \in N2
      /\ TakesExpr(b[Len(b)], Len(b[Len(b)].children) + 1) => IsOf(t, A2)
  BY <1>1
<1> HIDE DEF N2, V2, A2, I2, C2
<1>3. /\ Founded(Leave(b, t), A2, I2, C2)
      /\ Awaited(Leave(b, t)) = Awaited(b)
      /\ Len(Leave(b, t)) = Len(b)
      /\ \A i \in 1..Len(b) : i # Len(b) => Leave(b, t)[i] = b[i]
      /\ Alike(Leave(b, t)[Len(b)], b[Len(b)])
  BY <1>1, <1>2, FoundedLeave
<1>4. Stacked(visits', N2, V2, KnownIds)
  BY <1>2, LeaveStack
<1>5. visits' # <<>>
  BY <1>4 DEF Stacked
<1>6. Founded(visits', ToSet(asked'), InformedNodes', claims'.calls)
  BY <1>3 DEF A2, I2, C2
<1>7. Len(b) \in Nat \ {0} /\ b[Len(b)] \in VisitOf(N2) /\ Fits(b[Len(b)], V2, KnownIds)
      /\ (b[Len(b)].node = "fn" <=> Len(b) = 1)
  BY <1>2, StackTop
<1>8. ASSUME Len(b) >= 2, Len(visits) >= 2, Alike(b[2], visits[2])
      PROVE  BodyKept(visits, visits')
  <2> DEFINE n == Len(b)
  <2>1. /\ n \in Nat /\ n >= 2 /\ Len(visits') = n
        /\ \A i \in 1..n : i # n => visits'[i] = b[i]
        /\ Alike(visits'[n], b[n])
    BY <1>3, <1>7, <1>8
  <2> HIDE DEF n
  <2>2. 2 \in 1..n /\ Len(visits') >= 2
    BY <2>1
  <2>3. Alike(visits'[2], b[2])
    <3>1. CASE n = 2
      BY <2>1, <3>1
    <3>2. CASE n # 2
      <4>1. visits'[2] = b[2]
        BY <2>1, <2>2, <3>2
      <4> QED
        BY <4>1 DEF Alike
    <3> QED
      BY <3>1, <3>2
  <2>4. Alike(visits'[2], visits[2])
    BY <1>8, <2>3 DEF Alike
  <2> QED
    BY <1>8, <2>2, <2>4 DEF BodyKept
<1>9. ASSUME Len(b) = 1, Len(visits) = 2, t = Var(visits[2].id)
      PROVE  BodyKept(visits, visits')
  <2> DEFINE f == b[1]
             g == [f EXCEPT !.children = Append(@, t)]
  <2>1. f \in VisitOf(N2) /\ Fits(f, V2, KnownIds) /\ f.node = "fn" /\ Open(f)
    BY <1>2, <1>7, <1>9
  <2>2. Last(b) = f /\ b \in Seq(VisitOf(N2))
    BY <1>2, <1>9 DEF Last, Stacked
  <2>3. Leave(b, t) = [b EXCEPT ![1] = g]
    <3>1. ~(f.node = "block")
      BY <2>1
    <3> HIDE DEF f
    <3> QED
      BY <1>9, <2>2, <3>1 DEF Leave, f
  <2>4. f.children \in Seq(N2) /\ f.arity = 1 /\ Len(f.children) < 1
    BY <2>1, ArityOne DEF VisitOf, Fits, Open
  <2>5. f.children = <<>>
    <3>1. Len(f.children) \in Nat
      BY <2>4, LenProperties
    <3>2. Len(f.children) = 0
      BY <2>4, <3>1
    <3> QED
      BY <2>4, <3>2, EmptySeq
  <2>6. g.children = <<t>> /\ g.arity = 1
    <3> HIDE DEF f
    <3>1. Append(f.children, t) = <<t>>
      BY <2>5
    <3> QED
      BY <2>1, <2>4, <3>1 DEF VisitOf
  <2> HIDE DEF f, g
  <2>7. visits'[1] = g
    <3>1. 1 \in DOMAIN b
      BY <1>9, <2>2, LenProperties
    <3> QED
      BY <2>3, <3>1
  <2>8. Len(visits') = 1
    BY <1>3, <1>9
  <2>9. ~Open(visits'[1]) /\ visits'[1].children[1] = t
    <3>1. Len(<<t>>) = 1 /\ <<t>>[1] = t
      OBVIOUS
    <3>2. Len(g.children) = 1 /\ g.children[1] = t
      BY <2>6, <3>1
    <3>3. ~Open(g)
      <4>1. ~(1 < 1)
        OBVIOUS
      <4> QED
        BY <2>6, <3>2, <4>1 DEF Open
    <3> QED
      BY <2>7, <3>2, <3>3
  <2> QED
    BY <1>9, <2>8, <2>9 DEF BodyKept
<1>10. \A id \in ToSet(asked') \cup Awaited(visits) :
          \/ id \in ToSet(asked) /\ id \notin Awaited(visits)
          \/ Informed(Var(id))' \/ id \in Awaited(visits')
  BY <1>3
<1> QED
  BY <1>5, <1>6, <1>8, <1>9, <1>10, WalkSearch

LEMMA LeafSearch ==
    ASSUME IInv, SearchInv, WalkOn, Open(visits[Len(visits)]),
           NEW vs, LikeVisits(vs), Open(vs[Len(vs)]),
           NEW t \in InformedNodes',
           TakesExpr(vs[Len(vs)], Len(vs[Len(vs)].children) + 1) => IsOf(t, ToSet(asked')),
           visits' = Leave(vs, t),
           \A id \in ToSet(asked') : id \in ToSet(asked) \/ Informed(Var(id))'
    PROVE  SearchInv'
<1>1. /\ stage = "expressions" /\ visits # <<>> /\ concrete' = concrete
      /\ temps' \in Nat /\ temps <= temps'
  BY DEF WalkOn
<1>2. /\ variables \subseteq variables' /\ ToSet(asked) \subseteq ToSet(asked')
      /\ InformedNodes \subseteq InformedNodes' /\ claims.calls \subseteq claims'.calls
  BY WalkOnProperties
<1>3. /\ Stacked(vs, Nodes, variables, KnownIds)
      /\ Founded(vs, ToSet(asked), InformedNodes, claims.calls)
      /\ Awaited(vs) = Awaited(visits) /\ Len(vs) = Len(visits)
      /\ \A i \in 1..Len(vs) : Alike(vs[i], visits[i])
  BY DEF LikeVisits
<1>4. Stacked(vs, Nodes', variables', KnownIds)
  BY <1>1, <1>2, <1>3, WalkGrows
<1>5. Founded(vs, ToSet(asked'), InformedNodes', claims'.calls)
  <2> DEFINE A2 == ToSet(asked')
             I2 == InformedNodes'
             C2 == claims'.calls
  <2>1. ToSet(asked) \subseteq A2 /\ InformedNodes \subseteq I2 /\ claims.calls \subseteq C2
    BY <1>2
  <2> HIDE DEF A2, I2, C2
  <2>2. Founded(vs, A2, I2, C2)
    BY <1>3, <2>1, FoundedGrows
  <2> QED
    BY <2>2 DEF A2, I2, C2
<1>6. ASSUME NeedRetValue
      PROVE  Len(vs) >= 2 /\ Len(visits) >= 2 /\ Alike(vs[2], visits[2])
  <2>1. Len(visits) >= 2
    BY <1>1, <1>6, OpenBody
  <2>2. Len(vs) \in Nat \ {0}
    BY <1>3, StackTop
  <2> DEFINE n == Len(vs)
  <2>3. n \in Nat /\ n >= 2
    BY <1>3, <2>1, <2>2
  <2> HIDE DEF n
  <2>4. 2 \in 1..n
    BY <2>3
  <2> QED
    BY <1>3, <2>1, <2>4 DEF n
<1>7. \A id \in Awaited(visits) : id \in Awaited(vs)
  BY <1>3
<1> QED
  BY <1>4, <1>5, <1>6, <1>7, LeaveSearch

(* The visits that are left when the one on top ends. *)
LEMMA FrontVisits ==
    ASSUME IInv, SearchInv, WalkOn, top.node # "fn"
    PROVE  /\ Stacked(Front(visits), Nodes', variables', KnownIds)
           /\ Founded(Front(visits), ToSet(asked'), InformedNodes', claims'.calls)
           /\ Open(Front(visits)[Len(Front(visits))])
           /\ Awaited(visits) = Awaited(Front(visits)) \cup Valuable(top)
           /\ Len(visits) \in Nat /\ Len(Front(visits)) = Len(visits) - 1
           /\ Len(Front(visits)) \in Nat \ {0}
           /\ \A i \in 1..Len(Front(visits)) : Front(visits)[i] = visits[i]
           /\ top.node \in Statements =>
                 ~TakesExpr(Front(visits)[Len(Front(visits))],
                            Len(Front(visits)[Len(Front(visits))].children) + 1)
           /\ NeedRetValue /\ Len(visits) = 2 => top.node = "block" /\ top.source
<1> DEFINE n == Len(visits)
           b == Front(visits)
           N2 == Nodes'
           V2 == variables'
           A2 == ToSet(asked')
           I2 == InformedNodes'
           C2 == claims'.calls
<1>1. /\ stage = "expressions" /\ visits # <<>> /\ concrete' = concrete
      /\ temps' \in Nat /\ temps <= temps'
  BY DEF WalkOn
<1>2. /\ variables \subseteq V2 /\ ToSet(asked) \subseteq A2
      /\ InformedNodes \subseteq I2 /\ claims.calls \subseteq C2
  BY WalkOnProperties
<1>3. Stacked(visits, Nodes, variables, KnownIds) /\ top = visits[n]
  BY <1>1, Walks
<1>4. Stacked(visits, N2, V2, KnownIds)
  BY <1>1, <1>2, <1>3, WalkGrows
<1> HIDE DEF N2, V2, A2, I2, C2
<1>5. Founded(visits, A2, I2, C2)
  <2>1. Founded(visits, ToSet(asked), InformedNodes, claims.calls)
    BY <1>1 DEF SearchInv, WalkInv
  <2> QED
    BY <1>2, <2>1, FoundedGrows
<1>6. n \in Nat \ {0} /\ n # 1
  BY <1>3, StackTop
<1>7. /\ Stacked(b, N2, V2, KnownIds)
      /\ Len(b) = n - 1
      /\ Open(b[Len(b)])
  BY <1>3, <1>4, PopStack
<1>8. /\ Founded(b, A2, I2, C2)
      /\ Awaited(visits) = Awaited(b) \cup Valuable(top)
      /\ \A i \in 1..(n - 1) : b[i] = visits[i]
      /\ top.node \in Statements => ~TakesExpr(visits[n - 1], Len(visits[n - 1].children) + 1)
  <2>1. visits[Len(visits)].node # "fn"
    BY <1>3
  <2>2. Founded(Front(visits), A2, I2, C2)
    BY <1>4, <1>5, <2>1, FoundedFront
  <2>3. /\ Awaited(visits) = Awaited(Front(visits)) \cup Valuable(visits[Len(visits)])
        /\ \A i \in 1..(Len(visits) - 1) : Front(visits)[i] = visits[i]
        /\ visits[Len(visits)].node \in Statements =>
              ~TakesExpr(visits[Len(visits) - 1], Len(visits[Len(visits) - 1].children) + 1)
    BY <1>4, <1>5, <2>1, <2>2, FoundedFront
  <2> QED
    BY <1>3, <2>2, <2>3
<1>9. ASSUME NeedRetValue, n = 2 PROVE top.node = "block" /\ top.source
  <2>1. HasBody(visits, ToSet(asked))
    BY <1>1, <1>9 DEF SearchInv, WalkInv
  <2> QED
    BY <1>3, <1>6, <1>9, <2>1 DEF HasBody
<1> HIDE DEF n, b
<1>10. Len(b) \in Nat \ {0} /\ Len(b) \in 1..(n - 1)
  BY <1>6, <1>7
<1>11. b[Len(b)] = visits[n - 1]
  BY <1>7, <1>8, <1>10
<1>12. top.node \in Statements => ~TakesExpr(b[Len(b)], Len(b[Len(b)].children) + 1)
  BY <1>8, <1>11
<1> QED
  BY <1>6, <1>7, <1>8, <1>9, <1>10, <1>12 DEF n, b, N2, V2, A2, I2, C2

LEMMA EndSearch ==
    ASSUME IInv, SearchInv, WalkOn, top.node # "fn",
           NEW t \in InformedNodes',
           top.node \in Statements \/ IsOf(t, ToSet(asked')),
           top.node = "block" /\ top.source => t = Var(top.id),
           visits' = Leave(Front(visits), t),
           \A id \in Valuable(top) : Informed(Var(id))',
           \A id \in ToSet(asked') : id \in ToSet(asked) \/ Informed(Var(id))'
    PROVE  SearchInv'
<1> DEFINE b == Front(visits)
           n == Len(visits)
<1>1. /\ Stacked(b, Nodes', variables', KnownIds)
      /\ Founded(b, ToSet(asked'), InformedNodes', claims'.calls)
      /\ Open(b[Len(b)])
      /\ Awaited(visits) = Awaited(b) \cup Valuable(top)
      /\ n \in Nat /\ Len(b) = n - 1
      /\ Len(b) \in Nat \ {0}
      /\ \A i \in 1..Len(b) : b[i] = visits[i]
      /\ top.node \in Statements => ~TakesExpr(b[Len(b)], Len(b[Len(b)].children) + 1)
      /\ NeedRetValue /\ n = 2 => top.node = "block" /\ top.source
  BY FrontVisits
<1>2. top = visits[n]
  BY DEF top
<1>3. visits' = Leave(b, t)
  OBVIOUS
<1> HIDE DEF b, n
<1>4. ASSUME NeedRetValue
      PROVE  \/ Len(b) >= 2 /\ n >= 2 /\ Alike(b[2], visits[2])
             \/ Len(b) = 1 /\ n = 2 /\ t = Var(visits[2].id)
  <2>1. CASE n = 2
    BY <1>1, <1>2, <1>4, <2>1
  <2>2. CASE n # 2
    <3>1. Len(b) >= 2 /\ n >= 2 /\ 2 \in 1..Len(b)
      BY <1>1, <2>2
    <3> QED
      BY <1>1, <3>1 DEF Alike
  <2> QED
    BY <2>1, <2>2
<1>5. \A id \in Awaited(visits) : Informed(Var(id))' \/ id \in Awaited(b)
  BY <1>1
<1>6. TakesExpr(b[Len(b)], Len(b[Len(b)].children) + 1) => IsOf(t, ToSet(asked'))
  BY <1>1
<1> QED
  BY <1>1, <1>3, <1>4, <1>5, <1>6, LeaveSearch DEF n

-----------------------------------------------------------------------------
(* What is new in the claims. *)

LEMMA ClaimsSame ==
    ASSUME claims' = claims, names' = names
    PROVE  ClaimsGrow
<1>1. TypeClaims' = TypeClaims
  BY DEF TypeClaims
<1> QED
  BY <1>1 DEF ClaimsGrow

LEMMA ClaimsMore ==
    ASSUME IInv, stage = "expressions", UNCHANGED <<concrete, results>>,
           variables \subseteq variables',
           DOMAIN claims' = DOMAIN claims, claims.calls \subseteq claims'.calls,
           claims'.empty => claims.empty,
           NEW T, TypeClaims' \subseteq TypeClaims \cup T,
           NEW Q, claims'.equality \subseteq claims.equality \cup Q,
           \A p \in T : /\ IsOf(p[1], ToSet(asked')) /\ p[2] \in KnownIds
                        /\ Leads(p[1], GetType(p[2]), edges'),
           \A e \in Q : /\ IsOf(e[1], ToSet(asked')) /\ IsOf(e[2], ToSet(asked'))
                        /\ Leads(e[2], e[1], edges')
    PROVE  ClaimsGrow
<1>1. \A n : IsOf(n, ToSet(asked')) => IsOf(n, Answered')
  BY DEF IsOf, Answered
<1>2. ASSUME NEW p \in TypeClaims'
      PROVE  \/ p \in TypeClaims
             \/ IsOf(p[1], Answered)' /\ p[2] \in KnownIds /\ Holds(p)'
  <2>1. CASE p \in TypeClaims
    BY <2>1
  <2>2. CASE p \notin TypeClaims
    <3>1. p \in T
      BY <2>2
    <3>2. GetType(p[2])' = GetType(p[2])
      BY <3>1, KnownStay
    <3>3. Leads(p[1], GetType(p[2])', edges')
      BY <3>1, <3>2
    <3> QED
      BY <1>1, <3>1, <3>3 DEF Holds
  <2> QED
    BY <2>1, <2>2
<1>3. ASSUME NEW e \in claims'.equality
      PROVE  \/ e \in claims.equality
             \/ IsOf(e[1], Answered)' /\ IsOf(e[2], Answered)' /\ Leads(e[2], e[1], edges)'
  BY <1>1
<1> QED
  BY <1>2, <1>3 DEF ClaimsGrow

(* The node of a primitive leads to a type. *)
LEMMA PrimitiveLeads ==
    ASSUME IInv, SearchInv, stage = "expressions", NEW n \in Primitives
    PROVE  /\ names[n] \in KnownIds /\ Primitive(n) = GetType(names[n])
           /\ \E t \in concrete : Leads(Primitive(n), Type(t), edges)
           /\ Informed(Primitive(n))
<1>1. names[n] \in KnownIds
  BY KnownHaveNodes DEF IInv, ScopeInv
<1>2. \E t \in concrete : Leads(GetType(names[n]), Type(t), edges)
  BY <1>1, KnownLead DEF SearchInv
<1> QED
  BY <1>1, <1>2 DEF Primitive, Informed

(* The children of a visit that ends. *)
LEMMA EndChildren ==
    ASSUME IInv, SearchInv, Visits("end")
    PROVE  /\ \A k \in 1..top.arity :
                 /\ Informed(top.children[k])
                 /\ TakesExpr(top, k) => IsOf(top.children[k], ToSet(asked))
           /\ top.node = "if" => top.arity >= 2
           /\ top.node = "call" => claims.calls # {}
<1>1. /\ stage = "expressions" /\ visits # <<>> /\ Awaits(top) = "end"
      /\ Stacked(visits, Nodes, variables, KnownIds)
      /\ top = visits[Len(visits)]
      /\ top \in VisitOf(Nodes) /\ Fits(top, variables, KnownIds)
  BY AtEnd DEF Visits
<1>2. Len(top.children) = top.arity
  BY <1>1, AwaitsProperties
<1>3. Founded(visits, ToSet(asked), InformedNodes, claims.calls)
  BY <1>1 DEF SearchInv, WalkInv
<1>4. Len(visits) \in 1..Len(visits)
  <2>1. Len(visits) \in Nat \ {0}
    BY <1>1, StackTop
  <2> QED
    BY <2>1
<1>5. FitsFor(top, ToSet(asked), InformedNodes, claims.calls)
  BY <1>1, <1>3, <1>4 DEF Founded
<1> QED
  BY <1>2, <1>5 DEF FitsFor, InformedNodes

-----------------------------------------------------------------------------
(* Expressions that end. *)

LEMMA ExprEndSearch ==
    ASSUME IInv, SearchInv, NEW node, node \notin {"fn", "block", "if", "let", "return", "stmt"},
           ExprEnd(node),
           temps' \in Nat, temps <= temps', edges \subseteq edges',
           NEW t \in InformedNodes', visits' = Leave(Front(visits), t), IsOf(t, ToSet(asked)),
           \A k \in 1..temps' : k \in 1..temps \/ Informed(Temp(k))',
           ClaimsGrow
    PROVE  SearchInv'
<1>1. /\ stage = "expressions" /\ visits # <<>> /\ top.node = node
      /\ UNCHANGED <<unit, stage, item, scope, concrete, variables, fn_ret_type, asked,
                     results, errors>>
  BY DEF ExprEnd, Goes, Visits
<1>2. WalkOn
  BY <1>1 DEF WalkOn
<1>3. Valuable(top) = {}
  BY <1>1 DEF Valuable
<1> QED
  BY <1>1, <1>2, <1>3, EndSearch

LEMMA TempIs ==
    \A k, A : IsOf(Temp(k), A)
BY DEF IsOf, Temp

(* What the end of an expression with edges to the primitives and a new node *)
(* relies on.                                                                *)
LEMMA ExprEndFacts ==
    ASSUME IInv, SearchInv, NEW node \in DOMAIN Arity, ExprEnd(node), node \notin Statements,
           node # "fn",
           temps' = temps + 1, edges \subseteq edges', claims.calls \subseteq claims'.calls
    PROVE  /\ stage = "expressions" /\ visits # <<>>
           /\ UNCHANGED <<concrete, variables, results, asked, names>>
           /\ NewTemp \in Nodes' /\ temps' \in Nat /\ temps <= temps'
           /\ \A k \in 1..temps' : k \in 1..temps \/ Temp(k) = NewTemp
           /\ \A k \in 1..Arity[node] : /\ top.children[k] \in InformedNodes'
                                        /\ IsOf(top.children[k], ToSet(asked))
           /\ \A n \in Primitives : Primitive(n) \in InformedNodes' /\ names[n] \in KnownIds
           /\ \A a, b : <<a, b>> \in edges' => /\ Leads(a, b, edges')
                                               /\ b \in InformedNodes' => Informed(a)'
<1>1. /\ stage = "expressions" /\ visits # <<>> /\ Visits("end") /\ top.node = node
      /\ UNCHANGED <<concrete, variables, results, asked, names>>
  BY DEF ExprEnd, Goes, Visits, scope
<1>2. temps \in Nat
  BY <1>1, AtEnd
<1>3. /\ \A i \in 1..top.arity : top.children[i] \in Nodes'
      /\ NewTemp \in Nodes' /\ temps' \in Nat /\ temps <= temps'
      /\ top.arity = Arity[node]
  BY ExprEndNodes
<1>4. \A k \in 1..temps' : k \in 1..temps \/ Temp(k) = NewTemp
  BY <1>2 DEF NewTemp
<1>5. \A n : Informed(n) => Informed(n)'
  BY <1>1, InformedGrows
<1>6. \A k \in 1..Arity[node] : TakesExpr(top, k)
  BY <1>1 DEF TakesExpr, Statements
<1>7. \A k \in 1..Arity[node] : /\ top.children[k] \in InformedNodes'
                                /\ IsOf(top.children[k], ToSet(asked))
  <2>1. \A k \in 1..top.arity :
           /\ Informed(top.children[k])
           /\ TakesExpr(top, k) => IsOf(top.children[k], ToSet(asked))
    BY <1>1, EndChildren
  <2> QED
    BY <1>3, <1>5, <1>6, <2>1 DEF InformedNodes
<1>8. \A n \in Primitives : Primitive(n) \in InformedNodes' /\ names[n] \in KnownIds
  <2>1. \A n \in Primitives : Informed(Primitive(n)) /\ names[n] \in KnownIds
    BY <1>1, PrimitiveLeads
  <2>2. \A n \in Primitives : Primitive(n) \in Nodes'
    BY ExprEndNodes
  <2> QED
    BY <1>5, <2>1, <2>2 DEF InformedNodes
<1>9. \A a, b : <<a, b>> \in edges' => /\ Leads(a, b, edges')
                                       /\ b \in InformedNodes' => Informed(a)'
  BY LeadsOn DEF Informed, InformedNodes
<1> QED
  BY <1>1, <1>3, <1>4, <1>7, <1>8, <1>9

LEMMA ClaimFields ==
    ASSUME SearchInv
    PROVE  DOMAIN claims = {"declared", "returned", "arithmetic", "condition", "equality",
                            "branches", "calls", "empty"}
BY DEF SearchInv, ClaimsInv

LEMMA IfExprEndSearch ==
    ASSUME IInv, SearchInv, IfExprEnd
    PROVE  SearchInv'
<1> DEFINE left == top.children[2]
           right == top.children[3]
           T == {<<child, names["bool"]>>}
           Q == {<<left, right>>}
<1>1. /\ ExprEnd("if_expr") /\ temps' = temps + 1
      /\ edges' = edges \cup {<<child, Primitive("bool")>>, <<right, left>>, <<NewTemp, left>>}
      /\ visits' = Leave(Front(visits), NewTemp)
  BY DEF IfExprEnd, Draw, IfExprEdges
<1>2. /\ DOMAIN claims' = DOMAIN claims /\ claims'.calls = claims.calls
      /\ claims'.empty = claims.empty
      /\ claims'.condition = claims.condition \cup {child}
      /\ claims'.equality = claims.equality \cup Q
      /\ claims'.declared = claims.declared /\ claims'.returned = claims.returned
      /\ claims'.arithmetic = claims.arithmetic
  BY ClaimFields DEF IfExprEnd
<1>3. "if_expr" \in DOMAIN Arity /\ Arity["if_expr"] = 3 /\ "if_expr" \notin Statements
  BY DEF Arity, Statements
<1>4. /\ stage = "expressions" /\ visits # <<>>
      /\ UNCHANGED <<concrete, variables, results, asked, names>>
      /\ NewTemp \in Nodes' /\ temps' \in Nat /\ temps <= temps'
      /\ \A k \in 1..temps' : k \in 1..temps \/ Temp(k) = NewTemp
      /\ \A k \in 1..3 : /\ top.children[k] \in InformedNodes'
                         /\ IsOf(top.children[k], ToSet(asked))
      /\ \A n \in Primitives : Primitive(n) \in InformedNodes' /\ names[n] \in KnownIds
      /\ \A a, b : <<a, b>> \in edges' => /\ Leads(a, b, edges')
                                          /\ b \in InformedNodes' => Informed(a)'
  BY <1>1, <1>2, <1>3, ExprEndFacts
<1>5. /\ child \in InformedNodes' /\ IsOf(child, ToSet(asked))
      /\ left \in InformedNodes' /\ IsOf(left, ToSet(asked))
      /\ right \in InformedNodes' /\ IsOf(right, ToSet(asked))
  BY <1>4 DEF child
<1>6. names["bool"] \in KnownIds /\ Primitive("bool") = GetType(names["bool"])
  BY <1>4 DEF Primitives, Primitive
<1>7. /\ Leads(child, GetType(names["bool"]), edges')
      /\ Leads(right, left, edges')
      /\ NewTemp \in InformedNodes'
  BY <1>1, <1>4, <1>5, <1>6 DEF InformedNodes
<1> HIDE DEF left, right
<1>8. ClaimsGrow
  <2>1. TypeClaims' \subseteq TypeClaims \cup T
    BY <1>2, <1>4 DEF TypeClaims
  <2>2. \A p \in T : /\ IsOf(p[1], ToSet(asked')) /\ p[2] \in KnownIds
                     /\ Leads(p[1], GetType(p[2]), edges')
    BY <1>4, <1>5, <1>6, <1>7
  <2>3. \A e \in Q : /\ IsOf(e[1], ToSet(asked')) /\ IsOf(e[2], ToSet(asked'))
                     /\ Leads(e[2], e[1], edges')
    BY <1>4, <1>5, <1>7
  <2> HIDE DEF T, Q
  <2> QED
    BY <1>2, <1>4, <2>1, <2>2, <2>3, ClaimsMore
<1>9. /\ \A k \in 1..temps' : k \in 1..temps \/ Informed(Temp(k))'
      /\ edges \subseteq edges' /\ IsOf(NewTemp, ToSet(asked))
  BY <1>1, <1>4, <1>7, TempIs DEF InformedNodes, NewTemp
<1> QED
  BY <1>1, <1>4, <1>7, <1>8, <1>9, ExprEndSearch

LEMMA UnaryEndSearch ==
    ASSUME IInv, SearchInv, UnaryEnd
    PROVE  SearchInv'
<1> DEFINE T == {<<child, names["float"]>>}
           Q == {}
<1>1. /\ ExprEnd("unary") /\ temps' = temps + 1
      /\ edges' = edges \cup {<<child, Primitive("float")>>, <<NewTemp, Primitive("float")>>}
      /\ visits' = Leave(Front(visits), child)
  BY DEF UnaryEnd, Draw
<1>2. /\ DOMAIN claims' = DOMAIN claims /\ claims'.calls = claims.calls
      /\ claims'.empty = claims.empty
      /\ claims'.arithmetic = claims.arithmetic \cup {child}
      /\ claims'.equality = claims.equality
      /\ claims'.declared = claims.declared /\ claims'.returned = claims.returned
      /\ claims'.condition = claims.condition
  BY ClaimFields DEF UnaryEnd
<1>3. "unary" \in DOMAIN Arity /\ Arity["unary"] = 1 /\ "unary" \notin Statements
  BY DEF Arity, Statements
<1>4. /\ stage = "expressions" /\ visits # <<>>
      /\ UNCHANGED <<concrete, variables, results, asked, names>>
      /\ NewTemp \in Nodes' /\ temps' \in Nat /\ temps <= temps'
      /\ \A k \in 1..temps' : k \in 1..temps \/ Temp(k) = NewTemp
      /\ \A k \in 1..1 : /\ top.children[k] \in InformedNodes'
                         /\ IsOf(top.children[k], ToSet(asked))
      /\ \A n \in Primitives : Primitive(n) \in InformedNodes' /\ names[n] \in KnownIds
      /\ \A a, b : <<a, b>> \in edges' => /\ Leads(a, b, edges')
                                          /\ b \in InformedNodes' => Informed(a)'
  BY <1>1, <1>2, <1>3, ExprEndFacts
<1>5. child \in InformedNodes' /\ IsOf(child, ToSet(asked))
  BY <1>4 DEF child
<1>6. /\ names["float"] \in KnownIds /\ Primitive("float") = GetType(names["float"])
      /\ Primitive("float") \in InformedNodes'
  BY <1>4 DEF Primitives, Primitive
<1>7. /\ Leads(child, GetType(names["float"]), edges')
      /\ NewTemp \in InformedNodes'
  BY <1>1, <1>4, <1>6 DEF InformedNodes
<1>8. ClaimsGrow
  <2>1. TypeClaims' \subseteq TypeClaims \cup T
    BY <1>2, <1>4 DEF TypeClaims
  <2>2. \A p \in T : /\ IsOf(p[1], ToSet(asked')) /\ p[2] \in KnownIds
                     /\ Leads(p[1], GetType(p[2]), edges')
    BY <1>4, <1>5, <1>6, <1>7
  <2>3. claims'.equality \subseteq claims.equality \cup Q
    BY <1>2
  <2>4. \A e \in Q : /\ IsOf(e[1], ToSet(asked')) /\ IsOf(e[2], ToSet(asked'))
                     /\ Leads(e[2], e[1], edges')
    OBVIOUS
  <2> HIDE DEF T, Q
  <2> QED
    BY <1>2, <1>4, <2>1, <2>2, <2>3, <2>4, ClaimsMore
<1>9. /\ \A k \in 1..temps' : k \in 1..temps \/ Informed(Temp(k))'
      /\ edges \subseteq edges'
  BY <1>1, <1>4, <1>7 DEF InformedNodes, NewTemp
<1> QED
  BY <1>1, <1>4, <1>5, <1>8, <1>9, ExprEndSearch

LEMMA BinaryEndSearch ==
    ASSUME IInv, SearchInv, NEW node \in {"equality", "comparison", "arithmetic"}, BinaryEnd(node)
    PROVE  SearchInv'
<1> DEFINE right == top.children[2]
           float == names["float"]
           T == IF node = "equality" THEN {} ELSE {<<child, float>>, <<right, float>>}
           Q == IF node = "equality" THEN {<<child, right>>} ELSE {}
           new == BinaryEdges(node, NewTemp, child, right)
<1>1. /\ ExprEnd(node) /\ temps' = temps + 1
      /\ edges' = edges \cup new
      /\ visits' = Leave(Front(visits), NewTemp)
  BY DEF BinaryEnd, Draw
<1>2. /\ DOMAIN claims' = DOMAIN claims /\ claims'.calls = claims.calls
      /\ claims'.empty = claims.empty
      /\ claims'.declared = claims.declared /\ claims'.returned = claims.returned
      /\ claims'.condition = claims.condition
      /\ claims'.equality = claims.equality \cup Q
      /\ claims'.arithmetic = claims.arithmetic \cup
            (IF node = "equality" THEN {} ELSE {child, right})
  <2>1. CASE node = "equality"
    <3>1. claims' = [claims EXCEPT !.equality = @ \cup {<<child, right>>}]
      BY <2>1 DEF BinaryEnd
    <3>2. Q = {<<child, right>>}
      BY <2>1
    <3> HIDE DEF Q, right
    <3> QED
      BY <2>1, <3>1, <3>2, ClaimFields
  <2>2. CASE node # "equality"
    <3>1. claims' = [claims EXCEPT !.arithmetic = @ \cup {child, right}]
      BY <2>2 DEF BinaryEnd
    <3>2. Q = {}
      BY <2>2
    <3> HIDE DEF Q, right
    <3> QED
      BY <2>2, <3>1, <3>2, ClaimFields
  <2> QED
    BY <2>1, <2>2
<1>3. node \in DOMAIN Arity /\ Arity[node] = 2 /\ node \notin Statements
  BY DEF Arity, Statements
<1>4. /\ stage = "expressions" /\ visits # <<>>
      /\ UNCHANGED <<concrete, variables, results, asked, names>>
      /\ NewTemp \in Nodes' /\ temps' \in Nat /\ temps <= temps'
      /\ \A k \in 1..temps' : k \in 1..temps \/ Temp(k) = NewTemp
      /\ \A k \in 1..2 : /\ top.children[k] \in InformedNodes'
                         /\ IsOf(top.children[k], ToSet(asked))
      /\ \A n \in Primitives : Primitive(n) \in InformedNodes' /\ names[n] \in KnownIds
      /\ \A a, b : <<a, b>> \in edges' => /\ Leads(a, b, edges')
                                          /\ b \in InformedNodes' => Informed(a)'
  BY <1>1, <1>2, <1>3, ExprEndFacts
<1>5. /\ child \in InformedNodes' /\ IsOf(child, ToSet(asked))
      /\ right \in InformedNodes' /\ IsOf(right, ToSet(asked))
  BY <1>4 DEF child
<1>6. /\ float \in KnownIds /\ Primitive("float") = GetType(float)
      /\ Primitive("float") \in InformedNodes' /\ Primitive("bool") \in InformedNodes'
  BY <1>4 DEF Primitives, Primitive
<1> HIDE DEF right, float
<1>7. /\ node # "equality" => <<child, GetType(float)>> \in new /\ <<right, GetType(float)>> \in new
      /\ node = "equality" => <<right, child>> \in new
      /\ \E m \in InformedNodes' : <<NewTemp, m>> \in new
  <2>1. CASE node = "equality"
    BY <1>6, <2>1 DEF BinaryEdges
  <2>2. CASE node = "comparison"
    BY <1>6, <2>2 DEF BinaryEdges
  <2>3. CASE node = "arithmetic"
    BY <1>6, <2>3 DEF BinaryEdges
  <2> QED
    BY <2>1, <2>2, <2>3
<1> HIDE DEF new
<1>8. /\ node # "equality" => /\ Leads(child, GetType(float), edges')
                              /\ Leads(right, GetType(float), edges')
      /\ node = "equality" => Leads(right, child, edges')
      /\ NewTemp \in InformedNodes'
  <2>1. \A a, b : <<a, b>> \in new => <<a, b>> \in edges'
    BY <1>1
  <2>2. PICK m \in InformedNodes' : <<NewTemp, m>> \in new
    BY <1>7
  <2>3. NewTemp \in InformedNodes'
    BY <1>4, <2>1, <2>2 DEF InformedNodes
  <2> QED
    BY <1>4, <1>7, <2>1, <2>3
<1>9. ClaimsGrow
  <2>1. TypeClaims' \subseteq TypeClaims \cup T
    <3>1. \A n \in claims'.arithmetic : \/ n \in claims.arithmetic
                                        \/ node # "equality" /\ n \in {child, right}
      BY <1>2
    <3>2. names' = names
      BY <1>4
    <3>3. \A n \in claims'.arithmetic : \/ n \in claims.arithmetic
                                        \/ <<n, float>> \in T
      BY <3>1
    <3> HIDE DEF T
    <3> QED
      BY <1>2, <3>2, <3>3 DEF TypeClaims, float
  <2>2. \A p \in T : /\ IsOf(p[1], ToSet(asked')) /\ p[2] \in KnownIds
                     /\ Leads(p[1], GetType(p[2]), edges')
    <3>1. CASE node = "equality"
      BY <3>1
    <3>2. CASE node # "equality"
      BY <1>4, <1>5, <1>6, <1>8, <3>2
    <3> QED
      BY <3>1, <3>2
  <2>3. \A e \in Q : /\ IsOf(e[1], ToSet(asked')) /\ IsOf(e[2], ToSet(asked'))
                     /\ Leads(e[2], e[1], edges')
    <3>1. CASE node = "equality"
      BY <1>4, <1>5, <1>8, <3>1
    <3>2. CASE node # "equality"
      BY <3>2
    <3> QED
      BY <3>1, <3>2
  <2> HIDE DEF T, Q
  <2> QED
    BY <1>2, <1>4, <2>1, <2>2, <2>3, ClaimsMore
<1>10. /\ \A k \in 1..temps' : k \in 1..temps \/ Informed(Temp(k))'
       /\ edges \subseteq edges' /\ IsOf(NewTemp, ToSet(asked))
  BY <1>1, <1>4, <1>8, TempIs DEF InformedNodes, NewTemp
<1>11. node \notin {"fn", "block", "if", "let", "return", "stmt"}
  OBVIOUS
<1> QED
  BY <1>1, <1>4, <1>8, <1>9, <1>10, <1>11, ExprEndSearch

(* The results of calls are excused. *)
LEMMA CallEndSearch ==
    ASSUME IInv, SearchInv, CallEnd
    PROVE  SearchInv'
<1> DEFINE t == Temp(temps + top.arity + 1)
<1>1. /\ ExprEnd("call") /\ temps' = temps + top.arity + 1
      /\ edges \subseteq edges' /\ visits' = Leave(Front(visits), t)
      /\ UNCHANGED claims
  BY DEF CallEnd, Draw
<1>2. /\ stage = "expressions" /\ visits # <<>> /\ temps \in Nat /\ top.arity \in Nat
      /\ Visits("end") /\ top.node = "call"
  BY <1>1, AtEnd DEF ExprEnd, Goes
<1>3. UNCHANGED <<concrete, variables, names>>
  BY <1>1 DEF ExprEnd, Goes, Visits, scope
<1>4. temps' \in Nat /\ temps <= temps' /\ temps + top.arity + 1 \in 1..temps'
  BY <1>1, <1>2
<1>5. \A n \in 1..temps' : Temp(n) \in Nodes'
  BY <1>2, <1>3, <1>4, WalkGrows
<1>6. claims.calls # {}
  BY <1>2, EndChildren
<1>7. \A n : Informed(n)'
  BY <1>1, <1>6 DEF Informed
<1>8. t \in InformedNodes' /\ IsOf(t, ToSet(asked))
  BY <1>4, <1>5, <1>7, TempIs DEF InformedNodes
<1>9. \A k \in 1..temps' : k \in 1..temps \/ Informed(Temp(k))'
  BY <1>7
<1>10. ClaimsGrow
  BY <1>1, <1>3, ClaimsSame
<1> HIDE DEF t
<1> QED
  BY <1>1, <1>4, <1>8, <1>9, <1>10, ExprEndSearch

-----------------------------------------------------------------------------
(* Expressions that begin or have no parts. *)

LEMMA LiteralSearch ==
    ASSUME IInv, SearchInv, NEW name \in {"bool", "float"}, Literal(name)
    PROVE  SearchInv'
<1>1. /\ stage = "expressions" /\ visits # <<>>
      /\ Open(visits[Len(visits)])
      /\ temps \in Nat
  BY AtOpen DEF Literal, Goes
<1>2. /\ temps' = temps + 1 /\ visits' = Leave(visits, NewTemp)
      /\ edges' = edges \cup {<<NewTemp, Primitive(name)>>}
      /\ UNCHANGED <<unit, stage, item, scope, concrete, variables, fn_ret_type, asked,
                     results, errors, ids, claims>>
  BY DEF Literal, Goes, Visits, Draw
<1>3. temps' \in Nat /\ temps <= temps' /\ edges \subseteq edges' /\ names' = names
  BY <1>1, <1>2 DEF scope
<1>4. ClaimsGrow
  BY <1>2, <1>3, ClaimsSame
<1>5. Informed(Primitive(name))
  BY <1>1, PrimitiveLeads DEF Primitives
<1>6. NewTemp \in InformedNodes'
  <2>1. PICK p, n : p = Primitive(name) /\ n = NewTemp
    OBVIOUS
  <2>2. Informed(p)'
    <3>1. Informed(p)
      BY <1>5, <2>1
    <3> QED
      BY <1>2, <1>3, <3>1, InformedGrows
  <2>3. <<n, p>> \in edges'
    BY <1>2, <2>1
  <2>4. Informed(n)'
    BY <2>2, <2>3, LeadsOn DEF Informed
  <2>5. n \in Nodes'
    <3>1. temps + 1 \in 1..temps'
      BY <1>1, <1>2
    <3> QED
      BY <1>1, <1>2, <1>3, <2>1, <3>1, WalkGrows DEF NewTemp
  <2> QED
    BY <2>1, <2>4, <2>5 DEF InformedNodes
<1>7. \A k \in 1..temps' : k \in 1..temps \/ Informed(Temp(k))'
  <2>1. \A k \in 1..temps' : k \in 1..temps \/ Temp(k) = NewTemp
    BY <1>1, <1>2 DEF NewTemp
  <2> QED
    BY <1>6, <2>1 DEF InformedNodes
<1>8. WalkOn
  BY <1>1, <1>2, <1>3, <1>4, <1>7 DEF WalkOn
<1>9. LikeVisits(visits)
  BY <1>1, VisitsAlike
<1>10. IsOf(NewTemp, ToSet(asked'))
  BY TempIs DEF NewTemp
<1>11. asked' = asked
  BY <1>2
<1> QED
  BY <1>1, <1>2, <1>6, <1>8, <1>9, <1>10, <1>11, LeafSearch

(* A variable that a name can mean leads to a type. *)
LEMMA VisibleInformed ==
    ASSUME IInv, SearchInv, stage = "expressions", visits # <<>>,
           NEW id \in Visible, id \in variables
    PROVE  Informed(Var(id))
<1>1. InfoInv /\ WalkInv
  BY DEF SearchInv
<1>2. CASE \E i \in DOMAIN unit : id = ItemId(i)
  BY <1>1, <1>2 DEF InfoInv
<1>3. CASE \E p \in Params : id = ParamId(item, p)
  BY <1>1, <1>3 DEF WalkInv
<1>4. ASSUME NEW v \in DOMAIN visits, id \in visits[v].declared
      PROVE  Informed(Var(id))
  <2>1. Stacked(visits, Nodes, variables, KnownIds)
    BY Walks
  <2>2. v \in 1..Len(visits)
    BY <2>1, LenProperties DEF Stacked
  <2>3. FitsFor(visits[v], ToSet(asked), InformedNodes, claims.calls)
    BY <1>1, <2>2 DEF WalkInv, Founded
  <2> QED
    BY <1>4, <2>3 DEF FitsFor, InformedNodes
<1> QED
  BY <1>2, <1>3, <1>4 DEF Visible

LEMMA VarRefSearch ==
    ASSUME IInv, SearchInv, NEW id \in Visible, VarRef(id), id \in variables
    PROVE  SearchInv'
<1>1. /\ stage = "expressions" /\ visits # <<>>
      /\ Open(visits[Len(visits)])
      /\ temps \in Nat
  BY AtOpen DEF VarRef, Expression, Goes
<1>2. /\ temps' = temps /\ visits' = Leave(visits, Var(id)) /\ edges' = edges
      /\ asked' = asked \o <<id>>
      /\ UNCHANGED <<unit, stage, item, scope, concrete, variables, fn_ret_type,
                     results, errors, claims>>
  BY DEF VarRef, Expression, Goes, Visits, Asks
<1>3. temps' \in Nat /\ temps <= temps' /\ names' = names
  BY <1>1, <1>2 DEF scope
<1>4. ToSet(asked') = ToSet(asked) \cup {id}
  <2>1. id \in Seq(Nat) /\ asked \in Seq(Seq(Nat))
    BY <1>1, VisibleKnown, Walks
  <2>2. <<id>> \in Seq(Seq(Nat)) /\ ToSet(<<id>>) = {id}
    BY <2>1 DEF ToSet
  <2> QED
    BY <1>2, <2>1, <2>2, AskMore
<1>5. ClaimsGrow
  BY <1>2, <1>3, ClaimsSame
<1>6. WalkOn
  BY <1>1, <1>2, <1>3, <1>4, <1>5 DEF WalkOn
<1>7. Informed(Var(id))'
  <2>1. Informed(Var(id))
    BY <1>1, VisibleInformed
  <2> QED
    BY <1>6, <2>1, WalkOnProperties
<1>8. Var(id) \in InformedNodes'
  <2>1. Var(id) \in Nodes'
    BY <1>1, <1>2, <1>3, WalkGrows
  <2> QED
    BY <1>7, <2>1 DEF InformedNodes
<1>9. IsOf(Var(id), ToSet(asked'))
  BY <1>4 DEF IsOf
<1>10. LikeVisits(visits)
  BY <1>1, VisitsAlike
<1>11. \A x \in ToSet(asked') : x \in ToSet(asked) \/ Informed(Var(x))'
  BY <1>4, <1>7
<1> QED
  BY <1>1, <1>2, <1>6, <1>8, <1>9, <1>10, <1>11, LeafSearch

(* A panic ends it all. *)
LEMMA VarRefPanicSearch ==
    ASSUME IInv, SearchInv, NEW id, VarRef(id), id \notin variables
    PROVE  SearchInv'
<1>1. /\ stage = "expressions" /\ stage' = "panic"
      /\ UNCHANGED <<unit, item, type_ids, names, types, concrete, variables, temps, edges,
                     visits, fn_ret_type, asked, results, errors, claims>>
  BY DEF VarRef, Expression, Goes, Visits, scope
<1>2. /\ KnownIds' = KnownIds /\ TypeIds' = TypeIds /\ Typedefs' = Typedefs
      /\ Nodes' = Nodes /\ Answered' = Answered /\ TypeClaims' = TypeClaims
      /\ RetType' = RetType /\ NeedRetValue' = NeedRetValue
  BY <1>1 DEF KnownIds, Typedefs, TypeIds, Nodes, Answered, TypeClaims, RetType, NeedRetValue
<1>3. /\ \A n : GetType(n)' = GetType(n)
      /\ \A n : Informed(n)' = Informed(n)
      /\ \A p : Holds(p)' = Holds(p)
      /\ UnitAndMore' = UnitAndMore
  BY <1>1, <1>2 DEF GetType, Informed, Holds, UnitAndMore
<1>4. TypesInv' /\ AliasInv' /\ WalkInv'
  BY <1>1, <1>2, <1>3 DEF SearchInv, TypesInv, AliasInv, Means, WalkInv
<1>5. InfoInv' /\ ClaimsInv'
  BY <1>1, <1>2, <1>3 DEF SearchInv, InfoInv, ClaimsInv
<1>6. ResultsInv' /\ ErrorsInv'
  BY <1>1, <1>2 DEF SearchInv, ResultsInv, ErrorsInv, FoundFor
<1> QED
  BY <1>4, <1>5, <1>6 DEF SearchInv

LEMMA OperationSearch ==
    ASSUME IInv, SearchInv,
           NEW node \in {"if_expr", "unary", "equality", "comparison", "arithmetic"},
           Operation(node, Arity[node])
    PROVE  SearchInv'
<1> DEFINE f == NewVisit(node, None, Arity[node])
<1>1. /\ stage = "expressions" /\ visits # <<>>
      /\ Open(visits[Len(visits)])
      /\ temps \in Nat
  BY AtOpen DEF Operation, Expression, Goes
<1>2. /\ visits' = Append(visits, f)
      /\ UNCHANGED <<unit, stage, item, scope, concrete, variables, temps, edges,
                     fn_ret_type, asked, results, errors, claims>>
  BY DEF Operation, Expression, Goes, Visits
<1>3. CanBe(node, None, Arity[node], variables', KnownIds)
  <2>1. Arity[node] \in Nat
    BY DEF Arity
  <2> QED
    BY <2>1, IdTypes DEF CanBe
<1>4. f \in VisitOf(Nodes')
  BY <1>3, NewVisits
<1>5. f.node = node /\ Fresh(f)
  BY DEF NewVisit, Fresh
<1>6. names' = names /\ temps' \in Nat /\ temps <= temps'
  BY <1>1, <1>2 DEF scope
<1>7. ClaimsGrow
  BY <1>2, <1>6, ClaimsSame
<1>8. WalkOn
  BY <1>1, <1>2, <1>6, <1>7 DEF WalkOn
<1>9. LikeVisits(visits)
  BY <1>1, VisitsAlike
<1> HIDE DEF f
<1>10. f.node \notin Statements /\ f.node # "call" /\ f.node # "if"
  BY <1>5 DEF Statements
<1>11. asked' = asked
  BY <1>2
<1> QED
  BY <1>1, <1>2, <1>4, <1>5, <1>8, <1>9, <1>10, <1>11, PushSearch

LEMMA CallSearch ==
    ASSUME IInv, SearchInv, NEW id \in Visible, NEW args \in 0..MaxArgs, Call(id, args)
    PROVE  SearchInv'
<1> DEFINE f == NewVisit("call", id, args)
<1>1. /\ stage = "expressions" /\ visits # <<>>
      /\ Open(visits[Len(visits)])
      /\ temps \in Nat
  BY AtOpen DEF Call, Expression, Goes
<1>2. /\ visits' = Append(visits, f)
      /\ asked' = asked \o <<id>>
      /\ claims' = [claims EXCEPT !.calls = @ \cup {id}]
      /\ UNCHANGED <<unit, stage, item, scope, concrete, variables, temps, edges,
                     fn_ret_type, results, errors>>
  BY DEF Call, Expression, Goes, Visits, Asks
<1>3. id \in Seq(Nat) /\ asked \in Seq(Seq(Nat))
  BY <1>1, VisibleKnown, Walks
<1>4. CanBe("call", id, args, variables', KnownIds)
  <2>1. args \in Nat /\ "call" \notin DOMAIN Arity
    BY BoundsAssumption DEF Arity
  <2> QED
    BY <1>3, <2>1 DEF CanBe
<1>5. f \in VisitOf(Nodes')
  BY <1>4, NewVisits
<1>6. f.node = "call" /\ Fresh(f)
  BY DEF NewVisit, Fresh
<1>7. /\ claims'.calls = claims.calls \cup {id} /\ DOMAIN claims' = DOMAIN claims
      /\ claims'.empty = claims.empty /\ claims'.equality = claims.equality
      /\ claims'.declared = claims.declared /\ claims'.returned = claims.returned
      /\ claims'.arithmetic = claims.arithmetic /\ claims'.condition = claims.condition
  BY <1>2, ClaimFields
<1>8. names' = names /\ temps' \in Nat /\ temps <= temps'
  BY <1>1, <1>2 DEF scope
<1>9. ToSet(asked') = ToSet(asked) \cup {id}
  <2>1. <<id>> \in Seq(Seq(Nat)) /\ ToSet(<<id>>) = {id}
    BY <1>3 DEF ToSet
  <2> QED
    BY <1>2, <1>3, <2>1, AskMore
<1>10. ClaimsGrow
  <2>1. TypeClaims' = TypeClaims
    BY <1>7, <1>8 DEF TypeClaims
  <2> QED
    BY <1>7, <2>1 DEF ClaimsGrow
<1>11. WalkOn
  BY <1>1, <1>2, <1>8, <1>9, <1>10 DEF WalkOn
<1>12. LikeVisits(visits)
  BY <1>1, VisitsAlike
<1>13. claims'.calls # {} /\ \A n : Informed(n)'
  BY <1>7 DEF Informed
<1> HIDE DEF f
<1>14. f.node \notin Statements /\ f.node # "if"
  BY <1>6 DEF Statements
<1> QED
  BY <1>1, <1>2, <1>5, <1>6, <1>11, <1>12, <1>13, <1>14, PushSearch

-----------------------------------------------------------------------------
(* Statements that begin. *)

LEMMA PhaseSearch ==
    ASSUME IInv, SearchInv, Statement, NEW last \in BOOLEAN
    PROVE  /\ stage = "expressions" /\ visits # <<>>
           /\ LikeVisits(AtPhase(last))
           /\ Open(AtPhase(last)[Len(AtPhase(last))])
           /\ Open(visits[Len(visits)]) /\ top = visits[Len(visits)]
           /\ Len(visits) \in 1..Len(visits)
           /\ top \in VisitOf(Nodes) /\ top.node = "block"
           /\ \A k : ~TakesExpr(AtPhase(last)[Len(AtPhase(last))], k)
           /\ temps \in Nat /\ ids \in Nat
<1> DEFINE phase == IF last THEN "last" ELSE "stmts"
           f == [top EXCEPT !.phase = phase]
<1>1. /\ stage = "expressions" /\ visits # <<>>
      /\ Stacked(visits, Nodes, variables, KnownIds)
      /\ Open(visits[Len(visits)])
      /\ top = visits[Len(visits)]
      /\ top \in VisitOf(Nodes) /\ Fits(top, variables, KnownIds)
      /\ Awaits(top) = "stmt"
      /\ temps \in Nat /\ ids \in Nat
  BY AtOpen DEF Statement, Goes
<1>2. top.node = "block"
  BY <1>1, AwaitsProperties
<1>3. /\ Stacked(AtPhase(last), Nodes, variables, KnownIds)
      /\ Open(AtPhase(last)[Len(AtPhase(last))])
  BY Phases
<1>4. phase \in {"start", "stmts", "last"}
  OBVIOUS
<1>5. AtPhase(last) = [visits EXCEPT ![Len(visits)] = f]
  BY <1>1 DEF AtPhase
<1> HIDE DEF phase
<1>6. f \in VisitOf(Nodes)
  BY <1>1, <1>4 DEF VisitOf
<1>7. /\ f.node = top.node /\ f.id = top.id /\ f.arity = top.arity
      /\ f.children = top.children /\ f.declared = top.declared /\ f.source = top.source
  BY <1>1 DEF VisitOf
<1> HIDE DEF f
<1> DEFINE A == ToSet(asked)
           I == InformedNodes
           C == claims.calls
           N == Nodes
           V == variables
<1>8. Founded(visits, A, I, C) /\ f \in VisitOf(N) /\ Stacked(visits, N, V, KnownIds)
  BY <1>1, <1>6 DEF SearchInv, WalkInv
<1>9. Len(visits) \in 1..Len(visits)
  <2>1. Len(visits) \in Nat \ {0}
    BY <1>1, StackTop
  <2> QED
    BY <2>1
<1> HIDE DEF A, I, C, N, V
<1>10. FitsFor(f, A, I, C)
  <2>1. FitsFor(top, A, I, C)
    BY <1>1, <1>8, <1>9 DEF Founded
  <2> QED
    BY <1>7, <2>1 DEF FitsFor, TakesExpr
<1>11. Alike(f, visits[Len(visits)])
  BY <1>1, <1>7 DEF Alike
<1>12. LET r == [visits EXCEPT ![Len(visits)] = f]
       IN /\ Founded(r, A, I, C)
          /\ Awaited(r) = Awaited(visits)
          /\ Len(r) = Len(visits)
          /\ r[Len(visits)] = f
          /\ \A i \in 1..Len(visits) : i # Len(visits) => r[i] = visits[i]
  BY <1>8, <1>10, <1>11, FoundedSet
<1> DEFINE vs == AtPhase(last)
<1>13. /\ Founded(vs, A, I, C) /\ Awaited(vs) = Awaited(visits)
       /\ Len(vs) = Len(visits) /\ vs[Len(visits)] = f
       /\ \A i \in 1..Len(visits) : i # Len(visits) => vs[i] = visits[i]
       /\ Stacked(vs, Nodes, variables, KnownIds)
  BY <1>3, <1>5, <1>12
<1> HIDE DEF vs
<1>14. \A i \in 1..Len(vs) : Alike(vs[i], visits[i])
  <2>1. \A g : Alike(g, g)
    BY DEF Alike
  <2> QED
    BY <1>11, <1>13, <2>1
<1>15. LikeVisits(vs)
  BY <1>13, <1>14 DEF LikeVisits, A, I, C
<1>16. \A k : ~TakesExpr(vs[Len(vs)], k)
  BY <1>2, <1>7, <1>13 DEF TakesExpr
<1> QED
  BY <1>1, <1>2, <1>3, <1>9, <1>15, <1>16 DEF vs

LEMMA SimpleBeginSearch ==
    ASSUME IInv, SearchInv, NEW last \in BOOLEAN, Simple(last),
           NEW node \in {"let", "return", "stmt"}, NEW id \in KnownIds \cup {None},
           visits' = Append(AtPhase(last), NewVisit(node, id, 1)),
           UNCHANGED <<edges, claims>>
    PROVE  SearchInv'
<1> DEFINE f == NewVisit(node, id, 1)
           vs == AtPhase(last)
<1>1. Statement
  BY DEF Simple
<1>2. /\ stage = "expressions" /\ visits # <<>>
      /\ LikeVisits(vs) /\ Open(visits[Len(visits)])
      /\ \A k : ~TakesExpr(vs[Len(vs)], k)
      /\ temps \in Nat
  BY <1>1, PhaseSearch
<1>3. /\ visits' = Append(vs, f)
      /\ UNCHANGED <<unit, stage, item, scope, concrete, variables, temps, edges,
                     fn_ret_type, asked, results, errors, claims>>
  BY DEF Simple, Statement, Goes, Visits
<1>4. CanBe(node, id, 1, variables', KnownIds)
  <2>1. unit \in Seq(Item)
    BY DEF IInv, ScopeInv
  <2>2. id \in Seq(Nat)
    BY <2>1, KnownTypes, IdTypes
  <2> QED
    BY <2>2, ArityOne DEF CanBe
<1>5. f \in VisitOf(Nodes')
  BY <1>4, NewVisits
<1>6. f.node = node /\ Fresh(f)
  BY DEF NewVisit, Fresh
<1>7. names' = names /\ temps' \in Nat /\ temps <= temps' /\ asked' = asked
  BY <1>2, <1>3 DEF scope
<1>8. ClaimsGrow
  BY <1>3, <1>7, ClaimsSame
<1>9. WalkOn
  BY <1>2, <1>3, <1>7, <1>8 DEF WalkOn
<1> HIDE DEF f, vs
<1>10. f.node # "if" /\ f.node # "call"
  BY <1>6
<1> QED
  BY <1>2, <1>3, <1>5, <1>6, <1>7, <1>9, <1>10, PushSearch

LEMMA LetBeginSearch ==
    ASSUME IInv, SearchInv, NEW last \in BOOLEAN, NEW type \in DeclaredTypes \cup {None},
           LetBegin(last, type)
    PROVE  SearchInv'
<1>1. \A n \in DOMAIN names : names[n] \in KnownIds
  BY DEF IInv, ScopeInv
<1>2. type \in KnownIds \cup {None}
  BY <1>1 DEF DeclaredTypes
<1>3. /\ Simple(last)
      /\ visits' = Append(AtPhase(last), NewVisit("let", type, 1))
      /\ UNCHANGED <<edges, claims>>
  BY DEF LetBegin
<1> QED
  BY <1>2, <1>3, SimpleBeginSearch

LEMMA ReturnBeginSearch ==
    ASSUME IInv, SearchInv, NEW last \in BOOLEAN, ReturnBegin(last)
    PROVE  SearchInv'
<1>1. /\ Simple(last)
      /\ visits' = Append(AtPhase(last), NewVisit("return", None, 1))
      /\ UNCHANGED <<edges, claims>>
  BY DEF ReturnBegin
<1> QED
  BY <1>1, SimpleBeginSearch

LEMMA ExprBeginSearch ==
    ASSUME IInv, SearchInv, NEW last \in BOOLEAN, ExprBegin(last)
    PROVE  SearchInv'
<1>1. /\ Simple(last)
      /\ visits' = Append(AtPhase(last), NewVisit("stmt", None, 1))
      /\ UNCHANGED <<edges, claims>>
  BY DEF ExprBegin
<1> QED
  BY <1>1, SimpleBeginSearch

(* A block that begins, with the source of what it belongs to. *)
LEMMA BlockBeginSearch ==
    ASSUME IInv, SearchInv, stage = "expressions", visits # <<>>,
           NEW vs, LikeVisits(vs), Open(visits[Len(visits)]),
           ~TakesExpr(vs[Len(vs)], Len(vs[Len(vs)].children) + 1),
           NEW source \in Seq(Nat), source # None => source \in Awaited(visits),
           visits' = Append(vs, BlockVisit(source, NewId)),
           asked' = asked \o AsksOf(source, NewId),
           UNCHANGED <<unit, stage, item, scope, concrete, variables, temps, edges,
                       fn_ret_type, results, errors, claims>>
    PROVE  SearchInv'
<1> DEFINE f == BlockVisit(source, NewId)
           more == AsksOf(source, NewId)
<1>1. NewId \in Seq(Nat) /\ asked \in Seq(Seq(Nat)) /\ temps \in Nat
  BY Walks
<1>2. f \in VisitOf(Nodes')
  BY <1>1, BlockVisits
<1>3. f.node = "block"
  BY <1>1, BlockVisits
<1>4. Valued(f) = IF source = None THEN {} ELSE {NewId}
  BY <1>1, BlockVisits
<1>5. Fresh(f)
  BY DEF BlockVisit, NewVisit, Fresh
<1>6. /\ more \in Seq(Seq(Nat))
      /\ ToSet(more) = IF source = None THEN {} ELSE {source, NewId}
  BY <1>1, AsksOfTypes
<1>7. names' = names /\ temps' \in Nat /\ temps <= temps'
  BY <1>1 DEF scope
<1>8. ClaimsGrow
  BY <1>7, ClaimsSame
<1> HIDE DEF f, more
<1>9. ToSet(asked') = ToSet(asked) \cup ToSet(more)
  <2>1. asked' = asked \o more
    BY DEF more
  <2> QED
    BY <1>1, <1>6, <2>1, AskMore
<1>10. WalkOn
  BY <1>7, <1>8, <1>9 DEF WalkOn
<1>11. Valued(f) = Valuable(f)
  BY <1>3 DEF Valued, Valuable
<1>12. \A id \in ToSet(asked') :
          \/ id \in ToSet(asked) \/ Informed(Var(id))'
          \/ id \in Awaited(visits) \cup Valuable(f)
  BY <1>4, <1>6, <1>9, <1>11
<1>13. visits' = Append(vs, f)
  BY DEF f
<1> QED
  BY <1>2, <1>3, <1>5, <1>10, <1>12, <1>13, PushSearch

(* The value of the visit on top is awaited. *)
LEMMA TopAwaited ==
    ASSUME IInv, stage = "expressions", visits # <<>>, top.node \in {"block", "if"}, top.source
    PROVE  top.id \in Awaited(visits)
<1>1. Stacked(visits, Nodes, variables, KnownIds) /\ top = visits[Len(visits)]
  BY Walks
<1>2. Len(visits) \in 1..Len(visits)
  <2>1. Len(visits) \in Nat \ {0}
    BY <1>1, StackTop
  <2> QED
    BY <2>1
<1>3. top.id \in Valuable(visits[Len(visits)])
  BY <1>1 DEF Valuable
<1> QED
  BY <1>2, <1>3 DEF Awaited

LEMMA DoBlockSearch ==
    ASSUME IInv, SearchInv, NEW last \in BOOLEAN, DoBlock(last)
    PROVE  SearchInv'
<1> DEFINE vs == AtPhase(last)
           source == IF last /\ top.source THEN top.id ELSE None
<1>1. Statement
  BY DEF DoBlock, Nested
<1>2. /\ stage = "expressions" /\ visits # <<>>
      /\ LikeVisits(vs) /\ Open(visits[Len(visits)])
      /\ top \in VisitOf(Nodes) /\ top.node = "block"
      /\ \A k : ~TakesExpr(vs[Len(vs)], k)
  BY <1>1, PhaseSearch
<1>3. /\ visits' = Append(vs, BlockVisit(source, NewId))
      /\ asked' = asked \o AsksOf(source, NewId)
      /\ UNCHANGED <<unit, stage, item, scope, concrete, variables, temps, edges,
                     fn_ret_type, results, errors, claims>>
  BY DEF DoBlock, Nested, Statement, Goes, Visits, Asks
<1>4. source \in Seq(Nat)
  BY <1>2, IdTypes DEF VisitOf
<1>5. source # None => source \in Awaited(visits)
  BY <1>2, TopAwaited
<1> HIDE DEF vs, source
<1> QED
  BY <1>2, <1>3, <1>4, <1>5, BlockBeginSearch

LEMMA IfBlockSearch ==
    ASSUME IInv, SearchInv, IfBlock
    PROVE  SearchInv'
<1> DEFINE source == IF top.source THEN top.id ELSE None
<1>1. /\ stage = "expressions" /\ visits # <<>>
      /\ Open(visits[Len(visits)]) /\ top = visits[Len(visits)]
      /\ top \in VisitOf(Nodes) /\ Fits(top, variables, KnownIds)
      /\ Awaits(top) = "block"
  BY AtOpen DEF IfBlock, Goes
<1>2. /\ visits' = Append(visits, BlockVisit(source, NewId))
      /\ asked' = asked \o AsksOf(source, NewId)
      /\ UNCHANGED <<unit, stage, item, scope, concrete, variables, temps, edges,
                     fn_ret_type, results, errors, claims>>
  BY DEF IfBlock, Goes, Visits, Asks, graph
<1>3. top.node = "if"
  BY <1>1, AwaitsProperties
<1>4. source \in Seq(Nat)
  BY <1>1, IdTypes DEF VisitOf
<1>5. source # None => source \in Awaited(visits)
  BY <1>1, <1>3, TopAwaited
<1>6. ~TakesExpr(top, Len(top.children) + 1)
  <2>1. \/ Len(top.children) % 2 = 1
        \/ Len(top.children) + 1 = top.arity
    <3>1. Len(top.children) # top.arity
      BY <1>1 DEF Awaits
    <3> DEFINE blocks == Len(top.children) % 2 = 1 \/ Len(top.children) + 1 = top.arity
    <3>2. Awaits(top) = CASE top.node = "block" -> "stmt"
                          [] top.node = "if" /\ blocks -> "block"
                          [] OTHER -> "expr"
      BY <3>1 DEF Awaits
    <3> HIDE DEF blocks
    <3>3. blocks
      BY <1>1, <1>3, <3>2
    <3> QED
      BY <3>3 DEF blocks
  <2>2. Len(top.children) \in Nat
    BY <1>1, LenProperties DEF VisitOf
  <2>3. \A n \in Nat : n % 2 = 1 => (n + 1) % 2 # 1
    OBVIOUS
  <2> QED
    BY <1>3, <2>1, <2>2, <2>3 DEF TakesExpr
<1>7. LikeVisits(visits)
  BY <1>1, VisitsAlike
<1>8. ~TakesExpr(visits[Len(visits)], Len(visits[Len(visits)].children) + 1)
  BY <1>1, <1>6
<1> HIDE DEF source
<1> QED
  BY <1>1, <1>2, <1>4, <1>5, <1>7, <1>8, BlockBeginSearch

LEMMA IfBeginSearch ==
    ASSUME IInv, SearchInv, NEW last \in BOOLEAN, NEW branches \in 1..MaxBranches,
           NEW else \in BOOLEAN, IfBegin(last, branches, else)
    PROVE  SearchInv'
<1> DEFINE vs == AtPhase(last)
           arity == 2 * branches + IF else THEN 1 ELSE 0
           g == NewVisit("if", NewId, arity)
           valued == last /\ top.source
           f == [g EXCEPT !.source = valued]
<1>1. Statement
  BY DEF IfBegin, Nested
<1>2. /\ stage = "expressions" /\ visits # <<>>
      /\ LikeVisits(vs) /\ Open(visits[Len(visits)])
      /\ top \in VisitOf(Nodes) /\ top.node = "block"
      /\ \A k : ~TakesExpr(vs[Len(vs)], k)
      /\ temps \in Nat /\ ids \in Nat
  BY <1>1, PhaseSearch
<1>3. /\ visits' = Append(vs, f)
      /\ variables' = variables \cup {NewId}
      /\ UNCHANGED <<unit, stage, item, scope, concrete, temps, edges, fn_ret_type,
                     asked, results, errors, claims>>
  BY DEF IfBegin, Nested, Statement, Goes, Visits
<1>4. arity \in Nat /\ arity >= 2
  BY BoundsAssumption
<1>5. CanBe("if", NewId, arity, variables', KnownIds)
  <2>1. NewId \in Seq(Nat)
    BY <1>2, Walks
  <2>2. "if" \notin DOMAIN Arity
    BY DEF Arity
  <2> QED
    BY <1>3, <1>4, <2>1, <2>2 DEF CanBe
<1>6. g \in VisitOf(Nodes')
  BY <1>5, NewVisits
<1>7. g.node = "if" /\ g.arity = arity /\ Fresh(g)
  BY DEF NewVisit, Fresh
<1> HIDE DEF g, arity
<1>8. valued \in BOOLEAN
  OBVIOUS
<1> HIDE DEF valued
<1>9. f \in VisitOf(Nodes') /\ f.node = "if" /\ f.arity = arity /\ Fresh(f)
  <2> DEFINE N2 == Nodes'
  <2>1. g \in VisitOf(N2)
    BY <1>6
  <2> HIDE DEF N2
  <2>2. f \in VisitOf(N2)
    BY <1>8, <2>1 DEF VisitOf
  <2>3. f.node = g.node /\ f.arity = g.arity /\ f.children = g.children
        /\ f.declared = g.declared
    BY <2>1 DEF VisitOf
  <2> QED
    BY <1>7, <2>2, <2>3 DEF N2, Fresh
<1> HIDE DEF f
<1>10. names' = names /\ temps' \in Nat /\ temps <= temps' /\ asked' = asked
  BY <1>2, <1>3 DEF scope
<1>11. ClaimsGrow
  BY <1>3, <1>10, ClaimsSame
<1>12. WalkOn
  BY <1>2, <1>3, <1>10, <1>11 DEF WalkOn
<1>13. ~TakesExpr(vs[Len(vs)], Len(vs[Len(vs)].children) + 1)
  BY <1>2
<1>14. f.node = "if" => f.arity >= 2
  BY <1>4, <1>9
<1>15. f.node # "call"
  BY <1>9
<1> HIDE DEF vs
<1> QED
  BY <1>2, <1>3, <1>9, <1>10, <1>12, <1>13, <1>14, <1>15, PushSearch

-----------------------------------------------------------------------------
(* Statements that end or have no parts. *)

(* The type of what has no value is that with the id UnitId. *)
LEMMA UnitType ==
    ASSUME IInv, SearchInv
    PROVE  /\ names["()"] = UnitId /\ UnitId \in KnownIds /\ UnitId \in concrete
           /\ Primitive("()") = Type(UnitId)
<1>1. names["()"] = UnitId
  BY DEF SearchInv, TypesInv
<1>2. UnitId \in KnownIds /\ UnitId \in concrete
  BY DEF UnitId, KnownIds, Primitives, IInv, ItemVarsInv
<1> QED
  BY <1>1, <1>2 DEF Primitive, GetType

LEMMA ReturnEmptySearch ==
    ASSUME IInv, SearchInv, NEW last \in BOOLEAN, ReturnEmpty(last)
    PROVE  SearchInv'
<1> DEFINE vs == AtPhase(last)
           t == Primitive("()")
<1>1. Statement
  BY DEF ReturnEmpty, Simple
<1>2. /\ stage = "expressions" /\ visits # <<>>
      /\ LikeVisits(vs) /\ Open(vs[Len(vs)]) /\ Open(visits[Len(visits)])
      /\ \A k : ~TakesExpr(vs[Len(vs)], k)
      /\ temps \in Nat
  BY <1>1, PhaseSearch
<1>3. /\ visits' = Leave(vs, t)
      /\ edges' = edges \cup {<<fn_ret_type, t>>}
      /\ claims' = [claims EXCEPT !.empty = @ \/ NeedRetValue]
      /\ UNCHANGED <<unit, stage, item, scope, concrete, variables, temps, fn_ret_type,
                     asked, results, errors>>
  BY DEF ReturnEmpty, Simple, Statement, Goes, Visits, Draw, EmptyReturnEdges
<1>4. /\ temps' \in Nat /\ temps <= temps' /\ edges \subseteq edges' /\ names' = names
      /\ type_ids' = type_ids /\ asked' = asked
  BY <1>2, <1>3 DEF scope
<1>5. t = Type(UnitId)
  BY UnitType
<1>6. /\ DOMAIN claims' = DOMAIN claims /\ claims'.calls = claims.calls
      /\ claims'.empty = (claims.empty \/ NeedRetValue)
      /\ claims'.equality = claims.equality
      /\ claims'.declared = claims.declared /\ claims'.returned = claims.returned
      /\ claims'.arithmetic = claims.arithmetic /\ claims'.condition = claims.condition
  BY <1>3, ClaimFields
<1>7. visits' # <<>>
  <2>1. Stacked(vs, Nodes, variables, KnownIds) /\ t \in Nodes
    BY <1>2, KnownHaveNodes DEF LikeVisits, Primitives
  <2>2. Stacked(Leave(vs, t), Nodes, variables, KnownIds)
    BY <1>2, <2>1, LeaveStack
  <2> QED
    BY <1>3, <2>2 DEF Stacked
<1>8. ClaimsGrow
  <2>1. TypeClaims' = TypeClaims
    BY <1>4, <1>6 DEF TypeClaims
  <2>2. NeedRetValue' = NeedRetValue
    BY <1>3, <1>4 DEF NeedRetValue, RetType
  <2>3. NeedRetValue => UnitAndMore'
    <3>1. Leads(fn_ret_type, Type(UnitId), edges')
      BY <1>3, <1>5, LeadsOn
    <3> QED
      BY <1>3, <1>7, <2>2, <3>1 DEF UnitAndMore
  <2> QED
    BY <1>6, <2>1, <2>3 DEF ClaimsGrow
<1>9. WalkOn
  BY <1>2, <1>3, <1>4, <1>8 DEF WalkOn
<1>10. t \in InformedNodes'
  <2>1. Informed(t)
    BY <1>2, PrimitiveLeads DEF Primitives
  <2>2. t \in Nodes
    BY <1>2, KnownHaveNodes DEF Primitives
  <2>3. t \in InformedNodes
    BY <2>1, <2>2 DEF InformedNodes
  <2> QED
    BY <1>9, <2>3, WalkOnProperties
<1> HIDE DEF vs, t
<1> QED
  BY <1>2, <1>3, <1>4, <1>9, <1>10, LeafSearch

LEMMA EmptyBlockSearch ==
    ASSUME IInv, SearchInv, EmptyBlock
    PROVE  SearchInv'
<1> DEFINE t == Primitive("()")
<1>1. /\ stage = "expressions" /\ visits # <<>>
      /\ top \in VisitOf(Nodes) /\ Fits(top, variables, KnownIds)
      /\ Awaits(top) = "stmt"
      /\ temps \in Nat
  BY AtOpen DEF EmptyBlock, Goes
<1>2. /\ visits' = Leave(Front(visits), t)
      /\ ~top.source
      /\ UNCHANGED <<unit, stage, item, scope, concrete, variables, temps, edges,
                     fn_ret_type, asked, results, errors, claims>>
  BY DEF EmptyBlock, Goes, Visits, graph
<1>3. top.node = "block"
  BY <1>1, AwaitsProperties
<1>4. temps' \in Nat /\ temps <= temps' /\ names' = names /\ asked' = asked
  BY <1>1, <1>2 DEF scope
<1>5. ClaimsGrow
  BY <1>2, <1>4, ClaimsSame
<1>6. WalkOn
  BY <1>1, <1>2, <1>4, <1>5 DEF WalkOn
<1>7. t \in InformedNodes'
  <2>1. Informed(t)
    BY <1>1, PrimitiveLeads DEF Primitives
  <2>2. t \in Nodes
    BY <1>1, KnownHaveNodes DEF Primitives
  <2>3. t \in InformedNodes
    BY <2>1, <2>2 DEF InformedNodes
  <2> QED
    BY <1>6, <2>3, WalkOnProperties
<1>8. Valuable(top) = {} /\ top.node \in Statements /\ top.node # "fn"
  BY <1>2, <1>3 DEF Valuable, Statements
<1> HIDE DEF t
<1> QED
  BY <1>2, <1>4, <1>6, <1>7, <1>8, EndSearch

(* What the end of a statement or a block relies on. *)
LEMMA EndsFacts ==
    ASSUME IInv, SearchInv, NEW node, Ends(node), variables \subseteq variables',
           edges \subseteq edges', claims.calls \subseteq claims'.calls
    PROVE  /\ stage = "expressions" /\ visits # <<>> /\ top.node = node
           /\ UNCHANGED <<unit, stage, item, scope, concrete, temps, fn_ret_type, results,
                          errors, names, type_ids>>
           /\ temps' \in Nat /\ temps <= temps'
           /\ \A k \in 1..temps' : k \in 1..temps
           /\ \A k \in 1..top.arity :
                 /\ top.children[k] \in InformedNodes'
                 /\ TakesExpr(top, k) => IsOf(top.children[k], ToSet(asked))
           /\ \A n \in Primitives : Primitive(n) \in InformedNodes' /\ names[n] \in KnownIds
           /\ \A a, b : <<a, b>> \in edges' => /\ Leads(a, b, edges')
                                               /\ b \in InformedNodes' => Informed(a)'
           /\ \A id \in variables' : Informed(Var(id))' => Var(id) \in InformedNodes'
           /\ node \in DOMAIN Arity => top.arity = Arity[node]
<1>1. /\ stage = "expressions" /\ visits # <<>> /\ Visits("end") /\ top.node = node
      /\ UNCHANGED <<unit, stage, item, scope, concrete, temps, fn_ret_type, results,
                     errors, names, type_ids>>
  BY DEF Ends, Goes, Visits, scope
<1>2. temps \in Nat
  BY <1>1, AtEnd
<1>3. temps' \in Nat /\ temps <= temps' /\ \A k \in 1..temps' : k \in 1..temps
  BY <1>1, <1>2
<1>4. /\ \A i \in 1..top.arity : top.children[i] \in Nodes'
      /\ \A n \in Primitives : Primitive(n) \in Nodes'
      /\ \A id \in variables' : Var(id) \in Nodes'
      /\ node \in DOMAIN Arity => top.arity = Arity[node]
  BY EndsNodes
<1>5. \A n : Informed(n) => Informed(n)'
  BY <1>1, InformedGrows
<1>6. \A k \in 1..top.arity : /\ top.children[k] \in InformedNodes'
                              /\ TakesExpr(top, k) => IsOf(top.children[k], ToSet(asked))
  <2>1. \A k \in 1..top.arity :
           /\ Informed(top.children[k])
           /\ TakesExpr(top, k) => IsOf(top.children[k], ToSet(asked))
    BY <1>1, EndChildren
  <2> QED
    BY <1>4, <1>5, <2>1 DEF InformedNodes
<1>7. \A n \in Primitives : Primitive(n) \in InformedNodes' /\ names[n] \in KnownIds
  <2>1. \A n \in Primitives : Informed(Primitive(n)) /\ names[n] \in KnownIds
    BY <1>1, PrimitiveLeads
  <2> QED
    BY <1>4, <1>5, <2>1 DEF InformedNodes
<1>8. \A a, b : <<a, b>> \in edges' => /\ Leads(a, b, edges')
                                       /\ b \in InformedNodes' => Informed(a)'
  BY LeadsOn DEF Informed, InformedNodes
<1>9. \A id \in variables' : Informed(Var(id))' => Var(id) \in InformedNodes'
  BY <1>4 DEF InformedNodes
<1> QED
  BY <1>1, <1>3, <1>4, <1>6, <1>7, <1>8, <1>9

LEMMA BlockEndSearch ==
    ASSUME IInv, SearchInv, BlockEnd
    PROVE  SearchInv'
<1>1. /\ Ends("block") /\ asked' = asked /\ claims' = claims
      /\ variables \subseteq variables' /\ edges \subseteq edges'
  BY DEF BlockEnd, Draw
<1>2. claims.calls \subseteq claims'.calls
  BY <1>1
<1>3. /\ stage = "expressions" /\ visits # <<>> /\ top.node = "block"
      /\ UNCHANGED <<unit, stage, item, scope, concrete, temps, fn_ret_type, results,
                     errors, names, type_ids>>
      /\ temps' \in Nat /\ temps <= temps'
      /\ \A k \in 1..temps' : k \in 1..temps
      /\ \A k \in 1..top.arity : top.children[k] \in InformedNodes'
      /\ \A n \in Primitives : Primitive(n) \in InformedNodes'
      /\ \A a, b : <<a, b>> \in edges' /\ b \in InformedNodes' => Informed(a)'
      /\ \A id \in variables' : Informed(Var(id))' => Var(id) \in InformedNodes'
      /\ "block" \in DOMAIN Arity => top.arity = Arity["block"]
  BY <1>1, <1>2, EndsFacts
<1>4. child \in InformedNodes'
  <2>1. 1 \in 1..top.arity
    BY <1>3, ArityOne
  <2> QED
    BY <1>3, <2>1 DEF child
<1>5. ClaimsGrow
  BY <1>1, <1>3, ClaimsSame
<1>6. top.node \in Statements /\ top.node # "fn"
  BY <1>3 DEF Statements
<1>7. CASE top.source
  <2>1. PICK x, t : x = top.id /\ t = Var(x)
    OBVIOUS
  <2>2. /\ variables' = variables \cup {x}
        /\ edges' = edges \cup {<<t, child>>}
        /\ visits' = Leave(Front(visits), t)
    BY <1>7, <2>1 DEF BlockEnd, Draw
  <2>3. Valuable(top) = {x}
    BY <1>3, <1>7, <2>1 DEF Valuable
  <2>4. Informed(Var(x))'
    <3>1. PICK c : c = child
      OBVIOUS
    <3>2. Informed(t)'
      BY <1>3, <1>4, <2>2, <3>1
    <3> QED
      BY <2>1, <3>2
  <2>5. t \in InformedNodes'
    BY <1>3, <2>1, <2>2, <2>4
  <2>6. WalkOn
    BY <1>1, <1>3, <1>5, <2>2, <2>4 DEF WalkOn
  <2> QED
    BY <1>1, <1>6, <2>1, <2>2, <2>3, <2>4, <2>5, <2>6, EndSearch
<1>8. CASE ~top.source
  <2> DEFINE t == Primitive("()")
  <2>1. variables' = variables /\ visits' = Leave(Front(visits), t)
    BY <1>8 DEF BlockEnd
  <2>2. Valuable(top) = {}
    BY <1>8 DEF Valuable
  <2>3. t \in InformedNodes'
    BY <1>3 DEF Primitives
  <2>4. WalkOn
    BY <1>1, <1>3, <1>5, <2>1 DEF WalkOn
  <2> HIDE DEF t
  <2> QED
    BY <1>1, <1>6, <1>8, <2>1, <2>2, <2>3, <2>4, EndSearch
<1> QED
  BY <1>7, <1>8

LEMMA ExprStmtEndSearch ==
    ASSUME IInv, SearchInv, ExprStmtEnd
    PROVE  SearchInv'
<1>1. /\ Ends("stmt") /\ UNCHANGED <<variables, edges, asked, claims>>
      /\ visits' = Leave(Front(visits), child)
  BY DEF ExprStmtEnd
<1>2. /\ variables \subseteq variables' /\ edges \subseteq edges'
      /\ claims.calls \subseteq claims'.calls
  BY <1>1
<1>3. /\ stage = "expressions" /\ visits # <<>> /\ top.node = "stmt"
      /\ UNCHANGED <<unit, stage, item, scope, concrete, temps, fn_ret_type, results,
                     errors, names, type_ids>>
      /\ temps' \in Nat /\ temps <= temps'
      /\ \A k \in 1..temps' : k \in 1..temps
      /\ \A k \in 1..top.arity : top.children[k] \in InformedNodes'
      /\ "stmt" \in DOMAIN Arity => top.arity = Arity["stmt"]
  BY <1>1, <1>2, EndsFacts
<1>4. child \in InformedNodes'
  <2>1. 1 \in 1..top.arity
    BY <1>3, ArityOne
  <2> QED
    BY <1>3, <2>1 DEF child
<1>5. ClaimsGrow
  BY <1>1, <1>3, ClaimsSame
<1>6. top.node \in Statements /\ top.node # "fn" /\ top.node # "block" /\ Valuable(top) = {}
  BY <1>3 DEF Statements, Valuable
<1>7. WalkOn
  BY <1>1, <1>2, <1>3, <1>5 DEF WalkOn
<1> QED
  BY <1>1, <1>4, <1>6, <1>7, EndSearch

LEMMA ReturnEndSearch ==
    ASSUME IInv, SearchInv, ReturnEnd
    PROVE  SearchInv'
<1> DEFINE T == {<<child, RetType>>}
           Q == {}
<1>1. /\ Ends("return") /\ UNCHANGED <<variables, asked>>
      /\ visits' = Leave(Front(visits), child)
      /\ edges' = edges \cup IF child = Primitive("()") THEN {} ELSE {<<child, fn_ret_type>>}
  BY DEF ReturnEnd, Draw
<1>2. /\ DOMAIN claims' = DOMAIN claims /\ claims'.calls = claims.calls
      /\ claims'.empty = claims.empty /\ claims'.equality = claims.equality
      /\ claims'.declared = claims.declared
      /\ claims'.returned = claims.returned \cup {<<child, RetType>>}
      /\ claims'.arithmetic = claims.arithmetic /\ claims'.condition = claims.condition
  BY ClaimFields DEF ReturnEnd
<1>3. /\ variables \subseteq variables' /\ edges \subseteq edges'
      /\ claims.calls \subseteq claims'.calls
  BY <1>1, <1>2
<1>4. /\ stage = "expressions" /\ visits # <<>> /\ top.node = "return"
      /\ UNCHANGED <<unit, stage, item, scope, concrete, temps, fn_ret_type, results,
                     errors, names, type_ids>>
      /\ temps' \in Nat /\ temps <= temps'
      /\ \A k \in 1..temps' : k \in 1..temps
      /\ \A k \in 1..top.arity :
            /\ top.children[k] \in InformedNodes'
            /\ TakesExpr(top, k) => IsOf(top.children[k], ToSet(asked))
      /\ \A a, b : <<a, b>> \in edges' => Leads(a, b, edges')
      /\ "return" \in DOMAIN Arity => top.arity = Arity["return"]
  BY <1>1, <1>3, EndsFacts
<1>5. child \in InformedNodes' /\ IsOf(child, ToSet(asked))
  <2>1. 1 \in 1..top.arity /\ TakesExpr(top, 1)
    BY <1>4, ArityOne DEF TakesExpr
  <2> QED
    BY <1>4, <2>1 DEF child
<1>6. child # Primitive("()")
  <2>1. Primitive("()") = Type(UnitId)
    BY UnitType
  <2> QED
    BY <1>5, <2>1 DEF IsOf, Type, Var
<1>7. Leads(child, fn_ret_type, edges') /\ fn_ret_type = GetType(RetType) /\ RetType \in KnownIds
  <2>1. fn_ret_type = GetType(RetType)
    BY <1>4 DEF SearchInv, WalkInv
  <2>2. RetType \in KnownIds
    BY <1>4, Walks, ItemTypeIds DEF TypeIds
  <2> QED
    BY <1>1, <1>4, <1>6, <2>1, <2>2
<1>8. ClaimsGrow
  <2>1. TypeClaims' \subseteq TypeClaims \cup T
    BY <1>2, <1>4 DEF TypeClaims
  <2>2. \A p \in T : /\ IsOf(p[1], ToSet(asked')) /\ p[2] \in KnownIds
                     /\ Leads(p[1], GetType(p[2]), edges')
    BY <1>1, <1>5, <1>7
  <2>3. /\ claims'.equality \subseteq claims.equality \cup Q
        /\ \A e \in Q : /\ IsOf(e[1], ToSet(asked')) /\ IsOf(e[2], ToSet(asked'))
                        /\ Leads(e[2], e[1], edges')
    BY <1>2
  <2>4. claims'.empty => claims.empty
    BY <1>2
  <2>5. UNCHANGED <<concrete, results>>
    BY <1>4
  <2> HIDE DEF T, Q
  <2> QED
    BY <1>2, <1>3, <1>4, <2>1, <2>2, <2>3, <2>4, <2>5, ClaimsMore
<1>9. top.node \in Statements /\ top.node # "fn" /\ top.node # "block" /\ Valuable(top) = {}
  BY <1>4 DEF Statements, Valuable
<1>10. WalkOn
  BY <1>1, <1>3, <1>4, <1>8 DEF WalkOn
<1> QED
  BY <1>1, <1>5, <1>9, <1>10, EndSearch

LEMMA IfEndSearch ==
    ASSUME IInv, SearchInv, IfEnd
    PROVE  SearchInv'
<1> DEFINE n == top.arity \div 2
           var == Var(top.id)
           conditions == {top.children[2 * b - 1] : b \in 1..n}
           others == IF top.arity = 2 * n THEN {} ELSE {top.children[top.arity]}
           values == IF top.source
                     THEN {<<var, top.children[2 * b]>> : b \in 1..n}
                             \cup {<<o, var>> : o \in others}
                     ELSE {}
           T == {<<c, names["bool"]>> : c \in conditions}
           Q == {}
<1>1. /\ Ends("if") /\ UNCHANGED <<variables, asked>>
      /\ visits' = Leave(Front(visits), IF top.source THEN var ELSE Primitive("()"))
      /\ edges' = edges \cup ({<<c, Primitive("bool")>> : c \in conditions} \cup values)
  BY DEF IfEnd, Draw
<1>2. /\ DOMAIN claims' = DOMAIN claims /\ claims'.calls = claims.calls
      /\ claims'.empty = claims.empty /\ claims'.equality = claims.equality
      /\ claims'.declared = claims.declared /\ claims'.returned = claims.returned
      /\ claims'.arithmetic = claims.arithmetic
      /\ claims'.condition = claims.condition \cup conditions
  <2>1. claims' = [claims EXCEPT !.condition = @ \cup conditions]
    BY DEF IfEnd
  <2> HIDE DEF conditions
  <2> QED
    BY <2>1, ClaimFields
<1>3. /\ variables \subseteq variables' /\ edges \subseteq edges'
      /\ claims.calls \subseteq claims'.calls
  BY <1>1, <1>2
<1>4. /\ stage = "expressions" /\ visits # <<>> /\ top.node = "if"
      /\ UNCHANGED <<unit, stage, item, scope, concrete, temps, fn_ret_type, results,
                     errors, names, type_ids>>
      /\ temps' \in Nat /\ temps <= temps'
      /\ \A k \in 1..temps' : k \in 1..temps
      /\ \A k \in 1..top.arity :
            /\ top.children[k] \in InformedNodes'
            /\ TakesExpr(top, k) => IsOf(top.children[k], ToSet(asked))
      /\ \A p \in Primitives : Primitive(p) \in InformedNodes' /\ names[p] \in KnownIds
      /\ \A x, y : <<x, y>> \in edges' => /\ Leads(x, y, edges')
                                          /\ y \in InformedNodes' => Informed(x)'
      /\ \A id \in variables' : Informed(Var(id))' => Var(id) \in InformedNodes'
  BY <1>1, <1>3, EndsFacts
<1>5. top.arity \in Nat /\ top.arity >= 2 /\ top.id \in variables
  <2>1. Visits("end")
    BY <1>1 DEF Ends, Goes
  <2>2. top.arity \in Nat /\ Fits(top, variables, KnownIds)
    BY <2>1, AtEnd
  <2> QED
    BY <1>4, <2>1, <2>2, EndChildren DEF Fits
<1>6. /\ \A b \in 1..n : /\ 2 * b - 1 \in 1..top.arity /\ (2 * b - 1) % 2 = 1
                         /\ 2 * b - 1 # top.arity
      /\ 1 \in 1..n /\ 2 \in 1..top.arity
  BY <1>5
<1>7. \A c \in conditions : IsOf(c, ToSet(asked))
  BY <1>4, <1>6 DEF TakesExpr
<1>8. ClaimsGrow
  <2>1. TypeClaims' \subseteq TypeClaims \cup T
    BY <1>2, <1>4 DEF TypeClaims
  <2>2. \A p \in T : /\ IsOf(p[1], ToSet(asked')) /\ p[2] \in KnownIds
                     /\ Leads(p[1], GetType(p[2]), edges')
    <3> SUFFICES ASSUME NEW p \in T
                 PROVE  /\ IsOf(p[1], ToSet(asked')) /\ p[2] \in KnownIds
                        /\ Leads(p[1], GetType(p[2]), edges')
      OBVIOUS
    <3>1. PICK c \in conditions : p = <<c, names["bool"]>>
      OBVIOUS
    <3>2. <<c, Primitive("bool")>> \in edges'
      BY <1>1
    <3>3. /\ IsOf(c, ToSet(asked')) /\ names["bool"] \in KnownIds
          /\ Leads(c, GetType(names["bool"]), edges')
      BY <1>1, <1>4, <1>7, <3>2 DEF Primitives, Primitive
    <3> HIDE DEF T, conditions
    <3> QED
      BY <3>1, <3>3
  <2>3. /\ claims'.equality \subseteq claims.equality \cup Q
        /\ \A e \in Q : /\ IsOf(e[1], ToSet(asked')) /\ IsOf(e[2], ToSet(asked'))
                        /\ Leads(e[2], e[1], edges')
    BY <1>2
  <2>4. claims'.empty => claims.empty
    BY <1>2
  <2>5. UNCHANGED <<concrete, results>>
    BY <1>4
  <2> HIDE DEF T, Q
  <2> QED
    BY <1>2, <1>3, <1>4, <2>1, <2>2, <2>3, <2>4, <2>5, ClaimsMore
<1>9. top.node \in Statements /\ top.node # "fn" /\ top.node # "block"
  BY <1>4 DEF Statements
<1>10. WalkOn
  BY <1>1, <1>3, <1>4, <1>8 DEF WalkOn
<1>11. CASE top.source
  <2>1. PICK x, t : x = top.id /\ t = Var(x)
    OBVIOUS
  <2>2. visits' = Leave(Front(visits), t)
    BY <1>1, <1>11, <2>1
  <2>3. Valuable(top) = {x}
    BY <1>4, <1>11, <2>1 DEF Valuable
  <2>4. Informed(t)'
    <3>1. PICK c : c = top.children[2]
      OBVIOUS
    <3>2. <<t, c>> \in edges'
      <4>1. <<t, c>> \in values
        <5>1. c = top.children[2 * 1]
          BY <3>1
        <5> QED
          BY <1>6, <1>11, <2>1, <5>1
      <4> HIDE DEF values
      <4> QED
        BY <1>1, <4>1
    <3> QED
      BY <1>4, <1>6, <3>1, <3>2
  <2>5. t \in InformedNodes'
    <3>1. Informed(Var(x))'
      BY <2>1, <2>4
    <3> QED
      BY <1>1, <1>4, <1>5, <2>1, <3>1
  <2>6. Informed(Var(x))'
    BY <2>1, <2>4
  <2> QED
    BY <1>1, <1>9, <1>10, <2>2, <2>3, <2>5, <2>6, EndSearch
<1>12. CASE ~top.source
  <2> DEFINE t == Primitive("()")
  <2>1. visits' = Leave(Front(visits), t)
    BY <1>1, <1>12
  <2>2. Valuable(top) = {}
    BY <1>12 DEF Valuable
  <2>3. t \in InformedNodes'
    BY <1>4 DEF Primitives
  <2> HIDE DEF t
  <2> QED
    BY <1>1, <1>9, <1>10, <2>1, <2>2, <2>3, EndSearch
<1> QED
  BY <1>11, <1>12

LEMMA LetEndSearch ==
    ASSUME IInv, SearchInv, LetEnd
    PROVE  SearchInv'
<1> DEFINE type == top.id
           T == IF type = None THEN {} ELSE {<<Var(NewId), type>>}
           Q == {}
<1>1. /\ Ends("let")
      /\ variables' = variables \cup {NewId}
      /\ edges' = edges \cup LetEdges(NewId, type)
      /\ asked' = asked \o <<NewId>>
      /\ visits' = Leave([Front(visits) EXCEPT ![Len(visits) - 1].declared = @ \cup {NewId}],
                         Primitive("()"))
      /\ claims' = IF type = None THEN claims
                   ELSE [claims EXCEPT !.declared = @ \cup {<<Var(NewId), type>>}]
  BY DEF LetEnd, Draw, Asks
<1>2. /\ DOMAIN claims' = DOMAIN claims /\ claims'.calls = claims.calls
      /\ claims'.empty = claims.empty /\ claims'.equality = claims.equality
      /\ claims'.declared = claims.declared \cup T /\ claims'.returned = claims.returned
      /\ claims'.arithmetic = claims.arithmetic
      /\ claims'.condition = claims.condition
  <2> HIDE DEF type
  <2>1. CASE type = None
    BY <1>1, <2>1
  <2>2. CASE type # None
    BY <1>1, <2>2, ClaimFields
  <2> QED
    BY <2>1, <2>2
<1>3. /\ variables \subseteq variables' /\ edges \subseteq edges'
      /\ claims.calls \subseteq claims'.calls
  BY <1>1, <1>2
<1>4. /\ stage = "expressions" /\ visits # <<>> /\ top.node = "let"
      /\ UNCHANGED <<unit, stage, item, scope, concrete, temps, fn_ret_type, results,
                     errors, names, type_ids>>
      /\ temps' \in Nat /\ temps <= temps'
      /\ \A k \in 1..temps' : k \in 1..temps
      /\ \A k \in 1..top.arity : top.children[k] \in InformedNodes'
      /\ \A p \in Primitives : Primitive(p) \in InformedNodes'
      /\ \A x, y : <<x, y>> \in edges' => /\ Leads(x, y, edges')
                                          /\ y \in InformedNodes' => Informed(x)'
      /\ \A id \in variables' : Informed(Var(id))' => Var(id) \in InformedNodes'
      /\ "let" \in DOMAIN Arity => top.arity = Arity["let"]
  BY <1>1, <1>3, EndsFacts
<1>5. child \in InformedNodes'
  <2>1. 1 \in 1..top.arity
    BY <1>4, ArityOne
  <2> QED
    BY <1>4, <2>1 DEF child
<1>6. NewId \in Seq(Nat) /\ asked \in Seq(Seq(Nat)) /\ (type # None => type \in KnownIds)
  BY <1>4, Walks DEF Fits
<1>7. ToSet(asked') = ToSet(asked) \cup {NewId}
  <2>1. <<NewId>> \in Seq(Seq(Nat)) /\ ToSet(<<NewId>>) = {NewId}
    BY <1>6 DEF ToSet
  <2> QED
    BY <1>1, <1>6, <2>1, AskMore
<1>8. PICK x : x = NewId
  OBVIOUS
<1>9. Informed(Var(x))' /\ Var(x) \in InformedNodes'
  <2>1. PICK c : c = child
    OBVIOUS
  <2>2. <<Var(x), c>> \in edges'
    BY <1>1, <1>8, <2>1 DEF LetEdges
  <2>3. Informed(Var(x))'
    BY <1>4, <1>5, <2>1, <2>2
  <2> QED
    BY <1>1, <1>4, <1>8, <2>3
<1>10. ClaimsGrow
  <2>1. TypeClaims' \subseteq TypeClaims \cup T
    <3> HIDE DEF T
    <3> QED
      BY <1>2, <1>4 DEF TypeClaims
  <2>2. \A p \in T : /\ IsOf(p[1], ToSet(asked')) /\ p[2] \in KnownIds
                     /\ Leads(p[1], GetType(p[2]), edges')
    <3>1. CASE type = None
      BY <3>1
    <3>2. CASE type # None
      <4>1. T = {<<Var(NewId), type>>}
        BY <3>2
      <4>2. <<Var(NewId), GetType(type)>> \in edges'
        BY <1>1, <3>2 DEF LetEdges
      <4>3. IsOf(Var(NewId), ToSet(asked')) /\ type \in KnownIds
            /\ Leads(Var(NewId), GetType(type), edges')
        BY <1>4, <1>6, <1>7, <3>2, <4>2 DEF IsOf
      <4> HIDE DEF T, type
      <4> QED
        BY <4>1, <4>3
    <3> QED
      BY <3>1, <3>2
  <2>3. /\ claims'.equality \subseteq claims.equality \cup Q
        /\ \A e \in Q : /\ IsOf(e[1], ToSet(asked')) /\ IsOf(e[2], ToSet(asked'))
                        /\ Leads(e[2], e[1], edges')
    BY <1>2
  <2>4. claims'.empty => claims.empty
    BY <1>2
  <2>5. UNCHANGED <<concrete, results>>
    BY <1>4
  <2> HIDE DEF T, Q
  <2> QED
    BY <1>2, <1>3, <1>4, <2>1, <2>2, <2>3, <2>4, <2>5, ClaimsMore
<1>11. WalkOn
  BY <1>1, <1>3, <1>4, <1>7, <1>10 DEF WalkOn
<1>12. top.node \in Statements /\ top.node # "fn" /\ top.node # "block" /\ Valuable(top) = {}
  BY <1>4 DEF Statements, Valuable
<1> DEFINE b == Front(visits)
           k == Len(b)
           n == Len(visits)
           f == [b[k] EXCEPT !.declared = @ \cup {NewId}]
           vs == [b EXCEPT ![k] = f]
           N2 == Nodes'
           V2 == variables'
           A2 == ToSet(asked')
           I2 == InformedNodes'
           C2 == claims'.calls
<1>13. /\ Stacked(b, N2, V2, KnownIds)
       /\ Founded(b, A2, I2, C2)
       /\ Open(b[k])
       /\ Awaited(visits) = Awaited(b)
       /\ n \in Nat /\ k = n - 1
       /\ k \in Nat \ {0}
       /\ \A i \in 1..k : b[i] = visits[i]
       /\ ~TakesExpr(b[k], Len(b[k].children) + 1)
       /\ NeedRetValue => n # 2
  BY <1>11, <1>12, FrontVisits
<1>14. NewId \in V2 /\ Var(NewId) \in I2
  BY <1>1, <1>8, <1>9
<1>15. visits' = Leave(vs, Primitive("()"))
  <2>1. vs = [b EXCEPT ![k].declared = @ \cup {NewId}]
    OBVIOUS
  <2> HIDE DEF vs
  <2> QED
    BY <1>1, <1>13, <2>1
<1> HIDE DEF b, k, N2, V2, A2, I2, C2
<1>16. b[k] \in VisitOf(N2) /\ Fits(b[k], V2, KnownIds)
  BY <1>13, StackTop DEF k
<1>17. f \in VisitOf(N2)
  BY <1>6, <1>16 DEF VisitOf
<1>18. /\ f.node = b[k].node /\ f.id = b[k].id /\ f.arity = b[k].arity
       /\ f.children = b[k].children /\ f.source = b[k].source
       /\ f.declared = b[k].declared \cup {NewId}
  BY <1>16 DEF VisitOf
<1> HIDE DEF f
<1>19. Fits(f, V2, KnownIds) /\ Valued(f) = Valued(b[k]) /\ Open(f) /\ Alike(f, b[k])
  BY <1>13, <1>14, <1>16, <1>18 DEF Fits, Valued, Open, Alike
<1>20. FitsFor(f, A2, I2, C2)
  <2>1. FitsFor(b[k], A2, I2, C2)
    BY <1>13 DEF Founded, k
  <2> QED
    BY <1>14, <1>18, <2>1 DEF FitsFor, TakesExpr
<1>21. Stacked(vs, N2, V2, KnownIds)
  BY <1>13, <1>17, <1>18, <1>19, SetTop DEF k
<1>22. /\ Founded(vs, A2, I2, C2)
       /\ Awaited(vs) = Awaited(b)
       /\ Len(vs) = k /\ vs[k] = f
       /\ \A i \in 1..k : i # k => vs[i] = b[i]
  BY <1>13, <1>17, <1>19, <1>20, FoundedSet DEF k
<1> HIDE DEF vs, n
<1>23. ASSUME NeedRetValue
       PROVE  Len(vs) >= 2 /\ n >= 2 /\ Alike(vs[2], visits[2])
  <2>1. k >= 2 /\ n >= 2 /\ 2 \in 1..k
    BY <1>13, <1>23
  <2>2. b[2] = visits[2]
    BY <1>13, <2>1
  <2>3. CASE k = 2
    BY <1>19, <1>22, <2>1, <2>2, <2>3
  <2>4. CASE k # 2
    BY <1>22, <2>1, <2>2, <2>4 DEF Alike
  <2> QED
    BY <1>22, <2>1, <2>3, <2>4
<1>24. Primitive("()") \in InformedNodes'
  BY <1>4 DEF Primitives
<1>25. /\ Open(vs[Len(vs)])
       /\ ~TakesExpr(vs[Len(vs)], Len(vs[Len(vs)].children) + 1)
  BY <1>13, <1>18, <1>19, <1>22 DEF TakesExpr
<1>26. /\ Stacked(vs, Nodes', variables', KnownIds)
       /\ Founded(vs, ToSet(asked'), InformedNodes', claims'.calls)
  BY <1>21, <1>22 DEF N2, V2, A2, I2, C2
<1>27. \A id \in ToSet(asked') : id \in ToSet(asked) \/ Informed(Var(id))'
  <2>1. \A id \in ToSet(asked') : id \in ToSet(asked) \/ id = x
    BY <1>7, <1>8
  <2> QED
    BY <1>9, <2>1
<1>28. \A id \in Awaited(visits) : id \in Awaited(vs)
  BY <1>13, <1>22
<1> QED
  BY <1>11, <1>15, <1>23, <1>24, <1>25, <1>26, <1>27, <1>28, LeaveSearch DEF n

-----------------------------------------------------------------------------
(* Functions and typedefs begin and end. *)

LEMMA NothingAwaited == Awaited(<<>>) = {}
BY EmptySeq DEF Awaited

LEMMA SkipTypedefSearch ==
    ASSUME IInv, SearchInv, SkipTypedef
    PROVE  SearchInv'
<1>1. /\ stage = "expressions" /\ visits = <<>> /\ item \in DOMAIN unit
      /\ unit[item].kind = "Typedef"
      /\ asked' = Append(asked, ItemId(item)) /\ visits' = <<>>
      /\ UNCHANGED <<unit, stage, scope, concrete, variables, temps, edges, fn_ret_type,
                     results, errors, claims>>
  BY DEF SkipTypedef, AtItem, graph
<1>2. /\ ItemId(item) \in variables /\ asked \in Seq(Seq(Nat)) /\ item \in Nat
  BY <1>1 DEF IInv, TypeOK, ItemVarsInv, HasVar
<1>3. ToSet(asked') = ToSet(asked) \cup {ItemId(item)}
  <2>1. ItemId(item) \in Seq(Nat)
    BY <1>2, IdTypes
  <2>2. <<ItemId(item)>> \in Seq(Seq(Nat)) /\ ToSet(<<ItemId(item)>>) = {ItemId(item)}
    BY <2>1 DEF ToSet
  <2>3. asked' = asked \o <<ItemId(item)>>
    BY <1>1, <1>2, <2>1, AppendIsConcat
  <2> QED
    BY <1>2, <2>2, <2>3, AskMore
<1>4. \A n : Informed(n) => Informed(n)'
  BY <1>1, InformedGrows
<1>5. PICK x : x = ItemId(item)
  OBVIOUS
<1>6. Informed(Var(x))'
  <2>1. Informed(Var(x))
    BY <1>1, <1>2, <1>5 DEF SearchInv, InfoInv
  <2> QED
    BY <1>4, <2>1
<1>7. InfoGrows
  <2>1. \A id \in ToSet(asked') : id \in ToSet(asked) \/ id = x
    BY <1>3, <1>5
  <2> QED
    BY <1>1, <1>6, <2>1, NothingAwaited DEF InfoGrows
<1>8. ClaimsGrow
  BY <1>1, ClaimsSame DEF scope
<1>9. WalkInv' /\ BodyAccounted
  BY <1>1 DEF WalkInv, BodyAccounted
<1>10. IsFiniteSet(variables')
  BY <1>1 DEF SearchInv, TypesInv
<1> QED
  BY <1>1, <1>3, <1>7, <1>8, <1>9, <1>10, SearchStep

LEMMA FnEndSearch ==
    ASSUME IInv, SearchInv, FnEnd
    PROVE  SearchInv'
<1>1. /\ Visits("end") /\ top.node = "fn"
      /\ edges' = edges \cup ReturnedEdges
      /\ visits' = <<>>
      /\ UNCHANGED <<unit, stage, scope, concrete, variables, temps, fn_ret_type, asked,
                     results, errors, claims>>
  BY DEF FnEnd, Visits, Draw
<1>2. /\ stage = "expressions" /\ visits # <<>>
      /\ Stacked(visits, Nodes, variables, KnownIds)
      /\ top = visits[Len(visits)]
  BY <1>1, AtEnd
<1>3. Len(visits) = 1
  BY <1>1, <1>2, StackTop
<1>4. Awaited(visits) = {}
  <2>1. \A i \in 1..1 : i = 1
    OBVIOUS
  <2>2. Valuable(visits[1]) = {}
    BY <1>1, <1>2, <1>3 DEF Valuable
  <2> QED
    BY <1>3, <2>1, <2>2 DEF Awaited
<1>5. BodyAccounted
  <2> SUFFICES ASSUME NeedRetValue PROVE Leads(Body(visits), fn_ret_type, edges')
    BY DEF BodyAccounted
  <2>1. Body(visits) = child
    BY <1>2, <1>3 DEF Body, child
  <2>2. <<child, fn_ret_type>> \in edges'
    BY <1>1 DEF ReturnedEdges
  <2> QED
    BY <2>1, <2>2, LeadsOn
<1>6. \A n : Informed(n) => Informed(n)'
  BY <1>1, InformedGrows
<1>7. InfoGrows
  BY <1>1, <1>4 DEF InfoGrows
<1>8. ClaimsGrow
  BY <1>1, ClaimsSame DEF scope
<1>9. WalkInv' /\ edges \subseteq edges'
  BY <1>1 DEF WalkInv
<1>10. IsFiniteSet(variables')
  BY <1>1 DEF SearchInv, TypesInv
<1> QED
  BY <1>1, <1>2, <1>5, <1>7, <1>8, <1>9, <1>10, SearchStep

LEMMA FirstFounded ==
    ASSUME NEW A, NEW I, NEW C, NEW f, NEW g, Fresh(f), Fresh(g),
           f.node = "fn", g.node = "block"
    PROVE  /\ Founded(<<f, g>>, A, I, C)
           /\ Valuable(g) \subseteq Awaited(<<f, g>>)
<1> DEFINE vs == <<f, g>>
<1>1. Len(vs) = 2 /\ vs[1] = f /\ vs[2] = g
  OBVIOUS
<1> HIDE DEF vs
<1>2. \A i \in 1..2 : i = 1 \/ i = 2
  OBVIOUS
<1>3. FitsFor(f, A, I, C) /\ FitsFor(g, A, I, C)
  BY FreshFits
<1>4. ~TakesExpr(f, Len(f.children) + 1)
  BY DEF TakesExpr
<1>5. \A i \in 1..(2 - 1) : i = 1 /\ i + 1 = 2
  OBVIOUS
<1>6. Founded(vs, A, I, C)
  BY <1>1, <1>2, <1>3, <1>4, <1>5 DEF Founded
<1>7. 2 \in 1..Len(vs)
  BY <1>1
<1>8. Valuable(g) \subseteq Awaited(vs)
  BY <1>1, <1>7 DEF Awaited
<1> QED
  BY <1>6, <1>8 DEF vs

LEMMA FnBeginSearch ==
    ASSUME IInv, SearchInv, FnBegin
    PROVE  SearchInv'
<1> DEFINE id == ItemId(item)
           source == FnSource
           S == {ParamType(p) : p \in Params}
           params == [p \in Params |-> ParamId(item, p)]
           ps == {ParamId(item, p) : p \in Params}
           f == NewVisit("fn", id, 1)
           g == BlockVisit(source, NewId)
<1>1. /\ stage = "expressions" /\ visits = <<>> /\ item \in DOMAIN unit
      /\ unit[item].kind = "Fn"
      /\ concrete' = concrete \cup Missing(S)
      /\ variables' = variables \cup {id} \cup ps
      /\ edges' = edges \cup {<<Var(id), AddedType(id)>>} \cup ParamEdges
      /\ fn_ret_type' = GetType(RetType)
      /\ visits' = <<f, g>>
      /\ asked' = asked \o <<id>> \o params \o AsksOf(source, NewId)
      /\ claims' = [claims EXCEPT
             !.declared = @ \cup {<<Var(ParamId(item, p)), ParamType(p)>> : p \in Params},
             !.returned = @ \cup IF NeedRetValue THEN {<<Var(NewId), RetType>>} ELSE {}]
      /\ UNCHANGED <<unit, stage, item, scope, temps, results, errors>>
  BY DEF FnBegin, AtItem
<1>2. /\ item \in Nat /\ ids \in Nat /\ asked \in Seq(Seq(Nat)) /\ unit \in Seq(Item)
      /\ IsFiniteSet(variables)
  BY DEF IInv, TypeOK, ScopeInv, SearchInv, TypesInv
<1>20. /\ source = id \/ source = None \/ source \in ToSet(lvalues)
       /\ NeedRetValue => source = id
       /\ ToSet(lvalues) \subseteq ToSet(asked)
       /\ \A x \in ToSet(lvalues) : x \in Seq(Nat)
  <2>1. lvalues \in Seq(Seq(Nat)) /\ ToSet(lvalues) \subseteq ToSet(asked)
    BY <1>1 DEF IInv, TypeOK, LeftInv
  <2>2. ASSUME NEW x \in ToSet(lvalues) PROVE x \in Seq(Nat)
    <3>1. PICK i \in 1..Len(lvalues) : x = lvalues[i]
      BY <2>1, <2>2, LenProperties DEF ToSet
    <3> QED
      BY <2>1, <3>1, ElementOfSeq
  <2>3. lvalues # <<>> => Last(lvalues) \in ToSet(lvalues)
    BY <2>1, PopLefts
  <2> QED
    BY <2>1, <2>2, <2>3 DEF FnSource
<1>3. /\ RetType \in KnownIds
      /\ \A p \in Params : p \in Nat /\ ParamType(p) \in KnownIds
      /\ \A p \in Params : ParamId(item, p) \in Seq(Nat)
      /\ id \in Seq(Nat) /\ NewId \in Seq(Nat) /\ source \in Seq(Nat)
  <2>1. /\ RetType \in TypeIds
        /\ \A p \in Params : p \in Nat /\ ParamType(p) \in TypeIds
    BY <1>1, ItemTypeIds
  <2>2. /\ id \in Seq(Nat) /\ None \in Seq(Nat)
        /\ \A p \in Params : ParamId(item, p) \in Seq(Nat)
    BY <1>2, <2>1, IdTypes
  <2>3. NewId \in Seq(Nat)
    BY <1>2 DEF NewId
  <2>4. source \in Seq(Nat)
    <3> HIDE DEF id
    <3> QED
      BY <1>20, <2>2
  <2> QED
    BY <2>1, <2>2, <2>3, <2>4 DEF TypeIds
<1>4. concrete' = concrete /\ \A p \in Params : AddedType(ParamType(p)) = GetType(ParamType(p))
  <2>1. NoNode \notin Nodes
    BY DEF NoNode, Nodes, Type, Var, Temp, None
  <2>2. \A p \in Params : GetType(ParamType(p)) # NoNode
    BY <1>1, <1>3, <2>1, KnownHaveNodes
  <2>3. Missing(S) = {}
    BY <2>2 DEF Missing
  <2> QED
    BY <1>1, <2>2, <2>3 DEF AddedType
<1>5. PICK i, A, N : i = item /\ A = asked /\ N = NewId
  OBVIOUS
<1>6. \A p \in Params : p \in DOMAIN unit[i].params
  BY <1>5 DEF Params
<1> DEFINE E2 == edges'
<1>7. /\ variables \subseteq variables' /\ edges \subseteq E2
      /\ <<Var(ItemId(i)), Type(ItemId(i))>> \in E2
      /\ \A p \in Params : <<Var(ParamId(i, p)), GetType(ParamType(p))>> \in E2
      /\ ItemId(i) \in concrete
  <2>1. id \in concrete
    BY <1>1 DEF IInv, ItemVarsInv, HasType
  <2>2. AddedType(id) = Type(id)
    BY <2>1 DEF AddedType, GetType, Type, NoNode
  <2>3. ParamEdges = {<<Var(ParamId(item, p)), GetType(ParamType(p))>> : p \in Params}
    BY <1>4 DEF ParamEdges
  <2> QED
    BY <1>1, <1>5, <2>1, <2>2, <2>3
<1>8. IsFiniteSet(variables')
  <2>1. IsFiniteSet(ps)
    <3>1. unit[item].params \in Seq(TypeNames)
      BY <1>1, <1>2, UnitItems
    <3>2. Params = 1..Len(unit[item].params) /\ Len(unit[item].params) \in Nat
      BY <3>1, LenProperties DEF Params
    <3>3. IsFiniteSet(Params)
      BY <3>2, FS_Interval
    <3>4. params \in [Params -> Seq(Nat)]
      BY <1>3
    <3>5. IsFiniteSet({params[p] : p \in Params})
      BY <3>3, <3>4, ImageFinite
    <3>6. {params[p] : p \in Params} = ps
      OBVIOUS
    <3> QED
      BY <3>5, <3>6
  <2>2. IsFiniteSet(variables \cup {id})
    BY <1>2, FS_AddElement
  <2> QED
    BY <1>1, <2>1, <2>2, FS_Union
<1>9. ToSet(asked') = ToSet(asked) \cup {id} \cup ps
                        \cup (IF source = None THEN {} ELSE {source, NewId})
  <2>1. <<id>> \in Seq(Seq(Nat)) /\ ToSet(<<id>>) = {id}
    BY <1>3 DEF ToSet
  <2>2. params \in Seq(Seq(Nat)) /\ ToSet(params) = ps
    <3>1. unit[item].params \in Seq(TypeNames)
      BY <1>1, <1>2, UnitItems
    <3>2. Params = 1..Len(unit[item].params) /\ Len(unit[item].params) \in Nat
      BY <3>1, LenProperties DEF Params
    <3>3. params \in [1..Len(unit[item].params) -> Seq(Nat)]
      BY <1>3, <3>2
    <3>4. params \in Seq(Seq(Nat))
      BY <3>2, <3>3, SeqDef
    <3> QED
      BY <3>4 DEF ToSet
  <2> DEFINE more == AsksOf(source, NewId)
  <2>3. /\ more \in Seq(Seq(Nat))
        /\ ToSet(more) = IF source = None THEN {} ELSE {source, NewId}
    BY <1>3, AsksOfTypes
  <2> HIDE DEF params, more, source, id, ps
  <2>4. /\ asked \o <<id>> \in Seq(Seq(Nat))
        /\ ToSet(asked \o <<id>>) = ToSet(asked) \cup {id}
    BY <1>2, <2>1, AskMore
  <2>5. /\ asked \o <<id>> \o params \in Seq(Seq(Nat))
        /\ ToSet(asked \o <<id>> \o params) = ToSet(asked) \cup {id} \cup ps
    BY <2>2, <2>4, AskMore
  <2> QED
    BY <1>1, <2>3, <2>5, AskMore DEF more
<1>10. /\ f.node = "fn" /\ Fresh(f)
       /\ g.node = "block" /\ Fresh(g)
       /\ Valuable(g) = IF source = None THEN {} ELSE {NewId}
       /\ NeedRetValue => g.source /\ g.id = NewId /\ source # None
  <2>1. f.node = "fn" /\ Fresh(f) /\ Fresh(g)
    BY DEF BlockVisit, NewVisit, Fresh
  <2>2. g.node = "block"
    BY <1>3, BlockVisits
  <2>3. NeedRetValue => source # None
    BY <1>20 DEF None, ItemId
  <2>4. Valued(g) = IF source = None THEN {} ELSE {NewId}
    BY <1>3, BlockVisits
  <2>5. Valued(g) = Valuable(g)
    BY <2>2 DEF Valued, Valuable
  <2>6. NeedRetValue => g.source /\ g.id = NewId
    <3> HIDE DEF g, source
    <3> QED
      BY <2>2, <2>3, <2>4 DEF Valued
  <2> HIDE DEF f, g, source
  <2> QED
    BY <2>1, <2>2, <2>3, <2>4, <2>5, <2>6
<1>11. /\ names' = names /\ type_ids' = type_ids
       /\ RetType' = RetType /\ NeedRetValue' = NeedRetValue /\ Params' = Params
       /\ item' = i
  BY <1>1, <1>5 DEF scope, RetType, NeedRetValue, Params
<1> HIDE DEF f, g, source, E2
<1>12. /\ DOMAIN claims' = DOMAIN claims /\ claims'.calls = claims.calls
       /\ claims'.empty = claims.empty /\ claims'.equality = claims.equality
       /\ claims'.declared =
             claims.declared \cup {<<Var(ParamId(item, p)), ParamType(p)>> : p \in Params}
       /\ claims'.returned =
             claims.returned \cup IF NeedRetValue THEN {<<Var(NewId), RetType>>} ELSE {}
       /\ claims'.arithmetic = claims.arithmetic
       /\ claims'.condition = claims.condition
  BY <1>1, ClaimFields
<1>13. /\ \A n : Informed(n) => Informed(n)'
       /\ Informed(Var(ItemId(i)))'
       /\ \A p \in Params : Informed(Var(ParamId(i, p)))'
  <2>1. \A n : Informed(n) => Informed(n)'
    BY <1>4, <1>7, <1>12, InformedGrows DEF E2
  <2>2. Informed(Var(ItemId(i)))'
    BY <1>4, <1>7, LeadsOn DEF Informed, E2
  <2>3. ASSUME NEW p \in Params PROVE Informed(Var(ParamId(i, p)))'
    <3>1. PICK t \in concrete : Leads(GetType(ParamType(p)), Type(t), edges)
      BY <1>1, <1>3, KnownLead DEF SearchInv
    <3>2. Leads(GetType(ParamType(p)), Type(t), E2)
      BY <1>7, <3>1, LeadsMore
    <3>3. Leads(Var(ParamId(i, p)), Type(t), E2)
      BY <1>7, <3>2, LeadsOn
    <3> QED
      BY <1>4, <3>3 DEF Informed, E2
  <2> QED
    BY <2>1, <2>2, <2>3
<1>14. WalkInv'
  <2>1. PICK r : r = RetType
    OBVIOUS
  <2>2. fn_ret_type' = GetType(RetType)'
    <3>1. GetType(r)' = GetType(r)
      BY <1>1, <1>3, <1>4, <1>7, <2>1, KnownStay
    <3>2. GetType(RetType)' = GetType(r)'
      BY <1>11, <2>1
    <3> QED
      BY <1>1, <2>1, <3>1, <3>2
  <2>3. Len(visits') = 2 /\ visits'[2] = g
    BY <1>1
  <2>4. NeedRetValue => HasBody(visits', ToSet(asked'))
    <3> SUFFICES ASSUME NeedRetValue PROVE HasBody(visits', ToSet(asked'))
      OBVIOUS
    <3>1. Body(visits') = Var(NewId)
      BY <1>10, <2>3 DEF Body
    <3>2. NewId \in ToSet(asked')
      BY <1>9, <1>10
    <3> QED
      BY <1>10, <2>3, <3>1, <3>2 DEF HasBody
  <2>5. Founded(visits', ToSet(asked'), InformedNodes', claims'.calls)
    BY <1>1, <1>10, FirstFounded
  <2>6. \A p \in Params' : Informed(Var(ParamId(item, p)))'
    BY <1>11, <1>13
  <2> QED
    BY <1>11, <2>2, <2>4, <2>5, <2>6 DEF WalkInv
<1>15. InfoGrows
  <2>1. ASSUME NEW j \in DOMAIN unit, ItemId(j) \in variables'
        PROVE  ItemId(j) \in variables \/ Informed(Var(ItemId(j)))'
    <3>1. \A p \in Params : ItemId(j) # ParamId(i, p)
      BY DEF ItemId, ParamId
    <3>2. ItemId(j) \in variables \/ ItemId(j) = ItemId(i)
      BY <1>1, <1>5, <2>1, <3>1
    <3> QED
      BY <1>13, <3>2
  <2>2. ASSUME NEW x \in ToSet(asked') \cup Awaited(visits)
        PROVE  \/ x \in ToSet(asked) /\ x \notin Awaited(visits)
               \/ Informed(Var(x))' \/ x \in Awaited(visits')
    <3>1. Awaited(visits) = {}
      BY <1>1, NothingAwaited
    <3>2. \/ x \in ToSet(asked) \/ x = ItemId(i) \/ \E p \in Params : x = ParamId(i, p)
          \/ source # None /\ x = N
      BY <1>5, <1>9, <1>20, <2>2, <3>1
    <3>3. source # None => N \in Awaited(visits')
      BY <1>1, <1>5, <1>10, FirstFounded
    <3> QED
      BY <1>13, <3>1, <3>2, <3>3
  <2> QED
    BY <1>1, <2>1, <2>2 DEF InfoGrows
<1>16. BodyAccounted
  BY <1>1 DEF BodyAccounted
<1>17. ClaimsGrow
  <2>1. ASSUME NEW q \in TypeClaims'
        PROVE  \/ q \in TypeClaims
               \/ IsOf(q[1], Answered)' /\ q[2] \in KnownIds /\ Holds(q)'
    <3>1. \/ q \in TypeClaims
          \/ \E p \in Params : q = <<Var(ParamId(i, p)), ParamType(p)>>
          \/ NeedRetValue /\ q = <<Var(N), RetType>>
      BY <1>5, <1>11, <1>12, <2>1 DEF TypeClaims
    <3>2. ASSUME NEW p \in Params, q = <<Var(ParamId(i, p)), ParamType(p)>>
          PROVE  IsOf(q[1], Answered)' /\ q[2] \in KnownIds /\ Holds(q)'
      <4>1. PICK t : t = ParamType(p)
        OBVIOUS
      <4>2. t \in KnownIds
        BY <1>3, <4>1
      <4>3. GetType(t)' = GetType(t)
        BY <1>1, <1>4, <1>7, <4>2, KnownStay
      <4>4. Leads(q[1], GetType(t)', edges')
        BY <1>7, <3>2, <4>1, <4>3, LeadsOn DEF E2
      <4>5. q[2] = t
        BY <3>2, <4>1
      <4>6. ParamId(i, p) \in Answered'
        BY <1>5, <1>9 DEF Answered
      <4>7. IsOf(q[1], Answered)'
        BY <3>2, <4>6 DEF IsOf
      <4> QED
        BY <4>2, <4>4, <4>5, <4>7 DEF Holds
    <3>3. ASSUME NeedRetValue, q = <<Var(N), RetType>>
          PROVE  IsOf(q[1], Answered)' /\ q[2] \in KnownIds /\ Holds(q)'
      <4>1. Len(visits') = 2 /\ visits'[2] = g /\ visits' # <<>>
        BY <1>1
      <4>2. Body(visits') = Var(N)
        BY <1>5, <1>10, <3>3, <4>1 DEF Body
      <4>3. N \in Answered'
        BY <1>5, <1>9, <1>10, <3>3 DEF Answered
      <4>4. IsOf(q[1], Answered)'
        BY <3>3, <4>3 DEF IsOf
      <4>5. Holds(q)'
        BY <1>11, <3>3, <4>1, <4>2 DEF Holds
      <4> QED
        BY <1>3, <3>3, <4>4, <4>5
    <3> QED
      BY <3>1, <3>2, <3>3
  <2>2. \A e \in claims'.equality : e \in claims.equality
    BY <1>12
  <2> QED
    BY <1>12, <2>1, <2>2 DEF ClaimsGrow
<1>18. ToSet(asked) \subseteq ToSet(asked')
  BY <1>9
<1> QED
  BY <1>1, <1>4, <1>7, <1>8, <1>14, <1>15, <1>16, <1>17, <1>18, SearchStep DEF E2

-----------------------------------------------------------------------------
(* ItemTypeIdentifier and ItemTypographer. *)

LEMMA NothingClaimed ==
    ASSUME NEW c, c = NoClaims
    PROVE  /\ c.declared = {} /\ c.returned = {} /\ c.arithmetic = {} /\ c.condition = {}
           /\ c.equality = {} /\ c.calls = {} /\ c.empty = FALSE
           /\ DOMAIN c = {"declared", "returned", "arithmetic", "condition", "equality",
                          "branches", "calls", "empty"}
BY DEF NoClaims

LEMMA InitSearch == Init => SearchInv
<1> SUFFICES ASSUME Init PROVE SearchInv
  OBVIOUS
<1>0. /\ DOMAIN PrimitiveId = Primitives /\ PrimitiveId["()"] = <<1>>
      /\ PrimitiveId["bool"] = <<2>> /\ PrimitiveId["float"] = <<3>>
      /\ Primitives = {"()", "bool", "float"}
  BY DEF PrimitiveId, Primitives
<1>1. /\ stage = "identify" /\ item = 1 /\ type_ids = [i \in DOMAIN unit |-> <<>>]
      /\ names = PrimitiveId
      /\ types = [id \in {PrimitiveId[n] : n \in Primitives} |->
                     Named(CHOOSE n \in Primitives : PrimitiveId[n] = id)]
      /\ concrete = {PrimitiveId[n] : n \in Primitives}
      /\ variables = {} /\ temps = 0 /\ visits = <<>> /\ asked = <<>> /\ results = <<>>
      /\ errors = {} /\ claims = NoClaims
  BY DEF Init
<1>2. \A m, n \in Primitives : PrimitiveId[m] = PrimitiveId[n] => m = n
  BY <1>0
<1>3. \A n \in Primitives : types[PrimitiveId[n]] = Named(n)
  <2> SUFFICES ASSUME NEW n \in Primitives PROVE types[PrimitiveId[n]] = Named(n)
    OBVIOUS
  <2>1. (CHOOSE m \in Primitives : PrimitiveId[m] = PrimitiveId[n]) = n
    BY <1>2
  <2> QED
    BY <1>1, <2>1
<1>4. \A n \in Primitives : Named(n) = Named("()") => n = "()"
  BY <1>0 DEF Named
<1>5. TypesInv
  <2>1. names["()"] = UnitId /\ types[UnitId] = Named("()")
    BY <1>0, <1>1, <1>3 DEF UnitId
  <2>2. \A n \in DOMAIN names : names[n] = UnitId => n = "()"
    BY <1>0, <1>1, <1>2 DEF UnitId
  <2>3. ASSUME NEW id \in TypeIds, types[id] = Named("()") PROVE id = UnitId
    <3>1. PICK n \in Primitives : id = PrimitiveId[n]
      BY <1>1, <2>3 DEF TypeIds
    <3> QED
      BY <1>3, <1>4, <2>3, <3>1 DEF UnitId
  <2>4. \A id \in DOMAIN types : id \in {PrimitiveId[n] : n \in Primitives}
    BY <1>1
  <2>5. \A i \in Typedefs : type_ids[i] = <<>>
    BY <1>1 DEF Typedefs
  <2>6. IsFiniteSet(concrete) /\ IsFiniteSet(variables)
    <3>1. concrete = {PrimitiveId["()"], PrimitiveId["bool"], PrimitiveId["float"]}
      BY <1>0, <1>1
    <3>2. IsFiniteSet({}) /\ IsFiniteSet({PrimitiveId["()"]})
      BY FS_EmptySet, FS_Singleton
    <3>3. IsFiniteSet({PrimitiveId["()"]} \cup {PrimitiveId["bool"]})
      BY <3>2, FS_AddElement
    <3>4. IsFiniteSet({PrimitiveId["()"]} \cup {PrimitiveId["bool"]} \cup {PrimitiveId["float"]})
      BY <3>3, FS_AddElement
    <3>5. concrete = {PrimitiveId["()"]} \cup {PrimitiveId["bool"]} \cup {PrimitiveId["float"]}
      BY <3>1
    <3> QED
      BY <1>1, <3>2, <3>4, <3>5
  <2> QED
    BY <1>1, <2>1, <2>2, <2>3, <2>4, <2>5, <2>6 DEF TypesInv
<1>6. AliasInv
  <2> SUFFICES ASSUME NEW id \in KnownIds, GetType(id) # NoNode
               PROVE  \E t \in concrete : /\ Leads(GetType(id), Type(t), edges)
                                          /\ types[t] = types[id]
    BY DEF AliasInv, Means
  <2>1. id \in concrete /\ GetType(id) = Type(id)
    BY <1>1 DEF GetType
  <2> QED
    BY <2>1, LeadsOn
<1>7. WalkInv /\ ResultsInv /\ ErrorsInv
  BY <1>1, EmptySeq DEF WalkInv, ResultsInv, ErrorsInv
<1>8. InfoInv
  <2>1. ToSet(asked) = {} /\ DOMAIN results = {}
    BY <1>1, EmptySeq DEF ToSet
  <2>2. \A k \in 1..temps : FALSE
    BY <1>1
  <2> QED
    BY <1>1, <2>1, <2>2 DEF InfoInv, Answered
<1>9. ClaimsInv
  <2>1. TypeClaims = {}
    BY <1>1, NothingClaimed DEF TypeClaims
  <2> QED
    BY <1>1, <2>1, NothingClaimed DEF ClaimsInv
<1> QED
  BY <1>5, <1>6, <1>7, <1>8, <1>9 DEF SearchInv

LEMMA ClaimlessSearch ==
    ASSUME claims' = NoClaims
    PROVE  ClaimsInv'
<1>1. TypeClaims' = {}
  <2>1. /\ claims'.declared = {} /\ claims'.returned = {} /\ claims'.arithmetic = {}
        /\ claims'.condition = {}
    BY NothingClaimed
  <2> QED
    BY <2>1 DEF TypeClaims
<1>2. claims'.equality = {} /\ claims'.empty = FALSE
      /\ DOMAIN claims' = {"declared", "returned", "arithmetic", "condition", "equality",
                           "branches", "calls", "empty"}
  BY NothingClaimed
<1> QED
  BY <1>1, <1>2 DEF ClaimsInv

LEMMA IdentifySearch ==
    ASSUME IInv, SearchInv, stage = "identify", TypesInv',
           \A e \in {"NoInfo", "Conflict"} : e \in errors' => e \in errors,
           UNCHANGED <<unit, stage, concrete, variables, temps, edges, visits, asked,
                       results, claims>>
    PROVE  SearchInv'
<1>1. /\ TypesInv /\ InfoInv /\ ClaimsInv /\ ResultsInv /\ ErrorsInv
      /\ variables = {} /\ claims = NoClaims
  BY DEF SearchInv, TypesInv, ClaimsInv
<1>2. AliasInv'
  <2> SUFFICES ASSUME NEW id \in KnownIds', GetType(id)' # NoNode
               PROVE  \E t \in concrete' : /\ Leads(GetType(id)', Type(t), edges')
                                           /\ types'[t] = types'[id]
    BY DEF AliasInv, Means, NoNode, None
  <2>1. id \in concrete' /\ GetType(id)' = Type(id)
    BY <1>1 DEF GetType
  <2> QED
    BY <2>1, LeadsOn
<1>3. WalkInv'
  BY DEF WalkInv
<1>4. InfoInv'
  <2>1. \A n : Informed(n)' <=> Informed(n)
    BY DEF Informed
  <2> QED
    BY <1>1, <2>1 DEF InfoInv, Answered
<1>5. ClaimsInv'
  BY <1>1, ClaimlessSearch
<1>6. Nodes' = Nodes
  BY DEF Nodes
<1>7. ResultsInv'
  BY <1>1, EmptySeq DEF ResultsInv
<1>8. ErrorsInv'
  BY <1>1, <1>6 DEF ErrorsInv
<1> QED
  BY <1>2, <1>3, <1>4, <1>5, <1>7, <1>8 DEF SearchInv

LEMMA IdentifyUnknownSearch ==
    ASSUME IInv, SearchInv, IdentifyUnknown
    PROVE  SearchInv'
<1>1. /\ stage = "identify" /\ item' = item + 1
      /\ errors' = errors \cup {"UnknownType"}
      /\ UNCHANGED <<unit, stage, type_ids, names, types, concrete, variables, temps, edges,
                     visits, asked, results, claims>>
  BY DEF IdentifyUnknown, scope, graph
<1>2. KnownIds' = KnownIds /\ TypeIds' = TypeIds /\ Typedefs' = Typedefs
  BY <1>1 DEF KnownIds, Typedefs, TypeIds
<1>3. item \in Nat
  BY DEF IInv, TypeOK
<1>4. \A i \in 1..(item - 1) : i \in 1..((item + 1) - 1)
  BY <1>3
<1>5. TypesInv'
  <2>1. ASSUME NEW id \in DOMAIN types
        PROVE  id \in {PrimitiveId[n] : n \in Primitives}
                         \cup {ItemId(i) : i \in 1..((item + 1) - 1)}
    <3>1. id \in {PrimitiveId[n] : n \in Primitives} \cup {ItemId(i) : i \in 1..(item - 1)}
      BY <1>1, <2>1 DEF SearchInv, TypesInv
    <3> QED
      BY <1>4, <3>1
  <2>2. TypesInv
    BY DEF SearchInv
  <2> QED
    BY <1>1, <1>2, <2>1, <2>2 DEF TypesInv
<1> QED
  BY <1>1, <1>5, IdentifySearch

LEMMA ItemIdsDiffer ==
    /\ \A i, j : ItemId(i) = ItemId(j) => i = j
    /\ \A i : ItemId(i) \notin {PrimitiveId[n] : n \in Primitives}
    /\ \A i, j, p : ItemId(i) # ParamId(j, p)
    /\ \A i, p : ParamId(i, p) \notin {PrimitiveId[n] : n \in Primitives}
<1>1. \A n \in Primitives :
         PrimitiveId[n] = <<1>> \/ PrimitiveId[n] = <<2>> \/ PrimitiveId[n] = <<3>>
  BY DEF PrimitiveId, Primitives
<1> QED
  BY <1>1 DEF ItemId, ParamId

LEMMA ScopeFacts ==
    ASSUME IInv, SearchInv
    PROVE  /\ unit \in Seq(Item) /\ item \in Nat
           /\ \A i \in DOMAIN unit : i \in Nat
           /\ UnitId \in TypeIds /\ types[UnitId] = Named("()")
           /\ \A n \in DOMAIN names : names[n] \in TypeIds
           /\ type_ids \in [DOMAIN unit -> Seq(TypeIds)]
           /\ \A i \in DOMAIN unit : type_ids[i] # <<>> => Last(type_ids[i]) \in TypeIds
<1>1. /\ unit \in Seq(Item) /\ item \in Nat
      /\ \A n \in DOMAIN names : names[n] \in TypeIds
      /\ "()" \in DOMAIN names
      /\ type_ids \in [DOMAIN unit -> Seq(TypeIds)]
  BY DEF IInv, ScopeInv, TypeOK, TypeIds, Primitives
<1>2. names["()"] = UnitId /\ types[UnitId] = Named("()")
  BY DEF SearchInv, TypesInv
<1>3. ASSUME NEW i \in DOMAIN unit, type_ids[i] # <<>>
      PROVE  Last(type_ids[i]) \in TypeIds
  <2>1. type_ids[i] \in Seq(TypeIds)
    BY <1>1
  <2> QED
    BY <1>3, <2>1, FrontItems DEF Last
<1> QED
  BY <1>1, <1>2, <1>3, UnitItems

LEMMA IdentifyFnSearch ==
    ASSUME IInv, SearchInv, IdentifyFn
    PROVE  SearchInv'
<1> DEFINE of == [e \in DOMAIN TypeExprs |-> types[names[TypeExprs[e]]]]
           fn == Function(Front(of), Last(of))
           found == [e \in DOMAIN TypeExprs |-> names[TypeExprs[e]]]
<1>1. /\ stage = "identify" /\ item \in DOMAIN unit /\ unit[item].kind = "Fn"
      /\ types' = Put(types, ItemId(item), fn)
      /\ type_ids' = [type_ids EXCEPT ![item] = found]
      /\ item' = item + 1
      /\ UNCHANGED <<unit, stage, names, concrete, variables, temps, edges, visits, asked,
                     results, errors, claims>>
  BY DEF IdentifyFn, AtItem, IdentifyTypes, graph
<1> HIDE DEF fn, found
<1>2. PICK x : x = ItemId(item)
  OBVIOUS
<1>3. /\ DOMAIN types' = DOMAIN types \cup {x}
      /\ \A id \in DOMAIN types \ {x} : types'[id] = types[id]
  <2>1. types' = Put(types, x, fn)
    BY <1>1, <1>2
  <2> QED
    BY <2>1 DEF Put
<1>4. x \notin KnownIds
  BY <1>1, <1>2, ItemIdsDiffer DEF KnownIds, Typedefs
<1>5. KnownIds' = KnownIds /\ TypeIds' = TypeIds /\ Typedefs' = Typedefs
  BY <1>1, <1>3, <1>4 DEF KnownIds, Typedefs, TypeIds
<1>6. \A id \in TypeIds : types'[id] = types[id]
  BY <1>3, <1>4 DEF TypeIds
<1>7. TypesInv /\ item \in Nat
  BY ScopeFacts DEF SearchInv
<1>8. \A i \in Typedefs : type_ids'[i] = type_ids[i]
  BY <1>1, ScopeFacts DEF Typedefs
<1>9. TypesInv'
  <2>1. names'["()"] = UnitId /\ types'[UnitId] = Named("()")
    BY <1>1, <1>6, <1>7, ScopeFacts DEF TypesInv
  <2>2. \A id \in TypeIds' : types'[id] = Named("()") => id = UnitId
    BY <1>5, <1>6, <1>7 DEF TypesInv
  <2>3. ASSUME NEW id \in DOMAIN types'
        PROVE  id \in {PrimitiveId[n] : n \in Primitives}
                         \cup {ItemId(i) : i \in 1..((item + 1) - 1)}
    <3>1. CASE id = x
      <4>1. item \in 1..((item + 1) - 1)
        BY <1>1, <1>7, ScopeFacts, UnitItems
      <4> QED
        BY <1>2, <3>1, <4>1
    <3>2. CASE id \in DOMAIN types
      <4>1. id \in {PrimitiveId[n] : n \in Primitives} \cup {ItemId(i) : i \in 1..(item - 1)}
        BY <1>1, <1>7, <3>2 DEF TypesInv
      <4>2. \A i \in 1..(item - 1) : i \in 1..((item + 1) - 1)
        BY <1>7
      <4> QED
        BY <4>1, <4>2
    <3> QED
      BY <1>3, <3>1, <3>2
  <2>4. ASSUME NEW i \in Typedefs', type_ids'[i] # <<>>
        PROVE  ItemId(i) \in DOMAIN types' /\ types'[ItemId(i)] = types'[Last(type_ids'[i])]
    <3>1. /\ i \in Typedefs /\ type_ids'[i] = type_ids[i] /\ type_ids[i] # <<>>
      BY <1>5, <1>8, <2>4
    <3>2. /\ ItemId(i) \in DOMAIN types /\ types[ItemId(i)] = types[Last(type_ids[i])]
      BY <1>7, <3>1 DEF TypesInv
    <3>3. Last(type_ids[i]) \in TypeIds
      BY <3>1, ScopeFacts DEF Typedefs
    <3>4. ItemId(i) \in TypeIds
      BY <3>1, <3>2 DEF TypeIds, KnownIds
    <3> QED
      BY <1>3, <1>6, <3>1, <3>2, <3>3, <3>4
  <2> QED
    BY <1>1, <1>7, <2>1, <2>2, <2>3, <2>4 DEF TypesInv
<1> QED
  BY <1>1, <1>9, IdentifySearch

LEMMA IdentifyTypedefSearch ==
    ASSUME IInv, SearchInv, IdentifyTypedef
    PROVE  SearchInv'
<1> DEFINE name == unit[item].name
           type == unit[item].type
           of == names[type]
           found == [e \in DOMAIN TypeExprs |-> names[TypeExprs[e]]]
<1>1. /\ stage = "identify" /\ item \in DOMAIN unit /\ unit[item].kind = "Typedef"
      /\ TypesKnown
      /\ names' = Put(names, name, ItemId(item))
      /\ types' = Put(types, ItemId(item), types[of])
      /\ type_ids' = [type_ids EXCEPT ![item] = found]
      /\ item' = item + 1
      /\ errors' \in {errors, errors \cup {"Circular"}}
      /\ UNCHANGED <<unit, stage, concrete, variables, temps, edges, visits, asked,
                     results, claims>>
  BY DEF IdentifyTypedef, AtItem, IdentifyTypes, graph
<1>2. PICK x : x = ItemId(item)
  OBVIOUS
<1>3. /\ TypesInv /\ item \in Nat /\ unit \in Seq(Item)
  BY ScopeFacts DEF SearchInv
<1>4. name # "()" /\ type # "()"
  BY <1>1, <1>3, UnitItems DEF TextNames
<1>5. TypeExprs = <<type>>
  BY <1>1 DEF TypeExprs
<1>6. type \in DOMAIN names /\ found = <<of>>
  <2>1. DOMAIN TypeExprs = {1} /\ TypeExprs[1] = type
    BY <1>5
  <2>2. type \in DOMAIN names
    BY <1>1, <2>1 DEF TypesKnown
  <2>3. found = [e \in {1} |-> of]
    BY <2>1
  <2> HIDE DEF of
  <2>4. found = <<of>>
    BY <2>3
  <2> QED
    BY <2>2, <2>4
<1>7. PICK o : o = of
  OBVIOUS
<1>8. o \in TypeIds /\ o # UnitId
  <2>1. o \in TypeIds
    BY <1>6, <1>7, ScopeFacts
  <2>2. o # UnitId
    BY <1>3, <1>4, <1>6, <1>7 DEF TypesInv
  <2> QED
    BY <2>1, <2>2
<1> HIDE DEF of, found, name, type
<1>9. /\ DOMAIN types' = DOMAIN types \cup {x} /\ types'[x] = types[o]
      /\ \A id \in DOMAIN types \ {x} : types'[id] = types[id]
  <2>1. types' = Put(types, x, types[o])
    BY <1>1, <1>2, <1>7
  <2> QED
    BY <2>1 DEF Put
<1>10. x \notin DOMAIN types
  <2>1. x \notin {PrimitiveId[n] : n \in Primitives}
    BY <1>2, ItemIdsDiffer
  <2>2. \A i \in 1..(item - 1) : i # item
    BY <1>3
  <2>3. x \notin {ItemId(i) : i \in 1..(item - 1)}
    BY <1>2, <2>2, ItemIdsDiffer
  <2> QED
    BY <1>1, <1>3, <2>1, <2>3 DEF TypesInv
<1>11. \A id \in DOMAIN types : types'[id] = types[id] /\ id # x
  BY <1>9, <1>10
<1>12. KnownIds' = KnownIds /\ TypeIds' = TypeIds \cup {x} /\ Typedefs' = Typedefs
  <2>1. x \in KnownIds
    BY <1>1, <1>2 DEF KnownIds, Typedefs
  <2> QED
    BY <1>1, <1>9, <2>1 DEF KnownIds, Typedefs, TypeIds
<1>13. \A id \in TypeIds : types'[id] = types[id] /\ id # x /\ id \in DOMAIN types
  BY <1>11 DEF TypeIds
<1>14. /\ DOMAIN names' = DOMAIN names \cup {name} /\ names'[name] = x
       /\ \A n \in DOMAIN names \ {name} : names'[n] = names[n]
  <2>1. names' = Put(names, name, x)
    BY <1>1, <1>2
  <2> QED
    BY <2>1 DEF Put
<1>15. TypesInv'
  <2>1. names'["()"] = UnitId /\ types'[UnitId] = Named("()")
    <3>1. "()" \in DOMAIN names
      BY DEF IInv, ScopeInv, Primitives
    <3> QED
      BY <1>3, <1>4, <1>13, <1>14, <3>1, ScopeFacts DEF TypesInv
  <2>2. \A n \in DOMAIN names' : names'[n] = UnitId => n = "()"
    BY <1>3, <1>13, <1>14, ScopeFacts DEF TypesInv
  <2>3. \A id \in TypeIds' : types'[id] = Named("()") => id = UnitId
    BY <1>3, <1>8, <1>9, <1>12, <1>13 DEF TypesInv
  <2>4. ASSUME NEW id \in DOMAIN types'
        PROVE  id \in {PrimitiveId[n] : n \in Primitives}
                         \cup {ItemId(i) : i \in 1..((item + 1) - 1)}
    <3>1. CASE id = x
      <4>1. item \in 1..((item + 1) - 1)
        BY <1>1, <1>3, UnitItems
      <4> QED
        BY <1>2, <3>1, <4>1
    <3>2. CASE id \in DOMAIN types
      <4>1. id \in {PrimitiveId[n] : n \in Primitives} \cup {ItemId(i) : i \in 1..(item - 1)}
        BY <1>1, <1>3, <3>2 DEF TypesInv
      <4>2. \A i \in 1..(item - 1) : i \in 1..((item + 1) - 1)
        BY <1>3
      <4> QED
        BY <4>1, <4>2
    <3> QED
      BY <1>9, <3>1, <3>2
  <2>5. ASSUME NEW i \in Typedefs', type_ids'[i] # <<>>
        PROVE  ItemId(i) \in DOMAIN types' /\ types'[ItemId(i)] = types'[Last(type_ids'[i])]
    <3>1. CASE i = item
      <4>1. type_ids'[i] = <<o>>
        BY <1>1, <1>6, <1>7, <3>1, ScopeFacts
      <4>2. Last(type_ids'[i]) = o
        BY <4>1 DEF Last
      <4> QED
        BY <1>2, <1>8, <1>9, <1>13, <3>1, <4>2
    <3>2. CASE i # item
      <4>1. /\ i \in Typedefs /\ type_ids'[i] = type_ids[i] /\ type_ids[i] # <<>>
        BY <1>1, <1>12, <2>5, <3>2, ScopeFacts DEF Typedefs
      <4>2. /\ ItemId(i) \in DOMAIN types /\ types[ItemId(i)] = types[Last(type_ids[i])]
        BY <1>3, <4>1 DEF TypesInv
      <4>3. Last(type_ids[i]) \in TypeIds
        BY <4>1, ScopeFacts DEF Typedefs
      <4> QED
        BY <1>9, <1>11, <1>13, <4>1, <4>2, <4>3
    <3> QED
      BY <3>1, <3>2
  <2> QED
    BY <1>1, <1>3, <2>1, <2>2, <2>3, <2>4, <2>5 DEF TypesInv
<1>16. \A e \in {"NoInfo", "Conflict"} : e \in errors' => e \in errors
  BY <1>1
<1> QED
  BY <1>1, <1>15, <1>16, IdentifySearch

(* The stage, and the item, change between the functions.                    *)
LEMMA StageSearch ==
    ASSUME IInv, SearchInv, visits = <<>>,
           stage' \in {"items", "expressions", "concretify", "accepted", "rejected"},
           stage' = "items" => stage = "identify",
           stage' = "expressions" => stage = "items",
           stage' = "rejected" => errors # {},
           stage' = "accepted" => errors = {} /\ asked = <<>>,
           UNCHANGED <<unit, scope, concrete, variables, temps, edges, visits, fn_ret_type,
                       asked, results, errors, claims>>
    PROVE  SearchInv'
<1>1. TypesInv /\ AliasInv /\ InfoInv /\ ClaimsInv /\ ResultsInv /\ ErrorsInv
  BY DEF SearchInv
<1>2. type_ids' = type_ids /\ names' = names /\ types' = types /\ visits' = <<>>
  BY DEF scope
<1>3. /\ KnownIds' = KnownIds /\ TypeIds' = TypeIds /\ Typedefs' = Typedefs
      /\ Nodes' = Nodes /\ Answered' = Answered /\ TypeClaims' = TypeClaims
  BY <1>2 DEF KnownIds, Typedefs, TypeIds, Nodes, Answered, TypeClaims
<1>4. /\ \A id : GetType(id)' = GetType(id) /\ (Means(id)' <=> Means(id))
      /\ \A n : Informed(n)' <=> Informed(n)
  BY <1>2 DEF GetType, Means, Informed
<1>5. TypesInv'
  BY <1>1, <1>2, <1>3 DEF TypesInv
<1>6. AliasInv'
  BY <1>1, <1>3, <1>4 DEF AliasInv
<1>7. WalkInv'
  BY <1>2 DEF WalkInv
<1>8. InfoInv'
  BY <1>1, <1>3, <1>4 DEF InfoInv
<1>9. ClaimsInv'
  <2>1. \A p : Holds(p) => Holds(p)'
    BY <1>4 DEF Holds
  <2>2. UnitAndMore => UnitAndMore'
    BY <1>3, <1>4 DEF UnitAndMore
  <2>3. stage' \in {"identify", "items"} => claims' = NoClaims
    BY <1>1 DEF ClaimsInv
  <2> QED
    BY <1>1, <1>3, <2>1, <2>2, <2>3 DEF ClaimsInv
<1>10. ResultsInv'
  <2>1. \A b, t : FoundFor(b, t) => FoundFor(b, t)'
    BY DEF FoundFor
  <2>2. stage' \in {"identify", "items", "expressions"} => results' = <<>>
    BY <1>1 DEF ResultsInv
  <2> QED
    BY <1>1, <1>2, <2>1, <2>2 DEF ResultsInv
<1>11. ErrorsInv'
  BY <1>1, <1>3 DEF ErrorsInv
<1> QED
  BY <1>5, <1>6, <1>7, <1>8, <1>9, <1>10, <1>11 DEF SearchInv

LEMMA NextStageSearch ==
    ASSUME IInv, SearchInv, NextStage
    PROVE  SearchInv'
<1>1. /\ stage \in {"identify", "items", "expressions"} /\ visits = <<>>
      /\ stage' = IF errors # {} THEN "rejected"
                  ELSE CASE stage = "identify"    -> "items"
                         [] stage = "items"       -> "expressions"
                         [] stage = "expressions" -> "concretify"
      /\ UNCHANGED <<unit, scope, concrete, variables, temps, edges, visits, fn_ret_type,
                     asked, results, errors, claims>>
  BY DEF NextStage, graph
<1>2. \/ errors # {} /\ stage' = "rejected"
      \/ stage = "identify" /\ stage' = "items"
      \/ stage = "items" /\ stage' = "expressions"
      \/ stage = "expressions" /\ stage' = "concretify"
  BY <1>1
<1>3. /\ stage' \in {"items", "expressions", "concretify", "accepted", "rejected"}
      /\ stage' = "items" => stage = "identify"
      /\ stage' = "expressions" => stage = "items"
      /\ stage' = "rejected" => errors # {}
      /\ stage' = "accepted" => errors = {} /\ asked = <<>>
  BY <1>2
<1> QED
  BY <1>1, <1>3, StageSearch

LEMMA ConcretifyEndSearch ==
    ASSUME IInv, SearchInv, ConcretifyEnd
    PROVE  SearchInv'
<1>1. /\ stage = "concretify" /\ asked = <<>>
      /\ stage' = IF errors = {} THEN "accepted" ELSE "rejected"
      /\ UNCHANGED <<unit, scope, concrete, variables, temps, edges, visits, fn_ret_type,
                     asked, results, errors, claims>>
  BY DEF ConcretifyEnd, graph
<1>2. /\ stage' \in {"items", "expressions", "concretify", "accepted", "rejected"}
      /\ stage' = "items" => stage = "identify"
      /\ stage' = "expressions" => stage = "items"
      /\ stage' = "rejected" => errors # {}
      /\ stage' = "accepted" => errors = {} /\ asked = <<>>
  BY <1>1
<1>3. visits = <<>>
  BY <1>1 DEF SearchInv, TypesInv
<1> QED
  BY <1>1, <1>2, <1>3, StageSearch

LEMMA StutterSearch ==
    ASSUME IInv, SearchInv, UNCHANGED vars
    PROVE  SearchInv'
<1>1. UNCHANGED <<unit, stage, item, type_ids, names, types, concrete, variables, temps,
                  edges, visits, fn_ret_type, asked, results, errors, ids, claims>>
  BY DEF vars, scope, graph
<1>2. /\ KnownIds' = KnownIds /\ TypeIds' = TypeIds /\ Typedefs' = Typedefs
      /\ Nodes' = Nodes /\ Answered' = Answered /\ TypeClaims' = TypeClaims
      /\ RetType' = RetType /\ NeedRetValue' = NeedRetValue /\ Params' = Params
  BY <1>1 DEF KnownIds, Typedefs, TypeIds, Nodes, Answered, TypeClaims, RetType, NeedRetValue,
     Params
<1>3. /\ \A id : GetType(id)' = GetType(id) /\ (Means(id)' <=> Means(id))
      /\ \A n : Informed(n)' <=> Informed(n)
  BY <1>1 DEF GetType, Means, Informed
<1>4. TypesInv' /\ AliasInv'
  BY <1>1, <1>2, <1>3 DEF SearchInv, TypesInv, AliasInv
<1>5. WalkInv'
  <2>1. InformedNodes' = InformedNodes
    BY <1>2, <1>3 DEF InformedNodes
  <2>2. WalkInv /\ GetType(RetType)' = GetType(RetType)
    BY <1>1, <1>2 DEF SearchInv, GetType
  <2>3. \A p \in Params : Informed(Var(ParamId(item, p))) => Informed(Var(ParamId(item, p)))'
    BY <1>1 DEF Informed
  <2> QED
    BY <1>1, <1>2, <2>1, <2>2, <2>3 DEF WalkInv
<1>6. InfoInv'
  BY <1>1, <1>2, <1>3 DEF SearchInv, InfoInv
<1>7. ClaimsInv'
  <2>1. \A p : Holds(p) => Holds(p)'
    BY <1>1, <1>2, <1>3 DEF Holds
  <2>2. UnitAndMore => UnitAndMore'
    BY <1>1, <1>2, <1>3 DEF UnitAndMore
  <2> QED
    BY <1>1, <1>2, <2>1, <2>2 DEF SearchInv, ClaimsInv
<1>8. ResultsInv'
  <2>1. \A b, t : FoundFor(b, t) => FoundFor(b, t)'
    BY <1>1 DEF FoundFor
  <2> QED
    BY <1>1, <2>1 DEF SearchInv, ResultsInv
<1>9. ErrorsInv'
  BY <1>1, <1>2 DEF SearchInv, ErrorsInv
<1> QED
  BY <1>4, <1>5, <1>6, <1>7, <1>8, <1>9 DEF SearchInv

(* An item gets into the graph. *)
LEMMA ItemSearch ==
    ASSUME IInv, SearchInv, stage = "items", visits = <<>>,
           concrete \subseteq concrete', variables \subseteq variables', edges \subseteq edges',
           IsFiniteSet(concrete'), IsFiniteSet(variables'),
           \A id \in KnownIds \cap variables' :
              \/ id \in variables \cup concrete'
              \/ \E t \in concrete' : Leads(Var(id), Type(t), edges') /\ types[t] = types[id],
           \A i \in DOMAIN unit :
              ItemId(i) \in variables' => ItemId(i) \in variables \/ Informed(Var(ItemId(i)))',
           UNCHANGED <<unit, stage, scope, temps, visits, asked, results, errors, claims>>
    PROVE  SearchInv'
<1>1. TypesInv /\ AliasInv /\ InfoInv /\ ClaimsInv /\ ResultsInv /\ ErrorsInv
  BY DEF SearchInv
<1>2. type_ids' = type_ids /\ names' = names /\ types' = types /\ visits' = <<>>
  BY DEF scope
<1>3. KnownIds' = KnownIds /\ TypeIds' = TypeIds /\ Typedefs' = Typedefs
  BY <1>2 DEF KnownIds, Typedefs, TypeIds
<1>4. \A a, b : Leads(a, b, edges) => Leads(a, b, edges')
  BY LeadsMore
<1>5. TypesInv'
  BY <1>1, <1>2, <1>3 DEF TypesInv
<1>6. AliasInv'
  <2> SUFFICES ASSUME NEW id \in KnownIds, GetType(id)' # NoNode
               PROVE  \E t \in concrete' : /\ Leads(GetType(id)', Type(t), edges')
                                           /\ types[t] = types[id]
    BY <1>2, <1>3 DEF AliasInv, Means, NoNode, None
  <2>1. CASE id \in concrete'
    <3>1. GetType(id)' = Type(id)
      BY <2>1 DEF GetType
    <3> QED
      BY <2>1, <3>1, LeadsOn
  <2>2. CASE id \notin concrete' /\ id \in variables
    <3>1. GetType(id)' = Var(id) /\ GetType(id) = Var(id)
      BY <2>2 DEF GetType
    <3>2. PICK t \in concrete : Leads(Var(id), Type(t), edges) /\ types[t] = types[id]
      BY <1>1, <3>1 DEF AliasInv, Means, Var, NoNode
    <3> QED
      BY <1>4, <3>1, <3>2
  <2>3. CASE id \notin concrete' /\ id \notin variables
    <3>1. id \in variables' /\ GetType(id)' = Var(id)
      BY <2>3 DEF GetType
    <3> QED
      BY <2>3, <3>1
  <2> QED
    BY <2>1, <2>2, <2>3
<1>7. WalkInv'
  BY DEF WalkInv
<1>8. InfoInv'
  <2>1. \A n : Informed(n) => Informed(n)'
    BY <1>4 DEF Informed
  <2>2. \A i \in DOMAIN unit' : ItemId(i) \in variables' => Informed(Var(ItemId(i)))'
    BY <1>1, <2>1 DEF InfoInv
  <2>3. \A k \in 1..temps' : Informed(Temp(k))'
    BY <1>1, <2>1 DEF InfoInv
  <2>4. \A id \in Answered' : Informed(Var(id))' \/ id \in Awaited(visits')
    BY <1>1, <2>1 DEF InfoInv, Answered
  <2> QED
    BY <2>2, <2>3, <2>4 DEF InfoInv
<1>9. ClaimsInv'
  BY <1>1, ClaimlessSearch DEF ClaimsInv
<1>10. ResultsInv'
  BY <1>1, EmptySeq DEF ResultsInv
<1>11. ErrorsInv'
  BY <1>1 DEF ErrorsInv, IInv, ScopeInv
<1> QED
  BY <1>5, <1>6, <1>7, <1>8, <1>9, <1>10, <1>11 DEF SearchInv

LEMMA MissingFinite ==
    ASSUME NEW S, IsFiniteSet(S)
    PROVE  IsFiniteSet(Missing(S))
<1>1. Missing(S) \subseteq S
  BY DEF Missing
<1> QED
  BY <1>1, FS_Subset

LEMMA ItemFnSearch ==
    ASSUME IInv, SearchInv, ItemFn
    PROVE  SearchInv'
<1> DEFINE S == {ParamType(p) : p \in Params}
           ps == {ParamId(item, p) : p \in Params}
<1>1. /\ stage = "items" /\ visits = <<>> /\ item \in DOMAIN unit /\ unit[item].kind = "Fn"
      /\ concrete' = concrete \cup {ItemId(item)} \cup Missing(S)
      /\ variables' = variables \cup ps
      /\ edges' = edges \cup ParamEdges
      /\ UNCHANGED <<unit, stage, scope, temps, visits, asked, results, errors, claims>>
  BY DEF ItemFn, AtItem
<1>2. IsFiniteSet(concrete) /\ IsFiniteSet(variables)
  BY DEF SearchInv, TypesInv
<1>3. IsFiniteSet(S) /\ IsFiniteSet(ps)
  <2>1. unit[item].params \in Seq(TypeNames)
    BY <1>1, ScopeFacts, UnitItems
  <2>2. Params = 1..Len(unit[item].params) /\ Len(unit[item].params) \in Nat
    BY <2>1, LenProperties DEF Params
  <2>3. IsFiniteSet(Params)
    BY <2>2, FS_Interval
  <2> DEFINE f == [p \in Params |-> ParamType(p)]
             g == [p \in Params |-> ParamId(item, p)]
  <2>4. f \in [Params -> S] /\ g \in [Params -> ps]
    OBVIOUS
  <2>5. {f[p] : p \in Params} = S /\ {g[p] : p \in Params} = ps
    OBVIOUS
  <2> HIDE DEF f, g, S, ps
  <2>6. IsFiniteSet({f[p] : p \in Params}) /\ IsFiniteSet({g[p] : p \in Params})
    BY <2>3, <2>4, ImageFinite
  <2> QED
    BY <2>5, <2>6
<1>4. \A id \in ps : id \notin KnownIds /\ \A i : id # ItemId(i)
  <2> SUFFICES ASSUME NEW p \in Params
               PROVE  ParamId(item, p) \notin KnownIds /\ \A i : ParamId(item, p) # ItemId(i)
    OBVIOUS
  <2> QED
    BY ItemIdsDiffer DEF KnownIds
<1> HIDE DEF S, ps
<1>5. IsFiniteSet(concrete') /\ IsFiniteSet(variables')
  <2>1. IsFiniteSet(Missing(S))
    BY <1>3, MissingFinite
  <2>2. IsFiniteSet(concrete \cup {ItemId(item)})
    BY <1>2, FS_AddElement
  <2> QED
    BY <1>1, <1>2, <1>3, <2>1, <2>2, FS_Union
<1>6. \A id \in KnownIds \cap variables' : id \in variables
  BY <1>1, <1>4
<1>7. \A i \in DOMAIN unit : ItemId(i) \in variables' => ItemId(i) \in variables
  BY <1>1, <1>4
<1>8. concrete \subseteq concrete' /\ variables \subseteq variables' /\ edges \subseteq edges'
  BY <1>1
<1> QED
  BY <1>1, <1>5, <1>6, <1>7, <1>8, ItemSearch

LEMMA ItemTypedefSearch ==
    ASSUME IInv, SearchInv, ItemTypedef
    PROVE  SearchInv'
<1>1. /\ stage = "items" /\ visits = <<>> /\ item \in DOMAIN unit /\ unit[item].kind = "Typedef"
      /\ concrete' = concrete \cup Missing({RetType})
      /\ variables' = variables \cup {ItemId(item)}
      /\ edges' = edges \cup {<<Var(ItemId(item)), AddedType(RetType)>>}
      /\ UNCHANGED <<unit, stage, scope, temps, visits, asked, results, errors, claims>>
  BY DEF ItemTypedef, AtItem
<1>2. PICK x, r : x = ItemId(item) /\ r = RetType
  OBVIOUS
<1>3. r \in KnownIds /\ types[x] = types[r]
  <2>1. Identified(item) /\ RetType \in TypeIds
    BY <1>1, ItemTypeIds
  <2>2. item \in Typedefs /\ type_ids[item] # <<>>
    BY <1>1, <2>1 DEF Typedefs, Identified
  <2>3. types[ItemId(item)] = types[Last(type_ids[item])]
    BY <2>2 DEF SearchInv, TypesInv
  <2> QED
    BY <1>2, <2>1, <2>3 DEF RetType, TypeIds
<1>4. IsFiniteSet(concrete') /\ IsFiniteSet(variables')
  <2>1. IsFiniteSet(concrete) /\ IsFiniteSet(variables)
    BY DEF SearchInv, TypesInv
  <2>2. IsFiniteSet({RetType})
    BY FS_Singleton
  <2>3. IsFiniteSet(Missing({RetType}))
    BY <2>2, MissingFinite
  <2>4. IsFiniteSet(concrete \cup Missing({RetType}))
    BY <2>1, <2>3, FS_Union
  <2>5. IsFiniteSet(variables \cup {ItemId(item)})
    BY <2>1, FS_AddElement
  <2> QED
    BY <1>1, <2>4, <2>5
<1>5. concrete \subseteq concrete' /\ variables \subseteq variables' /\ edges \subseteq edges'
  BY <1>1
<1>6. PICK t \in concrete' : Leads(Var(x), Type(t), edges') /\ types[t] = types[x]
  <2>1. <<Var(x), AddedType(r)>> \in edges'
    BY <1>1, <1>2
  <2>2. CASE GetType(r) = NoNode
    <3>1. r \in concrete' /\ AddedType(r) = Type(r)
      BY <1>1, <1>2, <2>2 DEF Missing, AddedType
    <3>2. Leads(Var(x), Type(r), edges')
      BY <2>1, <3>1, LeadsOn
    <3> QED
      BY <1>3, <3>1, <3>2
  <2>3. CASE GetType(r) # NoNode
    <3>1. PICK t \in concrete : Leads(GetType(r), Type(t), edges) /\ types[t] = types[r]
      BY <1>3, <2>3 DEF SearchInv, AliasInv, Means
    <3>2. AddedType(r) = GetType(r)
      BY <2>3 DEF AddedType
    <3>3. Leads(GetType(r), Type(t), edges')
      BY <1>5, <3>1, LeadsMore
    <3>4. Leads(Var(x), Type(t), edges')
      BY <2>1, <3>2, <3>3, LeadsOn
    <3> QED
      BY <1>3, <1>5, <3>1, <3>4
  <2> QED
    BY <2>2, <2>3
<1>7. \A id \in variables' : id \in variables \/ id = x
  BY <1>1, <1>2
<1>8. Informed(Var(x))'
  BY <1>6 DEF Informed
<1>9. \A i \in DOMAIN unit :
         ItemId(i) \in variables' => ItemId(i) \in variables \/ Informed(Var(ItemId(i)))'
  BY <1>7, <1>8
<1>10. \A id \in KnownIds \cap variables' :
          \/ id \in variables \cup concrete'
          \/ \E s \in concrete' : Leads(Var(id), Type(s), edges') /\ types[s] = types[id]
  BY <1>6, <1>7
<1> QED
  BY <1>1, <1>4, <1>5, <1>9, <1>10, ItemSearch

-----------------------------------------------------------------------------
(* TypeConcretifier. *)

LEMMA NodesFinite ==
    ASSUME IInv, SearchInv
    PROVE  IsFiniteSet(Nodes)
<1> DEFINE f == [id \in concrete |-> Type(id)]
           g == [id \in variables |-> Var(id)]
           T == 1..temps
           h == [n \in T |-> Temp(n)]
           F == {Type(id) : id \in concrete}
           G == {Var(id) : id \in variables}
           H == {Temp(n) : n \in T}
<1>1. IsFiniteSet(concrete) /\ IsFiniteSet(variables) /\ temps \in Nat
  BY DEF SearchInv, TypesInv, IInv, TypeOK
<1>2. IsFiniteSet(T)
  BY <1>1, FS_Interval
<1>3. f \in [concrete -> F] /\ g \in [variables -> G] /\ h \in [T -> H]
  OBVIOUS
<1>4. /\ {f[id] : id \in concrete} = F
      /\ {g[id] : id \in variables} = G
      /\ {h[n] : n \in T} = H
  OBVIOUS
<1>5. Nodes = F \cup G \cup H
  BY DEF Nodes
<1> HIDE DEF T, f, g, h, F, G, H
<1>6. IsFiniteSet(F) /\ IsFiniteSet(G) /\ IsFiniteSet(H)
  <2>1. IsFiniteSet({f[id] : id \in concrete})
    BY <1>1, <1>3, ImageFinite
  <2>2. IsFiniteSet({g[id] : id \in variables})
    BY <1>1, <1>3, ImageFinite
  <2>3. IsFiniteSet({h[n] : n \in T})
    BY <1>2, <1>3, ImageFinite
  <2> QED
    BY <1>4, <2>1, <2>2, <2>3
<1>7. IsFiniteSet(F \cup G)
  BY <1>6, FS_Union
<1>8. IsFiniteSet(F \cup G \cup H)
  BY <1>6, <1>7, FS_Union
<1> QED
  BY <1>5, <1>8

(* The search over E finds what a path leads to. *)
LEMMA ReachedLeads ==
    ASSUME IInv, SearchInv, NEW E \in SUBSET (Nodes \X Nodes), NEW a \in Nodes, NEW b \in Nodes
    PROVE  b \in Reached({a}, E) <=> Leads(a, b, E)
<1>1. IsFiniteSet(Nodes)
  BY NodesFinite
<1>2. PICK f : Searches(f, Nodes, E) /\ \A S : Reached(S, E) = f[S]
  BY <1>1, ReachedSearches
<1>3. b \in f[{a}] <=> Leads(a, b, E)
  BY <1>1, <1>2, SearchEnds
<1> QED
  BY <1>2, <1>3

LEMMA FoundLeads ==
    ASSUME IInv, SearchInv, NEW id \in variables
    PROVE  /\ \A t : t \in Found(id) <=> t \in concrete /\ Leads(Var(id), Type(t), edges)
           /\ IsFiniteSet(Found(id))
<1>1. edges \in SUBSET (Nodes \X Nodes) /\ IsFiniteSet(concrete)
  BY DEF IInv, TypeOK, SearchInv, TypesInv
<1>2. Var(id) \in Nodes /\ \A t \in concrete : Type(t) \in Nodes
  BY DEF Nodes
<1>3. \A t \in concrete : Type(t) \in Reached({Var(id)}, edges)
                             <=> Leads(Var(id), Type(t), edges)
  BY <1>1, <1>2, ReachedLeads
<1>4. \A t : t \in Found(id) <=> t \in concrete /\ Leads(Var(id), Type(t), edges)
  BY <1>3 DEF Found
<1>5. Found(id) \subseteq concrete
  BY <1>4
<1>6. IsFiniteSet(Found(id))
  BY <1>1, <1>5, FS_Subset
<1> QED
  BY <1>4, <1>6

LEMMA HeadAndTail ==
    ASSUME NEW s \in Seq(Seq(Nat)), s # <<>>
    PROVE  ToSet(s) = {Head(s)} \cup ToSet(Tail(s))
<1> DEFINE n == Len(s)
           t == Tail(s)
<1>1. /\ t \in Seq(Seq(Nat)) /\ n \in Nat \ {0} /\ Len(t) = n - 1
      /\ \A i \in 1..Len(t) : t[i] = s[i + 1]
      /\ Head(s) = s[1]
  BY HeadTailProperties, LenProperties, EmptySeq
<1>2. DOMAIN s = 1..n /\ DOMAIN t = 1..(n - 1)
  BY <1>1, LenProperties
<1> HIDE DEF n, t
<1>3. ASSUME NEW x \in ToSet(s) PROVE x = Head(s) \/ x \in ToSet(t)
  <2>1. PICK i \in 1..n : x = s[i]
    BY <1>2 DEF ToSet
  <2>2. CASE i = 1
    BY <1>1, <2>1, <2>2
  <2>3. CASE i # 1
    <3>1. i - 1 \in 1..(n - 1) /\ (i - 1) + 1 = i
      BY <1>1, <2>3
    <3>2. t[i - 1] = x
      BY <1>1, <2>1, <3>1
    <3> QED
      BY <1>2, <3>1, <3>2 DEF ToSet
  <2> QED
    BY <2>2, <2>3
<1>4. Head(s) \in ToSet(s)
  <2>1. 1 \in 1..n
    BY <1>1
  <2> QED
    BY <1>1, <1>2, <2>1 DEF ToSet
<1>5. ToSet(t) \subseteq ToSet(s)
  BY NextAsked DEF t
<1> QED
  BY <1>3, <1>4, <1>5 DEF t

LEMMA InferSearch ==
    ASSUME IInv, SearchInv, NEW id, Infer(id), stage' = stage,
           \A a, b : Leads(a, b, edges') <=> Leads(a, b, edges),
           Answered' \subseteq Answered,
           errors' = {} => errors = {} /\ Answered \subseteq Answered',
           ResultsInv', ErrorsInv'
    PROVE  SearchInv'
<1>1. TypesInv /\ AliasInv /\ InfoInv /\ ClaimsInv /\ visits = <<>> /\ stage = "concretify"
  BY DEF SearchInv, TypesInv, Infer
<1>2. UNCHANGED <<unit, item, type_ids, names, types, concrete, variables, temps, visits,
                  fn_ret_type, claims>>
  BY DEF Infer, scope
<1>3. /\ KnownIds' = KnownIds /\ TypeIds' = TypeIds /\ Typedefs' = Typedefs
      /\ TypeClaims' = TypeClaims
  BY <1>2 DEF KnownIds, Typedefs, TypeIds, TypeClaims
<1>4. /\ \A x : GetType(x)' = GetType(x) /\ (Means(x)' <=> Means(x))
      /\ \A n : Informed(n)' <=> Informed(n)
  <2>1. \A x : GetType(x)' = GetType(x)
    BY <1>2 DEF GetType
  <2>2. \A x : Means(x)' <=> Means(x)
    BY <1>2, <2>1 DEF Means
  <2>3. \A n : Informed(n)' <=> Informed(n)
    BY <1>2 DEF Informed
  <2> QED
    BY <2>1, <2>2, <2>3
<1>5. TypesInv'
  BY <1>1, <1>2, <1>3 DEF TypesInv
<1>6. AliasInv'
  BY <1>1, <1>3, <1>4 DEF AliasInv
<1>7. WalkInv'
  BY <1>1, <1>2 DEF WalkInv
<1>8. InfoInv'
  BY <1>1, <1>2, <1>4 DEF InfoInv
<1>9. ClaimsInv'
  <2>1. \A p : Holds(p) => Holds(p)'
    BY <1>1, <1>4 DEF Holds
  <2>2. errors' = {} => Answered' = Answered
    OBVIOUS
  <2>3. errors' = {} /\ UnitAndMore => UnitAndMore'
    BY <1>1, <1>3, <1>4, <2>2 DEF UnitAndMore
  <2>4. stage' \notin {"identify", "items"}
    BY <1>1
  <2>5. ASSUME errors' = {}
        PROVE  \A p \in TypeClaims' : IsOf(p[1], Answered') /\ p[2] \in KnownIds' /\ Holds(p)'
    BY <1>1, <1>3, <2>1, <2>2, <2>5 DEF ClaimsInv
  <2>6. ASSUME errors' = {}
        PROVE  \A e \in claims'.equality :
                  IsOf(e[1], Answered') /\ IsOf(e[2], Answered') /\ Leads(e[2], e[1], edges')
    BY <1>1, <1>2, <2>2, <2>6 DEF ClaimsInv
  <2>7. errors' = {} => (claims'.empty => UnitAndMore')
    BY <1>1, <1>2, <2>3 DEF ClaimsInv
  <2>8. DOMAIN claims' = {"declared", "returned", "arithmetic", "condition", "equality",
                          "branches", "calls", "empty"}
    BY <1>1, <1>2 DEF ClaimsInv
  <2> QED
    BY <2>4, <2>5, <2>6, <2>7, <2>8 DEF ClaimsInv
<1> QED
  BY <1>5, <1>6, <1>7, <1>8, <1>9 DEF SearchInv

LEMMA InferStays ==
    ASSUME IInv, SearchInv, NEW id, Infer(id)
    PROVE  /\ asked # <<>> /\ asked \in Seq(Seq(Nat)) /\ id \in ToSet(asked)
           /\ ToSet(asked) = {id} \cup ToSet(asked')
           /\ id \in variables /\ stage = "concretify" /\ visits = <<>>
           /\ Nodes' = Nodes
           /\ UNCHANGED <<types, concrete, variables, claims, visits>>
<1>1. /\ stage = "concretify" /\ asked # <<>> /\ id = Head(asked) /\ asked' = Tail(asked)
      /\ UNCHANGED <<types, concrete, variables, temps, claims, visits>>
  BY DEF Infer, scope
<1>2. asked \in Seq(Seq(Nat)) /\ visits = <<>>
  BY <1>1 DEF IInv, TypeOK, SearchInv, TypesInv
<1>3. ToSet(asked) = {id} \cup ToSet(asked')
  BY <1>1, <1>2, HeadAndTail
<1>4. id \in variables
  BY <1>1, <1>3 DEF IInv, AskedInv
<1>5. Nodes' = Nodes
  BY <1>1 DEF Nodes
<1> QED
  BY <1>1, <1>2, <1>3, <1>4, <1>5

LEMMA InferKnownSearch ==
    ASSUME IInv, SearchInv, NEW id, InferKnown(id)
    PROVE  SearchInv'
<1>1. Infer(id) /\ id \in DOMAIN results /\ UNCHANGED <<stage, edges, results, errors>>
  BY DEF InferKnown
<1>2. /\ ToSet(asked) = {id} \cup ToSet(asked') /\ Nodes' = Nodes /\ stage = "concretify"
      /\ UNCHANGED <<types, concrete, claims>>
  BY <1>1, InferStays
<1>3. Answered' = Answered
  BY <1>1, <1>2 DEF Answered
<1>4. ResultsInv'
  <2>1. \A b, t : FoundFor(b, t)' <=> FoundFor(b, t)
    BY <1>1, <1>2 DEF FoundFor
  <2> QED
    BY <1>1, <1>2, <2>1 DEF SearchInv, ResultsInv
<1>5. ErrorsInv'
  BY <1>1, <1>2 DEF SearchInv, ErrorsInv
<1> QED
  BY <1>1, <1>3, <1>4, <1>5, InferSearch

LEMMA InferOneSearch ==
    ASSUME IInv, SearchInv, NEW id, InferOne(id)
    PROVE  SearchInv'
<1>1. PICK t \in Found(id) : /\ Found(id) = {t}
                             /\ results' = Put(results, id, types[t])
                             /\ edges' = edges \cup {<<Var(id), Type(t)>>}
  BY DEF InferOne, Draw
<1>2. Infer(id) /\ UNCHANGED <<stage, errors>>
  BY DEF InferOne
<1>3. /\ ToSet(asked) = {id} \cup ToSet(asked') /\ Nodes' = Nodes /\ stage = "concretify"
      /\ id \in variables /\ UNCHANGED <<types, concrete, claims>>
  BY <1>2, InferStays
<1>4. \A s : s \in {t} <=> s \in concrete /\ Leads(Var(id), Type(s), edges)
  BY <1>1, <1>3, FoundLeads
<1>5. FoundFor(id, t) /\ t \in concrete
  BY <1>4 DEF FoundFor
<1>6. \A a, b : Leads(a, b, edges') <=> Leads(a, b, edges)
  BY <1>1, <1>4, LeadsSame
<1>7. /\ DOMAIN results' = DOMAIN results \cup {id} /\ results'[id] = types[t]
      /\ \A b \in DOMAIN results \ {id} : results'[b] = results[b]
  BY <1>1 DEF Put
<1>8. Answered' = Answered
  BY <1>3, <1>7 DEF Answered
<1>9. ResultsInv'
  <2>1. \A b, s : FoundFor(b, s)' <=> FoundFor(b, s)
    BY <1>3, <1>6 DEF FoundFor
  <2>2. ASSUME NEW b \in DOMAIN results'
        PROVE  \E s \in concrete : FoundFor(b, s) /\ results'[b] = types[s]
    <3>1. CASE b = id
      BY <1>5, <1>7, <3>1
    <3>2. CASE b # id
      BY <1>7, <2>2, <3>2 DEF SearchInv, ResultsInv
    <3> QED
      BY <3>1, <3>2
  <2>3. stage' = "concretify"
    BY <1>2, <1>3
  <2> QED
    BY <1>3, <2>1, <2>2, <2>3 DEF ResultsInv
<1>10. ErrorsInv'
  BY <1>2, <1>3, <1>6 DEF SearchInv, ErrorsInv
<1> QED
  BY <1>2, <1>6, <1>8, <1>9, <1>10, InferSearch

LEMMA InferNotSearch ==
    ASSUME IInv, SearchInv, NEW id, InferNot(id)
    PROVE  SearchInv'
<1>1. /\ Infer(id) /\ Cardinality(Found(id)) # 1 /\ UNCHANGED <<edges, results>>
  BY DEF InferNot
<1>2. /\ ToSet(asked) = {id} \cup ToSet(asked') /\ Nodes' = Nodes /\ stage = "concretify"
      /\ id \in variables /\ visits = <<>> /\ UNCHANGED <<types, concrete, claims>>
  BY <1>1, InferStays
<1>3. /\ stage' = stage
      /\ errors' = errors \cup {IF Found(id) = {} THEN "NoInfo" ELSE "Conflict"}
  BY <1>2 DEF InferNot
<1>4. \A t : t \in Found(id) <=> t \in concrete /\ Leads(Var(id), Type(t), edges)
  BY <1>2, FoundLeads
<1>5. Answered' \subseteq Answered
  BY <1>1, <1>2 DEF Answered
<1>6. ResultsInv'
  <2>1. \A b, t : FoundFor(b, t)' <=> FoundFor(b, t)
    BY <1>1, <1>2 DEF FoundFor
  <2> QED
    BY <1>1, <1>2, <1>3, <2>1 DEF SearchInv, ResultsInv
<1>7. Found(id) = {} => claims.calls # {}
  <2>1. id \in Answered
    BY <1>2 DEF Answered
  <2>2. Awaited(visits) = {}
    BY <1>2, NothingAwaited
  <2>3. Informed(Var(id))
    BY <2>1, <2>2 DEF SearchInv, InfoInv
  <2> QED
    BY <1>4, <2>3 DEF Informed
<1>8. Found(id) # {} =>
          \E s, t \in concrete :
             s # t /\ \E n \in Nodes : Leads(n, Type(s), edges) /\ Leads(n, Type(t), edges)
  <2> SUFFICES ASSUME Found(id) # {}
               PROVE  \E s, t \in concrete :
                         s # t /\ \E n \in Nodes : /\ Leads(n, Type(s), edges)
                                                   /\ Leads(n, Type(t), edges)
    OBVIOUS
  <2>1. PICK s : s \in Found(id)
    OBVIOUS
  <2>2. Found(id) # {s}
    BY <1>1, FS_Singleton
  <2>3. PICK t \in Found(id) : t # s
    BY <2>1, <2>2
  <2>4. Var(id) \in Nodes
    BY <1>2 DEF Nodes
  <2> QED
    BY <1>4, <2>1, <2>3, <2>4
<1>9. ErrorsInv'
  <2>1. "NoInfo" \in errors' => claims'.calls # {}
    BY <1>2, <1>3, <1>7 DEF SearchInv, ErrorsInv
  <2>2. "Conflict" \in errors' =>
           \E s, t \in concrete' :
              s # t /\ \E n \in Nodes' : Leads(n, Type(s), edges') /\ Leads(n, Type(t), edges')
    BY <1>1, <1>2, <1>3, <1>8 DEF SearchInv, ErrorsInv
  <2>3. stage' # "rejected" /\ stage' # "accepted"
    BY <1>2, <1>3
  <2> QED
    BY <2>1, <2>2, <2>3 DEF ErrorsInv
<1>10. errors' # {}
  BY <1>3
<1> QED
  BY <1>1, <1>3, <1>5, <1>6, <1>9, <1>10, InferSearch

-----------------------------------------------------------------------------
LEMMA SearchNext == IInv /\ SearchInv /\ [Next]_vars => SearchInv'
<1> SUFFICES ASSUME IInv, SearchInv, [Next]_vars
             PROVE  SearchInv'
  OBVIOUS
<1>1. CASE IdentifyUnknown \/ IdentifyFn \/ IdentifyTypedef \/ NextStage \/ ItemFn \/ ItemTypedef
  BY <1>1, IdentifyUnknownSearch, IdentifyFnSearch, IdentifyTypedefSearch, NextStageSearch,
     ItemFnSearch, ItemTypedefSearch
<1>2. CASE FnBegin \/ FnEnd \/ SkipTypedef
  BY <1>2, FnBeginSearch, FnEndSearch, SkipTypedefSearch
<1>3. CASE \E name \in {"bool", "float"} : Literal(name)
  BY <1>3, LiteralSearch
<1>4. ASSUME NEW id \in Visible, VarRef(id)
      PROVE  SearchInv'
  BY <1>4, VarRefSearch, VarRefPanicSearch
<1>5. ASSUME NEW id \in Visible, NEW args \in 0..MaxArgs, Call(id, args)
      PROVE  SearchInv'
  BY <1>5, CallSearch
<1>6. CASE \/ Operation("if_expr", 3) \/ Operation("unary", 1)
           \/ \E node \in {"equality", "comparison", "arithmetic"} : Operation(node, 2)
  <2>1. /\ Arity["if_expr"] = 3 /\ Arity["unary"] = 1
        /\ \A node \in {"equality", "comparison", "arithmetic"} : Arity[node] = 2
    BY DEF Arity
  <2>2. \A node \in {"if_expr", "unary", "equality", "comparison", "arithmetic"} :
           Operation(node, Arity[node]) => SearchInv'
    BY OperationSearch
  <2> QED
    BY <1>6, <2>1, <2>2
<1>7. CASE \E node \in {"equality", "comparison", "arithmetic"} : BinaryEnd(node)
  BY <1>7, BinaryEndSearch
<1>8. CASE IfExprEnd \/ UnaryEnd \/ CallEnd
  BY <1>8, IfExprEndSearch, UnaryEndSearch, CallEndSearch
<1>9. ASSUME NEW last \in BOOLEAN, \E type \in DeclaredTypes \cup {None} : LetBegin(last, type)
      PROVE  SearchInv'
  BY <1>9, LetBeginSearch
<1>10. ASSUME NEW last \in BOOLEAN,
              ReturnBegin(last) \/ ReturnEmpty(last) \/ ExprBegin(last) \/ DoBlock(last)
       PROVE  SearchInv'
  BY <1>10, ReturnBeginSearch, ReturnEmptySearch, ExprBeginSearch, DoBlockSearch
<1>11. ASSUME NEW last \in BOOLEAN, NEW branches \in 1..MaxBranches, NEW else \in BOOLEAN,
              IfBegin(last, branches, else)
       PROVE  SearchInv'
  BY <1>11, IfBeginSearch
<1>12. CASE IfBlock \/ EmptyBlock \/ BlockEnd
  BY <1>12, IfBlockSearch, EmptyBlockSearch, BlockEndSearch
<1>13. CASE LetEnd \/ ReturnEnd \/ ExprStmtEnd \/ IfEnd
  BY <1>13, LetEndSearch, ReturnEndSearch, ExprStmtEndSearch, IfEndSearch
<1>14. ASSUME NEW id \in ToSet(asked), InferKnown(id) \/ InferOne(id) \/ InferNot(id)
       PROVE  SearchInv'
  BY <1>14, InferKnownSearch, InferOneSearch, InferNotSearch
<1>15. CASE ConcretifyEnd
  BY <1>15, ConcretifyEndSearch
<1>16. CASE Done \/ UNCHANGED vars
  BY <1>16, StutterSearch DEF Done
<1> QED
  BY <1>1, <1>2, <1>3, <1>4, <1>5, <1>6, <1>7, <1>8, <1>9, <1>10, <1>11, <1>12, <1>13,
     <1>14, <1>15, <1>16 DEF Next

LEMMA SearchInvariance == Spec => [](IInv /\ SearchInv)
<1>1. Init => IInv /\ SearchInv
  BY InitInv, InitSearch
<1>2. IInv /\ SearchInv /\ [Next]_vars => (IInv /\ SearchInv)'
  BY NextInv, SearchNext
<1> QED
  BY <1>1, <1>2, PTL DEF Spec

-----------------------------------------------------------------------------
(* What an accepted unit, or a rejected one, is like. *)

LEMMA Accepted ==
    ASSUME IInv, SearchInv, stage = "accepted"
    PROVE  /\ errors = {} /\ visits = <<>> /\ Answered = DOMAIN results
           /\ \A b \in Answered, id \in KnownIds :
                 Leads(Var(b), GetType(id), edges) =>
                    /\ results[b] = types[id]
                    /\ \E t \in concrete : Leads(Var(b), Type(t), edges) /\ types[t] = types[id]
<1>1. errors = {} /\ asked = <<>> /\ visits = <<>>
  BY DEF SearchInv, ErrorsInv, TypesInv
<1>2. ToSet(asked) = {}
  BY <1>1, EmptySeq DEF ToSet
<1>3. Answered = DOMAIN results
  BY <1>2 DEF Answered
<1>4. ASSUME NEW b \in Answered, NEW id \in KnownIds, Leads(Var(b), GetType(id), edges)
      PROVE  /\ results[b] = types[id]
             /\ \E t \in concrete : Leads(Var(b), Type(t), edges) /\ types[t] = types[id]
  <2>1. GetType(id) # NoNode
    <3>1. NoNode \notin Nodes /\ Var(b) # NoNode
      BY DEF NoNode, Nodes, Type, Var, Temp, None
    <3>2. edges \in SUBSET (Nodes \X Nodes)
      BY DEF IInv, TypeOK
    <3> QED
      BY <1>4, <3>1, <3>2, LeadsWithin
  <2>2. PICK t \in concrete : Leads(GetType(id), Type(t), edges) /\ types[t] = types[id]
    BY <2>1 DEF SearchInv, AliasInv, Means
  <2>3. Leads(Var(b), Type(t), edges)
    BY <1>4, <2>2, LeadsOn
  <2>4. PICK s \in concrete : FoundFor(b, s) /\ results[b] = types[s]
    BY <1>3, <1>4 DEF SearchInv, ResultsInv
  <2>5. t = s
    BY <2>3, <2>4 DEF FoundFor
  <2> QED
    BY <2>2, <2>3, <2>4, <2>5
<1> QED
  BY <1>1, <1>3, <1>4

LEMMA VarOf ==
    ASSUME NEW n, NEW A, IsOf(n, A), n[1] = "var"
    PROVE  n[2] \in A /\ n = Var(n[2])
<1>1. PICK b \in A : n = Var(b)
  BY DEF IsOf
<1>2. n[2] = b
  BY <1>1 DEF Var
<1> QED
  BY <1>1, <1>2

LEMMA TypeClaimsHold ==
    ASSUME IInv, SearchInv, stage = "accepted"
    PROVE  Hold(TypeClaims)
<1> SUFFICES ASSUME NEW p \in TypeClaims, p[1][1] = "var"
             PROVE  results[p[1][2]] = types[p[2]]
  BY DEF Hold
<1>1. errors = {} /\ visits = <<>>
  BY Accepted
<1>2. IsOf(p[1], Answered) /\ p[2] \in KnownIds /\ Holds(p)
  BY <1>1 DEF SearchInv, ClaimsInv
<1>3. p[1][2] \in Answered /\ p[1] = Var(p[1][2])
  BY <1>2, VarOf
<1>4. Leads(Var(p[1][2]), GetType(p[2]), edges)
  BY <1>1, <1>2, <1>3 DEF Holds
<1> QED
  BY <1>2, <1>3, <1>4, Accepted

LEMMA EqualityHolds ==
    ASSUME IInv, SearchInv, stage = "accepted", NEW e \in claims.equality,
           e[1][1] = "var", e[2][1] = "var"
    PROVE  results[e[1][2]] = results[e[2][2]]
<1>1. errors = {} /\ Answered = DOMAIN results
  BY Accepted
<1>2. IsOf(e[1], Answered) /\ IsOf(e[2], Answered) /\ Leads(e[2], e[1], edges)
  BY <1>1 DEF SearchInv, ClaimsInv
<1>3. PICK a, b : a = e[1][2] /\ b = e[2][2]
  OBVIOUS
<1>4. a \in Answered /\ b \in Answered /\ e[1] = Var(a) /\ e[2] = Var(b)
  BY <1>2, <1>3, VarOf
<1>5. PICK s \in concrete : FoundFor(a, s) /\ results[a] = types[s]
  BY <1>1, <1>4 DEF SearchInv, ResultsInv
<1>6. PICK t \in concrete : FoundFor(b, t) /\ results[b] = types[t]
  BY <1>1, <1>4 DEF SearchInv, ResultsInv
<1>7. Leads(Var(a), Type(s), edges)
  BY <1>5 DEF FoundFor
<1>8. Leads(Var(b), Type(s), edges)
  BY <1>2, <1>4, <1>7, LeadsOn
<1>9. s = t
  BY <1>6, <1>8 DEF FoundFor
<1> QED
  BY <1>3, <1>5, <1>6, <1>9

LEMMA EmptyClaims ==
    ASSUME IInv, SearchInv, stage = "accepted"
    PROVE  ~claims.empty
<1> SUFFICES ASSUME claims.empty PROVE FALSE
  OBVIOUS
<1>1. errors = {} /\ visits = <<>> /\ Answered = DOMAIN results
  BY Accepted
<1>2. PICK b \in Answered, r \in KnownIds \ {UnitId} :
         Leads(Var(b), GetType(r), edges) /\ Leads(Var(b), Type(UnitId), edges)
  BY <1>1 DEF SearchInv, ClaimsInv, UnitAndMore
<1>3. PICK t \in concrete : Leads(Var(b), Type(t), edges) /\ types[t] = types[r]
  BY <1>2, Accepted
<1>4. PICK s \in concrete : FoundFor(b, s)
  BY <1>1, <1>2 DEF SearchInv, ResultsInv
<1>5. UnitId \in concrete
  BY DEF IInv, ItemVarsInv, UnitId, Primitives
<1>6. t = UnitId
  BY <1>2, <1>3, <1>4, <1>5 DEF FoundFor
<1>7. r \in TypeIds
  <2>1. CASE r \in {PrimitiveId[n] : n \in Primitives}
    BY <1>2, <2>1 DEF IInv, ItemVarsInv, TypeOK, TypeIds
  <2>2. ASSUME NEW i \in Typedefs, r = ItemId(i) PROVE r \in TypeIds
    <3>1. Identified(i)
      BY <1>1, <2>2 DEF IInv, ScopeInv, Typedefs
    <3>2. ItemId(i) \in DOMAIN types
      BY <3>1 DEF SearchInv, TypesInv, Identified
    <3> QED
      BY <1>2, <2>2, <3>2 DEF TypeIds
  <2> QED
    BY <1>2, <2>1, <2>2 DEF KnownIds
<1>8. types[r] = Named("()")
  BY <1>3, <1>6 DEF SearchInv, TypesInv
<1> QED
  BY <1>2, <1>7, <1>8 DEF SearchInv, TypesInv

(* A path can be gone back where the edges can. *)
LEMMA LeadsBack ==
    ASSUME NEW E, NEW a, NEW b, Leads(a, b, E)
    PROVE  Leads(b, a, E \cup {<<e[2], e[1]>> : e \in E})
<1> SUFFICES ASSUME NEW C, b \in C, Closed(C, E \cup {<<e[2], e[1]>> : e \in E}), a \notin C
             PROVE  FALSE
  BY DEF Leads
<1> DEFINE D == {x \in {a} \cup {e[1] : e \in E} \cup {e[2] : e \in E} : x \notin C}
<1>1. ASSUME NEW e \in E, e[2] \in C PROVE e[1] \in C
  <2>1. <<e[2], e[1]>>[1] = e[2] /\ <<e[2], e[1]>>[2] = e[1]
    OBVIOUS
  <2>2. <<e[2], e[1]>> \in E \cup {<<d[2], d[1]>> : d \in E}
    OBVIOUS
  <2> QED
    BY <1>1, <2>1, <2>2 DEF Closed
<1>2. Closed(D, E)
  BY <1>1 DEF Closed
<1>3. a \in D
  OBVIOUS
<1>4. b \in D
  BY <1>2, <1>3 DEF Leads
<1> QED
  BY <1>4

LEMMA RejectedForCause == IInv /\ SearchInv => WellTypedIsAccepted
<1> DEFINE both == edges \cup {<<e[2], e[1]>> : e \in edges}
<1> SUFFICES ASSUME IInv, SearchInv, stage = "rejected",
                    errors \cap {"UnknownType", "Circular"} = {}, claims.calls = {}
             PROVE  \E s \in concrete :
                       Reached({Type(s)}, both) \cap {Type(t) : t \in concrete} # {Type(s)}
  BY DEF WellTypedIsAccepted
<1>1. errors \subseteq {"UnknownType", "Circular", "NoInfo", "Conflict"} /\ errors # {}
  BY DEF IInv, TypeOK, SearchInv, ErrorsInv
<1>2. "NoInfo" \notin errors
  BY DEF SearchInv, ErrorsInv
<1>3. "Conflict" \in errors
  BY <1>1, <1>2
<1>4. PICK s, t \in concrete :
         s # t /\ \E n \in Nodes : Leads(n, Type(s), edges) /\ Leads(n, Type(t), edges)
  BY <1>3 DEF SearchInv, ErrorsInv
<1>5. PICK n \in Nodes : Leads(n, Type(s), edges) /\ Leads(n, Type(t), edges)
  BY <1>4
<1>6. Type(s) \in Nodes /\ Type(t) \in Nodes /\ Type(s) # Type(t)
  BY <1>4 DEF Nodes, Type
<1>7. edges \subseteq both /\ both \in SUBSET (Nodes \X Nodes)
  <2>1. edges \in SUBSET (Nodes \X Nodes)
    BY DEF IInv, TypeOK
  <2>2. \A e \in edges : e[1] \in Nodes /\ e[2] \in Nodes
    BY <2>1
  <2> QED
    BY <2>1, <2>2
<1>8. Leads(Type(s), n, both)
  BY <1>5, LeadsBack
<1> HIDE DEF both
<1>9. Leads(n, Type(t), both)
  BY <1>5, <1>7, LeadsMore
<1>10. Leads(Type(s), Type(t), both)
  BY <1>8, <1>9, LeadsOn
<1>11. Type(t) \in Reached({Type(s)}, both)
  BY <1>6, <1>7, <1>10, ReachedLeads
<1> QED
  BY <1>4, <1>6, <1>11

(* If a unit is accepted then the type that TypeConcretifier gave to the     *)
(* body of a function, and to each variable that a return names, is the      *)
(* declared return type, whatever blocks, ifs and aliases are in between.    *)
THEOREM ReturnedTypesHold == Spec => []ReturnTypesHold
<1>1. IInv /\ SearchInv => ReturnTypesHold
  <2>1. claims.returned \subseteq TypeClaims
    BY DEF TypeClaims
  <2> QED
    BY <2>1, TypeClaimsHold DEF ReturnTypesHold, Hold
<1> QED
  BY <1>1, SearchInvariance, PTL

(* If a unit is accepted then every parameter, and every variable declared   *)
(* with a type, was given that type, whatever its value and uses are.        *)
THEOREM DeclaredTypesHold == Spec => []DeclarationsHold
<1>1. IInv /\ SearchInv => DeclarationsHold
  <2>1. claims.declared \subseteq TypeClaims
    BY DEF TypeClaims
  <2> QED
    BY <2>1, TypeClaimsHold DEF DeclarationsHold, Hold
<1> QED
  BY <1>1, SearchInvariance, PTL

(* No unit is accepted in which a function that declares a type returns      *)
(* nothing, even if its type is an alias: no alias can be of "()".           *)
THEOREM EmptyReturnsAreRefused == Spec => []EmptyReturnsAreErrors
<1>1. IInv /\ SearchInv => EmptyReturnsAreErrors
  BY EmptyClaims DEF EmptyReturnsAreErrors
<1> QED
  BY <1>1, SearchInvariance, PTL

(* If a unit is accepted then every variable is used at its type, and two    *)
(* that are compared, or are branches of an if expression, have the same.    *)
THEOREM AcceptedUsesAgree == Spec => []UsesAgree
<1>1. IInv /\ SearchInv => UsesAgree
  <2> SUFFICES ASSUME IInv, SearchInv, stage = "accepted"
               PROVE  /\ Hold({<<n, names["float"]>> : n \in claims.arithmetic})
                      /\ Hold({<<n, names["bool"]>> : n \in claims.condition})
                      /\ \A e \in claims.equality :
                            e[1][1] = "var" /\ e[2][1] = "var" =>
                               results[e[1][2]] = results[e[2][2]]
    BY DEF UsesAgree
  <2>1. /\ {<<n, names["float"]>> : n \in claims.arithmetic} \subseteq TypeClaims
        /\ {<<n, names["bool"]>> : n \in claims.condition} \subseteq TypeClaims
    BY DEF TypeClaims
  <2>2. Hold(TypeClaims)
    BY TypeClaimsHold
  <2>3. \A S : S \subseteq TypeClaims => Hold(S)
    BY <2>2 DEF Hold
  <2> QED
    BY <2>1, <2>3, EqualityHolds
<1> QED
  BY <1>1, SearchInvariance, PTL

(* If a unit without calls is rejected, and all its types are known, then    *)
(* two of its types are joined in the graph: no variable lacks a type, and   *)
(* there is no conflict between types that nothing says are one.             *)
THEOREM RejectedWithCause == Spec => []WellTypedIsAccepted
BY SearchInvariance, RejectedForCause, PTL
=============================================================================

---------------------------- MODULE VerifyProofs ----------------------------
(***************************************************************************)
(* For every unit and any number of nodes and branches: what the generator *)
(* can handle, it compiles, and LLVM does not refuse the code.             *)
(*                                                                         *)
(* LLVMVerifyFunction asks which basic blocks dominate which: whether one  *)
(* is reached around another.  That is known only when the function is     *)
(* done, so the invariant carries sets of dominators D that grow with the  *)
(* code, and each visit has a home: the blocks passed on every way to the  *)
(* places where its values are used.                                       *)
(***************************************************************************)
EXTENDS CompileProofs

-----------------------------------------------------------------------------
(* Basic blocks c that are being written, and which of them dominate which:  *)
(* D[b] are the blocks that each way to b comes through.                     *)

(* Where an ended block goes to. *)
Targets(c, b) == IF Open(c, b) THEN {} ELSE ToSet(Last(c[b]).blocks)
(* From where the block b is gone to. *)
Sources(c, b) == {p \in DOMAIN c : b \in Targets(c, p)}

(* In D, each way to b comes through all of D[b]: D grows along an edge by its target only. *)
Dominators(D, c) ==
    /\ D \in [DOMAIN c -> SUBSET DOMAIN c]
    /\ 1 \in DOMAIN c /\ D[1] = {1}
    /\ \A b \in DOMAIN c : b \in D[b]
    /\ \A p \in DOMAIN c : \A b \in Targets(c, p) : D[b] \subseteq D[p] \cup {b}

(* An instruction of d defines the value v. *)
Defines(c, d, v) == \E j \in DOMAIN c[d] : c[d][j].def = v

(* The value is one that the basic blocks S of the function f define. *)
KnownIn(f, c, S, v) == v[1] = "reg" => v[2] = f /\ \E d \in S : Defines(c, d, v)

(* It is known before the instruction i of the block b. *)
KnownAt(f, c, D, v, b, i) ==
    v[1] = "reg" => /\ v[2] = f
                    /\ \/ \E j \in DOMAIN c[b] : j < i /\ c[b][j].def = v
                       \/ \E d \in D[b] \ {b} : Defines(c, d, v)

(* WellTyped, in a function f of a unit u. *)
Typed(u, f, instr) ==
    LET type == TypeOf(instr.def)
        args == ArgTypes(instr)
        op == instr.op
    IN /\ op \in {"fadd", "fsub"} => args = <<"float", "float">>
       /\ op \in {"fcmp_oeq", "fcmp_one", "fcmp_olt"} => args = <<"float", "float">>
       /\ op = "icmp_eq" => args = <<"bool", "bool">>
       /\ op \in {"alloca", "load"} => type # "()"
       /\ op = "store"   => args[1] = args[2]
       /\ op = "phi"     => ToSet(args) = {type}
       /\ op = "cond_br" => args = <<"bool">>
       /\ op = "ret"     => args = <<u[f].ret>>
       /\ op = "ret_void" => u[f].ret = "()"
       /\ op = "call"    => Tail(args) = u[Head(instr.args)[2]].params

(* PhiOfPreds: a phi has a value for each block before it, known where that ends. *)
PhiKnown(f, c, D, b, instr) ==
    /\ ToSet(instr.blocks) = Sources(c, b)
    /\ Len(instr.blocks) = Cardinality(Sources(c, b))
    /\ Len(instr.blocks) = Len(instr.args)
    /\ \A k \in DOMAIN instr.args : KnownIn(f, c, D[instr.blocks[k]], instr.args[k])

(* What LLVMVerifyFunction asks of an instruction. *)
Sound(u, f, c, D, b, i) ==
    /\ Typed(u, f, c[b][i])
    /\ IF c[b][i].op = "phi" THEN PhiKnown(f, c, D, b, c[b][i])
       ELSE \A k \in DOMAIN c[b][i].args : KnownAt(f, c, D, c[b][i].args[k], b, i)

(* It is so for all that have been written. *)
AllSound(u, f, c, D) == \A b \in DOMAIN c : \A i \in DOMAIN c[b] : Sound(u, f, c, D, b, i)

(* Only the last instruction of a block ends it. *)
Ending(c) == \A b \in DOMAIN c : \A i \in DOMAIN c[b] :
                c[b][i].op \in Terminators => i = Len(c[b])

(* An open block is the builder's, or one that a visit still comes to. *)
OpenAre(vs, c, a) ==
    /\ \A b \in DOMAIN c : Open(c, b) => b = a \/ \E k \in DOMAIN vs : b \in Pending(vs[k])
    /\ Last(vs).node = "fn" /\ ~Last(vs).after => ~Open(c, a)

-----------------------------------------------------------------------------
(* Types. *)

(* A value of type t is one that a part of v may leave for it. *)
Takes(v, t) ==
    /\ v.node \in {"fn", "block", "stmt", "let", "return"} => t \in v.want
    /\ v.node = "if" => t \in IF CondPart(v) THEN {"bool"} ELSE v.want
    /\ v.node = "unary" \/ v.op \in Arithmetic \cup {"less"} => t = "float"
    /\ v.node = "binary" /\ Part(v) = 1 => t = TypeOf(v.values[1])
    /\ v.node = "if_expr" /\ Part(v) = 0 => t = "bool"
    /\ v.node = "if_expr" /\ Part(v) = 1 => t \in v.want

(* It is one that the visit c may leave. *)
Gives(c, t) ==
    /\ c.node \in {"unary", "binary"} => t = ResultOf(c.op)
    /\ c.node \in {"if_expr", "call", "block", "stmt", "if"} => t \in c.want

(* What the visit c leaves is what its parent p takes. *)
Feeds(p, c) ==
    Valued(p) /\ c.node \notin {"let", "return"} =>
        \A t \in Data : Gives(c, t) => Takes(p, t)

(* The types that checking wants of a visit are those of its node. *)
Wanted(v, r) ==
    /\ v.source => \E t \in Types : v.want = {t} /\ (r # "()" => t = r)
    /\ v.node = "fn" => (v.source <=> r # "()")
    /\ v.node = "return" => v.want = {r}
    /\ v.node = "let" => \E t \in Data : v.want = {t}
    /\ v.node = "binary" /\ Part(v) = 1 /\ v.op \in Arithmetic \cup {"less"} =>
          TypeOf(v.values[1]) = "float"

-----------------------------------------------------------------------------
(* Visits.  Each has a home: the basic blocks whose values it may use.       *)

(* The homes of visits vs grow towards the top, and dominate the builder's block. *)
Homes(H, vs, D, a) ==
    /\ DOMAIN H = 1..Len(vs)
    /\ \A k \in 1..Len(vs) : 1 \in H[k] /\ H[k] \subseteq D[a]
    /\ \A j, k \in 1..Len(vs) : j <= k => H[j] \subseteq H[k]

(* What it keeps. *)
Carried(v, slots) ==
    {slots[id] : id \in v.declared}
    \cup (IF v.node \in {"binary", "call"} THEN ToSet(v.values) ELSE {})

(* The blocks that the branches of an if come from, with a value.            *)
PhiBlock(v, k) == v.blocks[IF k <= v.branches THEN 2 * k - 1 ELSE 2 * v.branches]

(* The branches of an if block whose values have been kept. *)
BodiesDone(v) ==
    IF Part(v) = 2 * v.branches + 1 THEN v.branches + 1 ELSE Part(v) \div 2

(* The values and the blocks of an if block with a value are those of its phi. *)
IfStands(v, f, c, D, a) ==
    v.node = "if" /\ v.source =>
        /\ \A i, j \in DOMAIN v.blocks : v.blocks[i] = v.blocks[j] => i = j
        /\ Len(v.values) = BodiesDone(v)
        /\ Sources(c, Last(v.blocks)) = {PhiBlock(v, k) : k \in 1..Len(v.values)}
        /\ \A k \in 1..Len(v.values) :
              KnownIn(f, c, D[PhiBlock(v, k)], v.values[k]) /\ TypeOf(v.values[k]) \in v.want
        /\ ~CondPart(v) => a = v.blocks[Part(v)]

(* So are those of an if expression. *)
IfExprStands(v, f, c, D) ==
    v.node = "if_expr" =>
        /\ Part(v) = 1 => Sources(c, v.blocks[3]) = {}
        /\ Part(v) = 2 => /\ Sources(c, v.blocks[3]) = {v.blocks[4]}
                          /\ KnownIn(f, c, D[v.blocks[4]], v.values[2])
                          /\ TypeOf(v.values[2]) \in v.want

(* What holds of a visit v with the home h. *)
Stands(v, h, f, r, c, D, a, slots) ==
    /\ \A b \in Pending(v) : D[b] = h \cup {b}
    /\ \A x \in Carried(v, slots) : KnownIn(f, c, h, x)
    /\ IfStands(v, f, c, D, a)
    /\ IfExprStands(v, f, c, D)
    /\ Wanted(v, r)

(* The builder stays where it is in a branch of an if block with a value.    *)
NoNest(vs) ==
    \A k \in 1..(Len(vs) - 1) : \A m \in (k + 1)..Len(vs) :
        vs[k].node = "if" /\ vs[k].source /\ vs[k + 1].node = "block" =>
            vs[m].node \notin {"if", "if_expr"}

(* The value that has been left, if one has.                                 *)
TopValue(v, f, c, D, a, ir, ct) ==
    v.after /\ Valued(v) =>
        IF v.base < Len(ir)
        THEN /\ KnownIn(f, c, D[a], Last(ir))
             /\ Takes(v, TypeOf(Last(ir)))
             /\ ExprPart(v) => ct = TypeOf(Last(ir))
        ELSE ~Open(c, a)

-----------------------------------------------------------------------------
(* Variables have slots of their types, and ids of their own.                *)
Named ==
    /\ \A id \in Visible : id \in DOMAIN types /\ types[id] = TypeOf(scope_manager[id])
    /\ \A p \in Params : KnownIn(item, code, {1}, scope_manager[ParamId(p)])
    /\ \A k \in DOMAIN visits : \A id \in visits[k].declared :
          \E n \in 1..regs : id = <<item, 0, n>>

(* The ids of functions are those of functions. *)
FnRefs == \A i \in Nat : FnId(i) \in DOMAIN scope_manager => scope_manager[FnId(i)] = FnRef(i)

(* Each visit leaves what the one below takes. *)
Linking(vs) == \A k \in 1..(Len(vs) - 1) : Feeds(vs[k], vs[k + 1])

(* The code of the function, with its dominators and the homes of its visits. *)
GraphInv(D, H) ==
    LET r == unit[item].ret
    IN /\ Dominators(D, code)
       /\ AllSound(unit, item, code, D)
       /\ Homes(H, visits, D, at)
       /\ \A k \in 1..Len(visits) :
             Stands(visits[k], H[k], item, r, code, D, at, scope_manager)
       /\ TopValue(top, item, code, D, at, ir_code, current_type)

(* What has been written of a function that the generator can handle is sound. *)
SoundInv ==
    Handled /\ visits # <<>> =>
        /\ Ending(code) /\ OpenAre(visits, code, at)
        /\ Named
        /\ Linking(visits) /\ NoNest(visits)
        /\ \E D, H : GraphInv(D, H)

(* The inductive invariant. *)
VerifyInv == IInv /\ FnRefs /\ SoundInv /\ FailuresHaveACause

-----------------------------------------------------------------------------
(* A search from S along the edges G, of nodes N, that does not come to d.   *)
Searches(f, N, G, d) ==
    /\ DOMAIN f = SUBSET N
    /\ \A S \in SUBSET N :
          LET more == S \cup ((UNION {G[b] : b \in S}) \ {d})
          IN f[S] = IF more = S THEN S ELSE f[more]

(* It stays in each set that no edge leaves, but for one to d.               *)
Confines(Safe, N, G, d) ==
    /\ IsFiniteSet(N) /\ G \in [N -> SUBSET N] /\ Safe \in SUBSET N
    /\ \A p \in Safe : \A q \in G[p] : q = d \/ q \in Safe

(* A search that cannot leave Safe stays there. *)
LEMMA SearchStays ==
    ASSUME NEW N, NEW G, NEW d, NEW f, NEW Safe, Searches(f, N, G, d), Confines(Safe, N, G, d)
    PROVE  \A S \in SUBSET Safe : f[S] \subseteq Safe
<1> SUFFICES ASSUME NEW S0 \in SUBSET Safe PROVE f[S0] \subseteq Safe
  OBVIOUS
<1>0. /\ IsFiniteSet(N) /\ G \in [N -> SUBSET N] /\ Safe \in SUBSET N
      /\ \A p \in Safe : \A q \in G[p] : q = d \/ q \in Safe
  BY DEF Confines
<1> DEFINE More(S) == S \cup ((UNION {G[b] : b \in S}) \ {d})
           K == {k \in Nat : \A S \in SUBSET Safe : Cardinality(N \ S) <= k => f[S] \subseteq Safe}
<1>1. ASSUME NEW S \in SUBSET Safe
      PROVE  /\ More(S) \in SUBSET Safe /\ S \subseteq More(S)
             /\ f[S] = IF More(S) = S THEN S ELSE f[More(S)]
             /\ S \in SUBSET N /\ More(S) \in SUBSET N
  <2>1. S \in SUBSET N /\ Safe \in SUBSET N
    BY <1>0
  <2>2. More(S) \in SUBSET Safe /\ S \subseteq More(S)
    <3>1. ASSUME NEW x \in (UNION {G[b] : b \in S}) \ {d} PROVE x \in Safe
      <4>1. PICK b \in S : x \in G[b]
        OBVIOUS
      <4> QED
        BY <4>1, <1>0
    <3> QED
      BY <3>1
  <2>3. f[S] = IF More(S) = S THEN S ELSE f[More(S)]
    BY <2>1 DEF Searches
  <2> QED
    BY <2>1, <2>2, <2>3
<1> HIDE DEF More
<1>2. ASSUME NEW S \in SUBSET N
      PROVE  IsFiniteSet(N \ S) /\ Cardinality(N \ S) \in Nat
  BY <1>0, FS_Subset, FS_CardinalityType, N \ S \subseteq N
<1>3. ASSUME NEW S \in SUBSET Safe, More(S) # S
      PROVE  Cardinality(N \ More(S)) < Cardinality(N \ S)
  <2>1. PICK n : n \in N \ S /\ n \notin N \ More(S)
    BY <1>1, <1>3
  <2>2. (N \ More(S)) \subseteq (N \ S) /\ N \ More(S) # N \ S
    BY <1>1, <2>1
  <2>3. IsFiniteSet(N \ S) /\ Cardinality(N \ S) \in Nat /\ Cardinality(N \ More(S)) \in Nat
    BY <1>1, <1>2
  <2>4. /\ Cardinality(N \ More(S)) <= Cardinality(N \ S)
        /\ Cardinality(N \ S) = Cardinality(N \ More(S)) => N \ S = N \ More(S)
    BY <2>2, <2>3, FS_Subset
  <2> QED
    BY <2>2, <2>3, <2>4
<1>4. 0 \in K
  <2> SUFFICES ASSUME NEW S \in SUBSET Safe, Cardinality(N \ S) <= 0 PROVE f[S] \subseteq Safe
    OBVIOUS
  <2>1. Cardinality(N \ S) = 0
    <3>1. Cardinality(N \ S) \in Nat
      BY <1>1, <1>2
    <3> QED
      BY <3>1
  <2>2. More(S) = S
    <3> SUFFICES ASSUME More(S) # S PROVE FALSE
      OBVIOUS
    <3>1. Cardinality(N \ More(S)) < 0 /\ Cardinality(N \ More(S)) \in Nat
      BY <1>1, <1>2, <1>3, <2>1
    <3> QED
      BY <3>1
  <2> QED
    BY <1>1, <2>2
<1>5. ASSUME NEW k \in Nat, k \in K PROVE k + 1 \in K
  <2>0. k + 1 \in Nat
    OBVIOUS
  <2> SUFFICES ASSUME NEW S \in SUBSET Safe, Cardinality(N \ S) <= k + 1
               PROVE  f[S] \subseteq Safe
    BY <2>0, Zenon
  <2>1. CASE More(S) = S
    BY <1>1, <2>1
  <2>2. CASE More(S) # S
    <3>1. More(S) \in SUBSET Safe
      BY <1>1
    <3>4. /\ Cardinality(N \ S) \in Nat /\ Cardinality(N \ More(S)) \in Nat
          /\ Cardinality(N \ More(S)) < Cardinality(N \ S)
      BY <1>1, <1>2, <1>3, <2>2
    <3>2. Cardinality(N \ More(S)) <= k
      BY <3>4
    <3>3. f[More(S)] \subseteq Safe
      BY <1>5, <3>1, <3>2
    <3> QED
      BY <1>1, <2>2, <3>3
  <2> QED
    BY <2>1, <2>2
<1>6. \A k \in Nat : k \in K
  <2> HIDE DEF K
  <2> QED
    BY <1>4, <1>5, Induction
<1>7. Cardinality(N \ S0) \in Nat
  BY <1>1, <1>2
<1> DEFINE m == Cardinality(N \ S0)
<1>8. m \in K
  <2> HIDE DEF K
  <2> QED
    BY <1>6, <1>7
<1>9. m <= m
  <2>1. m \in Nat
    BY <1>7
  <2> HIDE DEF m
  <2> QED
    BY <2>1
<1> QED
  BY <1>8, <1>9

(* Reached is such a search: the recursive function exists. *)
LEMMA ReachedSearches ==
    ASSUME NEW N, DOMAIN code = N, \A b \in N : Succs(b) \subseteq N, NEW d
    PROVE  \E f : Searches(f, N, [b \in N |-> Succs(b)], d) /\ Reached(d) = f[{1} \ {d}]
<1> DEFINE More(S) == S \cup ((UNION {Succs(b) : b \in S}) \ {d})
           Body(f) == [S \in SUBSET N |-> IF More(S) = S THEN S ELSE f[More(S)]]
           Closed(C) == \A b \in C : Succs(b) \ {d} \subseteq C
           F == [S \in SUBSET N |->
                   {n \in N : \A C \in SUBSET N : S \subseteq C /\ Closed(C) => n \in C}]
<1>1. ASSUME NEW S \in SUBSET N
      PROVE  F[S] = IF More(S) = S THEN S ELSE F[More(S)]
  <2>2. More(S) \in SUBSET N /\ S \subseteq More(S)
    OBVIOUS
  <2>3. ASSUME More(S) = S PROVE F[S] = S
    <3>1. ASSUME NEW b \in S, NEW x \in Succs(b) \ {d} PROVE x \in S
      <4>1. x \in (UNION {Succs(p) : p \in S}) \ {d}
        OBVIOUS
      <4> QED
        BY <4>1, <2>3
    <3>2. Closed(S)
      BY <3>1
    <3> HIDE DEF Closed
    <3> QED
      BY <3>2
  <2>4. ASSUME NEW C \in SUBSET N, Closed(C)
        PROVE  S \subseteq C <=> More(S) \subseteq C
    <3>1. ASSUME S \subseteq C, NEW x \in (UNION {Succs(p) : p \in S}) \ {d} PROVE x \in C
      <4>1. PICK p \in S : x \in Succs(p) \ {d}
        OBVIOUS
      <4> QED
        BY <4>1, <3>1, <2>4
    <3> QED
      BY <3>1, <2>2
  <2> HIDE DEF More, Closed
  <2>5. F[More(S)] = F[S]
    BY <2>2, <2>4
  <2> QED
    BY <2>3, <2>5
<1>2. F = Body(F)
  <2> HIDE DEF More
  <2> DEFINE G == F
  <2>1. DOMAIN G = SUBSET N /\ \A S \in SUBSET N : G[S] = IF More(S) = S THEN S ELSE G[More(S)]
    BY <1>1
  <2>2. G = [S \in SUBSET N |-> G[S]]
    OBVIOUS
  <2> HIDE DEF F
  <2> QED
    BY <2>1, <2>2
<1>3. \E f : f = Body(f)
  BY <1>2
<1> DEFINE g == CHOOSE f : f = Body(f)
<1>4. g = Body(g)
  BY <1>3
<1>5. Reached(d) = g[{1} \ {d}]
  BY DEF Reached
<1> HIDE DEF g
<1>6. /\ DOMAIN g = SUBSET N
      /\ \A S \in SUBSET N : g[S] = IF More(S) = S THEN S ELSE g[More(S)]
  BY <1>4
<1>7. ASSUME NEW S \in SUBSET N
      PROVE  {[p \in N |-> Succs(p)][b] : b \in S} = {Succs(b) : b \in S}
  OBVIOUS
<1>8. Searches(g, N, [b \in N |-> Succs(b)], d)
  BY <1>6, <1>7 DEF Searches
<1> QED
  BY <1>5, <1>8

(* A block's last instruction is one, and goes to blocks that there are. *)
LEMMA LastBlocks ==
    ASSUME NEW c, CodeType(c), NEW b \in DOMAIN c, c[b] # <<>>
    PROVE  /\ Len(c[b]) \in DOMAIN c[b] /\ Last(c[b]) = c[b][Len(c[b])]
           /\ Last(c[b]) \in InstrSet
           /\ ToSet(Last(c[b]).blocks) \subseteq DOMAIN c
<1>1. c[b] \in Seq(InstrSet)
  BY ElementOfSeq, LenProperties DEF CodeType
<1>2. /\ Len(c[b]) \in Nat /\ DOMAIN c[b] = 1..Len(c[b]) /\ Len(c[b]) # 0
  BY <1>1, LenProperties, EmptySeq
<1>3. Len(c[b]) \in DOMAIN c[b] /\ Last(c[b]) = c[b][Len(c[b])]
  BY <1>2 DEF Last
<1>4. c[b][Len(c[b])] \in InstrSet
  BY <1>1, <1>2, <1>3
<1> QED
  BY <1>3, <1>4 DEF CodeType

(* Ended blocks go to blocks that there are. *)
LEMMA TargetsIn ==
    ASSUME NEW c, CodeType(c), NEW b \in DOMAIN c
    PROVE  Targets(c, b) \subseteq DOMAIN c
BY LastBlocks DEF Targets, Open

(* When all blocks have ended, a block is not reached around those that      *)
(* dominate it.                                                              *)
LEMMA DominatorsBlock ==
    ASSUME CodeType(code), NEW D, Dominators(D, code), \A b \in DOMAIN code : ~Open(code, b),
           NEW b \in DOMAIN code, NEW d \in D[b]
    PROVE  b \notin Reached(d)
<1> DEFINE N == DOMAIN code
           G == [p \in N |-> Succs(p)]
           Safe == {p \in N : d \notin D[p]}
<1>1. /\ IsFiniteSet(N)
      /\ 1 \in N /\ D[1] = {1}
  BY FS_Interval, LenProperties DEF CodeType, Dominators
<1>2. ASSUME NEW p \in N PROVE Succs(p) = Targets(code, p) /\ Succs(p) \subseteq N
  BY TargetsIn DEF Succs, Targets, Open
<1>3. PICK f : Searches(f, N, G, d) /\ Reached(d) = f[{1} \ {d}]
  BY <1>2, ReachedSearches
<1>4. ASSUME NEW p \in Safe PROVE G[p] \ {d} \subseteq Safe
  <2> SUFFICES ASSUME NEW q \in Succs(p), q # d PROVE q \in Safe
    OBVIOUS
  <2>1. q \in Targets(code, p) /\ q \in N
    BY <1>2
  <2>2. D[q] \subseteq D[p] \cup {q}
    BY <2>1 DEF Dominators
  <2> QED
    BY <2>1, <2>2
<1>5. {1} \ {d} \in SUBSET Safe
  BY <1>1
<1>6. G \in [N -> SUBSET N] /\ Safe \in SUBSET N
  BY <1>2
<1> HIDE DEF G, Safe, N
<1>7. Confines(Safe, N, G, d)
  BY <1>1, <1>4, <1>6 DEF Confines
<1>8. \A S \in SUBSET Safe : f[S] \subseteq Safe
  BY <1>3, <1>7, SearchStays
<1>9. f[{1} \ {d}] \subseteq Safe
  BY <1>5, <1>8
<1> QED
  BY <1>3, <1>9 DEF Safe

-----------------------------------------------------------------------------
(* The code c becomes c2: instructions are added, and only a gets an end.    *)
CodeStep(c, c2, a) ==
    /\ CodeType(c) /\ CodeType(c2) /\ a \in DOMAIN c /\ DOMAIN c \subseteq DOMAIN c2
    /\ \A b \in DOMAIN c : \A i \in DOMAIN c[b] : i \in DOMAIN c2[b] /\ c2[b][i] = c[b][i]
    /\ \A b \in DOMAIN c \ {a} : Targets(c2, b) = Targets(c, b)
    /\ \A b \in DOMAIN c2 \ DOMAIN c : Targets(c2, b) = {}
    /\ Targets(c, a) \subseteq Targets(c2, a)

(* The dominators when blocks are new: to them there is a way through a.     *)
Widen(D, c2, a) == [b \in DOMAIN c2 |-> IF b \in DOMAIN D THEN D[b] ELSE D[a] \cup {b}]

(* D2 are such dominators. *)
Widens(D, D2, c, c2, a) ==
    /\ D \in [DOMAIN c -> SUBSET DOMAIN c] /\ D2 \in [DOMAIN c2 -> SUBSET DOMAIN c2]
    /\ \A b \in DOMAIN c : D2[b] = D[b]
    /\ \A b \in DOMAIN c2 \ DOMAIN c : D2[b] = D[a] \cup {b}

(* New blocks get the dominators of the block a that they are added from. *)
LEMMA WidenIs ==
    ASSUME NEW c, NEW c2, NEW a, CodeStep(c, c2, a), NEW D, Dominators(D, c)
    PROVE  Widens(D, Widen(D, c2, a), c, c2, a)
<1>1. /\ D \in [DOMAIN c -> SUBSET DOMAIN c] /\ DOMAIN D = DOMAIN c
      /\ a \in DOMAIN c /\ DOMAIN c \subseteq DOMAIN c2
  BY DEF Dominators, CodeStep
<1>2. ASSUME NEW b \in DOMAIN c2
      PROVE  /\ Widen(D, c2, a)[b] = IF b \in DOMAIN c THEN D[b] ELSE D[a] \cup {b}
             /\ Widen(D, c2, a)[b] \in SUBSET DOMAIN c2
  BY <1>1 DEF Widen
<1>3. Widen(D, c2, a) \in [DOMAIN c2 -> SUBSET DOMAIN c2]
  BY <1>2 DEF Widen
<1> QED
  BY <1>1, <1>2, <1>3 DEF Widens

(* Without new blocks, dominators stay. *)
LEMMA WidenSame ==
    ASSUME NEW c, NEW c2, NEW a, NEW D, Dominators(D, c), DOMAIN c2 = DOMAIN c
    PROVE  Widen(D, c2, a) = D
<1>1. D \in [DOMAIN c -> SUBSET DOMAIN c]
  BY DEF Dominators
<1> QED
  BY <1>1 DEF Widen

(* Values stay defined. *)
LEMMA DefinesStays ==
    ASSUME NEW c, NEW c2, NEW a, CodeStep(c, c2, a), NEW d \in DOMAIN c, NEW v, Defines(c, d, v)
    PROVE  Defines(c2, d, v)
BY DEF CodeStep, Defines

(* What is known stays known as code is added. *)
LEMMA KnownStays ==
    ASSUME NEW c, NEW c2, NEW a, CodeStep(c, c2, a), NEW S, S \subseteq DOMAIN c,
           NEW S2, S \subseteq S2, NEW f, NEW v, KnownIn(f, c, S, v)
    PROVE  KnownIn(f, c2, S2, v)
BY DefinesStays DEF KnownIn

(* It is known wherever more blocks have been passed. *)
LEMMA KnownMore ==
    ASSUME NEW c, NEW S, NEW S2, S \subseteq S2, NEW f, NEW v, KnownIn(f, c, S, v)
    PROVE  KnownIn(f, c, S2, v)
BY DEF KnownIn

(* The sources of a block change only where the builder goes to it. *)
LEMMA SourcesStay ==
    ASSUME NEW c, NEW c2, NEW a, CodeStep(c, c2, a), NEW b,
           b \in Targets(c2, a) => b \in Targets(c, a)
    PROVE  Sources(c2, b) = Sources(c, b)
<1>1. ASSUME NEW p \in DOMAIN c2
      PROVE  b \in Targets(c2, p) <=> p \in DOMAIN c /\ b \in Targets(c, p)
  BY DEF CodeStep
<1> QED
  BY <1>1 DEF Sources, CodeStep

(* The new edges go to blocks t that are not reached otherwise. *)
LEMMA DominatorsGrow ==
    ASSUME NEW c, NEW c2, NEW a, CodeStep(c, c2, a), NEW D, Dominators(D, c),
           NEW D2, Widens(D, D2, c, c2, a),
           \A t \in Targets(c2, a) :
              t \in Targets(c, a) \/ t \notin DOMAIN c \/ D[t] \subseteq D[a] \cup {t}
    PROVE  Dominators(D2, c2)
<1>1. /\ a \in DOMAIN c /\ DOMAIN c \subseteq DOMAIN c2 /\ CodeType(c) /\ CodeType(c2)
      /\ \A b \in DOMAIN c \ {a} : Targets(c2, b) = Targets(c, b)
      /\ \A b \in DOMAIN c2 \ DOMAIN c : Targets(c2, b) = {}
  BY DEF CodeStep
<1>2. /\ D2 \in [DOMAIN c2 -> SUBSET DOMAIN c2]
      /\ \A b \in DOMAIN c : D2[b] = D[b]
      /\ \A b \in DOMAIN c2 \ DOMAIN c : D2[b] = D[a] \cup {b}
  BY DEF Widens
<1>3. /\ 1 \in DOMAIN c /\ D[1] = {1}
      /\ \A b \in DOMAIN c : b \in D[b]
      /\ \A p \in DOMAIN c : \A b \in Targets(c, p) : D[b] \subseteq D[p] \cup {b}
  BY DEF Dominators
<1>4. ASSUME NEW p \in DOMAIN c2, NEW b \in Targets(c2, p)
      PROVE  D2[b] \subseteq D2[p] \cup {b}
  <2>1. p \in DOMAIN c /\ b \in DOMAIN c2
    BY <1>1, <1>4, TargetsIn
  <2>2. CASE b \in Targets(c, p)
    <3>1. b \in DOMAIN c
      BY <2>1, <2>2, <1>1, TargetsIn
    <3> QED
      BY <2>1, <2>2, <3>1, <1>2, <1>3
  <2>3. CASE b \notin Targets(c, p)
    <3>1. p = a
      BY <2>1, <2>3, <1>1, <1>4
    <3>2. b \notin DOMAIN c \/ D[b] \subseteq D[a] \cup {b}
      BY <2>3, <3>1, <1>4
    <3> QED
      BY <2>1, <3>1, <3>2, <1>2
  <2> QED
    BY <2>2, <2>3
<1>5. 1 \in DOMAIN c2 /\ D2[1] = {1} /\ \A b \in DOMAIN c2 : b \in D2[b]
  BY <1>1, <1>2, <1>3
<1> QED
  BY <1>2, <1>4, <1>5 DEF Dominators

(* The instructions of a block. *)
LEMMA InstrFacts ==
    ASSUME NEW c, CodeType(c), NEW b \in DOMAIN c
    PROVE  /\ c[b] \in Seq(InstrSet) /\ Len(c[b]) \in Nat /\ DOMAIN c[b] = 1..Len(c[b])
           /\ \A i \in DOMAIN c[b] : /\ c[b][i] \in InstrSet
                                     /\ ToSet(c[b][i].blocks) \subseteq DOMAIN c
<1>1. c[b] \in Seq(InstrSet)
  BY ElementOfSeq, LenProperties DEF CodeType
<1>2. Len(c[b]) \in Nat /\ DOMAIN c[b] = 1..Len(c[b])
  BY <1>1, LenProperties
<1> QED
  BY <1>1, <1>2 DEF CodeType

(* An instruction that is sound stays so. *)
LEMMA SoundStays ==
    ASSUME NEW c, NEW c2, NEW a, CodeStep(c, c2, a), NEW D, NEW D2, Widens(D, D2, c, c2, a),
           NEW u, NEW f, NEW b \in DOMAIN c, NEW i \in DOMAIN c[b], Sound(u, f, c, D, b, i),
           Sources(c2, b) = Sources(c, b)
    PROVE  Sound(u, f, c2, D2, b, i)
<1>1. /\ c2[b][i] = c[b][i] /\ CodeType(c)
      /\ \A j \in DOMAIN c[b] : j \in DOMAIN c2[b] /\ c2[b][j] = c[b][j]
  BY DEF CodeStep
<1>2. /\ \A d \in DOMAIN c : D2[d] = D[d] /\ D[d] \subseteq DOMAIN c
  BY DEF Widens
<1> DEFINE x == c[b][i]
<1>3. Typed(u, f, x)
  BY DEF Sound
<1>4. CASE x.op = "phi"
  <2>1. PhiKnown(f, c, D, b, x)
    BY <1>4 DEF Sound
  <2>2. x \in InstrSet /\ ToSet(x.blocks) \subseteq DOMAIN c
    BY <1>1, InstrFacts
  <2> HIDE DEF x
  <2>3. x.blocks \in Seq(Nat) /\ x.args \in Seq(Values)
    BY <2>2 DEF InstrSet
  <2>4. DOMAIN x.args = DOMAIN x.blocks
    BY <2>1, <2>3, LenProperties DEF PhiKnown
  <2>5. ASSUME NEW k \in DOMAIN x.args
        PROVE  KnownIn(f, c2, D2[x.blocks[k]], x.args[k])
    <3>1. x.blocks[k] \in DOMAIN c
      BY <2>2, <2>4 DEF ToSet
    <3>2. KnownIn(f, c, D[x.blocks[k]], x.args[k])
      BY <2>1 DEF PhiKnown
    <3>3. D[x.blocks[k]] \subseteq DOMAIN c /\ D2[x.blocks[k]] = D[x.blocks[k]]
      BY <1>2, <3>1
    <3> QED
      BY <3>2, <3>3, KnownStays
  <2>6. PhiKnown(f, c2, D2, b, x)
    BY <2>1, <2>5 DEF PhiKnown
  <2> QED
    BY <1>1, <1>3, <1>4, <2>6 DEF Sound, x
<1>5. CASE x.op # "phi"
  <2>1. ASSUME NEW k \in DOMAIN x.args PROVE KnownAt(f, c2, D2, x.args[k], b, i)
    <3>1. KnownAt(f, c, D, x.args[k], b, i)
      BY <1>5 DEF Sound
    <3> DEFINE v == x.args[k]
    <3> HIDE DEF x, v
    <3>2. SUFFICES ASSUME v[1] = "reg"
                   PROVE  /\ v[2] = f
                          /\ \/ \E j \in DOMAIN c2[b] : j < i /\ c2[b][j].def = v
                             \/ \E d \in D2[b] \ {b} : Defines(c2, d, v)
      BY DEF KnownAt, v
    <3>3. v[2] = f /\ \/ \E j \in DOMAIN c[b] : j < i /\ c[b][j].def = v
                      \/ \E d \in D[b] \ {b} : Defines(c, d, v)
      BY <3>1, <3>2 DEF KnownAt, v
    <3>4. ASSUME NEW j \in DOMAIN c[b], j < i, c[b][j].def = v
          PROVE  j \in DOMAIN c2[b] /\ c2[b][j].def = v
      BY <1>1, <3>4
    <3>5. ASSUME NEW d \in D[b] \ {b}, Defines(c, d, v)
          PROVE  d \in D2[b] \ {b} /\ Defines(c2, d, v)
      <4>1. d \in DOMAIN c /\ D2[b] = D[b]
        BY <1>2
      <4> QED
        BY <4>1, <3>5, DefinesStays
    <3> QED
      BY <3>3, <3>4, <3>5
  <2> QED
    BY <1>1, <1>3, <1>5, <2>1 DEF Sound, x
<1> QED
  BY <1>4, <1>5

(* The instructions that are new in c2 are sound. *)
NewSound(u, f, c, c2, D2) ==
    \A b \in DOMAIN c2 : \A i \in DOMAIN c2[b] :
        (b \in DOMAIN c /\ i \in DOMAIN c[b]) \/ Sound(u, f, c2, D2, b, i)

(* So do all, when those that are added are sound. *)
LEMMA AllSoundGrows ==
    ASSUME NEW c, NEW c2, NEW a, CodeStep(c, c2, a), NEW D, NEW D2, Widens(D, D2, c, c2, a),
           NEW u, NEW f, AllSound(u, f, c, D), NewSound(u, f, c, c2, D2),
           \A t \in Targets(c2, a) : t \in Targets(c, a) \/ t \notin DOMAIN c \/ c[t] = <<>>
    PROVE  AllSound(u, f, c2, D2)
<1> SUFFICES ASSUME NEW b \in DOMAIN c2, NEW i \in DOMAIN c2[b]
             PROVE  Sound(u, f, c2, D2, b, i)
  BY DEF AllSound
<1>1. CASE b \in DOMAIN c /\ i \in DOMAIN c[b]
  <2>1. c[b] # <<>>
    BY <1>1
  <2>2. b \in Targets(c2, a) => b \in Targets(c, a)
    BY <1>1, <2>1
  <2>3. Sources(c2, b) = Sources(c, b)
    BY <2>2, SourcesStay
  <2>4. Sound(u, f, c, D, b, i)
    BY <1>1 DEF AllSound
  <2> QED
    BY <1>1, <2>3, <2>4, SoundStays
<1> QED
  BY <1>1 DEF NewSound

-----------------------------------------------------------------------------
(* The instructions is are added to the block a, and new blocks are empty.   *)
Adds(c, c2, a, is) ==
    /\ CodeType(c) /\ CodeType(c2) /\ a \in DOMAIN c /\ is \in Seq(InstrSet)
    /\ Grows(c, c2, a)
    /\ c2[a] = c[a] \o is

(* Where they are: after the m that there were, with an n of their own.      *)
AddsAt(c, c2, a, is, m, n) ==
    /\ m \in Nat /\ n \in Nat /\ DOMAIN c[a] = 1..m /\ DOMAIN is = 1..n
    /\ Len(c2[a]) = m + n /\ DOMAIN c2[a] = 1..(m + n)
    /\ \A i \in 1..m : i \in 1..(m + n) /\ c2[a][i] = c[a][i]
    /\ \A i \in 1..n : m + i \in 1..(m + n) /\ c2[a][m + i] = is[i]
    /\ \A i \in 1..(m + n) : i \in 1..m \/ (i - m \in 1..n /\ i = m + (i - m))

(* The items of a block that instructions were added to. *)
LEMMA AddsFacts ==
    ASSUME NEW c, NEW c2, NEW a, NEW is, Adds(c, c2, a, is)
    PROVE  AddsAt(c, c2, a, is, Len(c[a]), Len(is))
<1> DEFINE m == Len(c[a])
           n == Len(is)
<1>1. c[a] \in Seq(InstrSet) /\ is \in Seq(InstrSet) /\ c2[a] = c[a] \o is
  BY InstrFacts DEF Adds
<1> DEFINE s == c[a]
<1>2. s \in Seq(InstrSet)
  BY <1>1
<1> HIDE DEF s
<1>3. /\ s \o is \in Seq(InstrSet) /\ Len(s \o is) = Len(s) + Len(is)
      /\ \A i \in 1..(Len(s) + Len(is)) :
            (s \o is)[i] = IF i <= Len(s) THEN s[i] ELSE is[i - Len(s)]
  BY <1>1, <1>2, ConcatProperties
<1>4. /\ Len(s) \in Nat /\ DOMAIN s = 1..Len(s) /\ Len(is) \in Nat /\ DOMAIN is = 1..Len(is)
      /\ DOMAIN (s \o is) = 1..Len(s \o is)
  BY <1>1, <1>2, <1>3, LenProperties
<1>5. /\ m \in Nat /\ n \in Nat /\ DOMAIN s = 1..m /\ DOMAIN is = 1..n
      /\ Len(s \o is) = m + n /\ DOMAIN (s \o is) = 1..(m + n)
      /\ \A i \in 1..(m + n) : (s \o is)[i] = IF i <= m THEN s[i] ELSE is[i - m]
  BY <1>3, <1>4 DEF s
<1> DEFINE t == s \o is
<1> HIDE DEF t
<1>6. \A i \in 1..m : i \in 1..(m + n) /\ t[i] = s[i]
  BY <1>5 DEF t
<1>7. ASSUME NEW i \in 1..n PROVE m + i \in 1..(m + n) /\ t[m + i] = is[i]
  <2>1. m + i \in 1..(m + n) /\ ~(m + i <= m) /\ m + i - m = i
    BY <1>5
  <2> QED
    BY <2>1, <1>5 DEF t
<1>8. \A i \in 1..(m + n) : i \in 1..m \/ (i - m \in 1..n /\ i = m + (i - m))
  BY <1>5
<1> HIDE DEF m, n
<1>9. AddsAt(c, c2, a, is, m, n)
  BY <1>1, <1>5, <1>6, <1>7, <1>8 DEF s, t, AddsAt
<1> QED
  BY <1>9 DEF m, n

(* Not after the end of a block, and no end but the last instruction. *)
MayAdd(c, a, is) ==
    /\ is # <<>> => Open(c, a)
    /\ \A i \in DOMAIN is : is[i].op \in Terminators => i = Len(is)

(* Which blocks are open when instructions have been added. *)
LEMMA AddsOpen ==
    ASSUME NEW c, NEW c2, NEW a, NEW is, Adds(c, c2, a, is)
    PROVE  /\ \A b \in DOMAIN c \ {a} : Open(c2, b) <=> Open(c, b)
           /\ \A b \in DOMAIN c2 \ DOMAIN c : Open(c2, b)
           /\ is = <<>> => c2[a] = c[a]
           /\ is # <<>> => /\ Last(c2[a]) = Last(is) /\ c2[a] # <<>>
                           /\ Open(c2, a) <=> Last(is).op \notin Terminators
<1>1. /\ \A b \in DOMAIN c \ {a} : c2[b] = c[b]
      /\ \A b \in DOMAIN c2 \ DOMAIN c : c2[b] = <<>>
      /\ is \in Seq(InstrSet) /\ c2[a] = c[a] \o is /\ c[a] \in Seq(InstrSet)
  BY InstrFacts DEF Adds, Grows
<1>2. CASE is = <<>>
  BY <1>1, <1>2 DEF Open
<1>3. CASE is # <<>>
  <2> DEFINE m == Len(c[a])
             n == Len(is)
  <2>1. /\ m \in Nat /\ n \in Nat /\ Len(c2[a]) = m + n
        /\ \A i \in 1..n : c2[a][m + i] = is[i]
        /\ DOMAIN is = 1..n /\ DOMAIN c2[a] = 1..(m + n)
    BY AddsFacts DEF AddsAt
  <2>2. n # 0
    BY <1>1, <1>3, EmptySeq
  <2>3. Last(c2[a]) = c2[a][Len(c2[a])] /\ Last(is) = is[n]
    BY DEF Last
  <2> DEFINE l == Len(c2[a])
  <2>5. l = m + n
    BY <2>1
  <2> HIDE DEF m, n, l
  <2>4. n \in 1..n /\ m + n \in 1..(m + n)
    BY <2>1, <2>2
  <2>6. c2[a] # <<>>
    BY <2>1, <2>4
  <2>7. Last(c2[a]) = Last(is)
    BY <2>1, <2>3, <2>4, <2>5 DEF l
  <2> QED
    BY <1>1, <1>3, <2>6, <2>7 DEF Open
<1> QED
  BY <1>2, <1>3

(* Adding instructions to an open block is a step of the code. *)
LEMMA AddsStep ==
    ASSUME NEW c, NEW c2, NEW a, NEW is, Adds(c, c2, a, is), MayAdd(c, a, is), Ending(c)
    PROVE  /\ CodeStep(c, c2, a)
           /\ Ending(c2)
           /\ Targets(c2, a) = IF is = <<>> THEN Targets(c, a)
                               ELSE IF Last(is).op \in Terminators THEN ToSet(Last(is).blocks)
                               ELSE {}
<1>1. /\ \A b \in DOMAIN c \ {a} : c2[b] = c[b]
      /\ \A b \in DOMAIN c2 \ DOMAIN c : c2[b] = <<>>
      /\ DOMAIN c \subseteq DOMAIN c2 /\ CodeType(c) /\ CodeType(c2) /\ a \in DOMAIN c
  BY DEF Adds, Grows
<1> DEFINE m == Len(c[a])
           n == Len(is)
<1>2. /\ m \in Nat /\ n \in Nat /\ DOMAIN c[a] = 1..m /\ DOMAIN is = 1..n
      /\ Len(c2[a]) = m + n /\ DOMAIN c2[a] = 1..(m + n)
      /\ \A i \in 1..m : i \in 1..(m + n) /\ c2[a][i] = c[a][i]
      /\ \A i \in 1..n : m + i \in 1..(m + n) /\ c2[a][m + i] = is[i]
      /\ \A i \in 1..(m + n) : i \in 1..m \/ (i - m \in 1..n /\ i = m + (i - m))
  BY AddsFacts DEF AddsAt
<1>3. Targets(c2, a) = IF is = <<>> THEN Targets(c, a)
                       ELSE IF Last(is).op \in Terminators THEN ToSet(Last(is).blocks) ELSE {}
  <2>1. /\ is = <<>> => c2[a] = c[a]
        /\ is # <<>> => /\ Last(c2[a]) = Last(is)
                        /\ Open(c2, a) <=> Last(is).op \notin Terminators
    BY AddsOpen
  <2>2. CASE is = <<>>
    BY <2>1, <2>2 DEF Targets, Open
  <2>3. CASE is # <<>>
    BY <2>1, <2>3 DEF Targets
  <2> QED
    BY <2>2, <2>3
<1>4. \A b \in DOMAIN c \ {a} : Targets(c2, b) = Targets(c, b)
  BY <1>1 DEF Targets, Open
<1>5. \A b \in DOMAIN c2 \ DOMAIN c : Targets(c2, b) = {}
  BY <1>1 DEF Targets, Open
<1>6. Targets(c, a) \subseteq Targets(c2, a)
  <2>1. is # <<>> => Targets(c, a) = {}
    BY DEF MayAdd, Targets
  <2> QED
    BY <2>1, <1>3
<1>7. ASSUME NEW b \in DOMAIN c, NEW i \in DOMAIN c[b]
      PROVE  i \in DOMAIN c2[b] /\ c2[b][i] = c[b][i]
  <2>1. CASE b = a
    <3> HIDE DEF m, n
    <3> QED
      BY <2>1, <1>2
  <2>2. CASE b # a
    BY <2>2, <1>1
  <2> QED
    BY <2>1, <2>2
<1>8. CodeStep(c, c2, a)
  BY <1>1, <1>4, <1>5, <1>6, <1>7 DEF CodeStep
<1>9. ASSUME NEW b \in DOMAIN c2, NEW i \in DOMAIN c2[b], c2[b][i].op \in Terminators
      PROVE  i = Len(c2[b])
  <2>1. CASE b \in DOMAIN c /\ b # a
    BY <2>1, <1>1, <1>9 DEF Ending
  <2>2. CASE b \notin DOMAIN c
    BY <2>2, <1>1
  <2>3. CASE b = a
    <3> DEFINE l == Len(c2[a])
    <3>1. l = m + n
      BY <1>2
    <3>2. i \in 1..(m + n) /\ c2[a][i].op \in Terminators
      BY <2>3, <1>2, <1>9
    <3>3. CASE i \in 1..m
      <4>1. c[a][i].op \in Terminators
        BY <3>2, <3>3, <1>2
      <4>2. i = m
        BY <4>1, <3>3, <1>1, <1>2 DEF Ending
      <4>3. ~Open(c, a)
        <5>1. c[a] # <<>>
          BY <3>3, <1>2
        <5>2. Last(c[a]) = c[a][m]
          BY DEF Last
        <5> QED
          BY <4>1, <4>2, <5>1, <5>2 DEF Open
      <4>4. is = <<>>
        BY <4>3 DEF MayAdd
      <4>5. n = 0
        BY <4>4
      <4> HIDE DEF m, n, l
      <4> QED
        BY <4>2, <4>5, <3>1, <1>2, <2>3 DEF l
    <3>4. CASE i - m \in 1..n /\ i = m + (i - m)
      <4> DEFINE k == i - m
      <4>1. k \in 1..n /\ i = m + k
        BY <3>4
      <4> HIDE DEF k
      <4>2. is[k].op \in Terminators
        BY <4>1, <3>2, <1>2
      <4>3. k = n
        BY <4>1, <4>2, <1>2 DEF MayAdd
      <4> HIDE DEF m, n, l
      <4> QED
        BY <4>1, <4>3, <3>1, <2>3 DEF l
    <3> QED
      BY <3>2, <3>3, <3>4, <1>2
  <2> QED
    BY <2>1, <2>2, <2>3
<1>10. Ending(c2)
  BY <1>9 DEF Ending
<1> QED
  BY <1>3, <1>8, <1>10

(* The value is known at the end of the block a, or is that of one of the    *)
(* instructions added before the one with the index j.                       *)
Arrives(f, c, D, a, is, j, v) ==
    KnownIn(f, c, D[a], v) \/ (v[2] = f /\ \E k \in 1..(j - 1) : is[k].def = v)

(* An instruction that may be added, if it is not a phi. *)
Fit(u, f, c, D, a, is, j) ==
    /\ is[j].op # "phi" /\ Typed(u, f, is[j])
    /\ \A k \in DOMAIN is[j].args : Arrives(f, c, D, a, is, j, is[j].args[k])

(* It is sound if each of them fits. *)
LEMMA AddsSound ==
    ASSUME NEW c, NEW c2, NEW a, NEW is, Adds(c, c2, a, is), NEW u, NEW f, NEW D, NEW D2,
           Widens(D, D2, c, c2, a),
           \A j \in 1..Len(is) : Fit(u, f, c, D, a, is, j)
    PROVE  NewSound(u, f, c, c2, D2)
<1>1. /\ \A b \in DOMAIN c2 \ DOMAIN c : c2[b] = <<>>
      /\ \A b \in DOMAIN c \ {a} : c2[b] = c[b]
      /\ a \in DOMAIN c
  BY DEF Adds, Grows
<1>2. D2[a] = D[a]
  BY <1>1 DEF Widens
<1>3. D[a] \subseteq DOMAIN c
  BY <1>1 DEF Widens
<1> DEFINE m == Len(c[a])
           n == Len(is)
<1>4. /\ m \in Nat /\ n \in Nat /\ DOMAIN c[a] = 1..m /\ DOMAIN is = 1..n
      /\ DOMAIN c2[a] = 1..(m + n)
      /\ \A i \in 1..m : i \in 1..(m + n) /\ c2[a][i] = c[a][i]
      /\ \A i \in 1..n : m + i \in 1..(m + n) /\ c2[a][m + i] = is[i]
      /\ \A i \in 1..(m + n) : i \in 1..m \/ (i - m \in 1..n /\ i = m + (i - m))
  BY AddsFacts DEF AddsAt
<1>5. \A j \in 1..n : Fit(u, f, c, D, a, is, j)
  OBVIOUS
<1> HIDE DEF m, n
<1>6. ASSUME NEW j \in 1..n, NEW v, Arrives(f, c, D, a, is, j, v)
      PROVE  KnownAt(f, c2, D2, v, a, m + j)
  <2> SUFFICES ASSUME v[1] = "reg"
               PROVE  /\ v[2] = f
                      /\ \/ \E i \in DOMAIN c2[a] : i < m + j /\ c2[a][i].def = v
                         \/ \E d \in D2[a] \ {a} : Defines(c2, d, v)
    BY DEF KnownAt
  <2>1. CASE KnownIn(f, c, D[a], v)
    <3>1. v[2] = f /\ \E d \in D[a] : Defines(c, d, v)
      BY <2>1 DEF KnownIn
    <3>2. PICK d \in D[a] : Defines(c, d, v)
      BY <3>1
    <3>3. PICK i \in DOMAIN c[d] : c[d][i].def = v
      BY <3>2 DEF Defines
    <3>4. CASE d = a
      <4>1. i \in 1..m
        BY <3>4, <1>4
      <4>2. i \in DOMAIN c2[a] /\ i < m + j /\ c2[a][i].def = v
        BY <4>1, <3>3, <3>4, <1>4
      <4> QED
        BY <3>1, <4>2
    <3>5. CASE d # a
      <4>1. d \in D2[a] \ {a} /\ c2[d] = c[d]
        BY <3>5, <1>1, <1>2, <1>3
      <4> QED
        BY <4>1, <3>1, <3>3 DEF Defines
    <3> QED
      BY <3>4, <3>5
  <2>2. CASE v[2] = f /\ \E k \in 1..(j - 1) : is[k].def = v
    <3>1. PICK k \in 1..(j - 1) : is[k].def = v
      BY <2>2
    <3>2. k \in 1..n /\ m + k < m + j
      BY <1>4
    <3>3. m + k \in DOMAIN c2[a] /\ c2[a][m + k].def = v
      BY <3>1, <3>2, <1>4
    <3> QED
      BY <2>2, <3>2, <3>3
  <2> QED
    BY <1>6, <2>1, <2>2 DEF Arrives
<1>7. ASSUME NEW j \in 1..n PROVE Sound(u, f, c2, D2, a, m + j)
  <2>1. c2[a][m + j] = is[j] /\ Fit(u, f, c, D, a, is, j)
    BY <1>4, <1>5
  <2>2. \A k \in DOMAIN is[j].args : KnownAt(f, c2, D2, is[j].args[k], a, m + j)
    BY <2>1, <1>6 DEF Fit
  <2> QED
    BY <2>1, <2>2 DEF Fit, Sound
<1> SUFFICES ASSUME NEW b \in DOMAIN c2, NEW i \in DOMAIN c2[b],
                    ~(b \in DOMAIN c /\ i \in DOMAIN c[b])
             PROVE  Sound(u, f, c2, D2, b, i)
  BY DEF NewSound
<1>8. b = a
  BY <1>1
<1>9. i - m \in 1..n /\ i = m + (i - m)
  BY <1>1, <1>4, <1>8
<1> DEFINE k == i - m
<1>10. k \in 1..n /\ i = m + k
  BY <1>9
<1> HIDE DEF k
<1> QED
  BY <1>7, <1>8, <1>10

-----------------------------------------------------------------------------
(* What is said of a visit, after a step that is not its own.                *)

(* The blocks that wait for the ends of its branches are not gone to. *)
Untouched(v, c, c2) ==
    /\ v.node = "if" /\ v.source => Sources(c2, Last(v.blocks)) = Sources(c, Last(v.blocks))
    /\ v.node = "if_expr" /\ Part(v) \in {1, 2} =>
          Sources(c2, v.blocks[3]) = Sources(c, v.blocks[3])

(* The builder stays in a branch of it. *)
Settled(v, a, a2) == v.node = "if" /\ v.source /\ ~CondPart(v) => a2 = a

(* The variables of a visit keep their slots. *)
SameSlots(v, slots, slots2) == \A id \in v.declared : slots2[id] = slots[id]

(* The block that a value of a phi comes from is one of the if. *)
LEMMA PhiBlockIn ==
    ASSUME NEW v, NEW u, NEW r, NEW E, Local(v, u, r, E), v.node = "if", v.source,
           NEW k \in Nat \ {0}
    PROVE  /\ PhiBlock(v, k) \in E
           /\ (IF k <= v.branches THEN 2 * k - 1 ELSE 2 * v.branches) \in DOMAIN v.blocks
<1> DEFINE br == v.branches
           i == IF k <= br THEN 2 * k - 1 ELSE 2 * br
<1>1. /\ br \in Nat /\ br >= 1 /\ v.blocks \in Seq(Nat) /\ ToSet(v.blocks) \subseteq E
      /\ Len(v.blocks) = 2 * br + 1
  BY DEF Local, VisitType, IfParts
<1>2. DOMAIN v.blocks = 1..(2 * br + 1)
  BY <1>1, LenProperties
<1> HIDE DEF br
<1>3. i \in 1..(2 * br + 1)
  BY <1>1
<1> HIDE DEF i
<1>4. v.blocks[i] \in E
  BY <1>1, <1>2, <1>3 DEF ToSet
<1> QED
  BY <1>2, <1>3, <1>4 DEF PhiBlock, i, br

(* The blocks of an if expression, by the part that is visited. *)
LEMMA IfExprBlocks ==
    ASSUME NEW v, NEW u, NEW r, NEW E, Local(v, u, r, E), v.node = "if_expr"
    PROVE  /\ Part(v) = 1 => /\ Len(v.blocks) = 3 /\ v.blocks[3] \in E
                              /\ Pending(v) = {v.blocks[2], v.blocks[3]}
           /\ Part(v) = 2 => Len(v.blocks) = 4 /\ v.blocks[3] \in E /\ v.blocks[4] \in E
                             /\ Pending(v) = {v.blocks[3]}
           /\ Part(v) = 0 => Pending(v) = {}
           /\ Part(v) = Len(v.values) /\ Part(v) \in 0..2
<1>1. /\ v.blocks \in Seq(Nat) /\ ToSet(v.blocks) \subseteq E
      /\ \/ Part(v) = 0 /\ Len(v.blocks) = 0
         \/ Part(v) = 1 /\ Len(v.blocks) = 3
         \/ Part(v) = 2 /\ Len(v.blocks) = 4
      /\ Len(v.values) = Part(v)
  BY DEF Local, VisitType, ExprParts, ExprNodes
<1> DEFINE n == Len(v.blocks)
           m == Len(v.values)
           p == Part(v)
<1>2. DOMAIN v.blocks = 1..n /\ m = p
  BY <1>1, LenProperties
<1>3. n = 0 => v.blocks = <<>>
  BY <1>1, EmptySeq
<1>4. (p = 0 /\ n = 0) \/ (p = 1 /\ n = 3) \/ (p = 2 /\ n = 4)
  BY <1>1
<1>5. /\ v.blocks # <<>> => Pending(v) = {v.blocks[j] : j \in (m + 1)..3}
      /\ v.blocks = <<>> => Pending(v) = {}
  BY DEF Pending, PendingParts
<1> HIDE DEF n, m, p
<1>6. n # 0 => v.blocks # <<>>
  BY <1>2, <1>4
<1>7. CASE p = 0 /\ n = 0
  BY <1>3, <1>5, <1>7, <1>2 DEF n, m, p
<1>8. CASE p = 1 /\ n = 3
  <2>1. (m + 1)..3 = {2, 3}
    BY <1>2, <1>8
  <2>2. Pending(v) = {v.blocks[2], v.blocks[3]}
    BY <1>5, <1>6, <1>8, <2>1
  <2>3. v.blocks[3] \in E
    BY <1>1, <1>2, <1>8 DEF ToSet
  <2> QED
    BY <1>2, <1>8, <2>2, <2>3 DEF n, m, p
<1>9. CASE p = 2 /\ n = 4
  <2>1. (m + 1)..3 = {3}
    BY <1>2, <1>9
  <2>2. Pending(v) = {v.blocks[3]}
    BY <1>5, <1>6, <1>9, <2>1
  <2>3. v.blocks[3] \in E /\ v.blocks[4] \in E
    BY <1>1, <1>2, <1>9 DEF ToSet
  <2> QED
    BY <1>2, <1>9, <2>2, <2>3 DEF n, m, p
<1> QED
  BY <1>4, <1>7, <1>8, <1>9

(* A visit goes on to stand as code is added elsewhere. *)
LEMMA StandsStays ==
    ASSUME NEW c, NEW c2, NEW a, CodeStep(c, c2, a), NEW D, NEW D2, Widens(D, D2, c, c2, a),
           NEW v, NEW u, NEW r, Local(v, u, r, DOMAIN c), NEW h, h \subseteq DOMAIN c,
           NEW f, NEW a1, NEW a2, NEW slots, NEW slots2, Stands(v, h, f, r, c, D, a1, slots),
           Untouched(v, c, c2), Settled(v, a1, a2), SameSlots(v, slots, slots2)
    PROVE  Stands(v, h, f, r, c2, D2, a2, slots2)
<1>1. /\ \A d \in DOMAIN c : D2[d] = D[d] /\ D[d] \subseteq DOMAIN c
  BY DEF Widens
<1>2. ASSUME NEW b \in Pending(v) PROVE D2[b] = h \cup {b}
  <2>1. b \in DOMAIN c
    BY PendingAreBlocks
  <2> QED
    BY <1>1, <2>1 DEF Stands
<1>3. ASSUME NEW x \in Carried(v, slots2) PROVE KnownIn(f, c2, h, x)
  <2>1. x \in Carried(v, slots)
    BY DEF Carried, SameSlots
  <2>2. KnownIn(f, c, h, x)
    BY <2>1 DEF Stands
  <2> QED
    BY <2>2, KnownStays
<1>4. IfStands(v, f, c2, D2, a2)
  <2> SUFFICES ASSUME v.node = "if", v.source
               PROVE  IfStands(v, f, c2, D2, a2)
    BY DEF IfStands
  <2>1. /\ \A i, j \in DOMAIN v.blocks : v.blocks[i] = v.blocks[j] => i = j
        /\ Len(v.values) = BodiesDone(v)
        /\ Sources(c, Last(v.blocks)) = {PhiBlock(v, k) : k \in 1..Len(v.values)}
        /\ \A k \in 1..Len(v.values) :
              KnownIn(f, c, D[PhiBlock(v, k)], v.values[k]) /\ TypeOf(v.values[k]) \in v.want
        /\ ~CondPart(v) => a1 = v.blocks[Part(v)]
    BY DEF Stands, IfStands
  <2>2. Sources(c2, Last(v.blocks)) = {PhiBlock(v, k) : k \in 1..Len(v.values)}
    BY <2>1 DEF Untouched
  <2>3. ~CondPart(v) => a2 = v.blocks[Part(v)]
    BY <2>1 DEF Settled
  <2>4. ASSUME NEW k \in 1..Len(v.values) PROVE KnownIn(f, c2, D2[PhiBlock(v, k)], v.values[k])
    <3>1. k \in Nat \ {0}
      BY PartsOf
    <3>2. PhiBlock(v, k) \in DOMAIN c
      BY <3>1, PhiBlockIn
    <3>3. /\ KnownIn(f, c, D[PhiBlock(v, k)], v.values[k])
          /\ D2[PhiBlock(v, k)] = D[PhiBlock(v, k)] /\ D[PhiBlock(v, k)] \subseteq DOMAIN c
      BY <1>1, <2>1, <3>2
    <3> QED
      BY <3>3, KnownStays
  <2> QED
    BY <2>1, <2>2, <2>3, <2>4 DEF IfStands
<1>5. IfExprStands(v, f, c2, D2)
  <2> SUFFICES ASSUME v.node = "if_expr" PROVE IfExprStands(v, f, c2, D2)
    BY DEF IfExprStands
  <2>1. IfExprStands(v, f, c, D)
    BY DEF Stands
  <2>2. ASSUME Part(v) = 1 PROVE Sources(c2, v.blocks[3]) = {}
    BY <2>1, <2>2 DEF IfExprStands, Untouched
  <2>3. ASSUME Part(v) = 2
        PROVE  /\ Sources(c2, v.blocks[3]) = {v.blocks[4]}
               /\ KnownIn(f, c2, D2[v.blocks[4]], v.values[2])
               /\ TypeOf(v.values[2]) \in v.want
    <3>1. v.blocks[4] \in DOMAIN c
      BY <2>3, IfExprBlocks
    <3>2. /\ Sources(c, v.blocks[3]) = {v.blocks[4]}
          /\ KnownIn(f, c, D[v.blocks[4]], v.values[2])
          /\ TypeOf(v.values[2]) \in v.want
      BY <2>1, <2>3 DEF IfExprStands
    <3>3. KnownIn(f, c2, D2[v.blocks[4]], v.values[2])
      <4>1. D2[v.blocks[4]] = D[v.blocks[4]] /\ D[v.blocks[4]] \subseteq DOMAIN c
        BY <1>1, <3>1
      <4> QED
        BY <3>2, <4>1, KnownStays
    <3> QED
      BY <2>3, <3>2, <3>3 DEF Untouched
  <2> QED
    BY <2>2, <2>3 DEF IfExprStands
<1>6. Wanted(v, r)
  BY DEF Stands
<1> QED
  BY <1>2, <1>3, <1>4, <1>5, <1>6 DEF Stands

(* But for what does not matter to it, w is v. *)
Alike(v, w) ==
    /\ SameVisit(v, w) /\ w.values = v.values /\ w.blocks = v.blocks /\ w.declared = v.declared
    /\ v.node \in {"if", "if_expr", "unary", "binary", "call"} => Part(w) = Part(v)

(* A visit like one that stands does. *)
LEMMA AlikeStands ==
    ASSUME NEW v, NEW w, Alike(v, w), NEW h, NEW f, NEW r, NEW c, NEW D, NEW a, NEW slots,
           Stands(v, h, f, r, c, D, a, slots)
    PROVE  Stands(w, h, f, r, c, D, a, slots) /\ Pending(w) = Pending(v)
<1>1. /\ w.node = v.node /\ w.op = v.op /\ w.want = v.want /\ w.source = v.source
      /\ w.branches = v.branches /\ w.values = v.values /\ w.blocks = v.blocks
      /\ w.declared = v.declared
      /\ v.node \in {"if", "if_expr", "unary", "binary", "call"} => Part(w) = Part(v)
  BY DEF Alike, SameVisit
<1>2. PendingParts(w) = PendingParts(v)
  BY <1>1 DEF PendingParts
<1>3. Pending(w) = Pending(v)
  BY <1>1, <1>2 DEF Pending
<1>4. Carried(w, slots) = Carried(v, slots)
  BY <1>1 DEF Carried
<1>5. v.node = "if" => BodiesDone(w) = BodiesDone(v) /\ (CondPart(w) <=> CondPart(v))
  BY <1>1 DEF BodiesDone, CondPart
<1>6. \A k : PhiBlock(w, k) = PhiBlock(v, k)
  BY <1>1 DEF PhiBlock
<1>7. IfStands(w, f, c, D, a)
  <2>1. IfStands(v, f, c, D, a)
    BY DEF Stands
  <2> QED
    BY <1>1, <1>5, <1>6, <2>1 DEF IfStands
<1>8. IfExprStands(w, f, c, D)
  <2>1. IfExprStands(v, f, c, D)
    BY DEF Stands
  <2> QED
    BY <1>1, <2>1 DEF IfExprStands
<1>9. Wanted(w, r)
  <2>1. Wanted(v, r)
    BY DEF Stands
  <2> QED
    BY <1>1, <2>1 DEF Wanted
<1> QED
  BY <1>3, <1>4, <1>7, <1>8, <1>9 DEF Stands

(* It takes the same types. *)
LEMMA AlikeTakes ==
    ASSUME NEW v, NEW w, Alike(v, w)
    PROVE  \A t : Takes(w, t) <=> Takes(v, t)
<1>1. /\ w.node = v.node /\ w.op = v.op /\ w.want = v.want /\ w.source = v.source
      /\ w.branches = v.branches /\ w.values = v.values
      /\ v.node \in {"if", "if_expr", "unary", "binary", "call"} => Part(w) = Part(v)
  BY DEF Alike, SameVisit
<1>2. v.node = "if" => (CondPart(w) <=> CondPart(v))
  BY <1>1 DEF CondPart
<1> QED
  BY <1>1, <1>2 DEF Takes

(* The visit of a part of it has ended. *)
LEMMA GivenTreeAlike ==
    ASSUME NEW v, VisitType(v), NEW tree, v.node # "block" => ~v.after
    PROVE  Alike(v, GivenTree(v, tree))
<1> DEFINE w == GivenTree(v, tree)
<1>1. /\ SameVisit(v, w) /\ Len(w.trees) = Len(v.trees) + 1 /\ w.after = TRUE
      /\ w.values = v.values /\ w.blocks = v.blocks /\ w.declared = v.declared
  BY GivenTreeVisit
<1>2. Len(v.trees) \in Nat /\ v.after \in BOOLEAN
  BY SeqItems DEF VisitType
<1> HIDE DEF w
<1>3. v.node # "block" => Part(w) = Part(v)
  BY <1>1, <1>2 DEF Part
<1>4. Alike(v, w)
  BY <1>1, <1>3 DEF Alike
<1> QED
  BY <1>4 DEF w

-----------------------------------------------------------------------------
(* The visits vs in the function f of u, its basic blocks c, with the builder *)
(* at a.                                                                      *)
Good(vs, c, a, slots, u, f, D, H) ==
    /\ Ending(c) /\ OpenAre(vs, c, a) /\ Linking(vs) /\ NoNest(vs)
    /\ Dominators(D, c) /\ AllSound(u, f, c, D) /\ Homes(H, vs, D, a)
    /\ \A k \in 1..Len(vs) : Stands(vs[k], H[k], f, u[f].ret, c, D, a, slots)

(* What the invariant of CompileProofs says of them. *)
Kept(vs, c, a, u, f) ==
    /\ Shape(vs, u, u[f].ret, DOMAIN c) /\ PendingInv(vs, c, a)
    /\ vs # <<>> /\ CodeType(c) /\ a \in DOMAIN c

(* A step adds to the code, and goes to no block but new ones and those that *)
(* the node on top waits for.                                                *)
CodeMoves(vs, c, a, c2, a2, u, f, D, D2) ==
    /\ CodeStep(c, c2, a) /\ Ending(c2) /\ a2 \in DOMAIN c2
    /\ Widens(D, D2, c, c2, a)
    /\ NewSound(u, f, c, c2, D2)
    /\ \A t \in Targets(c2, a) :
          t \in Targets(c, a) \/ t \notin DOMAIN c \/ t \in Pending(vs[Len(vs)])
    /\ a2 = a \/ vs[Len(vs)].node \in {"if", "if_expr"}

(* What follows for visits. *)
LEMMA KeptFacts ==
    ASSUME NEW vs, NEW c, NEW a, NEW u, NEW f, Kept(vs, c, a, u, f)
    PROVE  /\ IsSeq(vs) /\ Len(vs) \in Nat /\ Len(vs) >= 1 /\ DOMAIN vs = 1..Len(vs)
           /\ Len(vs) \in 1..Len(vs)
           /\ \A k \in 1..Len(vs) : /\ Local(vs[k], u, u[f].ret, DOMAIN c)
                                    /\ \A b \in Pending(vs[k]) :
                                          b \in DOMAIN c /\ c[b] = <<>> /\ b # a
<1>1. IsSeq(vs) /\ vs # <<>> /\ \A k \in 1..Len(vs) : Local(vs[k], u, u[f].ret, DOMAIN c)
  BY DEF Kept, Shape
<1> DEFINE n == Len(vs)
<1>2. n \in Nat /\ n >= 1 /\ DOMAIN vs = 1..n
  BY <1>1, SeqItems
<1>3. ASSUME NEW k \in 1..n, NEW b \in Pending(vs[k])
      PROVE  b \in DOMAIN c /\ c[b] = <<>> /\ b # a
  BY <1>1, <1>2, <1>3, PendingAreBlocks DEF Kept, PendingInv
<1>4. n \in 1..n
  <2> HIDE DEF n
  <2> QED
    BY <1>2
<1> QED
  BY <1>1, <1>2, <1>3, <1>4

(* The new edges do not matter to the visits below. *)
LEMMA BelowUntouched ==
    ASSUME NEW vs, NEW c, NEW a, NEW u, NEW f, Kept(vs, c, a, u, f), NEW c2, NEW a2,
           NEW D, NEW D2, CodeMoves(vs, c, a, c2, a2, u, f, D, D2), NoNest(vs),
           NEW k \in 1..(Len(vs) - 1)
    PROVE  Untouched(vs[k], c, c2) /\ Settled(vs[k], a, a2)
<1> DEFINE n == Len(vs)
           v == vs[k]
           p == vs[k + 1]
<1>1. /\ n \in Nat /\ n >= 1 /\ DOMAIN vs = 1..n /\ IsSeq(vs)
      /\ \A j \in 1..n : Local(vs[j], u, u[f].ret, DOMAIN c)
  BY KeptFacts
<1>2. k \in 1..(n - 1)
  OBVIOUS
<1> HIDE DEF n
<1>3. k \in 1..n /\ k # n /\ n \in 1..n /\ k + 1 \in 1..n /\ n \in (k + 1)..n
  BY <1>1, <1>2
<1>4. Linked(v, p) /\ Local(v, u, u[f].ret, DOMAIN c)
  BY <1>1, <1>2, <1>3 DEF Kept, Shape, n
<1>5. Pending(v) \subseteq DOMAIN c /\ Pending(v) \cap Pending(vs[n]) = {}
  BY <1>1, <1>3, <1>4, PendingAreBlocks DEF Kept, PendingInv
<1>6. ASSUME NEW b \in Pending(v) PROVE Sources(c2, b) = Sources(c, b)
  <2>1. b \in Targets(c2, a) => b \in Targets(c, a)
    BY <1>5 DEF CodeMoves, n
  <2> QED
    BY <2>1, SourcesStay DEF CodeMoves
<1>7. ASSUME v.node = "if", v.source PROVE Last(v.blocks) \in Pending(v)
  <2> DEFINE l == Len(v.blocks)
             t == Len(v.trees)
             br == v.branches
  <2>1. /\ t \in Nat /\ l \in Nat /\ br \in Nat /\ ~v.after /\ t < l
    BY <1>4, <1>7, PartsOf DEF Linked, Local, VisitType
  <2>2. Part(v) = t
    BY <2>1 DEF Part
  <2>3. PendingParts(v) = (t + 1)..l
    BY <1>7, <2>2 DEF PendingParts
  <2>5. Last(v.blocks) = v.blocks[l]
    BY DEF Last
  <2> HIDE DEF l, t
  <2>4. l \in (t + 1)..l
    BY <2>1
  <2> QED
    BY <2>3, <2>4, <2>5 DEF Pending
<1>8. Untouched(v, c, c2)
  <2>1. v.node = "if_expr" /\ Part(v) \in {1, 2} => v.blocks[3] \in Pending(v)
    BY <1>4, IfExprBlocks
  <2> QED
    BY <2>1, <1>6, <1>7 DEF Untouched
<1>9. Settled(v, a, a2)
  <2> SUFFICES ASSUME v.node = "if", v.source, ~CondPart(v) PROVE a2 = a
    BY DEF Settled
  <2>1. p.node \in Nodes
    BY <1>1, <1>3 DEF Local, VisitType
  <2>2. p.node = "block"
    BY <2>1, <1>4 DEF Linked, ExprPart, Nodes, ExprNodes
  <2>3. vs[n].node \notin {"if", "if_expr"}
    BY <2>2, <1>2, <1>3 DEF NoNest, n
  <2> QED
    BY <2>3 DEF CodeMoves, n
<1> QED
  BY <1>8, <1>9

(* Visits below the top stand after a step. *)
LEMMA FrameStands ==
    ASSUME NEW vs, NEW c, NEW a, NEW u, NEW f, Kept(vs, c, a, u, f), NEW c2, NEW a2,
           NEW D, NEW D2, CodeMoves(vs, c, a, c2, a2, u, f, D, D2),
           NEW slots, NEW H, Good(vs, c, a, slots, u, f, D, H), NEW slots2,
           NEW k \in 1..(Len(vs) - 1), SameSlots(vs[k], slots, slots2)
    PROVE  Stands(vs[k], H[k], f, u[f].ret, c2, D2, a2, slots2)
<1> DEFINE n == Len(vs)
           v == vs[k]
           h == H[k]
           r == u[f].ret
<1>1. /\ n \in Nat /\ n >= 1
      /\ \A j \in 1..n : Local(vs[j], u, r, DOMAIN c)
  BY KeptFacts
<1>2. k \in 1..(n - 1)
  OBVIOUS
<1>3. /\ \A j \in 1..n : H[j] \subseteq D[a]
      /\ \A j \in 1..n : Stands(vs[j], H[j], f, r, c, D, a, slots)
      /\ NoNest(vs)
  BY DEF Good, Homes
<1>4. D[a] \subseteq DOMAIN c /\ CodeStep(c, c2, a) /\ Widens(D, D2, c, c2, a)
  BY DEF CodeMoves, Widens, Kept
<1>5. Untouched(v, c, c2) /\ Settled(v, a, a2)
  BY <1>3, BelowUntouched
<1> HIDE DEF n
<1>6. k \in 1..n
  BY <1>1, <1>2
<1>7. Local(v, u, r, DOMAIN c) /\ h \subseteq DOMAIN c /\ Stands(v, h, f, r, c, D, a, slots)
  BY <1>1, <1>3, <1>4, <1>6
<1>8. SameSlots(v, slots, slots2)
  OBVIOUS
<1> HIDE DEF v, h, r
<1>9. Stands(v, h, f, r, c2, D2, a2, slots2)
  BY <1>4, <1>5, <1>7, <1>8, StandsStays
<1> QED
  BY <1>9 DEF v, h, r

(* The basic blocks. *)
LEMMA GraphGrows ==
    ASSUME NEW vs, NEW c, NEW a, NEW u, NEW f, Kept(vs, c, a, u, f), NEW c2, NEW a2,
           NEW D, NEW D2, CodeMoves(vs, c, a, c2, a2, u, f, D, D2),
           NEW slots, NEW H, Good(vs, c, a, slots, u, f, D, H)
    PROVE  Dominators(D2, c2) /\ AllSound(u, f, c2, D2) /\ Ending(c2)
<1> DEFINE n == Len(vs)
           T == Targets(c2, a)
<1>1. /\ CodeStep(c, c2, a) /\ Ending(c2) /\ Widens(D, D2, c, c2, a)
      /\ NewSound(u, f, c, c2, D2)
      /\ \A t \in T : t \in Targets(c, a) \/ t \notin DOMAIN c \/ t \in Pending(vs[n])
  BY DEF CodeMoves
<1>2. /\ n \in 1..n
      /\ \A b \in Pending(vs[n]) : b \in DOMAIN c /\ c[b] = <<>> /\ b # a
  BY KeptFacts
<1>3. /\ Dominators(D, c) /\ AllSound(u, f, c, D)
      /\ \A j \in 1..n : H[j] \subseteq D[a]
      /\ \A j \in 1..n : Stands(vs[j], H[j], f, u[f].ret, c, D, a, slots)
  BY DEF Good, Homes
<1>4. ASSUME NEW b \in Pending(vs[n]) PROVE D[b] \subseteq D[a] \cup {b}
  <2>1. D[b] = H[n] \cup {b} /\ H[n] \subseteq D[a]
    BY <1>2, <1>3 DEF Stands
  <2> QED
    BY <2>1
<1>5. \A t \in T : t \in Targets(c, a) \/ t \notin DOMAIN c \/ D[t] \subseteq D[a] \cup {t}
  BY <1>1, <1>4
<1>6. \A t \in T : t \in Targets(c, a) \/ t \notin DOMAIN c \/ c[t] = <<>>
  BY <1>1, <1>2
<1>7. Dominators(D2, c2)
  BY <1>1, <1>3, <1>5, DominatorsGrow
<1>8. AllSound(u, f, c2, D2)
  BY <1>1, <1>3, <1>6, AllSoundGrows
<1> QED
  BY <1>1, <1>7, <1>8

-----------------------------------------------------------------------------
(* A block that is open in c2 is the builder's, one of P, or was open in c   *)
(* and is none of the visit v.                                               *)
Opened(c, a, c2, a2, v, P) ==
    \A b \in DOMAIN c2 : Open(c2, b) =>
        \/ b = a2 \/ b \in P
        \/ b \in DOMAIN c /\ Open(c, b) /\ b # a /\ b \notin Pending(v)

(* The homes of the visits vs2, of which the last one has the home h.        *)
HomesWith(H, n, h) == [k \in 1..n |-> IF k = n THEN h ELSE H[k]]

(* A home for the visit n, which is no smaller than its last. *)
HomeFor(H, n, h, D2, a2) == H[n] \subseteq h /\ h \subseteq D2[a2]

(* The homes after a step in which n visits are left. *)
LEMMA HomesKept ==
    ASSUME NEW vs, NEW c, NEW a, NEW u, NEW f, Kept(vs, c, a, u, f), NEW c2, NEW a2,
           NEW D, NEW D2, CodeMoves(vs, c, a, c2, a2, u, f, D, D2),
           NEW slots, NEW H, Good(vs, c, a, slots, u, f, D, H),
           NEW n \in 1..Len(vs), NEW h, HomeFor(H, n, h, D2, a2),
           NEW vs2, Len(vs2) = n
    PROVE  Homes(HomesWith(H, n, h), vs2, D2, a2)
<1> DEFINE l == Len(vs)
           H2 == HomesWith(H, n, h)
<1>1. l \in Nat /\ n \in 1..l
  BY KeptFacts
<1>2. /\ \A k \in 1..l : 1 \in H[k]
      /\ \A j, k \in 1..l : j <= k => H[j] \subseteq H[k]
  BY DEF Good, Homes
<1>3. H[n] \subseteq h /\ h \subseteq D2[a2]
  BY DEF HomeFor
<1> HIDE DEF l
<1>4. DOMAIN H2 = 1..n /\ \A k \in 1..n : H2[k] = IF k = n THEN h ELSE H[k]
  BY DEF HomesWith
<1>5. ASSUME NEW k \in 1..n PROVE 1 \in H2[k] /\ H2[k] \subseteq D2[a2]
  <2>1. k \in 1..l /\ k <= n
    BY <1>1
  <2>2. H[k] \subseteq H[n] /\ 1 \in H[k] /\ 1 \in H[n]
    BY <1>1, <1>2, <2>1
  <2> QED
    BY <1>3, <1>4, <2>2
<1>6. ASSUME NEW j \in 1..n, NEW k \in 1..n, j <= k PROVE H2[j] \subseteq H2[k]
  <2>1. j \in 1..l /\ k \in 1..l /\ j <= n /\ k <= n
    BY <1>1
  <2>2. H[j] \subseteq H[k] /\ H[j] \subseteq H[n] /\ H[k] \subseteq H[n]
    BY <1>1, <1>2, <1>6, <2>1
  <2>3. k # n => j # n
    BY <1>1, <1>6, <2>1
  <2> HIDE DEF H2
  <2> QED
    BY <1>3, <1>4, <2>2, <2>3
<1> QED
  BY <1>4, <1>5, <1>6 DEF Homes

-----------------------------------------------------------------------------
(* What feeds the parent does so while it is visited. *)
LEMMA FeedsAlike ==
    ASSUME NEW p, NEW c, NEW w, SameVisit(c, w), Feeds(p, c)
    PROVE  Feeds(p, w)
BY DEF SameVisit, Feeds, Gives

(* The visit on top changes. *)
LEMMA TopsGood ==
    ASSUME NEW vs, NEW c, NEW a, NEW u, NEW f, Kept(vs, c, a, u, f), NEW c2, NEW a2,
           NEW D, NEW D2, CodeMoves(vs, c, a, c2, a2, u, f, D, D2),
           NEW slots, NEW H, Good(vs, c, a, slots, u, f, D, H),
           NEW vs2, NEW w, Tops(vs, vs2, w), SameVisit(vs[Len(vs)], w),
           Opened(c, a, c2, a2, vs[Len(vs)], Pending(w)),
           w.node = "fn" /\ ~w.after => ~Open(c2, a2),
           NEW h, HomeFor(H, Len(vs), h, D2, a2),
           Stands(w, h, f, u[f].ret, c2, D2, a2, slots)
    PROVE  Good(vs2, c2, a2, slots, u, f, D2, HomesWith(H, Len(vs), h))
<1> DEFINE n == Len(vs)
           r == u[f].ret
           v == vs[n]
           H2 == HomesWith(H, n, h)
<1>1. /\ n \in Nat /\ n >= 1 /\ DOMAIN vs = 1..n /\ n \in 1..n
  BY KeptFacts
<1>2. /\ IsSeq(vs2) /\ Len(vs2) = n
      /\ \A k \in 1..(n - 1) : vs2[k] = vs[k]
      /\ vs2[n] = w
  BY DEF Tops
<1>3. DOMAIN vs2 = 1..n /\ Last(vs2) = w
  BY <1>2, SeqItems DEF Last
<1>4. /\ OpenAre(vs, c, a) /\ Linking(vs) /\ NoNest(vs)
  BY DEF Good
<1>5. Homes(H2, vs2, D2, a2)
  BY <1>1, <1>2, HomesKept
<1>6. Dominators(D2, c2) /\ AllSound(u, f, c2, D2) /\ Ending(c2)
  BY GraphGrows
<1>7. \A k \in 1..(n - 1) : Stands(vs[k], H[k], f, r, c2, D2, a2, slots)
  BY FrameStands DEF SameSlots
<1>8. \A k \in 1..n : H2[k] = IF k = n THEN h ELSE H[k]
  BY DEF HomesWith
<1>9. Stands(w, h, f, r, c2, D2, a2, slots)
  OBVIOUS
<1>10. /\ SameVisit(v, w) /\ Opened(c, a, c2, a2, v, Pending(w))
       /\ w.node = v.node /\ w.source = v.source
  BY DEF SameVisit
<1>11. w.node = "fn" /\ ~w.after => ~Open(c2, a2)
  OBVIOUS
<1> HIDE DEF n, r, H2
<1>12. ASSUME NEW k \in 1..n PROVE k = n \/ k \in 1..(n - 1)
  BY <1>1
<1>13. ASSUME NEW k \in 1..n PROVE Stands(vs2[k], H2[k], f, r, c2, D2, a2, slots)
  BY <1>2, <1>7, <1>8, <1>9, <1>12
<1>14. OpenAre(vs2, c2, a2)
  <2>1. ASSUME NEW b \in DOMAIN c2, Open(c2, b), b # a2
        PROVE  \E k \in DOMAIN vs2 : b \in Pending(vs2[k])
    <3>1. CASE b \in Pending(w)
      BY <3>1, <1>1, <1>2, <1>3
    <3>2. CASE b \in DOMAIN c /\ Open(c, b) /\ b # a /\ b \notin Pending(v)
      <4>1. PICK k \in 1..n : b \in Pending(vs[k])
        BY <3>2, <1>1, <1>4 DEF OpenAre
      <4>2. k \in 1..(n - 1)
        BY <3>2, <4>1, <1>12
      <4> QED
        BY <4>1, <4>2, <1>2, <1>3
    <3> QED
      BY <3>1, <3>2, <2>1, <1>10 DEF Opened
  <2> QED
    BY <2>1, <1>3, <1>11 DEF OpenAre
<1>15. Linking(vs2)
  <2> SUFFICES ASSUME NEW k \in 1..(n - 1) PROVE Feeds(vs2[k], vs2[k + 1])
    BY <1>2 DEF Linking
  <2>1. Feeds(vs[k], vs[k + 1]) /\ vs2[k] = vs[k]
    BY <1>2, <1>4 DEF Linking, n
  <2>2. CASE k + 1 = n
    BY <2>1, <2>2, <1>2, <1>10, FeedsAlike
  <2>3. CASE k + 1 # n
    <3>1. k + 1 \in 1..(n - 1)
      BY <2>3, <1>1
    <3> QED
      BY <2>1, <3>1, <1>2
  <2> QED
    BY <2>2, <2>3
<1>16. NoNest(vs2)
  <2>1. \A k \in 1..n : vs2[k].node = vs[k].node /\ vs2[k].source = vs[k].source
    BY <1>2, <1>10, <1>12
  <2> SUFFICES ASSUME NEW k \in 1..(n - 1), NEW m \in (k + 1)..n,
                      vs2[k].node = "if" /\ vs2[k].source /\ vs2[k + 1].node = "block"
               PROVE  vs2[m].node \notin {"if", "if_expr"}
    BY <1>2 DEF NoNest
  <2>2. k \in 1..n /\ k + 1 \in 1..n /\ m \in 1..n
    BY <1>1
  <2>3. vs[m].node \notin {"if", "if_expr"}
    BY <2>1, <2>2, <1>4 DEF NoNest, n
  <2> QED
    BY <2>1, <2>2, <2>3
<1>17. Good(vs2, c2, a2, slots, u, f, D2, H2)
  BY <1>2, <1>5, <1>6, <1>13, <1>14, <1>15, <1>16 DEF Good, r
<1> QED
  BY <1>17 DEF H2, n

-----------------------------------------------------------------------------
(* The visit of a part begins: its home is all that the builder has. *)
LEMMA PushesGood ==
    ASSUME NEW vs, NEW c, NEW a, NEW u, NEW f, Kept(vs, c, a, u, f), NEW c2,
           NEW D, NEW D2, CodeMoves(vs, c, a, c2, a, u, f, D, D2),
           Targets(c2, a) = Targets(c, a),
           NEW slots, NEW H, Good(vs, c, a, slots, u, f, D, H),
           NEW vs2, NEW w, NEW v2, Pushes(vs, vs2, w, v2), Alike(vs[Len(vs)], w),
           Opened(c, a, c2, a, vs[Len(vs)], Pending(w) \cup Pending(v2)),
           v2.node # "fn", Feeds(w, v2),
           v2.node \in {"if", "if_expr"} =>
               ~\E k \in 1..(Len(vs) - 1) :
                   vs[k].node = "if" /\ vs[k].source /\ vs[k + 1].node = "block",
           Stands(v2, D[a], f, u[f].ret, c2, D2, a, slots)
    PROVE  Good(vs2, c2, a, slots, u, f, D2, HomesWith(H, Len(vs) + 1, D[a]))
<1> DEFINE n == Len(vs)
           r == u[f].ret
           v == vs[n]
           H2 == HomesWith(H, n + 1, D[a])
<1>1. /\ n \in Nat /\ n >= 1 /\ DOMAIN vs = 1..n /\ n \in 1..n
      /\ Local(v, u, r, DOMAIN c)
  BY KeptFacts
<1>2. /\ IsSeq(vs2) /\ Len(vs2) = n + 1
      /\ \A k \in 1..(n - 1) : vs2[k] = vs[k]
      /\ vs2[n] = w /\ vs2[n + 1] = v2
  BY DEF Pushes
<1>3. DOMAIN vs2 = 1..(n + 1) /\ Last(vs2) = v2
  BY <1>2, SeqItems DEF Last
<1>4. /\ OpenAre(vs, c, a) /\ Linking(vs) /\ NoNest(vs)
      /\ \A k \in 1..n : 1 \in H[k] /\ H[k] \subseteq D[a]
      /\ \A j, k \in 1..n : j <= k => H[j] \subseteq H[k]
      /\ \A k \in 1..n : Stands(vs[k], H[k], f, r, c, D, a, slots)
  BY DEF Good, Homes
<1>5. a \in DOMAIN c /\ D2[a] = D[a] /\ D[a] \subseteq DOMAIN c
  BY DEF CodeMoves, Widens, Kept
<1>6. Dominators(D2, c2) /\ AllSound(u, f, c2, D2) /\ Ending(c2)
  BY GraphGrows
<1>7. \A k \in 1..(n - 1) : Stands(vs[k], H[k], f, r, c2, D2, a, slots)
  BY FrameStands DEF SameSlots
<1>8. DOMAIN H2 = 1..(n + 1) /\ \A k \in 1..(n + 1) : H2[k] = IF k = n + 1 THEN D[a] ELSE H[k]
  BY DEF HomesWith
<1>9. Stands(v2, D[a], f, r, c2, D2, a, slots) /\ Feeds(w, v2) /\ v2.node # "fn"
  OBVIOUS
<1>10. /\ SameVisit(v, w) /\ Alike(v, w)
       /\ Opened(c, a, c2, a, v, Pending(w) \cup Pending(v2))
       /\ w.node = v.node /\ w.source = v.source
  BY DEF SameVisit, Alike
<1>11. Stands(w, H[n], f, r, c2, D2, a, slots)
  <2> DEFINE h == H[n]
  <2>1. Stands(v, h, f, r, c, D, a, slots) /\ h \subseteq DOMAIN c
    BY <1>1, <1>4, <1>5
  <2>2. CodeStep(c, c2, a) /\ Widens(D, D2, c, c2, a)
    BY DEF CodeMoves
  <2>3. \A b : Sources(c2, b) = Sources(c, b)
    BY <2>2, SourcesStay
  <2>4. Untouched(v, c, c2) /\ Settled(v, a, a) /\ SameSlots(v, slots, slots)
    BY <2>3 DEF Untouched, Settled, SameSlots
  <2> HIDE DEF h, v, r, n
  <2>5. Stands(v, h, f, r, c2, D2, a, slots)
    BY <1>1, <2>1, <2>2, <2>4, StandsStays
  <2>6. Stands(w, h, f, r, c2, D2, a, slots)
    BY <1>10, <2>5, AlikeStands
  <2> QED
    BY <2>6 DEF h
<1>18. v2.node \in {"if", "if_expr"} =>
          ~\E k \in 1..(n - 1) : vs[k].node = "if" /\ vs[k].source /\ vs[k + 1].node = "block"
  OBVIOUS
<1> HIDE DEF n, r, H2
<1>12. ASSUME NEW k \in 1..(n + 1) PROVE k = n + 1 \/ (k \in 1..n /\ (k = n \/ k \in 1..(n - 1)))
  BY <1>1
<1>13. ASSUME NEW k \in 1..(n + 1) PROVE Stands(vs2[k], H2[k], f, r, c2, D2, a, slots)
  <2>1. CASE k = n + 1
    BY <2>1, <1>2, <1>8, <1>9
  <2>2. CASE k # n + 1
    BY <2>2, <1>2, <1>7, <1>8, <1>11, <1>12
  <2> QED
    BY <2>1, <2>2
<1>5a. Homes(H2, vs2, D2, a)
  <2>0. \A k \in 1..(n + 1) : IF k = n + 1 THEN H2[k] = D[a] ELSE k \in 1..n /\ H2[k] = H[k]
    BY <1>8, <1>12
  <2>1. ASSUME NEW k \in 1..(n + 1) PROVE 1 \in H2[k] /\ H2[k] \subseteq D2[a]
    BY <2>0, <1>1, <1>4, <1>5
  <2>2. ASSUME NEW j \in 1..(n + 1), NEW k \in 1..(n + 1), j <= k PROVE H2[j] \subseteq H2[k]
    <3>1. CASE k = n + 1
      BY <3>1, <2>0, <2>1, <1>5
    <3>2. CASE k # n + 1
      <4>1. k \in 1..n /\ j \in 1..n /\ j # n + 1
        BY <3>2, <2>2, <1>1
      <4> QED
        BY <4>1, <3>2, <2>0, <2>2, <1>4
    <3> QED
      BY <3>1, <3>2
  <2> QED
    BY <2>1, <2>2, <1>2, <1>8 DEF Homes
<1>14. OpenAre(vs2, c2, a)
  <2>1. ASSUME NEW b \in DOMAIN c2, Open(c2, b), b # a
        PROVE  \E k \in DOMAIN vs2 : b \in Pending(vs2[k])
    <3>0. n \in DOMAIN vs2 /\ n + 1 \in DOMAIN vs2 /\ \A k \in 1..(n - 1) : k \in DOMAIN vs2
      BY <1>1, <1>3
    <3>1. CASE b \in Pending(w)
      BY <3>1, <3>0, <1>2
    <3>3. CASE b \in Pending(v2)
      BY <3>3, <3>0, <1>2
    <3>2. CASE b \in DOMAIN c /\ Open(c, b) /\ b # a /\ b \notin Pending(v)
      <4>1. PICK k \in 1..n : b \in Pending(vs[k])
        BY <3>2, <1>1, <1>4 DEF OpenAre
      <4>2. k \in 1..(n - 1)
        BY <3>2, <4>1, <1>1
      <4> QED
        BY <4>1, <4>2, <3>0, <1>2
    <3> QED
      BY <3>1, <3>2, <3>3, <2>1, <1>10 DEF Opened
  <2> QED
    BY <2>1, <1>3, <1>9 DEF OpenAre
<1>15. Linking(vs2)
  <2> SUFFICES ASSUME NEW k \in 1..n PROVE Feeds(vs2[k], vs2[k + 1])
    <3>1. Len(vs2) - 1 = n
      BY <1>1, <1>2
    <3> QED
      BY <3>1 DEF Linking
  <2>1. CASE k = n
    BY <2>1, <1>2, <1>9
  <2>2. CASE k # n
    <3>1. k \in 1..(n - 1)
      BY <2>2, <1>1
    <3>2. Feeds(vs[k], vs[k + 1]) /\ vs2[k] = vs[k]
      BY <3>1, <1>2, <1>4 DEF Linking, n
    <3>3. CASE k + 1 = n
      BY <3>2, <3>3, <1>2, <1>10, FeedsAlike
    <3>4. CASE k + 1 # n
      <4>1. k + 1 \in 1..(n - 1)
        BY <3>1, <3>4, <1>1
      <4> QED
        BY <3>2, <4>1, <1>2
    <3> QED
      BY <3>3, <3>4
  <2> QED
    BY <2>1, <2>2
<1>16. NoNest(vs2)
  <2>1. \A k \in 1..n : vs2[k].node = vs[k].node /\ vs2[k].source = vs[k].source
    <3>1. \A k \in 1..n : k = n \/ k \in 1..(n - 1)
      BY <1>1
    <3> QED
      BY <3>1, <1>2, <1>10
  <2> SUFFICES ASSUME NEW k \in 1..n, NEW m \in (k + 1)..(n + 1),
                      vs2[k].node = "if" /\ vs2[k].source /\ vs2[k + 1].node = "block"
               PROVE  vs2[m].node \notin {"if", "if_expr"}
    <3>1. Len(vs2) - 1 = n
      BY <1>1, <1>2
    <3> QED
      BY <3>1, <1>2 DEF NoNest
  <2>2. CASE k = n
    <3>1. m = n + 1 /\ k + 1 = n + 1
      BY <2>2, <1>1
    <3> QED
      BY <3>1, <1>2
  <2>3. CASE k # n
    <3>1. k \in 1..(n - 1) /\ k \in 1..n /\ k + 1 \in 1..n
      BY <2>3, <1>1
    <3>2. vs[k].node = "if" /\ vs[k].source /\ vs[k + 1].node = "block"
      BY <2>1, <3>1
    <3>3. CASE m = n + 1
      BY <3>1, <3>2, <3>3, <1>2, <1>18
    <3>4. CASE m # n + 1
      <4>1. m \in 1..n /\ m \in (k + 1)..n
        BY <3>1, <3>4, <1>1
      <4>2. vs[m].node \notin {"if", "if_expr"}
        BY <3>1, <3>2, <4>1, <1>4 DEF NoNest, n
      <4> QED
        BY <2>1, <4>1, <4>2
    <3> QED
      BY <3>3, <3>4
  <2> QED
    BY <2>2, <2>3
<1>17. Good(vs2, c2, a, slots, u, f, D2, H2)
  BY <1>2, <1>5a, <1>6, <1>13, <1>14, <1>15, <1>16 DEF Good, r
<1> QED
  BY <1>17 DEF H2, n

(* The visit on top ends. *)
LEMMA EndsGood ==
    ASSUME NEW vs, NEW c, NEW a, NEW u, NEW f, Kept(vs, c, a, u, f), NEW c2, NEW a2,
           NEW D, NEW D2, CodeMoves(vs, c, a, c2, a2, u, f, D, D2),
           NEW slots, NEW H, Good(vs, c, a, slots, u, f, D, H),
           NEW vs2, NEW w, Ends(vs, vs2, w), SameVisit(vs[Len(vs) - 1], w), w.after,
           Pending(vs[Len(vs) - 1]) \subseteq Pending(w),
           Opened(c, a, c2, a2, vs[Len(vs)], Pending(w)),
           NEW slots2, \A k \in 1..(Len(vs) - 2) : SameSlots(vs[k], slots, slots2),
           NEW h, HomeFor(H, Len(vs) - 1, h, D2, a2),
           Stands(w, h, f, u[f].ret, c2, D2, a2, slots2)
    PROVE  Good(vs2, c2, a2, slots2, u, f, D2, HomesWith(H, Len(vs) - 1, h))
<1> DEFINE l == Len(vs)
           n == Len(vs) - 1
           r == u[f].ret
           v == vs[n]
           H2 == HomesWith(H, n, h)
<1>1. /\ l \in Nat /\ l >= 2 /\ DOMAIN vs = 1..l
  BY KeptFacts DEF Ends
<1>2. /\ IsSeq(vs2) /\ Len(vs2) = n
      /\ \A k \in 1..(l - 2) : vs2[k] = vs[k]
      /\ vs2[n] = w
  BY DEF Ends
<1>3. DOMAIN vs2 = 1..n /\ Last(vs2) = w
  BY <1>2, SeqItems DEF Last
<1>4. /\ OpenAre(vs, c, a) /\ Linking(vs) /\ NoNest(vs)
  BY DEF Good
<1>0. n = l - 1
  BY <1>1
<1>6. Dominators(D2, c2) /\ AllSound(u, f, c2, D2) /\ Ending(c2)
  BY GraphGrows
<1>8. \A k \in 1..n : H2[k] = IF k = n THEN h ELSE H[k]
  BY DEF HomesWith
<1>9. /\ Stands(w, h, f, r, c2, D2, a2, slots2) /\ Pending(v) \subseteq Pending(w)
      /\ HomeFor(H, n, h, D2, a2)
      /\ \A k \in 1..(l - 2) : SameSlots(vs[k], slots, slots2)
  OBVIOUS
<1>10. /\ SameVisit(v, w) /\ Opened(c, a, c2, a2, vs[l], Pending(w))
       /\ w.node = v.node /\ w.source = v.source /\ w.after
  BY DEF SameVisit
<1>11. \A k \in 1..(l - 1) : SameSlots(vs[k], slots, slots2) =>
          Stands(vs[k], H[k], f, r, c2, D2, a2, slots2)
  BY FrameStands
<1>5. n \in 1..l => Homes(H2, vs2, D2, a2)
  BY <1>2, <1>9, HomesKept
<1> HIDE DEF n, r, H2, l
<1>19. n \in 1..n /\ n \in 1..l /\ n \in Nat /\ n + 1 = l /\ n - 1 = l - 2
  BY <1>0, <1>1
<1>12. ASSUME NEW k \in 1..n PROVE k = n \/ (k \in 1..(l - 2) /\ k \in 1..(l - 1) /\ k \in 1..l)
  BY <1>0, <1>1
<1>13. ASSUME NEW k \in 1..n PROVE Stands(vs2[k], H2[k], f, r, c2, D2, a2, slots2)
  <2>1. CASE k = n
    BY <2>1, <1>2, <1>8, <1>9
  <2>2. CASE k # n
    BY <2>2, <1>2, <1>8, <1>9, <1>11, <1>12
  <2> QED
    BY <2>1, <2>2
<1>14. OpenAre(vs2, c2, a2)
  <2>1. ASSUME NEW b \in DOMAIN c2, Open(c2, b), b # a2
        PROVE  \E k \in DOMAIN vs2 : b \in Pending(vs2[k])
    <3>1. CASE b \in Pending(w)
      BY <3>1, <1>2, <1>3, <1>19
    <3>2. CASE b \in DOMAIN c /\ Open(c, b) /\ b # a /\ b \notin Pending(vs[l])
      <4>1. PICK k \in 1..l : b \in Pending(vs[k])
        BY <3>2, <1>1, <1>4 DEF OpenAre
      <4>2. k \in 1..n
        BY <3>2, <4>1, <1>19
      <4>3. CASE k = n
        BY <4>1, <4>3, <1>9, <1>2, <1>3, <1>19
      <4>4. CASE k # n
        BY <4>1, <4>2, <4>4, <1>12, <1>2, <1>3
      <4> QED
        BY <4>3, <4>4
    <3> QED
      BY <3>1, <3>2, <2>1, <1>10 DEF Opened
  <2> QED
    BY <2>1, <1>3, <1>10 DEF OpenAre
<1>15. Linking(vs2)
  <2> SUFFICES ASSUME NEW k \in 1..(n - 1) PROVE Feeds(vs2[k], vs2[k + 1])
    BY <1>2 DEF Linking
  <2>0. k \in 1..(l - 2) /\ k \in 1..(l - 1)
    BY <1>19, <1>1
  <2>1. Feeds(vs[k], vs[k + 1]) /\ vs2[k] = vs[k]
    BY <2>0, <1>2, <1>4 DEF Linking, l
  <2>2. CASE k + 1 = n
    BY <2>1, <2>2, <1>2, <1>10, FeedsAlike
  <2>3. CASE k + 1 # n
    <3>1. k + 1 \in 1..(l - 2)
      BY <2>3, <1>19
    <3> QED
      BY <2>1, <3>1, <1>2
  <2> QED
    BY <2>2, <2>3
<1>16. NoNest(vs2)
  <2>1. \A k \in 1..n : vs2[k].node = vs[k].node /\ vs2[k].source = vs[k].source
    BY <1>2, <1>10, <1>12
  <2> SUFFICES ASSUME NEW k \in 1..(n - 1), NEW m \in (k + 1)..n,
                      vs2[k].node = "if" /\ vs2[k].source /\ vs2[k + 1].node = "block"
               PROVE  vs2[m].node \notin {"if", "if_expr"}
    BY <1>2 DEF NoNest
  <2>2. k \in 1..n /\ k + 1 \in 1..n /\ m \in 1..n /\ k \in 1..(l - 1) /\ m \in (k + 1)..l
    BY <1>19
  <2>3. vs[m].node \notin {"if", "if_expr"}
    BY <2>1, <2>2, <1>4 DEF NoNest, l
  <2> QED
    BY <2>1, <2>2, <2>3
<1>17. Good(vs2, c2, a2, slots2, u, f, D2, H2)
  BY <1>2, <1>5, <1>19, <1>6, <1>13, <1>14, <1>15, <1>16 DEF Good, r
<1> QED
  BY <1>17 DEF H2, n

-----------------------------------------------------------------------------
(* The state. *)
GoodNow(D, H) ==
    /\ Good(visits, code, at, scope_manager, unit, item, D, H)
    /\ TopValue(top, item, code, D, at, ir_code, current_type)

(* SoundInv, taken apart. *)
LEMMA SoundInvHas ==
    ASSUME SoundInv, Handled, visits # <<>>
    PROVE  Named /\ \E D, H : GoodNow(D, H)
<1>1. /\ Ending(code) /\ OpenAre(visits, code, at) /\ Named
      /\ Linking(visits) /\ NoNest(visits)
      /\ \E D, H : GraphInv(D, H)
  BY DEF SoundInv
<1>2. PICK D, H : GraphInv(D, H)
  BY <1>1
<1>3. GoodNow(D, H)
  BY <1>1, <1>2 DEF GraphInv, Good, GoodNow
<1> QED
  BY <1>1, <1>3

(* SoundInv, put together. *)
LEMMA SoundInvGets ==
    ASSUME NEW D, NEW H, Good(visits', code', at', scope_manager', unit', item', D, H),
           TopValue(visits'[Len(visits')], item', code', D, at', ir_code',
                    current_type'),
           Named'
    PROVE  SoundInv'
<1>1. GraphInv(D, H)'
  BY DEF GraphInv, Good, top
<1> QED
  BY <1>1 DEF SoundInv, Good

(* What VisitsAreInOrder says of the state. *)
LEMMA StateKept ==
    ASSUME IInv, Handled, visits # <<>>
    PROVE  Kept(visits, code, at, unit, item)
BY DEF IInv, ShapeInv, OpenInv, VisitsInv, TypeInv, Kept

(* What is known of variables. *)
MapsStay ==
    /\ scope_manager' = scope_manager /\ types' = types
    /\ regs' \in Nat /\ regs <= regs'

(* Variables keep their slots. *)
LEMMA NamedStays ==
    ASSUME Named, TypeInv, VisitorGoes, MapsStay, CodeStep(code, code', at), 1 \in DOMAIN code,
           \A k \in DOMAIN visits' : \A id \in visits'[k].declared :
              \E j \in DOMAIN visits : id \in visits[j].declared
    PROVE  Named'
<1>1. /\ unit' = unit /\ item' = item /\ scope_manager' = scope_manager /\ types' = types
      /\ regs \in Nat /\ regs' \in Nat /\ regs <= regs'
  BY DEF VisitorGoes, MapsStay, TypeInv
<1>2. Visible' \subseteq Visible
  <2> SUFFICES ASSUME NEW id \in Visible' PROVE id \in Visible
    OBVIOUS
  <2>1. CASE \E p \in Params' : id = ParamId(p)'
    BY <2>1, <1>1 DEF Params, ParamId, fn_ty, Visible
  <2>2. CASE \E k \in DOMAIN visits' : id \in visits'[k].declared
    BY <2>2 DEF Visible
  <2> QED
    BY <2>1, <2>2 DEF Visible
<1>3. \A id \in Visible' : id \in DOMAIN types' /\ types'[id] = TypeOf(scope_manager'[id])
  BY <1>1, <1>2 DEF Named
<1>4. ASSUME NEW p \in Params'
      PROVE  KnownIn(item', code', {1}, scope_manager'[ParamId(p)'])
  <2>1. p \in Params /\ ParamId(p)' = ParamId(p)
    BY <1>1 DEF Params, ParamId, fn_ty
  <2>2. KnownIn(item, code, {1}, scope_manager[ParamId(p)])
    BY <2>1 DEF Named
  <2>3. KnownIn(item, code', {1}, scope_manager[ParamId(p)])
    BY <2>2, KnownStays
  <2> QED
    BY <1>1, <2>1, <2>3
<1>5. ASSUME NEW k \in DOMAIN visits', NEW id \in visits'[k].declared
      PROVE  \E n \in 1..regs' : id = <<item', 0, n>>
  <2>1. PICK j \in DOMAIN visits : id \in visits[j].declared
    BY <1>5
  <2>2. PICK n \in 1..regs : id = <<item, 0, n>>
    BY <2>1 DEF Named
  <2> QED
    BY <1>1, <2>2
<1> QED
  BY <1>3, <1>4, <1>5 DEF Named

-----------------------------------------------------------------------------
(* The node on top becomes w. *)
TopGraph(w, D, H, D2, h) ==
    LET r == unit[item].ret
    IN /\ CodeMoves(visits, code, at, code', at', unit, item, D, D2)
       /\ Opened(code, at, code', at', top, Pending(w))
       /\ w.node = "fn" /\ ~w.after => ~Open(code', at')
       /\ HomeFor(H, Len(visits), h, D2, at')
       /\ Stands(w, h, item, r, code', D2, at', scope_manager)
       /\ TopValue(w, item, code', D2, at', ir_code', current_type')

(* So a step that changes only the visit on top keeps the invariant. *)
LEMMA TopG ==
    ASSUME IInv, Handled, visits # <<>>, Named, VisitorGoes, MapsStay,
           NEW w, Tops(visits, visits', w), SameVisit(top, w), w.declared = top.declared,
           NEW D, NEW H, GoodNow(D, H), NEW D2, NEW h, TopGraph(w, D, H, D2, h)
    PROVE  SoundInv'
<1>1. Kept(visits, code, at, unit, item)
  BY StateKept
<1> DEFINE n == Len(visits)
           H2 == HomesWith(H, n, h)
<1>2. /\ CodeMoves(visits, code, at, code', at', unit, item, D, D2)
      /\ Opened(code, at, code', at', visits[n], Pending(w))
      /\ w.node = "fn" /\ ~w.after => ~Open(code', at')
      /\ HomeFor(H, n, h, D2, at')
      /\ Stands(w, h, item, unit[item].ret, code', D2, at', scope_manager)
      /\ TopValue(w, item, code', D2, at', ir_code', current_type')
  BY DEF TopGraph, top
<1>3. Good(visits, code, at, scope_manager, unit, item, D, H) /\ SameVisit(visits[n], w)
  BY DEF GoodNow, top
<1>4. Good(visits', code', at', scope_manager, unit, item, D2, H2)
  BY <1>1, <1>2, <1>3, TopsGood
<1>5. /\ n \in Nat /\ DOMAIN visits = 1..n /\ n \in 1..n /\ IsSeq(visits)
  BY <1>1, KeptFacts
<1>6. /\ IsSeq(visits') /\ Len(visits') = n /\ visits'[n] = w
      /\ \A k \in 1..(n - 1) : visits'[k] = visits[k]
  BY DEF Tops
<1>7. DOMAIN visits' = 1..n
  BY <1>6, SeqItems
<1>8. 1 \in DOMAIN code
  BY <1>3 DEF Good, Dominators
<1>9. w.declared = visits[n].declared
  BY DEF top
<1>10. unit' = unit /\ item' = item /\ scope_manager' = scope_manager
  BY DEF VisitorGoes, MapsStay
<1>14. CodeStep(code, code', at) /\ TypeInv
  BY <1>2 DEF CodeMoves, IInv
<1> HIDE DEF n, H2
<1>11. \A k \in DOMAIN visits' : \A id \in visits'[k].declared :
          \E j \in DOMAIN visits : id \in visits[j].declared
  <2>1. \A k \in 1..n : k = n \/ k \in 1..(n - 1)
    BY <1>5
  <2> QED
    BY <2>1, <1>5, <1>6, <1>7, <1>9
<1>12. Named'
  BY <1>8, <1>11, <1>14, NamedStays
<1>13. visits'[Len(visits')] = w
  BY <1>6
<1> QED
  BY <1>2, <1>4, <1>10, <1>12, <1>13, SoundInvGets

-----------------------------------------------------------------------------
(* The visit c of a part of it begins. *)
PushGraph(w, c, D, H, D2) ==
    LET r == unit[item].ret
    IN /\ CodeMoves(visits, code, at, code', at, unit, item, D, D2)
       /\ Targets(code', at) = Targets(code, at)
       /\ Alike(top, w)
       /\ Opened(code, at, code', at, top, Pending(w) \cup Pending(c))
       /\ c.node # "fn" /\ ~c.after /\ c.declared = {} /\ Feeds(w, c)
       /\ c.node \in {"if", "if_expr"} => ~InBranch
       /\ Stands(c, D[at], item, r, code', D2, at, scope_manager)

(* So a step that begins a visit does. *)
LEMMA PushG ==
    ASSUME IInv, Handled, visits # <<>>, Named, VisitorGoes, MapsStay, at' = at,
           NEW w, NEW c, Pushes(visits, visits', w, c),
           NEW D, NEW H, GoodNow(D, H), NEW D2, PushGraph(w, c, D, H, D2)
    PROVE  SoundInv'
<1>1. Kept(visits, code, at, unit, item)
  BY StateKept
<1> DEFINE n == Len(visits)
           H2 == HomesWith(H, n + 1, D[at])
           r == unit[item].ret
<1>2. /\ CodeMoves(visits, code, at, code', at, unit, item, D, D2)
      /\ Targets(code', at) = Targets(code, at)
      /\ Alike(visits[n], w)
      /\ Opened(code, at, code', at, visits[n], Pending(w) \cup Pending(c))
      /\ c.node # "fn" /\ Feeds(w, c) /\ ~c.after /\ c.declared = {}
      /\ c.node \in {"if", "if_expr"} =>
            ~\E k \in 1..(n - 1) :
                visits[k].node = "if" /\ visits[k].source /\ visits[k + 1].node = "block"
      /\ Stands(c, D[at], item, r, code', D2, at, scope_manager)
  BY DEF PushGraph, top, InBranch
<1>3. Good(visits, code, at, scope_manager, unit, item, D, H)
  BY DEF GoodNow
<1>4. Good(visits', code', at, scope_manager, unit, item, D2, H2)
  BY <1>1, <1>2, <1>3, PushesGood
<1>5. /\ n \in Nat /\ DOMAIN visits = 1..n /\ n \in 1..n /\ IsSeq(visits)
  BY <1>1, KeptFacts
<1>6. /\ IsSeq(visits') /\ Len(visits') = n + 1 /\ visits'[n] = w /\ visits'[n + 1] = c
      /\ \A k \in 1..(n - 1) : visits'[k] = visits[k]
  BY DEF Pushes
<1>7. DOMAIN visits' = 1..(n + 1)
  BY <1>6, SeqItems
<1>8. 1 \in DOMAIN code
  BY <1>3 DEF Good, Dominators
<1>9. w.declared = visits[n].declared
  BY <1>2 DEF Alike
<1>10. unit' = unit /\ item' = item /\ scope_manager' = scope_manager
  BY DEF VisitorGoes, MapsStay
<1>14. CodeStep(code, code', at) /\ TypeInv
  BY <1>2 DEF CodeMoves, IInv
<1> HIDE DEF n, H2, r
<1>11. \A k \in DOMAIN visits' : \A id \in visits'[k].declared :
          \E j \in DOMAIN visits : id \in visits[j].declared
  <2>1. \A k \in 1..(n + 1) : k = n + 1 \/ k = n \/ k \in 1..(n - 1)
    BY <1>5
  <2>2. \A k \in 1..(n - 1) : k \in DOMAIN visits
    BY <1>5
  <2> QED
    BY <2>1, <2>2, <1>2, <1>5, <1>6, <1>7, <1>9
<1>12. Named'
  BY <1>8, <1>11, <1>14, NamedStays
<1>13. visits'[Len(visits')] = c
  BY <1>6
<1>15. TopValue(c, item, code', D2, at, ir_code', current_type')
  BY <1>2 DEF TopValue
<1> QED
  BY <1>4, <1>10, <1>12, <1>13, <1>15, SoundInvGets DEF r

-----------------------------------------------------------------------------
(* The visit on top ends, and the one below it is w. *)
EndGraph(w, D, H, D2, h) ==
    LET r == unit[item].ret
    IN /\ CodeMoves(visits, code, at, code', at', unit, item, D, D2)
       /\ Opened(code, at, code', at', top, Pending(w))
       /\ SameVisit(below, w) /\ w.after /\ Pending(below) \subseteq Pending(w)
       /\ HomeFor(H, Len(visits) - 1, h, D2, at')
       /\ Stands(w, h, item, r, code', D2, at', scope_manager')
       /\ TopValue(w, item, code', D2, at', ir_code', current_type')

(* So a step that ends one does. *)
LEMMA EndG ==
    ASSUME IInv, Handled, visits # <<>>, VisitorGoes,
           NEW w, Ends(visits, visits', w),
           NEW D, NEW H, GoodNow(D, H), NEW D2, NEW h, EndGraph(w, D, H, D2, h),
           \A k \in 1..(Len(visits) - 2) :
              SameSlots(visits[k], scope_manager, scope_manager'),
           Named'
    PROVE  SoundInv'
<1>1. Kept(visits, code, at, unit, item)
  BY StateKept
<1> DEFINE n == Len(visits)
           H2 == HomesWith(H, n - 1, h)
           r == unit[item].ret
<1>2. /\ CodeMoves(visits, code, at, code', at', unit, item, D, D2)
      /\ Opened(code, at, code', at', visits[n], Pending(w))
      /\ SameVisit(visits[n - 1], w) /\ w.after
      /\ Pending(visits[n - 1]) \subseteq Pending(w)
      /\ HomeFor(H, n - 1, h, D2, at')
      /\ Stands(w, h, item, r, code', D2, at', scope_manager')
      /\ TopValue(w, item, code', D2, at', ir_code', current_type')
  BY DEF EndGraph, top, below
<1>3. Good(visits, code, at, scope_manager, unit, item, D, H)
  BY DEF GoodNow
<1>4. Good(visits', code', at', scope_manager', unit, item, D2, H2)
  BY <1>1, <1>2, <1>3, EndsGood
<1>5. visits'[Len(visits')] = w
  BY DEF Ends
<1>6. unit' = unit /\ item' = item
  BY DEF VisitorGoes
<1> HIDE DEF H2
<1> QED
  BY <1>2, <1>4, <1>5, <1>6, SoundInvGets

(* No variable comes or goes out of its slot. *)
LEMMA NamedEnds ==
    ASSUME Named, IInv, Handled, visits # <<>>, VisitorGoes, MapsStay,
           CodeStep(code, code', at), 1 \in DOMAIN code,
           NEW w, Ends(visits, visits', w), w.declared = below.declared
    PROVE  Named'
<1> DEFINE n == Len(visits)
<1>5. /\ n \in Nat /\ DOMAIN visits = 1..n /\ n \in 1..n /\ IsSeq(visits)
  BY StateKept, KeptFacts
<1>6. /\ IsSeq(visits') /\ Len(visits') = n - 1 /\ visits'[n - 1] = w
      /\ \A k \in 1..(n - 2) : visits'[k] = visits[k]
      /\ n >= 2
  BY DEF Ends
<1>7. DOMAIN visits' = 1..(n - 1)
  BY <1>6, SeqItems
<1>9. w.declared = visits[n - 1].declared
  BY DEF below
<1> HIDE DEF n
<1>11. \A k \in DOMAIN visits' : \A id \in visits'[k].declared :
          \E j \in DOMAIN visits : id \in visits[j].declared
  <2>1. \A k \in 1..(n - 1) : k = n - 1 \/ k \in 1..(n - 2)
    BY <1>5
  <2>2. \A k \in 1..(n - 1) : k \in DOMAIN visits
    BY <1>5
  <2> QED
    BY <2>1, <2>2, <1>5, <1>6, <1>7, <1>9
<1>12. TypeInv
  BY DEF IInv
<1> QED
  BY <1>11, <1>12, NamedStays

-----------------------------------------------------------------------------
(* Steps of the code. *)
LEMMA SameCodeMoves ==
    ASSUME NEW vs, NEW c, NEW a, NEW u, NEW f, Kept(vs, c, a, u, f),
           NEW slots, NEW D, NEW H, Good(vs, c, a, slots, u, f, D, H)
    PROVE  /\ CodeMoves(vs, c, a, c, a, u, f, D, D)
           /\ \A v, P : Pending(v) \subseteq P => Opened(c, a, c, a, v, P)
<1>1. CodeType(c) /\ a \in DOMAIN c /\ Ending(c) /\ Dominators(D, c)
  BY DEF Kept, Good
<1>2. CodeStep(c, c, a)
  BY <1>1 DEF CodeStep
<1>3. Widens(D, D, c, c, a)
  BY <1>1 DEF Dominators, Widens
<1>4. NewSound(u, f, c, c, D)
  BY DEF NewSound
<1>5. CodeMoves(vs, c, a, c, a, u, f, D, D)
  BY <1>1, <1>2, <1>3, <1>4 DEF CodeMoves
<1>6. \A v, P : Pending(v) \subseteq P => Opened(c, a, c, a, v, P)
  BY DEF Opened
<1> QED
  BY <1>5, <1>6

(* The ends that the instructions is give to a block go to its own blocks.   *)
GoesTo(is, c, c2, P) ==
    is # <<>> /\ Last(is).op \in Terminators =>
        \A t \in ToSet(Last(is).blocks) : t \in DOMAIN c2 \ DOMAIN c \/ t \in P

(* Instructions that fit, and go where the node on top may, are a step. *)
LEMMA AddsMoves ==
    ASSUME NEW vs, NEW c, NEW a, NEW u, NEW f, Kept(vs, c, a, u, f),
           NEW slots, NEW D, NEW H, Good(vs, c, a, slots, u, f, D, H),
           NEW c2, NEW is, Adds(c, c2, a, is), MayAdd(c, a, is),
           \A j \in 1..Len(is) : Fit(u, f, c, D, a, is, j),
           GoesTo(is, c, c2, Pending(vs[Len(vs)])),
           NEW a2 \in DOMAIN c2, a2 = a \/ vs[Len(vs)].node \in {"if", "if_expr"},
           NEW D2, D2 = Widen(D, c2, a)
    PROVE  CodeMoves(vs, c, a, c2, a2, u, f, D, D2)
<1>1. Ending(c) /\ Dominators(D, c)
  BY DEF Good
<1>2. /\ CodeStep(c, c2, a) /\ Ending(c2)
      /\ Targets(c2, a) = IF is = <<>> THEN Targets(c, a)
                          ELSE IF Last(is).op \in Terminators THEN ToSet(Last(is).blocks)
                          ELSE {}
  BY <1>1, AddsStep
<1>3. Widens(D, D2, c, c2, a)
  BY <1>1, <1>2, WidenIs
<1>4. NewSound(u, f, c, c2, D2)
  BY <1>3, AddsSound
<1>5. \A t \in Targets(c2, a) :
          t \in Targets(c, a) \/ t \notin DOMAIN c \/ t \in Pending(vs[Len(vs)])
  BY <1>2 DEF GoesTo
<1> QED
  BY <1>2, <1>3, <1>4, <1>5 DEF CodeMoves

(* Which blocks are open then. *)
LEMMA AddsOpened ==
    ASSUME NEW c, NEW a, NEW c2, NEW is, Adds(c, c2, a, is), NEW a2,
           a2 = a \/ (is # <<>> /\ Last(is).op \in Terminators),
           NEW v, NEW P, \A b \in Pending(v) : b = a2 \/ b \in P,
           \A b \in DOMAIN c2 \ DOMAIN c : b = a2 \/ b \in P
    PROVE  Opened(c, a, c2, a2, v, P)
<1>1. /\ \A b \in DOMAIN c \ {a} : Open(c2, b) <=> Open(c, b)
      /\ is # <<>> /\ Last(is).op \in Terminators => ~Open(c2, a)
  BY AddsOpen
<1> QED
  BY <1>1 DEF Opened

(* Emit. *)
Puts(c, c2, a, is) ==
    /\ CodeType(c) /\ a \in DOMAIN c /\ is \in Seq(InstrSet)
    /\ \A i \in DOMAIN is : ToSet(is[i].blocks) \subseteq DOMAIN c
    /\ c2 = [c EXCEPT ![a] = c[a] \o is]

(* Emit adds instructions. *)
LEMMA PutsAdds ==
    ASSUME NEW c, NEW c2, NEW a, NEW is, Puts(c, c2, a, is)
    PROVE  Adds(c, c2, a, is) /\ DOMAIN c2 = DOMAIN c
<1>1. /\ CodeType(c) /\ a \in DOMAIN c /\ is \in Seq(InstrSet)
      /\ \A i \in DOMAIN is : ToSet(is[i].blocks) \subseteq DOMAIN c
      /\ c2 = [c EXCEPT ![a] = c[a] \o is]
  BY DEF Puts
<1>2. /\ CodeType(c2) /\ DOMAIN c2 = DOMAIN c
      /\ Grows(c, c2, a) /\ c2[a] = c[a] \o is
  BY <1>1, Emitted
<1> QED
  BY <1>1, <1>2 DEF Adds

(* One instruction. *)
LEMMA OneIs ==
    ASSUME NEW i \in InstrSet
    PROVE  /\ <<i>> \in Seq(InstrSet) /\ Len(<<i>>) = 1 /\ DOMAIN <<i>> = 1..1 /\ <<i>> # <<>>
           /\ Last(<<i>>) = i /\ \A j \in 1..1 : j = 1 /\ <<i>>[j] = i
<1>1. \A j \in 1..1 : j = 1
  OBVIOUS
<1> QED
  BY <1>1 DEF Last

(* It is a step that may end the block. *)
LEMMA EmitOneMoves ==
    ASSUME IInv, Handled, visits # <<>>, NEW D, NEW H, GoodNow(D, H), Open(code, at),
           NEW i \in InstrSet, ToSet(i.blocks) \subseteq Pending(top), i.op # "phi",
           Typed(unit, item, i),
           \A k \in DOMAIN i.args : KnownIn(item, code, D[at], i.args[k]),
           NEW c2, c2 = Emit(<<i>>),
           NEW a2 \in DOMAIN code, i.op \notin Terminators => a2 = at,
           a2 = at \/ top.node \in {"if", "if_expr"},
           NEW P, \A b \in Pending(top) : b = a2 \/ b \in P
    PROVE  /\ CodeMoves(visits, code, at, c2, a2, unit, item, D, D)
           /\ Opened(code, at, c2, a2, top, P)
           /\ Defines(c2, at, i.def) /\ DOMAIN c2 = DOMAIN code
           /\ Open(c2, at) <=> i.op \notin Terminators
           /\ Targets(c2, at) = IF i.op \in Terminators THEN ToSet(i.blocks) ELSE {}
<1>1. Kept(visits, code, at, unit, item)
  BY StateKept
<1>2. CodeType(code) /\ at \in DOMAIN code /\ top = visits[Len(visits)]
  BY <1>1 DEF Kept, top
<1>3. Pending(top) \subseteq DOMAIN code
  BY <1>1, <1>2, KeptFacts
<1> DEFINE is == <<i>>
<1>4. /\ is \in Seq(InstrSet) /\ Len(is) = 1 /\ DOMAIN is = 1..1 /\ is # <<>> /\ Last(is) = i
      /\ \A j \in 1..1 : j = 1 /\ is[j] = i
  BY OneIs
<1>5. c2 = [code EXCEPT ![at] = code[at] \o is]
  BY DEF Emit
<1> HIDE DEF is
<1>6. \A j \in DOMAIN is : ToSet(is[j].blocks) \subseteq DOMAIN code
  BY <1>3, <1>4
<1>7. Puts(code, c2, at, is)
  BY <1>2, <1>4, <1>5, <1>6 DEF Puts
<1>8. Adds(code, c2, at, is) /\ DOMAIN c2 = DOMAIN code
  BY <1>7, PutsAdds
<1>9. MayAdd(code, at, is)
  BY <1>4 DEF MayAdd
<1>10. ASSUME NEW j \in 1..Len(is) PROVE Fit(unit, item, code, D, at, is, j)
  BY <1>4 DEF Fit, Arrives
<1>11. GoesTo(is, code, c2, Pending(top))
  BY <1>4 DEF GoesTo
<1>12. Good(visits, code, at, scope_manager, unit, item, D, H)
  BY DEF GoodNow
<1>13. Widen(D, c2, at) = D
  BY <1>8, <1>12, WidenSame DEF Good
<1>14. CodeMoves(visits, code, at, c2, a2, unit, item, D, D)
  BY <1>1, <1>2, <1>8, <1>9, <1>10, <1>11, <1>12, <1>13, AddsMoves
<1>15. Opened(code, at, c2, a2, top, P)
  <2>1. a2 = at \/ (is # <<>> /\ Last(is).op \in Terminators)
    BY <1>4
  <2> QED
    BY <2>1, <1>8, AddsOpened
<1>16. Open(c2, at) <=> i.op \notin Terminators
  BY <1>4, <1>8, AddsOpen
<1>17. Defines(c2, at, i.def)
  <2> DEFINE m == Len(code[at])
  <2>1. /\ m \in Nat /\ DOMAIN c2[at] = 1..(m + 1)
        /\ c2[at][m + 1] = is[1]
    BY <1>4, <1>8, AddsFacts DEF AddsAt
  <2> HIDE DEF m
  <2>2. m + 1 \in DOMAIN c2[at]
    BY <2>1
  <2> QED
    BY <2>1, <2>2, <1>4 DEF Defines
<1>18. Targets(c2, at) = IF i.op \in Terminators THEN ToSet(i.blocks) ELSE {}
  <2>1. Ending(code)
    BY <1>12 DEF Good
  <2> QED
    BY <2>1, <1>4, <1>8, <1>9, AddsStep
<1> QED
  BY <1>8, <1>14, <1>15, <1>16, <1>17, <1>18

(* Two, of which the second may use the first. *)
LEMMA TwoAre ==
    ASSUME NEW i \in InstrSet, NEW j \in InstrSet
    PROVE  /\ <<i, j>> \in Seq(InstrSet) /\ Len(<<i, j>>) = 2 /\ DOMAIN <<i, j>> = 1..2
           /\ <<i, j>> # <<>> /\ Last(<<i, j>>) = j
           /\ <<i, j>>[1] = i /\ <<i, j>>[2] = j /\ \A k \in 1..2 : k = 1 \/ k = 2
<1>1. \A k \in 1..2 : k = 1 \/ k = 2
  OBVIOUS
<1> QED
  BY <1>1 DEF Last

(* So is a step of both. *)
LEMMA EmitTwoMoves ==
    ASSUME IInv, Handled, visits # <<>>, NEW D, NEW H, GoodNow(D, H), Open(code, at),
           NEW i \in InstrSet, i.blocks = <<>>, i.op # "phi", i.op \notin Terminators,
           Typed(unit, item, i),
           \A k \in DOMAIN i.args : KnownIn(item, code, D[at], i.args[k]),
           i.def[2] = item,
           NEW j \in InstrSet, ToSet(j.blocks) \subseteq Pending(top), j.op # "phi",
           Typed(unit, item, j),
           \A k \in DOMAIN j.args : KnownIn(item, code, D[at], j.args[k]) \/ j.args[k] = i.def,
           NEW c2, c2 = Emit(<<i, j>>),
           NEW a2 \in DOMAIN code, j.op \notin Terminators => a2 = at,
           a2 = at \/ top.node \in {"if", "if_expr"},
           NEW P, \A b \in Pending(top) : b = a2 \/ b \in P
    PROVE  /\ CodeMoves(visits, code, at, c2, a2, unit, item, D, D)
           /\ Opened(code, at, c2, a2, top, P)
           /\ Defines(c2, at, i.def) /\ DOMAIN c2 = DOMAIN code
           /\ Targets(c2, at) = IF j.op \in Terminators THEN ToSet(j.blocks) ELSE {}
<1>1. Kept(visits, code, at, unit, item)
  BY StateKept
<1>2. CodeType(code) /\ at \in DOMAIN code /\ top = visits[Len(visits)]
  BY <1>1 DEF Kept, top
<1>3. Pending(top) \subseteq DOMAIN code
  BY <1>1, <1>2, KeptFacts
<1> DEFINE is == <<i, j>>
<1>4. /\ is \in Seq(InstrSet) /\ Len(is) = 2 /\ DOMAIN is = 1..2 /\ is # <<>> /\ Last(is) = j
      /\ is[1] = i /\ is[2] = j /\ \A k \in 1..2 : k = 1 \/ k = 2
  BY TwoAre
<1>5. c2 = [code EXCEPT ![at] = code[at] \o is]
  BY DEF Emit
<1> HIDE DEF is
<1>6. \A k \in DOMAIN is : ToSet(is[k].blocks) \subseteq DOMAIN code
  BY <1>3, <1>4, NoBlocks
<1>7. Puts(code, c2, at, is)
  BY <1>2, <1>4, <1>5, <1>6 DEF Puts
<1>8. Adds(code, c2, at, is) /\ DOMAIN c2 = DOMAIN code
  BY <1>7, PutsAdds
<1>9. MayAdd(code, at, is)
  BY <1>4 DEF MayAdd
<1>10. ASSUME NEW k \in 1..Len(is) PROVE Fit(unit, item, code, D, at, is, k)
  <2>1. CASE k = 1
    BY <2>1, <1>4 DEF Fit, Arrives
  <2>2. CASE k = 2
    <3>1. ASSUME NEW x \in DOMAIN j.args PROVE Arrives(item, code, D, at, is, k, j.args[x])
      <4>1. CASE KnownIn(item, code, D[at], j.args[x])
        BY <4>1 DEF Arrives
      <4>2. CASE j.args[x] = i.def
        <5>1. 1 \in 1..(k - 1)
          BY <2>2
        <5> QED
          BY <4>2, <5>1, <1>4 DEF Arrives
      <4> QED
        BY <4>1, <4>2
    <3> QED
      BY <3>1, <2>2, <1>4 DEF Fit
  <2> QED
    BY <2>1, <2>2, <1>4
<1>11. GoesTo(is, code, c2, Pending(top))
  BY <1>4 DEF GoesTo
<1>12. Good(visits, code, at, scope_manager, unit, item, D, H)
  BY DEF GoodNow
<1>13. Widen(D, c2, at) = D
  BY <1>8, <1>12, WidenSame DEF Good
<1>14. CodeMoves(visits, code, at, c2, a2, unit, item, D, D)
  BY <1>1, <1>2, <1>8, <1>9, <1>10, <1>11, <1>12, <1>13, AddsMoves
<1>15. Opened(code, at, c2, a2, top, P)
  <2>1. a2 = at \/ (is # <<>> /\ Last(is).op \in Terminators)
    BY <1>4
  <2> QED
    BY <2>1, <1>8, AddsOpened
<1>16. Targets(c2, at) = IF j.op \in Terminators THEN ToSet(j.blocks) ELSE {}
  <2>1. Ending(code)
    BY <1>12 DEF Good
  <2> QED
    BY <2>1, <1>4, <1>8, <1>9, AddsStep
<1>17. Defines(c2, at, i.def)
  <2> DEFINE m == Len(code[at])
  <2>1. /\ m \in Nat /\ DOMAIN c2[at] = 1..(m + 2)
        /\ c2[at][m + 1] = is[1]
    <3>0. Len(is) = 2
      BY <1>4
    <3>2. AddsAt(code, c2, at, is, m, Len(is))
      BY <1>8, AddsFacts
    <3> HIDE DEF m
    <3>3. AddsAt(code, c2, at, is, m, 2)
      BY <3>0, <3>2
    <3>1. 1 \in 1..2
      OBVIOUS
    <3> QED
      BY <3>1, <3>3 DEF AddsAt
  <2> HIDE DEF m
  <2>2. m + 1 \in DOMAIN c2[at]
    BY <2>1
  <2> QED
    BY <2>1, <2>2, <1>4 DEF Defines
<1> QED
  BY <1>8, <1>14, <1>15, <1>16, <1>17

-----------------------------------------------------------------------------
(* What is known of the node on top. *)
LEMMA TopStands ==
    ASSUME IInv, Handled, visits # <<>>, NEW D, NEW H, GoodNow(D, H)
    PROVE  /\ Kept(visits, code, at, unit, item)
           /\ Good(visits, code, at, scope_manager, unit, item, D, H)
           /\ top = visits[Len(visits)] /\ Len(visits) \in Nat /\ Len(visits) \in 1..Len(visits)
           /\ Local(top, unit, unit[item].ret, DOMAIN code) /\ VisitType(top)
           /\ Stands(top, H[Len(visits)], item, unit[item].ret, code, D, at, scope_manager)
           /\ Wanted(top, unit[item].ret)
           /\ H[Len(visits)] \subseteq D[at] /\ 1 \in D[at]
           /\ at \in DOMAIN code /\ D[at] \subseteq DOMAIN code /\ at \in D[at]
           /\ \A b \in DOMAIN code : D[b] \subseteq DOMAIN code
           /\ 1 \in DOMAIN code /\ Ending(code) /\ Dominators(D, code) /\ CodeType(code)
           /\ TopValue(top, item, code, D, at, ir_code, current_type)
<1>1. /\ Kept(visits, code, at, unit, item)
      /\ Good(visits, code, at, scope_manager, unit, item, D, H)
      /\ TopValue(top, item, code, D, at, ir_code, current_type)
  BY StateKept DEF GoodNow
<1>2. Len(visits) \in Nat /\ Len(visits) \in 1..Len(visits)
  BY <1>1, KeptFacts
<1>3. Local(top, unit, unit[item].ret, DOMAIN code)
  BY <1>1, <1>2, KeptFacts DEF top
<1>4. /\ Stands(top, H[Len(visits)], item, unit[item].ret, code, D, at, scope_manager)
      /\ H[Len(visits)] \subseteq D[at] /\ 1 \in H[Len(visits)]
      /\ Ending(code) /\ Dominators(D, code)
  BY <1>1, <1>2 DEF Good, Homes, top
<1>5. at \in DOMAIN code /\ CodeType(code)
  BY <1>1 DEF Kept
<1>6. /\ \A b \in DOMAIN code : D[b] \subseteq DOMAIN code /\ b \in D[b]
      /\ 1 \in DOMAIN code
  BY <1>4 DEF Dominators
<1>7. Wanted(top, unit[item].ret)
  BY <1>4 DEF Stands
<1> QED
  BY <1>1, <1>2, <1>3, <1>4, <1>5, <1>6, <1>7 DEF top, Local

(* The types that checking allows are those that the part may have. *)
LEMMA WantsTaken ==
    ASSUME VisitsInv, ShapeInv, visits # <<>>, NEW type \in Wants,
           NEW r, r = unit[item].ret, Wanted(top, r)
    PROVE  Valued(top) => Takes(top, type)
<1>1. Local(top, unit, unit[item].ret, DOMAIN code)
  BY TopFacts
<1>2. VisitType(top) /\ Flags(top, unit[item].ret) /\ ExprParts(top) /\ IfParts(top)
  BY <1>1 DEF Local
<1>3. top.node \in Nodes /\ Len(top.trees) \in Nat
  BY <1>2, SeqItems DEF VisitType
<1>4. ~top.after /\ top.node \notin {"fn", "block"}
  BY DEF Wants
<1>5. Part(top) = Len(top.trees)
  BY <1>4 DEF Part
<1>7. top.node \in {"unary", "binary"} \/ top.op = "none"
  BY <1>2 DEF ExprParts
<1>8. top.op = "none" => top.op \notin Arithmetic \cup {"less"}
  BY DEF Arithmetic
<1> DEFINE n == Len(top.trees)
<1>9. CASE top.node = "unary" \/ top.op \in Arithmetic \cup {"less"}
  <2>1. type = "float"
    BY <1>4, <1>9 DEF Wants
  <2>2. top.node \in {"unary", "binary"}
    BY <1>7, <1>8, <1>9
  <2>3. top.node = "binary" /\ Part(top) = 1 => TypeOf(top.values[1]) = "float"
    BY <1>9, <2>2 DEF Wanted
  <2> QED
    BY <2>1, <2>2, <2>3 DEF Takes
<1>10. CASE top.node = "binary" /\ top.op \notin Arithmetic \cup {"less"}
  <2>1. n = 1 => type = TypeOf(top.values[1])
    BY <1>4, <1>10 DEF Wants
  <2> QED
    BY <2>1, <1>5, <1>10 DEF Takes
<1>11. CASE top.node = "if_expr"
  <2>1. top.op \notin Arithmetic \cup {"less"}
    BY <1>7, <1>8, <1>11
  <2>2. n = 0 => type = "bool"
    BY <1>4, <1>11, <2>1 DEF Wants
  <2>3. n = 1 => type \in top.want
    BY <1>4, <1>11, <2>1 DEF Wants
  <2> QED
    BY <2>1, <2>2, <2>3, <1>5, <1>11 DEF Takes
<1>12. CASE top.node = "if"
  <2>0. top.op \notin Arithmetic \cup {"less"}
    BY <1>7, <1>8, <1>12
  <2>1. Len(top.trees) % 2 = 0 /\ Len(top.trees) < 2 * top.branches /\ Wants = {"bool"}
    BY <1>4, <1>7, <1>8, <1>12 DEF Wants
  <2>2. CondPart(top)
    BY <2>1, <1>5, <1>12 DEF CondPart
  <2> QED
    BY <2>0, <2>1, <2>2, <1>12 DEF Takes
<1>13. CASE top.node = "call"
  <2>0. top.op \notin Arithmetic \cup {"less"}
    BY <1>7, <1>8, <1>13
  <2> QED
    BY <2>0, <1>13 DEF Takes
<1>14. CASE top.node \in {"let", "return"}
  <2>0. top.op \notin Arithmetic \cup {"less"}
    BY <1>7, <1>8, <1>14
  <2>1. Wants = top.want
    BY <1>4, <2>0, <1>14 DEF Wants
  <2> QED
    BY <2>0, <2>1, <1>14 DEF Takes
<1>15. CASE top.node = "stmt"
  <2>0. top.op \notin Arithmetic \cup {"less"}
    BY <1>7, <1>8, <1>15
  <2>1. Wants = top.want
    BY <1>4, <2>0, <1>15 DEF Wants
  <2> QED
    BY <2>0, <2>1, <1>15 DEF Takes
<1> QED
  BY <1>3, <1>4, <1>9, <1>10, <1>11, <1>12, <1>13, <1>14, <1>15 DEF Nodes

-----------------------------------------------------------------------------
(* The visit w, which is v after that of a part of it. *)
Gave(v, w) ==
    /\ Alike(v, w) /\ SameVisit(v, w) /\ w.declared = v.declared
    /\ w.after = TRUE /\ w.base = v.base /\ w.node = v.node /\ w.last = v.last
    /\ Pending(w) = Pending(v)
    /\ Valued(w) <=> Valued(v)
    /\ ExprPart(w) <=> ExprPart(v)

(* GivenTree is such a visit. *)
LEMMA GivenFacts ==
    ASSUME NEW v, VisitType(v), NEW tree, v.node # "block" => ~v.after
    PROVE  Gave(v, GivenTree(v, tree))
<1> DEFINE w == GivenTree(v, tree)
<1>1. /\ SameVisit(v, w) /\ w.after = TRUE /\ w.declared = v.declared
      /\ w.values = v.values /\ w.blocks = v.blocks
      /\ Len(w.trees) = Len(v.trees) + 1 /\ w.base = v.base /\ w.last = v.last
  BY GivenTreeVisit
<1>2. Alike(v, w)
  BY GivenTreeAlike
<1> HIDE DEF w
<1>3. /\ w.node = v.node /\ w.source = v.source /\ w.branches = v.branches
      /\ w.values = v.values /\ w.blocks = v.blocks /\ w.want = v.want
      /\ v.node \in {"if", "if_expr"} => Part(w) = Part(v)
  BY <1>2 DEF Alike, SameVisit
<1>4. Pending(w) = Pending(v)
  BY <1>3 DEF Pending, PendingParts
<1>5. CondPart(w) <=> CondPart(v)
  BY <1>3 DEF CondPart
<1>6. (Valued(w) <=> Valued(v)) /\ (ExprPart(w) <=> ExprPart(v))
  BY <1>1, <1>3, <1>5 DEF Valued, Sourced, ExprPart
<1>7. Gave(v, w)
  BY <1>1, <1>2, <1>3, <1>4, <1>6 DEF Gave
<1> QED
  BY <1>7 DEF w

-----------------------------------------------------------------------------
(* Expressions without parts. *)
LEMMA LeafG ==
    ASSUME IInv, Handled, visits # <<>>, Named, VisitorGoes, MapsStay, at' = at,
           NEW type \in Wants, NEW value \in Value, NEW tree, TypeOf(value) = type,
           ir_code' = Append(ir_code, value), current_type' = type,
           visits' = Leave(visits, tree),
           NEW D, NEW H, GoodNow(D, H),
           CodeMoves(visits, code, at, code', at, unit, item, D, D),
           Opened(code, at, code', at, top, Pending(top)),
           Targets(code', at) = Targets(code, at),
           KnownIn(item, code', D[at], value)
    PROVE  SoundInv'
<1> DEFINE w == GivenTree(top, tree)
           n == Len(visits)
           r == unit[item].ret
           h == H[n]
<1>1. /\ top = visits[n] /\ VisitType(top) /\ IsSeq(visits)
      /\ Local(top, unit, r, DOMAIN code)
      /\ Stands(top, h, item, r, code, D, at, scope_manager) /\ Wanted(top, r)
      /\ h \subseteq D[at] /\ D[at] \subseteq DOMAIN code
      /\ CodeStep(code, code', at) /\ Widens(D, D, code, code', at)
  BY TopStands, KeptFacts DEF CodeMoves
<1>2. ~top.after /\ ExprPart(top) /\ top.node \notin {"fn", "block"}
  BY WantsFacts DEF IInv
<1>3. /\ Alike(top, w) /\ SameVisit(top, w) /\ w.declared = top.declared
      /\ w.after = TRUE /\ w.base = top.base /\ w.node = top.node
      /\ (Valued(w) <=> Valued(top))
  <2>1. Gave(top, w)
    BY <1>1, <1>2, GivenFacts
  <2> HIDE DEF w
  <2> QED
    BY <2>1 DEF Gave
<1>4. Tops(visits, visits', w)
  BY <1>1, LeafLeaves
<1>5. Valued(top) => Takes(top, type)
  BY <1>1, WantsTaken DEF IInv
<1>6. top.base = Len(ir_code) /\ Len(ir_code) \in Nat
  BY <1>2, StackFact DEF IInv
<1>7. Len(ir_code') = Len(ir_code) + 1 /\ Last(ir_code') = value
  <2>1. ir_code \in Seq(Value)
    BY DEF IInv, TypeInv
  <2>2. Len(Append(ir_code, value)) = Len(ir_code) + 1
    BY <2>1, DatasAppend
  <2> QED
    BY <2>1, <2>2, AppendProperties DEF Last
<1>8. Stands(w, h, item, r, code', D, at, scope_manager) /\ Pending(w) = Pending(top)
  <2>1. \A b : Sources(code', b) = Sources(code, b)
    BY <1>1, SourcesStay
  <2>2. /\ Untouched(top, code, code') /\ Settled(top, at, at)
        /\ SameSlots(top, scope_manager, scope_manager)
    BY <2>1 DEF Untouched, Settled, SameSlots
  <2> DEFINE c2 == code'
             v == top
  <2>3. /\ Local(v, unit, r, DOMAIN code) /\ h \subseteq DOMAIN code
        /\ Stands(v, h, item, r, code, D, at, scope_manager)
        /\ CodeStep(code, c2, at) /\ Widens(D, D, code, c2, at)
        /\ Untouched(v, code, c2) /\ Settled(v, at, at)
        /\ SameSlots(v, scope_manager, scope_manager) /\ Alike(v, w)
    BY <1>1, <1>3, <2>2
  <2> HIDE DEF h, r, w, n, v, c2
  <2>4. Stands(v, h, item, r, c2, D, at, scope_manager)
    BY <2>3, StandsStays
  <2>5. Stands(w, h, item, r, c2, D, at, scope_manager) /\ Pending(w) = Pending(v)
    BY <2>3, <2>4, AlikeStands
  <2> QED
    BY <2>5 DEF c2, v
<1>9. TopValue(w, item, code', D, at, ir_code', current_type')
  <2>1. w.base < Len(ir_code')
    BY <1>3, <1>6, <1>7
  <2>2. Valued(w) => Valued(top)
    BY <1>3
  <2>3. Takes(top, type) => Takes(w, type)
    BY <1>3, AlikeTakes
  <2> HIDE DEF w, r
  <2> QED
    BY <2>1, <2>2, <2>3, <1>5, <1>7 DEF TopValue
<1>10. HomeFor(H, n, h, D, at)
  BY <1>1 DEF HomeFor
<1>11. TopGraph(w, D, H, D, h)
  <2>1. Opened(code, at, code', at', top, Pending(w)) /\ w.node # "fn"
    BY <1>2, <1>3, <1>8
  <2> HIDE DEF w, h
  <2> QED
    BY <2>1, <1>8, <1>9, <1>10 DEF TopGraph
<1> HIDE DEF w, h
<1> QED
  BY <1>3, <1>4, <1>11, TopG

(* visit_literal. *)
LEMMA LiteralG ==
    ASSUME IInv, SoundInv, visits # <<>>, NEW type \in Data, Literal(type)
    PROVE  SoundInv'
<1> SUFFICES ASSUME Handled' PROVE SoundInv'
  BY DEF SoundInv
<1>1. /\ unit' = unit /\ item' = item /\ scope_manager' = scope_manager
      /\ types' = types /\ code' = code /\ at' = at /\ regs' = regs /\ notes' = notes
      /\ type \in Wants /\ current_type' = type
      /\ ir_code' = Append(ir_code, LiteralOf(type))
      /\ visits' = Leave(visits, <<"literal", LiteralOf(type)>>)
  BY DEF Literal, Expression, Goes, Runs, builder
<1>2. Handled
  BY <1>1, HandledBefore
<1>3. Named
  BY <1>2, SoundInvHas
<1>4. PICK D, H : GoodNow(D, H)
  BY <1>2, SoundInvHas
<1>5. Len(top.trees) \in Nat /\ type \in Types
  BY <1>2, <1>4, TopStands, SeqItems DEF VisitType, Types
<1>6. LiteralOf(type) \in Value /\ TypeOf(LiteralOf(type)) = type
  BY <1>5, ValueFacts DEF LiteralOf
<1>7. KnownIn(item, code', D[at], LiteralOf(type))
  BY DEF KnownIn, LiteralOf, Const
<1>8. /\ CodeMoves(visits, code, at, code', at, unit, item, D, D)
      /\ Opened(code, at, code', at, top, Pending(top))
      /\ Targets(code', at) = Targets(code, at)
  BY <1>1, <1>2, <1>4, TopStands, SameCodeMoves
<1>9. VisitorGoes /\ MapsStay
  BY <1>1 DEF VisitorGoes, MapsStay, IInv, TypeInv
<1> QED
  BY <1>1, <1>2, <1>3, <1>4, <1>6, <1>7, <1>8, <1>9, LeafG

(* The slots of variables. *)
LEMMA SlotKnown ==
    ASSUME IInv, Handled, visits # <<>>, Named, NEW D, NEW H, GoodNow(D, H),
           NEW id \in Visible
    PROVE  /\ KnownIn(item, code, D[at], scope_manager[id])
           /\ scope_manager[id] \in Value /\ TypeOf(scope_manager[id]) \in Data
           /\ types[id] = TypeOf(scope_manager[id])
<1>1. scope_manager[id] \in Value
  BY DEF IInv, VisitsInv
<1>2. TypeOf(scope_manager[id]) \in Data
  BY DEF IInv, StackInv, DataInv
<1>3. types[id] = TypeOf(scope_manager[id])
  BY DEF Named
<1>4. 1 \in D[at] /\ Kept(visits, code, at, unit, item)
      /\ Good(visits, code, at, scope_manager, unit, item, D, H)
  BY TopStands
<1>5. KnownIn(item, code, D[at], scope_manager[id])
  <2>1. CASE \E p \in Params : id = ParamId(p)
    <3>1. KnownIn(item, code, {1}, scope_manager[id])
      BY <2>1 DEF Named
    <3>2. {1} \subseteq D[at]
      BY <1>4
    <3> QED
      BY <3>1, <3>2, KnownMore
  <2>2. CASE \E k \in DOMAIN visits : id \in visits[k].declared
    <3>1. PICK k \in DOMAIN visits : id \in visits[k].declared
      BY <2>2
    <3>2. k \in 1..Len(visits)
      BY <1>4, KeptFacts
    <3>3. /\ Stands(visits[k], H[k], item, unit[item].ret, code, D, at, scope_manager)
          /\ H[k] \subseteq D[at]
      BY <1>4, <3>2 DEF Good, Homes
    <3>4. scope_manager[id] \in Carried(visits[k], scope_manager)
      BY <3>1 DEF Carried
    <3>5. KnownIn(item, code, H[k], scope_manager[id])
      BY <3>3, <3>4 DEF Stands
    <3> QED
      BY <3>3, <3>5, KnownMore
  <2> QED
    BY <2>1, <2>2 DEF Visible
<1> QED
  BY <1>1, <1>2, <1>3, <1>5

(* visit_var_ref: the load of a slot that is known. *)
LEMMA VarRefG ==
    ASSUME IInv, SoundInv, visits # <<>>, NEW id \in Visible, VarRef(id)
    PROVE  SoundInv'
<1> SUFFICES ASSUME Handled' PROVE SoundInv'
  BY DEF SoundInv
<1> DEFINE slot == scope_manager[id]
           load == NewReg(TypeOf(slot))
           i == Instr("load", load, <<slot>>, <<>>)
<1>1. /\ unit' = unit /\ stage' = stage /\ item' = item /\ scope_manager' = scope_manager
      /\ types' = types /\ at' = at /\ regs' = regs + 1 /\ notes' = notes
      /\ types[id] \in Wants /\ current_type' = types[id]
      /\ code' = Emit(<<i>>)
      /\ ir_code' = Append(ir_code, load)
      /\ visits' = Leave(visits, <<"var", id>>)
  BY DEF VarRef, Expression, Goes, Runs, Counted
<1>2. Handled
  BY <1>1, HandledBefore
<1>3. Named
  BY <1>2, SoundInvHas
<1>4. PICK D, H : GoodNow(D, H)
  BY <1>2, SoundInvHas
<1>5. /\ KnownIn(item, code, D[at], slot) /\ slot \in Value /\ slot \in Values
      /\ TypeOf(slot) \in Data /\ types[id] = TypeOf(slot)
  BY <1>2, <1>3, <1>4, SlotKnown, ValueFacts
<1>6. /\ load \in Value /\ TypeOf(load) = TypeOf(slot) /\ load[1] = "reg" /\ load[2] = item
  BY <1>5, NewRegIs DEF IInv, Types, NewReg, Reg
<1>7. /\ i \in InstrSet /\ i.op = "load" /\ i.blocks = <<>> /\ i.def = load
      /\ i.args = <<slot>>
  <2>1. <<slot>> \in Seq(Values) /\ <<>> \in Seq(Nat) /\ "load" \in InstrOps
    BY <1>5 DEF InstrOps
  <2> QED
    BY <2>1, <1>6 DEF Instr, InstrSet
<1>8. ~top.after /\ top.node \notin {"fn", "block"}
  BY <1>1, WantsFacts DEF IInv
<1>9. Open(code, at)
  BY <1>2, <1>8, IsOpen DEF IInv
<1>10. /\ at \in DOMAIN code /\ at \in D[at] /\ Ending(code)
  BY <1>2, <1>4, TopStands
<1> HIDE DEF slot, load, i
<1>11. Typed(unit, item, i)
  BY <1>5, <1>6, <1>7 DEF Typed, Data
<1>12. \A k \in DOMAIN i.args : KnownIn(item, code, D[at], i.args[k])
  BY <1>5, <1>7
<1> DEFINE c2 == Emit(<<i>>)
<1>13. /\ ToSet(i.blocks) \subseteq Pending(top) /\ i.op # "phi" /\ i.op \notin Terminators
       /\ \A b \in Pending(top) : b = at \/ b \in Pending(top)
  BY <1>7, NoBlocks DEF Terminators
<1>14. c2 = Emit(<<i>>)
  OBVIOUS
<1> HIDE DEF c2
<1>15. /\ CodeMoves(visits, code, at, c2, at, unit, item, D, D)
       /\ Opened(code, at, c2, at, top, Pending(top))
       /\ Defines(c2, at, i.def) /\ Open(c2, at)
  BY <1>2, <1>4, <1>7, <1>9, <1>10, <1>11, <1>12, <1>13, <1>14, EmitOneMoves
<1>16. Targets(c2, at) = Targets(code, at)
  BY <1>9, <1>15 DEF Targets
<1>17. KnownIn(item, c2, D[at], load)
  BY <1>6, <1>7, <1>10, <1>15 DEF KnownIn
<1>18. code' = c2
  BY <1>1 DEF c2
<1>19. VisitorGoes /\ MapsStay
  BY <1>1 DEF VisitorGoes, MapsStay, IInv, TypeInv
<1> QED
  BY <1>1, <1>2, <1>3, <1>4, <1>5, <1>6, <1>15, <1>16, <1>17, <1>18, <1>19, LeafG

(* visit_return without a value is not handled. *)
LEMMA ReturnEmptyG ==
    ASSUME NEW last \in BOOLEAN, ReturnEmpty(last)
    PROVE  SoundInv'
BY DEF ReturnEmpty, Note, SoundInv, Handled

-----------------------------------------------------------------------------
(* The visit of a part begins. *)
LEMMA FreshStands ==
    ASSUME NEW c, Fresh(c), c.node # "if", c.blocks = <<>>,
           NEW h, NEW f, NEW r, NEW b, NEW D, NEW a, NEW slots, Wanted(c, r)
    PROVE  Stands(c, h, f, r, b, D, a, slots) /\ Pending(c) = {}
<1>1. c.declared = {} /\ ToSet(c.values) = {} /\ Part(c) = 0
  BY FreshParts, EmptyIs DEF Fresh
<1>2. PendingParts(c) = {}
  BY FreshParts
<1>3. Pending(c) = {}
  BY <1>2 DEF Pending
<1>4. Carried(c, slots) = {}
  BY <1>1 DEF Carried
<1>5. IfStands(c, f, b, D, a) /\ IfExprStands(c, f, b, D)
  BY <1>1 DEF IfStands, IfExprStands
<1> QED
  BY <1>3, <1>4, <1>5 DEF Stands

(* The visit of an operation begins: all have no parts yet. *)
LEMMA OperationG ==
    ASSUME IInv, SoundInv, visits # <<>>, NEW form, NEW type, NEW c, Operation(form, type, c),
           Fresh(c), c.node \in ExprNodes, ~c.source, c.blocks = <<>>,
           c.node = "if_expr" => form = "if_expr",
           \A t \in Data : Gives(c, t) => t = type
    PROVE  SoundInv'
<1> SUFFICES ASSUME Handled' PROVE SoundInv'
  BY DEF SoundInv
<1>1. /\ unit' = unit /\ stage' = stage /\ item' = item /\ scope_manager' = scope_manager
      /\ types' = types /\ code' = code /\ at' = at /\ regs' = regs
      /\ ir_code' = ir_code /\ current_type' = current_type
      /\ notes' = notes \cup IF form = "if_expr" /\ InBranch THEN {"nested_branch"} ELSE {}
      /\ type \in Wants /\ visits' = Append(visits, c)
  BY DEF Operation, Expression, Goes, Runs, Counted, Note, builder
<1>2. Handled
  <2>1. notes \subseteq notes'
    BY <1>1
  <2> QED
    BY <2>1, HandledBefore
<1>3. Named
  BY <1>2, SoundInvHas
<1>4. PICK D, H : GoodNow(D, H)
  BY <1>2, SoundInvHas
<1> DEFINE r == unit[item].ret
<1>5. Pushes(visits, visits', top, c)
  BY <1>1, TopFacts, PushOnTop DEF IInv
<1>6. Wanted(c, r)
  <2>1. Part(c) = 0
    BY FreshParts
  <2>2. c.node \notin {"fn", "return", "let"}
    BY DEF ExprNodes
  <2> HIDE DEF r
  <2> QED
    BY <2>1, <2>2 DEF Wanted
<1>7. Stands(c, D[at], item, r, code', D, at, scope_manager) /\ Pending(c) = {}
  BY <1>6, FreshStands DEF ExprNodes
<1>8. Wanted(top, r)
  BY <1>2, <1>4, TopStands
<1>9. Feeds(top, c)
  <2>1. Valued(top) => Takes(top, type)
    BY <1>1, <1>8, WantsTaken DEF IInv
  <2> QED
    BY <2>1 DEF Feeds
<1>10. c.node \in {"if", "if_expr"} => ~InBranch
  <2>1. "nested_branch" \notin notes'
    BY DEF Handled
  <2> QED
    BY <2>1, <1>1 DEF ExprNodes
<1>11. /\ CodeMoves(visits, code, at, code', at, unit, item, D, D)
       /\ Opened(code, at, code', at, top, Pending(top) \cup Pending(c))
       /\ Targets(code', at) = Targets(code, at)
  BY <1>1, <1>2, <1>4, TopStands, SameCodeMoves
<1>12. Alike(top, top)
  BY DEF Alike, SameVisit
<1>13. PushGraph(top, c, D, H, D)
  BY <1>7, <1>9, <1>10, <1>11, <1>12 DEF PushGraph, Fresh, ExprNodes
<1>14. VisitorGoes /\ MapsStay
  BY <1>1 DEF VisitorGoes, MapsStay, IInv, TypeInv
<1> QED
  BY <1>1, <1>2, <1>3, <1>4, <1>5, <1>13, <1>14, PushG

(* visit_unary_op begins. *)
LEMMA UnaryBeginG ==
    ASSUME IInv, SoundInv, visits # <<>>, NEW op \in UnaryOps, UnaryBegin(op)
    PROVE  SoundInv'
<1> DEFINE c == [NewVisit("unary", {}) EXCEPT !.op = op]
<1>1. Operation(op, ResultOf(op), c)
  BY DEF UnaryBegin
<1>2. Len(ir_code) \in Nat
  BY LenProperties DEF IInv, TypeInv
<1>3. Fresh(c) /\ c.node = "unary" /\ c.op = op /\ ~c.source /\ c.blocks = <<>>
  BY <1>2, EmptyIs DEF NewVisit, Fresh, VisitType, Nodes
<1> HIDE DEF c
<1>4. \A t \in Data : Gives(c, t) => t = ResultOf(op)
  BY <1>3 DEF Gives
<1> QED
  BY <1>1, <1>3, <1>4, OperationG DEF ExprNodes

(* visit_binary_op begins. *)
LEMMA BinaryBeginG ==
    ASSUME IInv, SoundInv, visits # <<>>, NEW op \in BinaryOps, BinaryBegin(op)
    PROVE  SoundInv'
<1> DEFINE c == [NewVisit("binary", {}) EXCEPT !.op = op]
<1>1. Operation(op, ResultOf(op), c)
  BY DEF BinaryBegin
<1>2. Len(ir_code) \in Nat
  BY LenProperties DEF IInv, TypeInv
<1>3. Fresh(c) /\ c.node = "binary" /\ c.op = op /\ ~c.source /\ c.blocks = <<>>
  BY <1>2, EmptyIs DEF NewVisit, Fresh, VisitType, Nodes
<1> HIDE DEF c
<1>4. \A t \in Data : Gives(c, t) => t = ResultOf(op)
  BY <1>3 DEF Gives
<1> QED
  BY <1>1, <1>3, <1>4, OperationG DEF ExprNodes

(* visit_if_expr begins. *)
LEMMA IfExprBeginG ==
    ASSUME IInv, SoundInv, visits # <<>>, NEW type \in Data, IfExprBegin(type)
    PROVE  SoundInv'
<1> DEFINE c == NewVisit("if_expr", {type})
<1>1. Operation("if_expr", type, c)
  BY DEF IfExprBegin
<1>2. Len(ir_code) \in Nat /\ {type} \in SUBSET Types
  BY LenProperties DEF IInv, TypeInv, Types
<1>3. /\ Fresh(c) /\ c.node = "if_expr" /\ ~c.source /\ c.blocks = <<>> /\ c.want = {type}
  BY <1>2, EmptyIs DEF NewVisit, Fresh, VisitType, Nodes
<1> HIDE DEF c
<1>4. \A t \in Data : Gives(c, t) => t = type
  BY <1>3 DEF Gives
<1> QED
  BY <1>1, <1>3, <1>4, OperationG DEF ExprNodes

(* visit_fn_call begins. *)
LEMMA CallsG ==
    ASSUME IInv, SoundInv, visits # <<>>, Calls
    PROVE  SoundInv'
<1>1. PICK type \in Wants, fn \in Fns : \E args \in ArgLists(fn) :
          CallBegin(type, fn, args) \/ WildCallBegin(type, fn, args)
  BY DEF Calls
<1>2. PICK args \in ArgLists(fn) : CallBegin(type, fn, args) \/ WildCallBegin(type, fn, args)
  BY <1>1
<1> DEFINE c == [NewVisit("call", {type}) EXCEPT !.fn = fn, !.args = args]
<1>3. \E form : Operation(form, type, c)
  BY <1>2 DEF CallBegin, WildCallBegin, Call
<1>4. PICK form : Operation(form, type, c)
  BY <1>3
<1>5. fn \in Nat /\ DOMAIN unit[fn].params \subseteq Nat
  <2>1. fn \in DOMAIN unit /\ unit[fn].kind = "Fn"
    BY DEF Fns
  <2>2. unit \in Seq(Item)
    BY DEF IInv, TypeInv
  <2>3. unit[fn] \in Item /\ fn \in Nat
    BY <2>1, <2>2, LenProperties, ElementOfSeq
  <2>4. unit[fn].params \in Seq(Data)
    BY <2>1, <2>3 DEF Item
  <2> QED
    BY <2>3, <2>4, LenProperties
<1>6. args \in Seq(Nat)
  <2>1. PICK n \in 0..Len(unit[fn].params) : args \in [1..n -> DOMAIN unit[fn].params]
    BY DEF ArgLists
  <2>2. args \in [1..n -> Nat] /\ n \in Nat
    BY <2>1, <1>5
  <2> QED
    BY <2>2
<1>7. Len(ir_code) \in Nat /\ {type} \in SUBSET Types
  <2>1. type \in Types
    BY WantsFacts DEF IInv
  <2> QED
    BY <2>1, LenProperties DEF IInv, TypeInv
<1>8. /\ Fresh(c) /\ c.node = "call" /\ ~c.source /\ c.blocks = <<>> /\ c.want = {type}
  BY <1>5, <1>6, <1>7, EmptyIs DEF NewVisit, Fresh, VisitType, Nodes
<1> HIDE DEF c
<1>9. \A t \in Data : Gives(c, t) => t = type
  BY <1>8 DEF Gives
<1> QED
  BY <1>4, <1>8, <1>9, OperationG DEF ExprNodes

-----------------------------------------------------------------------------
(* Statements begin. *)
StatementNodes == {"block", "stmt", "if", "let", "return"}

(* A statement of a block begins. *)
LEMMA StatementG ==
    ASSUME IInv, Handled, visits # <<>>, Named, NEW last \in BOOLEAN, Statement(last),
           NEW c, Enters(last, c), Fresh(c), c.node \in StatementNodes, at' = at,
           last /\ c.node \notin {"let", "return"} => c.want = top.want,
           notes \subseteq notes', NEW D, NEW H, GoodNow(D, H), NEW D2,
           CodeMoves(visits, code, at, code', at, unit, item, D, D2),
           Targets(code', at) = Targets(code, at),
           Opened(code, at, code', at, top, Pending(top) \cup Pending(c)),
           c.node = "if" => ~InBranch,
           Stands(c, D[at], item, unit[item].ret, code', D2, at, scope_manager)
    PROVE  SoundInv'
<1> DEFINE v == top
           n == Len(ir_code)
           w == [v EXCEPT !.last = last, !.base = n]
           r == unit[item].ret
<1>1. /\ unit' = unit /\ item' = item /\ scope_manager' = scope_manager
      /\ types' = types /\ regs' = regs
      /\ top.node = "block" /\ ~top.last
      /\ visits' = Append([visits EXCEPT ![Len(visits)] = w], c)
  BY DEF Statement, BlockNext, Goes, Runs, Enters, ToStatement, Under
<1>2. /\ IsSeq(visits) /\ top = visits[Len(visits)] /\ VisitType(top)
      /\ Local(top, unit, unit[item].ret, DOMAIN code)
  BY TopFacts DEF Local, IInv
<1>3. n \in Nat /\ v = top /\ VisitType(v)
  BY <1>2, LenProperties DEF TypeInv, IInv
<1>4. Pushes(visits, visits', w, c)
  BY <1>1, <1>2, PushOnChanged
<1> HIDE DEF n, v
<1>5. /\ SameVisit(v, w) /\ w.values = v.values /\ w.blocks = v.blocks
      /\ w.declared = v.declared
  BY <1>3 DEF VisitType, SameVisit
<1> HIDE DEF w
<1>6. Alike(top, w)
  BY <1>1, <1>3, <1>5 DEF Alike
<1>7. Pending(w) = Pending(top) /\ w.node = "block" /\ w.op = "none"
  <2>1. w.node = top.node /\ w.op = top.op
    BY <1>6 DEF Alike, SameVisit
  <2>2. top.op = "none"
    BY <1>1, <1>2 DEF Local, ExprParts
  <2>3. PendingParts(w) = {} /\ PendingParts(top) = {}
    BY <2>1, <1>1 DEF PendingParts
  <2> QED
    BY <2>1, <2>2, <2>3, <1>1 DEF Pending
<1>8. Feeds(w, c)
  <2>1. \A t \in w.want : Takes(w, t)
    BY <1>7 DEF Takes, Arithmetic
  <2>2. c.node \notin {"let", "return"} => \A t : Gives(c, t) => t \in c.want
    BY DEF Gives, StatementNodes
  <2>3. Valued(w) /\ c.node \notin {"let", "return"} => c.want = w.want
    <3>1. Valued(w) => w.last
      BY <1>7 DEF Valued, CondPart, ExprNodes
    <3>2. w.want = top.want
      BY <1>6 DEF Alike, SameVisit
    <3>3. w.last = last
      BY <1>3 DEF w, VisitType
    <3> QED
      BY <3>1, <3>2, <3>3
  <2> QED
    BY <2>1, <2>2, <2>3 DEF Feeds
<1>9. c.node # "fn" /\ ~c.after /\ c.declared = {}
  BY DEF Fresh, StatementNodes
<1>10. c.node # "if_expr"
  BY DEF StatementNodes
<1>11. PushGraph(w, c, D, H, D2)
  BY <1>6, <1>7, <1>8, <1>9, <1>10 DEF PushGraph
<1>12. VisitorGoes /\ MapsStay
  BY <1>1 DEF VisitorGoes, MapsStay, IInv, TypeInv
<1> QED
  BY <1>4, <1>11, <1>12, PushG

(* One that adds no code at first. *)
LEMMA SimpleG ==
    ASSUME IInv, SoundInv, visits # <<>>, NEW last \in BOOLEAN, Simple(last), NEW c,
           Enters(last, c),
           Fresh(c), c.node \in StatementNodes \ {"if"}, c.blocks = <<>>,
           last /\ c.node \notin {"let", "return"} => c.want = top.want,
           notes \subseteq notes', Handled',
           Wanted(top, unit[item].ret) => Wanted(c, unit[item].ret)
    PROVE  SoundInv'
<1>1. Statement(last) /\ code' = code /\ at' = at
  BY DEF Simple
<1>2. Handled
  BY HandledBefore
<1>3. Named
  BY <1>2, SoundInvHas
<1>4. PICK D, H : GoodNow(D, H)
  BY <1>2, SoundInvHas
<1>5. Wanted(top, unit[item].ret)
  BY <1>2, <1>4, TopStands
<1>6. Stands(c, D[at], item, unit[item].ret, code', D, at, scope_manager) /\ Pending(c) = {}
  BY <1>5, FreshStands
<1>7. /\ CodeMoves(visits, code, at, code', at, unit, item, D, D)
      /\ Opened(code, at, code', at, top, Pending(top) \cup Pending(c))
      /\ Targets(code', at) = Targets(code, at)
  BY <1>1, <1>2, <1>4, TopStands, SameCodeMoves
<1> QED
  BY <1>1, <1>2, <1>3, <1>4, <1>6, <1>7, StatementG

(* visit_declaration begins. *)
LEMMA LetBeginG ==
    ASSUME IInv, SoundInv, visits # <<>>, NEW last \in BOOLEAN, NEW type \in Data,
           LetBegin(last, type)
    PROVE  SoundInv'
<1> SUFFICES ASSUME Handled' PROVE SoundInv'
  BY DEF SoundInv
<1> DEFINE c == NewVisit("let", {type})
<1>1. Simple(last) /\ Enters(last, c) /\ notes' = notes
  BY DEF LetBegin
<1>2. Len(ir_code) \in Nat /\ {type} \in SUBSET Types
  BY LenProperties DEF IInv, TypeInv, Types
<1>3. /\ Fresh(c) /\ c.node = "let" /\ c.source = FALSE /\ c.blocks = <<>> /\ c.want = {type}
  BY <1>2, EmptyIs DEF NewVisit, Fresh, VisitType, Nodes
<1> HIDE DEF c
<1>4. Wanted(c, unit[item].ret)
  BY <1>3 DEF Wanted
<1> QED
  BY <1>1, <1>3, <1>4, SimpleG DEF StatementNodes

(* A last statement has the value of its block. *)
LEMMA LastWanted ==
    ASSUME IInv, visits # <<>>, NEW last \in BOOLEAN, Statement(last), NEW r, Wanted(top, r),
           NEW c, c.node \in {"block", "stmt", "if"}, c.source = last,
           c.want = IF last THEN top.want ELSE Types
    PROVE  Wanted(c, r)
<1>1. last => top.source
  BY DEF Statement, BlockNext
<1>2. last => \E t \in Types : top.want = {t} /\ (r # "()" => t = r)
  BY <1>1 DEF Wanted
<1> QED
  BY <1>2 DEF Wanted

(* An expression that is a statement begins. *)
LEMMA ExprBeginG ==
    ASSUME IInv, SoundInv, visits # <<>>, NEW last \in BOOLEAN, ExprBegin(last)
    PROVE  SoundInv'
<1> SUFFICES ASSUME Handled' PROVE SoundInv'
  BY DEF SoundInv
<1> DEFINE want == IF last THEN top.want ELSE Types
           c == [NewVisit("stmt", want) EXCEPT !.source = last]
<1>1. Simple(last) /\ Enters(last, c) /\ notes' = notes
  BY DEF ExprBegin
<1>2. want \in SUBSET Types /\ Len(ir_code) \in Nat
  BY <1>1, LastWants DEF Simple
<1>5. want = IF last THEN top.want ELSE Types
  OBVIOUS
<1> HIDE DEF want
<1>3. /\ Fresh(c) /\ c.node = "stmt" /\ c.source = last /\ c.blocks = <<>> /\ c.want = want
  BY <1>2, EmptyIs DEF NewVisit, Fresh, VisitType, Nodes
<1> HIDE DEF c
<1>4. Wanted(top, unit[item].ret) => Wanted(c, unit[item].ret)
  BY <1>1, <1>3, <1>5, LastWanted DEF Simple
<1> QED
  BY <1>1, <1>3, <1>4, <1>5, SimpleG DEF StatementNodes

(* visit_do_block begins. *)
LEMMA DoBlockG ==
    ASSUME IInv, SoundInv, visits # <<>>, NEW last \in BOOLEAN, DoBlock(last)
    PROVE  SoundInv'
<1> SUFFICES ASSUME Handled' PROVE SoundInv'
  BY DEF SoundInv
<1> DEFINE want == IF last THEN top.want ELSE Types
           tail == last /\ top.tail
           c == [NewVisit("block", want) EXCEPT !.source = last, !.tail = tail]
<1>1. Simple(last) /\ Enters(last, c) /\ notes' = notes
  BY DEF DoBlock
<1>2. want \in SUBSET Types /\ Len(ir_code) \in Nat /\ tail \in BOOLEAN
  BY <1>1, LastWants DEF Simple
<1>5. want = IF last THEN top.want ELSE Types
  OBVIOUS
<1> HIDE DEF want, tail
<1>3. /\ Fresh(c) /\ c.node = "block" /\ c.source = last /\ c.blocks = <<>> /\ c.want = want
  BY <1>2, EmptyIs DEF NewVisit, Fresh, VisitType, Nodes
<1> HIDE DEF c
<1>4. Wanted(top, unit[item].ret) => Wanted(c, unit[item].ret)
  BY <1>1, <1>3, <1>5, LastWanted DEF Simple
<1> QED
  BY <1>1, <1>3, <1>4, <1>5, SimpleG DEF StatementNodes

(* visit_return begins. *)
LEMMA ReturnBeginG ==
    ASSUME IInv, SoundInv, visits # <<>>, NEW last \in BOOLEAN, ReturnBegin(last)
    PROVE  SoundInv'
<1> SUFFICES ASSUME Handled' PROVE SoundInv'
  BY DEF SoundInv
<1> DEFINE want == IF fn_ty.ret = "()" THEN Data ELSE {fn_ty.ret}
           c == NewVisit("return", want)
<1>1. Simple(last) /\ Enters(last, c) /\ notes' = notes \cup ReturnNote(last)
  BY DEF ReturnBegin, Note
<1>2. want \in SUBSET Types /\ Len(ir_code) \in Nat
  <2>1. unit[item].ret \in Types
    BY TopFacts DEF IInv
  <2> QED
    BY <2>1, LenProperties DEF fn_ty, Types, IInv, TypeInv
<1>5. want = IF unit[item].ret = "()" THEN Data ELSE {unit[item].ret}
  BY DEF fn_ty
<1> HIDE DEF want
<1>3. /\ Fresh(c) /\ c.node = "return" /\ c.source = FALSE /\ c.blocks = <<>> /\ c.want = want
  BY <1>2, EmptyIs DEF NewVisit, Fresh, VisitType, Nodes
<1> HIDE DEF c
<1>6. last /\ top.tail
  BY <1>1 DEF Handled, ReturnNote
<1>7. unit[item].ret \in Data
  <2>1. Local(top, unit, unit[item].ret, DOMAIN code)
    BY TopFacts DEF IInv
  <2> QED
    BY <2>1, <1>6 DEF Local, Flags, Types, Data
<1>4. Wanted(c, unit[item].ret)
  BY <1>3, <1>5, <1>7 DEF Wanted, Data
<1>8. notes \subseteq notes'
  BY <1>1
<1> QED
  BY <1>1, <1>3, <1>4, <1>8, SimpleG DEF StatementNodes

-----------------------------------------------------------------------------
(* The basic blocks of an if block. *)
LEMMA BlocksAdded ==
    ASSUME NEW c, CodeType(c), NEW a \in DOMAIN c, NEW c2, CodeType(c2), Grows(c, c2, a),
           c2[a] = c[a]
    PROVE  Adds(c, c2, a, <<>>) /\ MayAdd(c, a, <<>>)
<1>1. c[a] \in Seq(InstrSet)
  BY InstrFacts
<1>2. c[a] \o <<>> = c[a] /\ <<>> \in Seq(InstrSet)
  BY <1>1, ConcatEmptySeq
<1>3. MayAdd(c, a, <<>>)
  BY DEF MayAdd
<1> QED
  BY <1>2, <1>3 DEF Adds

(* The blocks of an if are new, and different from each other. *)
LEMMA IfFresh ==
    ASSUME NEW c, Fresh(c), c.node = "if", c.branches >= 1, c.branches \in Nat,
           NEW b, NEW b2, NEW a, CodeStep(b, b2, a), Targets(b2, a) = Targets(b, a),
           NEW D, NEW D2, Widens(D, D2, b, b2, a), Opens(c, DOMAIN b, DOMAIN b2),
           c.source => Last(c.blocks) \notin DOMAIN b,
           PendingParts(c) = DOMAIN c.blocks,
           NEW f, NEW r, NEW slots, Wanted(c, r)
    PROVE  Stands(c, D[a], f, r, b2, D2, a, slots)
<1>1. c.declared = {} /\ ToSet(c.values) = {} /\ Part(c) = 0 /\ Len(c.values) = 0
  BY FreshParts, EmptyIs DEF Fresh
<1>2. \A x \in Pending(c) : D2[x] = D[a] \cup {x}
  BY DEF Opens, Widens
<1>3. Carried(c, slots) = {}
  BY <1>1 DEF Carried
<1>4. ASSUME NEW x, x \notin DOMAIN b PROVE Sources(b2, x) = {}
  <2>1. Sources(b2, x) = Sources(b, x)
    BY SourcesStay
  <2>2. CodeType(b)
    BY DEF CodeStep
  <2>3. \A p \in DOMAIN b : Targets(b, p) \subseteq DOMAIN b
    BY <2>2, TargetsIn
  <2> QED
    BY <1>4, <2>1, <2>3 DEF Sources
<1>5. BodiesDone(c) = 0 /\ CondPart(c)
  <2> DEFINE br == c.branches
  <2>1. br \in Nat /\ br >= 1
    OBVIOUS
  <2> HIDE DEF br
  <2>2. 0 # 2 * br + 1 /\ 0 \div 2 = 0 /\ 0 % 2 = 0 /\ 0 < 2 * br
    BY <2>1
  <2> QED
    BY <1>1, <2>2 DEF BodiesDone, CondPart, br
<1>6. IfStands(c, f, b2, D2, a)
  <2>1. 1..0 = {}
    OBVIOUS
  <2>2. \A i, j \in DOMAIN c.blocks : c.blocks[i] = c.blocks[j] => i = j
    BY DEF Opens
  <2>3. c.source => Sources(b2, Last(c.blocks)) = {}
    BY <1>4
  <2> QED
    BY <2>1, <2>2, <2>3, <1>1, <1>5 DEF IfStands
<1>7. IfExprStands(c, f, b2, D2)
  BY DEF IfExprStands
<1> QED
  BY <1>2, <1>3, <1>6, <1>7 DEF Stands

(* visit_if_block begins: its blocks are appended. *)
LEMMA IfBeginG ==
    ASSUME IInv, SoundInv, visits # <<>>, NEW last \in BOOLEAN, NEW branches \in 1..MaxBranches,
           NEW else \in BOOLEAN, IfBegin(last, branches, else)
    PROVE  SoundInv'
<1> SUFFICES ASSUME Handled' PROVE SoundInv'
  BY DEF SoundInv
<1> DEFINE want == IF last THEN top.want ELSE Types
           n == 2 * branches + IF else THEN 1 ELSE 0
           bs == [b \in 1..n |-> Len(code) + b]
           c == [NewVisit("if", want) EXCEPT !.source = last, !.branches = branches, !.blocks = bs]
<1>1. /\ Statement(last) /\ Enters(last, c) /\ (last => else) /\ at' = at
      /\ code' = code \o NewBlocks(n)
      /\ \E void \in SUBSET {"void_if"} :
            notes' = notes \cup (IF InBranch THEN {"nested_branch"} ELSE {}) \cup void
  BY DEF IfBegin, Note
<1>2. /\ want \in SUBSET Types /\ Len(ir_code) \in Nat
      /\ want = IF last THEN top.want ELSE Types
      /\ last => want = top.want
  BY <1>1, LastWants
<1>3. branches \in Nat /\ branches >= 1
  BY BoundsAssumption
<1>4. n \in Nat /\ n >= 1
  BY <1>3
<1>5. TypeInv /\ at \in DOMAIN code
  BY TopFacts DEF IInv
<1> HIDE DEF want, n
<1>7. /\ CodeType(code') /\ DOMAIN code = 1..Len(code) /\ Len(code) \in Nat
      /\ DOMAIN code' = 1..(Len(code) + n)
      /\ Grows(code, code', at) /\ code'[at] = code[at]
  BY <1>1, <1>4, <1>5, NewBlocksAre
<1> DEFINE m == Len(code)
<1>8. m \in Nat /\ DOMAIN code = 1..m /\ DOMAIN code' = 1..(m + n) /\ bs = [b \in 1..n |-> m + b]
  BY <1>7
<1> HIDE DEF m, bs
<1>9. bs \in Seq(Nat)
  <2>1. bs \in [1..n -> Nat]
    BY <1>4, <1>8
  <2> QED
    BY <2>1, <1>4
<1>10. Len(bs) = n /\ DOMAIN bs = 1..n
  BY <1>4, <1>8, <1>9, LenProperties
<1>11. /\ Fresh(c) /\ c.node = "if" /\ c.source = last
       /\ c.blocks = bs /\ c.want = want /\ c.branches = branches
  BY <1>2, <1>3, <1>9, EmptyIs DEF NewVisit, Fresh, VisitType, Nodes
<1> HIDE DEF c
<1>13. Part(c) = 0
  BY <1>11, FreshParts
<1>14. ToSet(bs) = (1..(m + n)) \ (1..m) /\ Last(bs) \notin 1..m
  <2>1. ToSet(bs) \subseteq (1..(m + n)) \ (1..m)
    BY <1>4, <1>8, <1>10 DEF ToSet
  <2>2. ASSUME NEW x \in (1..(m + n)) \ (1..m) PROVE x \in ToSet(bs)
    <3>1. x - m \in 1..n /\ m + (x - m) = x
      BY <1>4, <1>8
    <3> QED
      BY <3>1, <1>8, <1>10 DEF ToSet
  <2>3. Last(bs) = bs[n] /\ n \in 1..n
    BY <1>4, <1>10 DEF Last
  <2> QED
    BY <2>1, <2>2, <2>3, <1>4, <1>8
<1>15. PendingParts(c) = 1..n
  BY <1>10, <1>11, <1>13 DEF PendingParts
<1>16. Opens(c, DOMAIN code, DOMAIN code') /\ Pending(c) = DOMAIN code' \ DOMAIN code
  <2>1. Pending(c) = ToSet(bs)
    BY <1>10, <1>11, <1>15 DEF Pending, ToSet
  <2>2. \A i, j \in 1..n : bs[i] = bs[j] => i = j
    BY <1>4, <1>8
  <2> QED
    BY <2>1, <2>2, <1>8, <1>11, <1>14, <1>15 DEF Opens
<1>17. notes \subseteq notes' /\ ~InBranch
  BY <1>1 DEF Handled
<1>18. Handled
  BY <1>17, HandledBefore
<1>19. Named
  BY <1>18, SoundInvHas
<1>20. PICK D, H : GoodNow(D, H)
  BY <1>18, SoundInvHas
<1>21. /\ Kept(visits, code, at, unit, item)
       /\ Good(visits, code, at, scope_manager, unit, item, D, H)
       /\ Wanted(top, unit[item].ret) /\ Ending(code) /\ CodeType(code) /\ Dominators(D, code)
  BY <1>18, <1>20, TopStands
<1> DEFINE c2 == code'
           D2 == Widen(D, c2, at)
           is == <<>>
<1>22. Adds(code, c2, at, is) /\ MayAdd(code, at, is) /\ at \in DOMAIN c2
  BY <1>4, <1>5, <1>7, <1>8, <1>21, BlocksAdded
<1>23. CodeStep(code, c2, at) /\ Targets(c2, at) = Targets(code, at)
  BY <1>21, <1>22, AddsStep
<1>24. Widens(D, D2, code, c2, at)
  BY <1>21, <1>23, WidenIs
<1>25. GoesTo(is, code, c2, Pending(visits[Len(visits)])) /\ D2 = Widen(D, c2, at)
  BY DEF GoesTo
<1>26. \A j \in 1..Len(is) : Fit(unit, item, code, D, at, is, j)
  OBVIOUS
<1>27. \A b \in DOMAIN c2 \ DOMAIN code : b \in Pending(top) \cup Pending(c)
  BY <1>16
<1> HIDE DEF is, D2, c2
<1>28. CodeMoves(visits, code, at, c2, at, unit, item, D, D2)
  BY <1>21, <1>22, <1>25, <1>26, AddsMoves
<1>29. Opened(code, at, c2, at, top, Pending(top) \cup Pending(c))
  BY <1>22, <1>27, AddsOpened
<1>30. Wanted(c, unit[item].ret)
  BY <1>1, <1>2, <1>11, <1>21, LastWanted
<1>31. Stands(c, D[at], item, unit[item].ret, c2, D2, at, scope_manager)
  <2>1. Opens(c, DOMAIN code, DOMAIN c2)
    BY <1>16 DEF c2
  <2>2. PendingParts(c) = DOMAIN c.blocks /\ Last(c.blocks) \notin DOMAIN code
    BY <1>8, <1>10, <1>11, <1>14, <1>15
  <2> QED
    BY <2>1, <2>2, <1>3, <1>11, <1>23, <1>24, <1>30, IfFresh
<1> HIDE DEF n
<1> QED
  BY <1>1, <1>2, <1>11, <1>17, <1>18, <1>19, <1>20, <1>23, <1>28, <1>29, <1>31, StatementG
     DEF StatementNodes, c2

(* A block of a conditional, or of the else, begins. *)
LEMMA IfBlockG ==
    ASSUME IInv, SoundInv, visits # <<>>, IfBlock
    PROVE  SoundInv'
<1> SUFFICES ASSUME Handled' PROVE SoundInv'
  BY DEF SoundInv
<1> DEFINE c == [NewVisit("block", top.want) EXCEPT !.source = top.source]
           n == Len(top.trees)
           r == unit[item].ret
<1>1. /\ unit' = unit /\ item' = item /\ scope_manager' = scope_manager
      /\ types' = types /\ code' = code /\ at' = at /\ regs' = regs /\ notes' = notes
      /\ top.node = "if" /\ ~top.after /\ n < Len(top.blocks)
      /\ n % 2 = 1 \/ n = 2 * top.branches
      /\ visits' = Append(visits, c)
  BY DEF IfBlock, PartNext, Within, Goes, Runs, builder
<1>2. /\ IsSeq(visits) /\ top = visits[Len(visits)] /\ VisitType(top)
      /\ Local(top, unit, unit[item].ret, DOMAIN code)
  BY TopFacts DEF Local, IInv
<1>3. Len(ir_code) \in Nat /\ top.want \in SUBSET Types /\ top.source \in BOOLEAN
  BY <1>2, LenProperties DEF TypeInv, VisitType, IInv
<1>4. /\ Fresh(c) /\ c.node = "block" /\ c.source = top.source /\ c.blocks = <<>>
      /\ c.want = top.want
  BY <1>3, EmptyIs DEF NewVisit, Fresh, VisitType, Nodes
<1>5. ~CondPart(top)
  <2>1. n \in Nat /\ top.branches \in Nat
    BY <1>2, SeqItems DEF VisitType
  <2>2. Part(top) = n
    BY <1>1 DEF Part
  <2> HIDE DEF n
  <2>3. ~(n % 2 = 0 /\ n < 2 * top.branches)
    BY <2>1, <1>1
  <2> QED
    BY <2>2, <2>3 DEF CondPart
<1> HIDE DEF c
<1>6. Handled
  BY <1>1, HandledBefore
<1>7. Named
  BY <1>6, SoundInvHas
<1>8. PICK D, H : GoodNow(D, H)
  BY <1>6, SoundInvHas
<1>9. Pushes(visits, visits', top, c)
  BY <1>1, <1>2, PushOnTop
<1>10. Wanted(top, r)
  BY <1>6, <1>8, TopStands
<1>11. Wanted(c, r)
  BY <1>4, <1>10 DEF Wanted
<1>12. Stands(c, D[at], item, r, code', D, at, scope_manager) /\ Pending(c) = {}
  BY <1>4, <1>11, FreshStands
<1>13. Feeds(top, c)
  <2>1. top.op = "none"
    BY <1>1, <1>2 DEF Local, ExprParts
  <2>2. \A t \in top.want : Takes(top, t)
    BY <2>1, <1>1, <1>5 DEF Takes, Arithmetic
  <2>3. \A t : Gives(c, t) => t \in top.want
    BY <1>4 DEF Gives
  <2> QED
    BY <2>2, <2>3 DEF Feeds
<1>14. /\ CodeMoves(visits, code, at, code', at, unit, item, D, D)
       /\ Opened(code, at, code', at, top, Pending(top) \cup Pending(c))
       /\ Targets(code', at) = Targets(code, at)
  BY <1>1, <1>6, <1>8, TopStands, SameCodeMoves
<1>15. Alike(top, top)
  BY DEF Alike, SameVisit
<1>16. PushGraph(top, c, D, H, D)
  BY <1>4, <1>12, <1>13, <1>14, <1>15 DEF PushGraph, Fresh
<1>17. VisitorGoes /\ MapsStay
  BY <1>1 DEF VisitorGoes, MapsStay, IInv, TypeInv
<1> QED
  BY <1>1, <1>6, <1>7, <1>8, <1>9, <1>16, <1>17, PushG

-----------------------------------------------------------------------------
(* The value that the part of the node on top has left. *)
LEMMA PoppedKnown ==
    ASSUME IInv, Handled, visits # <<>>, NEW D, NEW H, GoodNow(D, H),
           top.after, Valued(top), top.node \notin {"fn", "block"}
    PROVE  /\ Stale = {} /\ top.base < Len(ir_code)
           /\ KnownIn(item, code, D[at], Popped)
           /\ Takes(top, TypeOf(Popped))
           /\ ExprPart(top) => current_type = TypeOf(Popped)
           /\ Popped \in Value /\ Popped \in Values /\ TypeOf(Popped) \in Data
<1>1. Stale = {} /\ top.base < Len(ir_code)
  BY NotStale DEF IInv
<1>2. TopValue(top, item, code, D, at, ir_code, current_type)
  BY TopStands
<1>3. ir_code # <<>>
  <2>1. Len(<<>>) = 0 /\ top.base \in Nat
    BY EmptyIs, StackFact DEF IInv
  <2> QED
    BY <1>1, <2>1
<1>4. Popped \in Value /\ Popped \in Values /\ TypeOf(Popped) \in Data
  BY <1>3, PopFacts, StackFact DEF IInv
<1> QED
  BY <1>1, <1>2, <1>4 DEF TopValue, Popped

(* The next of the values that it has taken. *)
LEMMA AppendedIs ==
    ASSUME NEW S, NEW s \in Seq(S), NEW v \in S
    PROVE  /\ ToSet(Append(s, v)) \subseteq ToSet(s) \cup {v}
           /\ Len(Append(s, v)) = Len(s) + 1 /\ Len(s) \in Nat
           /\ \A k \in 1..Len(s) : Append(s, v)[k] = s[k]
           /\ Append(s, v)[Len(s) + 1] = v
           /\ DOMAIN Append(s, v) = 1..(Len(s) + 1)
<1>1. /\ Append(s, v) \in Seq(S) /\ Len(Append(s, v)) = Len(s) + 1
      /\ \A k \in 1..Len(s) : Append(s, v)[k] = s[k]
      /\ Append(s, v)[Len(s) + 1] = v
  BY AppendItem
<1> DEFINE n == Len(s)
           t == Append(s, v)
<1>2. n \in Nat /\ DOMAIN s = 1..n /\ DOMAIN t = 1..(n + 1)
  BY <1>1, LenProperties
<1> HIDE DEF n
<1>3. \A k \in 1..(n + 1) : k = n + 1 \/ k \in 1..n
  BY <1>2
<1>4. /\ \A k \in 1..n : t[k] = s[k]
      /\ t[n + 1] = v
  BY <1>1 DEF n
<1> HIDE DEF t
<1>5. ToSet(t) \subseteq ToSet(s) \cup {v}
  BY <1>2, <1>3, <1>4 DEF ToSet
<1> QED
  BY <1>1, <1>2, <1>5 DEF n, t

(* The left side of an operator, and an argument. *)
LEMMA OperandG ==
    ASSUME IInv, SoundInv, visits # <<>>, BinaryLeft \/ CallArg
    PROVE  SoundInv'
<1> SUFFICES ASSUME Handled' PROVE SoundInv'
  BY DEF SoundInv
<1> DEFINE w == Taken
           r == unit[item].ret
           n == Len(visits)
<1>1. /\ unit' = unit /\ item' = item /\ scope_manager' = scope_manager
      /\ types' = types /\ code' = code /\ at' = at /\ regs' = regs
      /\ notes \subseteq notes' /\ ir_code # <<>>
      /\ (top.node = "binary" /\ Len(top.trees) = 1) \/ top.node = "call"
      /\ top.after /\ visits' = [visits EXCEPT ![Len(visits)] = w]
  BY DEF BinaryLeft, CallArg, At, PartDone, Within, Goes, Runs, Under, builder, Pops, Note
<1>2. Handled
  BY <1>1, HandledBefore
<1>3. Named
  BY <1>2, SoundInvHas
<1>4. PICK D, H : GoodNow(D, H)
  BY <1>2, SoundInvHas
<1>5. /\ Local(top, unit, r, DOMAIN code) /\ VisitType(top) /\ TypeInv
      /\ top = visits[n] /\ IsSeq(visits)
      /\ Stands(top, H[n], item, r, code, D, at, scope_manager)
      /\ H[n] \subseteq D[at]
  BY <1>2, <1>4, TopStands, TopFacts DEF IInv
<1>6. /\ Changed(top, w) /\ w.after = FALSE /\ w.values = Append(top.values, Popped)
      /\ Len(w.values) = Len(top.values) + 1
      /\ w.blocks = top.blocks /\ w.last = top.last /\ w.declared = top.declared
  BY <1>1, <1>5, TakenIs
<1>7. Tops(visits, visits', w)
  BY <1>1, <1>5, TopBecomes
<1> HIDE DEF w
<1>8. Valued(top) /\ top.node \notin {"fn", "block", "if", "if_expr"}
  BY <1>1 DEF Valued, ExprNodes
<1>9. KnownIn(item, code, D[at], Popped) /\ Takes(top, TypeOf(Popped)) /\ Popped \in Value
  BY <1>1, <1>2, <1>4, <1>8, PoppedKnown
<1>10. SameVisit(top, w) /\ w.node = top.node /\ w.op = top.op /\ w.source = top.source
       /\ w.want = top.want
  BY <1>6 DEF Changed, SameVisit
<1>11. top.values \in Seq(Value)
  BY <1>5 DEF VisitType
<1> HIDE DEF r, n
<1>12. Pending(w) = {} /\ Pending(top) = {}
  <2>1. PendingParts(w) = {} /\ PendingParts(top) = {}
    BY <1>8, <1>10 DEF PendingParts
  <2> QED
    BY <2>1 DEF Pending
<1>13. \A x \in Carried(w, scope_manager) : KnownIn(item, code, D[at], x)
  <2>1. ToSet(w.values) \subseteq ToSet(top.values) \cup {Popped}
    BY <1>6, <1>9, <1>11, AppendedIs
  <2>2. Carried(w, scope_manager) \subseteq Carried(top, scope_manager) \cup {Popped}
    BY <2>1, <1>6, <1>10 DEF Carried
  <2>3. \A x \in Carried(top, scope_manager) : KnownIn(item, code, H[n], x)
    BY <1>5 DEF Stands
  <2>4. \A x \in Carried(top, scope_manager) : KnownIn(item, code, D[at], x)
    BY <2>3, <1>5, KnownMore
  <2> QED
    BY <2>2, <2>4, <1>9
<1>14. Wanted(w, r)
  <2>1. Wanted(top, r)
    BY <1>5 DEF Stands
  <2>2. ASSUME w.node = "binary", w.op \in Arithmetic \cup {"less"}
        PROVE  TypeOf(w.values[1]) = "float"
    <3>1. Len(top.values) = 0
      <4>1. Len(top.values) = Part(top)
        BY <2>2, <1>5, <1>10 DEF Local, ExprParts, ExprNodes
      <4>2. Part(top) = 0
        BY <1>1, <1>10, <2>2 DEF Part
      <4> QED
        BY <4>1, <4>2
    <3>2. w.values[Len(top.values) + 1] = Popped
      BY <1>6, <1>9, <1>11, AppendedIs
    <3>3. w.values[1] = Popped
      BY <3>1, <3>2
    <3>4. TypeOf(Popped) = "float"
      BY <2>2, <1>9, <1>10 DEF Takes
    <3> QED
      BY <3>3, <3>4
  <2> QED
    BY <2>1, <2>2, <1>10 DEF Wanted
<1>15. Stands(w, D[at], item, r, code, D, at, scope_manager)
  <2>1. IfStands(w, item, code, D, at) /\ IfExprStands(w, item, code, D)
    BY <1>8, <1>10 DEF IfStands, IfExprStands
  <2> QED
    BY <2>1, <1>12, <1>13, <1>14 DEF Stands
<1>16. /\ CodeMoves(visits, code, at, code', at', unit, item, D, D)
       /\ Opened(code, at, code', at', top, Pending(w))
  BY <1>1, <1>2, <1>4, <1>12, TopStands, SameCodeMoves
<1>17. TopGraph(w, D, H, D, D[at])
  <2>1. HomeFor(H, Len(visits), D[at], D, at)
    BY <1>5 DEF HomeFor, n
  <2>2. w.node # "fn" /\ ~w.after
    BY <1>6, <1>8, <1>10
  <2>3. TopValue(w, item, code', D, at', ir_code', current_type')
    BY <2>2 DEF TopValue
  <2> QED
    BY <2>1, <2>2, <2>3, <1>1, <1>15, <1>16 DEF TopGraph, r
<1>18. VisitorGoes /\ MapsStay
  BY <1>1 DEF VisitorGoes, MapsStay, IInv, TypeInv
<1> QED
  BY <1>2, <1>3, <1>4, <1>6, <1>7, <1>10, <1>17, <1>18, TopG

-----------------------------------------------------------------------------
(* The variables of a visit stay known. *)
LEMMA SlotsStay ==
    ASSUME NEW c, NEW c2, NEW a, CodeStep(c, c2, a), NEW v, NEW h, NEW f, NEW r, NEW D, NEW a1,
           NEW slots, Stands(v, h, f, r, c, D, a1, slots), h \subseteq DOMAIN c,
           NEW h2, h \subseteq h2, NEW w, w.declared = v.declared, w.node = v.node,
           v.node \notin {"binary", "call"}
    PROVE  \A x \in Carried(w, slots) : KnownIn(f, c2, h2, x)
<1> SUFFICES ASSUME NEW x \in Carried(w, slots) PROVE KnownIn(f, c2, h2, x)
  OBVIOUS
<1>1. x \in Carried(v, slots)
  BY DEF Carried
<1>2. KnownIn(f, c, h, x)
  BY <1>1 DEF Stands
<1>3. KnownIn(f, c2, h, x)
  BY <1>2, KnownStays
<1> QED
  BY <1>3, KnownMore

(* The builder goes from a block to new ones. *)
LEMMA NewTargets ==
    ASSUME NEW c, NEW c2, NEW a, CodeStep(c, c2, a), NEW x, x \notin DOMAIN c,
           x \notin Targets(c2, a)
    PROVE  Sources(c2, x) = {}
<1>1. CodeType(c)
  BY DEF CodeStep
<1>2. \A p \in DOMAIN c : Targets(c, p) \subseteq DOMAIN c
  BY <1>1, TargetsIn
<1> QED
  BY <1>2 DEF Sources, CodeStep

(* visit_if_expr: the condition has been visited, the branches get their blocks. *)
LEMMA IfExprConditionG ==
    ASSUME IInv, SoundInv, visits # <<>>, IfExprCondition
    PROVE  SoundInv'
<1> SUFFICES ASSUME Handled' PROVE SoundInv'
  BY DEF SoundInv
<1> DEFINE m == Len(code)
           new == [b \in 1..3 |-> m + b]
           i == Instr("cond_br", NoReg, <<Popped>>, <<new[1], new[2]>>)
           is == <<i>>
           t == Taken
           w == [t EXCEPT !.blocks = new]
           r == unit[item].ret
<1>1. /\ unit' = unit /\ item' = item /\ scope_manager' = scope_manager
      /\ types' = types /\ regs' = regs /\ notes \subseteq notes' /\ ir_code # <<>>
      /\ top.node = "if_expr" /\ Len(top.trees) = 1 /\ top.after
      /\ code' = [code EXCEPT ![at] = code[at] \o is] \o NewBlocks(3) /\ at' = new[1]
      /\ visits' = [visits EXCEPT ![Len(visits)] = w]
  BY DEF IfExprCondition, At, PartDone, Within, Goes, Runs, Under, Pops, Emit, Position, Note
<1>2. Handled
  BY <1>1, HandledBefore
<1>3. Named
  BY <1>2, SoundInvHas
<1>4. PICK D, H : GoodNow(D, H)
  BY <1>2, SoundInvHas
<1>5. /\ Local(top, unit, r, DOMAIN code) /\ VisitType(top) /\ TypeInv
      /\ top = visits[Len(visits)] /\ IsSeq(visits) /\ at \in DOMAIN code
      /\ Stands(top, H[Len(visits)], item, r, code, D, at, scope_manager)
      /\ H[Len(visits)] \subseteq D[at] /\ D[at] \subseteq DOMAIN code
      /\ Kept(visits, code, at, unit, item) /\ Wanted(top, r)
      /\ Good(visits, code, at, scope_manager, unit, item, D, H)
      /\ Ending(code) /\ CodeType(code) /\ Dominators(D, code)
  BY <1>2, <1>4, TopStands, TopFacts DEF IInv
<1>6. Part(top) = 0 /\ Pending(top) = {} /\ Len(top.values) = 0
  <2>1. Part(top) = 0
    BY <1>1 DEF Part
  <2> HIDE DEF r
  <2> QED
    BY <2>1, <1>1, <1>5, IfExprBlocks
<1>7. /\ KnownIn(item, code, D[at], Popped) /\ Popped \in Value /\ Popped \in Values
      /\ TypeOf(Popped) = "bool"
  <2>1. Valued(top)
    BY <1>1 DEF Valued, ExprNodes
  <2>2. Takes(top, TypeOf(Popped))
    BY <2>1, <1>1, <1>2, <1>4, PoppedKnown
  <2> HIDE DEF r
  <2>3. TypeOf(Popped) = "bool"
    BY <2>2, <1>1, <1>6 DEF Takes
  <2> QED
    BY <2>1, <2>3, <1>1, <1>2, <1>4, PoppedKnown
<1>8. /\ Changed(top, t) /\ t.after = FALSE /\ Len(t.values) = Len(top.values) + 1
      /\ t.last = top.last /\ t.declared = top.declared
  BY <1>1, <1>5, TakenIs
<1>9. Tops(visits, visits', w)
  BY <1>1, <1>5, TopBecomes
<1>10. m \in Nat
  BY <1>5, LenProperties DEF CodeType
<1>11. /\ new \in Seq(Nat) /\ Len(new) = 3 /\ DOMAIN new = 1..3
       /\ new[1] = m + 1 /\ new[2] = m + 2 /\ new[3] = m + 3
  <2>1. new \in [1..3 -> Nat]
    BY <1>10
  <2>2. new \in Seq(Nat)
    BY <2>1
  <2>3. Len(new) = 3
    BY <2>1, <2>2, LenProperties
  <2> QED
    BY <2>2, <2>3, <1>10
<1>12. i \in InstrSet /\ i.blocks = <<m + 1, m + 2>> /\ i.op = "cond_br" /\ i.args = <<Popped>>
  <2>1. <<Popped>> \in Seq(Values) /\ <<m + 1, m + 2>> \in Seq(Nat) /\ "cond_br" \in InstrOps
    BY <1>7, <1>10 DEF InstrOps
  <2> QED
    BY <2>1, <1>11, ValueFacts DEF Instr, InstrSet
<1> HIDE DEF i
<1>13. /\ is \in Seq(InstrSet) /\ Len(is) = 1 /\ DOMAIN is = 1..1 /\ is # <<>> /\ Last(is) = i
       /\ \A j \in 1..1 : j = 1 /\ is[j] = i
  BY <1>12, OneIs
<1>14. ToSet(i.blocks) = {m + 1, m + 2}
  <2>1. ToSet(<<m + 1, m + 2>>) = {m + 1, m + 2}
    BY DEF ToSet
  <2> QED
    BY <2>1, <1>12
<1>15. \A k \in DOMAIN is : ToSet(is[k].blocks) \subseteq 1..(m + 3)
  <2>1. {m + 1, m + 2} \subseteq 1..(m + 3)
    BY <1>10
  <2> HIDE DEF is, m
  <2> QED
    BY <2>1, <1>13, <1>14
<1> HIDE DEF is, new
<1> DEFINE c2 == code'
           a2 == at'
<1>16. Extends(code, c2, at, is, 3)
  <2> DEFINE a == at
             n == 3
  <2>1. /\ c2 = [code EXCEPT ![a] = code[a] \o is] \o NewBlocks(n) /\ n \in Nat
        /\ a \in DOMAIN code
        /\ \A k \in DOMAIN is : ToSet(is[k].blocks) \subseteq 1..(Len(code) + n)
    BY <1>1, <1>5, <1>15
  <2> HIDE DEF c2, a, n
  <2>2. Extends(code, c2, a, is, n)
    BY <2>1, <1>5, <1>13, EmittedAndNew, Zenon
  <2> QED
    BY <2>2 DEF a, n
<1>17. /\ CodeType(c2) /\ DOMAIN code = 1..m /\ DOMAIN c2 = 1..(m + 3)
       /\ Grows(code, c2, at) /\ c2[at] = code[at] \o is
  BY <1>16 DEF Extends
<1> HIDE DEF c2
<1>18. /\ a2 = m + 1 /\ a2 \in DOMAIN c2
       /\ \A x : x \in DOMAIN c2 \ DOMAIN code <=> x \in {m + 1, m + 2, m + 3}
       /\ m + 1 # m + 2 /\ m + 1 # m + 3 /\ m + 2 # m + 3
  <2>1. a2 = m + 1
    BY <1>1, <1>11
  <2> HIDE DEF m, a2
  <2> QED
    BY <2>1, <1>10, <1>17
<1>19. /\ SameVisit(top, w) /\ w.after = FALSE /\ w.values = t.values /\ w.blocks = new
       /\ w.trees = top.trees /\ w.declared = top.declared /\ w.last = top.last
  <2> HIDE DEF t
  <2>1. /\ Changed(t, w) /\ w.after = t.after /\ w.values = t.values
        /\ w.blocks = new /\ w.last = t.last /\ w.declared = t.declared
    BY <1>8, <1>11 DEF VisitType, Changed, SameVisit
  <2> QED
    BY <2>1, <1>8 DEF Changed, SameVisit
<1> HIDE DEF w, t, a2, m
<1>20. /\ w.node = "if_expr" /\ Part(w) = 1 /\ Len(w.values) = 1
       /\ w.op = top.op /\ w.want = top.want /\ w.source = top.source
  <2>1. Part(w) = 1
    BY <1>1, <1>19 DEF Part
  <2> QED
    BY <2>1, <1>1, <1>6, <1>8, <1>19 DEF SameVisit
<1>21. Pending(w) = {m + 2, m + 3}
  <2>1. w.blocks # <<>>
    <3>1. Len(w.blocks) = 3 /\ 3 # 0
      BY <1>11, <1>19
    <3> QED
      BY <3>1, EmptyIs, Zenon
  <2>2. PendingParts(w) = 2..3
    BY <2>1, <1>20 DEF PendingParts
  <2>3. 2..3 = {2, 3}
    OBVIOUS
  <2> QED
    BY <2>2, <2>3, <1>11, <1>19 DEF Pending
<1> DEFINE D2 == Widen(D, c2, at)
<1>22. Adds(code, c2, at, is)
  BY <1>5, <1>13, <1>17 DEF Adds
<1>23. Open(code, at)
  BY <1>1, <1>2, IsOpen DEF IInv
<1>24. MayAdd(code, at, is)
  BY <1>13, <1>23 DEF MayAdd
<1>25. CodeStep(code, c2, at) /\ Targets(c2, at) = {m + 1, m + 2}
  <2>1. i.op \in Terminators
    BY <1>12 DEF Terminators
  <2> QED
    BY <2>1, <1>5, <1>13, <1>14, <1>22, <1>24, AddsStep
<1>26. Widens(D, D2, code, c2, at)
  BY <1>5, <1>25, WidenIs
<1>27. Typed(unit, item, i)
  <2>1. ArgTypes(i) = <<"bool">>
    BY <1>7, <1>12 DEF ArgTypes
  <2> QED
    BY <2>1, <1>12 DEF Typed
<1>28. ASSUME NEW j \in 1..Len(is) PROVE Fit(unit, item, code, D, at, is, j)
  BY <1>7, <1>12, <1>13, <1>27 DEF Fit, Arrives
<1>29. GoesTo(is, code, c2, Pending(visits[Len(visits)]))
  BY <1>13, <1>14, <1>18 DEF GoesTo
<1>30. D2 = Widen(D, c2, at)
  OBVIOUS
<1> HIDE DEF D2, is, r
<1>31. CodeMoves(visits, code, at, c2, a2, unit, item, D, D2)
  BY <1>1, <1>5, <1>18, <1>22, <1>24, <1>28, <1>29, <1>30, AddsMoves
<1>32. Opened(code, at, c2, a2, top, Pending(w))
  <2>1. is # <<>> /\ Last(is).op \in Terminators
    BY <1>12, <1>13 DEF Terminators
  <2>2. \A b \in DOMAIN c2 \ DOMAIN code : b = a2 \/ b \in Pending(w)
    BY <1>18, <1>21
  <2> QED
    BY <2>1, <2>2, <1>6, <1>22, AddsOpened
<1>33. /\ \A b \in Pending(w) : D2[b] = D[at] \cup {b}
       /\ D2[a2] = D[at] \cup {a2}
  BY <1>18, <1>21, <1>26 DEF Widens
<1>34. Stands(w, D[at], item, r, c2, D2, a2, scope_manager)
  <2>1. \A x \in Carried(w, scope_manager) : KnownIn(item, c2, D[at], x)
    <3>1. H[Len(visits)] \subseteq DOMAIN code /\ w.node = top.node
          /\ top.node \notin {"binary", "call"}
      BY <1>1, <1>5, <1>20
    <3> QED
      BY <3>1, <1>5, <1>19, <1>25, SlotsStay
  <2>2. IfStands(w, item, c2, D2, a2)
    BY <1>20 DEF IfStands
  <2>3. IfExprStands(w, item, c2, D2)
    <3>1. Sources(c2, m + 3) = {}
      <4>1. m + 3 \notin DOMAIN code /\ m + 3 \notin Targets(c2, at)
        BY <1>18, <1>25
      <4> QED
        BY <4>1, <1>25, NewTargets
    <3> QED
      BY <3>1, <1>11, <1>19, <1>20 DEF IfExprStands
  <2>4. Wanted(w, r)
    BY <1>5, <1>20 DEF Wanted
  <2> QED
    BY <2>1, <2>2, <2>3, <2>4, <1>33 DEF Stands
<1>35. TopGraph(w, D, H, D2, D[at])
  <2>1. HomeFor(H, Len(visits), D[at], D2, a2)
    BY <1>5, <1>33 DEF HomeFor
  <2>3. TopValue(w, item, c2, D2, a2, ir_code', current_type')
    BY <1>19 DEF TopValue
  <2>4. w.node # "fn"
    BY <1>20
  <2> QED
    BY <2>1, <2>3, <2>4, <1>31, <1>32, <1>34 DEF TopGraph, r, a2, c2
<1>36. VisitorGoes /\ MapsStay
  BY <1>1 DEF VisitorGoes, MapsStay, IInv, TypeInv
<1> QED
  BY <1>2, <1>3, <1>4, <1>9, <1>19, <1>35, <1>36, TopG

-----------------------------------------------------------------------------
(* From an open block the builder goes to others. *)
LEMMA SourcesGrow ==
    ASSUME NEW c, NEW c2, NEW a, CodeStep(c, c2, a), Open(c, a), NEW x
    PROVE  Sources(c2, x) = Sources(c, x) \cup (IF x \in Targets(c2, a) THEN {a} ELSE {})
<1>1. Targets(c, a) = {}
  BY DEF Targets
<1> QED
  BY <1>1 DEF Sources, CodeStep

(* The first branch has: its value and its block are kept for the phi. *)
LEMMA IfExprThenG ==
    ASSUME IInv, SoundInv, visits # <<>>, IfExprThen
    PROVE  SoundInv'
<1> SUFFICES ASSUME Handled' PROVE SoundInv'
  BY DEF SoundInv
<1> DEFINE i == Instr("br", NoReg, <<>>, <<top.blocks[3]>>)
           bs == Append(top.blocks, at)
           t == Taken
           w == [t EXCEPT !.blocks = Append(@, at)]
           r == unit[item].ret
<1>1. /\ unit' = unit /\ item' = item /\ scope_manager' = scope_manager
      /\ types' = types /\ regs' = regs /\ notes \subseteq notes' /\ ir_code # <<>>
      /\ top.node = "if_expr" /\ Len(top.trees) = 2 /\ top.after
      /\ code' = Emit(<<i>>) /\ at' = top.blocks[2]
      /\ visits' = [visits EXCEPT ![Len(visits)] = w]
  BY DEF IfExprThen, At, PartDone, Within, Goes, Runs, Under, Pops, Position, Note
<1>2. Handled
  BY <1>1, HandledBefore
<1>3. Named
  BY <1>2, SoundInvHas
<1>4. PICK D, H : GoodNow(D, H)
  BY <1>2, SoundInvHas
<1>5. /\ Local(top, unit, r, DOMAIN code) /\ VisitType(top) /\ TypeInv
      /\ top = visits[Len(visits)] /\ IsSeq(visits) /\ at \in DOMAIN code
      /\ Stands(top, H[Len(visits)], item, r, code, D, at, scope_manager)
      /\ H[Len(visits)] \subseteq D[at] /\ D[at] \subseteq DOMAIN code
      /\ Wanted(top, r) /\ CodeType(code)
  BY <1>2, <1>4, TopStands, TopFacts DEF IInv
<1>6. /\ Part(top) = 1 /\ Len(top.blocks) = 3 /\ Pending(top) = {top.blocks[2], top.blocks[3]}
      /\ Len(top.values) = 1
  <2>1. Part(top) = 1
    BY <1>1 DEF Part
  <2> HIDE DEF r
  <2> QED
    BY <2>1, <1>1, <1>5, IfExprBlocks
<1>7. /\ KnownIn(item, code, D[at], Popped) /\ Popped \in Value /\ TypeOf(Popped) \in top.want
  <2>1. Valued(top)
    BY <1>1 DEF Valued, ExprNodes
  <2>2. Takes(top, TypeOf(Popped))
    BY <2>1, <1>1, <1>2, <1>4, PoppedKnown
  <2> HIDE DEF r
  <2>3. TypeOf(Popped) \in top.want
    BY <2>2, <1>1, <1>6 DEF Takes
  <2> QED
    BY <2>1, <2>3, <1>1, <1>2, <1>4, PoppedKnown
<1>8. /\ Changed(top, t) /\ t.after = FALSE /\ Len(t.values) = Len(top.values) + 1
      /\ t.values = Append(top.values, Popped)
      /\ t.last = top.last /\ t.declared = top.declared /\ t.blocks = top.blocks
  BY <1>1, <1>5, TakenIs
<1>9. Tops(visits, visits', w)
  BY <1>1, <1>5, TopBecomes
<1>10. /\ top.blocks \in Seq(Nat) /\ DOMAIN top.blocks = 1..3
       /\ \A k \in 1..3 : top.blocks[k] \in Nat /\ top.blocks[k] \in DOMAIN code
  <2>1. top.blocks \in Seq(Nat) /\ ToSet(top.blocks) \subseteq DOMAIN code
    BY <1>5 DEF Local, VisitType
  <2>2. DOMAIN top.blocks = 1..3 /\ top.blocks \in [1..3 -> Nat]
    BY <2>1, <1>6, LenProperties
  <2> QED
    BY <2>1, <2>2 DEF ToSet
<1>11. at \in Nat
  <2>1. code \in Seq(Seq(InstrSet))
    BY <1>5 DEF CodeType
  <2> QED
    BY <2>1, <1>5, LenProperties
<1>12. /\ bs \in Seq(Nat) /\ Len(bs) = 4 /\ \A k \in 1..3 : bs[k] = top.blocks[k]
       /\ bs[4] = at
  <2>1. /\ bs \in Seq(Nat) /\ Len(bs) = Len(top.blocks) + 1
        /\ \A k \in 1..Len(top.blocks) : bs[k] = top.blocks[k]
        /\ bs[Len(top.blocks) + 1] = at
    BY <1>10, <1>11, AppendItem
  <2>2. bs \in Seq(Nat) /\ Len(bs) = 4 /\ \A k \in 1..3 : bs[k] = top.blocks[k]
    BY <2>1, <1>6
  <2>3. bs[4] = at
    BY <2>1, <1>6
  <2> QED
    BY <2>2, <2>3
<1>13. top.values[1] \in Value /\ t.values[2] = Popped
  <2>1. top.values \in Seq(Value)
    BY <1>5 DEF VisitType
  <2>2. t.values[Len(top.values) + 1] = Popped
    BY <2>1, <1>7, <1>8, AppendedIs
  <2>3. 1 \in DOMAIN top.values
    BY <2>1, <1>6, LenProperties
  <2> QED
    BY <2>1, <2>2, <2>3, <1>6
<1>14. /\ i \in InstrSet /\ i.blocks = <<top.blocks[3]>> /\ i.op = "br" /\ i.args = <<>>
  <2>1. <<>> \in Seq(Values) /\ <<top.blocks[3]>> \in Seq(Nat) /\ "br" \in InstrOps
    BY <1>10 DEF InstrOps
  <2> QED
    BY <2>1, ValueFacts DEF Instr, InstrSet
<1>15. ToSet(i.blocks) = {top.blocks[3]} /\ DOMAIN i.args = {}
  <2>1. ToSet(<<top.blocks[3]>>) = {top.blocks[3]} /\ DOMAIN <<>> = {}
    BY DEF ToSet
  <2> QED
    BY <2>1, <1>14
<1>16. Typed(unit, item, i)
  BY <1>14 DEF Typed
<1> HIDE DEF i, bs
<1>17. /\ SameVisit(top, w) /\ w.after = FALSE /\ w.values = t.values /\ w.blocks = bs
       /\ w.trees = top.trees /\ w.declared = top.declared /\ w.last = top.last
  <2> HIDE DEF t
  <2>1. w = [t EXCEPT !.blocks = bs]
    BY <1>8 DEF bs, Changed, VisitType
  <2> HIDE DEF w
  <2>2. /\ SameVisit(t, w) /\ w.after = t.after /\ w.values = t.values /\ w.trees = t.trees
        /\ w.blocks = bs /\ w.last = t.last /\ w.declared = t.declared
    BY <2>1, <1>8, <1>12 DEF VisitType, Changed, SameVisit
  <2> QED
    BY <2>2, <1>8 DEF Changed, SameVisit
<1> HIDE DEF w, t
<1>18. /\ w.node = "if_expr" /\ Part(w) = 2 /\ Len(w.values) = 2
       /\ w.op = top.op /\ w.want = top.want /\ w.source = top.source
  <2>1. Part(w) = 2
    BY <1>1, <1>17 DEF Part
  <2> QED
    BY <2>1, <1>1, <1>6, <1>8, <1>17 DEF SameVisit
<1>19. Pending(w) = {top.blocks[3]}
  <2>1. w.blocks # <<>>
    <3>1. Len(w.blocks) = 4 /\ 4 # 0
      BY <1>12, <1>17
    <3> QED
      BY <3>1, EmptyIs, Zenon
  <2>2. PendingParts(w) = 3..3
    BY <2>1, <1>18 DEF PendingParts
  <2>3. 3..3 = {3} /\ 3 \in 1..3
    OBVIOUS
  <2> QED
    BY <2>2, <2>3, <1>12, <1>17 DEF Pending
<1> DEFINE c2 == code'
           a2 == at'
<1>20. Open(code, at)
  BY <1>1, <1>2, IsOpen DEF IInv
<1>21. a2 = top.blocks[2] /\ a2 \in DOMAIN code /\ top.blocks[3] \in DOMAIN code
  <2>1. 2 \in 1..3 /\ 3 \in 1..3
    OBVIOUS
  <2> QED
    BY <2>1, <1>1, <1>10
<1>22. c2 = Emit(<<i>>)
  BY <1>1
<1>23. /\ CodeMoves(visits, code, at, c2, a2, unit, item, D, D)
       /\ Opened(code, at, c2, a2, top, Pending(w))
       /\ Targets(c2, at) = {top.blocks[3]}
  <2> HIDE DEF c2, a2, w
  <2>1. i.op # "phi" /\ i.op \in Terminators
    BY <1>14 DEF Terminators
  <2>2. \A b \in Pending(top) : b = a2 \/ b \in Pending(w)
    BY <1>6, <1>19, <1>21
  <2>3. ToSet(i.blocks) \subseteq Pending(top)
    BY <1>6, <1>15
  <2>4. \A k \in DOMAIN i.args : KnownIn(item, code, D[at], i.args[k])
    BY <1>15
  <2> QED
    BY <2>1, <2>2, <2>3, <2>4, <1>1, <1>2, <1>4, <1>14, <1>15, <1>16, <1>20, <1>21, <1>22,
       EmitOneMoves
<1>24. CodeStep(code, c2, at)
  BY <1>23 DEF CodeMoves
<1> HIDE DEF c2, a2, r
<1>25. Stands(w, H[Len(visits)], item, r, c2, D, a2, scope_manager)
  <2>1. \A x \in Carried(w, scope_manager) : KnownIn(item, c2, H[Len(visits)], x)
    <3>1. H[Len(visits)] \subseteq DOMAIN code /\ w.node = top.node
          /\ top.node \notin {"binary", "call"}
      BY <1>1, <1>5, <1>18
    <3> QED
      BY <3>1, <1>5, <1>17, <1>24, SlotsStay
  <2>2. IfStands(w, item, c2, D, a2)
    BY <1>18 DEF IfStands
  <2>3. IfExprStands(w, item, c2, D)
    <3>1. Sources(code, top.blocks[3]) = {}
      BY <1>1, <1>5, <1>6 DEF Stands, IfExprStands
    <3>2. Sources(c2, top.blocks[3]) = {at}
      BY <3>1, <1>20, <1>23, <1>24, SourcesGrow
    <3>3. w.blocks[3] = top.blocks[3] /\ w.blocks[4] = at
      <4>1. 3 \in 1..3
        OBVIOUS
      <4> QED
        BY <4>1, <1>12, <1>17
    <3>4. KnownIn(item, c2, D[at], Popped)
      BY <1>5, <1>7, <1>24, KnownStays
    <3>5. w.values[2] = Popped
      BY <1>13, <1>17
    <3> QED
      BY <3>2, <3>3, <3>4, <3>5, <1>7, <1>18 DEF IfExprStands
  <2>4. Wanted(w, r)
    BY <1>5, <1>18 DEF Wanted
  <2>5. \A b \in Pending(w) : D[b] = H[Len(visits)] \cup {b}
    BY <1>5, <1>6, <1>19 DEF Stands
  <2> QED
    BY <2>1, <2>2, <2>3, <2>4, <2>5 DEF Stands
<1>26. TopGraph(w, D, H, D, H[Len(visits)])
  <2>1. HomeFor(H, Len(visits), H[Len(visits)], D, a2)
    <3>1. D[top.blocks[2]] = H[Len(visits)] \cup {top.blocks[2]}
      BY <1>5, <1>6 DEF Stands
    <3> QED
      BY <3>1, <1>21 DEF HomeFor
  <2>3. TopValue(w, item, c2, D, a2, ir_code', current_type')
    BY <1>17 DEF TopValue
  <2>4. w.node # "fn"
    BY <1>18
  <2> QED
    BY <2>1, <2>3, <2>4, <1>23, <1>25 DEF TopGraph, r, a2, c2
<1>27. VisitorGoes /\ MapsStay
  BY <1>1 DEF VisitorGoes, MapsStay, IInv, TypeInv
<1> QED
  BY <1>2, <1>3, <1>4, <1>9, <1>17, <1>26, <1>27, TopG

-----------------------------------------------------------------------------
(* The values of the branches stay, and so do their blocks. *)
LEMMA PhisStay ==
    ASSUME NEW c, NEW c2, NEW a, CodeStep(c, c2, a), NEW v, NEW u, NEW r,
           Local(v, u, r, DOMAIN c), NEW D, \A b \in DOMAIN c : D[b] \subseteq DOMAIN c,
           NEW f, NEW a1, IfStands(v, f, c, D, a1), v.node = "if", v.source,
           NEW w, SameVisit(v, w), w.blocks = v.blocks, NEW k \in 1..Len(v.values)
    PROVE  /\ KnownIn(f, c2, D[PhiBlock(w, k)], v.values[k]) /\ TypeOf(v.values[k]) \in v.want
           /\ PhiBlock(w, k) = PhiBlock(v, k)
<1>1. w.branches = v.branches
  BY DEF SameVisit
<1>2. PhiBlock(w, k) = PhiBlock(v, k)
  BY <1>1 DEF PhiBlock
<1>3. k \in Nat \ {0}
  OBVIOUS
<1>4. PhiBlock(v, k) \in DOMAIN c
  BY <1>3, PhiBlockIn
<1>5. KnownIn(f, c, D[PhiBlock(v, k)], v.values[k]) /\ TypeOf(v.values[k]) \in v.want
  BY DEF IfStands
<1>6. D[PhiBlock(v, k)] \subseteq DOMAIN c
  BY <1>4
<1> DEFINE S == D[PhiBlock(v, k)]
           x == v.values[k]
<1>7. S \subseteq S /\ S \subseteq DOMAIN c /\ KnownIn(f, c, S, x)
  BY <1>5, <1>6
<1> HIDE DEF S, x
<1>8. KnownIn(f, c2, S, x)
  BY <1>7, KnownStays
<1> QED
  BY <1>2, <1>5, <1>8 DEF S, x

(* The builder comes to the block of the part of an if that is next.         *)
LEMMA IfComesTo ==
    ASSUME IInv, Handled, visits # <<>>, top.node = "if", top.after, NEW D, NEW H, GoodNow(D, H),
           NEW w, Changed(top, w), w.after = FALSE, w.blocks = top.blocks
    PROVE  /\ Part(w) = Len(top.trees) /\ Part(top) = Len(top.trees) - 1
           /\ Len(top.trees) \in 1..Len(top.blocks) /\ Len(top.blocks) \in Nat
           /\ Pending(w) \subseteq Pending(top)
           /\ \A b \in Pending(top) : b = top.blocks[Len(top.trees)] \/ b \in Pending(w)
           /\ \A k \in Len(top.trees)..Len(top.blocks) : top.blocks[k] \in Pending(top)
           /\ top.blocks[Len(top.trees)] \in DOMAIN code
           /\ HomeFor(H, Len(visits), H[Len(visits)], D, top.blocks[Len(top.trees)])
<1> DEFINE n == Len(top.trees)
           m == Len(top.blocks)
<1>1. n \in Nat /\ m \in Nat /\ n <= m /\ n >= 1
  BY IfFacts DEF IInv
<1>2. w.node = top.node /\ w.trees = top.trees
  BY DEF Changed, SameVisit
<1>3. Part(w) = n /\ Part(top) = n - 1
  BY <1>2 DEF Part
<1>4. PendingParts(top) = (n - 1 + 1)..m /\ PendingParts(w) = (n + 1)..m
  BY <1>2, <1>3 DEF PendingParts
<1>5. \A k \in 1..m : top.blocks[k] \in DOMAIN code
  BY IfFacts DEF IInv
<1> HIDE DEF n, m
<1>6. PendingParts(top) = n..m /\ n \in 1..m
  BY <1>1, <1>4
<1>7. \A k \in n..m : k = n \/ k \in (n + 1)..m
  BY <1>1
<1>8. (n + 1)..m \subseteq n..m /\ n \in n..m
  BY <1>1
<1>9. Pending(w) \subseteq Pending(top)
  BY <1>4, <1>6, <1>8 DEF Pending
<1>10. \A b \in Pending(top) : b = top.blocks[n] \/ b \in Pending(w)
  BY <1>4, <1>6, <1>7 DEF Pending
<1>11. \A k \in n..m : top.blocks[k] \in Pending(top)
  BY <1>6 DEF Pending
<1>12. HomeFor(H, Len(visits), H[Len(visits)], D, top.blocks[n])
  <2>1. \A b \in Pending(top) : D[b] = H[Len(visits)] \cup {b}
    BY TopStands DEF Stands
  <2>2. top.blocks[n] \in Pending(top)
    BY <1>8, <1>11
  <2>3. D[top.blocks[n]] = H[Len(visits)] \cup {top.blocks[n]}
    BY <2>1, <2>2
  <2> QED
    BY <2>3 DEF HomeFor
<1> QED
  BY <1>1, <1>3, <1>5, <1>6, <1>9, <1>10, <1>11, <1>12 DEF n, m

(* Parts of an if, by number.                                                *)
LEMMA HalfOf ==
    ASSUME NEW n \in Nat, n % 2 = 1
    PROVE  n \div 2 = (n - 1) \div 2 /\ (n - 1) % 2 = 0
OBVIOUS

(* visit_if_block: a condition has been visited, and branches to its two blocks. *)
LEMMA IfConditionG ==
    ASSUME IInv, SoundInv, visits # <<>>, IfCondition
    PROVE  SoundInv'
<1> SUFFICES ASSUME Handled' PROVE SoundInv'
  BY DEF SoundInv
<1> DEFINE n == Len(top.trees)
           cmp == NewReg("bool")
           i == Instr("icmp_eq", cmp, <<Popped, Const(0, "bool")>>, <<>>)
           j == Instr("cond_br", NoReg, <<cmp>>, <<top.blocks[n], top.blocks[n + 1]>>)
           base == Len(ir_code) - 1
           w == [top EXCEPT !.after = FALSE, !.base = base]
           r == unit[item].ret
<1>1. /\ unit' = unit /\ item' = item /\ scope_manager' = scope_manager
      /\ types' = types /\ regs' = regs + 1 /\ notes \subseteq notes' /\ ir_code # <<>>
      /\ top.node = "if" /\ top.after /\ n % 2 = 1 /\ n < 2 * top.branches
      /\ code' = Emit(<<i, j>>) /\ at' = top.blocks[n]
      /\ visits' = [visits EXCEPT ![Len(visits)] = w]
  BY DEF IfCondition, PartDone, Within, Goes, Runs, Under, Pops, Position, Note
<1>2. Handled
  BY <1>1, HandledBefore
<1>3. Named
  BY <1>2, SoundInvHas
<1>4. PICK D, H : GoodNow(D, H)
  BY <1>2, SoundInvHas
<1>5. /\ Local(top, unit, r, DOMAIN code) /\ VisitType(top) /\ TypeInv
      /\ top = visits[Len(visits)] /\ IsSeq(visits) /\ at \in DOMAIN code
      /\ Stands(top, H[Len(visits)], item, r, code, D, at, scope_manager)
      /\ H[Len(visits)] \subseteq D[at] /\ D[at] \subseteq DOMAIN code
      /\ \A b \in DOMAIN code : D[b] \subseteq DOMAIN code
      /\ Wanted(top, r) /\ CodeType(code)
  BY <1>2, <1>4, TopStands, TopFacts DEF IInv
<1>6. base \in Nat /\ Popped \in Values
  BY <1>1, PopFacts DEF IInv
<1> HIDE DEF base
<1>7. /\ Changed(top, w) /\ w.after = FALSE /\ w.values = top.values
      /\ w.blocks = top.blocks /\ w.last = top.last /\ w.declared = top.declared
  BY <1>5, <1>6 DEF VisitType, Changed, SameVisit
<1>8. Tops(visits, visits', w)
  BY <1>1, <1>5, TopBecomes
<1> HIDE DEF w
<1>9. /\ Part(w) = n /\ Part(top) = n - 1
      /\ n \in 1..Len(top.blocks) /\ Len(top.blocks) \in Nat
      /\ Pending(w) \subseteq Pending(top)
      /\ \A b \in Pending(top) : b = top.blocks[n] \/ b \in Pending(w)
      /\ \A k \in n..Len(top.blocks) : top.blocks[k] \in Pending(top)
      /\ top.blocks[n] \in DOMAIN code
      /\ HomeFor(H, Len(visits), H[Len(visits)], D, top.blocks[n])
  BY <1>1, <1>2, <1>4, <1>7, IfComesTo
<1>10. /\ n \in Nat /\ n >= 1 /\ n + 1 \in 1..Len(top.blocks) /\ n \in n..Len(top.blocks)
       /\ n + 1 \in n..Len(top.blocks)
       /\ n \div 2 = (n - 1) \div 2 /\ (n - 1) % 2 = 0 /\ n - 1 < 2 * top.branches
       /\ n # 2 * top.branches + 1 /\ n - 1 # 2 * top.branches + 1
       /\ top.source => n # Len(top.blocks) /\ n + 1 # Len(top.blocks)
       /\ Len(top.blocks) \in 1..Len(top.blocks) /\ top.branches \in Nat
  <2> DEFINE m == Len(top.blocks)
             b == top.branches
  <2>1. /\ n \in Nat /\ m \in Nat /\ b \in Nat /\ n >= 1 /\ n < 2 * b /\ n % 2 = 1
        /\ (m = 2 * b \/ m = 2 * b + 1) /\ b >= 1
    BY <1>1, IfFacts DEF IInv
  <2>2. top.source => m = 2 * b + 1
    BY <1>1, IfFacts DEF IInv
  <2> HIDE DEF n, m, b
  <2>3. n + 1 \in 1..m /\ n - 1 < 2 * b /\ n # 2 * b + 1 /\ n - 1 # 2 * b + 1 /\ m \in 1..m
        /\ n \in n..m /\ n + 1 \in n..m
    BY <2>1
  <2>4. n \div 2 = (n - 1) \div 2 /\ (n - 1) % 2 = 0
    BY <2>1, HalfOf
  <2>5. top.source => n # m /\ n + 1 # m
    BY <2>1, <2>2
  <2> QED
    BY <2>1, <2>3, <2>4, <2>5 DEF m, b
<1> HIDE DEF n
<1>11. CondPart(top) /\ ~CondPart(w)
  <2>1. n % 2 # 0
    BY <1>1
  <2> QED
    BY <2>1, <1>1, <1>9, <1>10 DEF CondPart
<1>12. /\ KnownIn(item, code, D[at], Popped) /\ Popped \in Value /\ TypeOf(Popped) = "bool"
  <2>1. Valued(top)
    BY <1>11 DEF Valued
  <2>2. Takes(top, TypeOf(Popped))
    BY <2>1, <1>1, <1>2, <1>4, PoppedKnown
  <2> HIDE DEF r
  <2>3. TypeOf(Popped) = "bool"
    BY <2>2, <1>1, <1>11 DEF Takes
  <2> QED
    BY <2>1, <2>3, <1>1, <1>2, <1>4, PoppedKnown
<1>13. /\ top.blocks[n] \in Nat /\ top.blocks[n + 1] \in Nat
  BY <1>1, <1>9, <1>10, IfFacts DEF IInv
<1>14. /\ cmp \in Value /\ cmp \in Values /\ TypeOf(cmp) = "bool" /\ cmp[2] = item
       /\ Const(0, "bool") \in Values /\ TypeOf(Const(0, "bool")) = "bool"
       /\ Const(0, "bool")[1] # "reg"
  BY <1>5, NewRegIs, ValueFacts DEF NewReg, Reg, TypeOf, Const
<1> HIDE DEF cmp
<1>15. /\ i \in InstrSet /\ i.blocks = <<>> /\ i.op = "icmp_eq" /\ i.def = cmp
       /\ i.args = <<Popped, Const(0, "bool")>>
  <2>1. /\ <<Popped, Const(0, "bool")>> \in Seq(Values) /\ <<>> \in Seq(Nat)
        /\ "icmp_eq" \in InstrOps
    BY <1>6, <1>14 DEF InstrOps
  <2> QED
    BY <2>1, <1>14 DEF Instr, InstrSet
<1>16. /\ j \in InstrSet /\ j.blocks = <<top.blocks[n], top.blocks[n + 1]>>
       /\ j.op = "cond_br" /\ j.args = <<cmp>>
  <2>1. /\ <<cmp>> \in Seq(Values) /\ <<top.blocks[n], top.blocks[n + 1]>> \in Seq(Nat)
        /\ "cond_br" \in InstrOps /\ NoReg \in Value
    BY <1>13, <1>14, ValueFacts DEF InstrOps
  <2> QED
    BY <2>1 DEF Instr, InstrSet
<1>17. Typed(unit, item, i)
  <2>1. ArgTypes(i) = <<"bool", "bool">>
    BY <1>12, <1>14, <1>15 DEF ArgTypes
  <2> QED
    BY <2>1, <1>15 DEF Typed
<1>18. Typed(unit, item, j)
  <2>1. ArgTypes(j) = <<"bool">>
    BY <1>14, <1>16 DEF ArgTypes
  <2> QED
    BY <2>1, <1>16 DEF Typed
<1>19. \A k \in DOMAIN i.args : KnownIn(item, code, D[at], i.args[k])
  <2>1. KnownIn(item, code, D[at], Const(0, "bool"))
    BY <1>14 DEF KnownIn
  <2>2. \A k \in DOMAIN i.args : i.args[k] = Popped \/ i.args[k] = Const(0, "bool")
    BY <1>15
  <2> QED
    BY <2>1, <2>2, <1>12
<1>20. \A k \in DOMAIN j.args : j.args[k] = i.def
  BY <1>15, <1>16
<1>21. ToSet(j.blocks) = {top.blocks[n], top.blocks[n + 1]}
  <2>1. ToSet(<<top.blocks[n], top.blocks[n + 1]>>) = {top.blocks[n], top.blocks[n + 1]}
    BY DEF ToSet
  <2> QED
    BY <2>1, <1>16
<1> HIDE DEF i, j
<1> DEFINE c2 == code'
           a2 == at'
<1>22. Open(code, at)
  BY <1>1, <1>2, IsOpen DEF IInv
<1>23. c2 = Emit(<<i, j>>) /\ a2 = top.blocks[n]
  BY <1>1
<1> HIDE DEF c2, a2, r
<1>24. /\ CodeMoves(visits, code, at, c2, a2, unit, item, D, D)
       /\ Opened(code, at, c2, a2, top, Pending(w))
       /\ Targets(c2, at) = {top.blocks[n], top.blocks[n + 1]}
  <2>1. i.op # "phi" /\ i.op \notin Terminators /\ j.op # "phi" /\ j.op \in Terminators
    BY <1>15, <1>16 DEF Terminators
  <2>2. \A b \in Pending(top) : b = a2 \/ b \in Pending(w)
    BY <1>9, <1>23
  <2>3. ToSet(j.blocks) \subseteq Pending(top)
    BY <1>9, <1>10, <1>21
  <2>4. i.def[2] = item /\ a2 \in DOMAIN code
    BY <1>9, <1>14, <1>15, <1>23
  <2>5. \A k \in DOMAIN j.args : KnownIn(item, code, D[at], j.args[k]) \/ j.args[k] = i.def
    BY <1>20
  <2>6. a2 = at \/ top.node \in {"if", "if_expr"}
    BY <1>1
  <2> DEFINE P == Pending(w)
  <2>7. /\ CodeMoves(visits, code, at, c2, a2, unit, item, D, D)
        /\ Opened(code, at, c2, a2, top, P)
        /\ Targets(c2, at) = IF j.op \in Terminators THEN ToSet(j.blocks) ELSE {}
    <3>1. \A b \in Pending(top) : b = a2 \/ b \in P
      BY <2>2
    <3>2. c2 = Emit(<<i, j>>)
      BY <1>23
    <3> HIDE DEF P
    <3> QED
      BY <2>1, <2>3, <2>4, <2>5, <2>6, <3>1, <3>2, <1>2, <1>4, <1>15, <1>16, <1>17, <1>18,
         <1>19, <1>22, EmitTwoMoves
  <2> QED
    BY <2>1, <2>7, <1>21
<1>25. CodeStep(code, c2, at)
  BY <1>24 DEF CodeMoves
<1>26. SameVisit(top, w) /\ w.node = top.node /\ w.source = top.source /\ w.want = top.want
       /\ w.op = top.op /\ w.branches = top.branches
  BY <1>7 DEF Changed, SameVisit
<1>27. IfStands(w, item, c2, D, a2)
  <2> SUFFICES ASSUME top.source PROVE IfStands(w, item, c2, D, a2)
    BY <1>26 DEF IfStands
  <2>1. IfStands(top, item, code, D, at)
    BY <1>5 DEF Stands
  <2>2. BodiesDone(w) = BodiesDone(top)
    BY <1>9, <1>10, <1>26 DEF BodiesDone
  <2>3. Sources(c2, Last(top.blocks)) = Sources(code, Last(top.blocks))
    <3>1. top.blocks[n] # Last(top.blocks) /\ top.blocks[n + 1] # Last(top.blocks)
      <4>1. DOMAIN top.blocks = 1..Len(top.blocks)
        BY <1>1, IfFacts DEF IInv
      <4>2. \A x, y \in DOMAIN top.blocks : top.blocks[x] = top.blocks[y] => x = y
        BY <2>1, <1>1 DEF IfStands
      <4>3. Last(top.blocks) = top.blocks[Len(top.blocks)]
        BY DEF Last
      <4> QED
        BY <4>1, <4>2, <4>3, <1>9, <1>10
    <3> QED
      BY <3>1, <1>24, <1>25, SourcesStay
  <2>4. /\ \A x, y \in DOMAIN top.blocks : top.blocks[x] = top.blocks[y] => x = y
        /\ Len(top.values) = BodiesDone(top)
        /\ Sources(code, Last(top.blocks)) = {PhiBlock(top, k) : k \in 1..Len(top.values)}
    BY <2>1, <1>1 DEF IfStands
  <2>5. \A k \in 1..Len(top.values) :
           /\ KnownIn(item, c2, D[PhiBlock(w, k)], top.values[k])
           /\ TypeOf(top.values[k]) \in w.want
           /\ PhiBlock(w, k) = PhiBlock(top, k)
    BY <2>1, <1>1, <1>5, <1>7, <1>25, <1>26, PhisStay
  <2>6. {PhiBlock(top, k) : k \in 1..Len(top.values)} = {PhiBlock(w, k) : k \in 1..Len(w.values)}
    BY <2>5, <1>7
  <2> QED
    BY <2>2, <2>3, <2>4, <2>5, <2>6, <1>7, <1>9, <1>23 DEF IfStands
<1>28. Stands(w, H[Len(visits)], item, r, c2, D, a2, scope_manager)
  <2>1. \A x \in Carried(w, scope_manager) : KnownIn(item, c2, H[Len(visits)], x)
    <3>1. H[Len(visits)] \subseteq DOMAIN code /\ w.node = top.node
          /\ top.node \notin {"binary", "call"}
      BY <1>1, <1>5, <1>26
    <3> QED
      BY <3>1, <1>5, <1>7, <1>25, SlotsStay
  <2>2. IfExprStands(w, item, c2, D)
    BY <1>1, <1>26 DEF IfExprStands
  <2>3. Wanted(w, r)
    BY <1>1, <1>5, <1>26 DEF Wanted
  <2>4. \A b \in Pending(w) : D[b] = H[Len(visits)] \cup {b}
    BY <1>5, <1>9 DEF Stands
  <2> QED
    BY <2>1, <2>2, <2>3, <2>4, <1>27 DEF Stands
<1>29. TopGraph(w, D, H, D, H[Len(visits)])
  <2>1. HomeFor(H, Len(visits), H[Len(visits)], D, a2)
    BY <1>9, <1>23
  <2>2. TopValue(w, item, c2, D, a2, ir_code', current_type')
    BY <1>7 DEF TopValue
  <2>3. w.node # "fn"
    BY <1>1, <1>26
  <2> QED
    BY <2>1, <2>2, <2>3, <1>24, <1>28 DEF TopGraph, r, a2, c2
<1>30. VisitorGoes /\ MapsStay
  BY <1>1 DEF VisitorGoes, MapsStay, IInv, TypeInv
<1> QED
  BY <1>2, <1>3, <1>4, <1>7, <1>8, <1>26, <1>29, <1>30, TopG

-----------------------------------------------------------------------------
(* The number of the branch whose block, of the parts b of an if the n-th,   *)
(* has been visited; and which one it came from.                             *)
LEMMA BranchOf ==
    ASSUME NEW n \in Nat, NEW b \in Nat, n >= 1, b >= 1, n <= 2 * b + 1, n % 2 = 0 \/ n > 2 * b
    PROVE  LET k == IF n = 2 * b + 1 THEN b + 1 ELSE n \div 2
               j == IF n - 1 = 2 * b + 1 THEN b + 1 ELSE (n - 1) \div 2
           IN k = j + 1 /\ k \in Nat /\ (IF k <= b THEN 2 * k - 1 ELSE 2 * b) = n - 1
<1>1. CASE n = 2 * b + 1
  BY <1>1
<1>2. CASE n <= 2 * b
  <2>1. PICK x \in Nat : n = 2 * x
    BY <1>2
  <2>2. x >= 1 /\ x <= b /\ n \div 2 = x /\ (n - 1) \div 2 = x - 1
    BY <2>1, <1>2
  <2> QED
    BY <2>1, <2>2
<1> QED
  BY <1>1, <1>2

(* After a branch, its value and its block are added to those of the phi.    *)
LEMMA BranchStands ==
    ASSUME NEW c, NEW c2, NEW a, CodeStep(c, c2, a), Open(c, a), NEW v, NEW u, NEW r,
           Local(v, u, r, DOMAIN c), NEW D, \A b \in DOMAIN c : D[b] \subseteq DOMAIN c,
           NEW f, IfStands(v, f, c, D, a), v.node = "if", v.source,
           NEW w, SameVisit(v, w), w.blocks = v.blocks, NEW x, w.values = Append(v.values, x),
           BodiesDone(w) = BodiesDone(v) + 1, PhiBlock(v, BodiesDone(w)) = a,
           Targets(c2, a) = {Last(v.blocks)}, KnownIn(f, c, D[a], x), TypeOf(x) \in v.want,
           x \in Value, NEW a2, a2 = w.blocks[Part(w)]
    PROVE  IfStands(w, f, c2, D, a2)
<1>1. v.values \in Seq(Value)
  BY DEF Local, VisitType
<1> DEFINE m == Len(v.values)
<1>2. /\ w.branches = v.branches /\ w.want = v.want
      /\ \A k : PhiBlock(w, k) = PhiBlock(v, k)
  <2>1. w.branches = v.branches /\ w.want = v.want
    BY DEF SameVisit
  <2> QED
    BY <2>1 DEF PhiBlock
<1>3. /\ \A i, j \in DOMAIN v.blocks : v.blocks[i] = v.blocks[j] => i = j
      /\ m = BodiesDone(v)
      /\ Sources(c, Last(v.blocks)) = {PhiBlock(v, k) : k \in 1..m}
  BY DEF IfStands
<1>4. \A k \in 1..m : /\ KnownIn(f, c2, D[PhiBlock(w, k)], v.values[k])
                      /\ TypeOf(v.values[k]) \in v.want
  BY PhisStay
<1>5. /\ Len(w.values) = m + 1 /\ m \in Nat /\ \A k \in 1..m : w.values[k] = v.values[k]
      /\ w.values[m + 1] = x
  BY <1>1, AppendedIs
<1>6. PhiBlock(w, m + 1) = a /\ BodiesDone(w) = m + 1
  BY <1>2, <1>3
<1>7. Sources(c2, Last(v.blocks)) = Sources(c, Last(v.blocks)) \cup {a}
  BY SourcesGrow
<1>8. D[a] \subseteq DOMAIN c
  BY DEF CodeStep
<1>9. KnownIn(f, c2, D[a], x)
  <2> DEFINE S == D[a]
  <2>1. KnownIn(f, c, S, x) /\ S \subseteq DOMAIN c /\ S \subseteq S
    BY <1>8
  <2> HIDE DEF S
  <2>2. KnownIn(f, c2, S, x)
    BY <2>1, KnownStays
  <2> QED
    BY <2>2 DEF S
<1> HIDE DEF m
<1>10. \A k \in 1..(m + 1) : k \in 1..m \/ k = m + 1
  BY <1>5
<1>11. \A k \in 1..(m + 1) : /\ KnownIn(f, c2, D[PhiBlock(w, k)], w.values[k])
                             /\ TypeOf(w.values[k]) \in w.want
  <2> TAKE k \in 1..(m + 1)
  <2>1. CASE k \in 1..m
    BY <2>1, <1>2, <1>4, <1>5
  <2>2. CASE k = m + 1
    BY <2>2, <1>2, <1>5, <1>6, <1>9
  <2> QED
    BY <2>1, <2>2, <1>10
<1>12. Sources(c2, Last(v.blocks)) = {PhiBlock(w, k) : k \in 1..(m + 1)}
  <2>1. m + 1 \in 1..(m + 1) /\ 1..m \subseteq 1..(m + 1)
    BY <1>5
  <2>2. {PhiBlock(w, k) : k \in 1..(m + 1)} = {PhiBlock(w, k) : k \in 1..m} \cup {a}
    BY <2>1, <1>6, <1>10
  <2>3. {PhiBlock(w, k) : k \in 1..m} = {PhiBlock(v, k) : k \in 1..m}
    BY <1>2
  <2> QED
    BY <2>2, <2>3, <1>3, <1>7
<1> QED
  BY <1>3, <1>5, <1>6, <1>11, <1>12 DEF IfStands

(* A branch of it has: it goes to the end, and the builder to the next block. *)
LEMMA IfBlockEndG ==
    ASSUME IInv, SoundInv, visits # <<>>, IfBlockEnd
    PROVE  SoundInv'
<1> SUFFICES ASSUME Handled' PROVE SoundInv'
  BY DEF SoundInv
<1> DEFINE n == Len(top.trees)
           i == Instr("br", NoReg, <<>>, <<Last(top.blocks)>>)
           base == Len(ir_code)
           z == [top EXCEPT !.after = FALSE, !.base = base]
           w == IF top.source THEN Taken ELSE z
           r == unit[item].ret
<1>1. /\ unit' = unit /\ item' = item /\ scope_manager' = scope_manager
      /\ types' = types /\ regs' = regs /\ notes \subseteq notes'
      /\ top.node = "if" /\ top.after /\ (n % 2 = 0 \/ n > 2 * top.branches)
      /\ code' = Emit(<<i>>) /\ at' = top.blocks[n]
      /\ top.source => ir_code # <<>>
      /\ visits' = [visits EXCEPT ![Len(visits)] = w]
  BY DEF IfBlockEnd, PartDone, Within, Goes, Runs, Under, Pops, Position, Note
<1>2. Handled
  BY <1>1, HandledBefore
<1>3. Named
  BY <1>2, SoundInvHas
<1>4. PICK D, H : GoodNow(D, H)
  BY <1>2, SoundInvHas
<1>5. /\ Local(top, unit, r, DOMAIN code) /\ VisitType(top) /\ TypeInv
      /\ top = visits[Len(visits)] /\ IsSeq(visits) /\ at \in DOMAIN code
      /\ Stands(top, H[Len(visits)], item, r, code, D, at, scope_manager)
      /\ H[Len(visits)] \subseteq D[at] /\ D[at] \subseteq DOMAIN code
      /\ \A b \in DOMAIN code : D[b] \subseteq DOMAIN code
      /\ Wanted(top, r) /\ CodeType(code)
  BY <1>2, <1>4, TopStands, TopFacts DEF IInv
<1>6. base \in Nat /\ top.source \in BOOLEAN
  BY <1>5, LenProperties DEF TypeInv, VisitType
<1>7. Tops(visits, visits', w)
  BY <1>1, <1>5, TopBecomes
<1>8. /\ ~top.source => w = z
      /\ top.source => w = Taken
  OBVIOUS
<1> HIDE DEF base
<1>9. ASSUME ~top.source
      PROVE  /\ Changed(top, w) /\ w.after = FALSE
             /\ w.blocks = top.blocks /\ w.last = top.last /\ w.declared = top.declared
  <2>1. w = z
    BY <1>8, <1>9
  <2> HIDE DEF w
  <2> QED
    BY <2>1, <1>5, <1>6 DEF VisitType, Changed, SameVisit
<1>10. ASSUME top.source
       PROVE  /\ Changed(top, w) /\ w.after = FALSE /\ w.values = Append(top.values, Popped)
              /\ w.blocks = top.blocks /\ w.last = top.last /\ w.declared = top.declared
  <2>1. w = Taken
    BY <1>8, <1>10
  <2> HIDE DEF w
  <2> QED
    BY <2>1, <1>1, <1>5, <1>10, TakenIs
<1> HIDE DEF w, z
<1>11. /\ Changed(top, w) /\ w.after = FALSE /\ w.blocks = top.blocks
       /\ w.declared = top.declared
  BY <1>6, <1>9, <1>10
<1>12. /\ Part(w) = n /\ Part(top) = n - 1
       /\ n \in 1..Len(top.blocks) /\ Len(top.blocks) \in Nat
       /\ Pending(w) \subseteq Pending(top)
       /\ \A b \in Pending(top) : b = top.blocks[n] \/ b \in Pending(w)
       /\ \A k \in n..Len(top.blocks) : top.blocks[k] \in Pending(top)
       /\ top.blocks[n] \in DOMAIN code
       /\ HomeFor(H, Len(visits), H[Len(visits)], D, top.blocks[n])
  BY <1>1, <1>2, <1>4, <1>11, IfComesTo
<1>13. /\ SameVisit(top, w) /\ w.node = top.node /\ w.source = top.source /\ w.want = top.want
       /\ w.op = top.op /\ w.branches = top.branches
  BY <1>11 DEF Changed, SameVisit
<1>14. /\ n \in Nat /\ n >= 1 /\ Len(top.blocks) \in n..Len(top.blocks)
       /\ top.branches \in Nat /\ top.branches >= 1 /\ n <= 2 * top.branches + 1
       /\ ~((n - 1) % 2 = 0 /\ n - 1 < 2 * top.branches)
       /\ Len(top.blocks) \in 1..Len(top.blocks)
  <2> DEFINE m == Len(top.blocks)
             b == top.branches
  <2>1. /\ n \in Nat /\ m \in Nat /\ b \in Nat /\ n >= 1 /\ n <= m
        /\ (m = 2 * b \/ m = 2 * b + 1) /\ b >= 1
        /\ (n % 2 = 0 \/ n > 2 * b) /\ b >= 1
    BY <1>1, IfFacts DEF IInv
  <2> HIDE DEF n, m, b
  <2>2. n <= 2 * b + 1 /\ ~((n - 1) % 2 = 0 /\ n - 1 < 2 * b) /\ m \in n..m /\ m \in 1..m
    BY <2>1
  <2> QED
    BY <2>1, <2>2 DEF m, b
<1> HIDE DEF n
<1>15. ~CondPart(top)
  BY <1>12, <1>14 DEF CondPart
<1>16. ASSUME top.source
       PROVE  /\ KnownIn(item, code, D[at], Popped) /\ Popped \in Value /\ TypeOf(Popped) \in top.want
  <2>1. Valued(top)
    BY <1>1, <1>2, <1>16, BelowStack DEF Valued, IInv
  <2>2. Takes(top, TypeOf(Popped))
    BY <2>1, <1>1, <1>2, <1>4, PoppedKnown
  <2>3. TypeOf(Popped) \in top.want
    BY <2>2, <1>1, <1>15 DEF Takes
  <2> QED
    BY <2>1, <2>3, <1>1, <1>2, <1>4, PoppedKnown
<1>17. Last(top.blocks) \in Nat /\ Last(top.blocks) \in Pending(top)
  <2>1. Last(top.blocks) = top.blocks[Len(top.blocks)]
    BY DEF Last
  <2> QED
    BY <2>1, <1>1, <1>12, <1>14, IfFacts DEF IInv
<1>18. i \in InstrSet /\ i.blocks = <<Last(top.blocks)>> /\ i.op = "br" /\ i.args = <<>>
  <2>1. <<>> \in Seq(Values) /\ <<Last(top.blocks)>> \in Seq(Nat) /\ "br" \in InstrOps
    BY <1>17 DEF InstrOps
  <2> QED
    BY <2>1, ValueFacts DEF Instr, InstrSet
<1>19. ToSet(i.blocks) = {Last(top.blocks)} /\ DOMAIN i.args = {}
  <2>1. ToSet(<<Last(top.blocks)>>) = {Last(top.blocks)} /\ DOMAIN <<>> = {}
    BY DEF ToSet
  <2> QED
    BY <2>1, <1>18
<1>20. Typed(unit, item, i)
  BY <1>18 DEF Typed
<1> HIDE DEF i
<1> DEFINE c2 == code'
           a2 == at'
<1>21. Open(code, at)
  BY <1>1, <1>2, IsOpen DEF IInv
<1>22. c2 = Emit(<<i>>) /\ a2 = top.blocks[n]
  BY <1>1
<1> HIDE DEF c2, a2, r
<1>23. /\ CodeMoves(visits, code, at, c2, a2, unit, item, D, D)
       /\ Opened(code, at, c2, a2, top, Pending(w))
       /\ Targets(c2, at) = {Last(top.blocks)}
  <2>1. i.op # "phi" /\ i.op \in Terminators
    BY <1>18 DEF Terminators
  <2>3. ToSet(i.blocks) \subseteq Pending(top)
    BY <1>17, <1>19
  <2>4. \A k \in DOMAIN i.args : KnownIn(item, code, D[at], i.args[k])
    BY <1>19
  <2>5. a2 \in DOMAIN code
    BY <1>12, <1>22
  <2> DEFINE P == Pending(w)
  <2>6. \A b \in Pending(top) : b = a2 \/ b \in P
    BY <1>12, <1>22
  <2>7. /\ CodeMoves(visits, code, at, c2, a2, unit, item, D, D)
        /\ Opened(code, at, c2, a2, top, P)
        /\ Targets(c2, at) = IF i.op \in Terminators THEN ToSet(i.blocks) ELSE {}
    <3> HIDE DEF P
    <3> QED
      BY <2>1, <2>3, <2>4, <2>5, <2>6, <1>1, <1>2, <1>4, <1>18, <1>20, <1>21, <1>22,
         EmitOneMoves
  <2> QED
    BY <2>1, <2>7, <1>19
<1>24. CodeStep(code, c2, at)
  BY <1>23 DEF CodeMoves
<1>25. IfStands(w, item, c2, D, a2)
  <2> SUFFICES ASSUME top.source PROVE IfStands(w, item, c2, D, a2)
    BY <1>13 DEF IfStands
  <2>1. IfStands(top, item, code, D, at)
    BY <1>5 DEF Stands
  <2> DEFINE b == top.branches
             k == IF n = 2 * b + 1 THEN b + 1 ELSE n \div 2
             j == IF n - 1 = 2 * b + 1 THEN b + 1 ELSE (n - 1) \div 2
  <2>2. k = j + 1 /\ k \in Nat /\ (IF k <= b THEN 2 * k - 1 ELSE 2 * b) = n - 1
    BY <1>1, <1>14, BranchOf
  <2>3. BodiesDone(w) = k /\ BodiesDone(top) = j
    BY <1>12, <1>13 DEF BodiesDone
  <2>4. PhiBlock(top, k) = top.blocks[n - 1]
    BY <2>2 DEF PhiBlock
  <2>5. at = top.blocks[n - 1]
    BY <2>1, <1>1, <1>12, <1>15 DEF IfStands
  <2> HIDE DEF k, j
  <2>6. BodiesDone(w) = BodiesDone(top) + 1 /\ PhiBlock(top, BodiesDone(w)) = at
    BY <2>2, <2>3, <2>4, <2>5
  <2>7. a2 = w.blocks[Part(w)]
    BY <1>11, <1>12, <1>22
  <2> QED
    BY <2>1, <2>6, <2>7, <1>1, <1>5, <1>10, <1>11, <1>13, <1>16, <1>21, <1>23, <1>24,
       BranchStands
<1>26. Stands(w, H[Len(visits)], item, r, c2, D, a2, scope_manager)
  <2>1. \A x \in Carried(w, scope_manager) : KnownIn(item, c2, H[Len(visits)], x)
    <3>1. H[Len(visits)] \subseteq DOMAIN code /\ w.node = top.node
          /\ top.node \notin {"binary", "call"}
      BY <1>1, <1>5, <1>13
    <3> QED
      BY <3>1, <1>5, <1>11, <1>24, SlotsStay
  <2>2. IfExprStands(w, item, c2, D)
    BY <1>1, <1>13 DEF IfExprStands
  <2>3. Wanted(w, r)
    BY <1>1, <1>5, <1>13 DEF Wanted
  <2>4. \A b \in Pending(w) : D[b] = H[Len(visits)] \cup {b}
    BY <1>5, <1>12 DEF Stands
  <2> QED
    BY <2>1, <2>2, <2>3, <2>4, <1>25 DEF Stands
<1>27. TopGraph(w, D, H, D, H[Len(visits)])
  <2>1. HomeFor(H, Len(visits), H[Len(visits)], D, a2)
    BY <1>12, <1>22
  <2>2. TopValue(w, item, c2, D, a2, ir_code', current_type')
    BY <1>11 DEF TopValue
  <2>3. w.node # "fn"
    BY <1>1, <1>13
  <2> QED
    BY <2>1, <2>2, <2>3, <1>23, <1>26 DEF TopGraph, r, a2, c2
<1>28. VisitorGoes /\ MapsStay
  BY <1>1 DEF VisitorGoes, MapsStay, IInv, TypeInv
<1> QED
  BY <1>2, <1>3, <1>4, <1>7, <1>11, <1>13, <1>27, <1>28, TopG

-----------------------------------------------------------------------------
(* What the body of a function with a return type leaves is of that type. *)
LEMMA FnValued ==
    ASSUME IInv, visits # <<>>, top.node = "fn", top.source
    PROVE  Valued(top) /\ top.want = {unit[item].ret}
<1>1. Flags(top, unit[item].ret)
  BY TopFacts DEF IInv, Local
<1>2. top.want = {unit[item].ret} /\ unit[item].ret \in Data
  BY <1>1 DEF Flags, Types, Data
<1> QED
  BY <1>2 DEF Valued, Sourced

(* The value of the function is there. *)
LEMMA FnLeft ==
    ASSUME IInv, Handled, visits # <<>>, top.node = "fn", top.after, top.source, ir_code # <<>>
    PROVE  top.base < Len(ir_code)
<1>1. /\ top.base \in Nat /\ Len(ir_code) \in Nat
      /\ "discarded" \notin notes => top.base = 0
  BY StackFact DEF IInv
<1>2. top.base < Len(ir_code) \/ "return" \in notes
  <2>1. top = Last(visits) /\ Left(visits, Len(ir_code), notes)
    BY TopFacts DEF StackInv, IInv
  <2>2. Valued(top)
    BY FnValued
  <2> QED
    BY <2>1, <2>2 DEF Left
<1>3. "return" \in notes => "discarded" \notin notes
  BY DEF Handled
<1>4. Len(ir_code) >= 1
  BY PopFacts DEF IInv
<1> QED
  BY <1>1, <1>2, <1>3, <1>4

(* visit_fn: the function returns what is left, or nothing. *)
LEMMA FnEndG ==
    ASSUME IInv, SoundInv, visits # <<>>, FnEnd
    PROVE  SoundInv'
<1> SUFFICES ASSUME Handled' PROVE SoundInv'
  BY DEF SoundInv
<1> DEFINE w == [top EXCEPT !.after = FALSE]
           i == Instr("ret_void", NoReg, <<>>, <<>>)
           j == Instr("ret", NoReg, <<Popped>>, <<>>)
           r == unit[item].ret
<1>1. /\ unit' = unit /\ item' = item /\ scope_manager' = scope_manager
      /\ types' = types /\ regs' = regs /\ at' = at /\ notes \subseteq notes'
      /\ top.node = "fn" /\ top.after
      /\ visits' = [visits EXCEPT ![Len(visits)] = w]
      /\ \/ ~top.source /\ code' = Emit(<<i>>)
         \/ top.source /\ ir_code = <<>> /\ code' = code
         \/ top.source /\ ir_code # <<>> /\ code' = Emit(<<j>>)
  BY DEF FnEnd, Goes, Runs, Under, Pops, Note
<1>2. Handled
  BY <1>1, HandledBefore
<1>3. Named
  BY <1>2, SoundInvHas
<1>4. PICK D, H : GoodNow(D, H)
  BY <1>2, SoundInvHas
<1>5. /\ Local(top, unit, r, DOMAIN code) /\ VisitType(top) /\ TypeInv
      /\ top = visits[Len(visits)] /\ IsSeq(visits) /\ at \in DOMAIN code
      /\ Stands(top, H[Len(visits)], item, r, code, D, at, scope_manager)
      /\ H[Len(visits)] \subseteq D[at] /\ D[at] \subseteq DOMAIN code
      /\ Wanted(top, r) /\ CodeType(code)
      /\ TopValue(top, item, code, D, at, ir_code, current_type)
  BY <1>2, <1>4, TopStands, TopFacts DEF IInv
<1>6. /\ Changed(top, w) /\ w.after = FALSE /\ w.blocks = top.blocks /\ w.declared = top.declared
  BY <1>5 DEF VisitType, Changed, SameVisit
<1>7. Tops(visits, visits', w)
  BY <1>1, <1>5, TopBecomes
<1> HIDE DEF w
<1>8. /\ SameVisit(top, w) /\ w.node = top.node /\ w.source = top.source /\ w.want = top.want
      /\ w.op = top.op
  BY <1>6 DEF Changed, SameVisit
<1>9. i \in InstrSet /\ i.blocks = <<>> /\ i.op = "ret_void" /\ i.args = <<>>
  <2>1. <<>> \in Seq(Values) /\ <<>> \in Seq(Nat) /\ "ret_void" \in InstrOps
    BY DEF InstrOps
  <2> QED
    BY <2>1, ValueFacts DEF Instr, InstrSet
<1>10. /\ ir_code # <<>> => j \in InstrSet
       /\ j.blocks = <<>> /\ j.op = "ret" /\ j.args = <<Popped>>
  <2>1. ir_code # <<>> => <<Popped>> \in Seq(Values) /\ <<>> \in Seq(Nat) /\ "ret" \in InstrOps
    BY <1>5, PopFacts DEF InstrOps
  <2> QED
    BY <2>1, ValueFacts DEF Instr, InstrSet
<1> HIDE DEF i, j
<1>11. Pending(w) = {} /\ Pending(top) = {}
  <2>1. PendingParts(w) = {} /\ PendingParts(top) = {}
    BY <1>1, <1>8 DEF PendingParts
  <2> QED
    BY <2>1 DEF Pending
<1> DEFINE c2 == code'
<1> HIDE DEF c2, r
<1>12. /\ CodeMoves(visits, code, at, c2, at, unit, item, D, D)
       /\ Opened(code, at, c2, at, top, Pending(w))
       /\ ~Open(c2, at)
  <2> DEFINE P == Pending(w)
  <2>0. Pending(top) = {} /\ P = {}
    BY <1>11
  <2> HIDE DEF P
  <2>1. CASE ~top.source /\ c2 = Emit(<<i>>)
    <3>1. Open(code, at)
      BY <2>1, <1>1, <1>2, IsOpen DEF IInv
    <3>2. r = "()"
      BY <2>1, <1>1, <1>5 DEF Wanted
    <3>3. Typed(unit, item, i)
      BY <3>2, <1>9 DEF Typed, r
    <3>4. i.op # "phi" /\ i.op \in Terminators
      BY <1>9 DEF Terminators
    <3>5. DOMAIN i.args = {}
      BY <1>9
    <3>6. ToSet(i.blocks) = {}
      BY <1>9, NoBlocks
    <3>7. \A b \in Pending(top) : b = at \/ b \in P
      BY <2>0
    <3>8. /\ CodeMoves(visits, code, at, c2, at, unit, item, D, D)
          /\ Opened(code, at, c2, at, top, P)
          /\ Open(c2, at) <=> i.op \notin Terminators
      BY <2>1, <3>1, <3>3, <3>4, <3>5, <3>6, <3>7, <1>2, <1>4, <1>5, <1>9, EmitOneMoves
    <3> QED
      BY <3>4, <3>8 DEF P
  <2>2. CASE top.source /\ ir_code = <<>> /\ c2 = code
    <3>1. /\ CodeMoves(visits, code, at, code, at, unit, item, D, D)
          /\ Opened(code, at, code, at, top, P)
      BY <2>0, <1>2, <1>4, TopStands, SameCodeMoves
    <3>2. ~(top.base < Len(ir_code))
      <4>1. Len(<<>>) = 0 /\ top.base \in Nat
        BY <1>2, EmptyIs, StackFact DEF IInv
      <4> QED
        BY <4>1, <2>2
    <3>3. Valued(top)
      BY <2>2, <1>1, FnValued
    <3>4. ~Open(code, at)
      BY <3>2, <3>3, <1>1, <1>5 DEF TopValue
    <3> QED
      BY <3>1, <3>4, <2>2 DEF P
  <2>3. CASE top.source /\ ir_code # <<>> /\ c2 = Emit(<<j>>)
    <3>1. Open(code, at)
      BY <2>3, <1>1, <1>2, IsOpen DEF IInv
    <3>2. Valued(top) /\ top.want = {r} /\ top.base < Len(ir_code)
      BY <2>3, <1>1, <1>2, FnLeft, FnValued DEF r
    <3>3. KnownIn(item, code, D[at], Popped) /\ Takes(top, TypeOf(Popped))
      BY <3>2, <1>1, <1>5 DEF TopValue, Popped
    <3>4. TypeOf(Popped) = r
      BY <3>2, <3>3, <1>1 DEF Takes
    <3>5. Typed(unit, item, j)
      <4>1. ArgTypes(j) = <<unit[item].ret>>
        BY <3>4, <1>10 DEF ArgTypes, r
      <4> QED
        BY <4>1, <1>10 DEF Typed
    <3>6. j.op # "phi" /\ j.op \in Terminators /\ j \in InstrSet
      BY <1>10, <2>3 DEF Terminators
    <3>7. \A k \in DOMAIN j.args : KnownIn(item, code, D[at], j.args[k])
      BY <3>3, <1>10
    <3>8. ToSet(j.blocks) = {}
      BY <1>10, NoBlocks
    <3>9. \A b \in Pending(top) : b = at \/ b \in P
      BY <2>0
    <3>10. /\ CodeMoves(visits, code, at, c2, at, unit, item, D, D)
           /\ Opened(code, at, c2, at, top, P)
           /\ Open(c2, at) <=> j.op \notin Terminators
      BY <2>3, <3>1, <3>5, <3>6, <3>7, <3>8, <3>9, <1>2, <1>4, <1>5, EmitOneMoves
    <3> QED
      BY <3>6, <3>10 DEF P
  <2> QED
    BY <2>1, <2>2, <2>3, <1>1 DEF c2
<1>13. CodeStep(code, c2, at)
  BY <1>12 DEF CodeMoves
<1>14. Stands(w, H[Len(visits)], item, r, c2, D, at, scope_manager)
  <2>1. \A x \in Carried(w, scope_manager) : KnownIn(item, c2, H[Len(visits)], x)
    <3>1. H[Len(visits)] \subseteq DOMAIN code /\ w.node = top.node
          /\ top.node \notin {"binary", "call"}
      BY <1>1, <1>5, <1>8
    <3> QED
      BY <3>1, <1>5, <1>6, <1>13, SlotsStay
  <2>2. IfExprStands(w, item, c2, D) /\ IfStands(w, item, c2, D, at)
    BY <1>1, <1>8 DEF IfExprStands, IfStands
  <2>3. Wanted(w, r)
    BY <1>1, <1>5, <1>8 DEF Wanted
  <2> QED
    BY <2>1, <2>2, <2>3, <1>11 DEF Stands
<1>15. TopGraph(w, D, H, D, H[Len(visits)])
  <2>1. HomeFor(H, Len(visits), H[Len(visits)], D, at)
    BY <1>5 DEF HomeFor
  <2>2. TopValue(w, item, c2, D, at, ir_code', current_type')
    BY <1>6 DEF TopValue
  <2> QED
    BY <2>1, <2>2, <1>1, <1>12, <1>14 DEF TopGraph, r, c2
<1>16. VisitorGoes /\ MapsStay
  BY <1>1 DEF VisitorGoes, MapsStay, IInv, TypeInv
<1> QED
  BY <1>2, <1>3, <1>4, <1>6, <1>7, <1>8, <1>15, <1>16, TopG

-----------------------------------------------------------------------------
(* The visit of a node has ended, and the one below goes on. *)
LEMMA ReturnedG ==
    ASSUME IInv, Handled, visits # <<>>, Named, VisitorGoes, MapsStay, top.node # "fn",
           NEW w, Ends(visits, visits', w), Alike(below, w), w.after,
           NEW D, NEW H, GoodNow(D, H),
           CodeMoves(visits, code, at, code', at', unit, item, D, D),
           Opened(code, at, code', at', top, Pending(below)),
           H[Len(visits)] \subseteq D[at'],
           TopValue(w, item, code', D, at', ir_code', current_type')
    PROVE  SoundInv'
<1> DEFINE n == Len(visits)
           r == unit[item].ret
<1>1. n \in Nat /\ n >= 2
  BY TopStands, BelowReady DEF IInv
<1>2. /\ Kept(visits, code, at, unit, item)
      /\ Good(visits, code, at, scope_manager, unit, item, D, H)
      /\ 1 \in DOMAIN code
  BY TopStands
<1>3. CodeStep(code, code', at)
  BY DEF CodeMoves
<1>4. scope_manager' = scope_manager
  BY DEF MapsStay
<1>5. /\ SameVisit(below, w) /\ w.declared = below.declared
  BY DEF Alike
<1>6. Named'
  BY <1>2, <1>3, <1>5, NamedEnds
<1>7. H[n - 1] \subseteq H[n]
  <2>1. \A j, k \in 1..n : j <= k => H[j] \subseteq H[k]
    BY <1>2 DEF Good, Homes
  <2> HIDE DEF n
  <2>2. n - 1 \in 1..n /\ n \in 1..n /\ n - 1 <= n
    BY <1>1
  <2> QED
    BY <2>1, <2>2
<1>8. Stands(below, H[n - 1], item, r, code', D, at', scope_manager)
  <2> DEFINE c2 == code'
             a2 == at'
             vs == visits
             k == n - 1
             slots == scope_manager
             c == code
             a == at
             u == unit
             f == item
  <2>1. CodeMoves(vs, c, a, c2, a2, u, f, D, D)
    OBVIOUS
  <2>2. SameSlots(vs[k], slots, slots)
    BY DEF SameSlots
  <2>3. k \in 1..(Len(vs) - 1)
    <3> HIDE DEF n
    <3>1. n - 1 \in 1..(n - 1)
      BY <1>1
    <3> QED
      BY <3>1 DEF n
  <2>4. Kept(vs, c, a, u, f) /\ Good(vs, c, a, slots, u, f, D, H)
    BY <1>2
  <2> HIDE DEF c2, a2, vs, slots, c, a, u, f, k
  <2>5. Stands(vs[k], H[k], f, u[f].ret, c2, D, a2, slots)
    BY <2>1, <2>2, <2>3, <2>4, FrameStands
  <2> QED
    BY <2>5 DEF c2, a2, vs, slots, c, a, u, f, k, below
<1>9. /\ Stands(w, H[n - 1], item, r, code', D, at', scope_manager)
      /\ Pending(w) = Pending(below)
  <2> DEFINE c2 == code'
             a2 == at'
             v == below
  <2>1. Stands(v, H[n - 1], item, r, c2, D, a2, scope_manager) /\ Alike(v, w)
    BY <1>8
  <2> HIDE DEF c2, a2, v, n, r
  <2>2. Stands(w, H[n - 1], item, r, c2, D, a2, scope_manager) /\ Pending(w) = Pending(v)
    BY <2>1, AlikeStands
  <2> QED
    BY <2>2 DEF c2, a2, v
<1>10. EndGraph(w, D, H, D, H[n - 1])
  <2>1. HomeFor(H, n - 1, H[n - 1], D, at')
    BY <1>7 DEF HomeFor
  <2> QED
    BY <2>1, <1>4, <1>5, <1>9 DEF EndGraph
<1>11. \A k \in 1..(Len(visits) - 2) : SameSlots(visits[k], scope_manager, scope_manager')
  BY <1>4 DEF SameSlots
<1> QED
  BY <1>6, <1>10, <1>11, EndG

(* The node below, with the tree of the one that has been visited. *)
LEMMA GivenBelow ==
    ASSUME IInv, visits # <<>>, top.node # "fn", NEW tree, Returns(tree)
    PROVE  /\ Ends(visits, visits', GivenTree(below, tree))
           /\ Gave(below, GivenTree(below, tree))
           /\ Linked(below, top) /\ VisitType(below)
<1>1. /\ IsSeq(visits) /\ Len(visits) >= 2 /\ VisitType(below) /\ Linked(below, top)
  BY TopFacts, BelowReady DEF IInv
<1>2. Ends(visits, visits', GivenTree(below, tree))
  BY <1>1, ReturnLeaves DEF Returns, below
<1>3. Gave(below, GivenTree(below, tree))
  BY <1>1, GivenFacts DEF Linked
<1> QED
  BY <1>1, <1>2, <1>3

(* What the part feeds to the node below. *)
LEMMA FedBelow ==
    ASSUME IInv, Handled, visits # <<>>, top.node # "fn", NEW D, NEW H, GoodNow(D, H)
    PROVE  Feeds(below, top)
<1> DEFINE n == Len(visits)
<1>1. n \in Nat /\ n >= 2
  BY TopStands, BelowReady DEF IInv
<1>2. Linking(visits)
  BY DEF GoodNow, Good
<1>3. n - 1 \in 1..(n - 1) /\ n - 1 + 1 = n
  <2> HIDE DEF n
  <2> QED
    BY <1>1
<1> QED
  BY <1>2, <1>3 DEF Linking, below, top

(* What has been visited left its value on top of the stack.                 *)
LEMMA ValueLeftG ==
    ASSUME IInv, Handled, visits # <<>>, Named, VisitorGoes, MapsStay,
           top.node \notin {"fn", "let", "return"},
           NEW tree, Returns(tree), NEW D, NEW H, GoodNow(D, H),
           CodeMoves(visits, code, at, code', at', unit, item, D, D),
           Opened(code, at, code', at', top, Pending(below)),
           H[Len(visits)] \subseteq D[at'],
           NEW v \in Value, NEW s \in Seq(Value), ir_code' = Append(s, v), top.base <= Len(s),
           TypeOf(v) \in Data, Gives(top, TypeOf(v)), current_type' = TypeOf(v),
           KnownIn(item, code', D[at'], v)
    PROVE  SoundInv'
<1> DEFINE w == GivenTree(below, tree)
           r == unit[item].ret
<1>1. top.node \notin {"fn", "let", "return"}
  OBVIOUS
<1>2. Ends(visits, visits', w) /\ Gave(below, w)
  BY <1>1, GivenBelow
<1>3. below.base \in Nat /\ below.base <= top.base /\ top.base \in Nat
  BY <1>1, BelowStack, StackFact DEF IInv
<1>4. Feeds(below, top)
  BY <1>1, FedBelow
<1> HIDE DEF w, r
<1>5. Alike(below, w) /\ w.after /\ w.base = below.base /\ (Valued(w) <=> Valued(below))
  BY <1>2 DEF Gave
<1>6. Len(ir_code') = Len(s) + 1 /\ Len(s) \in Nat /\ Last(ir_code') = v
  <2>1. /\ Append(s, v) \in Seq(Value) /\ Len(Append(s, v)) = Len(s) + 1 /\ Len(s) \in Nat
        /\ Append(s, v)[Len(s) + 1] = v
    BY AppendItem, LenProperties
  <2> QED
    BY <2>1 DEF Last
<1>7. Valued(w) => Takes(w, TypeOf(v))
  <2>1. Valued(w) => Takes(below, TypeOf(v))
    BY <1>1, <1>4, <1>5 DEF Feeds, r
  <2> DEFINE b == below
  <2>2. Alike(b, w)
    BY <1>5
  <2> HIDE DEF b
  <2>3. \A t : Takes(w, t) <=> Takes(b, t)
    BY <2>2, AlikeTakes
  <2> QED
    BY <2>1, <2>3 DEF b
<1>8. TopValue(w, item, code', D, at', ir_code', current_type')
  <2>1. Valued(w) => /\ Takes(w, TypeOf(Last(ir_code')))
                     /\ KnownIn(item, code', D[at'], Last(ir_code'))
                     /\ current_type' = TypeOf(Last(ir_code'))
    BY <1>6, <1>7
  <2>2. w.base < Len(ir_code')
    <3> DEFINE m == Len(ir_code')
               q == Len(s)
               b == w.base
               t == top.base
    <3>1. m = q + 1 /\ q \in Nat /\ b \in Nat /\ t \in Nat /\ b <= t /\ t <= q
      BY <1>3, <1>5, <1>6
    <3> HIDE DEF m, q, b, t
    <3>2. b < m
      BY <3>1
    <3> QED
      BY <3>2 DEF m, b
  <2> QED
    BY <2>1, <2>2 DEF TopValue
<1> QED
  BY <1>1, <1>2, <1>5, <1>8, ReturnedG DEF r

(* Such a step that ends an expression keeps the invariant. *)
LEMMA ValueG ==
    ASSUME IInv, Handled, visits # <<>>, Named, VisitorGoes, MapsStay, top.node \in ExprNodes,
           NEW tree, Returns(tree), NEW D, NEW H, GoodNow(D, H),
           CodeMoves(visits, code, at, code', at', unit, item, D, D),
           Opened(code, at, code', at', top, Pending(below)),
           H[Len(visits)] \subseteq D[at'],
           NEW v \in Value, NEW s \in Seq(Value), ir_code' = Append(s, v), top.base <= Len(s),
           TypeOf(v) \in Data, Gives(top, TypeOf(v)), current_type' = TypeOf(v),
           KnownIn(item, code', D[at'], v)
    PROVE  SoundInv'
<1>1. top.node \notin {"fn", "let", "return"}
  BY DEF ExprNodes
<1> QED
  BY <1>1, ValueLeftG

-----------------------------------------------------------------------------
(* An instruction whose value is that of the node on top.                    *)
LEMMA DefinedG ==
    ASSUME IInv, Handled, visits # <<>>, NEW D, NEW H, GoodNow(D, H), Open(code, at),
           Pending(top) = {}, NEW i \in InstrSet, i.blocks = <<>>, i.op # "phi",
           i.op \notin Terminators, Typed(unit, item, i),
           \A k \in DOMAIN i.args : KnownIn(item, code, D[at], i.args[k]),
           NEW c2, c2 = Emit(<<i>>), i.def[2] = item
    PROVE  /\ CodeMoves(visits, code, at, c2, at, unit, item, D, D)
           /\ Opened(code, at, c2, at, top, Pending(below))
           /\ KnownIn(item, c2, D[at], i.def)
<1> DEFINE P == Pending(below)
<1>1. ToSet(i.blocks) \subseteq Pending(top)
  <2>1. ToSet(i.blocks) = {}
    BY NoBlocks
  <2> QED
    BY <2>1
<1>2. at \in DOMAIN code /\ at \in D[at]
  BY TopStands
<1> HIDE DEF P
<1>3. \A b \in Pending(top) : b = at \/ b \in P
  OBVIOUS
<1>4. /\ CodeMoves(visits, code, at, c2, at, unit, item, D, D)
      /\ Opened(code, at, c2, at, top, P)
      /\ Defines(c2, at, i.def)
  BY <1>1, <1>2, <1>3, EmitOneMoves
<1>5. KnownIn(item, c2, D[at], i.def)
  BY <1>2, <1>4 DEF KnownIn
<1> QED
  BY <1>4, <1>5 DEF P

(* Nothing is added. *)
LEMMA UnchangedG ==
    ASSUME IInv, Handled, visits # <<>>, NEW D, NEW H, GoodNow(D, H),
           NEW P, Pending(top) \subseteq P
    PROVE  /\ CodeMoves(visits, code, at, code, at, unit, item, D, D)
           /\ Opened(code, at, code, at, top, P)
<1>1. /\ Kept(visits, code, at, unit, item)
      /\ Good(visits, code, at, scope_manager, unit, item, D, H)
  BY TopStands
<1> QED
  BY <1>1, SameCodeMoves

(* Only conditionals have blocks that they come to later. *)
LEMMA NoPending ==
    ASSUME NEW v, v.node \notin {"if", "if_expr"}
    PROVE  Pending(v) = {}
<1>1. PendingParts(v) = {}
  BY DEF PendingParts
<1> QED
  BY <1>1 DEF Pending

(* visit_unary_op ends. *)
LEMMA UnaryEndG ==
    ASSUME IInv, SoundInv, visits # <<>>, UnaryEnd
    PROVE  SoundInv'
<1> SUFFICES ASSUME Handled' PROVE SoundInv'
  BY DEF SoundInv
<1> DEFINE def == NewReg("float")
           i == Instr("fsub", def, <<Popped, Const(0, "float")>>, <<>>)
           r == unit[item].ret
           tree == <<"unary", top.op, top.trees[1]>>
           s == Front(ir_code)
<1>1. /\ unit' = unit /\ item' = item /\ scope_manager' = scope_manager
      /\ types' = types /\ at' = at
      /\ top.node = "unary" /\ top.after /\ ir_code # <<>>
      /\ notes \subseteq notes' /\ Returns(tree)
  BY DEF UnaryEnd, At, PartDone, Within, Goes, Runs, Pops, Note
<1>2. /\ top.op = "negate" => /\ ir_code' = s \o <<def>>
                              /\ code' = Emit(<<i>>) /\ regs' = regs + 1
                              /\ current_type' = "float"
      /\ top.op # "negate" => /\ ir_code' = s \o <<Popped>>
                              /\ code' = code /\ regs' = regs /\ current_type' = current_type
  BY DEF UnaryEnd, Pops
<1>3. Handled
  BY <1>1, HandledBefore
<1>4. Named
  BY <1>3, SoundInvHas
<1>5. PICK D, H : GoodNow(D, H)
  BY <1>3, SoundInvHas
<1>6. /\ Local(top, unit, r, DOMAIN code) /\ VisitType(top) /\ TypeInv /\ ExprParts(top)
      /\ H[Len(visits)] \subseteq D[at] /\ regs \in Nat
  BY <1>3, <1>5, TopStands DEF IInv, Local, TypeInv
<1>7. /\ def \in Value /\ TypeOf(def) = "float" /\ def[2] = item
  BY <1>6, NewRegIs, ValueFacts DEF NewReg, Reg
<1>8. /\ Front(ir_code) \in Seq(Value) /\ Len(Front(ir_code)) = Len(ir_code) - 1
      /\ Len(ir_code) \in Nat
  BY <1>1, <1>6, PopFacts
<1>9. /\ Stale = {} /\ top.base < Len(ir_code)
      /\ KnownIn(item, code, D[at], Popped) /\ Popped \in Value /\ Popped \in Values
      /\ TypeOf(Popped) = "float" /\ current_type = "float"
  <2>1. Valued(top) /\ ExprPart(top)
    BY <1>1 DEF Valued, ExprPart, ExprNodes
  <2>2. Takes(top, TypeOf(Popped))
    BY <2>1, <1>1, <1>3, <1>5, PoppedKnown
  <2> HIDE DEF r
  <2>3. TypeOf(Popped) = "float"
    BY <2>2, <1>1 DEF Takes
  <2> QED
    BY <2>1, <2>3, <1>1, <1>3, <1>5, PoppedKnown
<1>10. top.base <= Len(s)
  <2> DEFINE n == Len(ir_code)
             f == Len(s)
             b == top.base
  <2>1. b < n /\ f = n - 1 /\ n \in Nat /\ b \in Nat
    BY <1>6, <1>8, <1>9 DEF VisitType
  <2> HIDE DEF n, f, b
  <2>2. b <= f
    BY <2>1
  <2> QED
    BY <2>2 DEF b, f
<1>11. Gives(top, "float")
  <2>1. top.op \in UnaryOps
    BY <1>1, <1>6 DEF ExprParts
  <2>2. ResultOf(top.op) = "float"
    BY <2>1 DEF ResultOf
  <2> QED
    BY <2>2, <1>1 DEF Gives
<1>12. top.node \in ExprNodes /\ "float" \in Data /\ Pending(top) = {}
  BY <1>1, NoPending DEF ExprNodes, Data
<1>13. VisitorGoes /\ MapsStay
  BY <1>1, <1>2, <1>6 DEF VisitorGoes, MapsStay, IInv, TypeInv
<1> HIDE DEF tree, s, r
<1>14. CASE top.op = "negate"
  <2>1. i \in InstrSet /\ i.blocks = <<>> /\ i.op = "fsub" /\ i.def = def
        /\ i.args = <<Popped, Const(0, "float")>>
    <3>1. <<Popped, Const(0, "float")>> \in Seq(Values) /\ <<>> \in Seq(Nat) /\ "fsub" \in InstrOps
      BY <1>9, ValueFacts DEF InstrOps
    <3> HIDE DEF def
    <3> QED
      BY <3>1, <1>7 DEF Instr, InstrSet
  <2> HIDE DEF i, def
  <2>2. Typed(unit, item, i)
    <3>1. TypeOf(Const(0, "float")) = "float"
      BY ValueFacts
    <3>2. ArgTypes(i) = <<"float", "float">>
      BY <3>1, <2>1, <1>9 DEF ArgTypes
    <3> QED
      BY <3>2, <2>1 DEF Typed
  <2>3. \A k \in DOMAIN i.args : KnownIn(item, code, D[at], i.args[k])
    <3>1. KnownIn(item, code, D[at], Const(0, "float"))
      BY DEF KnownIn, Const
    <3>2. \A k \in DOMAIN i.args : i.args[k] = Popped \/ i.args[k] = Const(0, "float")
      BY <2>1
    <3> QED
      BY <3>1, <3>2, <1>9
  <2>4. Open(code, at)
    BY <1>1, <1>3, IsOpen DEF IInv
  <2>5. i.op # "phi" /\ i.op \notin Terminators
    BY <2>1 DEF Terminators
  <2> DEFINE c2 == code'
  <2>6. c2 = Emit(<<i>>)
    BY <1>2, <1>14
  <2> HIDE DEF c2
  <2>7. /\ CodeMoves(visits, code, at, c2, at, unit, item, D, D)
        /\ Opened(code, at, c2, at, top, Pending(below))
        /\ KnownIn(item, c2, D[at], def)
    BY <2>1, <2>2, <2>3, <2>4, <2>5, <2>6, <1>3, <1>5, <1>7, <1>12, DefinedG
  <2>8. ir_code' = Append(s, def) /\ s \in Seq(Value)
    BY <1>2, <1>7, <1>8, <1>14, DatasAppend DEF s
  <2> QED
    BY <2>7, <2>8, <1>1, <1>2, <1>3, <1>4, <1>5, <1>6, <1>7, <1>10, <1>11, <1>12, <1>13, <1>14,
       ValueG DEF c2, r
<1>15. CASE top.op # "negate"
  <2>1. ir_code' = Append(s, Popped) /\ s \in Seq(Value)
    BY <1>2, <1>8, <1>9, <1>15, DatasAppend DEF s
  <2>2. /\ CodeMoves(visits, code, at, code, at, unit, item, D, D)
        /\ Opened(code, at, code, at, top, Pending(below))
    BY <1>3, <1>5, <1>12, UnchangedG
  <2> QED
    BY <2>1, <2>2, <1>1, <1>2, <1>3, <1>4, <1>5, <1>6, <1>9, <1>10, <1>11, <1>12, <1>13, <1>15,
       ValueG DEF r
<1> QED
  BY <1>14, <1>15

-----------------------------------------------------------------------------
(* The values that an operator works on have its types. *)
LEMMA BinaryTyped ==
    ASSUME NEW u, NEW f, NEW i, NEW op \in BinaryOps, NEW left, NEW right, NEW type,
           type \in Data, TypeOf(left) = type, TypeOf(right) = type,
           op \in Arithmetic \cup {"less", "unequal"} => type = "float",
           i.op = CASE op = "add" -> "fadd" [] op = "sub" -> "fsub"
                    [] op = "less" -> "fcmp_olt" [] op = "unequal" -> "fcmp_one"
                    [] op = "equal" -> IF TypeOf(left) = "float" THEN "fcmp_oeq" ELSE "icmp_eq",
           i.args = <<left, right>>
    PROVE  Typed(u, f, i) /\ i.op \notin Terminators /\ i.op # "phi"
<1>1. ArgTypes(i) = <<type, type>>
  BY DEF ArgTypes
<1>2. /\ i.op \in {"fadd", "fsub", "fcmp_olt", "fcmp_one"} => type = "float"
      /\ i.op = "fcmp_oeq" => type = "float"
      /\ i.op = "icmp_eq" => type = "bool"
      /\ i.op \in {"fadd", "fsub", "fcmp_olt", "fcmp_one", "fcmp_oeq", "icmp_eq"}
  <2>1. op \in {"add", "sub", "less", "equal", "unequal"}
    BY DEF BinaryOps, Arithmetic
  <2>2. type = "bool" \/ type = "float"
    BY DEF Data
  <2>3. op \in {"add", "sub"} => op \in Arithmetic
    BY DEF Arithmetic
  <2> QED
    BY <2>1, <2>2, <2>3
<1> QED
  BY <1>1, <1>2 DEF Typed, Terminators

(* visit_binary_op ends. *)
LEMMA BinaryEndG ==
    ASSUME IInv, SoundInv, visits # <<>>, BinaryEnd
    PROVE  SoundInv'
<1> SUFFICES ASSUME Handled' PROVE SoundInv'
  BY DEF SoundInv
<1> DEFINE left == top.values[1]
           i == BinaryInstr(top.op, left, Popped)
           def == NewReg(ResultOf(top.op))
           r == unit[item].ret
           tree == <<"binary", top.op, top.trees[1], top.trees[2]>>
           s == Front(ir_code)
<1>1. /\ unit' = unit /\ item' = item /\ scope_manager' = scope_manager
      /\ types' = types /\ at' = at
      /\ top.node = "binary" /\ top.after /\ ir_code # <<>> /\ Len(top.trees) = 2
      /\ code' = Emit(<<i>>) /\ ir_code' = Append(s, i.def)
      /\ notes \subseteq notes'
      /\ top.op = "unequal" /\ TypeOf(left) = "bool" => "bool_inequality" \in notes'
      /\ regs' = regs + 1 /\ current_type' = ResultOf(top.op)
      /\ Returns(tree)
  BY DEF BinaryEnd, At, PartDone, Within, Goes, Runs, Note
<1>3. Handled
  BY <1>1, HandledBefore
<1>4. Named
  BY <1>3, SoundInvHas
<1>5. PICK D, H : GoodNow(D, H)
  BY <1>3, SoundInvHas
<1>6. /\ Local(top, unit, r, DOMAIN code) /\ VisitType(top) /\ TypeInv /\ ExprParts(top)
      /\ H[Len(visits)] \subseteq D[at] /\ regs \in Nat
      /\ Stands(top, H[Len(visits)], item, r, code, D, at, scope_manager) /\ Wanted(top, r)
  BY <1>3, <1>5, TopStands DEF IInv, Local, TypeInv
<1>7. top.op \in BinaryOps /\ ResultOf(top.op) \in Data
  BY <1>1, <1>6 DEF ExprParts, ResultOf, Data
<1>8. /\ def \in Value /\ TypeOf(def) = ResultOf(top.op) /\ def[2] = item
  <2>1. ResultOf(top.op) \in Types
    BY <1>7 DEF Types
  <2> QED
    BY <2>1, <1>6, NewRegIs DEF NewReg, Reg
<1>9. /\ Front(ir_code) \in Seq(Value) /\ Len(Front(ir_code)) = Len(ir_code) - 1
      /\ Len(ir_code) \in Nat
  BY <1>1, <1>6, PopFacts
<1>10. Part(top) = 1 /\ Len(top.values) = 1
  <2>1. Part(top) = 1
    BY <1>1 DEF Part
  <2> QED
    BY <2>1, <1>1, <1>6 DEF ExprParts, ExprNodes
<1>11. /\ top.base < Len(ir_code)
       /\ KnownIn(item, code, D[at], Popped) /\ Popped \in Values
       /\ TypeOf(Popped) = TypeOf(left) /\ TypeOf(Popped) \in Data
       /\ top.op \in Arithmetic \cup {"less"} => TypeOf(Popped) = "float"
  <2>1. Valued(top)
    BY <1>1 DEF Valued, ExprNodes
  <2>2. Takes(top, TypeOf(Popped))
    BY <2>1, <1>1, <1>3, <1>5, PoppedKnown
  <2> HIDE DEF r
  <2>3. /\ TypeOf(Popped) = TypeOf(left)
        /\ top.op \in Arithmetic \cup {"less"} => TypeOf(Popped) = "float"
    BY <2>2, <1>1, <1>10 DEF Takes
  <2> QED
    BY <2>1, <2>3, <1>1, <1>3, <1>5, PoppedKnown
<1>12. left \in Values /\ KnownIn(item, code, D[at], left)
  <2>1. top.values \in Seq(Value)
    BY <1>6 DEF VisitType
  <2>2. 1 \in DOMAIN top.values
    BY <2>1, <1>10, LenProperties
  <2>3. left \in Value /\ left \in ToSet(top.values)
    BY <2>1, <2>2 DEF ToSet
  <2>4. left \in Carried(top, scope_manager)
    BY <2>3, <1>1 DEF Carried
  <2>5. KnownIn(item, code, H[Len(visits)], left)
    BY <2>4, <1>6 DEF Stands
  <2> HIDE DEF left
  <2>6. KnownIn(item, code, D[at], left)
    BY <2>5, <1>6, KnownMore
  <2> QED
    BY <2>3, <2>6, ValueFacts
<1>13. top.op = "unequal" => TypeOf(Popped) = "float"
  <2>1. "bool_inequality" \notin notes'
    BY DEF Handled
  <2> QED
    BY <2>1, <1>1, <1>11 DEF Data
<1> DEFINE op == CASE top.op = "add" -> "fadd" [] top.op = "sub" -> "fsub"
                   [] top.op = "less" -> "fcmp_olt" [] top.op = "unequal" -> "fcmp_one"
                   [] top.op = "equal" ->
                         IF TypeOf(left) = "float" THEN "fcmp_oeq" ELSE "icmp_eq"
<1>14. i = Instr(op, def, <<left, Popped>>, <<>>)
  BY DEF BinaryInstr
<1>15. i.op = op /\ i.def = def /\ i.args = <<left, Popped>> /\ i.blocks = <<>>
  <2> HIDE DEF i, op, def, left
  <2> QED
    BY <1>14 DEF Instr
<1>16. Typed(unit, item, i) /\ i.op \notin Terminators /\ i.op # "phi"
  <2>1. i.op = op
    BY <1>15
  <2> DEFINE type == TypeOf(Popped)
             o == top.op
             q == Popped
             l == left
  <2>2. /\ o \in BinaryOps /\ type \in Data /\ TypeOf(l) = type /\ TypeOf(q) = type
        /\ o \in Arithmetic \cup {"less", "unequal"} => type = "float"
        /\ i.args = <<l, q>>
    BY <1>7, <1>11, <1>13, <1>15
  <2>3. i.op = CASE o = "add" -> "fadd" [] o = "sub" -> "fsub"
                    [] o = "less" -> "fcmp_olt" [] o = "unequal" -> "fcmp_one"
                    [] o = "equal" -> IF TypeOf(l) = "float" THEN "fcmp_oeq" ELSE "icmp_eq"
    BY <2>1
  <2> HIDE DEF i, o, q, l, type
  <2> QED
    BY <2>2, <2>3, BinaryTyped
<1>17. i \in InstrSet
  <2>1. op \in InstrOps
    <3>1. top.op \in {"add", "sub", "less", "equal", "unequal"}
      BY <1>7 DEF BinaryOps, Arithmetic
    <3> HIDE DEF left
    <3>2. op \in {"fadd", "fsub", "fcmp_olt", "fcmp_one", "fcmp_oeq", "icmp_eq"}
      BY <3>1
    <3> HIDE DEF op
    <3> QED
      BY <3>2 DEF InstrOps
  <2> HIDE DEF i, op, left, def
  <2>2. <<left, Popped>> \in Seq(Values) /\ <<>> \in Seq(Nat)
    BY <1>11, <1>12
  <2> QED
    BY <2>1, <2>2, <1>8, <1>14 DEF Instr, InstrSet
<1> HIDE DEF op, i, def
<1>18. top.base <= Len(s)
  <2> DEFINE n == Len(ir_code)
             f == Len(s)
             b == top.base
  <2>1. b < n /\ f = n - 1 /\ n \in Nat /\ b \in Nat
    BY <1>6, <1>9, <1>11 DEF VisitType
  <2> HIDE DEF n, f, b
  <2>2. b <= f
    BY <2>1
  <2> QED
    BY <2>2 DEF b, f
<1>19. Gives(top, TypeOf(def))
  <2> HIDE DEF r
  <2> QED
    BY <1>1, <1>8 DEF Gives
<1>20. top.node \in ExprNodes /\ Pending(top) = {}
  BY <1>1, NoPending DEF ExprNodes
<1>21. VisitorGoes /\ MapsStay
  BY <1>1, <1>6 DEF VisitorGoes, MapsStay, IInv, TypeInv
<1>22. \A k \in DOMAIN i.args : KnownIn(item, code, D[at], i.args[k])
  <2> HIDE DEF left
  <2>1. \A k \in DOMAIN i.args : i.args[k] = left \/ i.args[k] = Popped
    BY <1>15
  <2> QED
    BY <2>1, <1>11, <1>12
<1>23. Open(code, at)
  BY <1>1, <1>3, IsOpen DEF IInv
<1> DEFINE c2 == code'
<1>24. c2 = Emit(<<i>>)
  BY <1>1
<1> HIDE DEF c2, tree, s, r, left
<1>25. /\ CodeMoves(visits, code, at, c2, at, unit, item, D, D)
       /\ Opened(code, at, c2, at, top, Pending(below))
       /\ KnownIn(item, c2, D[at], def)
  BY <1>3, <1>5, <1>8, <1>15, <1>16, <1>17, <1>20, <1>22, <1>23, <1>24, DefinedG
<1>26. ir_code' = Append(s, def) /\ s \in Seq(Value)
  BY <1>1, <1>9, <1>15 DEF s
<1> QED
  BY <1>25, <1>26, <1>1, <1>3, <1>4, <1>5, <1>6, <1>7, <1>8, <1>18, <1>19, <1>20, <1>21,
     ValueG DEF c2, r

-----------------------------------------------------------------------------
(* The types of the arguments of a call, after the function.                 *)
LEMMA CallTyped ==
    ASSUME NEW vs \in Seq(Values), NEW x \in Values, NEW i, i.args = <<x>> \o vs
    PROVE  /\ Tail(ArgTypes(i)) = [a \in DOMAIN vs |-> TypeOf(vs[a])]
           /\ Head(i.args) = x
           /\ \A k \in DOMAIN i.args : i.args[k] = x \/ \E a \in DOMAIN vs : i.args[k] = vs[a]
<1> DEFINE n == Len(vs)
           args == <<x>> \o vs
           types1 == [a \in DOMAIN args |-> TypeOf(args[a])]
<1>1. n \in Nat /\ DOMAIN vs = 1..n
  BY LenProperties
<1>2. <<x>> \in Seq(Values) /\ Len(<<x>>) = 1 /\ <<x>>[1] = x
  OBVIOUS
<1>3. /\ args \in Seq(Values) /\ Len(args) = 1 + n
      /\ \A k \in 1..(1 + n) : args[k] = IF k <= 1 THEN <<x>>[k] ELSE vs[k - 1]
  BY <1>2, ConcatProperties
<1>4. DOMAIN args = 1..(1 + n)
  BY <1>3, LenProperties
<1> HIDE DEF args, n
<1>5. /\ args[1] = x
      /\ \A k \in 1..n : k + 1 \in 1..(1 + n) /\ args[k + 1] = vs[k]
      /\ \A k \in 1..(1 + n) : k = 1 \/ (k - 1 \in 1..n /\ args[k] = vs[k - 1])
  <2>1. /\ 1 \in 1..(1 + n)
        /\ \A k \in 1..n : k + 1 \in 1..(1 + n) /\ ~(k + 1 <= 1) /\ k + 1 - 1 = k
        /\ \A k \in 1..(1 + n) : k = 1 \/ (k - 1 \in 1..n /\ ~(k <= 1))
    BY <1>1
  <2> QED
    BY <2>1, <1>2, <1>3
<1>6. Tail(types1) = [k \in 1..n |-> types1[k + 1]]
  <2> DEFINE S == {types1[a] : a \in 1..(1 + n)}
             m == 1 + n
             rest == Tail(types1)
  <2>1. m \in Nat /\ m - 1 = n /\ m >= 1
    BY <1>1
  <2>2. DOMAIN types1 = 1..m /\ types1 = [a \in 1..m |-> TypeOf(args[a])]
    BY <1>4
  <2> HIDE DEF types1
  <2>3. types1 \in [1..m -> S]
    BY <2>2
  <2> HIDE DEF m, S
  <2>4. types1 \in Seq(S) /\ Len(types1) = m
    BY <2>1, <2>3, LenProperties
  <2>5. types1 # <<>>
    BY <2>1, <2>4
  <2>6. rest \in Seq(S) /\ Len(rest) = n /\ \A k \in 1..Len(rest) : rest[k] = types1[k + 1]
    BY <2>1, <2>4, <2>5, HeadTailProperties
  <2> HIDE DEF rest
  <2>7. rest \in [1..n -> S] /\ \A k \in 1..n : rest[k] = types1[k + 1]
    BY <2>6, LenProperties
  <2>8. rest = [k \in 1..n |-> types1[k + 1]]
    BY <2>7
  <2> QED
    BY <2>8 DEF rest
<1>7. Tail(types1) = [a \in DOMAIN vs |-> TypeOf(vs[a])]
  <2>1. \A k \in 1..n : types1[k + 1] = TypeOf(vs[k])
    BY <1>4, <1>5
  <2> HIDE DEF types1
  <2> QED
    BY <2>1, <1>1, <1>6
<1>8. Head(args) = x
  BY <1>5
<1>9. i.args = args
  BY DEF args
<1>10. ArgTypes(i) = types1
  BY <1>9 DEF ArgTypes
<1>11. \A k \in DOMAIN args : args[k] = x \/ \E a \in DOMAIN vs : args[k] = vs[a]
  BY <1>1, <1>4, <1>5
<1> QED
  BY <1>7, <1>8, <1>9, <1>10, <1>11

(* visit_fn_call ends: the arguments have the types of the parameters. *)
LEMMA CallEndG ==
    ASSUME IInv, SoundInv, FnRefs, visits # <<>>, CallEnd
    PROVE  SoundInv'
<1> SUFFICES ASSUME Handled' PROVE SoundInv'
  BY DEF SoundInv
<1> DEFINE ret == unit[top.fn].ret
           result == IF ret = "()" THEN NoReg ELSE NewReg(ret)
           fn_ref == scope_manager[FnId(top.fn)]
           given == [a \in DOMAIN top.values |-> TypeOf(top.values[a])]
           i == Instr("call", result, <<fn_ref>> \o top.values, <<>>)
           r == unit[item].ret
           tree == <<"call", top.fn, [p \in ToSet(top.args) |->
                           top.trees[Cardinality(ArgsBefore(top.args, p)) + 1]]>>
<1>1. /\ unit' = unit /\ item' = item /\ scope_manager' = scope_manager
      /\ types' = types /\ at' = at
      /\ top.node = "call" /\ ~top.after /\ FnId(top.fn) \in DOMAIN scope_manager
      /\ code' = Emit(<<i>>) /\ ir_code' = ir_code \o CallLeaves(result)
      /\ regs' = IF ret = "()" THEN regs ELSE regs + 1
      /\ current_type' = ret
      /\ Returns(tree)
  BY DEF CallEnd, CallReady, Within, Goes, Runs
<1>2. notes \subseteq notes' /\ ret \in top.want /\ given = unit[top.fn].params
  <2>1. /\ notes \subseteq notes'
        /\ "misused_call" \notin notes' => ret \in top.want /\ given = unit[top.fn].params
    BY DEF CallEnd, Note
  <2> QED
    BY <2>1 DEF Handled
<1> HIDE DEF tree
<1>3. Handled
  BY <1>2, HandledBefore
<1>4. Named
  BY <1>3, SoundInvHas
<1>5. PICK D, H : GoodNow(D, H)
  BY <1>3, SoundInvHas
<1>6. /\ Local(top, unit, r, DOMAIN code) /\ VisitType(top) /\ TypeInv /\ CallOK(top, unit)
      /\ H[Len(visits)] \subseteq D[at] /\ regs \in Nat
      /\ Stands(top, H[Len(visits)], item, r, code, D, at, scope_manager)
      /\ ir_code \in Seq(Value) /\ at \in D[at]
  BY <1>3, <1>5, TopStands DEF IInv, Local, TypeInv
<1>7. /\ \A id \in DOMAIN scope_manager : scope_manager[id] \in Values
      /\ top.fn \in Nat
  BY <1>6 DEF TypeInv, VisitType
<1>8. fn_ref \in Values /\ fn_ref = FnRef(top.fn)
  BY <1>1, <1>7 DEF FnRefs
<1>9. fn_ref[2] = top.fn /\ fn_ref[1] # "reg"
  BY <1>8 DEF FnRef
<1>10. ret \in Types
  BY <1>1, <1>6 DEF CallOK, Signature
<1>11. /\ result \in Value /\ (ret = "()" => TypeOf(result) = "()")
       /\ (ret # "()" => TypeOf(result) = ret /\ result[2] = item)
  <2>1. NoReg \in Value /\ TypeOf(NoReg) = "()"
    BY ValueFacts DEF NoReg
  <2>2. NewReg(ret) \in Value /\ TypeOf(NewReg(ret)) = ret /\ NewReg(ret)[2] = item
    BY <1>6, <1>10, NewRegIs DEF NewReg, Reg
  <2> QED
    BY <2>1, <2>2
<1>12. top.values \in Seq(Values)
  BY <1>6, ValueFacts, SeqMonotonic DEF VisitType
<1>13. \A a \in DOMAIN top.values : KnownIn(item, code, D[at], top.values[a])
  <2> TAKE a \in DOMAIN top.values
  <2> DEFINE x == top.values[a]
  <2>1. x \in ToSet(top.values)
    BY DEF ToSet
  <2>2. x \in Carried(top, scope_manager)
    BY <2>1, <1>1 DEF Carried
  <2>3. KnownIn(item, code, H[Len(visits)], x)
    BY <2>2, <1>6 DEF Stands
  <2> HIDE DEF x
  <2>4. KnownIn(item, code, D[at], x)
    BY <2>3, <1>6, KnownMore
  <2> QED
    BY <2>4 DEF x
<1> HIDE DEF fn_ref, result, r
<1>14. i \in InstrSet /\ i.blocks = <<>> /\ i.op = "call" /\ i.def = result
       /\ i.args = <<fn_ref>> \o top.values
  <2>1. <<fn_ref>> \in Seq(Values)
    BY <1>8
  <2>2. <<fn_ref>> \o top.values \in Seq(Values)
    BY <2>1, <1>12, ConcatProperties
  <2>3. "call" \in InstrOps /\ <<>> \in Seq(Nat)
    BY DEF InstrOps
  <2> QED
    BY <2>2, <2>3, <1>11 DEF Instr, InstrSet
<1> HIDE DEF i
<1>15. /\ Tail(ArgTypes(i)) = given /\ Head(i.args) = fn_ref
       /\ \A k \in DOMAIN i.args :
             i.args[k] = fn_ref \/ \E a \in DOMAIN top.values : i.args[k] = top.values[a]
  <2> DEFINE vs == top.values
             x == fn_ref
  <2>1. vs \in Seq(Values) /\ x \in Values /\ i.args = <<x>> \o vs
    BY <1>8, <1>12, <1>14
  <2> HIDE DEF vs, x
  <2>2. /\ Tail(ArgTypes(i)) = [a \in DOMAIN vs |-> TypeOf(vs[a])]
        /\ Head(i.args) = x
        /\ \A k \in DOMAIN i.args : i.args[k] = x \/ \E a \in DOMAIN vs : i.args[k] = vs[a]
    BY <2>1, CallTyped
  <2> QED
    BY <2>2 DEF vs, x
<1> HIDE DEF given
<1>16. Typed(unit, item, i)
  BY <1>2, <1>9, <1>14, <1>15 DEF Typed
<1>17. \A k \in DOMAIN i.args : KnownIn(item, code, D[at], i.args[k])
  <2>1. KnownIn(item, code, D[at], fn_ref)
    BY <1>9 DEF KnownIn
  <2> QED
    BY <2>1, <1>13, <1>15
<1>18. Open(code, at) /\ Pending(top) = {}
  BY <1>1, <1>3, IsOpen, NoPending DEF IInv
<1>19. i.op # "phi" /\ i.op \notin Terminators
  BY <1>14 DEF Terminators
<1>20. VisitorGoes /\ MapsStay
  <2>1. regs' \in Nat /\ regs <= regs'
    BY <1>1, <1>6
  <2> QED
    BY <2>1, <1>1, <1>2 DEF VisitorGoes, MapsStay
<1>21. top.node \in ExprNodes
  BY <1>1 DEF ExprNodes
<1> DEFINE c2 == code'
<1>22. c2 = Emit(<<i>>)
  BY <1>1
<1> HIDE DEF c2
<1>23. Gives(top, ret)
  BY <1>1, <1>2 DEF Gives
<1> HIDE DEF ret
<1>24. CASE ret # "()"
  <2>1. /\ CodeMoves(visits, code, at, c2, at, unit, item, D, D)
        /\ Opened(code, at, c2, at, top, Pending(below))
        /\ KnownIn(item, c2, D[at], result)
    BY <1>3, <1>5, <1>11, <1>14, <1>16, <1>17, <1>18, <1>19, <1>22, <1>24, DefinedG
  <2>2. ir_code' = Append(ir_code, result)
    <3>1. CallLeaves(result) = <<result>>
      BY <1>11, <1>24 DEF CallLeaves
    <3> QED
      BY <3>1, <1>1, <1>6, <1>11, DatasAppend
  <2>3. ret \in Data
    BY <1>10, <1>24 DEF Types
  <2>4. top.base <= Len(ir_code)
    BY <1>3, StackFact DEF IInv
  <2> QED
    BY <2>1, <2>2, <2>3, <2>4, <1>1, <1>3, <1>4, <1>5, <1>6, <1>11, <1>20, <1>21, <1>23, <1>24,
       ValueG DEF c2, r
<1>25. CASE ret = "()"
  <2> DEFINE w == GivenTree(below, tree)
             P == Pending(below)
  <2>1. top.node # "fn"
    BY <1>1
  <2>2. Ends(visits, visits', w) /\ Gave(below, w)
    BY <2>1, <1>1, GivenBelow
  <2> HIDE DEF w, P
  <2>3. Alike(below, w) /\ w.after /\ (Valued(w) <=> Valued(below))
    BY <2>2 DEF Gave
  <2>4. ~Valued(below)
    <3>1. Valued(below) => top.want \subseteq Data
      BY <2>1, <1>1, <1>3, BelowStack DEF IInv
    <3>2. "()" \notin Data
      BY DEF Data
    <3> QED
      BY <3>1, <3>2, <1>2, <1>25 DEF ret
  <2>5. TopValue(w, item, code', D, at', ir_code', current_type')
    BY <2>3, <2>4 DEF TopValue
  <2>6. /\ CodeMoves(visits, code, at, c2, at, unit, item, D, D)
        /\ Opened(code, at, c2, at, top, P)
    <3>1. ToSet(i.blocks) \subseteq Pending(top)
      <4>1. ToSet(i.blocks) = {}
        BY <1>14, NoBlocks
      <4> QED
        BY <4>1
    <3>2. \A b \in Pending(top) : b = at \/ b \in P
      BY <1>18
    <3>3. at \in DOMAIN code
      BY <1>3, <1>5, TopStands
    <3> QED
      BY <3>1, <3>2, <3>3, <1>3, <1>5, <1>14, <1>16, <1>17, <1>18, <1>19, <1>22, EmitOneMoves
  <2> QED
    BY <2>1, <2>2, <2>3, <2>5, <2>6, <1>1, <1>3, <1>4, <1>5, <1>6, <1>20, ReturnedG DEF c2, P
<1> QED
  BY <1>24, <1>25

-----------------------------------------------------------------------------
(* Two blocks that are not the same. *)
LEMMA PairIs ==
    ASSUME NEW x, NEW y, x # y
    PROVE  ToSet(<<x, y>>) = {x, y} /\ Len(<<x, y>>) = 2 /\ Cardinality({x, y}) = 2
<1>1. IsFiniteSet({x}) /\ Cardinality({x}) = 1
  BY FS_Singleton
<1>2. y \notin {x} /\ {x} \cup {y} = {x, y}
  OBVIOUS
<1>3. Cardinality({x, y}) = 1 + 1
  <2>1. Cardinality({x} \cup {y}) = Cardinality({x}) + 1
    BY <1>1, <1>2, FS_AddElement
  <2> QED
    BY <2>1, <1>1, <1>2
<1>4. ToSet(<<x, y>>) = {x, y}
  BY DEF ToSet
<1> QED
  BY <1>3, <1>4

(* A block gets one instruction. *)
MayStart(c, a, i) ==
    CodeType(c) /\ a \in DOMAIN c /\ i \in InstrSet /\ ToSet(i.blocks) \subseteq DOMAIN c

(* The block a of c2 begins with the instruction i. *)
Starts(c, c2, a, i) ==
    /\ CodeType(c2) /\ DOMAIN c2 = DOMAIN c
    /\ \A b \in DOMAIN c \ {a} : c2[b] = c[b]
    /\ c2[a] = <<i>>

(* The blocks that IfExprElse replaces. *)
LEMMA ReplacedOne ==
    ASSUME NEW c, NEW a, NEW i, MayStart(c, a, i)
    PROVE  \A c2 : c2 = [c EXCEPT ![a] = <<i>>] => Starts(c, c2, a, i)
<1>0. CodeType(c) /\ a \in DOMAIN c /\ i \in InstrSet /\ ToSet(i.blocks) \subseteq DOMAIN c
  BY DEF MayStart
<1> DEFINE is == <<i>>
<1>1. is \in Seq(InstrSet) /\ DOMAIN is = {1} /\ is[1] = i
  BY <1>0
<1>2. \A k \in DOMAIN is : ToSet(is[k].blocks) \subseteq DOMAIN c
  BY <1>0, <1>1
<1> HIDE DEF is
<1>4. ASSUME NEW c2, c2 = [c EXCEPT ![a] = is]
      PROVE  /\ CodeType(c2) /\ DOMAIN c2 = DOMAIN c
             /\ \A b \in DOMAIN c \ {a} : c2[b] = c[b]
             /\ c2[a] = is
  BY <1>0, <1>1, <1>2, <1>4, Replaced
<1> QED
  BY <1>4 DEF is, Starts

(* The second branch of an if expression goes to the block where both end,   *)
(* and that starts with a phi of their values.                               *)
Joins(u, f, c, D, a, br, phi, end, first, x, y) ==
    /\ br \in InstrSet /\ br.op = "br" /\ br.blocks = <<end>> /\ br.args = <<>>
    /\ first \in DOMAIN c /\ first # a /\ Sources(c, end) = {first}
    /\ phi \in InstrSet /\ phi.op = "phi" /\ phi.blocks = <<first, a>> /\ phi.args = <<x, y>>
    /\ Typed(u, f, phi)
    /\ KnownIn(f, c, D[first], x) /\ KnownIn(f, c, D[a], y)

(* It is a step of the code. *)
LEMMA JoinMoves ==
    ASSUME IInv, Handled, visits # <<>>, NEW D, NEW H, GoodNow(D, H), Open(code, at),
           top.node = "if_expr", NEW end, Pending(top) = {end},
           NEW br, NEW phi, NEW first, NEW x, NEW y,
           Joins(unit, item, code, D, at, br, phi, end, first, x, y), NEW P
    PROVE  \A c2 : c2 = [Emit(<<br>>) EXCEPT ![end] = <<phi>>] =>
               /\ CodeMoves(visits, code, at, c2, end, unit, item, D, D)
               /\ Opened(code, at, c2, end, top, P)
               /\ Defines(c2, end, phi.def) /\ end \in DOMAIN code
<1> SUFFICES ASSUME br \in InstrSet, br.op = "br", br.blocks = <<end>>, br.args = <<>>,
                    first \in DOMAIN code, first # at, Sources(code, end) = {first},
                    phi \in InstrSet, phi.op = "phi", phi.blocks = <<first, at>>,
                    phi.args = <<x, y>>, Typed(unit, item, phi),
                    KnownIn(item, code, D[first], x), KnownIn(item, code, D[at], y)
             PROVE  \A c2 : c2 = [Emit(<<br>>) EXCEPT ![end] = <<phi>>] =>
                        /\ CodeMoves(visits, code, at, c2, end, unit, item, D, D)
                        /\ Opened(code, at, c2, end, top, P)
                        /\ Defines(c2, end, phi.def) /\ end \in DOMAIN code
  BY DEF Joins
<1>0. SUFFICES ASSUME NEW c2, c2 = [Emit(<<br>>) EXCEPT ![end] = <<phi>>]
               PROVE  /\ CodeMoves(visits, code, at, c2, end, unit, item, D, D)
                      /\ Opened(code, at, c2, end, top, P)
                      /\ Defines(c2, end, phi.def) /\ end \in DOMAIN code
  OBVIOUS
<1> DEFINE e == Emit(<<br>>)
<1>1. /\ Kept(visits, code, at, unit, item) /\ at \in DOMAIN code /\ CodeType(code)
      /\ Dominators(D, code) /\ \A b \in DOMAIN code : D[b] \subseteq DOMAIN code
  BY TopStands
<1>2. end \in DOMAIN code /\ code[end] = <<>> /\ end # at
  <2>1. Len(visits) \in 1..Len(visits) /\ end \in Pending(visits[Len(visits)])
    BY <1>1, KeptFacts DEF top
  <2> QED
    BY <1>1, <2>1, KeptFacts
<1>3. ToSet(br.blocks) = {end} /\ DOMAIN br.args = {} /\ Typed(unit, item, br)
  <2>1. ToSet(<<end>>) = {end} /\ DOMAIN <<>> = {}
    BY DEF ToSet
  <2> QED
    BY <2>1 DEF Typed
<1>4. /\ CodeMoves(visits, code, at, e, end, unit, item, D, D)
      /\ Opened(code, at, e, end, top, P)
      /\ Targets(e, at) = {end} /\ DOMAIN e = DOMAIN code
  <2>1. br.op # "phi" /\ br.op \in Terminators
    BY DEF Terminators
  <2>2. \A b \in Pending(top) : b = end \/ b \in P
    OBVIOUS
  <2>3. \A k \in DOMAIN br.args : KnownIn(item, code, D[at], br.args[k])
    BY <1>3
  <2> HIDE DEF e
  <2>4. ToSet(br.blocks) \subseteq Pending(top)
    BY <1>3
  <2> QED
    BY <2>1, <2>2, <2>3, <2>4, <1>2, <1>3, EmitOneMoves DEF e
<1>5. Grows(code, e, at)
  <2>1. ToSet(br.blocks) \subseteq DOMAIN code
    BY <1>2, <1>3
  <2> QED
    BY <2>1, <1>1, EmitsOne DEF IInv
<1>6. c2 = [e EXCEPT ![end] = <<phi>>]
  BY <1>0
<1> HIDE DEF e
<1>7. e[end] = <<>>
  BY <1>2, <1>5 DEF Grows
<1>8. /\ CodeStep(code, e, at) /\ CodeType(e) /\ Ending(e)
      /\ NewSound(unit, item, code, e, D) /\ Widens(D, D, code, e, at)
  BY <1>4 DEF CodeMoves, CodeStep
<1>9. /\ CodeType(c2) /\ DOMAIN c2 = DOMAIN code
      /\ \A b \in DOMAIN code \ {end} : c2[b] = e[b]
      /\ c2[end] = <<phi>>
  <2>1. ToSet(phi.blocks) \subseteq DOMAIN e
    <3>1. ToSet(<<first, at>>) = {first, at}
      BY DEF ToSet
    <3> QED
      BY <3>1, <1>1, <1>4
  <2>2. end \in DOMAIN e
    BY <1>2, <1>4
  <2>3. /\ CodeType(c2) /\ DOMAIN c2 = DOMAIN e
        /\ \A b \in DOMAIN e \ {end} : c2[b] = e[b]
        /\ c2[end] = <<phi>>
    <3>1. MayStart(e, end, phi)
      BY <2>1, <2>2, <1>8 DEF MayStart
    <3>2. Starts(e, c2, end, phi)
      BY <3>1, <1>6, ReplacedOne
    <3> QED
      BY <3>2 DEF Starts
  <2> QED
    BY <2>3, <1>4
<1>10. /\ Last(c2[end]) = phi /\ c2[end] # <<>> /\ DOMAIN c2[end] = {1}
       /\ c2[end][1] = phi /\ Len(c2[end]) = 1 /\ phi.op \notin Terminators
  BY <1>9 DEF Last, Terminators
<1>11. \A b \in DOMAIN code : (Open(c2, b) <=> Open(e, b)) /\ Targets(c2, b) = Targets(e, b)
  <2>1. Open(c2, end) /\ Open(e, end)
    BY <1>7, <1>10 DEF Open
  <2>2. ASSUME NEW b \in DOMAIN code \ {end}
        PROVE  (Open(c2, b) <=> Open(e, b)) /\ Targets(c2, b) = Targets(e, b)
    BY <1>9 DEF Open, Targets
  <2> QED
    BY <2>1, <2>2 DEF Targets
<1>12. CodeStep(e, c2, end)
  <2>1. \A b \in DOMAIN e : \A i \in DOMAIN e[b] : i \in DOMAIN c2[b] /\ c2[b][i] = e[b][i]
    BY <1>4, <1>7, <1>9
  <2> QED
    BY <2>1, <1>2, <1>4, <1>8, <1>9, <1>11 DEF CodeStep
<1>13. CodeStep(code, c2, at)
  <2>1. ASSUME NEW b \in DOMAIN code, NEW i \in DOMAIN code[b]
        PROVE  i \in DOMAIN c2[b] /\ c2[b][i] = code[b][i]
    <3>1. b # end
      BY <1>2
    <3>2. i \in DOMAIN e[b] /\ e[b][i] = code[b][i]
      BY <1>8 DEF CodeStep
    <3> QED
      BY <3>1, <3>2, <1>9
  <2> QED
    BY <2>1, <1>1, <1>4, <1>8, <1>9, <1>11 DEF CodeStep
<1>14. Widens(D, D, e, c2, end) /\ Widens(D, D, code, c2, at)
  BY <1>4, <1>8, <1>9 DEF Widens
<1>15. Sources(c2, end) = {first, at} /\ \A b : Sources(c2, b) = Sources(e, b)
  <2>1. Sources(c2, end) = {first} \cup {at}
    <3>1. end \in Targets(c2, at)
      BY <1>1, <1>4, <1>11
    <3> QED
      BY <3>1, <1>13, SourcesGrow
  <2>2. \A b : Sources(c2, b) = Sources(e, b)
    BY <1>4, <1>9, <1>11 DEF Sources
  <2> QED
    BY <2>1, <2>2
<1>16. Sound(unit, item, c2, D, end, 1)
  <2>1. /\ KnownIn(item, c2, D[first], x) /\ KnownIn(item, c2, D[at], y)
    BY <1>1, <1>13, KnownStays
  <2>2. ToSet(phi.blocks) = Sources(c2, end) /\ Len(phi.blocks) = 2
        /\ Cardinality(Sources(c2, end)) = 2
    <3>1. Cardinality({first, at}) = 2 /\ ToSet(<<first, at>>) = {first, at}
          /\ Len(<<first, at>>) = 2
      BY PairIs
    <3> QED
      BY <3>1, <1>15
  <2>3. Len(phi.args) = 2 /\ \A k \in DOMAIN phi.args : k = 1 \/ k = 2
    OBVIOUS
  <2>4. \A k \in DOMAIN phi.args : KnownIn(item, c2, D[phi.blocks[k]], phi.args[k])
    <3>1. phi.args[1] = x /\ phi.args[2] = y /\ phi.blocks[1] = first /\ phi.blocks[2] = at
      OBVIOUS
    <3> QED
      BY <3>1, <2>1, <2>3
  <2>5. PhiKnown(item, c2, D, end, phi)
    BY <2>2, <2>3, <2>4 DEF PhiKnown
  <2> QED
    BY <2>5, <1>10 DEF Sound
<1>17. NewSound(unit, item, code, c2, D)
  <2> SUFFICES ASSUME NEW b \in DOMAIN c2, NEW i \in DOMAIN c2[b],
                      ~(b \in DOMAIN code /\ i \in DOMAIN code[b])
               PROVE  Sound(unit, item, c2, D, b, i)
    BY DEF NewSound
  <2>1. CASE b = end
    BY <2>1, <1>10, <1>16
  <2>2. CASE b # end
    <3>1. b \in DOMAIN e /\ i \in DOMAIN e[b] /\ Sound(unit, item, e, D, b, i)
      BY <2>2, <1>4, <1>8, <1>9 DEF NewSound
    <3> QED
      BY <3>1, <1>12, <1>14, <1>15, SoundStays
  <2> QED
    BY <2>1, <2>2
<1>18. Ending(c2)
  <2>1. \A b \in DOMAIN code \ {end} : \A i \in DOMAIN c2[b] :
           c2[b][i].op \in Terminators => i = Len(c2[b])
    BY <1>4, <1>8, <1>9 DEF Ending
  <2>2. \A i \in DOMAIN c2[end] : c2[end][i].op \in Terminators => i = Len(c2[end])
    BY <1>10
  <2> QED
    BY <2>1, <2>2, <1>9 DEF Ending
<1>19. CodeMoves(visits, code, at, c2, end, unit, item, D, D)
  <2>1. Targets(c2, at) = Targets(e, at)
    BY <1>1, <1>11
  <2> QED
    BY <2>1, <1>2, <1>4, <1>9, <1>13, <1>14, <1>17, <1>18 DEF CodeMoves
<1>20. Opened(code, at, c2, end, top, P)
  BY <1>4, <1>9, <1>11 DEF Opened
<1>21. Defines(c2, end, phi.def)
  BY <1>10 DEF Defines
<1> QED
  BY <1>2, <1>19, <1>20, <1>21

-----------------------------------------------------------------------------
(* visit_if_expr ends: the phi has a value for each branch. *)
LEMMA IfExprElseG ==
    ASSUME IInv, SoundInv, visits # <<>>, IfExprElse
    PROVE  SoundInv'
<1> SUFFICES ASSUME Handled' PROVE SoundInv'
  BY DEF SoundInv
<1> DEFINE phi == NewReg(current_type)
           end == top.blocks[3]
           first == top.blocks[4]
           then == top.values[2]
           br == Instr("br", NoReg, <<>>, <<end>>)
           i == Instr("phi", phi, <<then, Popped>>, <<first, at>>)
           r == unit[item].ret
           tree == <<"if_expr", top.trees[1], top.trees[2], top.trees[3]>>
           s == Front(ir_code)
<1>1. /\ unit' = unit /\ item' = item /\ scope_manager' = scope_manager
      /\ types' = types /\ current_type' = current_type
      /\ top.node = "if_expr" /\ top.after /\ Len(top.trees) = 3 /\ ir_code # <<>>
      /\ ir_code' = Append(s, phi)
      /\ code' = [Emit(<<br>>) EXCEPT ![end] = <<i>>] /\ at' = end
      /\ notes \subseteq notes'
      /\ TypeOf(then) # TypeOf(Popped) => "unequal_branches" \in notes'
      /\ regs' = regs + 1
      /\ Returns(tree)
  BY DEF IfExprElse, At, PartDone, Within, Goes, Runs, Note, Position
<1> HIDE DEF tree
<1>2. Handled
  BY <1>1, HandledBefore
<1>3. Named
  BY <1>2, SoundInvHas
<1>4. PICK D, H : GoodNow(D, H)
  BY <1>2, SoundInvHas
<1>5. /\ Local(top, unit, r, DOMAIN code) /\ VisitType(top) /\ TypeInv
      /\ Stands(top, H[Len(visits)], item, r, code, D, at, scope_manager)
      /\ H[Len(visits)] \subseteq D[at] /\ at \in DOMAIN code /\ CodeType(code)
      /\ ExprParts(top) /\ regs \in Nat /\ current_type \in Types
  BY <1>2, <1>4, TopStands DEF IInv, Local, TypeInv
<1>6. /\ top.values \in Seq(Value) /\ top.blocks \in Seq(Nat) /\ Len(top.trees) \in Nat
  BY <1>5, SeqItems DEF VisitType
<1>7. Part(top) = 2 /\ Len(top.values) = 2 /\ Len(top.blocks) = 4
  <2>1. Part(top) = 2
    BY <1>1, <1>6 DEF Part
  <2> QED
    BY <2>1, <1>1, <1>5 DEF ExprParts, ExprNodes
<1>8. /\ \A k \in 1..2 : top.values[k] \in Value
      /\ \A k \in 1..4 : top.blocks[k] \in Nat
  BY <1>6, <1>7, LenProperties, ElementOfSeq
<1>9. then \in Value /\ then \in Values /\ end \in Nat /\ first \in Nat
  <2>1. 2 \in 1..2 /\ 3 \in 1..4 /\ 4 \in 1..4
    OBVIOUS
  <2> QED
    BY <2>1, <1>8, ValueFacts
<1>10. Pending(top) = {end}
  <2>1. top.blocks # <<>>
    <3>1. Len(top.blocks) = 4 /\ 4 # 0
      BY <1>7
    <3> QED
      BY <3>1, EmptyIs, Zenon
  <2>2. PendingParts(top) = 3..3
    BY <2>1, <1>1, <1>7 DEF PendingParts
  <2>3. 3..3 = {3}
    OBVIOUS
  <2> QED
    BY <2>2, <2>3 DEF Pending
<1>11. /\ Stale = {} /\ top.base < Len(ir_code)
       /\ KnownIn(item, code, D[at], Popped) /\ Popped \in Value /\ Popped \in Values
       /\ current_type = TypeOf(Popped)
  <2>1. Valued(top) /\ ExprPart(top)
    BY <1>1 DEF Valued, ExprPart, ExprNodes
  <2> QED
    BY <2>1, <1>1, <1>2, <1>4, PoppedKnown
<1>12. /\ Sources(code, end) = {first} /\ KnownIn(item, code, D[first], then)
       /\ TypeOf(then) \in top.want
  BY <1>1, <1>5, <1>7 DEF Stands, IfExprStands
<1>13. TypeOf(then) = current_type
  <2>1. TypeOf(then) = TypeOf(Popped)
    BY <1>1 DEF Handled
  <2> QED
    BY <2>1, <1>11
<1>14. current_type \in Data
  <2>1. ExprPart(top) /\ Valued(top)
    BY <1>1 DEF ExprPart, Valued, ExprNodes
  <2> QED
    BY <2>1, <1>1, <1>2, StackFact DEF IInv
<1>15. phi \in Value /\ TypeOf(phi) = current_type /\ phi[2] = item
  BY <1>5, NewRegIs DEF NewReg, Reg
<1>16. s \in Seq(Value) /\ Len(s) = Len(ir_code) - 1 /\ Len(ir_code) \in Nat
  BY <1>1, <1>5, PopFacts
<1>17. top.base <= Len(s)
  <2> DEFINE n == Len(ir_code)
             f == Len(s)
             b == top.base
  <2>1. b < n /\ f = n - 1 /\ n \in Nat /\ b \in Nat
    BY <1>5, <1>11, <1>16 DEF VisitType
  <2> HIDE DEF n, f, b
  <2>2. b <= f
    BY <2>1
  <2> QED
    BY <2>2 DEF b, f
<1>18. Open(code, at)
  BY <1>1, <1>2, IsOpen DEF IInv
<1>19. first \in DOMAIN code /\ first # at
  <2>1. first \in Sources(code, end)
    BY <1>12
  <2>2. Targets(code, at) = {}
    BY <1>18 DEF Targets
  <2> HIDE DEF first, end
  <2> QED
    BY <2>1, <2>2 DEF Sources
<1>20. at \in Nat
  BY <1>5, LenProperties DEF CodeType
<1> HIDE DEF phi, end, first, then, s, r
<1>21. br \in InstrSet /\ br.blocks = <<end>> /\ br.op = "br" /\ br.args = <<>>
  <2>1. <<>> \in Seq(Values) /\ <<end>> \in Seq(Nat) /\ "br" \in InstrOps
    BY <1>9 DEF InstrOps
  <2> QED
    BY <2>1, ValueFacts DEF Instr, InstrSet
<1>22. /\ i \in InstrSet /\ i.blocks = <<first, at>> /\ i.op = "phi"
       /\ i.args = <<then, Popped>> /\ i.def = phi
  <2>1. <<then, Popped>> \in Seq(Values) /\ <<first, at>> \in Seq(Nat) /\ "phi" \in InstrOps
    BY <1>9, <1>11, <1>20 DEF InstrOps
  <2> QED
    BY <2>1, <1>15 DEF Instr, InstrSet
<1> HIDE DEF br, i
<1>23. Typed(unit, item, i)
  <2>1. ArgTypes(i) = <<TypeOf(then), TypeOf(Popped)>>
    BY <1>22 DEF ArgTypes
  <2>2. ToSet(ArgTypes(i)) = {current_type}
    BY <2>1, <1>11, <1>13 DEF ToSet
  <2> QED
    BY <2>2, <1>15, <1>22 DEF Typed
<1> DEFINE c2 == code'
           P == Pending(below)
<1>24. c2 = [Emit(<<br>>) EXCEPT ![end] = <<i>>]
  BY <1>1
<1> HIDE DEF c2, P
<1>25. /\ CodeMoves(visits, code, at, c2, end, unit, item, D, D)
       /\ Opened(code, at, c2, end, top, P)
       /\ Defines(c2, end, phi) /\ end \in DOMAIN code
  <2>1. \A z : z = [Emit(<<br>>) EXCEPT ![end] = <<i>>] =>
             /\ CodeMoves(visits, code, at, z, end, unit, item, D, D)
             /\ Opened(code, at, z, end, top, P)
             /\ Defines(z, end, i.def) /\ end \in DOMAIN code
    <3>1. Joins(unit, item, code, D, at, br, i, end, first, then, Popped)
      BY <1>11, <1>12, <1>19, <1>21, <1>22, <1>23 DEF Joins
    <3> QED
      BY <3>1, <1>1, <1>2, <1>4, <1>10, <1>18, JoinMoves
  <2> QED
    BY <2>1, <1>22, <1>24
<1>26. D[end] = H[Len(visits)] \cup {end}
  BY <1>5, <1>10 DEF Stands
<1>27. KnownIn(item, c2, D[end], phi)
  BY <1>15, <1>25, <1>26 DEF KnownIn
<1>28. Gives(top, current_type) /\ top.node \in ExprNodes
  BY <1>1, <1>12, <1>13 DEF Gives, ExprNodes
<1>29. VisitorGoes /\ MapsStay
  <2>1. regs' \in Nat /\ regs <= regs'
    BY <1>1, <1>5
  <2> QED
    BY <2>1, <1>1 DEF VisitorGoes, MapsStay
<1>30. H[Len(visits)] \subseteq D[at']
  BY <1>1, <1>26
<1>31. /\ CodeMoves(visits, code, at, code', at', unit, item, D, D)
       /\ Opened(code, at, code', at', top, Pending(below))
       /\ KnownIn(item, code', D[at'], phi)
  BY <1>1, <1>25, <1>27 DEF c2, P
<1> QED
  BY <1>1, <1>2, <1>3, <1>4, <1>14, <1>15, <1>16, <1>17, <1>28, <1>29, <1>30, <1>31,
     ValueG DEF r

-----------------------------------------------------------------------------
(* A phi of the values that the branches of an if have left.                 *)
LEMMA PhiMoves ==
    ASSUME IInv, Handled, visits # <<>>, NEW D, NEW H, GoodNow(D, H), Open(code, at),
           Pending(top) = {}, NEW i \in InstrSet, i.op = "phi", Typed(unit, item, i),
           PhiKnown(item, code, D, at, i), NEW c2, c2 = Emit(<<i>>), NEW P
    PROVE  /\ CodeMoves(visits, code, at, c2, at, unit, item, D, D)
           /\ Opened(code, at, c2, at, top, P)
           /\ Defines(c2, at, i.def)
<1>1. /\ CodeType(code) /\ at \in DOMAIN code /\ Dominators(D, code) /\ Ending(code)
      /\ \A b \in DOMAIN code : D[b] \subseteq DOMAIN code
  BY TopStands
<1> DEFINE is == <<i>>
<1>2. /\ is \in Seq(InstrSet) /\ Len(is) = 1 /\ DOMAIN is = 1..1 /\ is # <<>> /\ Last(is) = i
      /\ \A j \in 1..1 : j = 1 /\ is[j] = i
  BY OneIs
<1>3. c2 = [code EXCEPT ![at] = code[at] \o is]
  BY DEF Emit
<1> HIDE DEF is
<1>4. \A j \in DOMAIN is : ToSet(is[j].blocks) \subseteq DOMAIN code
  <2>1. ToSet(i.blocks) \subseteq DOMAIN code
    BY DEF PhiKnown, Sources
  <2> QED
    BY <2>1, <1>2
<1>5. Adds(code, c2, at, is) /\ DOMAIN c2 = DOMAIN code
  <2>1. Puts(code, c2, at, is)
    BY <1>1, <1>2, <1>3, <1>4 DEF Puts
  <2> QED
    BY <2>1, PutsAdds
<1>6. i.op \notin Terminators
  BY DEF Terminators
<1>7. MayAdd(code, at, is)
  BY <1>2, <1>6 DEF MayAdd
<1>8. CodeStep(code, c2, at) /\ Ending(c2) /\ Targets(c2, at) = {}
  <2>1. /\ CodeStep(code, c2, at) /\ Ending(c2)
        /\ Targets(c2, at) = IF is = <<>> THEN Targets(code, at)
                             ELSE IF Last(is).op \in Terminators THEN ToSet(Last(is).blocks)
                             ELSE {}
    BY <1>1, <1>5, <1>7, AddsStep
  <2> QED
    BY <2>1, <1>2, <1>6
<1>9. Widens(D, D, code, c2, at)
  BY <1>1, <1>5 DEF Dominators, Widens
<1> DEFINE m == Len(code[at])
<1>10. /\ m \in Nat /\ DOMAIN code[at] = 1..m /\ DOMAIN c2[at] = 1..(m + 1)
       /\ c2[at][m + 1] = i
  <2>1. AddsAt(code, c2, at, is, m, 1)
    <3>1. AddsAt(code, c2, at, is, m, Len(is))
      BY <1>5, AddsFacts
    <3> HIDE DEF m
    <3> QED
      BY <3>1, <1>2
  <2> HIDE DEF m
  <2>2. 1 \in 1..1
    OBVIOUS
  <2> QED
    BY <2>1, <2>2, <1>2 DEF AddsAt
<1> HIDE DEF m
<1>11. Sources(c2, at) = Sources(code, at)
  BY <1>8, SourcesStay
<1>12. Sound(unit, item, c2, D, at, m + 1)
  <2>1. i.blocks \in Seq(Nat) /\ i.args \in Seq(Values)
    BY DEF InstrSet
  <2>2. DOMAIN i.args = DOMAIN i.blocks
    BY <2>1, LenProperties DEF PhiKnown
  <2>3. ASSUME NEW k \in DOMAIN i.args PROVE KnownIn(item, c2, D[i.blocks[k]], i.args[k])
    <3>1. i.blocks[k] \in DOMAIN code
      BY <2>2 DEF PhiKnown, ToSet, Sources
    <3>2. KnownIn(item, code, D[i.blocks[k]], i.args[k])
      BY DEF PhiKnown
    <3> QED
      BY <3>1, <3>2, <1>1, <1>8, KnownStays
  <2>4. PhiKnown(item, c2, D, at, i)
    BY <2>3, <1>11 DEF PhiKnown
  <2> QED
    BY <2>4, <1>10 DEF Sound
<1>13. NewSound(unit, item, code, c2, D)
  <2> SUFFICES ASSUME NEW b \in DOMAIN c2, NEW j \in DOMAIN c2[b],
                      ~(b \in DOMAIN code /\ j \in DOMAIN code[b])
               PROVE  Sound(unit, item, c2, D, b, j)
    BY DEF NewSound
  <2>1. b = at
    BY <1>5 DEF Adds, Grows
  <2>2. j = m + 1
    BY <2>1, <1>5, <1>10
  <2> QED
    BY <2>1, <2>2, <1>12
<1>14. CodeMoves(visits, code, at, c2, at, unit, item, D, D)
  BY <1>1, <1>5, <1>8, <1>9, <1>13 DEF CodeMoves
<1>15. Opened(code, at, c2, at, top, P)
  BY <1>5, AddsOpened
<1>16. Defines(c2, at, i.def)
  <2>1. m + 1 \in DOMAIN c2[at]
    BY <1>10
  <2> QED
    BY <2>1, <1>10 DEF Defines
<1> QED
  BY <1>14, <1>15, <1>16

(* They come from different blocks. *)
LEMMA PhiBlocksAre ==
    ASSUME VisitsInv, ShapeInv, visits # <<>>, top.node = "if", top.source
    PROVE  /\ PhiBlocks \in Seq(Nat) /\ Len(PhiBlocks) = top.branches + 1
           /\ DOMAIN PhiBlocks = 1..(top.branches + 1)
           /\ \A k \in 1..(top.branches + 1) : PhiBlocks[k] = PhiBlock(top, k)
<1> DEFINE b == top.branches
           m == Len(top.blocks)
           f == [k \in 1..b |-> top.blocks[2 * k - 1]]
           l == top.blocks[m - 1]
<1>1. /\ b \in Nat /\ m = 2 * b + 1 /\ b >= 1
      /\ \A k \in 1..m : top.blocks[k] \in Nat
  BY IfFacts
<1> HIDE DEF b, m
<1>2. m - 1 \in 1..m /\ (\A k \in 1..b : 2 * k - 1 \in 1..m) /\ m - 1 = 2 * b
  BY <1>1
<1>3. f \in [1..b -> Nat] /\ l \in Nat /\ \A k \in 1..b : f[k] = top.blocks[2 * k - 1]
  BY <1>1, <1>2
<1>4. PhiBlocks = Append(f, l)
  <2>1. PhiBlocks = f \o <<l>>
    BY DEF PhiBlocks, b, m
  <2> HIDE DEF f, l
  <2>2. f \in Seq(Nat)
    BY <1>1, <1>3
  <2> QED
    BY <2>1, <2>2, <1>3, AppendIsConcat
<1> HIDE DEF f
<1>5. f \in Seq(Nat) /\ Len(f) = b
  BY <1>1, <1>3, LenProperties
<1>6. /\ Append(f, l) \in Seq(Nat) /\ Len(Append(f, l)) = b + 1
      /\ \A k \in 1..b : Append(f, l)[k] = f[k]
      /\ Append(f, l)[b + 1] = l
  BY <1>1, <1>3, <1>5, AppendItem
<1> DEFINE q == Append(f, l)
<1>7. DOMAIN q = 1..(b + 1)
  BY <1>6, LenProperties
<1>9. \A k \in 1..b : q[k] = f[k]
  BY <1>6
<1>10. q[b + 1] = l
  BY <1>6
<1>11. q \in Seq(Nat) /\ Len(q) = b + 1 /\ PhiBlocks = q
  BY <1>4, <1>6
<1> HIDE DEF q
<1>8. ASSUME NEW k \in 1..(b + 1) PROVE q[k] = PhiBlock(top, k)
  <2>1. CASE k \in 1..b
    <3>1. k <= b
      BY <2>1, <1>1
    <3> QED
      BY <2>1, <3>1, <1>3, <1>9 DEF PhiBlock, b
  <2>2. CASE k = b + 1
    <3>1. ~(k <= b)
      BY <2>2, <1>1
    <3>2. PhiBlock(top, k) = top.blocks[2 * b]
      BY <3>1 DEF PhiBlock, b
    <3>3. l = top.blocks[2 * b]
      BY <1>2
    <3> HIDE DEF l
    <3> QED
      BY <2>2, <3>2, <3>3, <1>10
  <2> QED
    BY <2>1, <2>2, <1>1
<1> QED
  BY <1>7, <1>8, <1>11 DEF b

(* As many as they are. *)
LEMMA PhiBlocksCount ==
    ASSUME VisitsInv, ShapeInv, visits # <<>>, top.node = "if", top.source,
           \A i, j \in DOMAIN top.blocks : top.blocks[i] = top.blocks[j] => i = j
    PROVE  LET n == top.branches + 1
           IN /\ n \in Nat
              /\ Cardinality({PhiBlock(top, k) : k \in 1..n}) = n
              /\ ToSet(PhiBlocks) = {PhiBlock(top, k) : k \in 1..n}
<1> DEFINE b == top.branches
           n == b + 1
           m == Len(top.blocks)
           S == {PhiBlock(top, k) : k \in 1..n}
           g == [k \in 1..n |-> PhiBlock(top, k)]
           at1(k) == IF k <= b THEN 2 * k - 1 ELSE 2 * b
<1>1. /\ b \in Nat /\ m = 2 * b + 1 /\ b >= 1 /\ DOMAIN top.blocks = 1..m
  BY IfFacts
<1>2. \A k : PhiBlock(top, k) = top.blocks[at1(k)]
  BY DEF PhiBlock
<1> HIDE DEF b, m
<1>3. /\ \A k \in 1..n : at1(k) \in 1..m
      /\ \A j, k \in 1..n : at1(j) = at1(k) => j = k
  BY <1>1
<1> HIDE DEF at1
<1>4. \A j, k \in 1..n : g[j] = g[k] => j = k
  BY <1>1, <1>2, <1>3
<1>5. g \in [1..n -> S] /\ \A s \in S : \E k \in 1..n : g[k] = s
  OBVIOUS
<1>6. n \in Nat
  BY <1>1
<1>7. Cardinality(S) = n
  <2> HIDE DEF S, n
  <2> HIDE DEF g
  <2>1. g \in Bijection(1..n, S)
    BY <1>4, <1>5 DEF Bijection, Injection, Surjection, IsInjective
  <2> QED
    BY <2>1, <1>6, FS_CountingElements DEF ExistsBijection
<1>8. ToSet(PhiBlocks) = S
  <2>1. /\ DOMAIN PhiBlocks = 1..n /\ \A k \in 1..n : PhiBlocks[k] = PhiBlock(top, k)
    BY PhiBlocksAre DEF b
  <2> QED
    BY <2>1 DEF ToSet
<1> QED
  BY <1>6, <1>7, <1>8 DEF b

-----------------------------------------------------------------------------
(* visit_if_block ends: so has its phi. *)
LEMMA IfEndG ==
    ASSUME IInv, SoundInv, visits # <<>>, IfEnd
    PROVE  SoundInv'
<1> SUFFICES ASSUME Handled' PROVE SoundInv'
  BY DEF SoundInv
<1> DEFINE r == unit[item].ret
           t == type_of
           phi == NewReg(t)
           i == Instr("phi", phi, top.values, PhiBlocks)
           n == Len(top.trees)
           tree == <<"if", top.branches, top.trees>>
<1>1. /\ unit' = unit /\ item' = item /\ scope_manager' = scope_manager
      /\ types' = types /\ at' = at /\ notes' = notes
      /\ top.node = "if" /\ ~top.after /\ n = Len(top.blocks)
      /\ top.source => /\ code' = Emit(<<i>>) /\ regs' = regs + 1
                       /\ ir_code' = Append(ir_code, phi) /\ current_type' = t
      /\ ~top.source => /\ code' = code /\ regs' = regs /\ ir_code' = ir_code
                        /\ current_type' = current_type
      /\ Returns(tree)
  BY DEF IfEnd, PartNext, Within, Goes, Runs
<1> HIDE DEF tree
<1>2. Handled
  BY <1>1, HandledBefore
<1>3. Named
  BY <1>2, SoundInvHas
<1>4. PICK D, H : GoodNow(D, H)
  BY <1>2, SoundInvHas
<1>5. /\ Local(top, unit, r, DOMAIN code) /\ VisitType(top) /\ TypeInv /\ Flags(top, r)
      /\ Stands(top, H[Len(visits)], item, r, code, D, at, scope_manager)
      /\ H[Len(visits)] \subseteq D[at] /\ regs \in Nat /\ ir_code \in Seq(Value)
      /\ at \in D[at] /\ Wanted(top, r)
  BY <1>2, <1>4, TopStands DEF IInv, Local, TypeInv
<1>13. top.source => top.want = {t} /\ t \in Data /\ t \in Types
  <2>1. top.source => Sourced(top)
    BY <1>1, <1>2, BelowStack DEF IInv
  <2>2. top.source => \E type \in Types : top.want = {type}
    BY <1>5 DEF Flags
  <2> QED
    BY <2>1, <2>2 DEF type_of, Sourced
<1> HIDE DEF t
<1>6. /\ n \in Nat /\ n <= 2 * top.branches + 1 /\ top.branches \in Nat
      /\ top.source => n = 2 * top.branches + 1
      /\ DOMAIN top.blocks = 1..n /\ n >= 2 * top.branches /\ top.branches >= 1
  BY <1>1, IfFacts DEF IInv
<1>7. Part(top) = n /\ ~CondPart(top)
  <2>1. Part(top) = n
    BY <1>1 DEF Part
  <2> HIDE DEF n
  <2>2. ~(n < 2 * top.branches)
    BY <1>6
  <2> QED
    BY <2>1, <2>2 DEF CondPart
<1>8. Pending(top) = {}
  <2>1. PendingParts(top) = (n + 1)..n
    BY <1>1, <1>7 DEF PendingParts
  <2> HIDE DEF n
  <2>2. (n + 1)..n = {}
    BY <1>6
  <2> QED
    BY <2>1, <2>2 DEF Pending
<1>9. Open(code, at)
  BY <1>1, <1>2, IsOpen DEF IInv
<1>10. VisitorGoes /\ MapsStay
  <2>1. regs' \in Nat /\ regs <= regs'
    BY <1>1, <1>5 DEF VisitType
  <2> QED
    BY <2>1, <1>1 DEF VisitorGoes, MapsStay
<1> DEFINE P == Pending(below)
           c2 == code'
<1>11. CASE ~top.source
  <2> DEFINE w == GivenTree(below, tree)
  <2>1. Ends(visits, visits', w) /\ Gave(below, w) /\ Linked(below, top)
    BY <1>1, GivenBelow
  <2> HIDE DEF w
  <2>2. Alike(below, w) /\ w.after /\ (Valued(w) <=> Valued(below))
    BY <2>1 DEF Gave
  <2>3. ~Valued(below)
    BY <1>1, <1>11, StatementOfBlock DEF IInv, Sourced
  <2>4. TopValue(w, item, code', D, at', ir_code', current_type')
    BY <2>2, <2>3 DEF TopValue
  <2>5. /\ CodeMoves(visits, code, at, code, at, unit, item, D, D)
        /\ Opened(code, at, code, at, top, P)
    <3> HIDE DEF P
    <3>1. Pending(top) \subseteq P
      BY <1>8
    <3> QED
      BY <3>1, <1>2, <1>4, UnchangedG
  <2>6. /\ CodeMoves(visits, code, at, code', at', unit, item, D, D)
        /\ Opened(code, at, code', at', top, Pending(below))
        /\ H[Len(visits)] \subseteq D[at']
    BY <2>5, <1>1, <1>5, <1>11
  <2> QED
    BY <2>1, <2>2, <2>4, <2>6, <1>1, <1>2, <1>3, <1>4, <1>10, ReturnedG
<1>12. CASE top.source
  <2> DEFINE b == top.branches + 1
  <2>1. IfStands(top, item, code, D, at)
    BY <1>5 DEF Stands
  <2>2. BodiesDone(top) = b
    BY <1>6, <1>7, <1>12 DEF BodiesDone
  <2>3. /\ \A x, y \in DOMAIN top.blocks : top.blocks[x] = top.blocks[y] => x = y
        /\ Len(top.values) = b
        /\ Sources(code, Last(top.blocks)) = {PhiBlock(top, k) : k \in 1..b}
        /\ \A k \in 1..b : /\ KnownIn(item, code, D[PhiBlock(top, k)], top.values[k])
                           /\ TypeOf(top.values[k]) = t
        /\ at = top.blocks[n]
    BY <2>1, <2>2, <1>1, <1>7, <1>12, <1>13 DEF IfStands
  <2>4. at = Last(top.blocks)
    BY <2>3, <1>1 DEF Last
  <2>5. /\ PhiBlocks \in Seq(Nat) /\ Len(PhiBlocks) = b /\ DOMAIN PhiBlocks = 1..b
        /\ \A k \in 1..b : PhiBlocks[k] = PhiBlock(top, k)
    BY <1>1, <1>12, PhiBlocksAre DEF IInv
  <2>6. /\ b \in Nat /\ Cardinality({PhiBlock(top, k) : k \in 1..b}) = b
        /\ ToSet(PhiBlocks) = {PhiBlock(top, k) : k \in 1..b}
    BY <2>3, <1>1, <1>12, PhiBlocksCount DEF IInv
  <2>7. t \in Data /\ t \in Types
    BY <1>12, <1>13
  <2>8. phi \in Value /\ TypeOf(phi) = t /\ phi[2] = item
    BY <2>7, <1>5, NewRegIs DEF NewReg, Reg
  <2>9. top.values \in Seq(Values) /\ DOMAIN top.values = 1..b
    <3>1. top.values \in Seq(Value)
      BY <1>5 DEF VisitType
    <3>2. top.values \in Seq(Values)
      BY <3>1, ValueFacts, SeqMonotonic
    <3> QED
      BY <3>1, <3>2, <2>3, LenProperties
  <2> HIDE DEF phi, b
  <2>10. /\ i \in InstrSet /\ i.blocks = PhiBlocks /\ i.op = "phi" /\ i.args = top.values
         /\ i.def = phi
    <3>1. "phi" \in InstrOps
      BY DEF InstrOps
    <3> QED
      BY <3>1, <2>5, <2>8, <2>9 DEF Instr, InstrSet
  <2> HIDE DEF i
  <2>11. Typed(unit, item, i)
    <3>1. ArgTypes(i) = [a \in 1..b |-> TypeOf(top.values[a])]
      BY <2>9, <2>10 DEF ArgTypes
    <3>2. 1 \in 1..b
      <4>1. b >= 1
        BY <1>6 DEF b
      <4> QED
        BY <4>1, <2>6
    <3>3. ToSet(ArgTypes(i)) = {t}
      BY <3>1, <3>2, <2>3 DEF ToSet
    <3> QED
      BY <3>3, <2>8, <2>10 DEF Typed
  <2>12. PhiKnown(item, code, D, at, i)
    <3>1. \A k \in DOMAIN i.args : KnownIn(item, code, D[i.blocks[k]], i.args[k])
      BY <2>3, <2>5, <2>9, <2>10
    <3> QED
      BY <3>1, <2>3, <2>4, <2>5, <2>6, <2>10 DEF PhiKnown
  <2>13. /\ CodeMoves(visits, code, at, c2, at, unit, item, D, D)
         /\ Opened(code, at, c2, at, top, P)
         /\ Defines(c2, at, phi)
    <3>1. c2 = Emit(<<i>>)
      BY <1>1, <1>12
    <3> HIDE DEF c2, P
    <3> QED
      BY <3>1, <2>10, <2>11, <2>12, <1>2, <1>4, <1>8, <1>9, PhiMoves
  <2>14. KnownIn(item, c2, D[at], phi)
    <3> HIDE DEF c2
    <3> QED
      BY <2>8, <2>13, <1>5 DEF KnownIn
  <2>15. /\ CodeMoves(visits, code, at, code', at', unit, item, D, D)
         /\ Opened(code, at, code', at', top, Pending(below))
         /\ KnownIn(item, code', D[at'], phi) /\ H[Len(visits)] \subseteq D[at']
    BY <2>13, <2>14, <1>1, <1>5
  <2>16. top.base <= Len(ir_code)
    BY <1>2, StackFact DEF IInv
  <2>17. Gives(top, t)
    BY <1>1, <1>12, <1>13 DEF Gives
  <2>18. ir_code' = Append(ir_code, phi) /\ current_type' = TypeOf(phi)
         /\ top.node \notin {"fn", "let", "return"}
    BY <2>8, <1>1, <1>12
  <2> QED
    BY <2>7, <2>8, <2>15, <2>16, <2>17, <2>18, <1>1, <1>2, <1>3, <1>4, <1>5, <1>10, ValueLeftG
<1> QED
  BY <1>11, <1>12

-----------------------------------------------------------------------------
(* visit_block ends. *)
LEMMA BlockEndG ==
    ASSUME IInv, SoundInv, visits # <<>>, BlockEnd
    PROVE  SoundInv'
<1> SUFFICES ASSUME Handled' PROVE SoundInv'
  BY DEF SoundInv
<1> DEFINE r == unit[item].ret
           o == below
           k == IF top.last THEN top.base ELSE o.base
           p == [o EXCEPT !.base = k]
           tree == <<"block", top.trees>>
           w == GivenTree(p, tree)
           parent == Len(visits) - 1
           f == Front(visits)
<1>1. /\ unit' = unit /\ item' = item /\ scope_manager' = scope_manager
      /\ types' = types /\ at' = at /\ code' = code /\ regs' = regs /\ ir_code' = ir_code
      /\ notes' = notes /\ top.node = "block" /\ top.last = top.source
      /\ visits' = Leave([f EXCEPT ![parent].base = IF top.last THEN top.base ELSE @], tree)
  BY DEF BlockEnd, Within, Goes, Runs, builder
<1> HIDE DEF tree
<1>2. Handled
  BY <1>1, HandledBefore
<1>3. Named
  BY <1>2, SoundInvHas
<1>4. PICK D, H : GoodNow(D, H)
  BY <1>2, SoundInvHas
<1>5. /\ Local(top, unit, r, DOMAIN code) /\ VisitType(top) /\ TypeInv /\ Flags(top, r)
      /\ H[Len(visits)] \subseteq D[at] /\ regs \in Nat
      /\ TopValue(top, item, code, D, at, ir_code, current_type)
      /\ IsSeq(visits) /\ Len(visits) \in Nat /\ (top.last => top.after)
  BY <1>2, <1>4, TopStands, TopFacts DEF IInv, Local, TypeInv, VisitsInv
<1>6. /\ VisitType(below) /\ Len(visits) >= 2 /\ Linked(below, top)
  BY <1>1, BelowReady DEF IInv
<1>7. k \in Nat /\ VisitType(o) /\ top.last \in BOOLEAN
  BY <1>5, <1>6 DEF VisitType
<1> HIDE DEF o, k
<1>8. /\ VisitType(p) /\ SameVisit(o, p) /\ p.trees = o.trees /\ p.after = o.after
      /\ p.values = o.values /\ p.blocks = o.blocks /\ p.last = o.last
      /\ p.declared = o.declared /\ p.base = k
  BY <1>7 DEF VisitType, SameVisit
<1>9. visits' = Leave([f EXCEPT ![parent] = p], tree)
  <2>1. f[parent] = o
    <3>1. \A j \in 1..(Len(visits) - 1) : f[j] = visits[j]
      BY <1>5, SeqFront
    <3>2. Len(visits) - 1 \in 1..(Len(visits) - 1)
      BY <1>5, <1>6
    <3> QED
      BY <3>1, <3>2 DEF below, o
  <2>2. [f EXCEPT ![parent].base = IF top.last THEN top.base ELSE @] =
            [f EXCEPT ![parent] = [f[parent] EXCEPT !.base = IF top.last THEN top.base ELSE @]]
    OBVIOUS
  <2>3. [o EXCEPT !.base = IF top.last THEN top.base ELSE @] = p
    BY DEF k
  <2> HIDE DEF f, p
  <2> QED
    BY <2>1, <2>2, <2>3, <1>1
<1> HIDE DEF p
<1>10. Ends(visits, visits', w)
  <2> HIDE DEF w
  <2>1. Ends(visits, Leave([Front(visits) EXCEPT ![Len(visits) - 1] = p], tree), GivenTree(p, tree))
    BY <1>5, <1>6, <1>8, EndLeaves
  <2> QED
    BY <2>1, <1>9 DEF w
<1>11. /\ p.node = below.node /\ p.op = below.op /\ p.want = below.want
       /\ p.source = below.source /\ p.branches = below.branches
       /\ p.trees = below.trees /\ p.after = below.after /\ p.last = below.last
  BY <1>8 DEF SameVisit, o
<1>12. Gave(p, w)
  <2>1. p.node # "block" => ~p.after
    BY <1>6, <1>11 DEF Linked
  <2> QED
    BY <2>1, <1>8, GivenFacts
<1> HIDE DEF w
<1>13. Part(p) = Part(below)
  BY <1>11 DEF Part
<1>14. Alike(below, p)
  BY <1>8, <1>13 DEF Alike, o
<1>15. Alike(below, w) /\ w.after /\ w.base = k
  <2>1. SameVisit(below, w)
    BY <1>8, <1>12 DEF Gave, SameVisit, o
  <2>2. /\ Alike(p, w) /\ w.after /\ w.base = p.base
    BY <1>12 DEF Gave
  <2> QED
    BY <2>1, <2>2, <1>8, <1>11, <1>14 DEF Alike
<1>16. /\ below.node \in {"block", "fn", "if"}
       /\ below.node = "block" => top.source = below.last
       /\ below.node = "fn" => (below.source => top.source)
       /\ below.node = "if" => ~CondPart(below) /\ top.source = below.source
       /\ top.source => top.want = below.want
  BY <1>1, <1>6 DEF Linked
<1>17. /\ ~ExprPart(w) /\ (Valued(w) <=> Valued(below))
       /\ Valued(below) => top.last /\ Sourced(top)
  <2>1. CondPart(p) <=> CondPart(below)
    BY <1>11, <1>13 DEF CondPart
  <2>2. ~ExprPart(p)
    BY <2>1, <1>11, <1>16 DEF ExprPart, CondPart, ExprNodes
  <2>3. Valued(p) <=> Valued(below)
    BY <2>1, <1>11 DEF Valued, Sourced
  <2>4. ASSUME Valued(below) PROVE top.source
    BY <2>4, <1>16 DEF Valued, Sourced, CondPart, ExprNodes
  <2>5. ASSUME Valued(below) PROVE Sourced(top)
    BY <2>4, <2>5, <1>16 DEF Valued, Sourced, CondPart, ExprNodes
  <2> QED
    BY <2>2, <2>3, <2>4, <2>5, <1>1, <1>12 DEF Gave
<1> DEFINE x == TypeOf(Last(ir_code))
<1>18. Valued(below) => /\ k = top.base
                        /\ \/ x \in top.want /\ KnownIn(item, code, D[at], Last(ir_code))
                           \/ ~(top.base < Len(ir_code))
                        /\ top.base < Len(ir_code) \/ ~Open(code, at)
  <2> SUFFICES ASSUME Valued(below)
               PROVE  /\ k = top.base
                      /\ \/ x \in top.want /\ KnownIn(item, code, D[at], Last(ir_code))
                         \/ ~(top.base < Len(ir_code))
                      /\ top.base < Len(ir_code) \/ ~Open(code, at)
    OBVIOUS
  <2>1. Valued(top) /\ top.after /\ top.last
    BY <1>1, <1>5, <1>17 DEF Valued
  <2> HIDE DEF x
  <2>2. IF top.base < Len(ir_code)
        THEN KnownIn(item, code, D[at], Last(ir_code)) /\ Takes(top, x)
        ELSE ~Open(code, at)
    BY <2>1, <1>5 DEF TopValue, x
  <2> QED
    BY <2>1, <2>2, <1>1 DEF Takes, k
<1> HIDE DEF x
<1>20. Valued(below) /\ x \in top.want => Takes(w, x)
  <2> SUFFICES ASSUME Valued(below), x \in top.want PROVE Takes(w, x)
    OBVIOUS
  <2>1. Feeds(below, top)
    BY <1>1, <1>2, <1>4, FedBelow
  <2>2. Gives(top, x) /\ x \in Data
    BY <1>1, <1>17 DEF Gives, Sourced
  <2>3. Takes(below, x)
    BY <2>1, <2>2, <1>1, <1>17 DEF Feeds
  <2> DEFINE b == below
  <2>4. Alike(b, w) /\ Takes(b, x)
    BY <2>3, <1>15
  <2> HIDE DEF b
  <2> QED
    BY <2>4, AlikeTakes
<1>21. TopValue(w, item, code, D, at, ir_code, current_type')
  BY <1>15, <1>17, <1>18, <1>20 DEF TopValue, x
<1> DEFINE P == Pending(below)
<1>22. /\ CodeMoves(visits, code, at, code, at, unit, item, D, D)
       /\ Opened(code, at, code, at, top, P)
  <2> HIDE DEF P
  <2>1. Pending(top) \subseteq P
    BY <1>1, NoPending
  <2> QED
    BY <2>1, <1>2, <1>4, UnchangedG
<1>23. /\ CodeMoves(visits, code, at, code', at', unit, item, D, D)
       /\ Opened(code, at, code', at', top, Pending(below))
       /\ H[Len(visits)] \subseteq D[at']
       /\ TopValue(w, item, code', D, at', ir_code', current_type')
  BY <1>1, <1>5, <1>21, <1>22
<1>24. VisitorGoes /\ MapsStay
  BY <1>1, <1>5 DEF VisitorGoes, MapsStay
<1>25. top.node # "fn"
  BY <1>1
<1> QED
  BY <1>2, <1>3, <1>4, <1>10, <1>15, <1>23, <1>24, <1>25, ReturnedG

-----------------------------------------------------------------------------
(* An expression that is a statement ends. *)
LEMMA ExprStmtEndG ==
    ASSUME IInv, SoundInv, visits # <<>>, ExprStmtEnd
    PROVE  SoundInv'
<1> SUFFICES ASSUME Handled' PROVE SoundInv'
  BY DEF SoundInv
<1> DEFINE r == unit[item].ret
           tree == <<"expr", top.trees[1]>>
           w == GivenTree(below, tree)
<1>1. /\ unit' = unit /\ item' = item /\ scope_manager' = scope_manager
      /\ types' = types /\ at' = at /\ code' = code /\ regs' = regs /\ ir_code' = ir_code
      /\ current_type' = current_type /\ notes \subseteq notes'
      /\ top.node = "stmt" /\ top.after /\ Returns(tree)
  BY DEF ExprStmtEnd, At, PartDone, Within, Goes, Runs, builder, Note
<1> HIDE DEF tree
<1>2. Handled
  BY <1>1, HandledBefore
<1>3. Named
  BY <1>2, SoundInvHas
<1>4. PICK D, H : GoodNow(D, H)
  BY <1>2, SoundInvHas
<1>5. /\ TypeInv /\ regs \in Nat /\ H[Len(visits)] \subseteq D[at]
      /\ TopValue(top, item, code, D, at, ir_code, current_type) /\ Flags(top, r)
  BY <1>2, <1>4, TopStands DEF IInv, TypeInv, Local
<1>6. Ends(visits, visits', w) /\ Gave(below, w) /\ Linked(below, top) /\ VisitType(below)
  BY <1>1, GivenBelow
<1> HIDE DEF w
<1>7. Alike(below, w) /\ w.after /\ w.base = below.base /\ (Valued(w) <=> Valued(below))
      /\ (ExprPart(w) <=> ExprPart(below))
  BY <1>6 DEF Gave
<1>9. (Valued(below) <=> Sourced(top)) /\ ~ExprPart(below)
  BY <1>1, StatementOfBlock DEF IInv
<1> DEFINE x == TypeOf(Last(ir_code))
<1>10. Open(code, at)
  BY <1>1, <1>2, IsOpen DEF IInv
<1>11. ASSUME Sourced(top)
       PROVE  /\ w.base < Len(ir_code)
              /\ KnownIn(item, code, D[at], Last(ir_code))
              /\ Takes(w, TypeOf(Last(ir_code)))
  <2>1. Valued(top)
    BY <1>1, <1>11 DEF Valued
  <2>2. top.base < Len(ir_code) /\ x \in top.want
        /\ KnownIn(item, code, D[at], Last(ir_code))
    BY <2>1, <1>1, <1>5, <1>10 DEF TopValue, Takes
  <2>3. w.base < Len(ir_code)
    <3> DEFINE n == Len(ir_code)
               b == w.base
               t == top.base
    <3>1. b \in Nat /\ t \in Nat /\ n \in Nat /\ b <= t /\ t < n
      BY <2>2, <1>1, <1>2, <1>7, BelowStack, StackFact DEF IInv
    <3> HIDE DEF n, b, t
    <3>2. b < n
      BY <3>1
    <3> QED
      BY <3>2 DEF n, b
  <2>4. Takes(w, x)
    <3> HIDE DEF x
    <3>1. Feeds(below, top)
      BY <1>1, <1>2, <1>4, FedBelow
    <3>2. Gives(top, x) /\ x \in Data
      BY <2>2, <1>1, <1>11 DEF Gives, Sourced
    <3>3. Takes(below, x)
      BY <3>1, <3>2, <1>1, <1>9, <1>11 DEF Feeds
    <3> DEFINE b == below
    <3>4. Alike(b, w) /\ Takes(b, x)
      BY <3>3, <1>7
    <3> HIDE DEF b
    <3> QED
      BY <3>4, AlikeTakes
  <2> QED
    BY <2>2, <2>3, <2>4
<1>12. TopValue(w, item, code, D, at, ir_code, current_type)
  BY <1>7, <1>9, <1>11 DEF TopValue
<1> DEFINE P == Pending(below)
<1>13. /\ CodeMoves(visits, code, at, code, at, unit, item, D, D)
       /\ Opened(code, at, code, at, top, P)
  <2> HIDE DEF P
  <2>1. Pending(top) \subseteq P
    BY <1>1, NoPending
  <2> QED
    BY <2>1, <1>2, <1>4, UnchangedG
<1>14. /\ CodeMoves(visits, code, at, code', at', unit, item, D, D)
       /\ Opened(code, at, code', at', top, Pending(below))
       /\ H[Len(visits)] \subseteq D[at']
       /\ TopValue(w, item, code', D, at', ir_code', current_type')
  BY <1>1, <1>5, <1>12, <1>13
<1>15. VisitorGoes /\ MapsStay
  BY <1>1, <1>5 DEF VisitorGoes, MapsStay
<1>16. top.node # "fn"
  BY <1>1
<1> QED
  BY <1>2, <1>3, <1>4, <1>6, <1>7, <1>14, <1>15, <1>16, ReturnedG

(* visit_return ends its block, and only where the function ends. *)
LEMMA ReturnEndG ==
    ASSUME IInv, SoundInv, visits # <<>>, ReturnEnd
    PROVE  SoundInv'
<1> SUFFICES ASSUME Handled' PROVE SoundInv'
  BY DEF SoundInv
<1> DEFINE r == unit[item].ret
           i == Instr("ret", NoReg, <<Popped>>, <<>>)
           tree == <<"return", top.trees[1]>>
           w == GivenTree(below, tree)
<1>1. /\ unit' = unit /\ item' = item /\ scope_manager' = scope_manager
      /\ types' = types /\ at' = at /\ code' = Emit(<<i>>) /\ regs' = regs
      /\ ir_code # <<>> /\ ir_code' = Front(ir_code) \o <<>>
      /\ notes \subseteq notes' /\ top.node = "return" /\ top.after
      /\ Returns(tree)
  BY DEF ReturnEnd, At, PartDone, Within, Goes, Runs, Pops, Note
<1> HIDE DEF tree
<1>2. Handled
  BY <1>1, HandledBefore
<1>3. Named
  BY <1>2, SoundInvHas
<1>4. PICK D, H : GoodNow(D, H)
  BY <1>2, SoundInvHas
<1>5. /\ TypeInv /\ regs \in Nat /\ H[Len(visits)] \subseteq D[at] /\ at \in DOMAIN code
      /\ Wanted(top, r)
  BY <1>2, <1>4, TopStands DEF IInv, TypeInv, Local
<1>6. Ends(visits, visits', w) /\ Gave(below, w) /\ Linked(below, top) /\ VisitType(below)
  BY <1>1, GivenBelow
<1> HIDE DEF w
<1>7. Alike(below, w) /\ w.after /\ w.base = below.base
  BY <1>6 DEF Gave
<1>8. Open(code, at)
  BY <1>1, <1>2, IsOpen DEF IInv
<1>9. /\ Stale = {} /\ top.base < Len(ir_code)
      /\ KnownIn(item, code, D[at], Popped) /\ Popped \in Values /\ TypeOf(Popped) = r
  <2>1. Valued(top)
    BY <1>1 DEF Valued
  <2>2. Takes(top, TypeOf(Popped))
    BY <2>1, <1>1, <1>2, <1>4, PoppedKnown
  <2> HIDE DEF r
  <2>3. TypeOf(Popped) = r
    BY <2>2, <1>1, <1>5 DEF Takes, Wanted
  <2> QED
    BY <2>1, <2>3, <1>1, <1>2, <1>4, PoppedKnown
<1>10. /\ i \in InstrSet /\ i.blocks = <<>> /\ i.op = "ret" /\ i.args = <<Popped>>
  <2>1. <<Popped>> \in Seq(Values) /\ <<>> \in Seq(Nat) /\ "ret" \in InstrOps
    BY <1>9 DEF InstrOps
  <2> QED
    BY <2>1, ValueFacts DEF Instr, InstrSet
<1> HIDE DEF i
<1>11. Typed(unit, item, i)
  <2>1. ArgTypes(i) = <<r>>
    BY <1>9, <1>10 DEF ArgTypes
  <2> QED
    BY <2>1, <1>10 DEF Typed
<1> DEFINE P == Pending(below)
           c2 == code'
<1>12. /\ CodeMoves(visits, code, at, c2, at, unit, item, D, D)
       /\ Opened(code, at, c2, at, top, P)
       /\ ~Open(c2, at)
  <2>1. c2 = Emit(<<i>>)
    BY <1>1
  <2>2. i.op # "phi" /\ i.op \in Terminators
    BY <1>10 DEF Terminators
  <2>3. ToSet(i.blocks) = {} /\ Pending(top) = {}
    BY <1>1, <1>10, NoBlocks, NoPending
  <2>4. \A k \in DOMAIN i.args : KnownIn(item, code, D[at], i.args[k])
    BY <1>9, <1>10
  <2> HIDE DEF P, c2
  <2>5. ToSet(i.blocks) \subseteq Pending(top) /\ \A b \in Pending(top) : b = at \/ b \in P
    BY <2>3
  <2> QED
    BY <2>1, <2>2, <2>4, <2>5, <1>2, <1>4, <1>5, <1>8, <1>10, <1>11, EmitOneMoves
<1>13. ~(w.base < Len(ir_code'))
  <2> DEFINE m == Len(ir_code')
             n == Len(ir_code)
             b == w.base
             t == top.base
  <2>1. "return" \in notes
    BY <1>1, <1>2, BelowStack DEF IInv
  <2>2. "discarded" \notin notes
    BY <2>1, <1>2 DEF Handled
  <2>3. t = 0 /\ n <= 1 /\ n \in Nat /\ b = 0
    BY <2>2, <1>1, <1>2, <1>7, StackFact, BelowStack DEF IInv
  <2>4. m = n - 1
    BY <1>1, <1>5, PopFacts
  <2> HIDE DEF n, m, t, b
  <2>5. ~(b < m)
    BY <2>3, <2>4
  <2> QED
    BY <2>5 DEF b, m
<1>14. TopValue(w, item, code', D, at', ir_code', current_type')
  BY <1>1, <1>12, <1>13 DEF TopValue
<1>15. /\ CodeMoves(visits, code, at, code', at', unit, item, D, D)
       /\ Opened(code, at, code', at', top, Pending(below))
       /\ H[Len(visits)] \subseteq D[at']
  BY <1>1, <1>5, <1>12
<1>16. VisitorGoes /\ MapsStay
  BY <1>1, <1>5 DEF VisitorGoes, MapsStay
<1>17. top.node # "fn"
  BY <1>1
<1> QED
  BY <1>2, <1>3, <1>4, <1>6, <1>7, <1>14, <1>15, <1>16, <1>17, ReturnedG

-----------------------------------------------------------------------------
(* No variable in scope has the id of the next one. *)
LEMMA NewIdFresh ==
    ASSUME IInv, Named, visits # <<>>
    PROVE  NewId \notin Visible
<1>1. regs \in Nat
  BY DEF IInv, TypeInv
<1>2. ASSUME NEW n \in 1..regs, NewId = <<item, 0, n>> PROVE FALSE
  <2>1. regs + 1 = n
    BY <1>2 DEF NewId
  <2> QED
    BY <2>1, <1>1
<1>3. \A k \in DOMAIN visits : NewId \notin visits[k].declared
  BY <1>2 DEF Named
<1>4. ASSUME NEW p, NewId = ParamId(p) PROVE FALSE
  <2>1. DOMAIN NewId = 1..3 /\ DOMAIN ParamId(p) = 1..2
    BY DEF NewId, ParamId
  <2>2. 3 \in 1..3 /\ 3 \notin 1..2
    OBVIOUS
  <2> QED
    BY <2>1, <2>2, <1>4
<1> QED
  BY <1>3, <1>4 DEF Visible

-----------------------------------------------------------------------------
(* The block below, which comes to know the variable. *)
LEMMA LetsBelow ==
    ASSUME IInv, visits # <<>>, LetEnd
    PROVE  LET p == [below EXCEPT !.declared = below.declared \cup {NewId}]
               w == GivenTree(p, <<"let", NewId, top.trees[1]>>)
           IN /\ Ends(visits, visits', w)
              /\ SameVisit(below, w) /\ w.after = TRUE /\ w.base = below.base
              /\ w.declared = below.declared \cup {NewId}
              /\ w.values = below.values /\ w.blocks = below.blocks
              /\ below.node = "block" /\ (below.last => below.want = {"()"}) /\ w.last = below.last
<1> DEFINE o == below
           new == {NewId}
           d == o.declared \cup new
           p == [o EXCEPT !.declared = d]
           tree == <<"let", NewId, top.trees[1]>>
           w == GivenTree(p, tree)
           block == Len(visits) - 1
           f == Front(visits)
<1>1. /\ top.node = "let" /\ top.after
      /\ visits' = Leave([f EXCEPT ![block].declared = @ \cup new], tree)
  BY DEF LetEnd, Runs
<1> HIDE DEF tree
<1>2. /\ IsSeq(visits) /\ Len(visits) \in Nat /\ regs \in Nat /\ item \in Nat
  BY TopFacts DEF Local, IInv, TypeInv
<1>4. /\ VisitType(below) /\ Len(visits) >= 2
      /\ below.node = "block" /\ (below.last => below.want = {"()"})
  BY <1>1, BelowReady DEF Linked, IInv
<1>9. NewId \in Seq(Nat)
  <2>1. NewId = <<item, 0, regs + 1>>
    BY DEF NewId
  <2> QED
    BY <2>1, <1>2
<1>10. d \in SUBSET Seq(Nat) /\ VisitType(o)
  BY <1>4, <1>9 DEF VisitType
<1> HIDE DEF o, d, new
<1>12. /\ VisitType(p) /\ SameVisit(o, p) /\ p.trees = o.trees /\ p.after = o.after
       /\ p.values = o.values /\ p.blocks = o.blocks /\ p.last = o.last
       /\ p.declared = d /\ p.base = o.base
  BY <1>10 DEF VisitType, SameVisit
<1>13. visits' = Leave([f EXCEPT ![block] = p], tree)
  <2>1. f[block] = o
    <3>2. \A k \in 1..(Len(visits) - 1) : f[k] = visits[k]
      BY <1>2, SeqFront
    <3>3. Len(visits) - 1 \in 1..(Len(visits) - 1)
      BY <1>2, <1>4
    <3> QED
      BY <3>2, <3>3 DEF below, o
  <2>2. [f EXCEPT ![block].declared = @ \cup new] =
            [f EXCEPT ![block] = [f[block] EXCEPT !.declared = @ \cup new]]
    OBVIOUS
  <2>3. [o EXCEPT !.declared = @ \cup new] = p
    BY DEF d
  <2> HIDE DEF f, p
  <2> QED
    BY <2>1, <2>2, <2>3, <1>1
<1> HIDE DEF p
<1>14. Ends(visits, visits', w)
  <2> HIDE DEF w
  <2>1. Ends(visits, Leave([Front(visits) EXCEPT ![Len(visits) - 1] = p], tree), GivenTree(p, tree))
    BY <1>2, <1>4, <1>12, EndLeaves
  <2> QED
    BY <2>1, <1>13 DEF w
<1>15. /\ SameVisit(p, w) /\ w.after = TRUE /\ w.declared = p.declared
       /\ w.values = p.values /\ w.blocks = p.blocks /\ w.base = p.base /\ w.last = p.last
  BY <1>12, GivenTreeVisit
<1> HIDE DEF w
<1>16. SameVisit(o, w)
  BY <1>12, <1>15 DEF SameVisit
<1>17. /\ Ends(visits, visits', w)
       /\ SameVisit(below, w) /\ w.after = TRUE /\ w.base = below.base
       /\ w.declared = below.declared \cup {NewId}
       /\ w.values = below.values /\ w.blocks = below.blocks
       /\ below.node = "block" /\ (below.last => below.want = {"()"}) /\ w.last = below.last
  BY <1>4, <1>12, <1>14, <1>15, <1>16 DEF o, d, new
<1> QED
  BY <1>17 DEF w, p, tree, o, d, new

(* The slot of the variable is of its type, and known where the builder is. *)
Lets(D, H, c2, slot) ==
    /\ CodeMoves(visits, code, at, c2, at, unit, item, D, D)
    /\ Opened(code, at, c2, at, top, Pending(below))
    /\ KnownIn(item, c2, D[at], slot)
    /\ slot \in Value /\ TypeOf(slot) = CHOOSE t \in top.want : TRUE

(* The alloca and the store are a step of the code. *)
LEMMA LetMoves ==
    ASSUME IInv, visits # <<>>, LetEnd, Handled, NEW D, NEW H, GoodNow(D, H)
    PROVE  Lets(D, H, code', NewReg(current_type))
<1> DEFINE r == unit[item].ret
           slot == NewReg(current_type)
           i == Instr("alloca", slot, <<>>, <<>>)
           j == Instr("store", NoReg, <<Popped, slot>>, <<>>)
           c2 == code'
           P == Pending(below)
<1>1. /\ code' = Emit(<<i, j>>) /\ top.node = "let" /\ top.after
  BY DEF LetEnd, Runs
<1>2. /\ TypeInv /\ at \in DOMAIN code /\ at \in D[at] /\ Wanted(top, r)
  BY TopStands DEF IInv
<1>3. /\ KnownIn(item, code, D[at], Popped) /\ Takes(top, TypeOf(Popped))
      /\ current_type = TypeOf(Popped) /\ Popped \in Values /\ TypeOf(Popped) \in Data
  <2>1. Valued(top) /\ ExprPart(top)
    BY <1>1 DEF Valued, ExprPart
  <2> QED
    BY <2>1, <1>1, PoppedKnown
<1> HIDE DEF r
<1>4. current_type = CHOOSE t \in top.want : TRUE
  <2>1. TypeOf(Popped) \in top.want
    BY <1>1, <1>3 DEF Takes
  <2>2. PICK t \in Data : top.want = {t}
    BY <1>1, <1>2 DEF Wanted
  <2>3. (CHOOSE x \in {t} : TRUE) = t
    OBVIOUS
  <2> QED
    BY <2>1, <2>2, <2>3, <1>3
<1>5. current_type \in Data /\ current_type \in Types /\ current_type # "()"
  BY <1>3 DEF Types, Data
<1>6. slot \in Value /\ slot \in Values /\ TypeOf(slot) = current_type /\ slot[2] = item
  BY <1>2, <1>5, NewRegIs, ValueFacts DEF NewReg, Reg, TypeInv
<1> HIDE DEF slot
<1>7. /\ i \in InstrSet /\ j \in InstrSet /\ i.blocks = <<>> /\ j.blocks = <<>>
      /\ i.op = "alloca" /\ j.op = "store" /\ i.def = slot /\ i.args = <<>>
      /\ j.args = <<Popped, slot>>
  <2>1. /\ <<>> \in Seq(Values) /\ <<>> \in Seq(Nat) /\ <<Popped, slot>> \in Seq(Values)
        /\ "alloca" \in InstrOps /\ "store" \in InstrOps
    BY <1>3, <1>6 DEF InstrOps
  <2> QED
    BY <2>1, <1>6, ValueFacts DEF Instr, InstrSet
<1> HIDE DEF i, j
<1>8. Typed(unit, item, i)
  BY <1>5, <1>6, <1>7 DEF Typed
<1>9. Typed(unit, item, j)
  <2>1. ArgTypes(j) = <<TypeOf(Popped), TypeOf(slot)>>
    BY <1>7 DEF ArgTypes
  <2>2. ArgTypes(j)[1] = ArgTypes(j)[2]
    BY <2>1, <1>3, <1>6
  <2> QED
    BY <2>2, <1>7 DEF Typed
<1>10. Open(code, at)
  BY <1>1, IsOpen DEF IInv
<1>11. /\ CodeMoves(visits, code, at, c2, at, unit, item, D, D)
       /\ Opened(code, at, c2, at, top, P)
       /\ Defines(c2, at, slot)
  <2>1. c2 = Emit(<<i, j>>)
    BY <1>1
  <2>2. i.op # "phi" /\ i.op \notin Terminators /\ j.op # "phi" /\ j.op \notin Terminators
    BY <1>7 DEF Terminators
  <2>3. ToSet(j.blocks) = {} /\ Pending(top) = {}
    BY <1>1, <1>7, NoBlocks, NoPending
  <2>4. \A k \in DOMAIN i.args : KnownIn(item, code, D[at], i.args[k])
    BY <1>7
  <2>5. \A k \in DOMAIN j.args : KnownIn(item, code, D[at], j.args[k]) \/ j.args[k] = i.def
    <3>1. \A k \in DOMAIN j.args : j.args[k] = Popped \/ j.args[k] = slot
      BY <1>7
    <3> QED
      BY <3>1, <1>3, <1>7
  <2>6. i.def[2] = item
    BY <1>6, <1>7
  <2> HIDE DEF P, c2
  <2>7. ToSet(j.blocks) \subseteq Pending(top) /\ \A b \in Pending(top) : b = at \/ b \in P
    BY <2>3
  <2> QED
    BY <2>1, <2>2, <2>4, <2>5, <2>6, <2>7, <1>2, <1>7, <1>8, <1>9, <1>10, EmitTwoMoves
<1>12. KnownIn(item, c2, D[at], slot)
  BY <1>2, <1>6, <1>11 DEF KnownIn
<1> QED
  BY <1>4, <1>6, <1>11, <1>12 DEF Lets, slot

-----------------------------------------------------------------------------
(* The maps get the variable, and nothing else in them changes. *)
LEMMA LetMaps ==
    ASSUME IInv, Named, visits # <<>>, LetEnd
    PROVE  /\ scope_manager'[NewId] = NewReg(current_type)
           /\ types'[NewId] = CHOOSE t \in top.want : TRUE
           /\ NewId \in DOMAIN types'
           /\ \A id \in Visible : /\ id # NewId
                                  /\ scope_manager'[id] = scope_manager[id]
                                  /\ id \in DOMAIN types' /\ types'[id] = types[id]
<1> DEFINE type == CHOOSE t \in top.want : TRUE
           slot == NewReg(current_type)
           m == scope_manager'
           y == types'
           i == NewId
           g == [x \in {i} |-> slot]
           k == [x \in {i} |-> type]
<1>1. m = With(scope_manager, g) /\ y = With(types, k)
  BY DEF LetEnd
<1> HIDE DEF type, slot, m, y, i
<1>2. /\ m[i] = slot
      /\ \A x \in DOMAIN scope_manager : x # i => m[x] = scope_manager[x]
  <2>1. DOMAIN g = {i} /\ g[i] = slot
    OBVIOUS
  <2> HIDE DEF g
  <2> QED
    BY <1>1, <2>1, Zenon DEF With
<1>3. /\ y[i] = type /\ DOMAIN y = DOMAIN types \cup {i}
      /\ \A x \in DOMAIN types : x # i => y[x] = types[x]
  <2>1. DOMAIN k = {i} /\ k[i] = type
    OBVIOUS
  <2> HIDE DEF k
  <2> QED
    BY <1>1, <2>1, Zenon DEF With
<1>4. NewId \notin Visible
  BY NewIdFresh
<1>5. \A id \in Visible : id \in DOMAIN scope_manager /\ id \in DOMAIN types
  BY DEF IInv, VisitsInv, Named
<1> QED
  BY <1>2, <1>3, <1>4, <1>5 DEF type, slot, m, y, i

(* Variables keep having slots of their types. *)
LEMMA LetNamed ==
    ASSUME IInv, visits # <<>>, LetEnd, Handled, Named, NEW D, NEW H, GoodNow(D, H),
           NEW w, Ends(visits, visits', w), w.declared = below.declared \cup {NewId}
    PROVE  Named'
<1> DEFINE n == Len(visits)
           slot == NewReg(current_type)
<1>1. unit' = unit /\ item' = item /\ regs' = regs + 1
  BY DEF LetEnd, Runs
<1>2. Lets(D, H, code', slot)
  BY LetMoves
<1>3. /\ scope_manager'[NewId] = slot
      /\ types'[NewId] = TypeOf(slot)
      /\ NewId \in DOMAIN types'
      /\ \A id \in Visible : /\ id # NewId
                             /\ scope_manager'[id] = scope_manager[id]
                             /\ id \in DOMAIN types' /\ types'[id] = types[id]
  BY <1>2, LetMaps DEF Lets
<1>4. CodeStep(code, code', at) /\ regs \in Nat /\ 1 \in DOMAIN code
  BY <1>2, TopStands DEF Lets, CodeMoves, IInv, TypeInv
<1>5. /\ n \in Nat /\ DOMAIN visits = 1..n /\ n \in 1..n /\ IsSeq(visits)
  BY StateKept, KeptFacts
<1>6. /\ IsSeq(visits') /\ Len(visits') = n - 1 /\ visits'[n - 1] = w
      /\ \A k \in 1..(n - 2) : visits'[k] = visits[k]
      /\ n >= 2
  BY DEF Ends
<1>7. DOMAIN visits' = 1..(n - 1)
  BY <1>6, SeqItems
<1>8. w.declared = visits[n - 1].declared \cup {NewId}
  BY DEF below
<1> HIDE DEF n, slot
<1>9. \A k \in DOMAIN visits' : \A id \in visits'[k].declared :
          id = NewId \/ \E j \in DOMAIN visits : id \in visits[j].declared
  <2>1. \A k \in 1..(n - 1) : k = n - 1 \/ k \in 1..(n - 2)
    BY <1>5
  <2>2. \A k \in 1..(n - 1) : k \in DOMAIN visits
    BY <1>5
  <2> QED
    BY <2>1, <2>2, <1>5, <1>6, <1>7, <1>8
<1>10. \A id \in Visible' : id = NewId \/ id \in Visible
  <2> SUFFICES ASSUME NEW id \in Visible' PROVE id = NewId \/ id \in Visible
    OBVIOUS
  <2>1. CASE \E p \in Params' : id = ParamId(p)'
    BY <2>1, <1>1 DEF Params, ParamId, fn_ty, Visible
  <2>2. CASE \E k \in DOMAIN visits' : id \in visits'[k].declared
    BY <2>2, <1>9 DEF Visible
  <2> QED
    BY <2>1, <2>2 DEF Visible
<1>11. \A id \in Visible' : id \in DOMAIN types' /\ types'[id] = TypeOf(scope_manager'[id])
  BY <1>3, <1>10 DEF Named
<1>12. ASSUME NEW p \in Params'
       PROVE  KnownIn(item', code', {1}, scope_manager'[ParamId(p)'])
  <2>1. p \in Params /\ ParamId(p)' = ParamId(p)
    BY <1>1 DEF Params, ParamId, fn_ty
  <2>2. KnownIn(item, code, {1}, scope_manager[ParamId(p)])
    BY <2>1 DEF Named
  <2>3. KnownIn(item, code', {1}, scope_manager[ParamId(p)])
    BY <2>2, <1>4, KnownStays
  <2>4. ParamId(p) \in Visible
    BY <2>1 DEF Visible
  <2> QED
    BY <1>1, <1>3, <2>1, <2>3, <2>4
<1>13. ASSUME NEW k \in DOMAIN visits', NEW id \in visits'[k].declared
       PROVE  \E x \in 1..regs' : id = <<item', 0, x>>
  <2>1. CASE id = NewId
    <3>1. NewId = <<item', 0, regs'>> /\ regs' \in 1..regs'
      BY <1>1, <1>4 DEF NewId
    <3> QED
      BY <3>1, <2>1
  <2>2. CASE \E j \in DOMAIN visits : id \in visits[j].declared
    <3>1. PICK j \in DOMAIN visits : id \in visits[j].declared
      BY <2>2
    <3>2. PICK x \in 1..regs : id = <<item, 0, x>>
      BY <3>1 DEF Named
    <3>3. x \in 1..regs'
      BY <1>1, <1>4
    <3> QED
      BY <1>1, <3>2, <3>3
  <2> QED
    BY <2>1, <2>2, <1>9, <1>13
<1> QED
  BY <1>11, <1>12, <1>13 DEF Named

-----------------------------------------------------------------------------
(* visit_declaration ends: the variable has a slot. *)
LEMMA LetEndG ==
    ASSUME IInv, SoundInv, visits # <<>>, LetEnd
    PROVE  SoundInv'
<1> SUFFICES ASSUME Handled' PROVE SoundInv'
  BY DEF SoundInv
<1> DEFINE r == unit[item].ret
           o == below
           p == [below EXCEPT !.declared = below.declared \cup {NewId}]
           w == GivenTree(p, <<"let", NewId, top.trees[1]>>)
           n == Len(visits)
           slot == NewReg(current_type)
           slots2 == scope_manager'
           c2 == code'
<1>1. /\ unit' = unit /\ item' = item /\ at' = at /\ notes \subseteq notes'
      /\ top.node = "let" /\ top.after
  BY DEF LetEnd, Runs, Pops, Note
<1>2. Handled
  BY <1>1, HandledBefore
<1>3. Named
  BY <1>2, SoundInvHas
<1>4. PICK D, H : GoodNow(D, H)
  BY <1>2, SoundInvHas
<1>5. Lets(D, H, c2, slot)
  BY <1>2, <1>4, LetMoves
<1>6. /\ Ends(visits, visits', w)
      /\ SameVisit(o, w) /\ w.after = TRUE
      /\ w.declared = o.declared \cup {NewId}
      /\ w.values = o.values /\ w.blocks = o.blocks
      /\ o.node = "block" /\ (o.last => o.want = {"()"}) /\ w.last = o.last
  BY LetsBelow
<1> HIDE DEF w
<1>7. Named'
  BY <1>2, <1>3, <1>4, <1>6, LetNamed
<1>8. slots2[NewId] = slot /\ \A id \in Visible : slots2[id] = scope_manager[id]
  BY <1>3, LetMaps
<1>9. /\ Kept(visits, code, at, unit, item)
      /\ Good(visits, code, at, scope_manager, unit, item, D, H)
      /\ at \in D[at] /\ D[at] \subseteq DOMAIN code /\ H[n] \subseteq D[at]
  BY <1>2, <1>4, TopStands
<1>10. n \in Nat /\ n \in 1..n /\ n >= 2 /\ DOMAIN visits = 1..n
  BY <1>6, <1>9, KeptFacts DEF Ends
<1>11. \A k \in 1..n : SameSlots(visits[k], scope_manager, slots2)
  <2>1. \A k \in 1..n : \A id \in visits[k].declared : id \in Visible
    BY <1>10 DEF Visible
  <2> QED
    BY <2>1, <1>8 DEF SameSlots
<1> DEFINE h0 == H[n - 1]
           h == D[at]
<1>12. n - 1 \in 1..(n - 1) /\ n - 1 \in 1..n
  <2> HIDE DEF n
  <2> QED
    BY <1>10
<1>13. Stands(o, h0, item, r, c2, D, at, slots2)
  <2>1. CodeMoves(visits, code, at, c2, at, unit, item, D, D)
    BY <1>5 DEF Lets
  <2>2. visits[n - 1] = o
    BY DEF below
  <2> HIDE DEF slots2, c2, o
  <2>3. Stands(visits[n - 1], H[n - 1], item, unit[item].ret, c2, D, at, slots2)
    BY <2>1, <1>9, <1>11, <1>12, FrameStands
  <2> QED
    BY <2>2, <2>3
<1>14. h0 \subseteq h
  <2>1. H[n - 1] \subseteq H[n]
    <3>1. n - 1 <= n
      BY <1>10
    <3>2. \A j, k \in 1..n : j <= k => H[j] \subseteq H[k]
      BY <1>9 DEF Good, Homes
    <3> HIDE DEF n
    <3> QED
      BY <3>1, <3>2, <1>10, <1>12
  <2> QED
    BY <2>1, <1>9
<1>15. w.node = "block" /\ Pending(w) = {} /\ Pending(o) = {}
  <2>1. w.node = o.node
    BY <1>6 DEF SameVisit
  <2> HIDE DEF o
  <2> QED
    BY <2>1, <1>6, NoPending
<1>16. Stands(w, h, item, r, c2, D, at, slots2)
  <2>1. \A x \in Carried(o, slots2) : KnownIn(item, c2, h, x)
    BY <1>13, <1>14, KnownMore DEF Stands
  <2>2. KnownIn(item, c2, h, slot)
    BY <1>5 DEF Lets
  <2>3. \A x \in Carried(w, slots2) : x = slot \/ x \in Carried(o, slots2)
    <3> HIDE DEF o, slot, slots2
    <3> QED
      BY <1>6, <1>8, <1>15 DEF Carried
  <2>4. \A x \in Carried(w, slots2) : KnownIn(item, c2, h, x)
    BY <2>1, <2>2, <2>3
  <2>5. IfExprStands(w, item, c2, D) /\ IfStands(w, item, c2, D, at)
    BY <1>15 DEF IfExprStands, IfStands
  <2>6. Wanted(w, r)
    <3>1. Wanted(o, r)
      BY <1>13 DEF Stands
    <3>2. w.source = o.source /\ w.want = o.want /\ w.node = "block"
      BY <1>6, <1>15 DEF SameVisit
    <3> HIDE DEF o, r
    <3> QED
      BY <3>1, <3>2 DEF Wanted
  <2> HIDE DEF h, r, c2, slots2
  <2> QED
    BY <2>4, <2>5, <2>6, <1>15 DEF Stands
<1>17. TopValue(w, item, c2, D, at, ir_code', current_type')
  <2>1. ~Valued(w)
    <3>1. w.last => w.want = {"()"}
      BY <1>6 DEF SameVisit
    <3>2. ~({"()"} \subseteq Data)
      BY DEF Data
    <3>3. ~(w.last /\ Sourced(w))
      BY <3>1, <3>2 DEF Sourced
    <3> QED
      BY <3>3, <1>15 DEF Valued, ExprNodes, CondPart
  <2> QED
    BY <2>1 DEF TopValue
<1>18. EndGraph(w, D, H, D, h)
  <2>1. HomeFor(H, n - 1, h, D, at)
    BY <1>14 DEF HomeFor
  <2>2. Opened(code, at, c2, at, top, Pending(w)) /\ Pending(o) \subseteq Pending(w)
    BY <1>5, <1>15 DEF Lets
  <2>3. CodeMoves(visits, code, at, c2, at, unit, item, D, D)
    BY <1>5 DEF Lets
  <2> QED
    BY <2>1, <2>2, <2>3, <1>1, <1>6, <1>16, <1>17 DEF EndGraph
<1>19. VisitorGoes
  BY <1>1 DEF VisitorGoes
<1>20. \A k \in 1..(n - 2) : SameSlots(visits[k], scope_manager, slots2)
  <2>1. \A k \in 1..(n - 2) : k \in 1..n
    BY <1>10
  <2> QED
    BY <2>1, <1>11
<1> HIDE DEF w, h
<1> QED
  BY <1>2, <1>4, <1>6, <1>7, <1>18, <1>19, <1>20, EndG

-----------------------------------------------------------------------------
(* The entry block, by parameters. *)
Slot(p) == Reg(p, fn_ty.params[p])
(* The alloca of it. *)
AllocaOf(p) == Instr("alloca", Slot(p), <<>>, <<>>)
(* The store of the parameter p to its slot. *)
StoreOf(p) == Instr("store", NoReg, <<Param(p, fn_ty.params[p]), Slot(p)>>, <<>>)
(* The branch to the block of the body. *)
ToBody == Instr("br", NoReg, <<>>, <<2>>)

(* What is where in the entry block e of n parameters. *)
EntryHas(e, n) ==
    /\ n \in Nat /\ Params = 1..n
    /\ Len(e) = 2 * n + 1 /\ DOMAIN e = 1..(2 * n + 1)
    /\ e[2 * n + 1] = ToBody
    /\ \A p \in 1..n : e[2 * p - 1] = AllocaOf(p) /\ e[2 * p] = StoreOf(p)
    /\ \A i \in 1..(2 * n + 1) :
          i = 2 * n + 1 \/ \E p \in 1..n : i = 2 * p - 1 \/ i = 2 * p

(* Entry is such a block. *)
LEMMA EntryParts ==
    ASSUME unit[item] \in Signature
    PROVE  EntryHas(Entry, Len(fn_ty.params))
<1> DEFINE n == Len(fn_ty.params)
           p2(i) == (i + 1) \div 2
           at1(i) == IF i % 2 = 1 THEN AllocaOf(p2(i)) ELSE StoreOf(p2(i))
           m == 2 * n
           slots == [i \in 1..m |-> at1(i)]
           S == {at1(i) : i \in 1..m} \cup {ToBody}
           e == slots \o <<ToBody>>
<1>1. n \in Nat /\ Params = 1..n
  <2>1. fn_ty.params \in Seq(Data)
    BY DEF Signature, fn_ty
  <2> QED
    BY <2>1, LenProperties DEF Params
<1>2. Entry = e
  BY DEF Entry, AllocaOf, StoreOf, Slot, ToBody
<1> HIDE DEF n
<1>3. m \in Nat /\ m = 2 * n
  BY <1>1
<1>4. \A p \in 1..n : /\ 2 * p - 1 \in 1..m /\ 2 * p \in 1..m
                      /\ (2 * p - 1) % 2 = 1 /\ (2 * p) % 2 # 1
                      /\ p2(2 * p - 1) = p /\ p2(2 * p) = p
  BY <1>1
<1>5. \A i \in 1..(m + 1) : i = m + 1 \/ \E p \in 1..n : i = 2 * p - 1 \/ i = 2 * p
  <2> SUFFICES ASSUME NEW i \in 1..(m + 1), i # m + 1
               PROVE  \E p \in 1..n : i = 2 * p - 1 \/ i = 2 * p
    OBVIOUS
  <2>1. p2(i) \in 1..n /\ (i = 2 * p2(i) - 1 \/ i = 2 * p2(i))
    BY <1>1, <1>3
  <2> QED
    BY <2>1
<1>6. \A p \in 1..n : at1(2 * p - 1) = AllocaOf(p) /\ at1(2 * p) = StoreOf(p)
  BY <1>4
<1> HIDE DEF at1, p2, m
<1>7. slots \in Seq(S) /\ Len(slots) = m /\ \A i \in 1..m : slots[i] = at1(i)
  <2>1. \A i \in 1..m : at1(i) \in S
    OBVIOUS
  <2> HIDE DEF S
  <2>2. slots \in [1..m -> S]
    BY <2>1
  <2> QED
    BY <2>2, <1>3
<1>8. ToBody \in S
  OBVIOUS
<1> HIDE DEF slots, S
<1>9. /\ Len(e) = m + 1 /\ DOMAIN e = 1..(m + 1) /\ e[m + 1] = ToBody
      /\ \A i \in 1..m : e[i] = at1(i)
  <2>1. /\ <<ToBody>> \in Seq(S) /\ Len(<<ToBody>>) = 1 /\ <<ToBody>>[1] = ToBody
    BY <1>8
  <2> DEFINE b == <<ToBody>>
  <2>2. b \in Seq(S) /\ Len(b) = 1 /\ b[1] = ToBody
    BY <2>1
  <2> HIDE DEF b
  <2>7. /\ slots \o b \in Seq(S) /\ Len(slots \o b) = Len(slots) + Len(b)
        /\ \A i \in 1..(Len(slots) + Len(b)) :
              (slots \o b)[i] = IF i <= Len(slots) THEN slots[i] ELSE b[i - Len(slots)]
    BY <2>2, <1>7, ConcatProperties
  <2>3. /\ slots \o b \in Seq(S) /\ Len(slots \o b) = m + 1
        /\ \A i \in 1..(m + 1) : (slots \o b)[i] = IF i <= m THEN slots[i] ELSE b[i - m]
    BY <2>2, <2>7, <1>7
  <2>4. DOMAIN (slots \o b) = 1..(m + 1)
    BY <2>3, LenProperties
  <2>5. (slots \o b)[m + 1] = ToBody
    <3> DEFINE q == m + 1
               c == slots \o b
    <3>1. q \in 1..q /\ ~(q <= m) /\ q - m = 1
      BY <1>3
    <3>2. \A i \in 1..q : c[i] = IF i <= m THEN slots[i] ELSE b[i - m]
      BY <2>3
    <3> HIDE DEF q, c
    <3>3. c[q] = b[q - m]
      BY <3>1, <3>2
    <3>4. c[q] = b[1]
      BY <3>1, <3>3
    <3> QED
      BY <3>4, <2>2 DEF q, c
  <2>6. \A i \in 1..m : (slots \o b)[i] = at1(i)
    <3>1. \A i \in 1..m : i \in 1..(m + 1) /\ i <= m
      BY <1>3
    <3> QED
      BY <3>1, <2>3, <1>7
  <2> QED
    BY <2>3, <2>4, <2>5, <2>6 DEF b
<1> HIDE DEF e
<1>10. EntryHas(e, n)
  BY <1>1, <1>3, <1>4, <1>5, <1>6, <1>9 DEF EntryHas
<1> QED
  BY <1>2, <1>10 DEF n

(* A slot of a parameter. *)
LEMMA SlotIs ==
    ASSUME unit[item] \in Signature, item \in Nat, NEW p \in Params
    PROVE  /\ Slot(p)[1] = "reg" /\ Slot(p)[2] = item
           /\ TypeOf(Slot(p)) = fn_ty.params[p] /\ Slot(p) \in Value
           /\ TypeOf(Param(p, fn_ty.params[p])) = fn_ty.params[p]
           /\ Param(p, fn_ty.params[p])[1] = "param"
           /\ fn_ty.params[p] \in Data /\ fn_ty.params[p] # "()"
<1> DEFINE t == fn_ty.params[p]
<1>1. p \in Nat /\ t \in Data
  <2>1. fn_ty.params \in Seq(Data)
    BY DEF Signature, fn_ty
  <2> QED
    BY <2>1, LenProperties, ElementOfSeq DEF Params
<1>2. Slot(p) = Reg(p, t)
  BY DEF Slot
<1> HIDE DEF t
<1>3. t \in Types /\ t # "()"
  BY <1>1 DEF Types, Data
<1>4. /\ Reg(p, t)[1] = "reg" /\ Reg(p, t)[2] = item /\ TypeOf(Reg(p, t)) = t
      /\ Reg(p, t) \in Value /\ TypeOf(Param(p, t)) = t /\ Param(p, t)[1] = "param"
  BY <1>1, <1>3 DEF Reg, Param, TypeOf, Value
<1> QED
  BY <1>1, <1>2, <1>3, <1>4 DEF t

-----------------------------------------------------------------------------
(* The code that a function begins with. *)
Begun(c2, D) ==
    /\ Dominators(D, c2) /\ AllSound(unit, item, c2, D) /\ Ending(c2)
    /\ DOMAIN c2 = {1, 2} /\ ~Open(c2, 1) /\ D[2] = {1, 2} /\ c2[2] = <<>>
    /\ \A p \in Params : KnownIn(item, c2, {1}, Slot(p))

(* The fields of its instructions. *)
LEMMA EntryOps ==
    /\ \A p : /\ AllocaOf(p).op = "alloca" /\ AllocaOf(p).def = Slot(p) /\ AllocaOf(p).args = <<>>
              /\ StoreOf(p).op = "store" /\ StoreOf(p).blocks = <<>>
              /\ StoreOf(p).args = <<Param(p, fn_ty.params[p]), Slot(p)>>
    /\ ToBody.op = "br" /\ ToBody.args = <<>> /\ ToBody.blocks = <<2>>
BY DEF AllocaOf, StoreOf, ToBody, Instr

(* The two blocks of a function that begins are sound. *)
LEMMA EntrySound ==
    ASSUME unit[item] \in Signature, item \in Nat
    PROVE  Begun(<<Entry, <<>>>>, <<{1}, {1, 2}>>)
<1> DEFINE e == Entry
           n == Len(fn_ty.params)
           c2 == <<e, <<>>>>
           D == <<{1}, {1, 2}>>
           l == 2 * n + 1
<1>1. EntryHas(e, n)
  BY EntryParts
<1>2. /\ DOMAIN c2 = {1, 2} /\ c2[1] = e /\ c2[2] = <<>> /\ DOMAIN c2[2] = {}
      /\ \A b \in DOMAIN c2 : b = 1 \/ b = 2
  OBVIOUS
<1>3. DOMAIN D = {1, 2} /\ D[1] = {1} /\ D[2] = {1, 2} /\ D \in [{1, 2} -> SUBSET {1, 2}]
  OBVIOUS
<1> HIDE DEF e, c2, D, n
<1>4. /\ n \in Nat /\ Params = 1..n /\ Len(e) = l /\ DOMAIN e = 1..l /\ e[l] = ToBody /\ l \in Nat
      /\ l \in 1..l
      /\ \A p \in 1..n : e[2 * p - 1] = AllocaOf(p) /\ e[2 * p] = StoreOf(p)
      /\ \A i \in 1..l : i = l \/ \E p \in 1..n : i = 2 * p - 1 \/ i = 2 * p
      /\ \A p \in 1..n : /\ 2 * p - 1 \in 1..l /\ 2 * p \in 1..l /\ 2 * p - 1 < 2 * p
                         /\ 2 * p # l /\ 2 * p - 1 # l
  BY <1>1 DEF EntryHas
<1> HIDE DEF l
<1>5. e # <<>> /\ Last(e) = ToBody
  <2>1. e # <<>>
    <3>1. DOMAIN <<>> = {}
      BY EmptyIs
    <3> QED
      BY <3>1, <1>4
  <2> QED
    BY <2>1, <1>4 DEF Last
<1>6. ~Open(c2, 1) /\ Open(c2, 2)
  BY <1>2, <1>5, EntryOps DEF Open, Terminators
<1>7. Targets(c2, 1) = {2} /\ Targets(c2, 2) = {}
  <2>1. ToSet(<<2>>) = {2}
    BY DEF ToSet
  <2> QED
    BY <2>1, <1>2, <1>5, <1>6, EntryOps DEF Targets
<1>8. Dominators(D, c2)
  <2>1. \A b \in DOMAIN c2 : b \in D[b]
    BY <1>2, <1>3
  <2>2. \A p \in DOMAIN c2 : \A b \in Targets(c2, p) : D[b] \subseteq D[p] \cup {b}
    BY <1>2, <1>3, <1>7
  <2> QED
    BY <2>1, <2>2, <1>2, <1>3 DEF Dominators
<1>9. Ending(c2)
  <2>1. ASSUME NEW i \in 1..l, i # l PROVE e[i].op \notin Terminators
    <3>1. PICK p \in 1..n : i = 2 * p - 1 \/ i = 2 * p
      BY <2>1, <1>4
    <3>2. e[i] = AllocaOf(p) \/ e[i] = StoreOf(p)
      BY <3>1, <1>4
    <3>3. AllocaOf(p).op = "alloca" /\ StoreOf(p).op = "store"
      BY EntryOps
    <3> QED
      BY <3>2, <3>3 DEF Terminators
  <2> QED
    BY <2>1, <1>2, <1>4 DEF Ending
<1>10. ASSUME NEW i \in 1..l PROVE Sound(unit, item, c2, D, 1, i)
  <2>1. c2[1][i] = e[i]
    BY <1>2
  <2>2. CASE i = l
    <3>1. Typed(unit, item, ToBody)
      BY EntryOps DEF Typed
    <3>2. DOMAIN ToBody.args = {}
      BY EntryOps
    <3> QED
      BY <3>1, <3>2, <2>1, <2>2, <1>4, EntryOps DEF Sound
  <2>3. ASSUME NEW p \in 1..n, i = 2 * p - 1 PROVE Sound(unit, item, c2, D, 1, i)
    <3>1. e[i] = AllocaOf(p) /\ TypeOf(Slot(p)) # "()"
      BY <2>3, <1>4, SlotIs
    <3>2. Typed(unit, item, AllocaOf(p))
      BY <3>1, EntryOps DEF Typed
    <3>3. DOMAIN AllocaOf(p).args = {}
      BY EntryOps
    <3> QED
      BY <3>1, <3>2, <3>3, <2>1, EntryOps DEF Sound
  <2>4. ASSUME NEW p \in 1..n, i = 2 * p PROVE Sound(unit, item, c2, D, 1, i)
    <3> DEFINE s == Slot(p)
               a == Param(p, fn_ty.params[p])
               j == 2 * p - 1
    <3>1. /\ e[i] = StoreOf(p) /\ e[j] = AllocaOf(p) /\ j \in 1..l /\ j < i
          /\ s[2] = item /\ TypeOf(a) = TypeOf(s) /\ a[1] = "param"
      BY <2>4, <1>4, SlotIs
    <3>2. StoreOf(p).op = "store" /\ StoreOf(p).args = <<a, s>> /\ e[j].def = s
      BY <3>1, EntryOps
    <3> HIDE DEF s, a, j
    <3>3. Typed(unit, item, StoreOf(p))
      <4>1. ArgTypes(StoreOf(p)) = <<TypeOf(a), TypeOf(s)>>
        BY <3>2 DEF ArgTypes
      <4>2. ArgTypes(StoreOf(p))[1] = ArgTypes(StoreOf(p))[2]
        BY <4>1, <3>1
      <4> QED
        BY <4>2, <3>2 DEF Typed
    <3>4. KnownAt(item, c2, D, s, 1, i)
      BY <3>1, <3>2, <1>2, <1>4 DEF KnownAt
    <3>5. KnownAt(item, c2, D, a, 1, i)
      BY <3>1 DEF KnownAt
    <3>6. \A k \in DOMAIN StoreOf(p).args : StoreOf(p).args[k] = a \/ StoreOf(p).args[k] = s
      BY <3>2
    <3>7. \A k \in DOMAIN StoreOf(p).args : KnownAt(item, c2, D, StoreOf(p).args[k], 1, i)
      BY <3>4, <3>5, <3>6
    <3> QED
      BY <3>1, <3>2, <3>3, <3>7, <2>1 DEF Sound
  <2> QED
    BY <2>2, <2>3, <2>4, <1>4
<1>11. AllSound(unit, item, c2, D)
  BY <1>2, <1>4, <1>10 DEF AllSound
<1>12. ASSUME NEW p \in Params PROVE KnownIn(item, c2, {1}, Slot(p))
  <2>1. 2 * p - 1 \in DOMAIN e /\ e[2 * p - 1].def = Slot(p)
    BY <1>4, EntryOps
  <2>2. Slot(p)[2] = item
    BY SlotIs
  <2> QED
    BY <2>1, <2>2, <1>2 DEF KnownIn, Defines
<1>13. Begun(c2, D)
  BY <1>2, <1>3, <1>6, <1>8, <1>9, <1>11, <1>12 DEF Begun
<1> QED
  BY <1>13 DEF c2, D, e

-----------------------------------------------------------------------------
(* A map gets entries, in which ids of others do not change. *)
LEMMA FnBeginMaps ==
    ASSUME IInv, FnBegin, unit[item] \in Signature
    PROVE  /\ \A p \in Params :
                 /\ ParamId(p) \in DOMAIN types' /\ types'[ParamId(p)] = fn_ty.params[p]
                 /\ scope_manager'[ParamId(p)] = Slot(p)
           /\ FnRefs => FnRefs'
<1> DEFINE slot == [p \in Params |-> Reg(p, fn_ty.params[p])]
           ids == {ParamId(p) : p \in Params}
           slots == [id \in ids |-> slot[id[2]]]
           sorts == [id \in ids |-> fn_ty.params[id[2]]]
           refs == [id \in {FnId(item)} |-> FnRef(item)]
           fid == FnId(item)
           fref == FnRef(item)
           m == scope_manager'
           s == With(scope_manager, refs)
           y == types'
<1>1. m = With(s, slots) /\ y = With(types, sorts) /\ s = With(scope_manager, refs) /\ unit' = unit
  BY DEF FnBegin
<1>2. ASSUME NEW p \in Params
      PROVE  /\ ParamId(p) \in ids
             /\ slots[ParamId(p)] = Slot(p) /\ sorts[ParamId(p)] = fn_ty.params[p]
  <2> DEFINE id == ParamId(p)
  <2>1. id \in ids /\ id[2] = p
    BY DEF ParamId
  <2> HIDE DEF id, ids
  <2>2. slots[id] = slot[p] /\ sorts[id] = fn_ty.params[p]
    BY <2>1
  <2>3. slot[p] = Slot(p)
    BY DEF Slot
  <2> QED
    BY <2>1, <2>2, <2>3 DEF id
<1>3. /\ DOMAIN slots = ids /\ DOMAIN sorts = ids /\ DOMAIN refs = {fid} /\ refs[fid] = fref
  OBVIOUS
<1>4. ASSUME NEW i, FnId(i) \in ids PROVE FALSE
  <2>1. PICK p : FnId(i) = ParamId(p)
    BY <1>4
  <2>2. DOMAIN FnId(i) = 1..1 /\ DOMAIN ParamId(p) = 1..2
    BY DEF FnId, ParamId
  <2>3. 2 \in 1..2 /\ 2 \notin 1..1
    OBVIOUS
  <2> QED
    BY <2>1, <2>2, <2>3
<1> HIDE DEF slots, sorts, refs, fid, fref, m, s, y, ids, slot
<1>5. /\ DOMAIN s = DOMAIN scope_manager \cup {fid}
      /\ s[fid] = fref
      /\ \A id \in DOMAIN scope_manager \ {fid} : s[id] = scope_manager[id]
  BY <1>1, <1>3, Zenon DEF With
<1>6. /\ DOMAIN m = DOMAIN s \cup ids
      /\ \A id \in ids : m[id] = slots[id]
      /\ \A id \in DOMAIN s \ ids : m[id] = s[id]
  BY <1>1, <1>3, Zenon DEF With
<1>7. /\ DOMAIN y = DOMAIN types \cup ids
      /\ \A id \in ids : y[id] = sorts[id]
  BY <1>1, <1>3, Zenon DEF With
<1>8. ASSUME FnRefs, NEW i \in Nat, FnId(i) \in DOMAIN m PROVE m[FnId(i)] = FnRef(i)
  <2>1. FnId(i) \notin ids /\ FnId(i) \in DOMAIN s /\ m[FnId(i)] = s[FnId(i)]
    BY <1>4, <1>6, <1>8
  <2>2. CASE FnId(i) = fid
    <3>1. i = item
      BY <2>2 DEF fid, FnId
    <3> QED
      BY <3>1, <2>1, <2>2, <1>5 DEF fref
  <2>3. CASE FnId(i) # fid
    <3>1. FnId(i) \in DOMAIN scope_manager /\ s[FnId(i)] = scope_manager[FnId(i)]
      BY <2>1, <2>3, <1>5
    <3> QED
      BY <3>1, <2>1, <1>8 DEF FnRefs
  <2> QED
    BY <2>2, <2>3
<1>9. FnRefs => FnRefs'
  <2> SUFFICES ASSUME FnRefs PROVE FnRefs'
    OBVIOUS
  <2>1. FnRefs' <=> \A i \in Nat : FnId(i) \in DOMAIN m => m[FnId(i)] = FnRef(i)
    BY <1>1 DEF FnRefs, FnRef, FnId, m
  <2> QED
    BY <2>1, <1>8
<1>10. \A p \in Params : /\ ParamId(p) \in DOMAIN y /\ y[ParamId(p)] = fn_ty.params[p]
                         /\ m[ParamId(p)] = Slot(p)
  BY <1>2, <1>6, <1>7
<1> QED
  BY <1>9, <1>10 DEF m, y

-----------------------------------------------------------------------------
(* The visits that a function begins with. *)
LEMMA FnBeginVisits ==
    ASSUME IInv, FnBegin
    PROVE  /\ unit[item] \in Signature /\ item \in Nat
           /\ Params' = Params /\ unit' = unit /\ item' = item
           /\ \E v, c : /\ Len(visits') = 2 /\ DOMAIN visits' = {1, 2}
                        /\ visits'[1] = v /\ visits'[2] = c
                        /\ Fresh(v) /\ v.node = "fn" /\ Fresh(c) /\ c.node = "block"
                        /\ v.source <=> fn_ty.ret # "()"
                        /\ v.source => c.source
                        /\ c.source => OneType(c.want, fn_ty.ret)
                        /\ c.want = v.want /\ v.op = "none"
<1> DEFINE valued == fn_ty.ret # "()"
           sourced == HasSource(valued)
           n == Len(ir_code)
           fnVisit(want) == [NewVisit("fn", want) EXCEPT !.source = valued]
           body0(want) == [NewVisit("block", want) EXCEPT !.source = sourced, !.tail = valued]
<1>0. /\ item \in DOMAIN unit /\ unit[item].kind = "Fn"
      /\ \E want \in BodyTypes : visits' = <<fnVisit(want), body0(want)>>
      /\ unit' = unit /\ item' = item
  BY DEF FnBegin, AtItem
<1>11. PICK want \in BodyTypes : visits' = <<fnVisit(want), body0(want)>>
  BY <1>0
<1> DEFINE v == fnVisit(want)
           c == body0(want)
<1>1. /\ item \in DOMAIN unit /\ unit[item].kind = "Fn"
      /\ visits' = <<v, c>> /\ unit' = unit /\ item' = item
  BY <1>0, <1>11
<1>2. /\ unit \in Seq(Item) /\ item \in Nat /\ ir_code \in Seq(Value)
  BY DEF IInv, TypeInv
<1>3. unit[item] \in Signature
  <2>1. unit[item] \in Item
    BY <1>1, <1>2, LenProperties, ElementOfSeq
  <2> QED
    BY <2>1, <1>1 DEF Item, Signature
<1>4. fn_ty.ret \in Types
  BY <1>3 DEF Signature, fn_ty
<1>5. /\ valued \in BOOLEAN /\ sourced \in BOOLEAN /\ want \in SUBSET Types
      /\ valued => sourced
      /\ sourced => OneType(want, fn_ty.ret)
      /\ valued <=> fn_ty.ret # "()"
  BY <1>4 DEF HasSource, BodyTypes, OneType
<1>6. n \in Nat
  BY <1>2, LenProperties
<1> HIDE DEF valued, sourced
<1>7. /\ Fresh(v) /\ v.node = "fn" /\ v.source = valued /\ v.want = want /\ v.op = "none"
  BY <1>5, <1>6, EmptyIs DEF NewVisit, Fresh, VisitType, Nodes
<1>8. /\ Fresh(c) /\ c.node = "block" /\ c.source = sourced /\ c.want = want
  BY <1>5, <1>6, EmptyIs DEF NewVisit, Fresh, VisitType, Nodes
<1> HIDE DEF v, c
<1>9. /\ Len(visits') = 2 /\ DOMAIN visits' = {1, 2} /\ visits'[1] = v /\ visits'[2] = c
  <2>1. /\ Len(<<v, c>>) = 2 /\ DOMAIN <<v, c>> = {1, 2} /\ <<v, c>>[1] = v /\ <<v, c>>[2] = c
    OBVIOUS
  <2> QED
    BY <2>1, <1>1
<1>10. Params' = Params
  BY <1>1 DEF Params, fn_ty
<1> QED
  BY <1>1, <1>2, <1>3, <1>5, <1>7, <1>8, <1>9, <1>10

(* visit_fn begins. *)
LEMMA FnBeginG ==
    ASSUME IInv, FnBegin
    PROVE  SoundInv'
<1> DEFINE r == unit[item].ret
           D == <<{1}, {1, 2}>>
           H == <<{1}, {1}>>
           c2 == code'
           slots2 == scope_manager'
<1>1. /\ unit[item] \in Signature /\ item \in Nat
      /\ Params' = Params /\ unit' = unit /\ item' = item
  BY FnBeginVisits
<1>2. PICK v, c : /\ Len(visits') = 2 /\ DOMAIN visits' = {1, 2}
                  /\ visits'[1] = v /\ visits'[2] = c
                  /\ Fresh(v) /\ v.node = "fn" /\ Fresh(c) /\ c.node = "block"
                  /\ v.source <=> fn_ty.ret # "()"
                  /\ v.source => c.source
                  /\ c.source => OneType(c.want, fn_ty.ret)
                  /\ c.want = v.want /\ v.op = "none"
  BY FnBeginVisits
<1>3. code' = <<Entry, <<>>>> /\ at' = 2
  BY DEF FnBegin
<1>4. Begun(c2, D)
  BY <1>1, <1>3, EntrySound
<1>5. /\ DOMAIN D = {1, 2} /\ D[1] = {1} /\ D[2] = {1, 2}
      /\ DOMAIN H = 1..2 /\ H[1] = {1} /\ H[2] = {1}
  OBVIOUS
<1>6. r = fn_ty.ret
  BY DEF fn_ty
<1> HIDE DEF D, H, c2, slots2, r
<1>7. \A k \in 1..2 : k = 1 \/ k = 2
  OBVIOUS
<1>8. \A k \in 1..(2 - 1) : k = 1 /\ k + 1 = 2
  OBVIOUS
<1>9. /\ Dominators(D, c2) /\ AllSound(unit, item, c2, D) /\ Ending(c2)
      /\ DOMAIN c2 = {1, 2} /\ ~Open(c2, 1)
      /\ \A p \in Params : KnownIn(item, c2, {1}, Slot(p))
  BY <1>4 DEF Begun
<1>10. ~v.after /\ ~c.after /\ v.declared = {} /\ c.declared = {} /\ Last(visits') = c /\ top' = c
  BY <1>2 DEF Fresh, Last, top
<1>11. OpenAre(visits', c2, 2)
  <2>1. Last(visits').node # "fn"
    BY <1>2, <1>10
  <2> QED
    BY <2>1, <1>9 DEF OpenAre
<1>12. \A p \in Params : /\ ParamId(p) \in DOMAIN types' /\ types'[ParamId(p)] = fn_ty.params[p]
                         /\ slots2[ParamId(p)] = Slot(p)
                         /\ TypeOf(Slot(p)) = fn_ty.params[p]
  BY <1>1, FnBeginMaps, SlotIs DEF slots2
<1>13. Named'
  <2>1. \A k \in DOMAIN visits' : visits'[k].declared = {}
    BY <1>2, <1>10
  <2>2. ASSUME NEW id \in Visible' PROVE \E p \in Params : id = ParamId(p)
    <3>1. \E p \in Params' : id = ParamId(p)'
      BY <2>1, <2>2 DEF Visible
    <3> QED
      BY <3>1, <1>1 DEF ParamId
  <2>3. \A id \in Visible' : id \in DOMAIN types' /\ types'[id] = TypeOf(scope_manager'[id])
    BY <2>2, <1>12 DEF slots2
  <2>4. \A p \in Params' : KnownIn(item', code', {1}, scope_manager'[ParamId(p)'])
    <3>1. \A p : ParamId(p)' = ParamId(p)
      BY <1>1 DEF ParamId
    <3> QED
      BY <3>1, <1>1, <1>9, <1>12 DEF slots2, c2
  <2> QED
    BY <2>1, <2>3, <2>4 DEF Named
<1>14. Linking(visits')
  <2>1. Feeds(v, c)
    <3>1. \A t : Gives(c, t) => t \in c.want
      BY <1>2 DEF Gives
    <3>2. \A t \in v.want : Takes(v, t)
      BY <1>2 DEF Takes, Arithmetic
    <3> QED
      BY <3>1, <3>2, <1>2 DEF Feeds
  <2> QED
    BY <2>1, <1>2, <1>8 DEF Linking
<1>15. NoNest(visits')
  <2>1. \A k \in 1..(2 - 1) : visits'[k].node # "if"
    BY <1>2, <1>8
  <2> QED
    BY <2>1, <1>2 DEF NoNest
<1>16. Homes(H, visits', D, 2)
  <2>1. \A k \in 1..2 : H[k] = {1}
    BY <1>5, <1>7
  <2> QED
    BY <2>1, <1>2, <1>5 DEF Homes
<1>17. Wanted(v, r) /\ Wanted(c, r)
  BY <1>2, <1>6 DEF Wanted, OneType
<1>18. ASSUME NEW w, Fresh(w), w.node \in {"fn", "block"}, Wanted(w, r)
       PROVE  Stands(w, {1}, item, r, c2, D, 2, slots2)
  <2>1. Pending(w) = {}
    BY <1>18, NoPending
  <2>2. Carried(w, slots2) = {}
    BY <1>18 DEF Carried, Fresh
  <2>3. IfStands(w, item, c2, D, 2) /\ IfExprStands(w, item, c2, D)
    BY <1>18 DEF IfStands, IfExprStands
  <2> QED
    BY <2>1, <2>2, <2>3, <1>18 DEF Stands
<1>19. \A k \in 1..2 : Stands(visits'[k], H[k], item, r, c2, D, 2, slots2)
  <2>1. Stands(v, {1}, item, r, c2, D, 2, slots2) /\ Stands(c, {1}, item, r, c2, D, 2, slots2)
    BY <1>2, <1>17, <1>18
  <2> QED
    BY <2>1, <1>2, <1>5, <1>7
<1>20. Good(visits', code', at', scope_manager', unit', item', D, H)
  <2>1. Good(visits', c2, 2, slots2, unit, item, D, H)
    BY <1>2, <1>9, <1>11, <1>14, <1>15, <1>16, <1>19 DEF Good, r
  <2> QED
    BY <2>1, <1>1, <1>3 DEF c2, slots2
<1>21. TopValue(visits'[Len(visits')], item', code', D, at', ir_code',
                current_type')
  BY <1>2, <1>10 DEF TopValue
<1> QED
  BY <1>13, <1>20, <1>21, SoundInvGets

-----------------------------------------------------------------------------
(* A function that is done has no open block. *)
LEMMA NoneOpen ==
    ASSUME IInv, SoundInv, Handled, visits # <<>>, top.node = "fn", ~top.after
    PROVE  \A b \in DOMAIN code : ~Open(code, b)
<1> DEFINE n == Len(visits)
<1>1. OpenAre(visits, code, at)
  BY DEF SoundInv
<1>2. /\ n \in Nat /\ n >= 1 /\ DOMAIN visits = 1..n
  BY StateKept, KeptFacts
<1>3. Last(visits) = top
  BY TopFacts DEF IInv
<1>4. n = 1
  <2> SUFFICES ASSUME n # 1 PROVE FALSE
    OBVIOUS
  <2>1. \A k \in 1..(n - 1) : visits[k + 1].node # "fn"
    BY StateKept DEF Kept, Shape, Linked
  <2>2. top = visits[n]
    BY DEF top
  <2> HIDE DEF n
  <2>3. n - 1 \in 1..(n - 1) /\ (n - 1) + 1 = n
    BY <1>2
  <2>4. visits[n].node # "fn"
    BY <2>1, <2>3
  <2> QED
    BY <2>2, <2>4
<1>5. \A k \in DOMAIN visits : Pending(visits[k]) = {}
  <2>1. \A k \in 1..n : visits[k] = top
    BY <1>4 DEF top
  <2>2. Pending(top) = {}
    BY NoPending
  <2> QED
    BY <2>1, <2>2, <1>2
<1> QED
  BY <1>1, <1>3, <1>5 DEF OpenAre

(* So LLVMVerifyFunction has nothing to refuse. *)
LEMMA VerifiedHere ==
    ASSUME IInv, SoundInv, Handled, visits # <<>>, top.node = "fn", ~top.after
    PROVE  Verified
<1>1. PICK D, H : GoodNow(D, H)
  BY SoundInvHas
<1>2. /\ Dominators(D, code) /\ AllSound(unit, item, code, D) /\ Ending(code) /\ CodeType(code)
  BY <1>1, TopStands DEF GoodNow, Good
<1>3. \A b \in DOMAIN code : ~Open(code, b)
  BY NoneOpen
<1>4. \A b \in DOMAIN code :
         /\ code[b] # <<>> /\ Last(code[b]).op \in Terminators
         /\ Targets(code, b) = Succs(b)
  BY <1>3 DEF Open, Targets, Succs
<1>5. \A b : Sources(code, b) = Preds(b)
  BY <1>4 DEF Sources, Preds
<1>6. ASSUME NEW b \in DOMAIN code PROVE EndsOnce(b)
  <2> DEFINE l == Len(code[b])
  <2>1. l \in Nat /\ DOMAIN code[b] = 1..l /\ code[b][l].op \in Terminators
    BY <1>2, <1>4, InstrFacts DEF Last
  <2>2. \A i \in DOMAIN code[b] : code[b][i].op \in Terminators => i = l
    BY <1>2 DEF Ending
  <2> HIDE DEF l
  <2>3. \A i \in DOMAIN code[b] : code[b][i].op \in Terminators <=> i = l
    BY <2>1, <2>2
  <2> QED
    BY <2>3, <1>4 DEF EndsOnce, l
<1>7. ASSUME NEW b \in DOMAIN code, NEW d \in D[b] \ {b}
      PROVE  d \in DOMAIN code \ {b} /\ b \notin Reached(d)
  <2>1. d \in DOMAIN code
    BY <1>2, <1>7 DEF Dominators
  <2> QED
    BY <2>1, <1>2, <1>3, <1>7, DominatorsBlock
<1>8. ASSUME NEW v, NEW b \in DOMAIN code, NEW i, KnownAt(item, code, D, v, b, i)
      PROVE  Known(v, b, i)
  BY <1>7, <1>8 DEF KnownAt, Known, Defines
<1>9. ASSUME NEW v, NEW b \in DOMAIN code, KnownIn(item, code, D[b], v)
      PROVE  Known(v, b, Len(code[b]) + 1)
  <2> DEFINE l == Len(code[b])
  <2>1. l \in Nat /\ DOMAIN code[b] = 1..l
    BY <1>2, InstrFacts
  <2> HIDE DEF l
  <2>2. \A j \in DOMAIN code[b] : j < l + 1
    BY <2>1
  <2>3. Known(v, b, l + 1)
    BY <2>2, <1>7, <1>9 DEF KnownIn, Known, Defines
  <2> QED
    BY <2>3 DEF l
<1>10. ASSUME NEW b \in DOMAIN code, NEW i \in DOMAIN code[b]
       PROVE  /\ WellTyped(code[b][i])
              /\ IF code[b][i].op = "phi" THEN PhiOfPreds(b, code[b][i])
                 ELSE \A a \in DOMAIN code[b][i].args : Known(code[b][i].args[a], b, i)
  <2> DEFINE instr == code[b][i]
  <2>1. /\ Typed(unit, item, instr)
        /\ IF instr.op = "phi" THEN PhiKnown(item, code, D, b, instr)
           ELSE \A k \in DOMAIN instr.args : KnownAt(item, code, D, instr.args[k], b, i)
    BY <1>2 DEF AllSound, Sound
  <2>2. instr \in InstrSet /\ ToSet(instr.blocks) \subseteq DOMAIN code
    BY <1>2, InstrFacts
  <2> HIDE DEF instr
  <2>3. WellTyped(instr)
    BY <2>1 DEF Typed, WellTyped, Callee
  <2>4. ASSUME instr.op = "phi" PROVE PhiOfPreds(b, instr)
    <3>1. PhiKnown(item, code, D, b, instr)
      BY <2>1, <2>4
    <3>2. Len(instr.blocks) = Len(instr.args) /\ ToSet(instr.blocks) = Preds(b)
          /\ Len(instr.blocks) = Cardinality(Preds(b))
      BY <3>1, <1>5 DEF PhiKnown
    <3>3. ASSUME NEW k \in DOMAIN instr.args
          PROVE  Known(instr.args[k], instr.blocks[k], Len(code[instr.blocks[k]]) + 1)
      <4>1. k \in DOMAIN instr.blocks
        <5>1. DOMAIN instr.args = 1..Len(instr.args) /\ DOMAIN instr.blocks = 1..Len(instr.blocks)
          BY <2>2, SeqItems DEF InstrSet
        <5> QED
          BY <5>1, <3>2, <3>3
      <4>2. instr.blocks[k] \in DOMAIN code
        BY <4>1, <2>2 DEF ToSet
      <4>3. KnownIn(item, code, D[instr.blocks[k]], instr.args[k])
        BY <3>1, <3>3 DEF PhiKnown
      <4> QED
        BY <4>2, <4>3, <1>9
    <3> QED
      BY <3>2, <3>3 DEF PhiOfPreds
  <2>5. ASSUME instr.op # "phi", NEW a \in DOMAIN instr.args PROVE Known(instr.args[a], b, i)
    BY <2>1, <2>5, <1>8
  <2> QED
    BY <2>3, <2>4, <2>5 DEF instr
<1> QED
  BY <1>6, <1>10 DEF Verified

-----------------------------------------------------------------------------
(* Failures. *)
LEMMA FnVerifyG ==
    ASSUME IInv, SoundInv, visits # <<>>, FnVerify
    PROVE  SoundInv' /\ (Handled' => stage' = stage)
<1>1. /\ notes' = notes /\ top.node = "fn" /\ ~top.after
      /\ Verified => visits' = <<>> /\ stage' = stage
  BY DEF FnVerify
<1>2. Handled' <=> Handled
  BY <1>1 DEF Handled
<1>3. Handled => Verified
  BY <1>1, VerifiedHere
<1> QED
  BY <1>1, <1>2, <1>3 DEF SoundInv

(* A value is taken where there is one. *)
LEMMA NoExpectFails ==
    ASSUME IInv, SoundInv, visits # <<>>, ExpectFails
    PROVE  ~Handled'
<1> SUFFICES ASSUME Handled' PROVE FALSE
  OBVIOUS
<1>1. notes' = notes /\ top.after /\ TakesValue /\ ir_code = <<>>
  BY DEF ExpectFails
<1>2. Handled
  BY <1>1 DEF Handled
<1>3. PICK D, H : GoodNow(D, H)
  BY <1>2, SoundInvHas
<1>4. VisitType(top) /\ ExprParts(top)
  BY <1>2, <1>3, TopStands DEF Local
<1>5. Valued(top)
  <2>1. CASE top.node \in {"unary", "binary", "if_expr", "call", "let", "return"}
    BY <2>1 DEF Valued, ExprNodes
  <2>2. CASE top.node = "if" /\ top.source
    BY <2>2, <1>2, BelowStack DEF Valued, IInv
  <2>3. CASE /\ top.node = "if"
             /\ Len(top.trees) % 2 = 1 /\ Len(top.trees) < 2 * top.branches
    <3> DEFINE n == Len(top.trees)
               b == top.branches
    <3>1. n \in Nat /\ b \in Nat /\ n % 2 = 1 /\ n < 2 * b /\ Part(top) = n - 1
      BY <2>3, <1>1, <1>4, SeqItems DEF VisitType, Part
    <3> HIDE DEF n
    <3>2. (n - 1) % 2 = 0 /\ n - 1 < 2 * b
      BY <3>1
    <3>3. CondPart(top)
      BY <2>3, <3>1, <3>2 DEF CondPart
    <3> QED
      BY <3>3 DEF Valued
  <2> QED
    BY <2>1, <2>2, <2>3, <1>1 DEF TakesValue
<1>6. top.node \notin {"fn", "block"}
  BY <1>1 DEF TakesValue
<1>7. top.base < Len(ir_code)
  BY <1>1, <1>2, <1>3, <1>5, <1>6, PoppedKnown
<1>8. Len(<<>>) = 0 /\ top.base \in Nat
  BY <1>4, EmptyIs DEF VisitType
<1> QED
  BY <1>1, <1>7, <1>8

-----------------------------------------------------------------------------
(* The visitor's steps. *)
Begins ==
    \/ \E type \in Data : Literal(type) \/ IfExprBegin(type)
    \/ \E id \in Visible : VarRef(id)
    \/ \E op \in UnaryOps : UnaryBegin(op)
    \/ \E op \in BinaryOps : BinaryBegin(op)
    \/ Calls
    \/ \E last \in BOOLEAN :
          \/ \E type \in Data : LetBegin(last, type)
          \/ ExprBegin(last) \/ ReturnBegin(last) \/ ReturnEmpty(last) \/ DoBlock(last)
          \/ \E branches \in 1..MaxBranches, else \in BOOLEAN : IfBegin(last, branches, else)

(* Steps between two parts of a node. *)
Parts ==
    \/ BinaryLeft \/ CallArg
    \/ IfExprCondition \/ IfExprThen
    \/ IfCondition \/ IfBlock \/ IfBlockEnd
    \/ FnEnd

(* Steps that end a node. *)
NodeEnds ==
    \/ UnaryEnd \/ BinaryEnd \/ IfExprElse \/ CallEnd \/ IfEnd
    \/ BlockEnd \/ ReturnEnd \/ ExprStmtEnd

(* These are all steps of the visitor but those that follow. *)
LEMMA VisitNextIs ==
    VisitNext <=> \/ Begins \/ Parts \/ NodeEnds \/ LetEnd
                  \/ FnVerify \/ ExpectFails \/ CallUnknown
BY DEF VisitNext, Begins, Parts, NodeEnds

(* They do not fail, and keep the ids of functions. *)
LEMMA StepsRun ==
    ASSUME Begins \/ Parts \/ NodeEnds
    PROVE  stage' = stage /\ scope_manager' = scope_manager
<1>1. CASE Begins
  <2>1. ASSUME NEW type \in Data, Literal(type) \/ IfExprBegin(type)
        PROVE  stage' = stage /\ scope_manager' = scope_manager
    BY <2>1 DEF Literal, IfExprBegin, Expression, Operation
  <2>2. ASSUME NEW id, VarRef(id) PROVE stage' = stage /\ scope_manager' = scope_manager
    BY <2>2 DEF VarRef, Expression
  <2>3. ASSUME NEW op, UnaryBegin(op) \/ BinaryBegin(op)
        PROVE  stage' = stage /\ scope_manager' = scope_manager
    BY <2>3 DEF UnaryBegin, BinaryBegin, Operation, Expression
  <2>4. ASSUME Calls PROVE stage' = stage /\ scope_manager' = scope_manager
    BY <2>4 DEF Calls, CallBegin, WildCallBegin, Call, Operation, Expression
  <2>5. ASSUME NEW last, NEW type, ReturnEmpty(last) \/ LetBegin(last, type)
        PROVE  stage' = stage /\ scope_manager' = scope_manager
    BY <2>5 DEF ReturnEmpty, LetBegin, Simple, Statement
  <2>6. ASSUME NEW last, ExprBegin(last) \/ ReturnBegin(last) \/ DoBlock(last)
        PROVE  stage' = stage /\ scope_manager' = scope_manager
    BY <2>6 DEF ExprBegin, ReturnBegin, DoBlock, Simple, Statement
  <2>7. ASSUME NEW last, NEW branches, NEW else, IfBegin(last, branches, else)
        PROVE  stage' = stage /\ scope_manager' = scope_manager
    BY <2>7 DEF IfBegin, Statement
  <2> QED
    BY <1>1, <2>1, <2>2, <2>3, <2>4, <2>5, <2>6, <2>7 DEF Begins
<1>2. CASE Parts
  <2>1. CASE BinaryLeft \/ CallArg
    BY <2>1 DEF BinaryLeft, CallArg, At, PartDone, Within
  <2>2. CASE IfExprCondition \/ IfExprThen
    BY <2>2 DEF IfExprCondition, IfExprThen, At, PartDone, Within
  <2>3. CASE IfCondition \/ IfBlock \/ IfBlockEnd
    BY <2>3 DEF IfCondition, IfBlock, IfBlockEnd, PartDone, PartNext, Within
  <2>4. CASE FnEnd
    BY <2>4 DEF FnEnd
  <2> QED
    BY <1>2, <2>1, <2>2, <2>3, <2>4 DEF Parts
<1>3. CASE NodeEnds
  <2>1. CASE UnaryEnd \/ BinaryEnd \/ IfExprElse
    BY <2>1 DEF UnaryEnd, BinaryEnd, IfExprElse, At, PartDone, Within
  <2>2. CASE CallEnd \/ IfEnd \/ BlockEnd
    BY <2>2 DEF CallEnd, IfEnd, BlockEnd, PartNext, Within
  <2>3. CASE ReturnEnd \/ ExprStmtEnd
    BY <2>3 DEF ReturnEnd, ExprStmtEnd, At, PartDone, Within
  <2> QED
    BY <1>3, <2>1, <2>2, <2>3 DEF NodeEnds
<1> QED
  BY <1>1, <1>2, <1>3

(* A node begins. *)
LEMMA BeginsG ==
    ASSUME IInv, SoundInv, visits # <<>>, Begins
    PROVE  SoundInv'
<1>1. CASE \E type \in Data : Literal(type) \/ IfExprBegin(type)
  BY <1>1, LiteralG, IfExprBeginG
<1>2. CASE \E id \in Visible : VarRef(id)
  BY <1>2, VarRefG
<1>3. CASE \E op \in UnaryOps : UnaryBegin(op)
  BY <1>3, UnaryBeginG
<1>4. CASE \E op \in BinaryOps : BinaryBegin(op)
  BY <1>4, BinaryBeginG
<1>5. CASE Calls
  BY <1>5, CallsG
<1>6. CASE \E last \in BOOLEAN :
              ExprBegin(last) \/ ReturnBegin(last) \/ ReturnEmpty(last) \/ DoBlock(last)
  BY <1>6, ExprBeginG, ReturnBeginG, ReturnEmptyG, DoBlockG
<1>8. CASE \E last \in BOOLEAN : \E type \in Data : LetBegin(last, type)
  BY <1>8, LetBeginG
<1>7. CASE \E last \in BOOLEAN : \E branches \in 1..MaxBranches, else \in BOOLEAN :
              IfBegin(last, branches, else)
  BY <1>7, IfBeginG
<1> QED
  BY <1>1, <1>2, <1>3, <1>4, <1>5, <1>6, <1>7, <1>8 DEF Begins

(* A part of it has been visited. *)
LEMMA PartsG ==
    ASSUME IInv, SoundInv, visits # <<>>, Parts
    PROVE  SoundInv'
BY OperandG, IfExprConditionG, IfExprThenG, IfConditionG, IfBlockG, IfBlockEndG, FnEndG DEF Parts

(* A node ends. *)
LEMMA NodeEndsG ==
    ASSUME IInv, SoundInv, FnRefs, visits # <<>>, NodeEnds
    PROVE  SoundInv'
BY UnaryEndG, BinaryEndG, IfExprElseG, CallEndG, IfEndG, BlockEndG, ReturnEndG, ExprStmtEndG
   DEF NodeEnds

(* Functions keep their ids. *)
LEMMA LetFnRefs ==
    ASSUME FnRefs, LetEnd
    PROVE  FnRefs'
<1> DEFINE slot == NewReg(current_type)
           g == [id \in {NewId} |-> slot]
           m == scope_manager'
<1>1. m = With(scope_manager, g) /\ DOMAIN g = {NewId}
  BY DEF LetEnd
<1>2. ASSUME NEW i, FnId(i) = NewId PROVE FALSE
  <2>1. DOMAIN FnId(i) = 1..1 /\ DOMAIN NewId = 1..3
    BY DEF FnId, NewId
  <2>2. 2 \in 1..3 /\ 2 \notin 1..1
    OBVIOUS
  <2> QED
    BY <2>1, <2>2, <1>2
<1> HIDE DEF m, g
<1>3. /\ DOMAIN m = DOMAIN scope_manager \cup {NewId}
      /\ \A id \in DOMAIN scope_manager \ {NewId} : m[id] = scope_manager[id]
  BY <1>1, Zenon DEF With
<1>4. \A i \in Nat : FnId(i) \in DOMAIN m => m[FnId(i)] = FnRef(i)
  BY <1>2, <1>3 DEF FnRefs
<1> QED
  BY <1>4 DEF FnRefs, FnRef, FnId, m

-----------------------------------------------------------------------------
(* All steps. *)
LEMMA SameFnRefs ==
    ASSUME FnRefs, scope_manager' = scope_manager
    PROVE  FnRefs'
BY DEF FnRefs, FnId, FnRef

(* Steps of the visitor. *)
LEMMA VisitKeepsVerifyInv ==
    ASSUME VerifyInv, visits # <<>>, stage = "compile", VisitNext
    PROVE  FnRefs' /\ SoundInv' /\ FailuresHaveACause'
<1>1. IInv /\ FnRefs /\ SoundInv
  BY DEF VerifyInv
<1>2. CASE Begins \/ Parts \/ NodeEnds
  <2>1. stage' = stage /\ scope_manager' = scope_manager
    BY <1>2, StepsRun
  <2>2. SoundInv'
    BY <1>1, <1>2, BeginsG, PartsG, NodeEndsG
  <2> QED
    BY <2>1, <2>2, <1>1, SameFnRefs DEF FailuresHaveACause
<1>3. CASE LetEnd
  <2>1. stage' = stage
    BY <1>3 DEF LetEnd
  <2> QED
    BY <2>1, <1>1, <1>3, LetEndG, LetFnRefs DEF FailuresHaveACause
<1>4. CASE FnVerify
  <2>1. scope_manager' = scope_manager
    BY <1>4 DEF FnVerify
  <2>2. SoundInv' /\ (Handled' => stage' = stage)
    BY <1>1, <1>4, FnVerifyG
  <2> QED
    BY <2>1, <2>2, <1>1, SameFnRefs DEF FailuresHaveACause
<1>5. CASE ExpectFails
  <2>1. scope_manager' = scope_manager
    BY <1>5 DEF ExpectFails
  <2>2. ~Handled'
    BY <1>1, <1>5, NoExpectFails
  <2> QED
    BY <2>1, <2>2, <1>1, SameFnRefs DEF FailuresHaveACause, SoundInv
<1>6. CASE CallUnknown
  <2>1. scope_manager' = scope_manager /\ "forward_call" \in notes'
    BY <1>6 DEF CallUnknown, Note
  <2>2. ~Handled'
    BY <2>1 DEF Handled
  <2> QED
    BY <2>1, <2>2, <1>1, SameFnRefs DEF FailuresHaveACause, SoundInv
<1> QED
  BY <1>2, <1>3, <1>4, <1>5, <1>6, VisitNextIs

(* Steps of ModuleCompiler. *)
LEMMA NextKeepsVerifyInv ==
    ASSUME VerifyInv, [Next]_vars
    PROVE  VerifyInv'
<1>1. IInv /\ FnRefs /\ SoundInv /\ FailuresHaveACause
  BY DEF VerifyInv
<1>2. IInv'
  BY <1>1, NextKeepsInv
<1>3. CASE FnBegin
  <2>1. stage' = stage /\ stage = "compile"
    BY <1>3 DEF FnBegin, AtItem
  <2>2. unit[item] \in Signature
    BY <1>1, <1>3, FnBeginVisits
  <2>3. FnRefs' /\ SoundInv'
    BY <2>2, <1>1, <1>3, FnBeginG, FnBeginMaps
  <2> QED
    BY <2>1, <2>3, <1>2 DEF VerifyInv, FailuresHaveACause
<1>4. CASE SkipTypedef \/ UnitEnd
  <2>1. /\ visits' = <<>> /\ stage' # "panic" /\ scope_manager' = scope_manager
    BY <1>4 DEF SkipTypedef, UnitEnd, AtItem
  <2>2. SoundInv'
    BY <2>1 DEF SoundInv
  <2> QED
    BY <2>1, <2>2, <1>1, <1>2, SameFnRefs DEF VerifyInv, FailuresHaveACause
<1>5. CASE stage = "compile" /\ visits # <<>> /\ VisitNext
  BY <1>2, <1>5, VisitKeepsVerifyInv DEF VerifyInv
<1>6. CASE UNCHANGED vars
  <2>1. /\ unit' = unit /\ stage' = stage /\ item' = item /\ visits' = visits
        /\ ir_code' = ir_code /\ current_type' = current_type /\ types' = types
        /\ scope_manager' = scope_manager /\ code' = code /\ at' = at /\ regs' = regs
        /\ notes' = notes
    BY <1>6 DEF vars, builder
  <2>2. Handled' <=> Handled
    BY <2>1 DEF Handled
  <2>3. FailuresHaveACause'
    BY <2>1, <2>2, <1>1 DEF FailuresHaveACause
  <2>4. SoundInv'
    <3> SUFFICES ASSUME Handled', visits' # <<>> PROVE SoundInv'
      BY DEF SoundInv
    <3>1. Handled /\ visits # <<>>
      BY <2>1, <2>2
    <3>2. Named
      BY <3>1, <1>1, SoundInvHas
    <3>3. PICK D, H : GoodNow(D, H)
      BY <3>1, <1>1, SoundInvHas
    <3>4. Named'
      <4>1. Visible' = Visible /\ Params' = Params /\ \A p : ParamId(p)' = ParamId(p)
        BY <2>1 DEF Visible, Params, ParamId, fn_ty
      <4> QED
        BY <4>1, <3>2, <2>1 DEF Named
    <3>5. Good(visits', code', at', scope_manager', unit', item', D, H)
      BY <3>3, <2>1 DEF GoodNow
    <3>6. TopValue(visits'[Len(visits')], item', code', D, at', ir_code',
                   current_type')
      BY <3>3, <2>1 DEF GoodNow, top
    <3> QED
      BY <3>4, <3>5, <3>6, SoundInvGets
  <2> QED
    BY <2>1, <2>3, <2>4, <1>1, <1>2, SameFnRefs DEF VerifyInv
<1> QED
  BY <1>3, <1>4, <1>5, <1>6, NextIs DEF Ended

(* It begins without code. *)
LEMMA InitVerifyInv ==
    ASSUME Init
    PROVE  VerifyInv
<1>1. stage = "compile" /\ visits = <<>> /\ scope_manager = <<>>
  BY DEF Init
<1>2. FnRefs
  <2>1. DOMAIN <<>> = {}
    BY EmptyIs
  <2> QED
    BY <2>1, <1>1 DEF FnRefs
<1> QED
  BY <1>1, <1>2, InitIInv DEF VerifyInv, SoundInv, FailuresHaveACause

-----------------------------------------------------------------------------
(* The code that the generator has written of a function that it can handle  *)
(* is sound at every step of its visitors: every instruction has operands of *)
(* its types, that are defined on each way to it; every phi has one value for *)
(* each block that goes to its own; every block that has not ended is the    *)
(* builder's or one that a visit still comes to.                             *)
THEOREM GraphsAreSound == Spec => []VerifyInv
<1>1. Init => VerifyInv
  BY InitVerifyInv
<1>2. VerifyInv /\ [Next]_vars => VerifyInv'
  BY NextKeepsVerifyInv
<1> QED
  BY <1>1, <1>2, PTL DEF Spec

(* A unit without the forms that Handled lists is compiled, whatever the     *)
(* order and nesting of its statements, conditionals and variables: no       *)
(* expect of ModuleCompiler fails, no index of scope_manager panics, and     *)
(* LLVMVerifyFunction accepts each function.                                 *)
THEOREM FailuresAreCaused == Spec => []FailuresHaveACause
<1>1. VerifyInv => FailuresHaveACause
  BY DEF VerifyInv
<1> QED
  BY <1>1, GraphsAreSound, PTL
=============================================================================

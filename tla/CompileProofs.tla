---------------------------- MODULE CompileProofs ----------------------------
(***************************************************************************)
(* For every unit and any number of nodes and branches: the generator      *)
(* stays within its types, takes from its stack the value of the part that *)
(* it has visited, and adds nothing to a basic block that has ended.       *)
(***************************************************************************)
EXTENDS Compile, StackFacts

(* The items that are functions. *)
Signature == [kind : {"Fn"}, params : Seq(Data), ret : Types]

(* A sequence, whatever its elements: trees are of no set. *)
IsSeq(s) == s \in Seq(ToSet(s))

(* The values that instructions work on: all but functions. *)
Value == {"const", "reg", "param", "fn"} \X Nat \X Nat \X Types

InstrOps == {"alloca", "store", "load", "br", "cond_br", "ret", "ret_void", "phi", "call",
             "fadd", "fsub", "fcmp_olt", "fcmp_one", "fcmp_oeq", "icmp_eq"}

InstrSet == [op : InstrOps, def : Value, args : Seq(Values), blocks : Seq(Nat)]

Nodes == {"fn", "block", "if", "let", "return", "stmt", "unary", "binary", "if_expr", "call"}
ExprNodes == {"unary", "binary", "if_expr", "call"}

VisitType(v) ==
    /\ v \in [node : Nodes, op : UnaryOps \cup BinaryOps \cup {"none"}, fn : Nat,
              args : Seq(Nat), want : SUBSET Types, trees : {v.trees}, values : Seq(Value),
              blocks : Seq(Nat), after : BOOLEAN, source : BOOLEAN, last : BOOLEAN,
              branches : Nat, tail : BOOLEAN, base : Nat, declared : SUBSET Seq(Nat)]
    /\ IsSeq(v.trees)

(* The part of a node that is visited, or has just been visited. *)
Part(v) == IF v.after THEN Len(v.trees) - 1 ELSE Len(v.trees)

CondPart(v) == v.node = "if" /\ Part(v) % 2 = 0 /\ Part(v) < 2 * v.branches

ExprPart(v) == v.node \in ExprNodes \cup {"let", "return", "stmt"} \/ CondPart(v)

(* The visit has a source, which is given a value. *)
Sourced(v) == v.source /\ v.want \subseteq Data

(* The part leaves a value. *)
Valued(v) ==
    \/ v.node \in ExprNodes \cup {"let", "return"}
    \/ (v.node \in {"stmt", "fn", "if"} /\ Sourced(v))
    \/ (v.node = "block" /\ v.last /\ Sourced(v))
    \/ CondPart(v)

(* What holds of a visit by itself, in a unit u, in a function that returns  *)
(* r, whose basic blocks are D.                                              *)
Flags(v, r) ==
    /\ v.source => \E t \in Types : v.want = {t} /\ (r # "()" => t = r)
    /\ v.node = "fn" => (v.source <=> r # "()")
    /\ v.tail => r # "()"
    /\ r \in Types
    /\ v.node \in {"let", "return", "if_expr"} => v.want \subseteq Data
    /\ v.node = "let" => v.want # {}
    /\ v.last => v.node = "block" /\ v.source
    /\ v.tail => v.node = "block" /\ v.source

ExprParts(v) ==
    /\ v.node \in ExprNodes => Len(v.values) = Part(v) /\ (v.after => Len(v.trees) >= 1)
    /\ v.node \notin {"unary", "binary"} => v.op = "none"
    /\ v.node = "unary" => v.op \in UnaryOps /\ Part(v) = 0
    /\ v.node = "binary" => v.op \in BinaryOps /\ Part(v) <= 1
    /\ v.node = "if_expr" => \/ Part(v) = 0 /\ Len(v.blocks) = 0
                             \/ Part(v) = 1 /\ Len(v.blocks) = 3
                             \/ Part(v) = 2 /\ Len(v.blocks) = 4

IfParts(v) ==
    v.node = "if" =>
        /\ v.branches >= 1
        /\ Len(v.blocks) = 2 * v.branches \/ Len(v.blocks) = 2 * v.branches + 1
        /\ v.source => Len(v.blocks) = 2 * v.branches + 1
        /\ v.after => Len(v.trees) >= 1
        /\ Len(v.trees) <= Len(v.blocks)

CallOK(v, u) ==
    v.node = "call" => /\ v.fn \in DOMAIN u
                       /\ u[v.fn] \in Signature
                       /\ v.args \in Seq(DOMAIN u[v.fn].params)

Local(v, u, r, D) ==
    /\ VisitType(v)
    /\ ToSet(v.blocks) \subseteq D
    /\ Flags(v, r) /\ ExprParts(v) /\ IfParts(v) /\ CallOK(v, u)

(* Of a visit p and that of its part, c. *)
Linked(p, c) ==
    /\ c.node # "fn"
    /\ p.node # "block" => ~p.after
    /\ p.node = "if" => Len(p.trees) < Len(p.blocks)
    /\ c.node \in ExprNodes => ExprPart(p)
    /\ c.node \in {"stmt", "if"} => p.node = "block" /\ c.source = p.last
    /\ c.node = "let" => p.node = "block" /\ (p.last => p.want = {"()"})
    /\ c.node = "return" => p.node = "block"
    /\ c.node \in {"stmt", "if", "block"} /\ c.source => c.want = p.want
    /\ c.node = "block" =>
          \/ p.node = "block" /\ c.source = p.last /\ c.tail = (p.last /\ p.tail)
          \/ p.node = "fn" /\ (p.source => c.source) /\ c.tail = p.source
          \/ p.node = "if" /\ ~CondPart(p) /\ c.source = p.source /\ ~c.tail

(* The visits of a function. *)
Shape(vs, u, r, D) ==
    /\ IsSeq(vs)
    /\ vs # <<>> => vs[1].node = "fn"
    /\ \A k \in 1..Len(vs) : Local(vs[k], u, r, D)
    /\ \A k \in 1..(Len(vs) - 1) : Linked(vs[k], vs[k + 1])

(* A value that is the function's: the blocks around it are at their ends.   *)
Tails(vs) ==
    \A k \in 1..Len(vs) : vs[k].tail =>
        \A j \in 2..(k - 1) : vs[j].node = "block" /\ vs[j].tail /\ vs[j].last

(* Basic blocks of instructions, which branch to basic blocks that there are. *)
CodeType(c) ==
    /\ c \in Seq(Seq(InstrSet))
    /\ \A b \in DOMAIN c : \A i \in DOMAIN c[b] : ToSet(c[b][i].blocks) \subseteq DOMAIN c

(* TypeOK, and what it needs to be kept. *)
TypeInv ==
    /\ unit \in Seq(Item) /\ unit \in {u.items : u \in Units}
    /\ stage \in {"compile", "compiled", "panic"}
    /\ item \in Nat
    /\ ir_code \in Seq(Value)
    /\ current_type \in Types
    /\ \A id \in DOMAIN types : types[id] \in Data
    /\ \A id \in DOMAIN scope_manager : scope_manager[id] \in Values
    /\ CodeType(code)
    /\ at \in DOMAIN code \cup {0}
    /\ regs \in Nat

(* A visit is within a function, whose variables in scope have slots.        *)
VisitsInv ==
    visits # <<>> =>
        /\ item \in DOMAIN unit /\ unit[item] \in Signature
        /\ at \in DOMAIN code
        /\ top.last => top.after
        /\ \A id \in Visible : id \in DOMAIN scope_manager /\ scope_manager[id] \in Value

ShapeInv == Shape(visits, unit, unit[item].ret, DOMAIN code) /\ Tails(visits)

-----------------------------------------------------------------------------
(* The stack ir_code. *)

Datas(s) == \A i \in DOMAIN s : TypeOf(s[i]) \in Data

(* In vs, with n values on the stack. *)
Bases(vs, n) ==
    /\ \A j, k \in DOMAIN vs : j <= k => vs[j].base <= vs[k].base
    /\ vs # <<>> => Last(vs).base <= n
    /\ vs # <<>> /\ ~Last(vs).after /\ Last(vs).node \notin {"block", "fn"} => Last(vs).base = n

(* A return may have taken the value of the part. *)
MayReturn(v) == v.node = "fn" \/ (v.node = "block" /\ v.tail)

(* The value of the part is there, unless it was a return. *)
Left(vs, n, ns) ==
    vs # <<>> /\ Last(vs).after /\ Valued(Last(vs)) =>
        Last(vs).base < n \/ (MayReturn(Last(vs)) /\ "return" \in ns)

(* The part may leave a value: an expression statement leaves it behind, and *)
(* so does a function without a return type.                                 *)
MayLeave(v) == Valued(v) \/ v.node \in {"stmt", "fn"}

(* No more than that value is there, if nothing was left behind. *)
Exact(vs, n, ns) ==
    "discarded" \notin ns =>
        /\ \A k \in DOMAIN vs : vs[k].base = 0
        /\ n <= 1
        /\ n = 0 \/ (vs # <<>> /\ Last(vs).after /\ MayLeave(Last(vs)))

(* What the notes say of each visit and the part of it that is visited.      *)
Noted(vs, ns) ==
    \A k \in 1..(Len(vs) - 1) :
        /\ vs[k + 1].node = "return" => vs[k].last /\ vs[k].tail /\ "return" \in ns
        /\ vs[k + 1].node = "call" /\ Valued(vs[k]) => vs[k + 1].want \subseteq Data
        /\ vs[k + 1].node = "if" /\ vs[k + 1].source => vs[k + 1].want \subseteq Data

(* What the stack, the visits and the slots hold are numbers and Booleans.   *)
DataInv ==
    /\ Datas(ir_code)
    /\ \A k \in DOMAIN visits : Datas(visits[k].values)
    /\ visits # <<>> => \A id \in Visible : TypeOf(scope_manager[id]) \in Data
    /\ visits # <<>> /\ top.after /\ ExprPart(top) /\ Valued(top) => current_type \in Data

(* In what the generator can handle, each value is where its visit takes it. *)
StackInv ==
    Handled =>
        /\ "stale" \notin notes
        /\ DataInv
        /\ Bases(visits, Len(ir_code))
        /\ Left(visits, Len(ir_code), notes)
        /\ Exact(visits, Len(ir_code), notes)
        /\ Noted(visits, notes)

-----------------------------------------------------------------------------
(* The basic blocks and the builder. *)

(* More instructions may be added to the block. *)
Open(c, b) == c[b] = <<>> \/ Last(c[b]).op \notin Terminators

(* Which of the blocks of v the builder has not come to.                     *)
PendingParts(v) ==
    IF v.node = "if_expr" /\ v.blocks # <<>> THEN (Len(v.values) + 1)..3
    ELSE IF v.node = "if" THEN (Part(v) + 1)..Len(v.blocks)
    ELSE {}

(* The basic blocks of v that the builder has not come to. *)
Pending(v) == {v.blocks[j] : j \in PendingParts(v)}

(* These blocks are empty, and each is the one of one part of one visit.     *)
PendingInv(vs, c, a) ==
    /\ \A k \in DOMAIN vs :
          /\ \A b \in Pending(vs[k]) : c[b] = <<>> /\ b # a
          /\ \A i, j \in PendingParts(vs[k]) : vs[k].blocks[i] = vs[k].blocks[j] => i = j
    /\ \A k, m \in DOMAIN vs : k # m => Pending(vs[k]) \cap Pending(vs[m]) = {}

(* The function has been returned from: only ends of blocks are to come.     *)
Returned ==
    /\ visits[1].source
    /\ \A k \in 2..Len(visits) : visits[k].node = "block" /\ visits[k].tail /\ visits[k].last
    /\ top.after
    /\ ir_code = <<>>

(* In what the generator can handle, the builder can append where it is.     *)
OpenInv ==
    Handled /\ visits # <<>> =>
        /\ top.node # "fn" \/ top.after => Open(code, at) \/ Returned
        /\ PendingInv(visits, code, at)

IInv == TypeInv /\ VisitsInv /\ ShapeInv /\ StackInv /\ OpenInv
-----------------------------------------------------------------------------
(* Sequences of anything. *)

LEMMA SeqIsSeq ==
    ASSUME NEW S, NEW s \in Seq(S)
    PROVE  IsSeq(s)
<1>1. Len(s) \in Nat /\ s \in [1..Len(s) -> S] /\ DOMAIN s = 1..Len(s)
  BY LenProperties
<1>2. s \in [1..Len(s) -> ToSet(s)]
  BY <1>1 DEF ToSet
<1>3. s \in UNION {[1..n -> ToSet(s)] : n \in Nat}
  BY <1>1, <1>2
<1> QED
  BY <1>3 DEF IsSeq

LEMMA SeqItems ==
    ASSUME NEW s, IsSeq(s)
    PROVE  /\ Len(s) \in Nat
           /\ DOMAIN s = 1..Len(s)
           /\ s # <<>> <=> Len(s) >= 1
<1>1. s \in Seq(ToSet(s))
  BY DEF IsSeq
<1>2. Len(s) \in Nat /\ DOMAIN s = 1..Len(s)
  BY <1>1, LenProperties
<1>3. s # <<>> => Len(s) \in Nat \ {0}
  BY <1>1, EmptySeq
<1>4. s = <<>> => Len(s) = 0
  BY EmptySeq
<1> QED
  BY <1>2, <1>3, <1>4

LEMMA SeqAppend ==
    ASSUME NEW s, IsSeq(s), NEW e
    PROVE  /\ IsSeq(Append(s, e))
           /\ Append(s, e) # <<>>
           /\ Len(Append(s, e)) = Len(s) + 1
           /\ \A k \in 1..Len(s) : Append(s, e)[k] = s[k]
           /\ Append(s, e)[Len(s) + 1] = e
<1> DEFINE S == ToSet(s) \cup {e}
<1>1. s \in Seq(S)
  BY SeqMonotonic DEF IsSeq
<1>2. e \in S
  OBVIOUS
<1> HIDE DEF S
<1>3. /\ Append(s, e) \in Seq(S)
      /\ Append(s, e) # <<>>
      /\ Len(Append(s, e)) = Len(s) + 1
      /\ \A k \in 1..Len(s) : Append(s, e)[k] = s[k]
      /\ Append(s, e)[Len(s) + 1] = e
  BY <1>1, <1>2, AppendItem
<1>4. IsSeq(Append(s, e))
  BY <1>3, SeqIsSeq
<1> QED
  BY <1>3, <1>4

LEMMA SeqReplaceTop ==
    ASSUME NEW s, IsSeq(s), s # <<>>, NEW e
    PROVE  /\ IsSeq([s EXCEPT ![Len(s)] = e])
           /\ Len([s EXCEPT ![Len(s)] = e]) = Len(s)
           /\ \A k \in 1..(Len(s) - 1) : [s EXCEPT ![Len(s)] = e][k] = s[k]
           /\ [s EXCEPT ![Len(s)] = e][Len(s)] = e
<1> DEFINE S == ToSet(s) \cup {e}
<1>1. s \in Seq(S)
  BY SeqMonotonic DEF IsSeq
<1>2. e \in S
  OBVIOUS
<1>3. Len(s) \in 1..Len(s)
  BY SeqItems
<1> HIDE DEF S
<1> DEFINE n == Len(s)
           r == [s EXCEPT ![n] = e]
<1>4. /\ r \in Seq(S)
      /\ Len(r) = Len(s)
      /\ \A j \in 1..Len(s) : r[j] = IF j = n THEN e ELSE s[j]
  BY <1>1, <1>2, <1>3, ExceptSeq
<1>5. IsSeq(r)
  BY <1>4, SeqIsSeq
<1>6. n \in Nat /\ n = Len(s)
  BY SeqItems
<1> HIDE DEF r, n
<1>7. \A k \in 1..(Len(s) - 1) : r[k] = s[k]
  BY <1>4, <1>6
<1>8. r[n] = e
  BY <1>3, <1>4, <1>6
<1> QED
  BY <1>4, <1>5, <1>7, <1>8 DEF r, n

LEMMA SeqFront ==
    ASSUME NEW s, IsSeq(s), s # <<>>
    PROVE  /\ IsSeq(Front(s))
           /\ Len(Front(s)) = Len(s) - 1
           /\ \A k \in 1..(Len(s) - 1) : Front(s)[k] = s[k]
<1>1. s \in Seq(ToSet(s))
  BY DEF IsSeq
<1>2. Front(s) \in Seq(ToSet(s))
  BY <1>1, FrontItems
<1> QED
  BY <1>1, <1>2, FrontItems, SeqIsSeq

-----------------------------------------------------------------------------
(* Visits. *)

(* The visit after a part of it has ended. *)
GivenTree(v, tree) == [v EXCEPT !.trees = Append(@, tree), !.after = TRUE]

(* But for where it stands within its node, w is v. *)
SameVisit(v, w) ==
    /\ w.node = v.node /\ w.op = v.op /\ w.fn = v.fn /\ w.args = v.args /\ w.want = v.want
    /\ w.source = v.source /\ w.branches = v.branches /\ w.tail = v.tail

LEMMA GivenTreeVisit ==
    ASSUME NEW v, VisitType(v), NEW tree
    PROVE  /\ VisitType(GivenTree(v, tree))
           /\ SameVisit(v, GivenTree(v, tree))
           /\ GivenTree(v, tree).trees = Append(v.trees, tree)
           /\ Len(GivenTree(v, tree).trees) = Len(v.trees) + 1
           /\ GivenTree(v, tree).after = TRUE
           /\ GivenTree(v, tree).values = v.values
           /\ GivenTree(v, tree).blocks = v.blocks
           /\ GivenTree(v, tree).last = v.last
           /\ GivenTree(v, tree).base = v.base
           /\ GivenTree(v, tree).declared = v.declared
<1> DEFINE t == Append(v.trees, tree)
<1>1. IsSeq(t) /\ Len(t) = Len(v.trees) + 1
  BY SeqAppend DEF VisitType
<1>2. GivenTree(v, tree) = [v EXCEPT !.trees = t, !.after = TRUE]
  BY DEF GivenTree
<1> HIDE DEF t
<1> DEFINE w == [v EXCEPT !.trees = t, !.after = TRUE]
<1>3. /\ w.trees = t /\ w.after = TRUE /\ w.values = v.values /\ w.blocks = v.blocks
      /\ w.last = v.last /\ w.base = v.base /\ w.declared = v.declared
      /\ SameVisit(v, w)
  BY DEF VisitType, SameVisit
<1>4. VisitType(w)
  BY <1>1, <1>3 DEF VisitType
<1> HIDE DEF w
<1>5. GivenTree(v, tree) = w
  BY <1>2 DEF w
<1> QED
  BY <1>1, <1>3, <1>4, <1>5 DEF t

LEMMA LeaveIs ==
    ASSUME NEW vs, IsSeq(vs), vs # <<>>, VisitType(vs[Len(vs)]), NEW tree
    PROVE  Leave(vs, tree) = [vs EXCEPT ![Len(vs)] = GivenTree(vs[Len(vs)], tree)]
BY SeqItems DEF Leave, GivenTree, VisitType

-----------------------------------------------------------------------------
(* What a step does to the visits vs: the visit of a part c of the top node  *)
(* begins, which is then w; the top node becomes w; or its visit ends, and   *)
(* the one below becomes w.                                                  *)

Pushes(vs, vs2, w, c) ==
    /\ vs # <<>>
    /\ IsSeq(vs2)
    /\ Len(vs2) = Len(vs) + 1
    /\ \A k \in 1..(Len(vs) - 1) : vs2[k] = vs[k]
    /\ vs2[Len(vs)] = w
    /\ vs2[Len(vs) + 1] = c

Tops(vs, vs2, w) ==
    /\ vs # <<>>
    /\ IsSeq(vs2)
    /\ Len(vs2) = Len(vs)
    /\ \A k \in 1..(Len(vs) - 1) : vs2[k] = vs[k]
    /\ vs2[Len(vs)] = w

Ends(vs, vs2, w) ==
    /\ Len(vs) >= 2
    /\ IsSeq(vs2)
    /\ Len(vs2) = Len(vs) - 1
    /\ \A k \in 1..(Len(vs) - 2) : vs2[k] = vs[k]
    /\ vs2[Len(vs) - 1] = w

LEMMA PushOnTop ==
    ASSUME NEW vs, IsSeq(vs), vs # <<>>, NEW c
    PROVE  Pushes(vs, Append(vs, c), vs[Len(vs)], c)
<1>1. /\ IsSeq(Append(vs, c))
      /\ Len(Append(vs, c)) = Len(vs) + 1
      /\ \A k \in 1..Len(vs) : Append(vs, c)[k] = vs[k]
      /\ Append(vs, c)[Len(vs) + 1] = c
  BY SeqAppend
<1>2. Len(vs) \in Nat /\ Len(vs) >= 1
  BY SeqItems
<1> DEFINE a == Append(vs, c)
<1> HIDE DEF a
<1>3. /\ \A k \in 1..(Len(vs) - 1) : a[k] = vs[k]
      /\ a[Len(vs)] = vs[Len(vs)]
  BY <1>1, <1>2 DEF a
<1> QED
  BY <1>1, <1>3 DEF Pushes, a

LEMMA TopBecomes ==
    ASSUME NEW vs, IsSeq(vs), vs # <<>>, NEW w
    PROVE  Tops(vs, [vs EXCEPT ![Len(vs)] = w], w)
BY SeqReplaceTop DEF Tops

LEMMA PushOnChanged ==
    ASSUME NEW vs, IsSeq(vs), vs # <<>>, NEW w, NEW c
    PROVE  Pushes(vs, Append([vs EXCEPT ![Len(vs)] = w], c), w, c)
<1> DEFINE r == [vs EXCEPT ![Len(vs)] = w]
<1>1. /\ IsSeq(r) /\ Len(r) = Len(vs)
      /\ \A k \in 1..(Len(vs) - 1) : r[k] = vs[k]
      /\ r[Len(vs)] = w
  BY SeqReplaceTop
<1>2. Len(vs) \in Nat /\ Len(vs) >= 1
  BY SeqItems
<1> HIDE DEF r
<1>3. r # <<>>
  BY <1>1, <1>2, SeqItems
<1>4. Pushes(r, Append(r, c), r[Len(r)], c)
  BY <1>1, <1>3, PushOnTop
<1> QED
  BY <1>1, <1>4 DEF Pushes, r

LEMMA LeafLeaves ==
    ASSUME NEW vs, IsSeq(vs), vs # <<>>, VisitType(vs[Len(vs)]), NEW tree
    PROVE  Tops(vs, Leave(vs, tree), GivenTree(vs[Len(vs)], tree))
BY LeaveIs, TopBecomes

(* The visit on top ends, after the one below has become p. *)
LEMMA EndLeaves ==
    ASSUME NEW vs, IsSeq(vs), Len(vs) >= 2, NEW p, VisitType(p), NEW tree
    PROVE  Ends(vs, Leave([Front(vs) EXCEPT ![Len(vs) - 1] = p], tree), GivenTree(p, tree))
<1> DEFINE f == Front(vs)
           r == [f EXCEPT ![Len(vs) - 1] = p]
<1>1. Len(vs) \in Nat /\ vs # <<>>
  BY SeqItems
<1>2. IsSeq(f) /\ Len(f) = Len(vs) - 1 /\ \A k \in 1..(Len(vs) - 1) : f[k] = vs[k]
  BY <1>1, SeqFront
<1> HIDE DEF f
<1>3. f # <<>>
  BY <1>1, <1>2, SeqItems
<1>4. Tops(f, r, p)
  BY <1>2, <1>3, TopBecomes
<1> HIDE DEF r
<1>5. r # <<>> /\ IsSeq(r) /\ r[Len(r)] = p
  BY <1>1, <1>2, <1>3, <1>4, SeqItems DEF Tops
<1>6. Tops(r, Leave(r, tree), GivenTree(p, tree))
  BY <1>5, LeafLeaves
<1> DEFINE l == Leave(r, tree)
<1> HIDE DEF l
<1>7. /\ IsSeq(l)
      /\ Len(l) = Len(vs) - 1
      /\ l[Len(vs) - 1] = GivenTree(p, tree)
  BY <1>2, <1>4, <1>6 DEF Tops, l
<1>8. \A k \in 1..(Len(vs) - 2) : l[k] = vs[k]
  <2> SUFFICES ASSUME NEW k \in 1..(Len(vs) - 2)
               PROVE  l[k] = vs[k]
    OBVIOUS
  <2>1. k \in 1..(Len(vs) - 1) /\ k \in 1..(Len(r) - 1) /\ k \in 1..(Len(f) - 1)
    BY <1>1, <1>2, <1>4 DEF Tops
  <2> QED
    BY <2>1, <1>2, <1>4, <1>6 DEF Tops, l
<1> QED
  BY <1>7, <1>8 DEF Ends, l, r, f

LEMMA ReturnLeaves ==
    ASSUME NEW vs, IsSeq(vs), Len(vs) >= 2, VisitType(vs[Len(vs) - 1]), NEW tree
    PROVE  Ends(vs, Leave(Front(vs), tree), GivenTree(vs[Len(vs) - 1], tree))
<1> DEFINE n == Len(vs) - 1
           f == Front(vs)
<1>1. Len(vs) \in Nat /\ vs # <<>> /\ n \in 1..(Len(vs) - 1)
  BY SeqItems
<1>2. IsSeq(f) /\ Len(f) = n /\ \A k \in 1..(Len(vs) - 1) : f[k] = vs[k]
  BY <1>1, SeqFront
<1>3. f[n] = vs[n]
  BY <1>1, <1>2
<1> HIDE DEF f, n
<1>4. n \in Nat /\ DOMAIN f = 1..n
  BY <1>2, SeqItems
<1>5. f = [f EXCEPT ![n] = vs[n]]
  BY <1>2, <1>3, <1>4 DEF IsSeq
<1>6. Ends(vs, Leave([f EXCEPT ![n] = vs[n]], tree), GivenTree(vs[n], tree))
  BY EndLeaves DEF f, n
<1> QED
  BY <1>5, <1>6 DEF f, n

-----------------------------------------------------------------------------
(* What these steps keep of the shape of the visits. *)

LEMMA LocalGrows ==
    ASSUME NEW v, NEW u, NEW r, NEW D, NEW D2, D \subseteq D2, Local(v, u, r, D)
    PROVE  Local(v, u, r, D2)
BY DEF Local

LEMMA LinkedAlike ==
    ASSUME NEW p, NEW c, NEW w, Linked(p, c), SameVisit(c, w)
    PROVE  Linked(p, w)
BY DEF Linked, SameVisit

LEMMA ShapePushes ==
    ASSUME NEW vs, NEW vs2, NEW w, NEW c, NEW u, NEW r, NEW D, NEW D2, D \subseteq D2,
           Shape(vs, u, r, D), Pushes(vs, vs2, w, c),
           SameVisit(vs[Len(vs)], w), Local(w, u, r, D2), Local(c, u, r, D2), Linked(w, c)
    PROVE  Shape(vs2, u, r, D2)
<1>1. /\ IsSeq(vs) /\ vs # <<>> /\ vs[1].node = "fn"
      /\ \A k \in 1..Len(vs) : Local(vs[k], u, r, D)
      /\ \A k \in 1..(Len(vs) - 1) : Linked(vs[k], vs[k + 1])
  BY DEF Shape, Pushes
<1>2. Len(vs) \in Nat /\ Len(vs) >= 1
  BY <1>1, SeqItems
<1>3. /\ IsSeq(vs2) /\ Len(vs2) = Len(vs) + 1
      /\ \A k \in 1..(Len(vs) - 1) : vs2[k] = vs[k]
      /\ vs2[Len(vs)] = w /\ vs2[Len(vs) + 1] = c
  BY DEF Pushes
<1>4. vs2[1].node = "fn"
  BY <1>1, <1>2, <1>3 DEF SameVisit
<1>5. ASSUME NEW k \in 1..Len(vs2) PROVE Local(vs2[k], u, r, D2)
  <2>1. CASE k = Len(vs) \/ k = Len(vs) + 1
    BY <2>1, <1>3
  <2>2. CASE k \in 1..(Len(vs) - 1)
    BY <2>2, <1>1, <1>2, <1>3, LocalGrows
  <2> QED
    BY <2>1, <2>2, <1>2, <1>3
<1>6. ASSUME NEW k \in 1..(Len(vs2) - 1) PROVE Linked(vs2[k], vs2[k + 1])
  <2>1. CASE k = Len(vs)
    BY <2>1, <1>3
  <2>2. CASE k = Len(vs) - 1
    <3>1. k \in 1..(Len(vs) - 1) /\ k + 1 = Len(vs)
      BY <2>2, <1>2
    <3>2. Linked(vs[k], vs[k + 1]) /\ vs2[k] = vs[k]
      BY <3>1, <1>1, <1>3
    <3> QED
      BY <3>1, <3>2, <1>3, LinkedAlike
  <2>3. CASE k \in 1..(Len(vs) - 2)
    <3>1. k \in 1..(Len(vs) - 1) /\ k + 1 \in 1..(Len(vs) - 1)
      BY <2>3, <1>2
    <3> QED
      BY <3>1, <1>1, <1>3
  <2> QED
    BY <2>1, <2>2, <2>3, <1>2, <1>3
<1> QED
  BY <1>3, <1>4, <1>5, <1>6 DEF Shape

LEMMA ShapeTops ==
    ASSUME NEW vs, NEW vs2, NEW w, NEW u, NEW r, NEW D, NEW D2, D \subseteq D2,
           Shape(vs, u, r, D), Tops(vs, vs2, w),
           SameVisit(vs[Len(vs)], w), Local(w, u, r, D2)
    PROVE  Shape(vs2, u, r, D2)
<1>1. /\ IsSeq(vs) /\ vs # <<>> /\ vs[1].node = "fn"
      /\ \A k \in 1..Len(vs) : Local(vs[k], u, r, D)
      /\ \A k \in 1..(Len(vs) - 1) : Linked(vs[k], vs[k + 1])
  BY DEF Shape, Tops
<1>2. Len(vs) \in Nat /\ Len(vs) >= 1
  BY <1>1, SeqItems
<1>3. /\ IsSeq(vs2) /\ Len(vs2) = Len(vs)
      /\ \A k \in 1..(Len(vs) - 1) : vs2[k] = vs[k]
      /\ vs2[Len(vs)] = w
  BY DEF Tops
<1>4. vs2[1].node = "fn"
  BY <1>1, <1>2, <1>3 DEF SameVisit
<1>5. ASSUME NEW k \in 1..Len(vs2) PROVE Local(vs2[k], u, r, D2)
  <2>1. CASE k = Len(vs)
    BY <2>1, <1>3
  <2>2. CASE k \in 1..(Len(vs) - 1)
    BY <2>2, <1>1, <1>2, <1>3, LocalGrows
  <2> QED
    BY <2>1, <2>2, <1>2, <1>3
<1>6. ASSUME NEW k \in 1..(Len(vs2) - 1) PROVE Linked(vs2[k], vs2[k + 1])
  <2>1. CASE k = Len(vs) - 1
    <3>1. k \in 1..(Len(vs) - 1) /\ k + 1 = Len(vs)
      BY <2>1, <1>2
    <3>2. Linked(vs[k], vs[k + 1]) /\ vs2[k] = vs[k]
      BY <3>1, <1>1, <1>3
    <3> QED
      BY <3>1, <3>2, <1>3, LinkedAlike
  <2>2. CASE k \in 1..(Len(vs) - 2)
    <3>1. k \in 1..(Len(vs) - 1) /\ k + 1 \in 1..(Len(vs) - 1)
      BY <2>2, <1>2
    <3> QED
      BY <3>1, <1>1, <1>3
  <2> QED
    BY <2>1, <2>2, <1>2, <1>3
<1> QED
  BY <1>3, <1>4, <1>5, <1>6 DEF Shape

LEMMA ShapeEnds ==
    ASSUME NEW vs, NEW vs2, NEW w, NEW u, NEW r, NEW D, NEW D2, D \subseteq D2,
           Shape(vs, u, r, D), Ends(vs, vs2, w),
           SameVisit(vs[Len(vs) - 1], w), Local(w, u, r, D2)
    PROVE  Shape(vs2, u, r, D2)
<1>1. /\ IsSeq(vs) /\ vs # <<>> /\ vs[1].node = "fn"
      /\ \A k \in 1..Len(vs) : Local(vs[k], u, r, D)
      /\ \A k \in 1..(Len(vs) - 1) : Linked(vs[k], vs[k + 1])
  BY SeqItems DEF Shape, Ends
<1>2. Len(vs) \in Nat /\ Len(vs) >= 2
  BY <1>1, SeqItems DEF Ends
<1>3. /\ IsSeq(vs2) /\ Len(vs2) = Len(vs) - 1
      /\ \A k \in 1..(Len(vs) - 2) : vs2[k] = vs[k]
      /\ vs2[Len(vs) - 1] = w
  BY DEF Ends
<1>4. vs2[1].node = "fn"
  BY <1>1, <1>2, <1>3 DEF SameVisit
<1>5. ASSUME NEW k \in 1..Len(vs2) PROVE Local(vs2[k], u, r, D2)
  <2>1. CASE k = Len(vs) - 1
    BY <2>1, <1>3
  <2>2. CASE k \in 1..(Len(vs) - 2)
    <3>1. k \in 1..Len(vs)
      BY <2>2, <1>2
    <3> QED
      BY <3>1, <2>2, <1>1, <1>3, LocalGrows
  <2> QED
    BY <2>1, <2>2, <1>2, <1>3
<1>6. ASSUME NEW k \in 1..(Len(vs2) - 1) PROVE Linked(vs2[k], vs2[k + 1])
  <2>1. CASE k = Len(vs) - 2
    <3>1. k \in 1..(Len(vs) - 1) /\ k + 1 = Len(vs) - 1 /\ k \in 1..(Len(vs) - 2)
      BY <2>1, <1>2, <1>3
    <3>2. Linked(vs[k], vs[k + 1]) /\ vs2[k] = vs[k]
      BY <3>1, <1>1, <1>3
    <3> QED
      BY <3>1, <3>2, <1>3, LinkedAlike
  <2>2. CASE k \in 1..(Len(vs) - 3)
    <3>1. k \in 1..(Len(vs) - 1) /\ k \in 1..(Len(vs) - 2) /\ k + 1 \in 1..(Len(vs) - 2)
      BY <2>2, <1>2
    <3> QED
      BY <3>1, <1>1, <1>3
  <2> QED
    BY <2>1, <2>2, <1>2, <1>3
<1> QED
  BY <1>3, <1>4, <1>5, <1>6 DEF Shape

-----------------------------------------------------------------------------
(* Tails. *)

(* A part of the node w with the flag tail is one that can end the function. *)
TailLinked(w, c) == c.tail => w.node = "fn" \/ (w.node = "block" /\ w.tail /\ w.last)

LEMMA TailsPushes ==
    ASSUME NEW vs, NEW vs2, NEW w, NEW c, NEW u, NEW r, NEW D, Shape(vs, u, r, D), Tails(vs),
           Pushes(vs, vs2, w, c), SameVisit(vs[Len(vs)], w), TailLinked(w, c)
    PROVE  Tails(vs2)
<1>1. /\ IsSeq(vs) /\ vs # <<>>
      /\ \A k \in 1..(Len(vs) - 1) : Linked(vs[k], vs[k + 1])
  BY DEF Shape, Pushes
<1>2. Len(vs) \in Nat /\ Len(vs) >= 1
  BY <1>1, SeqItems
<1>3. /\ IsSeq(vs2) /\ Len(vs2) = Len(vs) + 1
      /\ \A k \in 1..(Len(vs) - 1) : vs2[k] = vs[k]
      /\ vs2[Len(vs)] = w /\ vs2[Len(vs) + 1] = c
  BY DEF Pushes
<1>4. \A k \in 1..Len(vs) : vs[k].tail =>
          \A j \in 2..(k - 1) : vs[j].node = "block" /\ vs[j].tail /\ vs[j].last
  BY DEF Tails
<1>5. w.tail = vs[Len(vs)].tail /\ w.node = vs[Len(vs)].node
  BY DEF SameVisit
<1>7. Len(vs) = 1 \/ Len(vs) >= 2
  BY <1>2
<1>6. ASSUME NEW k \in 1..Len(vs2), vs2[k].tail, NEW j \in 2..(k - 1)
      PROVE  vs2[j].node = "block" /\ vs2[j].tail /\ vs2[j].last
  <2>1. CASE k <= Len(vs)
    <3>1. k \in 1..Len(vs) /\ vs[k].tail /\ j \in 1..(Len(vs) - 1)
      BY <2>1, <1>2, <1>3, <1>5, <1>6
    <3> QED
      BY <3>1, <1>3, <1>4, <1>6
  <2>2. CASE k = Len(vs) + 1 /\ w.node = "fn"
    <3>1. Len(vs) = 1
      <4>1. CASE Len(vs) >= 2
        <5>1. Len(vs) - 1 \in 1..(Len(vs) - 1) /\ Len(vs) - 1 + 1 = Len(vs)
          BY <4>1, <1>2
        <5>2. Linked(vs[Len(vs) - 1], vs[Len(vs)])
          BY <5>1, <1>1
        <5> QED
          BY <5>2, <2>2, <1>5 DEF Linked
      <4> QED
        BY <4>1, <1>7
    <3> QED
      BY <3>1, <2>2, <1>6
  <2>3. CASE k = Len(vs) + 1 /\ w.node = "block" /\ w.tail /\ w.last
    <3>1. CASE j = Len(vs)
      BY <3>1, <2>3, <1>3
    <3>2. CASE j < Len(vs)
      <4>1. j \in 1..(Len(vs) - 1) /\ j \in 2..(Len(vs) - 1) /\ Len(vs) \in 1..Len(vs)
        BY <3>2, <1>2
      <4> QED
        BY <4>1, <2>3, <1>3, <1>4, <1>5
    <3> QED
      BY <3>1, <3>2, <2>3, <1>2
  <2>4. k = Len(vs) + 1 => c.tail
    BY <1>3, <1>6
  <2>5. k <= Len(vs) \/ k = Len(vs) + 1
    <3>1. Len(vs2) = Len(vs) + 1
      BY <1>3
    <3>2. k \in Nat /\ k <= Len(vs2)
      BY <1>2, <3>1
    <3> QED
      BY <3>1, <3>2, <1>2
  <2> QED
    BY <2>1, <2>2, <2>3, <2>4, <2>5 DEF TailLinked
<1> QED
  BY <1>6 DEF Tails

LEMMA TailsTops ==
    ASSUME NEW vs, NEW vs2, NEW w, Tails(vs), IsSeq(vs),
           Tops(vs, vs2, w), SameVisit(vs[Len(vs)], w)
    PROVE  Tails(vs2)
<1>1. Len(vs) \in Nat /\ Len(vs) >= 1
  BY SeqItems DEF Tops
<1>2. /\ IsSeq(vs2) /\ Len(vs2) = Len(vs)
      /\ \A k \in 1..(Len(vs) - 1) : vs2[k] = vs[k]
      /\ vs2[Len(vs)] = w
  BY DEF Tops
<1>3. \A k \in 1..Len(vs) : vs[k].tail =>
          \A j \in 2..(k - 1) : vs[j].node = "block" /\ vs[j].tail /\ vs[j].last
  BY DEF Tails
<1>4. w.tail = vs[Len(vs)].tail
  BY DEF SameVisit
<1>5. ASSUME NEW k \in 1..Len(vs2), vs2[k].tail, NEW j \in 2..(k - 1)
      PROVE  vs2[j].node = "block" /\ vs2[j].tail /\ vs2[j].last
  <2>1. k \in 1..Len(vs) /\ vs[k].tail /\ j \in 1..(Len(vs) - 1)
    BY <1>1, <1>2, <1>4, <1>5
  <2> QED
    BY <2>1, <1>2, <1>3, <1>5
<1> QED
  BY <1>5 DEF Tails

LEMMA TailsEnds ==
    ASSUME NEW vs, NEW vs2, NEW w, Tails(vs), IsSeq(vs),
           Ends(vs, vs2, w), SameVisit(vs[Len(vs) - 1], w)
    PROVE  Tails(vs2)
<1>1. Len(vs) \in Nat /\ Len(vs) >= 2
  BY SeqItems DEF Ends
<1>2. /\ IsSeq(vs2) /\ Len(vs2) = Len(vs) - 1
      /\ \A k \in 1..(Len(vs) - 2) : vs2[k] = vs[k]
      /\ vs2[Len(vs) - 1] = w
  BY DEF Ends
<1>3. \A k \in 1..Len(vs) : vs[k].tail =>
          \A j \in 2..(k - 1) : vs[j].node = "block" /\ vs[j].tail /\ vs[j].last
  BY DEF Tails
<1>4. w.tail = vs[Len(vs) - 1].tail
  BY DEF SameVisit
<1>5. ASSUME NEW k \in 1..Len(vs2), vs2[k].tail, NEW j \in 2..(k - 1)
      PROVE  vs2[j].node = "block" /\ vs2[j].tail /\ vs2[j].last
  <2>1. k \in 1..Len(vs) /\ vs[k].tail /\ j \in 1..(Len(vs) - 2)
    BY <1>1, <1>2, <1>4, <1>5
  <2> QED
    BY <2>1, <1>2, <1>3, <1>5
<1> QED
  BY <1>5 DEF Tails

-----------------------------------------------------------------------------
(* What these steps keep of the stack, which has n2 values after them.       *)

HasBases(vs) == \A k \in 1..Len(vs) : vs[k].base \in Nat

LEMMA BasesPushes ==
    ASSUME NEW vs, IsSeq(vs), HasBases(vs), NEW vs2, NEW w, NEW c, Pushes(vs, vs2, w, c),
           NEW n \in Nat, Bases(vs, n),
           w.base \in Nat, vs[Len(vs)].base <= w.base, w.base <= n, c.base = n
    PROVE  Bases(vs2, n)
<1>1. Len(vs) \in Nat /\ Len(vs) >= 1 /\ DOMAIN vs = 1..Len(vs)
  BY SeqItems DEF Pushes
<1>2. /\ IsSeq(vs2) /\ Len(vs2) = Len(vs) + 1
      /\ \A k \in 1..(Len(vs) - 1) : vs2[k] = vs[k]
      /\ vs2[Len(vs)] = w /\ vs2[Len(vs) + 1] = c
  BY DEF Pushes
<1>3. DOMAIN vs2 = 1..(Len(vs) + 1)
  BY <1>2, SeqItems
<1> DEFINE m == Len(vs)
<1>4. m \in Nat /\ m >= 1
  BY <1>1
<1>5. \A j, k \in 1..m : j <= k => vs[j].base <= vs[k].base
  BY <1>1 DEF Bases
<1>6. \A k \in 1..(m - 1) : vs2[k] = vs[k] /\ vs[k].base \in Nat
  BY <1>1, <1>2 DEF HasBases
<1>7. vs2[m] = w /\ vs2[m + 1] = c /\ vs[m].base <= w.base /\ vs[m].base \in Nat
  BY <1>1, <1>2 DEF HasBases
<1>8. Last(vs2) = c
  BY <1>2 DEF Last
<1> HIDE DEF m
<1>9. \A k \in 1..(m - 1) : vs2[k].base \in Nat /\ vs2[k].base <= w.base
  <2> SUFFICES ASSUME NEW k \in 1..(m - 1) PROVE vs2[k].base \in Nat /\ vs2[k].base <= w.base
    OBVIOUS
  <2>1. k \in 1..m /\ m \in 1..m /\ k <= m
    BY <1>4
  <2>2. vs[k].base <= vs[m].base
    BY <2>1, <1>5
  <2> QED
    BY <2>2, <1>6, <1>7
<1>10. ASSUME NEW j \in 1..(m + 1), NEW k \in 1..(m + 1), j <= k
       PROVE  vs2[j].base <= vs2[k].base
  <2>1. CASE k = m + 1
    <3>1. j \in 1..(m - 1) \/ j = m \/ j = m + 1
      BY <1>4
    <3> QED
      BY <2>1, <3>1, <1>7, <1>9
  <2>2. CASE k = m
    <3>1. j \in 1..(m - 1) \/ j = m
      BY <2>2, <1>4, <1>10
    <3> QED
      BY <2>2, <3>1, <1>7, <1>9
  <2>3. CASE k \in 1..(m - 1)
    <3>1. j \in 1..(m - 1) /\ j \in 1..m /\ k \in 1..m
      BY <2>3, <1>4, <1>10
    <3> QED
      BY <2>3, <3>1, <1>5, <1>6, <1>10
  <2> QED
    BY <2>1, <2>2, <2>3, <1>4
<1>11. \A j, k \in DOMAIN vs2 : j <= k => vs2[j].base <= vs2[k].base
  BY <1>3, <1>10 DEF m
<1> QED
  BY <1>8, <1>11 DEF Bases

LEMMA BasesTops ==
    ASSUME NEW vs, IsSeq(vs), HasBases(vs), NEW vs2, NEW w, Tops(vs, vs2, w),
           NEW n, Bases(vs, n), NEW n2 \in Nat,
           w.base \in Nat, vs[Len(vs)].base <= w.base, w.base <= n2,
           ~w.after /\ w.node \notin {"block", "fn"} => w.base = n2
    PROVE  Bases(vs2, n2)
<1>1. Len(vs) \in Nat /\ Len(vs) >= 1 /\ DOMAIN vs = 1..Len(vs)
  BY SeqItems DEF Tops
<1>2. /\ IsSeq(vs2) /\ Len(vs2) = Len(vs)
      /\ \A k \in 1..(Len(vs) - 1) : vs2[k] = vs[k]
      /\ vs2[Len(vs)] = w
  BY DEF Tops
<1>3. DOMAIN vs2 = 1..Len(vs)
  BY <1>2, SeqItems
<1> DEFINE m == Len(vs)
<1>4. m \in Nat /\ m >= 1
  BY <1>1
<1>5. \A j, k \in 1..m : j <= k => vs[j].base <= vs[k].base
  BY <1>1 DEF Bases
<1>6. \A k \in 1..(m - 1) : vs2[k] = vs[k] /\ vs[k].base \in Nat
  BY <1>1, <1>2 DEF HasBases
<1>7. vs2[m] = w /\ vs[m].base <= w.base /\ vs[m].base \in Nat
  BY <1>1, <1>2 DEF HasBases
<1>8. Last(vs2) = w
  BY <1>2 DEF Last
<1> HIDE DEF m
<1>9. \A k \in 1..(m - 1) : vs2[k].base \in Nat /\ vs2[k].base <= w.base
  <2> SUFFICES ASSUME NEW k \in 1..(m - 1) PROVE vs2[k].base \in Nat /\ vs2[k].base <= w.base
    OBVIOUS
  <2>1. k \in 1..m /\ m \in 1..m /\ k <= m
    BY <1>4
  <2>2. vs[k].base <= vs[m].base
    BY <2>1, <1>5
  <2> QED
    BY <2>2, <1>6, <1>7
<1>10. ASSUME NEW j \in 1..m, NEW k \in 1..m, j <= k
       PROVE  vs2[j].base <= vs2[k].base
  <2>1. CASE k = m
    <3>1. j \in 1..(m - 1) \/ j = m
      BY <1>4
    <3> QED
      BY <2>1, <3>1, <1>7, <1>9
  <2>2. CASE k \in 1..(m - 1)
    <3>1. j \in 1..(m - 1) /\ j \in 1..m /\ k \in 1..m
      BY <2>2, <1>4, <1>10
    <3> QED
      BY <2>2, <3>1, <1>5, <1>6, <1>10
  <2> QED
    BY <2>1, <2>2, <1>4
<1>11. \A j, k \in DOMAIN vs2 : j <= k => vs2[j].base <= vs2[k].base
  BY <1>3, <1>10 DEF m
<1> QED
  BY <1>8, <1>11 DEF Bases

LEMMA BasesEnds ==
    ASSUME NEW vs, IsSeq(vs), HasBases(vs), NEW vs2, NEW w, Ends(vs, vs2, w),
           NEW n, Bases(vs, n), NEW n2 \in Nat,
           w.base \in Nat, vs[Len(vs) - 1].base <= w.base, w.base <= n2, w.after
    PROVE  Bases(vs2, n2)
<1>1. Len(vs) \in Nat /\ Len(vs) >= 2 /\ DOMAIN vs = 1..Len(vs)
  BY SeqItems DEF Ends
<1>2. /\ IsSeq(vs2) /\ Len(vs2) = Len(vs) - 1
      /\ \A k \in 1..(Len(vs) - 2) : vs2[k] = vs[k]
      /\ vs2[Len(vs) - 1] = w
  BY DEF Ends
<1>3. DOMAIN vs2 = 1..(Len(vs) - 1)
  BY <1>2, SeqItems
<1> DEFINE m == Len(vs) - 1
<1>4. m \in Nat /\ m >= 1
  BY <1>1
<1>5. \A j, k \in 1..m : j <= k => vs[j].base <= vs[k].base
  BY <1>1 DEF Bases
<1>6. \A k \in 1..(m - 1) : vs2[k] = vs[k] /\ vs[k].base \in Nat
  BY <1>1, <1>2 DEF HasBases
<1>7. vs2[m] = w /\ vs[m].base <= w.base /\ vs[m].base \in Nat
  BY <1>1, <1>2 DEF HasBases
<1>8. Last(vs2) = w
  BY <1>2 DEF Last
<1> HIDE DEF m
<1>9. \A k \in 1..(m - 1) : vs2[k].base \in Nat /\ vs2[k].base <= w.base
  <2> SUFFICES ASSUME NEW k \in 1..(m - 1) PROVE vs2[k].base \in Nat /\ vs2[k].base <= w.base
    OBVIOUS
  <2>1. k \in 1..m /\ m \in 1..m /\ k <= m
    BY <1>4
  <2>2. vs[k].base <= vs[m].base
    BY <2>1, <1>5
  <2> QED
    BY <2>2, <1>6, <1>7
<1>10. ASSUME NEW j \in 1..m, NEW k \in 1..m, j <= k
       PROVE  vs2[j].base <= vs2[k].base
  <2>1. CASE k = m
    <3>1. j \in 1..(m - 1) \/ j = m
      BY <1>4
    <3> QED
      BY <2>1, <3>1, <1>7, <1>9
  <2>2. CASE k \in 1..(m - 1)
    <3>1. j \in 1..(m - 1) /\ j \in 1..m /\ k \in 1..m
      BY <2>2, <1>4, <1>10
    <3> QED
      BY <2>2, <3>1, <1>5, <1>6, <1>10
  <2> QED
    BY <2>1, <2>2, <1>4
<1>11. \A j, k \in DOMAIN vs2 : j <= k => vs2[j].base <= vs2[k].base
  BY <1>3, <1>10 DEF m
<1> QED
  BY <1>8, <1>11 DEF Bases

LEMMA ExactPushes ==
    ASSUME NEW vs, IsSeq(vs), NEW vs2, NEW w, NEW c, Pushes(vs, vs2, w, c),
           NEW n, NEW ns, NEW ns2, ns \subseteq ns2, Exact(vs, n, ns),
           ~vs[Len(vs)].after \/ ~MayLeave(vs[Len(vs)]),
           w.base = vs[Len(vs)].base \/ w.base = n, c.base = n
    PROVE  Exact(vs2, n, ns2)
<1>1. Len(vs) \in Nat /\ Len(vs) >= 1 /\ DOMAIN vs = 1..Len(vs)
  BY SeqItems DEF Pushes
<1>2. /\ IsSeq(vs2) /\ Len(vs2) = Len(vs) + 1
      /\ \A k \in 1..(Len(vs) - 1) : vs2[k] = vs[k]
      /\ vs2[Len(vs)] = w /\ vs2[Len(vs) + 1] = c
  BY DEF Pushes
<1>3. DOMAIN vs2 = 1..(Len(vs) + 1)
  BY <1>2, SeqItems
<1> SUFFICES ASSUME "discarded" \notin ns2
             PROVE  (\A k \in DOMAIN vs2 : vs2[k].base = 0) /\ n = 0
  BY DEF Exact
<1>4. /\ \A k \in 1..Len(vs) : vs[k].base = 0
      /\ n = 0
  BY <1>1 DEF Exact, Last
<1>5. ASSUME NEW k \in DOMAIN vs2 PROVE vs2[k].base = 0
  <2>1. k \in 1..(Len(vs) - 1) \/ k = Len(vs) \/ k = Len(vs) + 1
    BY <1>1, <1>3
  <2>2. Len(vs) \in 1..Len(vs) /\ \A i \in 1..(Len(vs) - 1) : i \in 1..Len(vs)
    BY <1>1
  <2> QED
    BY <2>1, <2>2, <1>2, <1>4
<1> QED
  BY <1>4, <1>5

LEMMA ExactTops ==
    ASSUME NEW vs, IsSeq(vs), NEW vs2, NEW w, Tops(vs, vs2, w),
           NEW n, NEW n2, NEW ns, NEW ns2, ns \subseteq ns2, Exact(vs, n, ns),
           "discarded" \notin ns2 =>
               w.base = 0 /\ n2 <= 1 /\ (n2 = 0 \/ (w.after /\ MayLeave(w)))
    PROVE  Exact(vs2, n2, ns2)
<1>1. Len(vs) \in Nat /\ Len(vs) >= 1 /\ DOMAIN vs = 1..Len(vs)
  BY SeqItems DEF Tops
<1>2. /\ IsSeq(vs2) /\ Len(vs2) = Len(vs)
      /\ \A k \in 1..(Len(vs) - 1) : vs2[k] = vs[k]
      /\ vs2[Len(vs)] = w
  BY DEF Tops
<1>3. DOMAIN vs2 = 1..Len(vs) /\ vs2 # <<>> /\ Last(vs2) = w
  BY <1>1, <1>2, SeqItems DEF Last
<1> SUFFICES ASSUME "discarded" \notin ns2
             PROVE  \A k \in DOMAIN vs2 : vs2[k].base = 0
  BY <1>3 DEF Exact
<1>4. \A k \in 1..Len(vs) : vs[k].base = 0
  BY <1>1 DEF Exact
<1>5. ASSUME NEW k \in DOMAIN vs2 PROVE vs2[k].base = 0
  <2>1. k \in 1..(Len(vs) - 1) \/ k = Len(vs)
    BY <1>1, <1>3
  <2>2. \A i \in 1..(Len(vs) - 1) : i \in 1..Len(vs)
    BY <1>1
  <2> QED
    BY <2>1, <2>2, <1>2, <1>4
<1> QED
  BY <1>5

LEMMA ExactEnds ==
    ASSUME NEW vs, IsSeq(vs), NEW vs2, NEW w, Ends(vs, vs2, w),
           NEW n, NEW n2, NEW ns, NEW ns2, ns \subseteq ns2, Exact(vs, n, ns),
           "discarded" \notin ns2 =>
               w.base = 0 /\ n2 <= 1 /\ (n2 = 0 \/ (w.after /\ MayLeave(w)))
    PROVE  Exact(vs2, n2, ns2)
<1>1. Len(vs) \in Nat /\ Len(vs) >= 2 /\ DOMAIN vs = 1..Len(vs)
  BY SeqItems DEF Ends
<1>2. /\ IsSeq(vs2) /\ Len(vs2) = Len(vs) - 1
      /\ \A k \in 1..(Len(vs) - 2) : vs2[k] = vs[k]
      /\ vs2[Len(vs) - 1] = w
  BY DEF Ends
<1>3. DOMAIN vs2 = 1..(Len(vs) - 1) /\ vs2 # <<>> /\ Last(vs2) = w
  BY <1>1, <1>2, SeqItems DEF Last
<1> SUFFICES ASSUME "discarded" \notin ns2
             PROVE  \A k \in DOMAIN vs2 : vs2[k].base = 0
  BY <1>3 DEF Exact
<1>4. \A k \in 1..Len(vs) : vs[k].base = 0
  BY <1>1 DEF Exact
<1>5. ASSUME NEW k \in DOMAIN vs2 PROVE vs2[k].base = 0
  <2>1. k \in 1..(Len(vs) - 2) \/ k = Len(vs) - 1
    BY <1>1, <1>3
  <2>2. \A i \in 1..(Len(vs) - 2) : i \in 1..Len(vs)
    BY <1>1
  <2> QED
    BY <2>1, <2>2, <1>2, <1>4
<1> QED
  BY <1>5

-----------------------------------------------------------------------------
(* What is noted of the visit c of a part of w. *)
NotedPart(w, c, ns) ==
    /\ c.node = "return" => w.last /\ w.tail /\ "return" \in ns
    /\ c.node = "call" /\ Valued(w) => c.want \subseteq Data
    /\ c.node = "if" /\ c.source => c.want \subseteq Data

LEMMA NotedAlike ==
    ASSUME NEW p, NEW c, NEW w, NEW ns, NEW ns2, ns \subseteq ns2, SameVisit(c, w),
           NotedPart(p, c, ns)
    PROVE  NotedPart(p, w, ns2)
BY DEF NotedPart, SameVisit

LEMMA NotedPushes ==
    ASSUME NEW vs, IsSeq(vs), NEW vs2, NEW w, NEW c, Pushes(vs, vs2, w, c),
           NEW ns, NEW ns2, ns \subseteq ns2, Noted(vs, ns),
           SameVisit(vs[Len(vs)], w), NotedPart(w, c, ns2)
    PROVE  Noted(vs2, ns2)
<1>1. Len(vs) \in Nat /\ Len(vs) >= 1
  BY SeqItems DEF Pushes
<1>2. /\ Len(vs2) = Len(vs) + 1
      /\ \A k \in 1..(Len(vs) - 1) : vs2[k] = vs[k]
      /\ vs2[Len(vs)] = w /\ vs2[Len(vs) + 1] = c
  BY DEF Pushes
<1>3. \A k \in 1..(Len(vs) - 1) : NotedPart(vs[k], vs[k + 1], ns)
  BY DEF Noted, NotedPart
<1>4. ASSUME NEW k \in 1..(Len(vs2) - 1) PROVE NotedPart(vs2[k], vs2[k + 1], ns2)
  <2>1. CASE k = Len(vs)
    BY <2>1, <1>2
  <2>2. CASE k = Len(vs) - 1
    <3>1. k \in 1..(Len(vs) - 1) /\ k + 1 = Len(vs)
      BY <2>2, <1>1
    <3>2. NotedPart(vs[k], vs[k + 1], ns) /\ vs2[k] = vs[k]
      BY <3>1, <1>2, <1>3
    <3> QED
      BY <3>1, <3>2, <1>2, NotedAlike
  <2>3. CASE k \in 1..(Len(vs) - 2)
    <3>1. k \in 1..(Len(vs) - 1) /\ k + 1 \in 1..(Len(vs) - 1)
      BY <2>3, <1>1
    <3>2. NotedPart(vs[k], vs[k + 1], ns) /\ vs2[k] = vs[k] /\ vs2[k + 1] = vs[k + 1]
      BY <3>1, <1>2, <1>3
    <3> QED
      BY <3>2, NotedAlike DEF SameVisit
  <2> QED
    BY <2>1, <2>2, <2>3, <1>1, <1>2
<1> QED
  BY <1>4 DEF Noted, NotedPart

LEMMA NotedTops ==
    ASSUME NEW vs, IsSeq(vs), NEW vs2, NEW w, Tops(vs, vs2, w),
           NEW ns, NEW ns2, ns \subseteq ns2, Noted(vs, ns), SameVisit(vs[Len(vs)], w)
    PROVE  Noted(vs2, ns2)
<1>1. Len(vs) \in Nat /\ Len(vs) >= 1
  BY SeqItems DEF Tops
<1>2. /\ Len(vs2) = Len(vs)
      /\ \A k \in 1..(Len(vs) - 1) : vs2[k] = vs[k]
      /\ vs2[Len(vs)] = w
  BY DEF Tops
<1>3. \A k \in 1..(Len(vs) - 1) : NotedPart(vs[k], vs[k + 1], ns)
  BY DEF Noted, NotedPart
<1>4. ASSUME NEW k \in 1..(Len(vs2) - 1) PROVE NotedPart(vs2[k], vs2[k + 1], ns2)
  <2>2. CASE k = Len(vs) - 1
    <3>1. k \in 1..(Len(vs) - 1) /\ k + 1 = Len(vs)
      BY <2>2, <1>1
    <3>2. NotedPart(vs[k], vs[k + 1], ns) /\ vs2[k] = vs[k]
      BY <3>1, <1>2, <1>3
    <3> QED
      BY <3>1, <3>2, <1>2, NotedAlike
  <2>3. CASE k \in 1..(Len(vs) - 2)
    <3>1. k \in 1..(Len(vs) - 1) /\ k + 1 \in 1..(Len(vs) - 1)
      BY <2>3, <1>1
    <3>2. NotedPart(vs[k], vs[k + 1], ns) /\ vs2[k] = vs[k] /\ vs2[k + 1] = vs[k + 1]
      BY <3>1, <1>2, <1>3
    <3> QED
      BY <3>2, NotedAlike DEF SameVisit
  <2> QED
    BY <2>2, <2>3, <1>1, <1>2
<1> QED
  BY <1>4 DEF Noted, NotedPart

LEMMA NotedEnds ==
    ASSUME NEW vs, IsSeq(vs), NEW vs2, NEW w, Ends(vs, vs2, w),
           NEW ns, NEW ns2, ns \subseteq ns2, Noted(vs, ns), SameVisit(vs[Len(vs) - 1], w)
    PROVE  Noted(vs2, ns2)
<1>1. Len(vs) \in Nat /\ Len(vs) >= 2
  BY SeqItems DEF Ends
<1>2. /\ Len(vs2) = Len(vs) - 1
      /\ \A k \in 1..(Len(vs) - 2) : vs2[k] = vs[k]
      /\ vs2[Len(vs) - 1] = w
  BY DEF Ends
<1>3. \A k \in 1..(Len(vs) - 1) : NotedPart(vs[k], vs[k + 1], ns)
  BY DEF Noted, NotedPart
<1>4. ASSUME NEW k \in 1..(Len(vs2) - 1) PROVE NotedPart(vs2[k], vs2[k + 1], ns2)
  <2>2. CASE k = Len(vs) - 2
    <3>1. k \in 1..(Len(vs) - 1) /\ k \in 1..(Len(vs) - 2) /\ k + 1 = Len(vs) - 1
      BY <2>2, <1>1, <1>2
    <3>2. NotedPart(vs[k], vs[k + 1], ns) /\ vs2[k] = vs[k]
      BY <3>1, <1>2, <1>3
    <3> QED
      BY <3>1, <3>2, <1>2, NotedAlike
  <2>3. CASE k \in 1..(Len(vs) - 3)
    <3>1. k \in 1..(Len(vs) - 1) /\ k \in 1..(Len(vs) - 2) /\ k + 1 \in 1..(Len(vs) - 2)
      BY <2>3, <1>1
    <3>2. NotedPart(vs[k], vs[k + 1], ns) /\ vs2[k] = vs[k] /\ vs2[k + 1] = vs[k + 1]
      BY <3>1, <1>2, <1>3
    <3> QED
      BY <3>2, NotedAlike DEF SameVisit
  <2> QED
    BY <2>2, <2>3, <1>1, <1>2
<1> QED
  BY <1>4 DEF Noted, NotedPart

-----------------------------------------------------------------------------
(* Basic blocks that the builder has not come to. *)

LEMMA LastOrBelow ==
    ASSUME NEW m \in Nat, NEW i \in 1..m
    PROVE  i = m \/ i \in 1..(m - 1)
OBVIOUS

LEMMA PartsOf ==
    ASSUME NEW v, NEW u, NEW r, NEW D, Local(v, u, r, D)
    PROVE  /\ Len(v.trees) \in Nat /\ Len(v.values) \in Nat /\ Len(v.blocks) \in Nat
           /\ v.node \in ExprNodes \cup {"if"} => Part(v) \in Nat
           /\ PendingParts(v) \subseteq 1..Len(v.blocks)
<1>1. v.values \in Seq(Value) /\ v.blocks \in Seq(Nat) /\ v.after \in BOOLEAN /\ IsSeq(v.trees)
  BY DEF Local, VisitType
<1>2. Len(v.trees) \in Nat /\ Len(v.values) \in Nat /\ Len(v.blocks) \in Nat
  BY <1>1, SeqItems, LenProperties
<1>3. v.node \in ExprNodes \cup {"if"} /\ v.after => Len(v.trees) >= 1
  BY DEF Local, ExprParts, IfParts
<1>4. v.node \in ExprNodes \cup {"if"} => Part(v) \in Nat
  BY <1>1, <1>2, <1>3 DEF Part
<1>5. ASSUME v.node = "if_expr" /\ v.blocks # <<>>
      PROVE  PendingParts(v) \subseteq 1..Len(v.blocks)
  <2>1. Len(v.blocks) # 0
    BY <1>1, <1>5, EmptySeq
  <2>3. \/ Len(v.blocks) = 0
        \/ Len(v.blocks) = 3
        \/ Len(v.blocks) = 4
    BY <1>5 DEF Local, ExprParts
  <2>4. Len(v.blocks) = 3 \/ Len(v.blocks) = 4
    BY <2>1, <2>3
  <2> DEFINE n == Len(v.blocks)
  <2>5. n = 3 \/ n = 4
    BY <2>4
  <2> HIDE DEF n
  <2>6. n >= 3
    BY <2>5
  <2>2. Len(v.blocks) >= 3
    BY <2>6 DEF n
  <2> QED
    BY <2>2, <1>2, <1>5 DEF PendingParts
<1>6. ASSUME v.node = "if"
      PROVE  PendingParts(v) \subseteq 1..Len(v.blocks)
  BY <1>2, <1>4, <1>6 DEF PendingParts
<1>7. ~(v.node = "if_expr" /\ v.blocks # <<>>) /\ v.node # "if" => PendingParts(v) = {}
  BY DEF PendingParts
<1>8. PendingParts(v) \subseteq 1..Len(v.blocks)
  BY <1>5, <1>6, <1>7
<1> QED
  BY <1>2, <1>4, <1>8

LEMMA PendingAreBlocks ==
    ASSUME NEW v, NEW u, NEW r, NEW D, Local(v, u, r, D)
    PROVE  Pending(v) \subseteq D
<1>1. PendingParts(v) \subseteq 1..Len(v.blocks)
  BY PartsOf
<1>2. v.blocks \in Seq(Nat) /\ ToSet(v.blocks) \subseteq D
  BY DEF Local, VisitType
<1>3. DOMAIN v.blocks = 1..Len(v.blocks)
  BY <1>2, LenProperties
<1> QED
  BY <1>1, <1>2, <1>3 DEF Pending, ToSet

(* The parts of w to come are parts of v to come. *)
Keeps(v, w) ==
    /\ PendingParts(w) \subseteq PendingParts(v)
    /\ \A j \in PendingParts(w) : w.blocks[j] = v.blocks[j]

(* They are new basic blocks. *)
Opens(w, D, D2) ==
    /\ Pending(w) \subseteq D2 \ D
    /\ \A i, j \in PendingParts(w) : w.blocks[i] = w.blocks[j] => i = j

LEMMA KeepsPending ==
    ASSUME NEW v, NEW w, Keeps(v, w)
    PROVE  Pending(w) \subseteq Pending(v)
BY DEF Keeps, Pending

LEMMA PendingKept ==
    ASSUME NEW vs, NEW vs2, NEW c, NEW c2, NEW a, NEW a2, NEW n, NEW n2, NEW n3,
           DOMAIN vs = n, DOMAIN vs2 = n2, n3 \in n2,
           PendingInv(vs, c, a),
           \A k \in n : Pending(vs[k]) \subseteq DOMAIN c,
           \A k \in n2 : k # n3 => k \in n /\ Keeps(vs[k], vs2[k]),
           (n3 \in n /\ Keeps(vs[n3], vs2[n3])) \/ Opens(vs2[n3], DOMAIN c, DOMAIN c2),
           \A k \in n2 : a2 \notin Pending(vs2[k]),
           \A k \in n2 : \A b \in Pending(vs2[k]) : b \in DOMAIN c => c2[b] = c[b],
           \A b \in DOMAIN c2 \ DOMAIN c : c2[b] = <<>>
    PROVE  PendingInv(vs2, c2, a2)
<1>1. \A k \in n : /\ \A b \in Pending(vs[k]) : c[b] = <<>>
                   /\ \A i, j \in PendingParts(vs[k]) :
                          vs[k].blocks[i] = vs[k].blocks[j] => i = j
  BY DEF PendingInv
<1>2. \A k, m \in n : k # m => Pending(vs[k]) \cap Pending(vs[m]) = {}
  BY DEF PendingInv
<1>3. \A k \in n2 : (k \in n /\ Keeps(vs[k], vs2[k]))
                    \/ (k = n3 /\ Opens(vs2[k], DOMAIN c, DOMAIN c2))
  OBVIOUS
<1>4. ASSUME NEW k \in n2
      PROVE  /\ \A b \in Pending(vs2[k]) : c2[b] = <<>> /\ b # a2
             /\ \A i, j \in PendingParts(vs2[k]) : vs2[k].blocks[i] = vs2[k].blocks[j] => i = j
  <2>1. CASE k \in n /\ Keeps(vs[k], vs2[k])
    <3>1. Pending(vs2[k]) \subseteq Pending(vs[k]) /\ Pending(vs[k]) \subseteq DOMAIN c
      BY <2>1, KeepsPending
    <3>2. \A b \in Pending(vs2[k]) : c2[b] = <<>> /\ b # a2
      BY <3>1, <2>1, <1>1
    <3>3. \A i, j \in PendingParts(vs2[k]) : vs2[k].blocks[i] = vs2[k].blocks[j] => i = j
      BY <2>1, <1>1 DEF Keeps
    <3> QED
      BY <3>2, <3>3
  <2>2. CASE Opens(vs2[k], DOMAIN c, DOMAIN c2)
    BY <2>2 DEF Opens
  <2> QED
    BY <2>1, <2>2, <1>3
<1>5. ASSUME NEW k \in n2, NEW m \in n2, k # m
      PROVE  Pending(vs2[k]) \cap Pending(vs2[m]) = {}
  <2>1. CASE k \in n /\ Keeps(vs[k], vs2[k]) /\ m \in n /\ Keeps(vs[m], vs2[m])
    <3>1. Pending(vs2[k]) \subseteq Pending(vs[k]) /\ Pending(vs2[m]) \subseteq Pending(vs[m])
      BY <2>1, KeepsPending
    <3> QED
      BY <3>1, <2>1, <1>2, <1>5
  <2>2. CASE k \in n /\ Keeps(vs[k], vs2[k]) /\ Opens(vs2[m], DOMAIN c, DOMAIN c2)
    <3>1. Pending(vs2[k]) \subseteq DOMAIN c
      BY <2>2, KeepsPending
    <3> QED
      BY <3>1, <2>2 DEF Opens
  <2>3. CASE m \in n /\ Keeps(vs[m], vs2[m]) /\ Opens(vs2[k], DOMAIN c, DOMAIN c2)
    <3>1. Pending(vs2[m]) \subseteq DOMAIN c
      BY <2>3, KeepsPending
    <3> QED
      BY <3>1, <2>3 DEF Opens
  <2> QED
    BY <2>1, <2>2, <2>3, <1>3, <1>5
<1> QED
  BY <1>4, <1>5 DEF PendingInv

-----------------------------------------------------------------------------
(* The code c becomes c2: only the basic block a changes, and new ones are   *)
(* empty.                                                                    *)
Grows(c, c2, a) ==
    /\ DOMAIN c \subseteq DOMAIN c2
    /\ \A b \in DOMAIN c \ {a} : c2[b] = c[b]
    /\ \A b \in DOMAIN c2 \ DOMAIN c : c2[b] = <<>>

LEMMA KeepsItself ==
    ASSUME NEW v
    PROVE  Keeps(v, v)
BY DEF Keeps

LEMMA PendingPushes ==
    ASSUME NEW vs, NEW vs2, NEW w, NEW v, NEW u, NEW r, NEW c, NEW c2, NEW a,
           Shape(vs, u, r, DOMAIN c), Pushes(vs, vs2, w, v), a \in DOMAIN c,
           PendingInv(vs, c, a), Grows(c, c2, a),
           Keeps(vs[Len(vs)], w), Opens(v, DOMAIN c, DOMAIN c2)
    PROVE  PendingInv(vs2, c2, a)
<1>1. IsSeq(vs) /\ \A k \in 1..Len(vs) : Local(vs[k], u, r, DOMAIN c)
  BY DEF Shape
<1>2. Len(vs) \in Nat /\ Len(vs) >= 1 /\ DOMAIN vs = 1..Len(vs)
  BY <1>1, SeqItems DEF Pushes
<1>3. /\ IsSeq(vs2) /\ Len(vs2) = Len(vs) + 1
      /\ \A k \in 1..(Len(vs) - 1) : vs2[k] = vs[k]
      /\ vs2[Len(vs)] = w /\ vs2[Len(vs) + 1] = v
  BY DEF Pushes
<1>4. DOMAIN vs2 = 1..(Len(vs) + 1)
  BY <1>3, SeqItems
<1> DEFINE n == 1..Len(vs)
           n2 == 1..(Len(vs) + 1)
           n3 == Len(vs) + 1
<1>5. DOMAIN vs = n /\ DOMAIN vs2 = n2 /\ n3 \in n2
  BY <1>2, <1>4
<1>6. \A k \in n : Pending(vs[k]) \subseteq DOMAIN c
  BY <1>1, PendingAreBlocks
<1>7. ASSUME NEW k \in n2, k # n3 PROVE k \in n /\ Keeps(vs[k], vs2[k])
  <2>1. \A i \in n2 : i # n3 => i \in n
    BY <1>2
  <2>2. \A i \in n : i = Len(vs) \/ i \in 1..(Len(vs) - 1)
    BY <1>2, LastOrBelow
  <2>3. k \in n
    BY <2>1, <1>7
  <2>4. k \in 1..(Len(vs) - 1) \/ k = Len(vs)
    BY <2>2, <2>3
  <2> QED
    BY <2>3, <2>4, <1>3, KeepsItself
<1>8. Opens(vs2[n3], DOMAIN c, DOMAIN c2)
  BY <1>3
<1> HIDE DEF n, n2, n3
<1>9. \A k \in n : a \notin Pending(vs[k])
  BY <1>5 DEF PendingInv
<1>10. ASSUME NEW k \in n2 PROVE a \notin Pending(vs2[k])
  <2>1. CASE k = n3
    BY <2>1, <1>8 DEF Opens
  <2>2. CASE k # n3
    BY <2>2, <1>7, <1>9, KeepsPending
  <2> QED
    BY <2>1, <2>2
<1>11. \A k \in n2 : \A b \in Pending(vs2[k]) : b \in DOMAIN c => c2[b] = c[b]
  BY <1>10 DEF Grows
<1>12. \A b \in DOMAIN c2 \ DOMAIN c : c2[b] = <<>>
  BY DEF Grows
<1> QED
  BY <1>5, <1>6, <1>7, <1>8, <1>10, <1>11, <1>12, PendingKept

(* The builder comes to a2. *)
LEMMA PendingTops ==
    ASSUME NEW vs, NEW vs2, NEW w, NEW u, NEW r, NEW c, NEW c2, NEW a, NEW a2,
           Shape(vs, u, r, DOMAIN c), Tops(vs, vs2, w), a \in DOMAIN c,
           PendingInv(vs, c, a), Grows(c, c2, a),
           Keeps(vs[Len(vs)], w) \/ Opens(w, DOMAIN c, DOMAIN c2),
           a2 = a \/ a2 \in Pending(vs[Len(vs)]) \/ a2 \in DOMAIN c2 \ DOMAIN c,
           a2 \notin Pending(w)
    PROVE  PendingInv(vs2, c2, a2)
<1>1. IsSeq(vs) /\ \A k \in 1..Len(vs) : Local(vs[k], u, r, DOMAIN c)
  BY DEF Shape
<1>2. Len(vs) \in Nat /\ Len(vs) >= 1 /\ DOMAIN vs = 1..Len(vs)
  BY <1>1, SeqItems DEF Tops
<1>3. /\ IsSeq(vs2) /\ Len(vs2) = Len(vs)
      /\ \A k \in 1..(Len(vs) - 1) : vs2[k] = vs[k]
      /\ vs2[Len(vs)] = w
  BY DEF Tops
<1>4. DOMAIN vs2 = 1..Len(vs)
  BY <1>3, SeqItems
<1> DEFINE n == 1..Len(vs)
           n3 == Len(vs)
<1>5. DOMAIN vs = n /\ DOMAIN vs2 = n /\ n3 \in n
  BY <1>2, <1>4
<1>6. \A k \in n : Pending(vs[k]) \subseteq DOMAIN c
  BY <1>1, PendingAreBlocks
<1>7. ASSUME NEW k \in n, k # n3 PROVE vs2[k] = vs[k]
  BY <1>2, <1>3, <1>7
<1>8. vs2[n3] = w /\ n3 = Len(vs)
  BY <1>3
<1> HIDE DEF n, n3
<1>9. \A k \in n : a \notin Pending(vs[k])
  BY <1>5 DEF PendingInv
<1>10. \A k, m \in n : k # m => Pending(vs[k]) \cap Pending(vs[m]) = {}
  BY <1>5 DEF PendingInv
<1>11. ASSUME NEW k \in n PROVE a2 \notin Pending(vs2[k]) /\ a \notin Pending(vs2[k])
  <2>1. CASE k = n3
    <3>1. a \notin Pending(w)
      BY <1>5, <1>8, <1>9, KeepsPending DEF Opens
    <3> QED
      BY <2>1, <3>1, <1>8
  <2>2. CASE k # n3
    <3>1. vs2[k] = vs[k] /\ Pending(vs[k]) \cap Pending(vs[n3]) = {}
      BY <2>2, <1>5, <1>7, <1>10
    <3> QED
      BY <3>1, <1>6, <1>8, <1>9
  <2> QED
    BY <2>1, <2>2
<1>12. \A k \in n : \A b \in Pending(vs2[k]) : b \in DOMAIN c => c2[b] = c[b]
  BY <1>11 DEF Grows
<1>13. \A b \in DOMAIN c2 \ DOMAIN c : c2[b] = <<>>
  BY DEF Grows
<1>14. \A k \in n : k # n3 => k \in n /\ Keeps(vs[k], vs2[k])
  BY <1>7, KeepsItself
<1>15. (n3 \in n /\ Keeps(vs[n3], vs2[n3])) \/ Opens(vs2[n3], DOMAIN c, DOMAIN c2)
  BY <1>5, <1>8
<1>16. \A k \in n : a2 \notin Pending(vs2[k])
  BY <1>11
<1> QED
  BY <1>5, <1>6, <1>12, <1>13, <1>14, <1>15, <1>16, PendingKept

(* The builder stays, or has come to the last block of the top node.         *)
LEMMA PendingEnds ==
    ASSUME NEW vs, NEW vs2, NEW w, NEW u, NEW r, NEW c, NEW c2, NEW a, NEW a2,
           Shape(vs, u, r, DOMAIN c), Ends(vs, vs2, w),
           PendingInv(vs, c, a), DOMAIN c2 = DOMAIN c,
           \A b \in DOMAIN c : b # a /\ b \notin Pending(vs[Len(vs)]) => c2[b] = c[b],
           Keeps(vs[Len(vs) - 1], w),
           a2 = a \/ a2 \in Pending(vs[Len(vs)])
    PROVE  PendingInv(vs2, c2, a2)
<1>1. IsSeq(vs) /\ \A k \in 1..Len(vs) : Local(vs[k], u, r, DOMAIN c)
  BY DEF Shape
<1>2. Len(vs) \in Nat /\ Len(vs) >= 2 /\ DOMAIN vs = 1..Len(vs)
  BY <1>1, SeqItems DEF Ends
<1>3. /\ IsSeq(vs2) /\ Len(vs2) = Len(vs) - 1
      /\ \A k \in 1..(Len(vs) - 2) : vs2[k] = vs[k]
      /\ vs2[Len(vs) - 1] = w
  BY DEF Ends
<1>4. DOMAIN vs2 = 1..(Len(vs) - 1)
  BY <1>3, SeqItems
<1> DEFINE n == 1..Len(vs)
           n2 == 1..(Len(vs) - 1)
           n3 == Len(vs) - 1
           l == Len(vs)
<1>5. DOMAIN vs = n /\ DOMAIN vs2 = n2 /\ n3 \in n2 /\ l \in n /\ n2 \subseteq n /\ l \notin n2
  BY <1>2, <1>4
<1>6. \A k \in n : Pending(vs[k]) \subseteq DOMAIN c
  BY <1>1, PendingAreBlocks
<1>7. ASSUME NEW k \in n2, k # n3 PROVE vs2[k] = vs[k]
  BY <1>2, <1>3, <1>7
<1>8. vs2[n3] = w /\ l = Len(vs) /\ n3 = Len(vs) - 1
  BY <1>3
<1> HIDE DEF n, n2, n3, l
<1>9. \A k \in n : a \notin Pending(vs[k])
  BY <1>5 DEF PendingInv
<1>10. \A k, m \in n : k # m => Pending(vs[k]) \cap Pending(vs[m]) = {}
  BY <1>5 DEF PendingInv
<1>11. ASSUME NEW k \in n2 PROVE k \in n /\ Keeps(vs[k], vs2[k])
  <2>1. CASE k = n3
    BY <2>1, <1>5, <1>8
  <2>2. CASE k # n3
    BY <2>2, <1>5, <1>7, KeepsItself
  <2> QED
    BY <2>1, <2>2
<1>12. ASSUME NEW k \in n2
       PROVE  /\ a \notin Pending(vs2[k]) /\ a2 \notin Pending(vs2[k])
              /\ Pending(vs2[k]) \cap Pending(vs[l]) = {}
  <2>1. Pending(vs2[k]) \subseteq Pending(vs[k]) /\ k \in n /\ k # l
    BY <1>5, <1>11, KeepsPending
  <2>2. Pending(vs[k]) \cap Pending(vs[l]) = {}
    BY <2>1, <1>5, <1>10
  <2> QED
    BY <2>1, <2>2, <1>8, <1>9
<1>13. \A k \in n2 : \A b \in Pending(vs2[k]) : b \in DOMAIN c => c2[b] = c[b]
  BY <1>12, <1>8
<1>14. \A b \in DOMAIN c2 \ DOMAIN c : c2[b] = <<>>
  OBVIOUS
<1>15. \A k \in n2 : k # n3 => k \in n /\ Keeps(vs[k], vs2[k])
  BY <1>11
<1>16. (n3 \in n /\ Keeps(vs[n3], vs2[n3])) \/ Opens(vs2[n3], DOMAIN c, DOMAIN c2)
  BY <1>5, <1>11
<1>17. \A k \in n2 : a2 \notin Pending(vs2[k])
  BY <1>12
<1> QED
  BY <1>5, <1>6, <1>13, <1>14, <1>15, <1>16, <1>17, PendingKept

-----------------------------------------------------------------------------
(* The invariant after a step, from what the step does to the node on top.   *)

LEMMA HandledBefore ==
    ASSUME notes \subseteq notes', Handled'
    PROVE  Handled
BY DEF Handled

LEMMA TopFacts ==
    ASSUME VisitsInv, ShapeInv, visits # <<>>
    PROVE  /\ IsSeq(visits) /\ Len(visits) \in Nat /\ Len(visits) >= 1
           /\ DOMAIN visits = 1..Len(visits)
           /\ HasBases(visits)
           /\ top = visits[Len(visits)] /\ top = Last(visits)
           /\ item \in DOMAIN unit /\ unit[item] \in Signature /\ at \in DOMAIN code
           /\ unit[item].ret \in Types
           /\ Local(top, unit, unit[item].ret, DOMAIN code)
<1>1. IsSeq(visits) /\ \A k \in 1..Len(visits) :
                            Local(visits[k], unit, unit[item].ret, DOMAIN code)
  BY DEF ShapeInv, Shape
<1>2. Len(visits) \in Nat /\ Len(visits) >= 1 /\ DOMAIN visits = 1..Len(visits)
  BY <1>1, SeqItems
<1>3. top = visits[Len(visits)] /\ top = Last(visits)
  BY DEF top, Last
<1>4. item \in DOMAIN unit /\ unit[item] \in Signature /\ at \in DOMAIN code
  BY DEF VisitsInv
<1>5. unit[item].ret \in Types
  BY <1>4 DEF Signature
<1>6. HasBases(visits)
  BY <1>1 DEF HasBases, Local, VisitType
<1>7. Local(top, unit, unit[item].ret, DOMAIN code)
  <2>1. Len(visits) \in 1..Len(visits)
    BY <1>2
  <2>2. Local(visits[Len(visits)], unit, unit[item].ret, DOMAIN code)
    BY <1>1, <2>1
  <2> QED
    BY <2>2, <1>3
<1> QED
  BY <1>1, <1>2, <1>3, <1>4, <1>5, <1>6, <1>7

below == visits[Len(visits) - 1]

LEMMA BelowFacts ==
    ASSUME VisitsInv, ShapeInv, visits # <<>>, top.node # "fn"
    PROVE  /\ Len(visits) >= 2
           /\ Local(below, unit, unit[item].ret, DOMAIN code)
           /\ Linked(below, top)
<1>1. /\ IsSeq(visits) /\ visits[1].node = "fn"
      /\ \A k \in 1..Len(visits) : Local(visits[k], unit, unit[item].ret, DOMAIN code)
      /\ \A k \in 1..(Len(visits) - 1) : Linked(visits[k], visits[k + 1])
  BY DEF ShapeInv, Shape
<1>2. Len(visits) \in Nat /\ Len(visits) >= 1 /\ top = visits[Len(visits)]
  BY TopFacts
<1>3. Len(visits) >= 2
  BY <1>1, <1>2
<1>4. /\ Len(visits) - 1 \in 1..Len(visits) /\ Len(visits) - 1 \in 1..(Len(visits) - 1)
      /\ Len(visits) - 1 + 1 = Len(visits)
  BY <1>2, <1>3
<1>5. Local(below, unit, unit[item].ret, DOMAIN code) /\ Linked(below, visits[Len(visits) - 1 + 1])
  BY <1>1, <1>4 DEF below
<1> QED
  BY <1>2, <1>3, <1>4, <1>5

LEMMA VisibleTops ==
    ASSUME IsSeq(visits), NEW w, Tops(visits, visits', w), w.declared = top.declared,
           unit' = unit, item' = item
    PROVE  Visible' = Visible
<1>1. Len(visits) \in Nat /\ Len(visits) >= 1 /\ DOMAIN visits = 1..Len(visits)
  BY SeqItems DEF Tops
<1>2. DOMAIN visits' = DOMAIN visits
  BY <1>1, SeqItems DEF Tops
<1>3. ASSUME NEW k \in DOMAIN visits PROVE visits'[k].declared = visits[k].declared
  <2>1. k = Len(visits) \/ k \in 1..(Len(visits) - 1)
    BY <1>1, LastOrBelow
  <2> QED
    BY <2>1 DEF Tops, top
<1>4. UNION {visits'[v].declared : v \in DOMAIN visits'} =
          UNION {visits[v].declared : v \in DOMAIN visits}
  BY <1>2, <1>3
<1>5. {ParamId(p) : p \in Params}' = {ParamId(p) : p \in Params}
  BY DEF ParamId, Params, fn_ty
<1> QED
  BY <1>4, <1>5 DEF Visible

LEMMA VisiblePushes ==
    ASSUME IsSeq(visits), NEW w, NEW c, Pushes(visits, visits', w, c),
           w.declared = top.declared, c.declared = {}, unit' = unit, item' = item
    PROVE  Visible' \subseteq Visible
<1>1. Len(visits) \in Nat /\ Len(visits) >= 1 /\ DOMAIN visits = 1..Len(visits)
  BY SeqItems DEF Pushes
<1>2. DOMAIN visits' = 1..(Len(visits) + 1)
  BY <1>1, SeqItems DEF Pushes
<1>3. ASSUME NEW k \in DOMAIN visits'
      PROVE  \/ visits'[k].declared = {}
             \/ k \in DOMAIN visits /\ visits'[k].declared = visits[k].declared
  <2>1. k = Len(visits) + 1 \/ k \in 1..(Len(visits) + 1 - 1)
    BY <1>1, <1>2, LastOrBelow
  <2>2. k = Len(visits) + 1 \/ k \in 1..Len(visits)
    BY <1>1, <2>1
  <2>3. k = Len(visits) + 1 \/ k = Len(visits) \/ k \in 1..(Len(visits) - 1)
    BY <1>1, <2>2, LastOrBelow
  <2> QED
    BY <2>2, <2>3, <1>1 DEF Pushes, top
<1>4. UNION {visits'[v].declared : v \in DOMAIN visits'} \subseteq
          UNION {visits[v].declared : v \in DOMAIN visits}
  BY <1>3
<1>5. {ParamId(p) : p \in Params}' = {ParamId(p) : p \in Params}
  BY DEF ParamId, Params, fn_ty
<1> QED
  BY <1>4, <1>5 DEF Visible

(* The visit below may have come to know variables in new. *)
LEMMA VisibleEnds ==
    ASSUME IsSeq(visits), NEW w, Ends(visits, visits', w), NEW new,
           w.declared \subseteq below.declared \cup new, unit' = unit, item' = item
    PROVE  Visible' \subseteq Visible \cup new
<1>1. Len(visits) \in Nat /\ Len(visits) >= 2 /\ DOMAIN visits = 1..Len(visits)
  BY SeqItems DEF Ends
<1>2. DOMAIN visits' = 1..(Len(visits) - 1)
  BY <1>1, SeqItems DEF Ends
<1>3. ASSUME NEW k \in DOMAIN visits'
      PROVE  k \in DOMAIN visits /\ visits'[k].declared \subseteq visits[k].declared \cup new
  <2>1. k = Len(visits) - 1 \/ k \in 1..(Len(visits) - 1 - 1)
    BY <1>1, <1>2, LastOrBelow
  <2>2. k = Len(visits) - 1 \/ k \in 1..(Len(visits) - 2)
    BY <1>1, <2>1
  <2>3. k \in DOMAIN visits
    BY <1>1, <1>2
  <2> QED
    BY <2>2, <2>3 DEF Ends, below
<1>4. UNION {visits'[v].declared : v \in DOMAIN visits'} \subseteq
          (UNION {visits[v].declared : v \in DOMAIN visits}) \cup new
  BY <1>3
<1>5. {ParamId(p) : p \in Params}' = {ParamId(p) : p \in Params}
  BY DEF ParamId, Params, fn_ty
<1> QED
  BY <1>4, <1>5 DEF Visible

-----------------------------------------------------------------------------
(* The stack after a step in which the node that was p and is now w becomes  *)
(* or stays the top one.                                                     *)
StackStep(p, w) ==
    Handled' =>
        /\ "stale" \notin notes'
        /\ Datas(ir_code') /\ Datas(w.values)
        /\ w.after /\ ExprPart(w) /\ Valued(w) => current_type' \in Data
        /\ p.base <= w.base /\ w.base <= Len(ir_code')
        /\ ~w.after /\ w.node \notin {"block", "fn"} => w.base = Len(ir_code')
        /\ w.after /\ Valued(w) =>
              w.base < Len(ir_code') \/ (MayReturn(w) /\ "return" \in notes')
        /\ "discarded" \notin notes' =>
              w.base = 0 /\ Len(ir_code') <= 1 /\ (Len(ir_code') = 0 \/ (w.after /\ MayLeave(w)))

(* The visits of the function go on. *)
VisitorGoes == visits # <<>> /\ unit' = unit /\ item' = item /\ notes \subseteq notes'

TopStep(w) ==
    /\ VisitorGoes
    /\ Tops(visits, visits', w)
    /\ scope_manager' = scope_manager
    /\ SameVisit(top, w) /\ w.declared = top.declared
    /\ w.last => w.after
    /\ DOMAIN code \subseteq DOMAIN code'
    /\ Local(w, unit, unit[item].ret, DOMAIN code')
    /\ at' \in DOMAIN code'

TopCode(w) ==
    Handled' =>
        /\ w.node # "fn" \/ w.after => Open(code', at') \/ Returned'
        /\ Grows(code, code', at)
        /\ Keeps(top, w) \/ Opens(w, DOMAIN code, DOMAIN code')
        /\ at' = at \/ at' \in Pending(top) \/ at' \in DOMAIN code' \ DOMAIN code
        /\ at' \notin Pending(w)

LEMMA TopShape ==
    ASSUME VisitsInv, ShapeInv, NEW w, TopStep(w)
    PROVE  VisitsInv' /\ ShapeInv'
<1>1. /\ visits # <<>> /\ unit' = unit /\ item' = item /\ scope_manager' = scope_manager
      /\ Tops(visits, visits', w) /\ SameVisit(top, w) /\ w.declared = top.declared
      /\ DOMAIN code \subseteq DOMAIN code'
      /\ Local(w, unit, unit[item].ret, DOMAIN code') /\ at' \in DOMAIN code'
      /\ w.last => w.after
  BY DEF TopStep, VisitorGoes
<1>2. /\ IsSeq(visits) /\ top = visits[Len(visits)] /\ item \in DOMAIN unit
      /\ unit[item] \in Signature
  BY <1>1, TopFacts
<1>3. Visible' = Visible
  BY <1>1, <1>2, VisibleTops
<1>7. top' = w
  BY <1>1 DEF Tops, top
<1>4. VisitsInv'
  BY <1>1, <1>2, <1>3, <1>7 DEF VisitsInv
<1>5. Shape(visits', unit, unit[item].ret, DOMAIN code')
  BY <1>1, <1>2, ShapeTops DEF ShapeInv
<1>6. Tails(visits')
  BY <1>1, <1>2, TailsTops DEF ShapeInv
<1> QED
  BY <1>1, <1>4, <1>5, <1>6 DEF ShapeInv

LEMMA TopStack ==
    ASSUME TypeInv, TypeInv', VisitsInv, ShapeInv, StackInv, NEW w, TopStep(w), StackStep(top, w)
    PROVE  StackInv'
<1> SUFFICES ASSUME Handled'
             PROVE  /\ "stale" \notin notes'
                    /\ DataInv'
                    /\ Bases(visits', Len(ir_code'))
                    /\ Left(visits', Len(ir_code'), notes')
                    /\ Exact(visits', Len(ir_code'), notes')
                    /\ Noted(visits', notes')
  BY DEF StackInv
<1>1. /\ visits # <<>> /\ unit' = unit /\ item' = item /\ scope_manager' = scope_manager
      /\ notes \subseteq notes'
      /\ Tops(visits, visits', w) /\ SameVisit(top, w) /\ w.declared = top.declared
      /\ Local(w, unit, unit[item].ret, DOMAIN code')
  BY DEF TopStep, VisitorGoes
<1>2. /\ IsSeq(visits) /\ top = visits[Len(visits)] /\ HasBases(visits)
      /\ Len(visits) \in Nat /\ Len(visits) >= 1 /\ DOMAIN visits = 1..Len(visits)
  BY <1>1, TopFacts
<1>3. /\ DataInv /\ Bases(visits, Len(ir_code))
      /\ Exact(visits, Len(ir_code), notes) /\ Noted(visits, notes)
  BY <1>1, HandledBefore DEF StackInv
<1>4. /\ IsSeq(visits') /\ Len(visits') = Len(visits)
      /\ \A k \in 1..(Len(visits) - 1) : visits'[k] = visits[k]
      /\ visits'[Len(visits)] = w
  BY <1>1 DEF Tops
<1>5. DOMAIN visits' = 1..Len(visits) /\ visits' # <<>> /\ Last(visits') = w
  BY <1>2, <1>4, SeqItems DEF Last
<1>6. top' = w
  BY <1>4 DEF top
<1>7. /\ "stale" \notin notes'
      /\ Datas(ir_code') /\ Datas(w.values)
      /\ w.after /\ ExprPart(w) /\ Valued(w) => current_type' \in Data
      /\ top.base <= w.base /\ w.base <= Len(ir_code')
      /\ ~w.after /\ w.node \notin {"block", "fn"} => w.base = Len(ir_code')
      /\ w.after /\ Valued(w) =>
              w.base < Len(ir_code') \/ (MayReturn(w) /\ "return" \in notes')
      /\ "discarded" \notin notes' =>
              w.base = 0 /\ Len(ir_code') <= 1 /\ (Len(ir_code') = 0 \/ (w.after /\ MayLeave(w)))
  BY DEF StackStep
<1>8. Len(ir_code') \in Nat /\ w.base \in Nat
  BY <1>1, LenProperties DEF TypeInv, Local, VisitType
<1>9. Bases(visits', Len(ir_code'))
  BY <1>1, <1>2, <1>3, <1>7, <1>8, BasesTops
<1>10. Left(visits', Len(ir_code'), notes')
  BY <1>5, <1>7 DEF Left
<1>11. Exact(visits', Len(ir_code'), notes')
  BY <1>1, <1>2, <1>3, <1>7, ExactTops
<1>12. Noted(visits', notes')
  BY <1>1, <1>2, <1>3, NotedTops
<1>13. DataInv'
  <2>1. ASSUME NEW k \in DOMAIN visits' PROVE Datas(visits'[k].values)
    <3>1. k = Len(visits) \/ k \in 1..(Len(visits) - 1)
      BY <1>2, <1>5, LastOrBelow
    <3> QED
      BY <3>1, <1>2, <1>3, <1>4, <1>5, <1>7 DEF DataInv
  <2>2. \A id \in Visible' : TypeOf(scope_manager'[id]) \in Data
    <3>1. Visible' = Visible
      BY <1>1, <1>2, VisibleTops
    <3> QED
      BY <3>1, <1>1, <1>3 DEF DataInv
  <2>3. top'.after /\ ExprPart(top') /\ Valued(top') => current_type' \in Data
    BY <1>6, <1>7
  <2> QED
    BY <2>1, <2>2, <2>3, <1>7 DEF DataInv
<1> QED
  BY <1>7, <1>9, <1>10, <1>11, <1>12, <1>13

LEMMA TopOpen ==
    ASSUME VisitsInv, ShapeInv, OpenInv, NEW w, TopStep(w), TopCode(w)
    PROVE  OpenInv'
<1> SUFFICES ASSUME Handled', visits' # <<>>
             PROVE  /\ top'.node # "fn" \/ top'.after => Open(code', at') \/ Returned'
                    /\ PendingInv(visits', code', at')
  BY DEF OpenInv
<1>1. /\ visits # <<>> /\ notes \subseteq notes' /\ Tops(visits, visits', w)
  BY DEF TopStep, VisitorGoes
<1>2. top = visits[Len(visits)] /\ at \in DOMAIN code
      /\ Shape(visits, unit, unit[item].ret, DOMAIN code)
  BY <1>1, TopFacts DEF ShapeInv
<1>3. PendingInv(visits, code, at)
  BY <1>1, HandledBefore DEF OpenInv
<1>4. top' = w
  BY <1>1 DEF Tops, top
<1>5. /\ w.node # "fn" \/ w.after => Open(code', at') \/ Returned'
      /\ Grows(code, code', at)
      /\ Keeps(top, w) \/ Opens(w, DOMAIN code, DOMAIN code')
      /\ at' = at \/ at' \in Pending(top) \/ at' \in DOMAIN code' \ DOMAIN code
      /\ at' \notin Pending(w)
  BY DEF TopCode
<1>6. PendingInv(visits', code', at')
  BY <1>1, <1>2, <1>3, <1>5, PendingTops
<1> QED
  BY <1>4, <1>5, <1>6

LEMMA TopKeepsInv ==
    ASSUME IInv, TypeInv', NEW w, TopStep(w), StackStep(top, w), TopCode(w)
    PROVE  IInv'
BY TopShape, TopStack, TopOpen DEF IInv

-----------------------------------------------------------------------------
(* The visit of a part begins. *)
PushStep(w, c) ==
    /\ VisitorGoes
    /\ Pushes(visits, visits', w, c)
    /\ scope_manager' = scope_manager /\ ir_code' = ir_code /\ at' = at
    /\ SameVisit(top, w) /\ w.declared = top.declared /\ w.values = top.values
    /\ c.declared = {} /\ ~c.after /\ ~c.last /\ c.values = <<>>
    /\ DOMAIN code \subseteq DOMAIN code'
    /\ Local(w, unit, unit[item].ret, DOMAIN code')
    /\ Local(c, unit, unit[item].ret, DOMAIN code')
    /\ Linked(w, c) /\ TailLinked(w, c)
    /\ w.base = top.base \/ w.base = Len(ir_code)
    /\ c.base = Len(ir_code)
    /\ ~top.after \/ ~MayLeave(top)
    /\ "stale" \in notes' => "stale" \in notes

PushCode(w, c) ==
    Handled' =>
        /\ Open(code', at)
        /\ Grows(code, code', at)
        /\ Keeps(top, w) /\ Opens(c, DOMAIN code, DOMAIN code')
        /\ NotedPart(w, c, notes')

LEMMA PushShape ==
    ASSUME VisitsInv, ShapeInv, NEW w, NEW c, PushStep(w, c)
    PROVE  VisitsInv' /\ ShapeInv'
<1>1. /\ visits # <<>> /\ unit' = unit /\ item' = item /\ scope_manager' = scope_manager
      /\ Pushes(visits, visits', w, c) /\ SameVisit(top, w) /\ w.declared = top.declared
      /\ c.declared = {} /\ DOMAIN code \subseteq DOMAIN code' /\ at' = at
      /\ Local(w, unit, unit[item].ret, DOMAIN code')
      /\ Local(c, unit, unit[item].ret, DOMAIN code')
      /\ Linked(w, c) /\ TailLinked(w, c) /\ ~c.last
  BY DEF PushStep, VisitorGoes
<1>2. /\ IsSeq(visits) /\ top = visits[Len(visits)] /\ item \in DOMAIN unit
      /\ unit[item] \in Signature /\ at \in DOMAIN code
  BY <1>1, TopFacts
<1>3. Visible' \subseteq Visible
  BY <1>1, <1>2, VisiblePushes
<1>7. top' = c
  BY <1>1 DEF Pushes, top
<1>4. VisitsInv'
  BY <1>1, <1>2, <1>3, <1>7 DEF VisitsInv
<1>5. Shape(visits', unit, unit[item].ret, DOMAIN code')
  BY <1>1, <1>2, ShapePushes DEF ShapeInv
<1>6. Tails(visits')
  BY <1>1, <1>2, TailsPushes DEF ShapeInv
<1> QED
  BY <1>1, <1>4, <1>5, <1>6 DEF ShapeInv

LEMMA PushStack ==
    ASSUME TypeInv, VisitsInv, ShapeInv, StackInv, NEW w, NEW c, PushStep(w, c), PushCode(w, c)
    PROVE  StackInv'
<1> SUFFICES ASSUME Handled'
             PROVE  /\ "stale" \notin notes'
                    /\ DataInv'
                    /\ Bases(visits', Len(ir_code))
                    /\ Left(visits', Len(ir_code), notes')
                    /\ Exact(visits', Len(ir_code), notes')
                    /\ Noted(visits', notes')
  BY DEF StackInv, PushStep
<1>1. /\ visits # <<>> /\ unit' = unit /\ item' = item /\ scope_manager' = scope_manager
      /\ notes \subseteq notes' /\ ir_code' = ir_code
      /\ Pushes(visits, visits', w, c) /\ SameVisit(top, w) /\ w.declared = top.declared
      /\ w.values = top.values /\ c.declared = {} /\ ~c.after /\ c.values = <<>>
      /\ w.base = top.base \/ w.base = Len(ir_code)
      /\ c.base = Len(ir_code)
      /\ ~top.after \/ ~MayLeave(top)
      /\ "stale" \in notes' => "stale" \in notes
  BY DEF PushStep, VisitorGoes
<1>2. /\ IsSeq(visits) /\ top = visits[Len(visits)] /\ HasBases(visits) /\ top = Last(visits)
      /\ Len(visits) \in Nat /\ Len(visits) >= 1 /\ DOMAIN visits = 1..Len(visits)
  BY <1>1, TopFacts
<1>3. /\ DataInv /\ Bases(visits, Len(ir_code)) /\ "stale" \notin notes
      /\ Exact(visits, Len(ir_code), notes) /\ Noted(visits, notes)
  BY <1>1, HandledBefore DEF StackInv
<1>4. /\ IsSeq(visits') /\ Len(visits') = Len(visits) + 1
      /\ \A k \in 1..(Len(visits) - 1) : visits'[k] = visits[k]
      /\ visits'[Len(visits)] = w /\ visits'[Len(visits) + 1] = c
  BY <1>1 DEF Pushes
<1>5. DOMAIN visits' = 1..(Len(visits) + 1) /\ visits' # <<>> /\ Last(visits') = c
  BY <1>2, <1>4, SeqItems DEF Last
<1>6. top' = c
  BY <1>4 DEF top
<1>7. NotedPart(w, c, notes')
  BY DEF PushCode
<1>8. /\ Len(ir_code) \in Nat /\ top.base \in Nat /\ top.base <= Len(ir_code)
      /\ w.base \in Nat /\ top.base <= w.base /\ w.base <= Len(ir_code)
  <2>1. Len(ir_code) \in Nat /\ top.base \in Nat
    <3>1. Len(visits) \in 1..Len(visits)
      BY <1>2
    <3> QED
      BY <3>1, <1>2, LenProperties DEF TypeInv, HasBases
  <2>2. top.base <= Len(ir_code)
    BY <1>1, <1>2, <1>3 DEF Bases
  <2> QED
    BY <2>1, <2>2, <1>1
<1>9. Bases(visits', Len(ir_code))
  BY <1>1, <1>2, <1>3, <1>8, BasesPushes
<1>10. Left(visits', Len(ir_code), notes')
  BY <1>1, <1>5 DEF Left
<1>11. Exact(visits', Len(ir_code), notes')
  <2>1. ~visits[Len(visits)].after \/ ~MayLeave(visits[Len(visits)])
    BY <1>1, <1>2
  <2>2. w.base = visits[Len(visits)].base \/ w.base = Len(ir_code)
    BY <1>1, <1>2
  <2> QED
    BY <1>1, <1>2, <1>3, <2>1, <2>2, ExactPushes
<1>12. Noted(visits', notes')
  BY <1>1, <1>2, <1>3, <1>7, NotedPushes
<1>13. DataInv'
  <2>1. ASSUME NEW k \in DOMAIN visits' PROVE Datas(visits'[k].values)
    <3>1. k = Len(visits) + 1 \/ k \in 1..(Len(visits) + 1 - 1)
      BY <1>2, <1>5, LastOrBelow
    <3>2. k = Len(visits) + 1 \/ k \in 1..Len(visits)
      BY <3>1, <1>2
    <3>3. k = Len(visits) + 1 \/ k = Len(visits) \/ k \in 1..(Len(visits) - 1)
      BY <3>2, <1>2, LastOrBelow
    <3>4. Datas(<<>>)
      BY DEF Datas
    <3>5. Datas(top.values)
      <4>1. Len(visits) \in DOMAIN visits
        BY <1>2
      <4> QED
        BY <4>1, <1>2, <1>3 DEF DataInv
    <3>6. CASE k \in 1..(Len(visits) - 1)
      BY <3>6, <3>2, <1>2, <1>3, <1>4 DEF DataInv
    <3> QED
      BY <3>3, <3>4, <3>5, <3>6, <1>1, <1>4
  <2>2. \A id \in Visible' : TypeOf(scope_manager'[id]) \in Data
    <3>1. Visible' \subseteq Visible
      BY <1>1, <1>2, VisiblePushes
    <3> QED
      BY <3>1, <1>1, <1>3 DEF DataInv
  <2>3. ~top'.after
    BY <1>1, <1>6
  <2>4. Datas(ir_code)
    BY <1>3 DEF DataInv
  <2> QED
    BY <2>1, <2>2, <2>3, <2>4, <1>1 DEF DataInv
<1> QED
  BY <1>1, <1>3, <1>9, <1>10, <1>11, <1>12, <1>13

LEMMA PushOpen ==
    ASSUME VisitsInv, ShapeInv, OpenInv, NEW w, NEW c, PushStep(w, c), PushCode(w, c)
    PROVE  OpenInv'
<1> SUFFICES ASSUME Handled', visits' # <<>>
             PROVE  Open(code', at) /\ PendingInv(visits', code', at)
  BY DEF OpenInv, PushStep
<1>1. /\ visits # <<>> /\ notes \subseteq notes' /\ Pushes(visits, visits', w, c)
  BY DEF PushStep, VisitorGoes
<1>2. top = visits[Len(visits)] /\ at \in DOMAIN code
      /\ Shape(visits, unit, unit[item].ret, DOMAIN code)
  BY <1>1, TopFacts DEF ShapeInv
<1>3. PendingInv(visits, code, at)
  BY <1>1, HandledBefore DEF OpenInv
<1>4. /\ Open(code', at)
      /\ Grows(code, code', at)
      /\ Keeps(top, w) /\ Opens(c, DOMAIN code, DOMAIN code')
  BY DEF PushCode
<1>5. PendingInv(visits', code', at)
  BY <1>1, <1>2, <1>3, <1>4, PendingPushes
<1> QED
  BY <1>4, <1>5

LEMMA PushKeepsInv ==
    ASSUME IInv, TypeInv', NEW w, NEW c, PushStep(w, c), PushCode(w, c)
    PROVE  IInv'
BY PushShape, PushStack, PushOpen DEF IInv

-----------------------------------------------------------------------------
(* The visit on top ends, which may declare the variables new. *)
EndStep(w, new) ==
    /\ VisitorGoes
    /\ Ends(visits, visits', w)
    /\ SameVisit(below, w) /\ w.declared \subseteq below.declared \cup new
    /\ w.after /\ w.values = below.values
    /\ DOMAIN code' = DOMAIN code
    /\ Local(w, unit, unit[item].ret, DOMAIN code)
    /\ at' \in DOMAIN code
    /\ \A id \in DOMAIN scope_manager \ new : /\ id \in DOMAIN scope_manager'
                                              /\ scope_manager'[id] = scope_manager[id]
    /\ \A id \in new : id \in DOMAIN scope_manager' /\ scope_manager'[id] \in Value

EndStack(w, new) ==
    /\ StackStep(below, w)
    /\ Handled' => \A id \in new : TypeOf(scope_manager'[id]) \in Data

EndCode(w) ==
    Handled' =>
        /\ Open(code', at') \/ Returned'
        /\ \A b \in DOMAIN code : b # at /\ b \notin Pending(top) => code'[b] = code[b]
        /\ Keeps(below, w)
        /\ at' = at \/ at' \in Pending(top)

LEMMA EndShape ==
    ASSUME VisitsInv, ShapeInv, NEW w, NEW new, EndStep(w, new)
    PROVE  VisitsInv' /\ ShapeInv'
<1>1. /\ visits # <<>> /\ unit' = unit /\ item' = item
      /\ Ends(visits, visits', w) /\ SameVisit(below, w)
      /\ w.declared \subseteq below.declared \cup new
      /\ DOMAIN code' = DOMAIN code /\ w.after
      /\ Local(w, unit, unit[item].ret, DOMAIN code) /\ at' \in DOMAIN code
  BY DEF EndStep, VisitorGoes
<1>2. /\ IsSeq(visits) /\ item \in DOMAIN unit /\ unit[item] \in Signature
  BY <1>1, TopFacts
<1>3. Visible' \subseteq Visible \cup new
  BY <1>1, <1>2, VisibleEnds
<1>4. \A id \in Visible' : id \in DOMAIN scope_manager' /\ scope_manager'[id] \in Value
  <2>1. \A id \in Visible : id \in DOMAIN scope_manager /\ scope_manager[id] \in Value
    BY <1>1 DEF VisitsInv
  <2>2. /\ \A id \in DOMAIN scope_manager \ new : /\ id \in DOMAIN scope_manager'
                                                  /\ scope_manager'[id] = scope_manager[id]
        /\ \A id \in new : id \in DOMAIN scope_manager' /\ scope_manager'[id] \in Value
    BY DEF EndStep
  <2>3. ASSUME NEW id \in Visible'
        PROVE  id \in DOMAIN scope_manager' /\ scope_manager'[id] \in Value
    <3>1. CASE id \in new
      BY <3>1, <2>2
    <3>2. CASE id \notin new
      <4>1. id \in Visible
        BY <3>2, <1>3
      <4> QED
        BY <3>2, <4>1, <2>1, <2>2
    <3> QED
      BY <3>1, <3>2
  <2> QED
    BY <2>3
<1>8. top' = w
  BY <1>1 DEF Ends, top
<1>5. VisitsInv'
  BY <1>1, <1>2, <1>4, <1>8 DEF VisitsInv
<1>6. Shape(visits', unit, unit[item].ret, DOMAIN code)
  <2>1. SameVisit(visits[Len(visits) - 1], w)
    BY <1>1 DEF below
  <2> QED
    BY <2>1, <1>1, <1>2, ShapeEnds DEF ShapeInv
<1>7. Tails(visits')
  BY <1>1, <1>2, TailsEnds DEF ShapeInv, below
<1> QED
  BY <1>1, <1>5, <1>6, <1>7 DEF ShapeInv

LEMMA EndStackInv ==
    ASSUME TypeInv, TypeInv', VisitsInv, ShapeInv, StackInv,
           NEW w, NEW new, EndStep(w, new), EndStack(w, new)
    PROVE  StackInv'
<1> SUFFICES ASSUME Handled'
             PROVE  /\ "stale" \notin notes'
                    /\ DataInv'
                    /\ Bases(visits', Len(ir_code'))
                    /\ Left(visits', Len(ir_code'), notes')
                    /\ Exact(visits', Len(ir_code'), notes')
                    /\ Noted(visits', notes')
  BY DEF StackInv
<1>1. /\ visits # <<>> /\ unit' = unit /\ item' = item
      /\ notes \subseteq notes'
      /\ Ends(visits, visits', w) /\ SameVisit(below, w)
      /\ w.declared \subseteq below.declared \cup new /\ w.after
      /\ Local(w, unit, unit[item].ret, DOMAIN code)
  BY DEF EndStep, VisitorGoes
<1>2. /\ IsSeq(visits) /\ HasBases(visits)
      /\ Len(visits) \in Nat /\ Len(visits) >= 2 /\ DOMAIN visits = 1..Len(visits)
  BY <1>1, TopFacts DEF Ends
<1>3. /\ DataInv /\ Bases(visits, Len(ir_code))
      /\ Exact(visits, Len(ir_code), notes) /\ Noted(visits, notes)
  BY <1>1, HandledBefore DEF StackInv
<1>4. /\ IsSeq(visits') /\ Len(visits') = Len(visits) - 1
      /\ \A k \in 1..(Len(visits) - 2) : visits'[k] = visits[k]
      /\ visits'[Len(visits) - 1] = w
  BY <1>1 DEF Ends
<1>5. DOMAIN visits' = 1..(Len(visits) - 1) /\ visits' # <<>> /\ Last(visits') = w
  BY <1>2, <1>4, SeqItems DEF Last
<1>6. top' = w
  BY <1>4 DEF top
<1>7. /\ "stale" \notin notes'
      /\ Datas(ir_code') /\ Datas(w.values)
      /\ w.after /\ ExprPart(w) /\ Valued(w) => current_type' \in Data
      /\ below.base <= w.base /\ w.base <= Len(ir_code')
      /\ w.after /\ Valued(w) =>
              w.base < Len(ir_code') \/ (MayReturn(w) /\ "return" \in notes')
      /\ "discarded" \notin notes' =>
              w.base = 0 /\ Len(ir_code') <= 1 /\ (Len(ir_code') = 0 \/ (w.after /\ MayLeave(w)))
  BY DEF EndStack, StackStep
<1>8. Len(ir_code') \in Nat /\ w.base \in Nat
  BY <1>1, LenProperties DEF TypeInv, Local, VisitType
<1>9. Bases(visits', Len(ir_code'))
  <2>1. visits[Len(visits) - 1].base <= w.base
    BY <1>7 DEF below
  <2> QED
    BY <2>1, <1>1, <1>2, <1>3, <1>7, <1>8, BasesEnds
<1>10. Left(visits', Len(ir_code'), notes')
  BY <1>5, <1>7 DEF Left
<1>11. Exact(visits', Len(ir_code'), notes')
  BY <1>1, <1>2, <1>3, <1>7, ExactEnds
<1>12. Noted(visits', notes')
  BY <1>1, <1>2, <1>3, NotedEnds DEF below
<1>13. DataInv'
  <2>1. ASSUME NEW k \in DOMAIN visits' PROVE Datas(visits'[k].values)
    <3>1. k = Len(visits) - 1 \/ k \in 1..(Len(visits) - 1 - 1)
      BY <1>2, <1>5, LastOrBelow
    <3>2. k = Len(visits) - 1 \/ (k \in 1..(Len(visits) - 2) /\ k \in DOMAIN visits)
      BY <3>1, <1>2
    <3> QED
      BY <3>2, <1>3, <1>4, <1>7 DEF DataInv
  <2>2. \A id \in Visible' : TypeOf(scope_manager'[id]) \in Data
    <3>1. Visible' \subseteq Visible \cup new
      BY <1>1, <1>2, VisibleEnds
    <3>2. \A id \in Visible : id \in DOMAIN scope_manager /\ TypeOf(scope_manager[id]) \in Data
      BY <1>1, <1>3 DEF DataInv, VisitsInv
    <3>3. \A id \in DOMAIN scope_manager \ new : scope_manager'[id] = scope_manager[id]
      BY DEF EndStep
    <3>4. \A id \in new : TypeOf(scope_manager'[id]) \in Data
      BY DEF EndStack
    <3>5. ASSUME NEW id \in Visible' PROVE TypeOf(scope_manager'[id]) \in Data
      <4>1. CASE id \in new
        BY <4>1, <3>4
      <4>2. CASE id \notin new
        <5>1. id \in Visible
          BY <4>2, <3>1
        <5>2. scope_manager'[id] = scope_manager[id]
          BY <5>1, <4>2, <3>2, <3>3
        <5> QED
          BY <5>1, <5>2, <3>2
      <4> QED
        BY <4>1, <4>2
    <3> QED
      BY <3>5
  <2>3. top'.after /\ ExprPart(top') /\ Valued(top') => current_type' \in Data
    BY <1>6, <1>7
  <2> QED
    BY <2>1, <2>2, <2>3, <1>7 DEF DataInv
<1> QED
  BY <1>7, <1>9, <1>10, <1>11, <1>12, <1>13

LEMMA EndOpen ==
    ASSUME VisitsInv, ShapeInv, OpenInv, NEW w, NEW new, EndStep(w, new), EndCode(w)
    PROVE  OpenInv'
<1> SUFFICES ASSUME Handled', visits' # <<>>
             PROVE  /\ Open(code', at') \/ Returned'
                    /\ PendingInv(visits', code', at')
  BY DEF OpenInv
<1>1. /\ visits # <<>> /\ notes \subseteq notes' /\ Ends(visits, visits', w)
      /\ DOMAIN code' = DOMAIN code
  BY DEF EndStep, VisitorGoes
<1>2. top = visits[Len(visits)] /\ Shape(visits, unit, unit[item].ret, DOMAIN code)
  BY <1>1, TopFacts DEF ShapeInv
<1>3. PendingInv(visits, code, at)
  BY <1>1, HandledBefore DEF OpenInv
<1>4. /\ Open(code', at') \/ Returned'
      /\ \A b \in DOMAIN code : b # at /\ b \notin Pending(top) => code'[b] = code[b]
      /\ Keeps(visits[Len(visits) - 1], w)
      /\ at' = at \/ at' \in Pending(top)
  BY DEF EndCode, below
<1>5. PendingInv(visits', code', at')
  BY <1>1, <1>2, <1>3, <1>4, PendingEnds
<1> QED
  BY <1>4, <1>5

LEMMA EndKeepsInv ==
    ASSUME IInv, TypeInv', NEW w, NEW new, EndStep(w, new), EndStack(w, new), EndCode(w)
    PROVE  IInv'
BY EndShape, EndStackInv, EndOpen DEF IInv

-----------------------------------------------------------------------------
(* The code. *)

LEMMA Emitted ==
    ASSUME NEW c, CodeType(c), NEW a \in DOMAIN c, NEW is \in Seq(InstrSet),
           \A i \in DOMAIN is : ToSet(is[i].blocks) \subseteq DOMAIN c,
           NEW c2, c2 = [c EXCEPT ![a] = c[a] \o is]
    PROVE  /\ CodeType(c2)
           /\ DOMAIN c2 = DOMAIN c /\ Len(c2) = Len(c)
           /\ Grows(c, c2, a)
           /\ c2[a] = c[a] \o is
<1>1. c \in Seq(Seq(InstrSet)) /\ DOMAIN c = 1..Len(c) /\ c[a] \in Seq(InstrSet)
      /\ a \in 1..Len(c)
  BY LenProperties, ElementOfSeq DEF CodeType
<1>2. c[a] \o is \in Seq(InstrSet)
  BY <1>1, ConcatProperties
<1> DEFINE x == c[a] \o is
<1> HIDE DEF x
<1>3. /\ c2 \in Seq(Seq(InstrSet)) /\ Len(c2) = Len(c)
      /\ \A b \in 1..Len(c) : c2[b] = IF b = a THEN x ELSE c[b]
  BY <1>1, <1>2, ExceptSeq DEF x
<1>4. DOMAIN c2 = DOMAIN c
  BY <1>1, <1>3, LenProperties
<1>5. c2[a] = x
  BY <1>1, <1>3
<1>6. ASSUME NEW i \in DOMAIN x PROVE ToSet(x[i].blocks) \subseteq DOMAIN c
  <2>1. /\ Len(x) = Len(c[a]) + Len(is)
        /\ \A j \in 1..(Len(c[a]) + Len(is)) :
              x[j] = IF j <= Len(c[a]) THEN c[a][j] ELSE is[j - Len(c[a])]
    BY <1>1, ConcatProperties DEF x
  <2>2. /\ Len(c[a]) \in Nat /\ Len(is) \in Nat
        /\ DOMAIN c[a] = 1..Len(c[a]) /\ DOMAIN is = 1..Len(is) /\ DOMAIN x = 1..Len(x)
    BY <1>1, <1>2, LenProperties DEF x
  <2> DEFINE m == Len(c[a])
             n == Len(is)
  <2>3. m \in Nat /\ n \in Nat /\ i \in 1..(m + n) /\ DOMAIN c[a] = 1..m /\ DOMAIN is = 1..n
    BY <2>1, <2>2
  <2>4. x[i] = IF i <= m THEN c[a][i] ELSE is[i - m]
    BY <2>1, <2>3
  <2> HIDE DEF m, n
  <2>5. (i <= m /\ i \in 1..m) \/ (~(i <= m) /\ i - m \in 1..n)
    BY <2>3
  <2>6. CASE i <= m /\ i \in 1..m
    BY <2>6, <2>3, <2>4 DEF CodeType
  <2>7. CASE ~(i <= m) /\ i - m \in 1..n
    BY <2>7, <2>3, <2>4
  <2> QED
    BY <2>5, <2>6, <2>7
<1>7. ASSUME NEW b \in DOMAIN c2, NEW i \in DOMAIN c2[b]
      PROVE  ToSet(c2[b][i].blocks) \subseteq DOMAIN c2
  <2>1. CASE b = a
    BY <2>1, <1>4, <1>5, <1>6
  <2>2. CASE b # a
    <3>1. c2[b] = c[b] /\ b \in DOMAIN c
      BY <2>2, <1>1, <1>3, <1>4
    <3> QED
      BY <3>1, <1>4 DEF CodeType
  <2> QED
    BY <2>1, <2>2
<1>8. CodeType(c2)
  BY <1>3, <1>7 DEF CodeType
<1>9. Grows(c, c2, a)
  BY <1>1, <1>3, <1>4 DEF Grows
<1> QED
  BY <1>3, <1>4, <1>5, <1>8, <1>9 DEF x

(* With n new basic blocks, which the instructions may name. *)
Extends(c, c2, a, is, n) ==
    /\ CodeType(c2)
    /\ DOMAIN c = 1..Len(c) /\ Len(c) \in Nat
    /\ DOMAIN c2 = 1..(Len(c) + n)
    /\ Grows(c, c2, a)
    /\ c2[a] = c[a] \o is

LEMMA EmittedAndNew ==
    ASSUME NEW c, CodeType(c), NEW a \in DOMAIN c, NEW is \in Seq(InstrSet), NEW n \in Nat,
           \A i \in DOMAIN is : ToSet(is[i].blocks) \subseteq 1..(Len(c) + n),
           NEW c2, c2 = [c EXCEPT ![a] = c[a] \o is] \o NewBlocks(n)
    PROVE  Extends(c, c2, a, is, n)
<1>1. /\ c \in Seq(Seq(InstrSet)) /\ DOMAIN c = 1..Len(c) /\ Len(c) \in Nat
      /\ a \in 1..Len(c) /\ \A b \in 1..Len(c) : c[b] \in Seq(InstrSet)
  BY LenProperties, ElementOfSeq DEF CodeType
<1>2. /\ NewBlocks(n) \in Seq(Seq(InstrSet)) /\ Len(NewBlocks(n)) = n
      /\ \A b \in 1..n : NewBlocks(n)[b] = <<>>
  <2>1. <<>> \in Seq(InstrSet)
    BY EmptySeq
  <2>2. NewBlocks(n) = [b \in 1..n |-> <<>>]
    BY DEF NewBlocks
  <2>3. NewBlocks(n) \in [1..n -> Seq(InstrSet)]
    BY <2>1, <2>2
  <2>4. NewBlocks(n) \in Seq(Seq(InstrSet))
    BY <2>3
  <2>5. Len(NewBlocks(n)) = n
    BY <2>2, <2>4, LenProperties
  <2> QED
    BY <2>2, <2>4, <2>5
<1> DEFINE e == [c EXCEPT ![a] = c[a] \o is]
           x == c[a] \o is
           m == Len(c)
<1>3. x \in Seq(InstrSet)
  BY <1>1, ConcatProperties
<1>4. /\ e \in Seq(Seq(InstrSet)) /\ Len(e) = Len(c)
      /\ \A b \in 1..Len(c) : e[b] = IF b = a THEN x ELSE c[b]
  <2> HIDE DEF x
  <2>1. e = [c EXCEPT ![a] = x]
    BY DEF x
  <2> HIDE DEF e
  <2> QED
    BY <2>1, <1>1, <1>3, ExceptSeq
<1> DEFINE f == NewBlocks(n)
<1> HIDE DEF x, f
<1>15. c2 = e \o f
  BY DEF x, f
<1> HIDE DEF e
<1>5. /\ c2 \in Seq(Seq(InstrSet)) /\ Len(c2) = m + n
      /\ \A b \in 1..(m + n) : c2[b] = IF b <= m THEN e[b] ELSE f[b - m]
  <2>1. /\ f \in Seq(Seq(InstrSet)) /\ Len(f) = n
        /\ e \in Seq(Seq(InstrSet)) /\ Len(e) = m
    BY <1>2, <1>4 DEF f
  <2> HIDE DEF m
  <2>2. /\ e \o f \in Seq(Seq(InstrSet)) /\ Len(e \o f) = Len(e) + Len(f)
        /\ \A b \in 1..(Len(e) + Len(f)) :
              (e \o f)[b] = IF b <= Len(e) THEN e[b] ELSE f[b - Len(e)]
    BY <2>1, ConcatProperties
  <2> QED
    BY <2>1, <2>2, <1>15
<1>6. m \in Nat /\ DOMAIN c = 1..m /\ a \in 1..m /\ DOMAIN c2 = 1..(m + n)
  BY <1>1, <1>5, LenProperties
<1>7. /\ \A b \in 1..m : e[b] = IF b = a THEN x ELSE c[b]
      /\ \A b \in 1..n : f[b] = <<>>
  BY <1>2, <1>4 DEF f
<1> HIDE DEF m
<1>8. c2[a] = x
  <2>1. a \in 1..(m + n) /\ a <= m
    BY <1>6
  <2> QED
    BY <2>1, <1>5, <1>6, <1>7
<1>9. \A b \in DOMAIN c \ {a} : c2[b] = c[b]
  BY <1>5, <1>6, <1>7
<1>10. \A b \in DOMAIN c2 \ DOMAIN c : c2[b] = <<>>
  <2> SUFFICES ASSUME NEW b \in DOMAIN c2 \ DOMAIN c PROVE c2[b] = <<>>
    OBVIOUS
  <2>1. b \in 1..(m + n) /\ ~(b <= m) /\ b - m \in 1..n
    BY <1>6
  <2> QED
    BY <2>1, <1>5, <1>7
<1>11. Grows(c, c2, a)
  BY <1>6, <1>9, <1>10 DEF Grows
<1>12. ASSUME NEW i \in DOMAIN x PROVE ToSet(x[i].blocks) \subseteq DOMAIN c2
  <2>1. /\ Len(x) = Len(c[a]) + Len(is)
        /\ \A j \in 1..(Len(c[a]) + Len(is)) :
              x[j] = IF j <= Len(c[a]) THEN c[a][j] ELSE is[j - Len(c[a])]
    BY <1>1, ConcatProperties DEF x
  <2>2. /\ Len(c[a]) \in Nat /\ Len(is) \in Nat
        /\ DOMAIN c[a] = 1..Len(c[a]) /\ DOMAIN is = 1..Len(is) /\ DOMAIN x = 1..Len(x)
    BY <1>1, <1>3, LenProperties
  <2> DEFINE p == Len(c[a])
             q == Len(is)
  <2>3. p \in Nat /\ q \in Nat /\ i \in 1..(p + q) /\ DOMAIN c[a] = 1..p /\ DOMAIN is = 1..q
    BY <2>1, <2>2
  <2>4. x[i] = IF i <= p THEN c[a][i] ELSE is[i - p]
    BY <2>1, <2>3
  <2> HIDE DEF p, q
  <2>5. (i <= p /\ i \in 1..p) \/ (~(i <= p) /\ i - p \in 1..q)
    BY <2>3
  <2>6. DOMAIN c \subseteq DOMAIN c2
    BY <1>6
  <2>7. CASE i <= p /\ i \in 1..p
    BY <2>3, <2>4, <2>6, <2>7 DEF CodeType
  <2>8. CASE ~(i <= p) /\ i - p \in 1..q
    BY <2>3, <2>4, <2>8, <1>6 DEF m
  <2> QED
    BY <2>5, <2>7, <2>8
<1>13. ASSUME NEW b \in DOMAIN c2, NEW i \in DOMAIN c2[b]
       PROVE  ToSet(c2[b][i].blocks) \subseteq DOMAIN c2
  <2>1. CASE b = a
    BY <2>1, <1>8, <1>12
  <2>2. CASE b # a /\ b \in DOMAIN c
    <3>1. c2[b] = c[b]
      BY <2>2, <1>9
    <3>2. DOMAIN c \subseteq DOMAIN c2
      BY <1>6
    <3> QED
      BY <2>2, <3>1, <3>2 DEF CodeType
  <2>3. CASE b \notin DOMAIN c
    BY <2>3, <1>10
  <2> QED
    BY <2>1, <2>2, <2>3
<1>14. CodeType(c2)
  BY <1>5, <1>13 DEF CodeType
<1> QED
  BY <1>6, <1>8, <1>11, <1>14 DEF m, x, Extends

-----------------------------------------------------------------------------
(* Values and instructions. *)

LEMMA ValueFacts ==
    /\ Value \subseteq Values
    /\ NoReg \in Value
    /\ \A v \in Value : TypeOf(v) \in Types
    /\ \A n \in Nat, t \in Types : Const(n, t) \in Value /\ TypeOf(Const(n, t)) = t
    /\ "bool" \in Types /\ "float" \in Types /\ "()" \in Types
BY DEF Value, Values, NoReg, Const, TypeOf, Types, Data

LEMMA NewRegIs ==
    ASSUME TypeInv, NEW t \in Types
    PROVE  NewReg(t) \in Value /\ NewReg(t) \in Values /\ TypeOf(NewReg(t)) = t
<1>1. item \in Nat /\ regs + 1 \in Nat
  BY DEF TypeInv
<1>2. NewReg(t) = <<"reg", item, regs + 1, t>>
  BY DEF NewReg, Reg
<1>3. NewReg(t) \in Value /\ TypeOf(NewReg(t)) = t
  BY <1>1, <1>2 DEF Value, TypeOf
<1> QED
  BY <1>3, ValueFacts

LEMMA NoBlocks ==
    ToSet(<<>>) = {}
BY DEF ToSet

(* An instruction is added. *)
LEMMA EmitsOne ==
    ASSUME TypeInv, at \in DOMAIN code, NEW i \in InstrSet, ToSet(i.blocks) \subseteq DOMAIN code
    PROVE  /\ CodeType(Emit(<<i>>))
           /\ DOMAIN Emit(<<i>>) = DOMAIN code
           /\ Grows(code, Emit(<<i>>), at)
           /\ Emit(<<i>>)[at] # <<>> /\ Last(Emit(<<i>>)[at]) = i
<1>1. <<i>> \in Seq(InstrSet) /\ DOMAIN <<i>> = {1} /\ <<i>>[1] = i /\ Len(<<i>>) = 1
  OBVIOUS
<1> DEFINE is == <<i>>
<1>2. is \in Seq(InstrSet) /\ \A j \in DOMAIN is : ToSet(is[j].blocks) \subseteq DOMAIN code
  BY <1>1
<1>3. Len(is) = 1 /\ is[1] = i
  BY <1>1
<1> HIDE DEF is
<1>4. Emit(is) = [code EXCEPT ![at] = code[at] \o is] /\ CodeType(code)
  BY DEF Emit, TypeInv
<1>5. /\ CodeType(Emit(is))
      /\ DOMAIN Emit(is) = DOMAIN code
      /\ Grows(code, Emit(is), at)
      /\ Emit(is)[at] = code[at] \o is
  <2> DEFINE c2 == Emit(is)
             a == at
  <2>1. c2 = [code EXCEPT ![a] = code[a] \o is] /\ a \in DOMAIN code
    BY <1>4
  <2> HIDE DEF c2, a
  <2>2. /\ CodeType(c2)
        /\ DOMAIN c2 = DOMAIN code
        /\ Grows(code, c2, a)
        /\ c2[a] = code[a] \o is
    BY <2>1, <1>2, <1>4, Emitted
  <2> QED
    BY <2>2 DEF c2, a
<1>6. code \in Seq(Seq(InstrSet)) /\ at \in 1..Len(code) /\ code[at] \in Seq(InstrSet)
  BY <1>4, LenProperties, ElementOfSeq DEF CodeType
<1> DEFINE c == code[at]
<1>7. c \in Seq(InstrSet) /\ Len(c) \in Nat
  BY <1>6, LenProperties
<1> HIDE DEF c
<1>8. /\ c \o is \in Seq(InstrSet)
      /\ Len(c \o is) = Len(c) + 1
      /\ \A k \in 1..(Len(c) + 1) : (c \o is)[k] = IF k <= Len(c) THEN c[k] ELSE is[k - Len(c)]
  <2>1. /\ c \o is \in Seq(InstrSet)
        /\ Len(c \o is) = Len(c) + Len(is)
        /\ \A k \in 1..(Len(c) + Len(is)) :
              (c \o is)[k] = IF k <= Len(c) THEN c[k] ELSE is[k - Len(c)]
    BY <1>2, <1>3, <1>7, ConcatProperties
  <2> QED
    BY <2>1, <1>2, <1>3, <1>7
<1>9. (c \o is)[Len(c) + 1] = i
  BY <1>3, <1>7, <1>8
<1>10. Last(c \o is) = i
  BY <1>8, <1>9 DEF Last
<1>11. c \o is # <<>>
  BY <1>7, <1>8, EmptySeq
<1> QED
  BY <1>5, <1>10, <1>11 DEF c, is

(* Two are. *)
LEMMA EmitsTwo ==
    ASSUME TypeInv, at \in DOMAIN code, NEW i \in InstrSet, NEW j \in InstrSet,
           ToSet(i.blocks) \subseteq DOMAIN code, ToSet(j.blocks) \subseteq DOMAIN code
    PROVE  /\ CodeType(Emit(<<i, j>>))
           /\ DOMAIN Emit(<<i, j>>) = DOMAIN code
           /\ Grows(code, Emit(<<i, j>>), at)
           /\ Emit(<<i, j>>)[at] # <<>> /\ Last(Emit(<<i, j>>)[at]) = j
<1> DEFINE is == <<i, j>>
<1>1. is \in Seq(InstrSet) /\ DOMAIN is = {1, 2} /\ is[1] = i /\ is[2] = j /\ Len(is) = 2
  OBVIOUS
<1>2. \A k \in DOMAIN is : ToSet(is[k].blocks) \subseteq DOMAIN code
  BY <1>1
<1> HIDE DEF is
<1>4. Emit(is) = [code EXCEPT ![at] = code[at] \o is] /\ CodeType(code)
  BY DEF Emit, TypeInv
<1>5. /\ CodeType(Emit(is))
      /\ DOMAIN Emit(is) = DOMAIN code
      /\ Grows(code, Emit(is), at)
      /\ Emit(is)[at] = code[at] \o is
  <2> DEFINE c2 == Emit(is)
             a == at
  <2>1. c2 = [code EXCEPT ![a] = code[a] \o is] /\ a \in DOMAIN code
    BY <1>4
  <2> HIDE DEF c2, a
  <2>2. /\ CodeType(c2)
        /\ DOMAIN c2 = DOMAIN code
        /\ Grows(code, c2, a)
        /\ c2[a] = code[a] \o is
    BY <2>1, <1>1, <1>2, <1>4, Emitted
  <2> QED
    BY <2>2 DEF c2, a
<1>6. code \in Seq(Seq(InstrSet)) /\ at \in 1..Len(code) /\ code[at] \in Seq(InstrSet)
  BY <1>4, LenProperties, ElementOfSeq DEF CodeType
<1> DEFINE c == code[at]
<1>7. c \in Seq(InstrSet) /\ Len(c) \in Nat
  BY <1>6, LenProperties
<1> HIDE DEF c
<1>8. /\ c \o is \in Seq(InstrSet)
      /\ Len(c \o is) = Len(c) + 2
      /\ \A k \in 1..(Len(c) + 2) : (c \o is)[k] = IF k <= Len(c) THEN c[k] ELSE is[k - Len(c)]
  <2>1. /\ c \o is \in Seq(InstrSet)
        /\ Len(c \o is) = Len(c) + Len(is)
        /\ \A k \in 1..(Len(c) + Len(is)) :
              (c \o is)[k] = IF k <= Len(c) THEN c[k] ELSE is[k - Len(c)]
    BY <1>1, <1>7, ConcatProperties
  <2> QED
    BY <2>1, <1>1, <1>7
<1>9. (c \o is)[Len(c) + 2] = j
  BY <1>1, <1>7, <1>8
<1>10. Last(c \o is) = j
  BY <1>8, <1>9 DEF Last
<1>11. c \o is # <<>>
  BY <1>7, <1>8, EmptySeq
<1> QED
  BY <1>5, <1>10, <1>11 DEF c, is

(* New basic blocks are appended. *)
LEMMA NewBlocksAre ==
    ASSUME TypeInv, at \in DOMAIN code, NEW n \in Nat
    PROVE  /\ CodeType(code \o NewBlocks(n))
           /\ DOMAIN code = 1..Len(code) /\ Len(code) \in Nat
           /\ DOMAIN (code \o NewBlocks(n)) = 1..(Len(code) + n)
           /\ Grows(code, code \o NewBlocks(n), at)
           /\ (code \o NewBlocks(n))[at] = code[at]
<1>1. CodeType(code)
  BY DEF TypeInv
<1>2. code \in Seq(Seq(InstrSet)) /\ at \in 1..Len(code) /\ code[at] \in Seq(InstrSet)
  BY <1>1, LenProperties, ElementOfSeq DEF CodeType
<1>3. code[at] \o <<>> = code[at]
  BY <1>2
<1>4. code = [code EXCEPT ![at] = code[at] \o <<>>]
  BY <1>2, <1>3
<1>5. /\ <<>> \in Seq(InstrSet)
      /\ \A i \in DOMAIN <<>> : ToSet(<<>>[i].blocks) \subseteq 1..(Len(code) + n)
  OBVIOUS
<1> DEFINE is == <<>>
           c2 == code \o NewBlocks(n)
<1>6. /\ is \in Seq(InstrSet)
      /\ \A i \in DOMAIN is : ToSet(is[i].blocks) \subseteq 1..(Len(code) + n)
      /\ c2 = [code EXCEPT ![at] = code[at] \o is] \o NewBlocks(n)
      /\ code[at] \o is = code[at]
  BY <1>3, <1>4, <1>5
<1> DEFINE a == at
           m == n
<1>7. /\ is \in Seq(InstrSet) /\ m \in Nat /\ a \in DOMAIN code
      /\ \A i \in DOMAIN is : ToSet(is[i].blocks) \subseteq 1..(Len(code) + m)
      /\ c2 = [code EXCEPT ![a] = code[a] \o is] \o NewBlocks(m)
  BY <1>6
<1> HIDE DEF is, c2, a, m
<1>8. Extends(code, c2, a, is, m)
  BY <1>1, <1>7, EmittedAndNew, Zenon
<1>9. /\ CodeType(c2)
      /\ DOMAIN code = 1..Len(code) /\ Len(code) \in Nat
      /\ DOMAIN c2 = 1..(Len(code) + m)
      /\ Grows(code, c2, a)
      /\ c2[a] = code[a] \o is
  BY <1>8 DEF Extends
<1> QED
  BY <1>6, <1>9 DEF c2, a, m

-----------------------------------------------------------------------------
(* ir_code. *)

LEMMA PopFacts ==
    ASSUME TypeInv, ir_code # <<>>
    PROVE  /\ Len(ir_code) \in Nat /\ Len(ir_code) >= 1
           /\ Front(ir_code) \in Seq(Value) /\ Len(Front(ir_code)) = Len(ir_code) - 1
           /\ Front(ir_code) \o <<>> = Front(ir_code)
           /\ Popped \in Value /\ Popped \in Values
           /\ Datas(ir_code) => Datas(Front(ir_code)) /\ TypeOf(Popped) \in Data
<1>1. ir_code \in Seq(Value)
  BY DEF TypeInv
<1>2. /\ Len(ir_code) \in Nat \ {0}
      /\ ir_code[Len(ir_code)] \in Value
      /\ Front(ir_code) \in Seq(Value)
      /\ Len(Front(ir_code)) = Len(ir_code) - 1
      /\ \A i \in 1..(Len(ir_code) - 1) : Front(ir_code)[i] = ir_code[i]
  BY <1>1, FrontItems
<1>3. Popped = ir_code[Len(ir_code)]
  BY DEF Popped, Last
<1>4. DOMAIN ir_code = 1..Len(ir_code) /\ DOMAIN Front(ir_code) = 1..(Len(ir_code) - 1)
  BY <1>1, <1>2, LenProperties
<1>5. Datas(ir_code) => Datas(Front(ir_code)) /\ TypeOf(Popped) \in Data
  <2> DEFINE n == Len(ir_code)
  <2>1. n \in Nat /\ n >= 1 /\ DOMAIN ir_code = 1..n /\ DOMAIN Front(ir_code) = 1..(n - 1)
    BY <1>2, <1>4
  <2>2. \A i \in 1..(n - 1) : Front(ir_code)[i] = ir_code[i]
    BY <1>2
  <2>3. Popped = ir_code[n]
    BY <1>3
  <2> HIDE DEF n
  <2>4. n \in 1..n /\ \A i \in 1..(n - 1) : i \in 1..n
    BY <2>1
  <2> QED
    BY <2>1, <2>2, <2>3, <2>4 DEF Datas
<1> QED
  BY <1>2, <1>3, <1>5, ValueFacts

LEMMA DatasAppend ==
    ASSUME NEW s \in Seq(Value), NEW v \in Value
    PROVE  /\ Append(s, v) \in Seq(Value) /\ Append(s, v) = s \o <<v>>
           /\ Len(Append(s, v)) = Len(s) + 1 /\ Len(s) \in Nat
           /\ Datas(s) /\ TypeOf(v) \in Data => Datas(Append(s, v))
<1>1. /\ Append(s, v) \in Seq(Value)
      /\ Len(Append(s, v)) = Len(s) + 1
      /\ \A i \in 1..Len(s) : Append(s, v)[i] = s[i]
      /\ Append(s, v)[Len(s) + 1] = v
  BY AppendItem
<1>2. Len(s) \in Nat /\ DOMAIN s = 1..Len(s) /\ DOMAIN Append(s, v) = 1..(Len(s) + 1)
  BY <1>1, LenProperties
<1>3. ASSUME Datas(s), TypeOf(v) \in Data PROVE Datas(Append(s, v))
  <2> SUFFICES ASSUME NEW i \in 1..(Len(s) + 1) PROVE TypeOf(Append(s, v)[i]) \in Data
    BY <1>2 DEF Datas
  <2>1. i = Len(s) + 1 \/ i \in 1..Len(s)
    BY <1>2
  <2> QED
    BY <2>1, <1>1, <1>2, <1>3 DEF Datas
<1>4. Append(s, v) = s \o <<v>>
  OBVIOUS
<1> QED
  BY <1>1, <1>2, <1>3, <1>4

-----------------------------------------------------------------------------
(* The forms in which a step changes a visit. *)

Changed(v, w) == VisitType(w) /\ SameVisit(v, w) /\ w.trees = v.trees

LEMMA TakenIs ==
    ASSUME TypeInv, VisitType(top), ir_code # <<>>
    PROVE  /\ Changed(top, Taken) /\ Taken.after = FALSE /\ Taken.base = Len(ir_code) - 1
           /\ Taken.values = Append(top.values, Popped)
           /\ Len(Taken.values) = Len(top.values) + 1 /\ Len(top.values) \in Nat
           /\ Datas(top.values) /\ TypeOf(Popped) \in Data => Datas(Taken.values)
           /\ Taken.blocks = top.blocks /\ Taken.last = top.last
           /\ Taken.declared = top.declared
<1> DEFINE vals == Append(top.values, Popped)
           n == Len(ir_code) - 1
<1>1. Popped \in Value /\ n \in Nat
  BY PopFacts
<1>2. top.values \in Seq(Value)
  BY DEF VisitType
<1>3. /\ vals \in Seq(Value) /\ Len(vals) = Len(top.values) + 1 /\ Len(top.values) \in Nat
      /\ Datas(top.values) /\ TypeOf(Popped) \in Data => Datas(vals)
  BY <1>1, <1>2, DatasAppend
<1> DEFINE v == top
           w == Taken
<1>4. w = [v EXCEPT !.values = vals, !.after = FALSE, !.base = n] /\ VisitType(v)
  BY DEF Taken
<1> HIDE DEF vals, n, v, w
<1>5. /\ Changed(v, w) /\ w.after = FALSE /\ w.base = n /\ w.values = vals
      /\ w.blocks = v.blocks /\ w.last = v.last /\ w.declared = v.declared
  BY <1>1, <1>3, <1>4 DEF VisitType, Changed, SameVisit
<1> QED
  BY <1>3, <1>5 DEF vals, n, v, w

-----------------------------------------------------------------------------
(* The node v when a part of it has been visited. *)

LEMMA GivenTreeLocal ==
    ASSUME NEW v, NEW u, NEW r, NEW D, Local(v, u, r, D), NEW tree,
           v.node \notin {"block", "fn"} => ~v.after,
           v.node = "if" => Len(v.trees) < Len(v.blocks)
    PROVE  /\ Local(GivenTree(v, tree), u, r, D)
           /\ Keeps(v, GivenTree(v, tree))
           /\ SameVisit(v, GivenTree(v, tree))
           /\ Valued(GivenTree(v, tree)) <=> Valued(v)
           /\ ExprPart(GivenTree(v, tree)) <=> ExprPart(v)
           /\ GivenTree(v, tree).after /\ GivenTree(v, tree).values = v.values
           /\ GivenTree(v, tree).last = v.last /\ GivenTree(v, tree).base = v.base
           /\ GivenTree(v, tree).declared = v.declared
<1> DEFINE w == GivenTree(v, tree)
<1>1. /\ VisitType(v) /\ ToSet(v.blocks) \subseteq D
      /\ Flags(v, r) /\ ExprParts(v) /\ IfParts(v) /\ CallOK(v, u)
  BY DEF Local
<1>2. /\ VisitType(w) /\ SameVisit(v, w) /\ Len(w.trees) = Len(v.trees) + 1 /\ w.after = TRUE
      /\ w.values = v.values /\ w.blocks = v.blocks /\ w.last = v.last /\ w.base = v.base
      /\ w.declared = v.declared
  BY <1>1, GivenTreeVisit
<1> HIDE DEF w
<1>3. Len(v.trees) \in Nat /\ Len(v.blocks) \in Nat /\ v.after \in BOOLEAN /\ v.branches \in Nat
  BY <1>1, SeqItems, LenProperties DEF VisitType
<1>4. v.node \notin {"block", "fn"} => Part(w) = Part(v)
  BY <1>2, <1>3 DEF Part
<1>5. /\ w.node = v.node /\ w.op = v.op /\ w.fn = v.fn /\ w.args = v.args /\ w.want = v.want
      /\ w.source = v.source /\ w.branches = v.branches /\ w.tail = v.tail
  BY <1>2 DEF SameVisit
<1>6. CondPart(w) <=> CondPart(v)
  BY <1>4, <1>5 DEF CondPart
<1>7. (Valued(w) <=> Valued(v)) /\ (ExprPart(w) <=> ExprPart(v))
  BY <1>2, <1>5, <1>6 DEF Valued, Sourced, ExprPart
<1>8. Flags(w, r) /\ CallOK(w, u)
  BY <1>1, <1>2, <1>5 DEF Flags, CallOK
<1>9. ExprParts(w)
  <2>1. Len(w.trees) >= 1
    BY <1>2, <1>3
  <2>2. v.node \in ExprNodes \cup {"unary", "binary", "if_expr"} => Part(w) = Part(v)
    BY <1>4 DEF ExprNodes
  <2> QED
    BY <1>1, <1>2, <1>5, <2>1, <2>2 DEF ExprParts
<1>10. IfParts(w)
  <2>1. v.node = "if" => Len(w.trees) <= Len(v.blocks) /\ Len(w.trees) >= 1
    BY <1>2, <1>3
  <2> QED
    BY <1>1, <1>2, <1>5, <2>1 DEF IfParts
<1>11. Local(w, u, r, D)
  BY <1>1, <1>2, <1>8, <1>9, <1>10 DEF Local
<1>12. Keeps(v, w)
  <2>1. PendingParts(w) = PendingParts(v)
    BY <1>2, <1>4, <1>5 DEF PendingParts
  <2> QED
    BY <2>1, <1>2 DEF Keeps
<1> QED
  BY <1>2, <1>7, <1>11, <1>12 DEF w

(* The visit on top ends: the one below, p, which may have changed. *)
LEMMA BelowReady ==
    ASSUME VisitsInv, ShapeInv, visits # <<>>, top.node # "fn"
    PROVE  /\ Len(visits) >= 2 /\ VisitType(below)
           /\ Local(below, unit, unit[item].ret, DOMAIN code)
           /\ Linked(below, top)
           /\ below.node \notin {"block", "fn"} => ~below.after
           /\ below.node = "if" => Len(below.trees) < Len(below.blocks)
<1>1. /\ Len(visits) >= 2
      /\ Local(below, unit, unit[item].ret, DOMAIN code)
      /\ Linked(below, top)
  BY BelowFacts
<1> QED
  BY <1>1 DEF Local, Linked

(* Nothing has returned where a visit goes on. *)
LEMMA IsOpen ==
    ASSUME VisitsInv, ShapeInv, OpenInv, Handled, visits # <<>>,
           top.node # "fn" \/ top.after,
           \/ ~top.after
           \/ top.node = "block" /\ ~top.last
           \/ top.node \notin {"fn", "block"}
           \/ ir_code # <<>>
           \/ top.node = "fn" /\ ~top.source
    PROVE  Open(code, at)
<1>1. Open(code, at) \/ Returned
  BY DEF OpenInv
<1>2. /\ Len(visits) \in Nat /\ Len(visits) >= 1 /\ top = visits[Len(visits)]
      /\ Shape(visits, unit, unit[item].ret, DOMAIN code)
  BY TopFacts DEF ShapeInv
<1>3. visits[1].node = "fn"
  BY <1>2 DEF Shape
<1>4. ASSUME Returned PROVE FALSE
  <2>1. top.after /\ ir_code = <<>> /\ visits[1].source
    BY <1>4 DEF Returned
  <2>2. CASE top.node = "fn"
    <3>1. Len(visits) = 1
      <4>1. ASSUME Len(visits) >= 2 PROVE FALSE
        BY <2>2, <4>1, BelowFacts, <1>2, <1>4 DEF Returned
      <4> QED
        BY <4>1, <1>2
    <3> QED
      BY <2>1, <2>2, <3>1, <1>2
  <2>3. CASE top.node # "fn"
    <3>1. Len(visits) # 1
      BY <2>3, <1>2, <1>3
    <3> DEFINE n == Len(visits)
    <3>4. n \in Nat /\ n >= 1 /\ n # 1
      BY <3>1, <1>2
    <3> HIDE DEF n
    <3>5. n \in 2..n
      BY <3>4
    <3>2. Len(visits) \in 2..Len(visits)
      BY <3>5 DEF n
    <3>3. top.node = "block" /\ top.last
      BY <3>2, <1>2, <1>4 DEF Returned
    <3> QED
      BY <2>1, <3>3
  <2> QED
    BY <2>2, <2>3
<1> QED
  BY <1>1, <1>4

-----------------------------------------------------------------------------
(* Where an expression can come. *)

LEMMA CallParams ==
    ASSUME VisitsInv, ShapeInv, visits # <<>>, top.node = "call"
    PROVE  \A p \in NextArg : unit[top.fn].params[p] \in Data
<1>1. Local(top, unit, unit[item].ret, DOMAIN code)
  BY TopFacts
<1>2. unit[top.fn] \in Signature /\ top.args \in Seq(DOMAIN unit[top.fn].params)
  BY <1>1 DEF Local, CallOK
<1>3. unit[top.fn].params \in Seq(Data)
  BY <1>2 DEF Signature
<1> SUFFICES ASSUME NEW p \in NextArg PROVE unit[top.fn].params[p] \in Data
  OBVIOUS
<1> DEFINE args == top.args
           params == unit[top.fn].params
<1>4. PICK a \in DOMAIN args : p = args[a]
  BY DEF NextArg, ToSet
<1>5. args \in Seq(DOMAIN params) /\ params \in Seq(Data)
  BY <1>2, <1>3
<1> HIDE DEF args, params
<1>6. p \in DOMAIN params
  BY <1>4, <1>5, LenProperties, ElementOfSeq
<1>7. params[p] \in Data
  BY <1>5, <1>6, LenProperties, ElementOfSeq
<1> QED
  BY <1>7 DEF params

LEMMA WantsFacts ==
    ASSUME VisitsInv, ShapeInv, visits # <<>>, NEW type \in Wants
    PROVE  /\ ~top.after /\ ExprPart(top) /\ top.node \notin {"fn", "block"}
           /\ top.node = "if" => Len(top.trees) < Len(top.blocks)
           /\ type \in Types
           /\ Datas(top.values) /\ Valued(top) => type \in Data
<1>1. Local(top, unit, unit[item].ret, DOMAIN code)
  BY TopFacts
<1>2. VisitType(top) /\ Flags(top, unit[item].ret) /\ ExprParts(top) /\ IfParts(top)
  BY <1>1 DEF Local
<1>3. /\ Len(top.trees) \in Nat /\ Len(top.blocks) \in Nat /\ top.branches \in Nat
      /\ top.after \in BOOLEAN /\ top.node \in Nodes /\ top.want \in SUBSET Types
      /\ top.values \in Seq(Value)
  BY <1>2, SeqItems, LenProperties DEF VisitType
<1>4. ~top.after /\ top.node \notin {"fn", "block"}
  BY DEF Wants
<1>5. Part(top) = Len(top.trees)
  BY <1>4 DEF Part
<1>6. Data \subseteq Types /\ "bool" \in Data /\ "float" \in Data
  BY DEF Types, Data
<1>7. top.node \in {"unary", "binary"} \/ top.op = "none"
  BY <1>2 DEF ExprParts
<1>8. top.op = "none" => top.op \notin Arithmetic \cup {"less"}
  BY DEF Arithmetic
<1>9. CASE top.node = "unary" \/ top.op \in Arithmetic \cup {"less"}
  <2>1. Wants = {"float"}
    BY <1>4, <1>9 DEF Wants
  <2>2. top.node \in {"unary", "binary"}
    BY <1>7, <1>8, <1>9
  <2> QED
    BY <2>1, <2>2, <1>4, <1>6 DEF ExprPart, ExprNodes
<1>10. CASE top.node = "binary" /\ top.op \notin Arithmetic \cup {"less"}
  <2>1. Len(top.values) = Len(top.trees) /\ Len(top.trees) <= 1
    BY <1>2, <1>5, <1>10 DEF ExprParts, ExprNodes
  <2> DEFINE n == Len(top.trees)
  <2>2. n \in Nat /\ n <= 1
    BY <1>3, <2>1
  <2> HIDE DEF n
  <2>3. n = 0 \/ n = 1
    BY <2>2
  <2>4. CASE n = 0
    <3>1. Wants = Data
      BY <2>4, <1>4, <1>10 DEF Wants, n
    <3> QED
      BY <3>1, <1>4, <1>6, <1>10 DEF ExprPart, ExprNodes
  <2>5. CASE n = 1
    <3>1. Wants = {TypeOf(top.values[1])}
      BY <2>5, <1>4, <1>10 DEF Wants, n
    <3>2. DOMAIN top.values = 1..n
      BY <1>3, <2>1, LenProperties DEF n
    <3>3. 1 \in DOMAIN top.values
      BY <3>2, <2>5
    <3>4. top.values[1] \in Value
      BY <3>3, <1>3, LenProperties, ElementOfSeq
    <3>5. type = TypeOf(top.values[1]) /\ type \in Types
      BY <3>1, <3>4, ValueFacts
    <3>6. Datas(top.values) => type \in Data
      BY <3>3, <3>5 DEF Datas
    <3> QED
      BY <3>5, <3>6, <1>4, <1>10 DEF ExprPart, ExprNodes
  <2> QED
    BY <2>3, <2>4, <2>5
<1>11. CASE top.node = "if_expr"
  <2>1. Wants \subseteq Data
    <3>1. top.want \subseteq Data
      BY <1>2, <1>11 DEF Flags
    <3> QED
      BY <3>1, <1>4, <1>6, <1>7, <1>8, <1>11 DEF Wants
  <2> QED
    BY <2>1, <1>4, <1>6, <1>11 DEF ExprPart, ExprNodes
<1>12. CASE top.node = "if"
  <2>1. Len(top.trees) % 2 = 0 /\ Len(top.trees) < 2 * top.branches /\ Wants = {"bool"}
    BY <1>4, <1>7, <1>8, <1>12 DEF Wants
  <2>2. CondPart(top)
    BY <2>1, <1>5, <1>12 DEF CondPart
  <2> DEFINE n == Len(top.trees)
             m == Len(top.blocks)
             b == top.branches
  <2>3. /\ n \in Nat /\ m \in Nat /\ b \in Nat /\ n < 2 * b
        /\ m = 2 * b \/ m = 2 * b + 1
    BY <1>2, <1>3, <1>12, <2>1 DEF IfParts
  <2> HIDE DEF n, m, b
  <2>4. n < m
    BY <2>3
  <2>5. Len(top.trees) < Len(top.blocks)
    BY <2>4 DEF n, m
  <2> QED
    BY <2>1, <2>2, <2>5, <1>4, <1>6 DEF ExprPart
<1>13. CASE top.node = "call"
  <2>1. Wants = Data \/ Wants = {unit[top.fn].params[p] : p \in NextArg}
    BY <1>4, <1>7, <1>8, <1>13 DEF Wants
  <2>2. \A p \in NextArg : unit[top.fn].params[p] \in Data
    BY <1>13, CallParams
  <2>3. Wants \subseteq Data
    BY <2>1, <2>2
  <2> QED
    BY <2>3, <1>4, <1>6, <1>13 DEF ExprPart, ExprNodes
<1>14. CASE top.node \in {"let", "return", "stmt"}
  <2>1. Wants = top.want
    BY <1>4, <1>7, <1>8, <1>14 DEF Wants
  <2>2. Valued(top) => top.want \subseteq Data
    <3>1. ~CondPart(top)
      BY <1>14 DEF CondPart
    <3>2. Valued(top) => top.node \in {"let", "return"} \/ top.want \subseteq Data
      BY <3>1, <1>14 DEF Valued, Sourced, ExprNodes
    <3> QED
      BY <3>2, <1>2 DEF Flags
  <2> QED
    BY <2>1, <2>2, <1>3, <1>4, <1>14 DEF ExprPart
<1> QED
  BY <1>3, <1>4, <1>9, <1>10, <1>11, <1>12, <1>13, <1>14 DEF Nodes

-----------------------------------------------------------------------------
(* What the parts of a step say of it. *)

(* The top node has the value that it takes. *)
LEMMA NotStale ==
    ASSUME TypeInv, VisitsInv, ShapeInv, StackInv, Handled, visits # <<>>,
           top.after, Valued(top), top.node \notin {"fn", "block"}
    PROVE  Stale = {} /\ top.base < Len(ir_code)
<1>1. Left(visits, Len(ir_code), notes)
  BY DEF StackInv
<1>2. top = Last(visits) /\ Local(top, unit, unit[item].ret, DOMAIN code)
  BY TopFacts
<1>3. top.base < Len(ir_code)
  BY <1>1, <1>2 DEF Left, MayReturn
<1>4. top.base \in Nat /\ Len(ir_code) \in Nat
  BY <1>2, LenProperties DEF TypeInv, Local, VisitType
<1> QED
  BY <1>3, <1>4 DEF Stale

(* The stack and the node on top. *)
LEMMA StackFact ==
    ASSUME TypeInv, VisitsInv, ShapeInv, StackInv, Handled, visits # <<>>
    PROVE  /\ "stale" \notin notes
           /\ Datas(ir_code) /\ Datas(top.values)
           /\ top.after /\ ExprPart(top) /\ Valued(top) => current_type \in Data
           /\ top.base \in Nat /\ Len(ir_code) \in Nat /\ top.base <= Len(ir_code)
           /\ ~top.after /\ top.node \notin {"block", "fn"} => top.base = Len(ir_code)
           /\ "discarded" \notin notes =>
                 /\ top.base = 0 /\ Len(ir_code) <= 1
                 /\ Len(ir_code) = 0 \/ (top.after /\ MayLeave(top))
<1>1. /\ "stale" \notin notes
      /\ DataInv /\ Bases(visits, Len(ir_code)) /\ Exact(visits, Len(ir_code), notes)
  BY DEF StackInv
<1>2. /\ top = Last(visits) /\ Local(top, unit, unit[item].ret, DOMAIN code)
      /\ top = visits[Len(visits)] /\ Len(visits) \in Nat /\ Len(visits) >= 1
      /\ DOMAIN visits = 1..Len(visits)
  BY TopFacts
<1>3. Len(visits) \in DOMAIN visits
  BY <1>2
<1>4. top.base \in Nat /\ Len(ir_code) \in Nat
  BY <1>2, LenProperties DEF TypeInv, Local, VisitType
<1>5. Datas(ir_code) /\ Datas(top.values)
  BY <1>1, <1>2, <1>3 DEF DataInv
<1>6. top.after /\ ExprPart(top) /\ Valued(top) => current_type \in Data
  BY <1>1 DEF DataInv
<1>7. /\ top.base <= Len(ir_code)
      /\ ~top.after /\ top.node \notin {"block", "fn"} => top.base = Len(ir_code)
  BY <1>1, <1>2 DEF Bases
<1>8. "discarded" \notin notes =>
         /\ top.base = 0 /\ Len(ir_code) <= 1
         /\ Len(ir_code) = 0 \/ (top.after /\ MayLeave(top))
  BY <1>1, <1>2, <1>3 DEF Exact
<1> QED
  BY <1>1, <1>4, <1>5, <1>6, <1>7, <1>8

(* The stack and the node below. *)
LEMMA BelowStack ==
    ASSUME TypeInv, VisitsInv, ShapeInv, StackInv, Handled, visits # <<>>, top.node # "fn"
    PROVE  /\ Datas(below.values)
           /\ below.base \in Nat /\ below.base <= top.base
           /\ "discarded" \notin notes => below.base = 0
           /\ top.node = "return" => below.last /\ below.tail /\ "return" \in notes
           /\ top.node = "call" /\ Valued(below) => top.want \subseteq Data
           /\ top.node = "if" /\ top.source => Sourced(top)
<1>1. /\ DataInv /\ Bases(visits, Len(ir_code)) /\ Exact(visits, Len(ir_code), notes)
      /\ Noted(visits, notes)
  BY DEF StackInv
<1>2. /\ Len(visits) >= 2 /\ VisitType(below)
  BY BelowReady
<1>3. /\ top = visits[Len(visits)] /\ Len(visits) \in Nat
      /\ DOMAIN visits = 1..Len(visits)
  BY TopFacts
<1> DEFINE n == Len(visits)
           m == Len(visits) - 1
<1>4. /\ n \in DOMAIN visits /\ m \in DOMAIN visits /\ m <= n /\ m + 1 = n
      /\ m \in 1..(Len(visits) - 1)
  BY <1>2, <1>3
<1>5. visits[m] = below /\ visits[n] = top
  BY <1>3 DEF below
<1> HIDE DEF n, m
<1>6. Datas(below.values)
  BY <1>1, <1>4, <1>5 DEF DataInv
<1>7. below.base <= top.base
  BY <1>1, <1>4, <1>5 DEF Bases
<1>8. "discarded" \notin notes => below.base = 0
  BY <1>1, <1>4, <1>5 DEF Exact
<1>9. /\ visits[m + 1].node = "return" => visits[m].last /\ visits[m].tail /\ "return" \in notes
      /\ visits[m + 1].node = "call" /\ Valued(visits[m]) => visits[m + 1].want \subseteq Data
      /\ visits[m + 1].node = "if" /\ visits[m + 1].source => Sourced(visits[m + 1])
  BY <1>1, <1>4 DEF Noted, Sourced
<1>10. below.base \in Nat
  BY <1>2 DEF VisitType
<1> QED
  BY <1>4, <1>5, <1>6, <1>7, <1>8, <1>9, <1>10

LEMMA PendingTop ==
    ASSUME VisitsInv, ShapeInv, OpenInv, Handled, visits # <<>>
    PROVE  /\ \A b \in Pending(top) : code[b] = <<>> /\ b # at
           /\ \A i, j \in PendingParts(top) : top.blocks[i] = top.blocks[j] => i = j
           /\ Pending(top) \subseteq DOMAIN code
<1>1. PendingInv(visits, code, at)
  BY DEF OpenInv
<1>2. /\ top = visits[Len(visits)] /\ Len(visits) \in Nat /\ Len(visits) >= 1
      /\ DOMAIN visits = 1..Len(visits) /\ Local(top, unit, unit[item].ret, DOMAIN code)
  BY TopFacts
<1>3. Len(visits) \in DOMAIN visits
  BY <1>2
<1>4. Pending(top) \subseteq DOMAIN code
  BY <1>2, PendingAreBlocks
<1> QED
  BY <1>1, <1>2, <1>3, <1>4 DEF PendingInv

(* The builder stays where it is, in a basic block that is open.             *)
LEMMA TopCodeStays ==
    ASSUME VisitsInv, ShapeInv, OpenInv, notes \subseteq notes', visits # <<>>, NEW w, at' = at,
           Handled' => Open(code', at) /\ Grows(code, code', at) /\ Keeps(top, w)
    PROVE  TopCode(w)
<1> SUFFICES ASSUME Handled'
             PROVE  /\ Open(code', at) /\ Grows(code, code', at) /\ Keeps(top, w)
                    /\ at \notin Pending(w)
  BY DEF TopCode
<1>1. Handled
  BY HandledBefore
<1>2. Open(code', at) /\ Grows(code, code', at) /\ Keeps(top, w)
  OBVIOUS
<1>3. \A b \in Pending(top) : b # at
  BY <1>1, PendingTop
<1> QED
  BY <1>2, <1>3, KeepsPending

(* The type invariant, after a step of a visit. *)
LEMMA TypesKept ==
    ASSUME TypeInv, unit' = unit, stage' = stage, item' = item, types' = types,
           scope_manager' = scope_manager,
           ir_code' \in Seq(Value), current_type' \in Types, CodeType(code'),
           at' \in DOMAIN code', regs' \in Nat
    PROVE  TypeInv'
BY DEF TypeInv

-----------------------------------------------------------------------------
(* Expressions without parts. *)

LEMMA LeafKeepsInv ==
    ASSUME IInv, TypeInv', visits # <<>>, unit' = unit, item' = item, notes' = notes,
           scope_manager' = scope_manager, at' = at,
           NEW type \in Wants, NEW value \in Value, NEW tree,
           ir_code' = Append(ir_code, value), current_type' = type,
           visits' = Leave(visits, tree),
           DOMAIN code' = DOMAIN code, Grows(code, code', at), Open(code, at) => Open(code', at),
           Handled => TypeOf(value) \in Data
    PROVE  IInv'
<1> USE DEF IInv
<1> DEFINE w == GivenTree(top, tree)
<1>1. /\ IsSeq(visits) /\ top = visits[Len(visits)] /\ VisitType(top) /\ at \in DOMAIN code
      /\ Local(top, unit, unit[item].ret, DOMAIN code)
  BY TopFacts DEF Local
<1>2. /\ ~top.after /\ ExprPart(top) /\ top.node \notin {"fn", "block"}
      /\ top.node = "if" => Len(top.trees) < Len(top.blocks)
      /\ Datas(top.values) /\ Valued(top) => type \in Data
  BY WantsFacts
<1>3. /\ Local(w, unit, unit[item].ret, DOMAIN code) /\ Keeps(top, w) /\ SameVisit(top, w)
      /\ (Valued(w) <=> Valued(top)) /\ (ExprPart(w) <=> ExprPart(top))
      /\ w.after /\ w.values = top.values /\ w.last = top.last /\ w.base = top.base
      /\ w.declared = top.declared
  BY <1>1, <1>2, GivenTreeLocal
<1>4. Tops(visits, visits', w)
  BY <1>1, LeafLeaves
<1> HIDE DEF w
<1>5. TopStep(w)
  BY <1>1, <1>3, <1>4 DEF TopStep, VisitorGoes
<1>6. StackStep(top, w)
  <2> SUFFICES ASSUME Handled' PROVE
        /\ "stale" \notin notes'
        /\ Datas(ir_code') /\ Datas(w.values)
        /\ w.after /\ ExprPart(w) /\ Valued(w) => current_type' \in Data
        /\ top.base <= w.base /\ w.base <= Len(ir_code')
        /\ w.base < Len(ir_code')
        /\ "discarded" \notin notes' =>
              w.base = 0 /\ Len(ir_code') <= 1 /\ w.after /\ MayLeave(w)
    BY <1>3 DEF StackStep
  <2>1. Handled
    BY HandledBefore
  <2>2. /\ "stale" \notin notes /\ Datas(ir_code) /\ Datas(top.values)
        /\ top.base \in Nat /\ Len(ir_code) \in Nat /\ top.base = Len(ir_code)
        /\ "discarded" \notin notes => top.base = 0 /\ Len(ir_code) = 0
    BY <2>1, <1>2, StackFact
  <2>3. Len(ir_code') = Len(ir_code) + 1 /\ Datas(ir_code')
    BY <2>1, <2>2, DatasAppend DEF TypeInv
  <2>4. MayLeave(w)
    BY <1>2, <1>3 DEF MayLeave, Valued, ExprPart
  <2> DEFINE n == Len(ir_code)
             n2 == Len(ir_code')
  <2>5. /\ n \in Nat /\ n2 = n + 1 /\ w.base = n /\ top.base = n
        /\ "discarded" \notin notes => n = 0
    BY <2>2, <2>3, <1>3
  <2> HIDE DEF n, n2
  <2>6. /\ top.base <= w.base /\ w.base <= n2 /\ w.base < n2
        /\ "discarded" \notin notes => w.base = 0 /\ n2 <= 1
    BY <2>5
  <2> QED
    BY <2>2, <2>3, <2>4, <2>6, <1>2, <1>3 DEF n2
<1>7. TopCode(w)
  <2>1. Handled' => Open(code', at) /\ Grows(code, code', at) /\ Keeps(top, w)
    <3>1. ASSUME Handled' PROVE Open(code, at)
      <4>1. Handled
        BY <3>1, HandledBefore
      <4> QED
        BY <4>1, <1>2, IsOpen
    <3> QED
      BY <3>1, <1>3
  <2> QED
    BY <2>1, TopCodeStays
<1> QED
  BY <1>5, <1>6, <1>7, TopKeepsInv

LEMMA LiteralKeepsInv ==
    ASSUME IInv, visits # <<>>, NEW type \in Data, Literal(type)
    PROVE  IInv'
<1>1. /\ unit' = unit /\ stage' = stage /\ item' = item /\ scope_manager' = scope_manager
      /\ types' = types /\ code' = code /\ at' = at /\ regs' = regs /\ notes' = notes
      /\ type \in Wants /\ current_type' = type
      /\ ir_code' = Append(ir_code, LiteralOf(type))
      /\ visits' = Leave(visits, <<"literal", LiteralOf(type)>>)
  BY DEF Literal, Expression, Goes, Runs, builder
<1>2. Local(top, unit, unit[item].ret, DOMAIN code) /\ at \in DOMAIN code
  BY TopFacts DEF IInv
<1>3. Len(top.trees) \in Nat
  BY <1>2, SeqItems DEF Local, VisitType
<1>4. type \in Types
  BY DEF Types
<1>5. LiteralOf(type) \in Value /\ TypeOf(LiteralOf(type)) = type
  BY <1>3, <1>4, ValueFacts DEF LiteralOf
<1>6. ir_code' \in Seq(Value)
  BY <1>1, <1>5, DatasAppend DEF IInv, TypeInv
<1>7. TypeInv'
  BY <1>1, <1>2, <1>4, <1>6, TypesKept DEF IInv, TypeInv
<1>8. Grows(code, code', at)
  BY <1>1 DEF Grows
<1> QED
  BY <1>1, <1>5, <1>7, <1>8, LeafKeepsInv

LEMMA VarRefKeepsInv ==
    ASSUME IInv, visits # <<>>, NEW id \in Visible, VarRef(id)
    PROVE  IInv'
<1> DEFINE slot == scope_manager[id]
           load == NewReg(TypeOf(slot))
           i == Instr("load", load, <<slot>>, <<>>)
<1>1. /\ unit' = unit /\ stage' = stage /\ item' = item /\ scope_manager' = scope_manager
      /\ types' = types /\ at' = at /\ regs' = regs + 1 /\ notes' = notes
      /\ types[id] \in Wants /\ current_type' = types[id]
      /\ code' = Emit(<<i>>)
      /\ ir_code' = Append(ir_code, load)
      /\ visits' = Leave(visits, <<"var", id>>)
  BY DEF VarRef, Expression, Goes, Runs, Counted
<1>2. at \in DOMAIN code /\ TypeInv
  BY TopFacts DEF IInv
<1>3. slot \in Value /\ slot \in Values
  BY ValueFacts DEF IInv, VisitsInv
<1>4. Handled => TypeOf(slot) \in Data
  BY DEF IInv, StackInv, DataInv
<1>5. load \in Value /\ TypeOf(load) = TypeOf(slot)
  BY <1>2, <1>3, ValueFacts, NewRegIs
<1>6. i \in InstrSet /\ i.op = "load" /\ i.blocks = <<>>
  <2>1. <<slot>> \in Seq(Values) /\ <<>> \in Seq(Nat) /\ "load" \in InstrOps
    BY <1>3 DEF InstrOps
  <2> QED
    BY <2>1, <1>5 DEF Instr, InstrSet
<1> HIDE DEF slot, load, i
<1>7. ToSet(i.blocks) \subseteq DOMAIN code
  BY <1>6, NoBlocks
<1>8. /\ CodeType(code') /\ DOMAIN code' = DOMAIN code /\ Grows(code, code', at)
      /\ code'[at] # <<>> /\ Last(code'[at]) = i
  BY <1>1, <1>2, <1>6, <1>7, EmitsOne
<1>9. Open(code', at)
  BY <1>6, <1>8 DEF Open, Terminators
<1>10. types[id] \in Types
  BY <1>1, WantsFacts DEF IInv
<1>11. ir_code' \in Seq(Value)
  BY <1>1, <1>2, <1>5, DatasAppend DEF TypeInv
<1>12. TypeInv'
  <2>1. regs' \in Nat /\ at' \in DOMAIN code'
    BY <1>1, <1>2, <1>8 DEF TypeInv
  <2> QED
    BY <2>1, <1>1, <1>2, <1>8, <1>10, <1>11, TypesKept
<1> QED
  BY <1>1, <1>4, <1>5, <1>8, <1>9, <1>12, LeafKeepsInv

-----------------------------------------------------------------------------
(* A return without a value is not handled. *)
LEMMA ReturnEmptyKeepsInv ==
    ASSUME IInv, visits # <<>>, NEW last \in BOOLEAN, ReturnEmpty(last)
    PROVE  IInv'
<1> DEFINE i == Instr("ret_void", NoReg, <<>>, <<>>)
           v == [top EXCEPT !.last = last, !.base = Len(ir_code)]
           w == GivenTree(v, <<"return">>)
<1>1. /\ unit' = unit /\ stage' = stage /\ item' = item /\ scope_manager' = scope_manager
      /\ types' = types /\ at' = at /\ regs' = regs
      /\ notes' = notes \cup {"empty_return"}
      /\ top.node = "block" /\ ~top.last /\ (last => top.source)
      /\ code' = Emit(<<i>>) /\ ir_code' = ir_code /\ current_type' = "()"
      /\ visits' = Leave(Under(v), <<"return">>)
  BY DEF ReturnEmpty, BlockNext, ToStatement, Goes, Runs, Counted, Note
<1>2. /\ TypeInv /\ IsSeq(visits) /\ top = visits[Len(visits)] /\ VisitType(top)
      /\ at \in DOMAIN code /\ Local(top, unit, unit[item].ret, DOMAIN code)
  BY TopFacts DEF Local, IInv
<1>0. /\ VisitType(v) /\ SameVisit(top, v) /\ v.trees = top.trees /\ v.blocks = top.blocks
      /\ v.values = top.values /\ v.after = top.after /\ v.declared = top.declared
      /\ v.last = last
  <2>1. Len(ir_code) \in Nat
    BY <1>2, LenProperties DEF TypeInv
  <2> QED
    BY <2>1, <1>2 DEF VisitType, SameVisit
<1> HIDE DEF v
<1>3. i \in InstrSet /\ i.blocks = <<>>
  <2>1. <<>> \in Seq(Values) /\ <<>> \in Seq(Nat) /\ "ret_void" \in InstrOps
    BY DEF InstrOps
  <2> QED
    BY <2>1, ValueFacts DEF Instr, InstrSet
<1>4. /\ Local(w, unit, unit[item].ret, DOMAIN code) /\ SameVisit(top, w)
      /\ w.after /\ w.declared = top.declared
  <2>1. v.node = "block" /\ v.op = top.op /\ v.want = top.want /\ v.source = top.source
        /\ v.tail = top.tail
    BY <1>0, <1>1 DEF SameVisit
  <2>2. Flags(v, unit[item].ret)
    BY <2>1, <1>0, <1>1, <1>2 DEF Flags, Local
  <2>3. ExprParts(v) /\ IfParts(v) /\ CallOK(v, unit)
    BY <2>1, <1>1, <1>2 DEF ExprParts, IfParts, CallOK, ExprNodes, Local
  <2>4. Local(v, unit, unit[item].ret, DOMAIN code)
    BY <2>2, <2>3, <1>0, <1>2 DEF Local
  <2>5. SameVisit(v, w) /\ w.declared = v.declared /\ w.after
    BY <1>0, GivenTreeVisit
  <2> QED
    BY <2>1, <2>4, <2>5, <1>0, GivenTreeLocal DEF SameVisit
<1>5. Tops(visits, visits', w)
  <2> DEFINE u == Under(v)
  <2>1. Tops(visits, u, v)
    BY <1>2, TopBecomes DEF Under
  <2> HIDE DEF u
  <2>2. u # <<>> /\ u[Len(u)] = v /\ IsSeq(u) /\ Len(u) = Len(visits)
    BY <2>1, <1>2, SeqItems DEF Tops
  <2>3. Tops(u, Leave(u, <<"return">>), w)
    BY <2>2, <1>0, LeafLeaves
  <2>4. \A k \in 1..(Len(visits) - 1) : Leave(u, <<"return">>)[k] = visits[k]
    BY <2>1, <2>2, <2>3 DEF Tops
  <2> QED
    BY <2>1, <2>2, <2>3, <2>4, <1>1 DEF Tops, u
<1> HIDE DEF i, w
<1>6. CodeType(code') /\ DOMAIN code' = DOMAIN code
  BY <1>1, <1>2, <1>3, NoBlocks, EmitsOne
<1>7. TypeInv'
  <2>1. /\ at' \in DOMAIN code' /\ ir_code' \in Seq(Value) /\ current_type' \in Types
        /\ regs' \in Nat
    BY <1>1, <1>2, <1>6, ValueFacts DEF TypeInv
  <2> QED
    BY <2>1, <1>1, <1>2, <1>6, TypesKept
<1>8. TopStep(w)
  BY <1>1, <1>2, <1>4, <1>5, <1>6 DEF TopStep, VisitorGoes
<1>9. ~Handled'
  BY <1>1 DEF Handled
<1>10. StackStep(top, w) /\ TopCode(w)
  BY <1>9 DEF StackStep, TopCode
<1> QED
  BY <1>7, <1>8, <1>10, TopKeepsInv

-----------------------------------------------------------------------------
(* Expressions with parts begin. *)

(* A visit that begins. *)
Fresh(c) ==
    /\ VisitType(c)
    /\ c.trees = <<>> /\ c.values = <<>> /\ c.declared = {}
    /\ c.after = FALSE /\ c.last = FALSE
    /\ c.base = Len(ir_code)

LEMMA EmptyIs ==
    /\ IsSeq(<<>>) /\ Len(<<>>) = 0 /\ <<>> \in Seq(Value) /\ <<>> \in Seq(Nat)
    /\ ToSet(<<>>) = {} /\ {} \in SUBSET Seq(Nat)
<1>1. ToSet(<<>>) = {}
  BY NoBlocks
<1>2. <<>> \in Seq(ToSet(<<>>))
  BY EmptySeq
<1> QED
  BY <1>1, <1>2 DEF IsSeq

LEMMA FreshParts ==
    ASSUME NEW c, Fresh(c)
    PROVE  /\ Len(c.trees) = 0 /\ Part(c) = 0 /\ Len(c.values) = 0
           /\ c.node = "if_expr" /\ c.blocks = <<>> => PendingParts(c) = {}
           /\ c.node \notin {"if_expr", "if"} => PendingParts(c) = {}
<1>1. Len(c.trees) = 0 /\ Len(c.values) = 0 /\ ~c.after
  BY EmptyIs DEF Fresh
<1> QED
  BY <1>1 DEF Part, PendingParts

LEMMA OperationKeepsInv ==
    ASSUME IInv, visits # <<>>, NEW form, NEW type, NEW c, Operation(form, type, c),
           Fresh(c), c.node \in ExprNodes, ~c.tail, ~c.source, c.blocks = <<>>,
           c.node # "call" => c.op \in UnaryOps \cup BinaryOps \cup {"none"},
           c.node \notin {"unary", "binary"} => c.op = "none",
           c.node = "unary" => c.op \in UnaryOps,
           c.node = "binary" => c.op \in BinaryOps,
           c.node = "if_expr" => c.want \subseteq Data,
           c.node = "call" => c.want = {type} /\ CallOK(c, unit)
    PROVE  IInv'
<1> USE DEF IInv
<1>1. /\ unit' = unit /\ stage' = stage /\ item' = item /\ scope_manager' = scope_manager
      /\ types' = types /\ code' = code /\ at' = at /\ regs' = regs
      /\ ir_code' = ir_code /\ current_type' = current_type
      /\ \E new \in SUBSET {"nested_branch"} : notes' = notes \cup new
      /\ type \in Wants /\ visits' = Append(visits, c)
  BY DEF Operation, Expression, Goes, Runs, Counted, Note, builder
<1>2. notes \subseteq notes' /\ ("stale" \in notes' => "stale" \in notes)
  BY <1>1
<1>3. /\ IsSeq(visits) /\ top = visits[Len(visits)] /\ VisitType(top) /\ at \in DOMAIN code
      /\ Local(top, unit, unit[item].ret, DOMAIN code)
  BY TopFacts DEF Local
<1>4. /\ ~top.after /\ ExprPart(top) /\ top.node \notin {"fn", "block"}
      /\ top.node = "if" => Len(top.trees) < Len(top.blocks)
      /\ Datas(top.values) /\ Valued(top) => type \in Data
  BY <1>1, WantsFacts
<1>5. TypeInv'
  BY <1>1, <1>3, TypesKept DEF TypeInv
<1>6. Pushes(visits, visits', top, c)
  BY <1>1, <1>3, PushOnTop
<1>7. /\ VisitType(c) /\ c.values = <<>> /\ c.declared = {} /\ c.after = FALSE /\ c.last = FALSE
      /\ c.base = Len(ir_code) /\ Part(c) = 0 /\ Len(c.values) = 0 /\ PendingParts(c) = {}
      /\ Len(c.blocks) = 0 /\ ToSet(c.blocks) = {}
  BY FreshParts, EmptyIs DEF Fresh, ExprNodes
<1>8. Local(c, unit, unit[item].ret, DOMAIN code)
  <2>1. Flags(c, unit[item].ret)
    BY <1>7, TopFacts DEF Flags, ExprNodes
  <2>2. ExprParts(c) /\ IfParts(c)
    BY <1>7 DEF ExprParts, IfParts, ExprNodes
  <2>3. CallOK(c, unit)
    BY DEF CallOK
  <2> QED
    BY <2>1, <2>2, <2>3, <1>7 DEF Local
<1>9. Linked(top, c) /\ TailLinked(top, c)
  BY <1>4 DEF Linked, TailLinked, ExprNodes
<1>10. PushStep(top, c)
  <2>1. SameVisit(top, top)
    BY DEF SameVisit
  <2>2. top.last => top.after
    BY DEF VisitsInv
  <2> QED
    BY <2>1, <1>1, <1>2, <1>3, <1>4, <1>6, <1>7, <1>8, <1>9 DEF PushStep, VisitorGoes
<1>11. PushCode(top, c)
  <2> SUFFICES ASSUME Handled'
               PROVE  /\ Open(code', at) /\ Grows(code, code', at)
                      /\ Keeps(top, top) /\ Opens(c, DOMAIN code, DOMAIN code')
                      /\ NotedPart(top, c, notes')
    BY DEF PushCode
  <2>1. Handled
    BY <1>2, HandledBefore
  <2>2. Open(code, at)
    BY <2>1, <1>4, IsOpen
  <2>3. Grows(code, code', at) /\ Keeps(top, top) /\ Opens(c, DOMAIN code, DOMAIN code')
    BY <1>1, <1>7, KeepsItself DEF Grows, Opens, Pending
  <2>4. Datas(top.values)
    BY <2>1, StackFact
  <2>5. NotedPart(top, c, notes')
    BY <2>4, <1>4 DEF NotedPart, ExprNodes
  <2> QED
    BY <2>2, <2>3, <2>5, <1>1
<1> QED
  BY <1>5, <1>10, <1>11, PushKeepsInv

LEMMA UnaryBeginKeepsInv ==
    ASSUME IInv, visits # <<>>, NEW op \in UnaryOps, UnaryBegin(op)
    PROVE  IInv'
<1> DEFINE c == [NewVisit("unary", {}) EXCEPT !.op = op]
<1>1. Operation(op, ResultOf(op), c)
  BY DEF UnaryBegin
<1>2. Len(ir_code) \in Nat
  BY LenProperties DEF IInv, TypeInv
<1>3. Fresh(c) /\ c.node = "unary" /\ c.op = op /\ ~c.tail /\ ~c.source /\ c.blocks = <<>>
  BY <1>2, EmptyIs DEF NewVisit, Fresh, VisitType, Nodes
<1> HIDE DEF c
<1> QED
  BY <1>1, <1>3, OperationKeepsInv DEF ExprNodes

LEMMA BinaryBeginKeepsInv ==
    ASSUME IInv, visits # <<>>, NEW op \in BinaryOps, BinaryBegin(op)
    PROVE  IInv'
<1> DEFINE c == [NewVisit("binary", {}) EXCEPT !.op = op]
<1>1. Operation(op, ResultOf(op), c)
  BY DEF BinaryBegin
<1>2. Len(ir_code) \in Nat
  BY LenProperties DEF IInv, TypeInv
<1>3. Fresh(c) /\ c.node = "binary" /\ c.op = op /\ ~c.tail /\ ~c.source /\ c.blocks = <<>>
  BY <1>2, EmptyIs DEF NewVisit, Fresh, VisitType, Nodes
<1> HIDE DEF c
<1> QED
  BY <1>1, <1>3, OperationKeepsInv DEF ExprNodes

LEMMA IfExprBeginKeepsInv ==
    ASSUME IInv, visits # <<>>, NEW type \in Data, IfExprBegin(type)
    PROVE  IInv'
<1> DEFINE c == NewVisit("if_expr", {type})
<1>1. Operation("if_expr", type, c)
  BY DEF IfExprBegin
<1>2. Len(ir_code) \in Nat /\ {type} \in SUBSET Types
  BY LenProperties DEF IInv, TypeInv, Types
<1>3. /\ Fresh(c) /\ c.node = "if_expr" /\ c.op = "none" /\ ~c.tail /\ ~c.source
      /\ c.blocks = <<>> /\ c.want = {type}
  BY <1>2, EmptyIs DEF NewVisit, Fresh, VisitType, Nodes
<1> HIDE DEF c
<1> QED
  BY <1>1, <1>3, OperationKeepsInv DEF ExprNodes

LEMMA CallsKeepInv ==
    ASSUME IInv, visits # <<>>, Calls
    PROVE  IInv'
<1>1. PICK type \in Wants, fn \in Fns : \E args \in ArgLists(fn) :
          CallBegin(type, fn, args) \/ WildCallBegin(type, fn, args)
  BY DEF Calls
<1>2. PICK args \in ArgLists(fn) : CallBegin(type, fn, args) \/ WildCallBegin(type, fn, args)
  BY <1>1
<1> DEFINE c == [NewVisit("call", {type}) EXCEPT !.fn = fn, !.args = args]
<1>3. \E form : Operation(form, type, c)
  BY <1>2 DEF CallBegin, WildCallBegin, Call
<1>4. PICK form : Operation(form, type, c)
  BY <1>3
<1>5. /\ fn \in DOMAIN unit /\ unit[fn] \in Signature /\ fn \in Nat
  <2>1. fn \in DOMAIN unit /\ unit[fn].kind = "Fn"
    BY DEF Fns
  <2>2. unit \in Seq(Item)
    BY DEF IInv, TypeInv
  <2>3. unit[fn] \in Item /\ fn \in Nat
    BY <2>1, <2>2, LenProperties, ElementOfSeq
  <2> QED
    BY <2>1, <2>3 DEF Item, Signature
<1>6. args \in Seq(DOMAIN unit[fn].params) /\ args \in Seq(Nat)
  <2>1. PICK n \in 0..Len(unit[fn].params) : args \in [1..n -> DOMAIN unit[fn].params]
    BY DEF ArgLists
  <2>2. unit[fn].params \in Seq(Data)
    BY <1>5 DEF Signature
  <2>3. DOMAIN unit[fn].params \subseteq Nat /\ n \in Nat
    BY <2>2, LenProperties
  <2>4. args \in [1..n -> Nat]
    BY <2>1, <2>3
  <2> QED
    BY <2>1, <2>3, <2>4
<1>7. Len(ir_code) \in Nat /\ {type} \in SUBSET Types
  <2>1. type \in Types
    BY WantsFacts DEF IInv
  <2> QED
    BY <2>1, LenProperties DEF IInv, TypeInv
<1>8. /\ Fresh(c) /\ c.node = "call" /\ c.op = "none" /\ ~c.tail /\ ~c.source
      /\ c.blocks = <<>> /\ c.want = {type} /\ c.fn = fn /\ c.args = args
  BY <1>5, <1>6, <1>7, EmptyIs DEF NewVisit, Fresh, VisitType, Nodes
<1> HIDE DEF c
<1>9. CallOK(c, unit)
  BY <1>5, <1>6, <1>8 DEF CallOK
<1> QED
  BY <1>4, <1>8, <1>9, OperationKeepsInv DEF ExprNodes

-----------------------------------------------------------------------------
(* Statements begin. *)

LEMMA StatementKeepsInv ==
    ASSUME IInv, visits # <<>>, NEW last \in BOOLEAN, Statement(last), NEW c, Enters(last, c),
           Fresh(c), at' = at, CodeType(code'), DOMAIN code \subseteq DOMAIN code',
           Grows(code, code', at), code'[at] = code[at],
           notes \subseteq notes', "stale" \in notes' => "stale" \in notes,
           Local(c, unit, unit[item].ret, DOMAIN code'), c.source => c.want = top.want,
           \/ c.node \in {"stmt", "if"} /\ c.source = last /\ ~c.tail
           \/ c.node = "let" /\ (last => top.want = {"()"}) /\ ~c.tail
           \/ c.node = "return" /\ ~c.tail
           \/ c.node = "block" /\ c.source = last /\ c.tail = (last /\ top.tail),
           Handled' =>
               /\ Opens(c, DOMAIN code, DOMAIN code')
               /\ c.node = "if" /\ c.source => c.want \subseteq Data
               /\ c.node = "return" => last /\ top.tail /\ "return" \in notes'
    PROVE  IInv'
<1> USE DEF IInv
<1> DEFINE v == top
           n == Len(ir_code)
           w == [v EXCEPT !.last = last, !.base = n]
<1>1. /\ unit' = unit /\ stage' = stage /\ item' = item /\ scope_manager' = scope_manager
      /\ types' = types /\ regs' = regs /\ ir_code' = ir_code /\ current_type' = current_type
      /\ top.node = "block" /\ ~top.last /\ (last => top.source)
      /\ visits' = Append([visits EXCEPT ![Len(visits)] = w], c)
  BY DEF Statement, BlockNext, Goes, Runs, Enters, ToStatement, Under
<1>2. /\ IsSeq(visits) /\ top = visits[Len(visits)] /\ VisitType(top) /\ at \in DOMAIN code
      /\ Local(top, unit, unit[item].ret, DOMAIN code)
  BY TopFacts DEF Local
<1>3. n \in Nat /\ v = top /\ VisitType(v) /\ n = Len(ir_code)
  BY <1>2, LenProperties DEF TypeInv
<1>4. Pushes(visits, visits', w, c)
  BY <1>1, <1>2, PushOnChanged
<1> HIDE DEF n, v
<1>5. /\ Changed(v, w) /\ w.after = v.after /\ w.base = n /\ w.values = v.values
      /\ w.blocks = v.blocks /\ w.last = last /\ w.declared = v.declared
  BY <1>3 DEF VisitType, Changed, SameVisit
<1> HIDE DEF w
<1>6. VisitType(w) /\ SameVisit(top, w) /\ w.trees = top.trees
  BY <1>3, <1>5 DEF Changed
<1>7. /\ w.node = top.node /\ w.op = top.op /\ w.want = top.want
      /\ w.source = top.source /\ w.tail = top.tail
  BY <1>6 DEF SameVisit
<1>8. Local(w, unit, unit[item].ret, DOMAIN code')
  <2>1. ToSet(top.blocks) \subseteq DOMAIN code' /\ Flags(top, unit[item].ret) /\ ExprParts(top)
    BY <1>2 DEF Local
  <2>2. Flags(w, unit[item].ret)
    BY <2>1, <1>1, <1>5, <1>7 DEF Flags
  <2>3. ExprParts(w) /\ IfParts(w) /\ CallOK(w, unit)
    BY <2>1, <1>1, <1>7 DEF ExprParts, IfParts, CallOK, ExprNodes
  <2> QED
    BY <2>1, <2>2, <2>3, <1>3, <1>5, <1>6 DEF Local
<1>9. Linked(w, c) /\ TailLinked(w, c)
  BY <1>1, <1>5, <1>7 DEF Linked, TailLinked, ExprNodes
<1>10. TypeInv'
  <2>1. /\ ir_code' \in Seq(Value) /\ current_type' \in Types /\ regs' \in Nat
        /\ at' \in DOMAIN code'
    BY <1>1, <1>2 DEF TypeInv
  <2> QED
    BY <2>1, <1>1, TypesKept
<1>11. c.node \notin ExprNodes /\ c.node # "fn"
  BY DEF ExprNodes
<1>12. PushStep(w, c)
  <2>1. /\ c.declared = {} /\ ~c.after /\ ~c.last /\ c.values = <<>> /\ c.base = Len(ir_code)
    BY DEF Fresh
  <2>2. ~MayLeave(top)
    BY <1>1 DEF MayLeave, Valued, CondPart, ExprNodes
  <2>3. /\ w.declared = top.declared /\ w.values = top.values /\ w.base = Len(ir_code)
    BY <1>3, <1>5
  <2>4. /\ VisitorGoes
        /\ scope_manager' = scope_manager /\ ir_code' = ir_code
    BY <1>1 DEF VisitorGoes
  <2> QED
    BY <2>1, <2>2, <2>3, <2>4, <1>4, <1>6, <1>8, <1>9 DEF PushStep
<1>13. PushCode(w, c)
  <2> SUFFICES ASSUME Handled'
               PROVE  /\ Open(code', at) /\ Grows(code, code', at)
                      /\ Keeps(top, w) /\ Opens(c, DOMAIN code, DOMAIN code')
                      /\ NotedPart(w, c, notes')
    BY DEF PushCode
  <2>1. Handled
    BY HandledBefore
  <2>2. Open(code, at)
    BY <2>1, <1>1, IsOpen
  <2>3. Open(code', at)
    BY <2>2 DEF Open
  <2>4. Keeps(top, w)
    BY <1>1, <1>7 DEF Keeps, PendingParts
  <2>5. NotedPart(w, c, notes')
    BY <1>5, <1>7, <1>11 DEF NotedPart, ExprNodes
  <2> QED
    BY <2>3, <2>4, <2>5
<1> QED
  BY <1>10, <1>12, <1>13, PushKeepsInv

(* Those of a statement without basic blocks of its own. *)
LEMMA SimpleKeepsInv ==
    ASSUME IInv, visits # <<>>, NEW last \in BOOLEAN, Simple(last), NEW c, Enters(last, c),
           Fresh(c), c.blocks = <<>>, c.op = "none",
           notes \subseteq notes', "stale" \in notes' => "stale" \in notes,
           Flags(c, unit[item].ret), c.source => c.want = top.want,
           \/ c.node = "stmt" /\ c.source = last /\ ~c.tail
           \/ c.node = "let" /\ (last => top.want = {"()"}) /\ ~c.tail
           \/ c.node = "return" /\ ~c.tail
           \/ c.node = "block" /\ c.source = last /\ c.tail = (last /\ top.tail),
           Handled' /\ c.node = "return" => last /\ top.tail /\ "return" \in notes'
    PROVE  IInv'
<1>1. Statement(last) /\ code' = code /\ at' = at
  BY DEF Simple
<1>2. CodeType(code') /\ Grows(code, code', at)
  BY <1>1 DEF IInv, TypeInv, Grows
<1>3. /\ VisitType(c) /\ Part(c) = 0 /\ PendingParts(c) = {} /\ ToSet(c.blocks) = {}
  BY FreshParts, EmptyIs DEF Fresh
<1>4. Local(c, unit, unit[item].ret, DOMAIN code')
  <2>1. ExprParts(c) /\ IfParts(c) /\ CallOK(c, unit)
    BY DEF ExprParts, IfParts, CallOK, ExprNodes
  <2> QED
    BY <2>1, <1>3 DEF Local
<1>5. Opens(c, DOMAIN code, DOMAIN code')
  BY <1>3 DEF Opens, Pending
<1> QED
  BY <1>1, <1>2, <1>4, <1>5, StatementKeepsInv

LEMMA LetBeginKeepsInv ==
    ASSUME IInv, visits # <<>>, NEW last \in BOOLEAN, NEW type \in Data, LetBegin(last, type)
    PROVE  IInv'
<1> DEFINE c == NewVisit("let", {type})
<1>1. Simple(last) /\ Enters(last, c) /\ notes' = notes /\ (last => top.want = {"()"})
  BY DEF LetBegin, EndsUnvalued
<1>2. Len(ir_code) \in Nat /\ {type} \in SUBSET Types /\ unit[item].ret \in Types
  BY LenProperties, TopFacts DEF IInv, TypeInv, Types, Local, Flags
<1>3. /\ Fresh(c) /\ c.node = "let" /\ c.op = "none" /\ c.tail = FALSE /\ c.source = FALSE
      /\ c.blocks = <<>> /\ c.want = {type}
  BY <1>2, EmptyIs DEF NewVisit, Fresh, VisitType, Nodes
<1> HIDE DEF c
<1>4. Flags(c, unit[item].ret)
  BY <1>2, <1>3 DEF Flags, Fresh
<1> QED
  BY <1>1, <1>3, <1>4, SimpleKeepsInv

(* The type r of a function, and the types w of the last statement of a      *)
(* block of it: one, which is r if the function returns a value.             *)
OneType(w, r) == \E t \in Types : w = {t} /\ (r # "()" => t = r)

(* What checking allows for the last statement of a block, and others. *)
LEMMA LastWants ==
    ASSUME IInv, visits # <<>>, NEW last \in BOOLEAN, Statement(last)
    PROVE  /\ (IF last THEN top.want ELSE Types) \in SUBSET Types
           /\ last => OneType(IF last THEN top.want ELSE Types, unit[item].ret)
           /\ unit[item].ret \in Types
           /\ top.tail => unit[item].ret # "()"
           /\ Len(ir_code) \in Nat
<1>1. Local(top, unit, unit[item].ret, DOMAIN code)
  BY TopFacts DEF IInv
<1>2. VisitType(top) /\ Flags(top, unit[item].ret)
  BY <1>1 DEF Local
<1>3. last => top.source
  BY DEF Statement, BlockNext
<1>4. top.want \in SUBSET Types
  BY <1>2 DEF VisitType
<1> QED
  BY <1>2, <1>3, <1>4, LenProperties DEF Flags, OneType, IInv, TypeInv

LEMMA ExprBeginKeepsInv ==
    ASSUME IInv, visits # <<>>, NEW last \in BOOLEAN, ExprBegin(last)
    PROVE  IInv'
<1> DEFINE want == IF last THEN top.want ELSE Types
           c == [NewVisit("stmt", want) EXCEPT !.source = last]
<1>1. Simple(last) /\ Enters(last, c) /\ notes' = notes
  BY DEF ExprBegin
<1>2. /\ want \in SUBSET Types /\ Len(ir_code) \in Nat /\ unit[item].ret \in Types
      /\ last => OneType(want, unit[item].ret) /\ want = top.want
  BY <1>1, LastWants DEF Simple
<1> HIDE DEF want
<1>3. /\ Fresh(c) /\ c.node = "stmt" /\ c.op = "none" /\ c.tail = FALSE /\ c.source = last
      /\ c.blocks = <<>> /\ c.want = want
  BY <1>2, EmptyIs DEF NewVisit, Fresh, VisitType, Nodes
<1> HIDE DEF c
<1>4. Flags(c, unit[item].ret)
  BY <1>2, <1>3 DEF Flags, OneType, Fresh
<1> QED
  BY <1>1, <1>2, <1>3, <1>4, SimpleKeepsInv

LEMMA DoBlockKeepsInv ==
    ASSUME IInv, visits # <<>>, NEW last \in BOOLEAN, DoBlock(last)
    PROVE  IInv'
<1> DEFINE want == IF last THEN top.want ELSE Types
           tail == last /\ top.tail
           c == [NewVisit("block", want) EXCEPT !.source = last, !.tail = tail]
<1>1. Simple(last) /\ Enters(last, c) /\ notes' = notes
  BY DEF DoBlock
<1>2. /\ want \in SUBSET Types /\ Len(ir_code) \in Nat /\ unit[item].ret \in Types
      /\ last => OneType(want, unit[item].ret) /\ want = top.want
      /\ top.tail => unit[item].ret # "()"
  BY <1>1, LastWants DEF Simple
<1>3. tail \in BOOLEAN /\ (tail => last /\ top.tail)
  OBVIOUS
<1> HIDE DEF want, tail
<1>4. /\ Fresh(c) /\ c.node = "block" /\ c.op = "none" /\ c.tail = tail /\ c.source = last
      /\ c.blocks = <<>> /\ c.want = want
  BY <1>2, <1>3, EmptyIs DEF NewVisit, Fresh, VisitType, Nodes
<1> HIDE DEF c
<1>5. Flags(c, unit[item].ret)
  BY <1>2, <1>3, <1>4 DEF Flags, OneType, Fresh
<1>6. c.tail = (last /\ top.tail)
  BY <1>4 DEF tail
<1> QED
  BY <1>1, <1>2, <1>4, <1>5, <1>6, SimpleKeepsInv

LEMMA ReturnBeginKeepsInv ==
    ASSUME IInv, visits # <<>>, NEW last \in BOOLEAN, ReturnBegin(last)
    PROVE  IInv'
<1> DEFINE want == IF fn_ty.ret = "()" THEN Data ELSE {fn_ty.ret}
           c == NewVisit("return", want)
<1>1. Simple(last) /\ Enters(last, c) /\ notes' = notes \cup ReturnNote(last)
  BY DEF ReturnBegin, Note
<1>2. want \in SUBSET Types /\ want \subseteq Data /\ Len(ir_code) \in Nat
      /\ unit[item].ret \in Types
  <2>1. unit[item].ret \in Types
    BY TopFacts DEF IInv
  <2> QED
    BY <2>1, LenProperties DEF fn_ty, Types, IInv, TypeInv
<1> HIDE DEF want
<1>3. /\ Fresh(c) /\ c.node = "return" /\ c.op = "none" /\ c.tail = FALSE /\ c.source = FALSE
      /\ c.blocks = <<>> /\ c.want = want
  BY <1>2, EmptyIs DEF NewVisit, Fresh, VisitType, Nodes
<1> HIDE DEF c
<1>4. Flags(c, unit[item].ret)
  BY <1>2, <1>3 DEF Flags, Fresh
<1>5. notes \subseteq notes' /\ ("stale" \in notes' => "stale" \in notes)
  BY <1>1 DEF ReturnNote
<1>6. Handled' => last /\ top.tail /\ "return" \in notes'
  BY <1>1 DEF Handled, ReturnNote
<1> QED
  BY <1>1, <1>3, <1>4, <1>5, <1>6, SimpleKeepsInv

LEMMA IfBeginKeepsInv ==
    ASSUME IInv, visits # <<>>, NEW last \in BOOLEAN, NEW branches \in 1..MaxBranches,
           NEW else \in BOOLEAN, IfBegin(last, branches, else)
    PROVE  IInv'
<1> DEFINE want == IF last THEN top.want ELSE Types
           n == 2 * branches + IF else THEN 1 ELSE 0
           bs == [b \in 1..n |-> Len(code) + b]
           c == [NewVisit("if", want) EXCEPT !.source = last, !.branches = branches, !.blocks = bs]
<1>1. /\ Statement(last) /\ Enters(last, c) /\ (last => else) /\ at' = at
      /\ code' = code \o NewBlocks(n)
      /\ \E new \in SUBSET {"nested_branch", "void_if"} : notes' = notes \cup new
      /\ last /\ want = {"()"} => "void_if" \in notes'
  BY DEF IfBegin, Note
<1>2. /\ want \in SUBSET Types /\ Len(ir_code) \in Nat /\ unit[item].ret \in Types
      /\ last => OneType(want, unit[item].ret) /\ want = top.want
  BY <1>1, LastWants
<1>0. Handled' /\ last => want \subseteq Data
  BY <1>1, <1>2 DEF Handled, OneType, Types
<1>3. branches \in Nat /\ branches >= 1
  BY BoundsAssumption
<1>4. /\ n \in Nat
      /\ n = 2 * branches \/ n = 2 * branches + 1
      /\ else => n = 2 * branches + 1
  BY <1>3
<1>5. TypeInv /\ at \in DOMAIN code
  BY TopFacts DEF IInv
<1> HIDE DEF want, n
<1>6. n \in Nat
  BY <1>4
<1>7. /\ CodeType(code') /\ DOMAIN code = 1..Len(code) /\ Len(code) \in Nat
      /\ DOMAIN code' = 1..(Len(code) + n)
      /\ Grows(code, code', at) /\ code'[at] = code[at]
  BY <1>1, <1>5, <1>6, NewBlocksAre
<1> DEFINE m == Len(code)
<1>8. m \in Nat /\ DOMAIN code = 1..m /\ DOMAIN code' = 1..(m + n) /\ bs = [b \in 1..n |-> m + b]
  BY <1>7
<1> HIDE DEF m, bs
<1>9. bs \in Seq(Nat)
  <2>1. bs \in [1..n -> Nat]
    BY <1>6, <1>8
  <2> QED
    BY <2>1, <1>6
<1>10. Len(bs) = n /\ DOMAIN bs = 1..n
  BY <1>6, <1>8, <1>9, LenProperties
<1>11. /\ Fresh(c) /\ c.node = "if" /\ c.op = "none" /\ c.tail = FALSE /\ c.source = last
       /\ c.blocks = bs /\ c.want = want /\ c.branches = branches
  BY <1>2, <1>3, <1>9, EmptyIs DEF NewVisit, Fresh, VisitType, Nodes
<1> HIDE DEF c
<1>12. Flags(c, unit[item].ret)
  BY <1>2, <1>11 DEF Flags, OneType, Fresh
<1>13. Part(c) = 0 /\ Len(c.trees) = 0 /\ ~c.after /\ VisitType(c)
  BY <1>11, FreshParts DEF Fresh
<1>14. ToSet(bs) \subseteq (1..(m + n)) \ (1..m)
  BY <1>6, <1>8, <1>10 DEF ToSet
<1>15. Local(c, unit, unit[item].ret, DOMAIN code')
  <2>1. IfParts(c)
    BY <1>1, <1>3, <1>4, <1>10, <1>11, <1>13 DEF IfParts
  <2>2. ExprParts(c) /\ CallOK(c, unit)
    BY <1>11 DEF ExprParts, CallOK, ExprNodes
  <2> QED
    BY <2>1, <2>2, <1>8, <1>11, <1>12, <1>13, <1>14 DEF Local
<1>16. Opens(c, DOMAIN code, DOMAIN code')
  <2>1. PendingParts(c) = 1..n
    BY <1>10, <1>11, <1>13 DEF PendingParts
  <2>2. Pending(c) \subseteq ToSet(bs)
    BY <2>1, <1>10, <1>11 DEF Pending, ToSet
  <2>3. \A i, j \in 1..n : bs[i] = bs[j] => i = j
    BY <1>6, <1>8
  <2> QED
    BY <2>1, <2>2, <2>3, <1>8, <1>11, <1>14 DEF Opens
<1>17. notes \subseteq notes' /\ ("stale" \in notes' => "stale" \in notes)
  BY <1>1
<1>18. DOMAIN code \subseteq DOMAIN code'
  BY <1>6, <1>8
<1> QED
  BY <1>0, <1>1, <1>2, <1>7, <1>11, <1>15, <1>16, <1>17, <1>18, StatementKeepsInv

(* A block of a conditional, or of the else, begins. *)
LEMMA IfBlockKeepsInv ==
    ASSUME IInv, visits # <<>>, IfBlock
    PROVE  IInv'
<1> USE DEF IInv
<1> DEFINE c == [NewVisit("block", top.want) EXCEPT !.source = top.source]
           n == Len(top.trees)
<1>1. /\ unit' = unit /\ stage' = stage /\ item' = item /\ scope_manager' = scope_manager
      /\ types' = types /\ code' = code /\ at' = at /\ regs' = regs /\ notes' = notes
      /\ ir_code' = ir_code /\ current_type' = current_type
      /\ top.node = "if" /\ ~top.after /\ n < Len(top.blocks)
      /\ n % 2 = 1 \/ n = 2 * top.branches
      /\ visits' = Append(visits, c)
  BY DEF IfBlock, PartNext, Within, Goes, Runs, builder
<1>2. /\ IsSeq(visits) /\ top = visits[Len(visits)] /\ VisitType(top) /\ at \in DOMAIN code
      /\ Local(top, unit, unit[item].ret, DOMAIN code) /\ Flags(top, unit[item].ret)
  BY TopFacts DEF Local
<1>3. Len(ir_code) \in Nat /\ top.want \in SUBSET Types /\ top.source \in BOOLEAN
  BY <1>2, LenProperties DEF TypeInv, VisitType
<1>4. /\ Fresh(c) /\ c.node = "block" /\ c.op = "none" /\ c.tail = FALSE
      /\ c.source = top.source /\ c.blocks = <<>> /\ c.want = top.want
  BY <1>3, EmptyIs DEF NewVisit, Fresh, VisitType, Nodes
<1>5. ~CondPart(top)
  <2>1. n \in Nat /\ top.branches \in Nat
    BY <1>2, SeqItems DEF VisitType
  <2>2. Part(top) = n
    BY <1>1 DEF Part
  <2> HIDE DEF n
  <2>3. ~(n % 2 = 0 /\ n < 2 * top.branches)
    BY <2>1, <1>1
  <2> QED
    BY <2>2, <2>3 DEF CondPart
<1> HIDE DEF c
<1>6. TypeInv'
  BY <1>1, <1>2, TypesKept DEF TypeInv
<1>7. Pushes(visits, visits', top, c)
  BY <1>1, <1>2, PushOnTop
<1>8. /\ VisitType(c) /\ c.values = <<>> /\ c.declared = {} /\ c.after = FALSE /\ c.last = FALSE
      /\ c.base = Len(ir_code) /\ Part(c) = 0 /\ PendingParts(c) = {} /\ ToSet(c.blocks) = {}
  BY <1>4, FreshParts, EmptyIs DEF Fresh
<1>9. Local(c, unit, unit[item].ret, DOMAIN code)
  <2>1. Flags(c, unit[item].ret)
    BY <1>2, <1>4, <1>8 DEF Flags
  <2>2. ExprParts(c) /\ IfParts(c) /\ CallOK(c, unit)
    BY <1>4 DEF ExprParts, IfParts, CallOK, ExprNodes
  <2> QED
    BY <2>1, <2>2, <1>8 DEF Local
<1>10. Linked(top, c) /\ TailLinked(top, c)
  BY <1>1, <1>4, <1>5 DEF Linked, TailLinked, ExprNodes, n
<1>11. PushStep(top, c)
  <2>1. SameVisit(top, top)
    BY DEF SameVisit
  <2>2. top.last => top.after
    BY DEF VisitsInv
  <2> QED
    BY <2>1, <1>1, <1>2, <1>7, <1>8, <1>9, <1>10 DEF PushStep, VisitorGoes
<1>12. PushCode(top, c)
  <2> SUFFICES ASSUME Handled'
               PROVE  /\ Open(code', at) /\ Grows(code, code', at)
                      /\ Keeps(top, top) /\ Opens(c, DOMAIN code, DOMAIN code')
                      /\ NotedPart(top, c, notes')
    BY DEF PushCode
  <2>1. Handled
    BY <1>1, HandledBefore
  <2>2. Open(code, at)
    BY <2>1, <1>1, IsOpen
  <2>3. Grows(code, code', at) /\ Keeps(top, top) /\ Opens(c, DOMAIN code, DOMAIN code')
    BY <1>1, <1>8, KeepsItself DEF Grows, Opens, Pending
  <2>4. NotedPart(top, c, notes')
    BY <1>4 DEF NotedPart
  <2> QED
    BY <2>2, <2>3, <2>4, <1>1
<1> QED
  BY <1>6, <1>11, <1>12, PushKeepsInv

-----------------------------------------------------------------------------
(* The node on top takes the value of its part. *)

LEMMA TakesStack ==
    ASSUME IInv, visits # <<>>, Pops(<<>>), top.after, Handled => Valued(top),
           top.node \notin {"fn", "block"}, NEW w, w.after = FALSE, w.base = Len(ir_code) - 1,
           Datas(top.values) /\ TypeOf(Popped) \in Data => Datas(w.values)
    PROVE  /\ StackStep(top, w)
           /\ notes \subseteq notes' /\ ir_code' \in Seq(Value)
<1> USE DEF IInv
<1>1. ir_code # <<>> /\ ir_code' = Front(ir_code) \o <<>> /\ notes' = notes \cup Stale
  BY DEF Pops, Note
<1>2. /\ Len(ir_code) \in Nat /\ Len(ir_code) >= 1
      /\ Front(ir_code) \in Seq(Value) /\ Len(Front(ir_code)) = Len(ir_code) - 1
      /\ Front(ir_code) \o <<>> = Front(ir_code)
      /\ Datas(ir_code) => Datas(Front(ir_code)) /\ TypeOf(Popped) \in Data
  BY <1>1, PopFacts
<1>3. ir_code' = Front(ir_code) /\ notes \subseteq notes'
  BY <1>1, <1>2
<1>4. StackStep(top, w)
  <2> SUFFICES ASSUME Handled'
               PROVE  /\ "stale" \notin notes'
                      /\ Datas(ir_code') /\ Datas(w.values)
                      /\ top.base <= w.base /\ w.base <= Len(ir_code')
                      /\ w.base = Len(ir_code')
                      /\ "discarded" \notin notes' => w.base = 0 /\ Len(ir_code') = 0
    <3>1. 0 <= 1
      OBVIOUS
    <3> QED
      BY <3>1 DEF StackStep
  <2>1. Handled
    BY <1>3, HandledBefore
  <2>2. Stale = {} /\ top.base < Len(ir_code)
    BY <2>1, NotStale
  <2>3. /\ "stale" \notin notes /\ Datas(ir_code) /\ Datas(top.values) /\ top.base \in Nat
        /\ "discarded" \notin notes => Len(ir_code) <= 1
    BY <2>1, StackFact
  <2>4. "stale" \notin notes' /\ Datas(ir_code') /\ Datas(w.values)
    BY <1>1, <1>2, <1>3, <2>2, <2>3
  <2> DEFINE n == Len(ir_code)
             n2 == Len(ir_code')
             b == top.base
             k == w.base
  <2>5. /\ n \in Nat /\ n >= 1 /\ n2 = n - 1 /\ k = n - 1 /\ b \in Nat /\ b < n
        /\ "discarded" \notin notes => n <= 1
    BY <1>2, <1>3, <2>2, <2>3
  <2>6. "discarded" \notin notes' => "discarded" \notin notes
    BY <1>1
  <2> HIDE DEF n, n2, b, k
  <2>7. /\ b <= k /\ k <= n2 /\ k = n2
        /\ "discarded" \notin notes => k = 0 /\ n2 = 0
    <3>1. "discarded" \notin notes => n = 1
      BY <2>5
    <3> QED
      BY <2>5, <3>1
  <2> QED
    BY <2>4, <2>6, <2>7 DEF n2, b, k
<1> QED
  BY <1>2, <1>3, <1>4

(* The builder comes to a basic block of the node. *)
LEMMA TopCodeMoves ==
    ASSUME VisitsInv, ShapeInv, OpenInv, notes \subseteq notes', visits # <<>>, NEW w,
           Grows(code, code', at), NEW j \in PendingParts(top), at' = top.blocks[j],
           Keeps(top, w), j \notin PendingParts(w)
    PROVE  TopCode(w)
<1> SUFFICES ASSUME Handled'
             PROVE  /\ Open(code', at') /\ at' \in Pending(top) /\ at' \notin Pending(w)
  BY DEF TopCode
<1>1. Handled
  BY HandledBefore
<1>2. /\ \A b \in Pending(top) : code[b] = <<>> /\ b # at
      /\ \A i, k \in PendingParts(top) : top.blocks[i] = top.blocks[k] => i = k
      /\ Pending(top) \subseteq DOMAIN code
  BY <1>1, PendingTop
<1>3. at' \in Pending(top)
  BY DEF Pending
<1>4. code'[at'] = <<>>
  BY <1>2, <1>3 DEF Grows
<1>5. at' \notin Pending(w)
  BY <1>2 DEF Pending, Keeps
<1> QED
  BY <1>3, <1>4, <1>5 DEF Open

LEMMA TakenLocal ==
    ASSUME NEW v, NEW w, NEW u, NEW r, NEW D, Local(v, u, r, D), v.after, Changed(v, w),
           w.after = FALSE, w.last = v.last, w.blocks = v.blocks,
           \/ v.node = "binary" /\ Len(v.trees) = 1 /\ Len(w.values) = Len(v.values) + 1
           \/ v.node = "call" /\ Len(w.values) = Len(v.values) + 1
           \/ v.node = "if"
    PROVE  Local(w, u, r, D) /\ Part(w) = Len(v.trees) /\ Part(v) = Len(v.trees) - 1
<1>1. /\ VisitType(v) /\ ToSet(v.blocks) \subseteq D
      /\ Flags(v, r) /\ ExprParts(v) /\ IfParts(v) /\ CallOK(v, u)
  BY DEF Local
<1>2. VisitType(w) /\ SameVisit(v, w) /\ w.trees = v.trees
  BY DEF Changed
<1>3. Len(v.trees) \in Nat
  BY <1>1, SeqItems DEF VisitType
<1>4. /\ w.node = v.node /\ w.op = v.op /\ w.fn = v.fn /\ w.args = v.args /\ w.want = v.want
      /\ w.source = v.source /\ w.branches = v.branches /\ w.tail = v.tail
  BY <1>2 DEF SameVisit
<1>5. Part(w) = Len(v.trees) /\ Part(v) = Len(v.trees) - 1
  BY <1>2 DEF Part
<1>6. Flags(w, r) /\ CallOK(w, u)
  BY <1>1, <1>4 DEF Flags, CallOK
<1>7. IfParts(w)
  BY <1>1, <1>2, <1>4 DEF IfParts
<1>8. ExprParts(w)
  <2>1. CASE v.node = "if"
    BY <2>1, <1>1, <1>4 DEF ExprParts, ExprNodes
  <2>2. CASE v.node \in {"binary", "call"}
    <3>1. Len(w.values) = Len(v.trees)
      <4>1. Len(v.values) = Len(v.trees) - 1
        BY <2>2, <1>1, <1>5 DEF ExprParts, ExprNodes
      <4> QED
        BY <4>1, <2>2, <1>3
    <3>2. v.node = "binary" => Len(v.trees) = 1
      BY <2>2
    <3> DEFINE n == Len(v.trees)
    <3>3. n \in Nat /\ Len(w.values) = n /\ Part(w) = n /\ (v.node = "binary" => n = 1)
      BY <3>1, <3>2, <1>3, <1>5
    <3> HIDE DEF n
    <3>4. v.node = "binary" => Part(w) <= 1
      BY <3>3
    <3> QED
      BY <2>2, <3>3, <3>4, <1>1, <1>4 DEF ExprParts, ExprNodes
  <2> QED
    BY <2>1, <2>2
<1> QED
  BY <1>1, <1>2, <1>5, <1>6, <1>7, <1>8 DEF Local

(* The left side of an operator, and an argument. *)
LEMMA OperandKeepsInv ==
    ASSUME IInv, visits # <<>>, BinaryLeft \/ CallArg
    PROVE  IInv'
<1> USE DEF IInv
<1> DEFINE w == Taken
<1>1. /\ unit' = unit /\ stage' = stage /\ item' = item /\ scope_manager' = scope_manager
      /\ types' = types /\ code' = code /\ at' = at /\ regs' = regs
      /\ current_type' = current_type /\ Pops(<<>>) /\ ir_code # <<>>
      /\ (top.node = "binary" /\ Len(top.trees) = 1) \/ top.node = "call"
      /\ top.after /\ visits' = [visits EXCEPT ![Len(visits)] = w]
  BY DEF BinaryLeft, CallArg, At, PartDone, Within, Goes, Runs, Under, builder, Pops
<1>2. /\ IsSeq(visits) /\ top = visits[Len(visits)] /\ VisitType(top) /\ at \in DOMAIN code
      /\ Local(top, unit, unit[item].ret, DOMAIN code)
  BY TopFacts DEF Local
<1>3. /\ Changed(top, w) /\ w.after = FALSE /\ w.base = Len(ir_code) - 1
      /\ Len(w.values) = Len(top.values) + 1
      /\ Datas(top.values) /\ TypeOf(Popped) \in Data => Datas(w.values)
      /\ w.blocks = top.blocks /\ w.last = top.last /\ w.declared = top.declared
  BY <1>1, <1>2, TakenIs
<1>4. Tops(visits, visits', w)
  BY <1>1, <1>2, TopBecomes
<1> HIDE DEF w
<1>5. Local(w, unit, unit[item].ret, DOMAIN code)
  BY <1>1, <1>2, <1>3, TakenLocal
<1>6. Valued(top) /\ top.node \notin {"fn", "block", "if", "if_expr"} /\ ~top.last
  BY <1>1, <1>2 DEF Valued, ExprNodes, Local, Flags
<1>7. StackStep(top, w) /\ notes \subseteq notes' /\ ir_code' \in Seq(Value)
  BY <1>1, <1>3, <1>6, TakesStack
<1>8. TypeInv'
  BY <1>1, <1>2, <1>7, TypesKept DEF TypeInv
<1>9. SameVisit(top, w) /\ w.node = top.node
  BY <1>3 DEF Changed, SameVisit
<1>10. TopStep(w)
  BY <1>1, <1>2, <1>3, <1>4, <1>5, <1>6, <1>7, <1>9 DEF TopStep, VisitorGoes
<1>11. TopCode(w)
  <2>1. Handled' => Open(code, at)
    BY <1>1, <1>6, <1>7, HandledBefore, IsOpen
  <2>2. Grows(code, code', at) /\ Keeps(top, w)
    BY <1>1, <1>6, <1>9 DEF Grows, Keeps, PendingParts
  <2> QED
    BY <2>1, <2>2, <1>1, <1>7, TopCodeStays
<1> QED
  BY <1>7, <1>8, <1>10, <1>11, TopKeepsInv

LEMMA BinaryLeftKeepsInv ==
    ASSUME IInv, visits # <<>>, BinaryLeft
    PROVE  IInv'
BY OperandKeepsInv

LEMMA CallArgKeepsInv ==
    ASSUME IInv, visits # <<>>, CallArg
    PROVE  IInv'
BY OperandKeepsInv

-----------------------------------------------------------------------------
(* After a condition, a branch or a block: the builder moves on. *)

(* The two branches of an if expression and its end get basic blocks.        *)
LEMMA IfExprConditionKeepsInv ==
    ASSUME IInv, visits # <<>>, IfExprCondition
    PROVE  IInv'
<1> USE DEF IInv
<1> DEFINE m == Len(code)
           new == [b \in 1..3 |-> m + b]
           i == Instr("cond_br", NoReg, <<Popped>>, <<new[1], new[2]>>)
           is == <<i>>
           t == Taken
           w == [t EXCEPT !.blocks = new]
<1>1. /\ unit' = unit /\ stage' = stage /\ item' = item /\ scope_manager' = scope_manager
      /\ types' = types /\ regs' = regs /\ current_type' = current_type
      /\ Pops(<<>>) /\ ir_code # <<>>
      /\ top.node = "if_expr" /\ Len(top.trees) = 1 /\ top.after
      /\ code' = [code EXCEPT ![at] = code[at] \o is] \o NewBlocks(3) /\ at' = new[1]
      /\ visits' = [visits EXCEPT ![Len(visits)] = w]
  BY DEF IfExprCondition, At, PartDone, Within, Goes, Runs, Under, Pops, Emit, Position
<1>2. /\ TypeInv /\ IsSeq(visits) /\ top = visits[Len(visits)] /\ VisitType(top)
      /\ at \in DOMAIN code /\ Local(top, unit, unit[item].ret, DOMAIN code)
  BY TopFacts DEF Local
<1>3. /\ Changed(top, t) /\ t.after = FALSE /\ t.base = Len(ir_code) - 1
      /\ Len(t.values) = Len(top.values) + 1
      /\ Datas(top.values) /\ TypeOf(Popped) \in Data => Datas(t.values)
      /\ t.last = top.last /\ t.declared = top.declared
  BY <1>1, <1>2, TakenIs
<1>4. Tops(visits, visits', w)
  BY <1>1, <1>2, TopBecomes
<1>5. CodeType(code) /\ m \in Nat
  BY <1>2, LenProperties DEF TypeInv, CodeType
<1>6. /\ new \in Seq(Nat) /\ Len(new) = 3 /\ new[1] = m + 1 /\ new[2] = m + 2 /\ new[3] = m + 3
  <2>1. new \in [1..3 -> Nat]
    BY <1>5
  <2>2. new \in Seq(Nat)
    BY <2>1
  <2>3. Len(new) = 3
    BY <2>1, <2>2, LenProperties
  <2> QED
    BY <2>2, <2>3, <1>5
<1>7. i \in InstrSet /\ i.blocks = <<m + 1, m + 2>> /\ is \in Seq(InstrSet)
  <2>1. <<Popped>> \in Seq(Values) /\ <<m + 1, m + 2>> \in Seq(Nat) /\ "cond_br" \in InstrOps
    BY <1>1, <1>2, <1>5, PopFacts DEF InstrOps
  <2>2. i \in InstrSet /\ i.blocks = <<m + 1, m + 2>>
    BY <2>1, <1>6, ValueFacts DEF Instr, InstrSet
  <2> HIDE DEF i
  <2> QED
    BY <2>2
<1>8. \A k \in DOMAIN is : ToSet(is[k].blocks) \subseteq 1..(m + 3)
  <2>1. ToSet(<<m + 1, m + 2>>) \subseteq 1..(m + 3)
    BY <1>5 DEF ToSet
  <2>2. DOMAIN is = {1} /\ is[1] = i
    OBVIOUS
  <2> HIDE DEF i, is
  <2> QED
    BY <2>1, <2>2, <1>7
<1> HIDE DEF i, is, new
<1>9. Extends(code, code', at, is, 3)
  <2> DEFINE c2 == code'
             a == at
             n == 3
  <2>1. /\ c2 = [code EXCEPT ![a] = code[a] \o is] \o NewBlocks(n) /\ n \in Nat
        /\ a \in DOMAIN code
        /\ \A k \in DOMAIN is : ToSet(is[k].blocks) \subseteq 1..(Len(code) + n)
    BY <1>1, <1>2, <1>8
  <2> HIDE DEF c2, a, n
  <2>2. Extends(code, c2, a, is, n)
    BY <2>1, <1>5, <1>7, EmittedAndNew, Zenon
  <2> QED
    BY <2>2 DEF c2, a, n
<1>10. /\ CodeType(code') /\ DOMAIN code = 1..m /\ DOMAIN code' = 1..(m + 3)
       /\ Grows(code, code', at)
  BY <1>9 DEF Extends
<1>11. /\ DOMAIN code \subseteq DOMAIN code'
       /\ \A k \in {1, 2, 3} : m + k \in DOMAIN code' \ DOMAIN code
  <2> HIDE DEF m
  <2> QED
    BY <1>5, <1>10
<1>12. /\ VisitType(w) /\ SameVisit(top, w) /\ w.trees = top.trees
       /\ w.after = FALSE /\ w.base = t.base /\ w.values = t.values /\ w.blocks = new
       /\ w.last = top.last /\ w.declared = top.declared
  <2> HIDE DEF t
  <2>1. /\ Changed(t, w) /\ w.after = t.after /\ w.base = t.base /\ w.values = t.values
        /\ w.blocks = new /\ w.last = t.last /\ w.declared = t.declared
    BY <1>3, <1>6 DEF VisitType, Changed, SameVisit
  <2> QED
    BY <2>1, <1>3 DEF Changed, SameVisit
<1> HIDE DEF w, t
<1>13. /\ w.node = "if_expr" /\ w.op = "none"
       /\ Part(w) = 1 /\ Len(w.values) = 1 /\ w.source = top.source
  <2>1. w.node = top.node /\ w.op = top.op /\ w.source = top.source
    BY <1>12 DEF SameVisit
  <2>2. Part(w) = 1 /\ Part(top) = 0
    BY <1>1, <1>12 DEF Part
  <2>3. Len(top.values) = 0 /\ top.op = "none"
    BY <2>2, <1>1, <1>2 DEF Local, ExprParts, ExprNodes
  <2> QED
    BY <2>1, <2>2, <2>3, <1>1, <1>3, <1>12
<1>14. ToSet(w.blocks) \subseteq DOMAIN code'
  <2>1. DOMAIN new = 1..3
    BY <1>6, LenProperties
  <2> QED
    BY <2>1, <1>6, <1>11, <1>12 DEF ToSet
<1>15. Local(w, unit, unit[item].ret, DOMAIN code')
  <2>1. Flags(w, unit[item].ret)
    BY <1>2, <1>12 DEF Local, Flags, SameVisit
  <2>2. ExprParts(w) /\ IfParts(w) /\ CallOK(w, unit)
    BY <1>6, <1>12, <1>13 DEF ExprParts, IfParts, CallOK, ExprNodes
  <2> QED
    BY <2>1, <2>2, <1>12, <1>14 DEF Local
<1>16. Valued(top) /\ ~top.last
  BY <1>1, <1>2 DEF Valued, ExprNodes, Local, Flags
<1>17. StackStep(top, w) /\ notes \subseteq notes' /\ ir_code' \in Seq(Value)
  BY <1>1, <1>3, <1>12, <1>16, TakesStack
<1>18. at' = m + 1 /\ at' \in DOMAIN code' \ DOMAIN code
  BY <1>1, <1>6, <1>11
<1>19. TypeInv'
  BY <1>1, <1>2, <1>10, <1>17, <1>18, TypesKept DEF TypeInv
<1>20. TopStep(w)
  BY <1>1, <1>4, <1>11, <1>12, <1>15, <1>16, <1>17, <1>18 DEF TopStep, VisitorGoes
<1>21. TopCode(w)
  <2>1. PendingParts(w) = 2..3
    <3>1. w.blocks # <<>>
      <4>1. Len(w.blocks) = 3 /\ 3 # 0
        BY <1>6, <1>12
      <4> QED
        BY <4>1, EmptyIs, Zenon
    <3> QED
      BY <3>1, <1>13 DEF PendingParts
  <2>2. Pending(w) = {m + 2, m + 3}
    <3>1. 2..3 = {2, 3}
      OBVIOUS
    <3> QED
      BY <3>1, <2>1, <1>6, <1>12 DEF Pending
  <2>3. Opens(w, DOMAIN code, DOMAIN code')
    <3>1. \A k, j \in {2, 3} : new[k] = new[j] => k = j
      BY <1>5, <1>6
    <3>2. 2..3 = {2, 3}
      OBVIOUS
    <3> QED
      BY <2>1, <2>2, <3>1, <3>2, <1>11, <1>12 DEF Opens
  <2>4. Open(code', at')
    BY <1>10, <1>18 DEF Open, Grows
  <2>5. at' \notin Pending(w)
    <3> HIDE DEF m
    <3>1. m + 1 # m + 2 /\ m + 1 # m + 3
      BY <1>5
    <3> QED
      BY <3>1, <2>2, <1>18
  <2> QED
    BY <2>3, <2>4, <2>5, <1>10, <1>18 DEF TopCode
<1> QED
  BY <1>17, <1>19, <1>20, <1>21, TopKeepsInv

LEMMA IfExprThenKeepsInv ==
    ASSUME IInv, visits # <<>>, IfExprThen
    PROVE  IInv'
<1> USE DEF IInv
<1> DEFINE i == Instr("br", NoReg, <<>>, <<top.blocks[3]>>)
           bs == Append(top.blocks, at)
           t == Taken
           w == [t EXCEPT !.blocks = Append(@, at)]
<1>1. /\ unit' = unit /\ stage' = stage /\ item' = item /\ scope_manager' = scope_manager
      /\ types' = types /\ regs' = regs /\ current_type' = current_type
      /\ Pops(<<>>) /\ ir_code # <<>>
      /\ top.node = "if_expr" /\ Len(top.trees) = 2 /\ top.after
      /\ code' = Emit(<<i>>) /\ at' = top.blocks[2]
      /\ visits' = [visits EXCEPT ![Len(visits)] = w]
  BY DEF IfExprThen, At, PartDone, Within, Goes, Runs, Under, Pops, Position
<1>2. /\ TypeInv /\ IsSeq(visits) /\ top = visits[Len(visits)] /\ VisitType(top)
      /\ at \in DOMAIN code /\ Local(top, unit, unit[item].ret, DOMAIN code)
  BY TopFacts DEF Local
<1>3. /\ Changed(top, t) /\ t.after = FALSE /\ t.base = Len(ir_code) - 1
      /\ Len(t.values) = Len(top.values) + 1
      /\ Datas(top.values) /\ TypeOf(Popped) \in Data => Datas(t.values)
      /\ t.last = top.last /\ t.declared = top.declared /\ t.blocks = top.blocks
  BY <1>1, <1>2, TakenIs
<1>4. Tops(visits, visits', w)
  BY <1>1, <1>2, TopBecomes
<1>5. Part(top) = 1 /\ Len(top.values) = 1 /\ Len(top.blocks) = 3 /\ top.op = "none"
  <2>1. Part(top) = 1
    BY <1>1 DEF Part
  <2>2. /\ Len(top.values) = Part(top) /\ top.op = "none"
        /\ \/ Part(top) = 0 /\ Len(top.blocks) = 0
           \/ Part(top) = 1 /\ Len(top.blocks) = 3
           \/ Part(top) = 2 /\ Len(top.blocks) = 4
    BY <1>1, <1>2 DEF Local, ExprParts, ExprNodes
  <2>3. 1 # 0 /\ 1 # 2
    OBVIOUS
  <2> QED
    BY <2>1, <2>2, <2>3
<1>6. /\ top.blocks \in Seq(Nat) /\ DOMAIN top.blocks = 1..3
      /\ \A k \in 1..3 : top.blocks[k] \in Nat /\ top.blocks[k] \in DOMAIN code
  <2>1. top.blocks \in Seq(Nat) /\ ToSet(top.blocks) \subseteq DOMAIN code
    BY <1>2 DEF Local, VisitType
  <2>2. DOMAIN top.blocks = 1..3 /\ top.blocks \in [1..3 -> Nat]
    BY <2>1, <1>5, LenProperties
  <2> QED
    BY <2>1, <2>2 DEF ToSet
<1>7. at \in Nat
  <2>1. CodeType(code)
    BY <1>2 DEF TypeInv
  <2>2. code \in Seq(Seq(InstrSet))
    BY <2>1 DEF CodeType
  <2> QED
    BY <2>2, <1>2, LenProperties
<1>8. /\ bs \in Seq(Nat) /\ Len(bs) = 4 /\ \A k \in 1..3 : bs[k] = top.blocks[k]
      /\ bs[4] = at /\ DOMAIN bs = 1..4
  <2>1. /\ bs \in Seq(Nat) /\ Len(bs) = Len(top.blocks) + 1
        /\ \A k \in 1..Len(top.blocks) : bs[k] = top.blocks[k]
        /\ bs[Len(top.blocks) + 1] = at
    BY <1>6, <1>7, AppendItem
  <2>2. bs \in Seq(Nat) /\ Len(bs) = 4 /\ \A k \in 1..3 : bs[k] = top.blocks[k] /\ bs[4] = at
    BY <2>1, <1>5
  <2> QED
    BY <2>2, <1>5, <2>1, LenProperties
<1>9. i \in InstrSet /\ i.blocks = <<top.blocks[3]>>
  <2>1. <<>> \in Seq(Values) /\ <<top.blocks[3]>> \in Seq(Nat) /\ "br" \in InstrOps
    BY <1>6 DEF InstrOps
  <2> QED
    BY <2>1, ValueFacts DEF Instr, InstrSet
<1>10. ToSet(i.blocks) \subseteq DOMAIN code
  BY <1>6, <1>9 DEF ToSet
<1> HIDE DEF i, bs
<1>11. CodeType(code') /\ DOMAIN code' = DOMAIN code /\ Grows(code, code', at)
  BY <1>1, <1>2, <1>9, <1>10, EmitsOne
<1>12. /\ VisitType(w) /\ SameVisit(top, w) /\ w.trees = top.trees
       /\ w.after = FALSE /\ w.base = t.base /\ w.values = t.values /\ w.blocks = bs
       /\ w.last = top.last /\ w.declared = top.declared
  <2> HIDE DEF t
  <2>1. w = [t EXCEPT !.blocks = bs]
    BY <1>3 DEF bs, Changed, VisitType
  <2>2. VisitType(t)
    BY <1>3 DEF Changed
  <2> HIDE DEF w
  <2>3. /\ VisitType(w) /\ SameVisit(t, w) /\ w.trees = t.trees
        /\ w.after = t.after /\ w.base = t.base /\ w.values = t.values
        /\ w.blocks = bs /\ w.last = t.last /\ w.declared = t.declared
    BY <2>1, <2>2, <1>8 DEF VisitType, SameVisit
  <2> QED
    BY <2>3, <1>3 DEF Changed, SameVisit
<1> HIDE DEF w, t
<1>13. w.node = "if_expr" /\ w.op = "none" /\ Part(w) = 2 /\ Len(w.values) = 2
  <2>1. w.node = top.node /\ w.op = top.op
    BY <1>12 DEF SameVisit
  <2>2. Part(w) = 2
    BY <1>1, <1>12 DEF Part
  <2> QED
    BY <2>1, <2>2, <1>1, <1>3, <1>5, <1>12
<1>14. ToSet(w.blocks) \subseteq DOMAIN code'
  <2>1. \A k \in 1..4 : k \in 1..3 \/ k = 4
    OBVIOUS
  <2> QED
    BY <2>1, <1>2, <1>6, <1>8, <1>11, <1>12 DEF ToSet
<1>15. Local(w, unit, unit[item].ret, DOMAIN code')
  <2>1. Flags(w, unit[item].ret)
    BY <1>2, <1>12 DEF Local, Flags, SameVisit
  <2>2. ExprParts(w) /\ IfParts(w) /\ CallOK(w, unit)
    BY <1>8, <1>12, <1>13 DEF ExprParts, IfParts, CallOK, ExprNodes
  <2> QED
    BY <2>1, <2>2, <1>12, <1>14 DEF Local
<1>16. Valued(top) /\ ~top.last
  BY <1>1, <1>2 DEF Valued, ExprNodes, Local, Flags
<1>17. StackStep(top, w) /\ notes \subseteq notes' /\ ir_code' \in Seq(Value)
  BY <1>1, <1>3, <1>12, <1>16, TakesStack
<1>18. at' \in DOMAIN code'
  BY <1>1, <1>6, <1>11
<1>19. TypeInv'
  BY <1>1, <1>2, <1>11, <1>17, <1>18, TypesKept DEF TypeInv
<1>20. TopStep(w)
  BY <1>1, <1>4, <1>11, <1>12, <1>15, <1>16, <1>17, <1>18 DEF TopStep, VisitorGoes
<1>21. TopCode(w)
  <2>1. PendingParts(top) = 2..3 /\ PendingParts(w) = 3..3
    <3>1. Len(<<>>) = 0
      BY EmptyIs
    <3>2. Len(top.blocks) = 3 /\ Len(w.blocks) = 4
      BY <1>5, <1>8, <1>12
    <3>3. w.blocks # <<>> /\ top.blocks # <<>>
      BY <3>1, <3>2
    <3> QED
      BY <3>3, <1>1, <1>5, <1>13 DEF PendingParts
  <2>2. 2 \in 2..3 /\ 2 \notin 3..3 /\ 3..3 \subseteq 2..3 /\ \A k \in 3..3 : k \in 1..3
    OBVIOUS
  <2>3. Keeps(top, w)
    BY <2>1, <2>2, <1>8, <1>12 DEF Keeps
  <2>4. 2 \in PendingParts(top) /\ 2 \notin PendingParts(w)
    BY <2>1, <2>2
  <2> QED
    BY <2>3, <2>4, <1>1, <1>11, <1>17, TopCodeMoves
<1> QED
  BY <1>17, <1>19, <1>20, <1>21, TopKeepsInv

-----------------------------------------------------------------------------
(* If blocks. *)

LEMMA IfFacts ==
    ASSUME VisitsInv, ShapeInv, visits # <<>>, top.node = "if"
    PROVE  /\ Len(top.trees) \in Nat /\ Len(top.blocks) \in Nat /\ top.branches \in Nat
           /\ Len(top.blocks) = 2 * top.branches \/ Len(top.blocks) = 2 * top.branches + 1
           /\ top.source => Len(top.blocks) = 2 * top.branches + 1
           /\ top.branches >= 1 /\ Len(top.trees) <= Len(top.blocks)
           /\ top.after => Len(top.trees) >= 1
           /\ DOMAIN top.blocks = 1..Len(top.blocks) /\ top.blocks \in Seq(Nat)
           /\ \A k \in 1..Len(top.blocks) : top.blocks[k] \in Nat /\ top.blocks[k] \in DOMAIN code
           /\ top.op = "none" /\ top.last = FALSE
<1>1. Local(top, unit, unit[item].ret, DOMAIN code)
  BY TopFacts
<1>2. /\ VisitType(top) /\ IfParts(top) /\ ExprParts(top) /\ Flags(top, unit[item].ret)
      /\ ToSet(top.blocks) \subseteq DOMAIN code
  BY <1>1 DEF Local
<1>3. /\ top.blocks \in Seq(Nat) /\ top.branches \in Nat
      /\ Len(top.trees) \in Nat /\ top.last \in BOOLEAN
  BY <1>2, SeqItems DEF VisitType
<1>4. /\ Len(top.blocks) \in Nat /\ DOMAIN top.blocks = 1..Len(top.blocks)
      /\ \A k \in DOMAIN top.blocks : top.blocks[k] \in Nat
  BY <1>3, LenProperties
<1>5. \A k \in DOMAIN top.blocks : top.blocks[k] \in DOMAIN code
  BY <1>2 DEF ToSet
<1> QED
  BY <1>2, <1>3, <1>4, <1>5 DEF IfParts, ExprParts, Flags

LEMMA IfMoves ==
    ASSUME VisitsInv, ShapeInv, visits # <<>>, top.node = "if", top.after,
           NEW w, Changed(top, w), w.after = FALSE, w.blocks = top.blocks
    PROVE  /\ Keeps(top, w)
           /\ Len(top.trees) \in PendingParts(top) /\ Len(top.trees) \notin PendingParts(w)
           /\ Len(top.trees) \in 1..Len(top.blocks)
<1>1. w.node = top.node /\ w.trees = top.trees
  BY DEF Changed, SameVisit
<1> DEFINE n == Len(top.trees)
           m == Len(top.blocks)
<1>2. n \in Nat /\ m \in Nat /\ n <= m /\ n >= 1
  BY IfFacts
<1>3. PendingParts(top) = (n - 1 + 1)..m /\ PendingParts(w) = (n + 1)..m
  BY <1>1 DEF PendingParts, Part
<1> HIDE DEF n, m
<1>4. PendingParts(top) = n..m
  BY <1>2, <1>3
<1>5. PendingParts(w) \subseteq PendingParts(top) /\ n \in PendingParts(top)
      /\ n \notin PendingParts(w) /\ n \in 1..m
  BY <1>2, <1>3, <1>4
<1> QED
  BY <1>5 DEF Keeps, n, m

LEMMA IfConditionKeepsInv ==
    ASSUME IInv, visits # <<>>, IfCondition
    PROVE  IInv'
<1> USE DEF IInv
<1> DEFINE n == Len(top.trees)
           cmp == NewReg("bool")
           i == Instr("icmp_eq", cmp, <<Popped, Const(0, "bool")>>, <<>>)
           j == Instr("cond_br", NoReg, <<cmp>>, <<top.blocks[n], top.blocks[n + 1]>>)
           base == Len(ir_code) - 1
           w == [top EXCEPT !.after = FALSE, !.base = base]
<1>1. /\ unit' = unit /\ stage' = stage /\ item' = item /\ scope_manager' = scope_manager
      /\ types' = types /\ regs' = regs + 1 /\ current_type' = current_type
      /\ Pops(<<>>) /\ ir_code # <<>>
      /\ top.node = "if" /\ top.after /\ n % 2 = 1 /\ n < 2 * top.branches
      /\ code' = Emit(<<i, j>>) /\ at' = top.blocks[n]
      /\ visits' = [visits EXCEPT ![Len(visits)] = w]
  BY DEF IfCondition, PartDone, Within, Goes, Runs, Under, Pops, Position
<1>2. /\ TypeInv /\ IsSeq(visits) /\ top = visits[Len(visits)] /\ VisitType(top)
      /\ at \in DOMAIN code /\ Local(top, unit, unit[item].ret, DOMAIN code)
  BY TopFacts DEF Local
<1>3. base \in Nat /\ Popped \in Values
  BY <1>1, PopFacts
<1> HIDE DEF base
<1>4. /\ Changed(top, w) /\ w.after = FALSE /\ w.base = base /\ w.values = top.values
      /\ w.blocks = top.blocks /\ w.last = top.last /\ w.declared = top.declared
  BY <1>2, <1>3 DEF VisitType, Changed, SameVisit
<1>5. Tops(visits, visits', w)
  BY <1>1, <1>2, TopBecomes
<1> HIDE DEF w
<1>6. Local(w, unit, unit[item].ret, DOMAIN code) /\ Part(top) = n - 1
  BY <1>1, <1>2, <1>4, TakenLocal
<1>7. /\ n \in Nat /\ n \in 1..Len(top.blocks)
      /\ n + 1 \in 1..Len(top.blocks) /\ n - 1 < 2 * top.branches
      /\ (n - 1) % 2 = 0
  <2> DEFINE m == Len(top.blocks)
             b == top.branches
  <2>1. /\ n \in Nat /\ m \in Nat /\ b \in Nat /\ n >= 1 /\ n < 2 * b /\ n % 2 = 1
        /\ m = 2 * b \/ m = 2 * b + 1
    BY <1>1, IfFacts
  <2> HIDE DEF n, m, b
  <2>2. n \in 1..m /\ n + 1 \in 1..m /\ n - 1 < 2 * b /\ (n - 1) % 2 = 0
    BY <2>1
  <2> QED
    BY <2>1, <2>2 DEF m, b
<1> HIDE DEF n
<1>8. /\ top.blocks[n] \in Nat /\ top.blocks[n + 1] \in Nat
      /\ top.blocks[n] \in DOMAIN code /\ top.blocks[n + 1] \in DOMAIN code
  BY <1>1, <1>7, IfFacts
<1>9. /\ i \in InstrSet /\ i.blocks = <<>>
      /\ j \in InstrSet /\ j.blocks = <<top.blocks[n], top.blocks[n + 1]>>
  <2>1. "bool" \in Types /\ Const(0, "bool") \in Values /\ NoReg \in Value
    BY ValueFacts
  <2>2. cmp \in Value /\ cmp \in Values
    BY <1>2, <2>1, NewRegIs
  <2> HIDE DEF cmp
  <2>3. /\ <<Popped, Const(0, "bool")>> \in Seq(Values) /\ <<>> \in Seq(Nat)
        /\ <<cmp>> \in Seq(Values) /\ <<top.blocks[n], top.blocks[n + 1]>> \in Seq(Nat)
        /\ "icmp_eq" \in InstrOps /\ "cond_br" \in InstrOps
    BY <1>3, <1>8, <2>1, <2>2 DEF InstrOps
  <2> QED
    BY <2>1, <2>2, <2>3 DEF Instr, InstrSet
<1>10. ToSet(i.blocks) \subseteq DOMAIN code /\ ToSet(j.blocks) \subseteq DOMAIN code
  BY <1>8, <1>9, NoBlocks DEF ToSet
<1> HIDE DEF i, j
<1>11. CodeType(code') /\ DOMAIN code' = DOMAIN code /\ Grows(code, code', at)
  BY <1>1, <1>2, <1>9, <1>10, EmitsTwo
<1>12. Valued(top)
  BY <1>1, <1>6, <1>7 DEF Valued, CondPart
<1>13. StackStep(top, w) /\ notes \subseteq notes' /\ ir_code' \in Seq(Value)
  BY <1>1, <1>4, <1>12, TakesStack DEF base
<1>14. TypeInv'
  <2>1. at' \in DOMAIN code' /\ regs' \in Nat /\ current_type' \in Types
    BY <1>1, <1>2, <1>8, <1>11 DEF TypeInv
  <2> QED
    BY <2>1, <1>1, <1>2, <1>11, <1>13, TypesKept
<1>15. TopStep(w)
  <2>1. SameVisit(top, w) /\ top.last = FALSE
    BY <1>1, <1>4, IfFacts DEF Changed
  <2> QED
    BY <2>1, <1>1, <1>4, <1>5, <1>6, <1>8, <1>11, <1>13 DEF TopStep, VisitorGoes
<1>16. TopCode(w)
  <2>1. Keeps(top, w) /\ n \in PendingParts(top) /\ n \notin PendingParts(w)
    BY <1>1, <1>4, IfMoves DEF n
  <2> QED
    BY <2>1, <1>1, <1>11, <1>13, TopCodeMoves
<1> QED
  BY <1>13, <1>14, <1>15, <1>16, TopKeepsInv

LEMMA IfBlockEndKeepsInv ==
    ASSUME IInv, visits # <<>>, IfBlockEnd
    PROVE  IInv'
<1> USE DEF IInv
<1> DEFINE n == Len(top.trees)
           i == Instr("br", NoReg, <<>>, <<Last(top.blocks)>>)
           base == Len(ir_code)
           z == [top EXCEPT !.after = FALSE, !.base = base]
           w == IF top.source THEN Taken ELSE z
<1>1. /\ unit' = unit /\ stage' = stage /\ item' = item /\ scope_manager' = scope_manager
      /\ types' = types /\ regs' = regs /\ current_type' = current_type
      /\ top.node = "if" /\ top.after /\ (n % 2 = 0 \/ n > 2 * top.branches)
      /\ code' = Emit(<<i>>) /\ at' = top.blocks[n]
      /\ top.source => Pops(<<>>) /\ ir_code # <<>>
      /\ ~top.source => ir_code' = ir_code /\ notes' = notes
      /\ visits' = [visits EXCEPT ![Len(visits)] = w]
  BY DEF IfBlockEnd, PartDone, Within, Goes, Runs, Under, Pops, Position
<1>2. /\ TypeInv /\ IsSeq(visits) /\ top = visits[Len(visits)] /\ VisitType(top)
      /\ at \in DOMAIN code /\ Local(top, unit, unit[item].ret, DOMAIN code)
  BY TopFacts DEF Local
<1>3. base \in Nat /\ top.source \in BOOLEAN
  BY <1>2, LenProperties DEF TypeInv, VisitType
<1>4. Tops(visits, visits', w)
  BY <1>1, <1>2, TopBecomes
<1>5. /\ ~top.source => w = z
      /\ top.source => w = Taken
  OBVIOUS
<1> HIDE DEF base
<1>6. ASSUME ~top.source
      PROVE  /\ Changed(top, w) /\ w.after = FALSE /\ w.base = base /\ w.values = top.values
             /\ w.blocks = top.blocks /\ w.last = top.last /\ w.declared = top.declared
  <2>1. w = z
    BY <1>5, <1>6
  <2> HIDE DEF w
  <2> QED
    BY <2>1, <1>2, <1>3 DEF VisitType, Changed, SameVisit
<1>7. ASSUME top.source
      PROVE  /\ Changed(top, w) /\ w.after = FALSE /\ w.base = base - 1
             /\ Datas(top.values) /\ TypeOf(Popped) \in Data => Datas(w.values)
             /\ w.blocks = top.blocks /\ w.last = top.last /\ w.declared = top.declared
  <2>1. w = Taken
    BY <1>5, <1>7
  <2> HIDE DEF w
  <2> QED
    BY <2>1, <1>1, <1>2, <1>7, TakenIs DEF base
<1> HIDE DEF w, z
<1>8. /\ Changed(top, w) /\ w.after = FALSE /\ w.blocks = top.blocks /\ w.last = top.last
      /\ w.declared = top.declared
  BY <1>3, <1>6, <1>7
<1>9. Local(w, unit, unit[item].ret, DOMAIN code) /\ Part(top) = n - 1
  BY <1>1, <1>2, <1>8, TakenLocal
<1>10. /\ n \in 1..Len(top.blocks) /\ Keeps(top, w)
       /\ n \in PendingParts(top) /\ n \notin PendingParts(w)
  BY <1>1, <1>8, IfMoves
<1>11. ~CondPart(top)
  <2> DEFINE b == top.branches
  <2>1. n \in Nat /\ b \in Nat /\ n >= 1 /\ (n % 2 = 0 \/ n > 2 * b)
    BY <1>1, IfFacts
  <2>2. Part(top) = n - 1
    BY <1>9
  <2> HIDE DEF n, b
  <2>3. ~((n - 1) % 2 = 0 /\ n - 1 < 2 * b)
    BY <2>1
  <2> QED
    BY <2>2, <2>3 DEF CondPart, b
<1>12. ~top.source => ~Valued(top)
  BY <1>1, <1>11 DEF Valued, Sourced, ExprNodes
<1>13. Last(top.blocks) \in Nat /\ Last(top.blocks) \in DOMAIN code /\ top.blocks[n] \in DOMAIN code
  <2> DEFINE m == Len(top.blocks)
             b == top.branches
  <2>1. m \in Nat /\ b >= 1 /\ b \in Nat /\ (m = 2 * b \/ m = 2 * b + 1)
    BY <1>1, IfFacts
  <2>2. \A k \in 1..m : top.blocks[k] \in Nat /\ top.blocks[k] \in DOMAIN code
    BY <1>1, IfFacts
  <2>3. Last(top.blocks) = top.blocks[m] /\ n \in 1..m
    BY <1>10 DEF Last
  <2> HIDE DEF n, m, b
  <2>4. m \in 1..m
    BY <2>1
  <2> QED
    BY <2>2, <2>3, <2>4
<1> HIDE DEF n
<1>14. i \in InstrSet /\ i.blocks = <<Last(top.blocks)>>
  <2>1. <<>> \in Seq(Values) /\ <<Last(top.blocks)>> \in Seq(Nat) /\ "br" \in InstrOps
    BY <1>13 DEF InstrOps
  <2> QED
    BY <2>1, ValueFacts DEF Instr, InstrSet
<1>15. ToSet(i.blocks) \subseteq DOMAIN code
  BY <1>13, <1>14 DEF ToSet
<1> HIDE DEF i
<1>16. CodeType(code') /\ DOMAIN code' = DOMAIN code /\ Grows(code, code', at)
  BY <1>1, <1>2, <1>14, <1>15, EmitsOne
<1>17. ASSUME ~top.source
       PROVE  StackStep(top, w) /\ notes \subseteq notes' /\ ir_code' \in Seq(Value)
  <2>1. ir_code' = ir_code /\ notes' = notes
    BY <1>1, <1>17
  <2>2. StackStep(top, w)
    <3> SUFFICES ASSUME Handled'
                 PROVE  /\ "stale" \notin notes'
                        /\ Datas(ir_code') /\ Datas(w.values)
                        /\ top.base <= w.base /\ w.base <= Len(ir_code')
                        /\ w.base = Len(ir_code')
                        /\ "discarded" \notin notes' =>
                              w.base = 0 /\ Len(ir_code') <= 1 /\ Len(ir_code') = 0
      BY <1>8 DEF StackStep
    <3>1. Handled
      BY <2>1, HandledBefore
    <3>2. ~MayLeave(top)
      BY <1>1, <1>12, <1>17 DEF MayLeave
    <3>3. /\ "stale" \notin notes /\ Datas(ir_code) /\ Datas(top.values)
          /\ top.base <= base
          /\ "discarded" \notin notes => base = 0
      BY <3>1, <3>2, StackFact DEF base
    <3>4. w.base = base /\ w.values = top.values /\ Len(ir_code') = base
      BY <2>1, <1>6, <1>17 DEF base
    <3> DEFINE k == w.base
               m == Len(ir_code')
    <3>5. k = base /\ m = base /\ base \in Nat
      BY <3>4, <1>3
    <3>6. "discarded" \notin notes' => base = 0
      BY <3>3, <2>1
    <3> HIDE DEF k, m
    <3>7. top.base <= k /\ k <= m /\ k = m
      BY <3>3, <3>5
    <3>8. "discarded" \notin notes' => k = 0 /\ m <= 1 /\ m = 0
      BY <3>5, <3>6
    <3>9. "stale" \notin notes' /\ Datas(ir_code') /\ Datas(w.values)
      BY <3>3, <3>4, <2>1
    <3> QED
      BY <3>7, <3>8, <3>9, Zenon DEF k, m
  <2> QED
    BY <2>1, <2>2, <1>2 DEF TypeInv
<1>18. ASSUME top.source
       PROVE  StackStep(top, w) /\ notes \subseteq notes' /\ ir_code' \in Seq(Value)
  <2>1. w.base = Len(ir_code) - 1
    BY <1>7, <1>18 DEF base
  <2>2. Handled => Valued(top)
    BY <1>1, <1>18, BelowStack DEF Valued
  <2> QED
    BY <2>1, <2>2, <1>1, <1>7, <1>18, TakesStack
<1>19. StackStep(top, w) /\ notes \subseteq notes' /\ ir_code' \in Seq(Value)
  BY <1>3, <1>17, <1>18
<1>20. TypeInv'
  <2>1. at' \in DOMAIN code' /\ regs' \in Nat /\ current_type' \in Types
    BY <1>1, <1>2, <1>13, <1>16 DEF TypeInv
  <2> QED
    BY <2>1, <1>1, <1>2, <1>16, <1>19, TypesKept
<1>21. TopStep(w)
  <2>1. SameVisit(top, w) /\ top.last = FALSE
    BY <1>1, <1>8, IfFacts DEF Changed
  <2> QED
    BY <2>1, <1>1, <1>4, <1>8, <1>9, <1>13, <1>16, <1>19 DEF TopStep, VisitorGoes
<1>22. TopCode(w)
  BY <1>1, <1>10, <1>16, <1>19, TopCodeMoves
<1> QED
  BY <1>19, <1>20, <1>21, <1>22, TopKeepsInv

(* The body of the function has been visited. *)
LEMMA FnEndKeepsInv ==
    ASSUME IInv, visits # <<>>, FnEnd
    PROVE  IInv'
<1> USE DEF IInv
<1> DEFINE w == [top EXCEPT !.after = FALSE]
           i == Instr("ret_void", NoReg, <<>>, <<>>)
           j == Instr("ret", NoReg, <<Popped>>, <<>>)
<1>1. /\ unit' = unit /\ stage' = stage /\ item' = item /\ scope_manager' = scope_manager
      /\ types' = types /\ regs' = regs /\ current_type' = current_type /\ at' = at
      /\ top.node = "fn" /\ top.after
      /\ visits' = [visits EXCEPT ![Len(visits)] = w]
      /\ \/ /\ ~top.source /\ code' = Emit(<<i>>) /\ ir_code' = ir_code
            /\ notes' = notes \cup (IF ir_code = <<>> THEN {} ELSE {"discarded"})
         \/ ir_code = <<>> /\ code' = code /\ ir_code' = ir_code /\ notes' = notes
         \/ top.source /\ ir_code # <<>> /\ Pops(<<>>) /\ code' = Emit(<<j>>)
  BY DEF FnEnd, Goes, Runs, Under, Note
<1>2. /\ TypeInv /\ IsSeq(visits) /\ top = visits[Len(visits)] /\ VisitType(top)
      /\ at \in DOMAIN code /\ Local(top, unit, unit[item].ret, DOMAIN code)
  BY TopFacts DEF Local
<1>3. /\ Changed(top, w) /\ w.after = FALSE /\ w.base = top.base /\ w.values = top.values
      /\ w.blocks = top.blocks /\ w.last = top.last /\ w.declared = top.declared
  BY <1>2 DEF VisitType, Changed, SameVisit
<1>4. Tops(visits, visits', w)
  BY <1>1, <1>2, TopBecomes
<1> HIDE DEF w
<1>5. /\ SameVisit(top, w) /\ w.node = "fn" /\ w.trees = top.trees /\ VisitType(w)
      /\ w.source = top.source /\ w.op = top.op /\ w.want = top.want /\ w.tail = top.tail
  BY <1>1, <1>3 DEF Changed, SameVisit
<1>6. Local(w, unit, unit[item].ret, DOMAIN code) /\ w.last = FALSE
  <2>1. Flags(top, unit[item].ret) /\ ExprParts(top) /\ ToSet(top.blocks) \subseteq DOMAIN code
        /\ top.last \in BOOLEAN
    BY <1>2 DEF Local, VisitType
  <2>2. Flags(w, unit[item].ret) /\ w.last = FALSE
    BY <2>1, <1>1, <1>3, <1>5 DEF Flags
  <2>3. ExprParts(w) /\ IfParts(w) /\ CallOK(w, unit)
    BY <2>1, <1>1, <1>5 DEF ExprParts, IfParts, CallOK, ExprNodes
  <2> QED
    BY <2>1, <2>2, <2>3, <1>3, <1>5 DEF Local
<1>7. i \in InstrSet /\ i.blocks = <<>>
  <2>1. <<>> \in Seq(Values) /\ <<>> \in Seq(Nat) /\ "ret_void" \in InstrOps
    BY DEF InstrOps
  <2> QED
    BY <2>1, ValueFacts DEF Instr, InstrSet
<1>8. ir_code # <<>> => j \in InstrSet /\ j.blocks = <<>>
  <2>1. ir_code # <<>> => <<Popped>> \in Seq(Values) /\ <<>> \in Seq(Nat) /\ "ret" \in InstrOps
    BY <1>2, PopFacts DEF InstrOps
  <2> QED
    BY <2>1, ValueFacts DEF Instr, InstrSet
<1> HIDE DEF i, j
<1>9. CodeType(code') /\ DOMAIN code' = DOMAIN code /\ Grows(code, code', at)
  <2>1. CASE code' = Emit(<<i>>)
    BY <2>1, <1>2, <1>7, NoBlocks, EmitsOne
  <2>2. CASE code' = code
    BY <2>2, <1>2 DEF Grows, TypeInv
  <2>3. CASE ir_code # <<>> /\ code' = Emit(<<j>>)
    BY <2>3, <1>2, <1>8, NoBlocks, EmitsOne
  <2> QED
    BY <2>1, <2>2, <2>3, <1>1
<1>10. (top.source => Valued(top)) /\ ~ExprPart(w)
  <2>1. Flags(top, unit[item].ret)
    BY <1>2 DEF Local
  <2>2. top.source => Sourced(top)
    BY <2>1, <1>1 DEF Flags, Sourced, Types
  <2> QED
    BY <2>2, <1>1, <1>5 DEF CondPart, Valued, ExprNodes, ExprPart
<1>11. ASSUME ir_code' = ir_code, notes \subseteq notes', "stale" \in notes' => "stale" \in notes,
              ir_code = <<>> \/ "discarded" \in notes'
       PROVE  StackStep(top, w) /\ notes \subseteq notes' /\ ir_code' \in Seq(Value)
  <2>1. StackStep(top, w)
    <3> SUFFICES ASSUME Handled'
                 PROVE  /\ "stale" \notin notes'
                        /\ Datas(ir_code') /\ Datas(w.values)
                        /\ top.base <= w.base /\ w.base <= Len(ir_code')
                        /\ "discarded" \notin notes' =>
                              w.base = 0 /\ Len(ir_code') <= 1 /\ Len(ir_code') = 0
      BY <1>3, <1>5 DEF StackStep
    <3>1. Handled
      BY <1>11, HandledBefore
    <3>2. /\ "stale" \notin notes /\ Datas(ir_code) /\ Datas(top.values)
          /\ top.base \in Nat /\ top.base <= Len(ir_code)
          /\ "discarded" \notin notes =>
                /\ top.base = 0 /\ Len(ir_code) <= 1
                /\ Len(ir_code) = 0 \/ MayLeave(top)
      BY <3>1, StackFact
    <3>3. "discarded" \notin notes' => Len(ir_code) = 0
      BY <1>11, EmptyIs
    <3>4. "discarded" \notin notes' => top.base = 0
      BY <3>2, <1>11
    <3> QED
      BY <3>2, <3>3, <3>4, <1>3, <1>11
  <2> QED
    BY <2>1, <1>2, <1>11 DEF TypeInv
<1>12. ASSUME top.source, ir_code # <<>>, Pops(<<>>)
       PROVE  StackStep(top, w) /\ notes \subseteq notes' /\ ir_code' \in Seq(Value)
  <2>1. ir_code' = Front(ir_code) \o <<>> /\ notes' = notes \cup Stale
    BY <1>12 DEF Pops, Note
  <2>2. /\ Len(ir_code) \in Nat /\ Len(ir_code) >= 1
        /\ Front(ir_code) \in Seq(Value) /\ Len(Front(ir_code)) = Len(ir_code) - 1
        /\ Front(ir_code) \o <<>> = Front(ir_code)
        /\ Datas(ir_code) => Datas(Front(ir_code))
    BY <1>2, <1>12, PopFacts
  <2>3. ir_code' = Front(ir_code) /\ notes \subseteq notes'
    BY <2>1, <2>2
  <2>4. StackStep(top, w)
    <3> SUFFICES ASSUME Handled'
                 PROVE  /\ "stale" \notin notes'
                        /\ Datas(ir_code') /\ Datas(w.values)
                        /\ top.base <= w.base /\ w.base <= Len(ir_code')
                        /\ "discarded" \notin notes' =>
                              w.base = 0 /\ Len(ir_code') <= 1 /\ Len(ir_code') = 0
      BY <1>3, <1>5 DEF StackStep
    <3>1. Handled
      BY <2>3, HandledBefore
    <3>2. /\ "stale" \notin notes /\ Datas(ir_code) /\ Datas(top.values)
          /\ top.base \in Nat
          /\ "discarded" \notin notes => top.base = 0 /\ Len(ir_code) <= 1
      BY <3>1, StackFact
    <3>3. top.base < Len(ir_code) \/ "return" \in notes
      <4>1. top = Last(visits) /\ Left(visits, Len(ir_code), notes)
        BY <3>1, TopFacts DEF StackInv
      <4> QED
        BY <4>1, <1>1, <1>10, <1>12 DEF Left
    <3>4. "return" \in notes => "discarded" \notin notes
      BY <3>1 DEF Handled
    <3> DEFINE n == Len(ir_code)
               n2 == Len(ir_code')
               b == top.base
    <3>5. /\ n \in Nat /\ n >= 1 /\ n2 = n - 1 /\ b \in Nat
          /\ b < n \/ "discarded" \notin notes
          /\ "discarded" \notin notes => b = 0 /\ n <= 1
      BY <3>2, <3>3, <3>4, <2>2, <2>3
    <3> HIDE DEF n, n2, b
    <3>6. "discarded" \notin notes => n = 1 /\ b = 0
      BY <3>5
    <3>7. b < n /\ b <= b /\ b <= n2 /\ ("discarded" \notin notes => b = 0 /\ n2 = 0)
      BY <3>5, <3>6
    <3>8. Stale = {}
      BY <3>7, <3>5 DEF Stale, n, b
    <3>9. "discarded" \notin notes' => n2 <= 1 /\ n2 = 0 /\ b = 0
      BY <3>7, <2>3
    <3>10. "stale" \notin notes' /\ Datas(ir_code') /\ Datas(w.values)
      BY <3>2, <3>8, <2>1, <2>2, <2>3, <1>3
    <3> QED
      BY <3>7, <3>9, <3>10, <1>3 DEF n2, b
  <2> QED
    BY <2>2, <2>3, <2>4
<1>13. StackStep(top, w) /\ notes \subseteq notes' /\ ir_code' \in Seq(Value)
  BY <1>1, <1>11, <1>12
<1>14. TypeInv'
  <2>1. at' \in DOMAIN code' /\ regs' \in Nat /\ current_type' \in Types
    BY <1>1, <1>2, <1>9 DEF TypeInv
  <2> QED
    BY <2>1, <1>1, <1>2, <1>9, <1>13, TypesKept
<1>15. TopStep(w)
  BY <1>1, <1>2, <1>3, <1>4, <1>5, <1>6, <1>9, <1>13 DEF TopStep, VisitorGoes
<1>16. TopCode(w)
  <2> SUFFICES ASSUME Handled'
               PROVE  Keeps(top, w) /\ at' \notin Pending(w)
    BY <1>1, <1>3, <1>5, <1>9 DEF TopCode
  <2>1. PendingParts(w) = {}
    BY <1>5 DEF PendingParts
  <2> QED
    BY <2>1 DEF Keeps, Pending
<1> QED
  BY <1>13, <1>14, <1>15, <1>16, TopKeepsInv

-----------------------------------------------------------------------------
(* The visit of a node ends, and that of the node below goes on, which has   *)
(* become p. *)

LeavesStack(p) ==
    Handled' =>
        /\ "stale" \notin notes' /\ Datas(ir_code')
        /\ ExprPart(p) /\ Valued(p) => current_type' \in Data
        /\ below.base <= p.base /\ p.base <= Len(ir_code')
        /\ Valued(p) => p.base < Len(ir_code') \/ (MayReturn(p) /\ "return" \in notes')
        /\ "discarded" \notin notes' =>
              p.base = 0 /\ Len(ir_code') <= 1 /\ (Len(ir_code') = 0 \/ MayLeave(p))

LeavesCode ==
    Handled' =>
        /\ Open(code', at') \/ Returned'
        /\ \A b \in DOMAIN code : b # at /\ b \notin Pending(top) => code'[b] = code[b]
        /\ at' = at \/ at' \in Pending(top)

(* But for its base and its variables, p is the node below. *)
StaysBelow(p, new) ==
    /\ Local(p, unit, unit[item].ret, DOMAIN code)
    /\ SameVisit(below, p)
    /\ p.trees = below.trees /\ p.after = below.after /\ p.values = below.values
    /\ p.blocks = below.blocks /\ p.last = below.last
    /\ p.declared \subseteq below.declared \cup new

KnowsNew(new) ==
    /\ \A id \in DOMAIN scope_manager \ new : /\ id \in DOMAIN scope_manager'
                                              /\ scope_manager'[id] = scope_manager[id]
    /\ \A id \in new : id \in DOMAIN scope_manager' /\ scope_manager'[id] \in Value
    /\ Handled' => \A id \in new : TypeOf(scope_manager'[id]) \in Data

LEMMA EndsKeepInv ==
    ASSUME IInv, TypeInv', visits # <<>>, top.node # "fn", notes \subseteq notes',
           unit' = unit, item' = item, NEW p, NEW tree, NEW new,
           Ends(visits, visits', GivenTree(p, tree)), StaysBelow(p, new), KnowsNew(new),
           DOMAIN code' = DOMAIN code, at' \in DOMAIN code, LeavesStack(p), LeavesCode
    PROVE  IInv'
<1> USE DEF IInv
<1> DEFINE w == GivenTree(p, tree)
<1>1. /\ Local(p, unit, unit[item].ret, DOMAIN code) /\ SameVisit(below, p)
      /\ p.trees = below.trees /\ p.after = below.after /\ p.values = below.values
      /\ p.blocks = below.blocks /\ p.last = below.last
      /\ p.declared \subseteq below.declared \cup new
  BY DEF StaysBelow
<1>2. /\ below.node \notin {"block", "fn"} => ~below.after
      /\ below.node = "if" => Len(below.trees) < Len(below.blocks)
  BY BelowReady
<1>3. p.node = below.node /\ p.branches = below.branches
  BY <1>1 DEF SameVisit
<1>4. /\ p.node \notin {"block", "fn"} => ~p.after
      /\ p.node = "if" => Len(p.trees) < Len(p.blocks)
  BY <1>1, <1>2, <1>3
<1>5. /\ Local(w, unit, unit[item].ret, DOMAIN code)
      /\ Keeps(p, w) /\ SameVisit(p, w)
      /\ Valued(w) <=> Valued(p)
      /\ ExprPart(w) <=> ExprPart(p)
      /\ w.after /\ w.values = p.values
      /\ w.last = p.last /\ w.base = p.base
      /\ w.declared = p.declared
  BY <1>1, <1>4, GivenTreeLocal
<1> HIDE DEF w
<1>6. SameVisit(below, w)
  BY <1>1, <1>5 DEF SameVisit
<1>7. Keeps(below, w)
  <2>1. Part(p) = Part(below)
    BY <1>1 DEF Part
  <2>2. PendingParts(p) = PendingParts(below)
    BY <1>1, <1>3, <2>1 DEF PendingParts
  <2> QED
    BY <1>1, <1>5, <2>2 DEF Keeps
<1>8. EndStep(w, new)
  BY <1>1, <1>5, <1>6 DEF EndStep, VisitorGoes, w, KnowsNew
<1>9. w.node = p.node /\ w.tail = p.tail
  BY <1>5 DEF SameVisit
<1>10. EndStack(w, new)
  <2>1. Handled' => Datas(w.values)
    <3> SUFFICES ASSUME Handled' PROVE Datas(w.values)
      OBVIOUS
    <3>1. Handled
      BY HandledBefore
    <3>2. Datas(below.values)
      BY <3>1, BelowStack
    <3> QED
      BY <3>2, <1>1, <1>5
  <2>2. MayReturn(w) <=> MayReturn(p)
    BY <1>9 DEF MayReturn
  <2>3. MayLeave(w) <=> MayLeave(p)
    BY <1>5, <1>9 DEF MayLeave
  <2>4. StackStep(below, w)
    BY <1>5, <2>1, <2>2, <2>3 DEF StackStep, LeavesStack
  <2> QED
    BY <2>4 DEF EndStack, KnowsNew
<1>11. EndCode(w)
  BY <1>7 DEF EndCode, LeavesCode
<1> QED
  BY <1>8, <1>10, <1>11, EndKeepsInv

LEMMA ReturnsKeepInv ==
    ASSUME IInv, visits # <<>>, top.node # "fn", notes \subseteq notes', NEW tree, Returns(tree),
           unit' = unit, stage' = stage, item' = item, types' = types,
           scope_manager' = scope_manager,
           ir_code' \in Seq(Value), current_type' \in Types, CodeType(code'),
           DOMAIN code' = DOMAIN code, at' \in DOMAIN code, regs' \in Nat,
           LeavesStack(below), LeavesCode
    PROVE  IInv'
<1> USE DEF IInv
<1>1. TypeInv'
  BY TypesKept
<1>2. IsSeq(visits) /\ Len(visits) >= 2 /\ VisitType(below)
      /\ Local(below, unit, unit[item].ret, DOMAIN code)
  BY TopFacts, BelowReady
<1>3. Ends(visits, visits', GivenTree(below, tree))
  BY <1>2, ReturnLeaves DEF Returns, below
<1>4. StaysBelow(below, {})
  BY <1>2 DEF StaysBelow, SameVisit
<1>5. KnowsNew({})
  BY DEF KnowsNew
<1> QED
  BY <1>1, <1>3, <1>4, <1>5, EndsKeepInv

-----------------------------------------------------------------------------
(* Expressions, whose value is there when their visit ends. *)

ValueLeft ==
    Handled' =>
        /\ "stale" \notin notes' /\ Datas(ir_code')
        /\ Valued(below) => current_type' \in Data /\ top.base < Len(ir_code')
        /\ top.base <= Len(ir_code')
        /\ "discarded" \notin notes' => Len(ir_code') <= 1

LEMMA ExprEndKeepsInv ==
    ASSUME IInv, visits # <<>>, top.node \in ExprNodes, notes \subseteq notes', NEW tree,
           Returns(tree),
           unit' = unit, stage' = stage, item' = item, types' = types,
           scope_manager' = scope_manager,
           ir_code' \in Seq(Value), current_type' \in Types, CodeType(code'),
           DOMAIN code' = DOMAIN code, at' \in DOMAIN code, regs' \in Nat,
           ValueLeft, LeavesCode
    PROVE  IInv'
<1> USE DEF IInv
<1>1. top.node # "fn"
  BY DEF ExprNodes
<1>2. ExprPart(below)
  BY <1>1, BelowReady DEF Linked
<1>3. MayLeave(below)
  BY <1>2 DEF MayLeave, ExprPart, Valued
<1>4. LeavesStack(below)
  <2> SUFFICES ASSUME Handled'
               PROVE  /\ "stale" \notin notes' /\ Datas(ir_code')
                      /\ Valued(below) => current_type' \in Data
                      /\ below.base <= Len(ir_code') /\ below.base <= below.base
                      /\ Valued(below) => below.base < Len(ir_code')
                      /\ "discarded" \notin notes' => below.base = 0 /\ Len(ir_code') <= 1
    BY <1>3 DEF LeavesStack
  <2>1. Handled
    BY HandledBefore
  <2>2. /\ below.base \in Nat /\ below.base <= top.base
        /\ "discarded" \notin notes => below.base = 0
    BY <1>1, <2>1, BelowStack
  <2>3. top.base \in Nat
    BY <2>1, StackFact
  <2>4. /\ "stale" \notin notes' /\ Datas(ir_code')
        /\ Valued(below) => current_type' \in Data /\ top.base < Len(ir_code')
        /\ top.base <= Len(ir_code')
        /\ "discarded" \notin notes' => Len(ir_code') <= 1
    BY DEF ValueLeft
  <2>5. Len(ir_code') \in Nat
    BY LenProperties
  <2> DEFINE n == Len(ir_code')
             b == below.base
             t == top.base
  <2>6. b \in Nat /\ t \in Nat /\ n \in Nat /\ b <= t /\ t <= n
    BY <2>2, <2>3, <2>4, <2>5
  <2>7. Valued(below) => t < n
    BY <2>4
  <2> HIDE DEF n, b, t
  <2>8. b <= n /\ b <= b
    BY <2>6
  <2>9. Valued(below) => b < n
    BY <2>6, <2>7
  <2> QED
    BY <2>2, <2>4, <2>8, <2>9 DEF n, b, t
<1> QED
  BY <1>1, <1>4, ReturnsKeepInv

(* With the value of the last part taken from the stack and one put there.   *)
LEMMA ValueReplaced ==
    ASSUME IInv, visits # <<>>, top.node \in ExprNodes, top.after, notes \subseteq notes',
           ir_code # <<>>, NEW v \in Value, ir_code' = Append(Front(ir_code), v),
           "stale" \in notes' => "stale" \in notes \cup Stale,
           Handled' => current_type' \in Data /\ TypeOf(v) \in Data
    PROVE  ir_code' \in Seq(Value) /\ ValueLeft
<1> USE DEF IInv
<1> DEFINE n == Len(ir_code)
           t == top.base
<1>1. /\ Front(ir_code) \in Seq(Value) /\ Len(Front(ir_code)) = n - 1
      /\ Datas(ir_code) => Datas(Front(ir_code))
  BY PopFacts
<1>2. /\ ir_code' \in Seq(Value) /\ Len(ir_code') = Len(Front(ir_code)) + 1
      /\ Datas(Front(ir_code)) /\ TypeOf(v) \in Data => Datas(ir_code')
  BY <1>1, DatasAppend
<1>3. n \in Nat
  BY LenProperties DEF TypeInv
<1> DEFINE m == Len(ir_code')
           f == Len(Front(ir_code))
<1>4. f = n - 1 /\ m = f + 1
  BY <1>1, <1>2
<1> HIDE DEF n, m, f
<1>5. m = n
  BY <1>3, <1>4
<1>6. ValueLeft
  <2> SUFFICES ASSUME Handled'
               PROVE  /\ "stale" \notin notes' /\ Datas(ir_code')
                      /\ current_type' \in Data /\ t < m /\ t <= m
                      /\ "discarded" \notin notes' => m <= 1
    BY DEF ValueLeft, m
  <2>1. Handled
    BY HandledBefore
  <2>2. Valued(top) /\ top.node \notin {"fn", "block"}
    BY DEF Valued, ExprNodes
  <2>3. Stale = {} /\ t < n
    BY <2>1, <2>2, NotStale DEF n
  <2>4. /\ "stale" \notin notes /\ Datas(ir_code) /\ t \in Nat
        /\ "discarded" \notin notes => n <= 1
    BY <2>1, StackFact DEF n
  <2> HIDE DEF t
  <2>5. t < m /\ t <= m
    BY <2>3, <2>4, <1>3, <1>5
  <2>6. "discarded" \notin notes' => m <= 1
    BY <2>4, <1>5
  <2> QED
    BY <2>3, <2>4, <2>5, <2>6, <1>1, <1>2
<1> QED
  BY <1>2, <1>6

(* The builder stays where it is and adds i, or nothing. *)
LEMMA CodeStaysIn ==
    ASSUME IInv, visits # <<>>, top.node \notin {"fn", "block"}, notes \subseteq notes',
           NEW i \in InstrSet, ToSet(i.blocks) \subseteq DOMAIN code, i.op \notin Terminators,
           code' = Emit(<<i>>) \/ code' = code, at' = at
    PROVE  /\ CodeType(code') /\ DOMAIN code' = DOMAIN code /\ at' \in DOMAIN code
           /\ LeavesCode
<1> USE DEF IInv
<1>1. at \in DOMAIN code /\ CodeType(code)
  BY TopFacts DEF TypeInv
<1>3. /\ CodeType(Emit(<<i>>))
      /\ DOMAIN Emit(<<i>>) = DOMAIN code
      /\ Grows(code, Emit(<<i>>), at)
      /\ Emit(<<i>>)[at] # <<>> /\ Last(Emit(<<i>>)[at]) = i
  BY <1>1, EmitsOne
<1>4. Grows(code, code, at)
  BY DEF Grows
<1>5. /\ CodeType(code') /\ DOMAIN code' = DOMAIN code /\ Grows(code, code', at)
      /\ code' = code \/ Open(code', at)
  BY <1>1, <1>3, <1>4 DEF Open
<1>6. Handled' => Open(code', at)
  <2> SUFFICES ASSUME Handled' PROVE Open(code, at)
    BY <1>5
  <2> QED
    BY HandledBefore, IsOpen
<1>7. \A b \in DOMAIN code : b # at => code'[b] = code[b]
  BY <1>5 DEF Grows
<1> QED
  BY <1>1, <1>5, <1>6, <1>7 DEF LeavesCode

LEMMA CodeStays ==
    ASSUME IInv, visits # <<>>, top.node \in ExprNodes, notes \subseteq notes',
           NEW i \in InstrSet, i.blocks = <<>>, i.op \notin Terminators,
           code' = Emit(<<i>>) \/ code' = code, at' = at
    PROVE  /\ CodeType(code') /\ DOMAIN code' = DOMAIN code /\ at' \in DOMAIN code
           /\ LeavesCode
<1>1. ToSet(i.blocks) \subseteq DOMAIN code
  BY NoBlocks
<1>2. top.node \notin {"fn", "block"}
  BY DEF ExprNodes
<1> QED
  BY <1>1, <1>2, CodeStaysIn

LEMMA UnaryEndKeepsInv ==
    ASSUME IInv, visits # <<>>, UnaryEnd
    PROVE  IInv'
<1> USE DEF IInv
<1> DEFINE phi == NewReg("float")
           i == Instr("fsub", phi, <<Popped, Const(0, "float")>>, <<>>)
           v == IF top.op = "negate" THEN phi ELSE Popped
<1>1. /\ unit' = unit /\ stage' = stage /\ item' = item /\ scope_manager' = scope_manager
      /\ types' = types /\ at' = at
      /\ top.node = "unary" /\ top.after /\ ir_code # <<>>
      /\ notes' = notes \cup Stale
      /\ Returns(<<"unary", top.op, top.trees[1]>>)
  BY DEF UnaryEnd, At, PartDone, Within, Goes, Runs, Pops, Note
<1>2. /\ top.op = "negate" => /\ ir_code' = Front(ir_code) \o <<phi>>
                              /\ code' = Emit(<<i>>) /\ regs' = regs + 1
                              /\ current_type' = "float"
      /\ top.op # "negate" => /\ ir_code' = Front(ir_code) \o <<Popped>>
                              /\ code' = code /\ regs' = regs /\ current_type' = current_type
  BY DEF UnaryEnd, Pops
<1>3. /\ TypeInv /\ VisitType(top) /\ regs \in Nat /\ current_type \in Types
  BY TopFacts DEF Local, TypeInv
<1>4. phi \in Value /\ TypeOf(phi) = "float"
  BY <1>3, NewRegIs, ValueFacts
<1>5. Popped \in Value /\ Popped \in Values /\ Front(ir_code) \in Seq(Value)
  BY <1>1, <1>3, PopFacts
<1>6. i \in InstrSet /\ i.blocks = <<>> /\ i.op \notin Terminators
  <2>1. <<Popped, Const(0, "float")>> \in Seq(Values) /\ <<>> \in Seq(Nat) /\ "fsub" \in InstrOps
    BY <1>5, ValueFacts DEF InstrOps
  <2> QED
    BY <2>1, <1>4 DEF Instr, InstrSet, Terminators
<1> HIDE DEF phi, i
<1>7. v \in Value /\ ir_code' = Append(Front(ir_code), v)
  <2>1. v \in Value /\ ir_code' = Front(ir_code) \o <<v>>
    BY <1>2, <1>4, <1>5
  <2> HIDE DEF v
  <2> QED
    BY <2>1, <1>5, DatasAppend
<1>8. code' = Emit(<<i>>) \/ code' = code
  BY <1>2
<1>9. notes \subseteq notes' /\ top.node \in ExprNodes
  BY <1>1 DEF ExprNodes
<1>10. Handled' => current_type' \in Data /\ TypeOf(v) \in Data
  <2> SUFFICES ASSUME Handled' PROVE current_type' \in Data /\ TypeOf(v) \in Data
    OBVIOUS
  <2>1. Handled
    BY <1>9, HandledBefore
  <2>2. "float" \in Data
    BY DEF Data
  <2>3. ExprPart(top) /\ Valued(top)
    BY <1>9 DEF ExprPart, Valued
  <2>4. current_type \in Data /\ Datas(ir_code)
    BY <1>1, <2>1, <2>3, StackFact
  <2>5. TypeOf(Popped) \in Data
    BY <1>1, <1>3, <2>4, PopFacts
  <2> QED
    BY <2>2, <2>4, <2>5, <1>2, <1>4
<1> HIDE DEF v
<1>11. ir_code' \in Seq(Value) /\ ValueLeft
  BY <1>1, <1>7, <1>9, <1>10, ValueReplaced
<1>12. CodeType(code') /\ DOMAIN code' = DOMAIN code /\ at' \in DOMAIN code /\ LeavesCode
  BY <1>1, <1>6, <1>8, <1>9, CodeStays
<1>13. current_type' \in Types /\ regs' \in Nat
  BY <1>2, <1>3, ValueFacts
<1> QED
  BY <1>1, <1>9, <1>11, <1>12, <1>13, ExprEndKeepsInv

LEMMA BinaryEndKeepsInv ==
    ASSUME IInv, visits # <<>>, BinaryEnd
    PROVE  IInv'
<1> USE DEF IInv
<1> DEFINE left == top.values[1]
           i == BinaryInstr(top.op, left, Popped)
           def == NewReg(ResultOf(top.op))
<1>1. /\ unit' = unit /\ stage' = stage /\ item' = item /\ scope_manager' = scope_manager
      /\ types' = types /\ at' = at
      /\ top.node = "binary" /\ top.after /\ ir_code # <<>> /\ Len(top.trees) = 2
      /\ code' = Emit(<<i>>) /\ ir_code' = Append(Front(ir_code), i.def)
      /\ notes \cup Stale \subseteq notes'
      /\ notes' \subseteq notes \cup Stale \cup {"bool_inequality"}
      /\ regs' = regs + 1 /\ current_type' = ResultOf(top.op)
      /\ Returns(<<"binary", top.op, top.trees[1], top.trees[2]>>)
  BY DEF BinaryEnd, At, PartDone, Within, Goes, Runs, Note
<1>2. /\ TypeInv /\ VisitType(top) /\ regs \in Nat /\ ExprParts(top)
  BY TopFacts DEF Local, TypeInv
<1>3. ResultOf(top.op) \in Data
  BY DEF ResultOf, Data
<1>4. def \in Value /\ TypeOf(def) = ResultOf(top.op)
  <2>1. ResultOf(top.op) \in Types
    BY <1>3 DEF Types
  <2> QED
    BY <2>1, <1>2, NewRegIs
<1>5. Popped \in Value /\ Popped \in Values /\ Front(ir_code) \in Seq(Value)
  BY <1>1, <1>2, PopFacts
<1>6. top.op \in {"add", "sub", "less", "unequal", "equal"}
  BY <1>1, <1>2 DEF ExprParts, BinaryOps, Arithmetic
<1>7. left \in Values
  <2>1. top.values \in Seq(Value)
    BY <1>2 DEF VisitType
  <2>2. Len(top.values) = Part(top) /\ Part(top) = Len(top.trees) - 1
    BY <1>1, <1>2 DEF ExprParts, ExprNodes, Part
  <2>3. Len(top.values) = 1
    BY <2>2, <1>1
  <2>4. DOMAIN top.values = 1..1
    BY <2>1, <2>3, LenProperties
  <2>5. 1 \in DOMAIN top.values
    BY <2>4
  <2>6. left \in Value
    BY <2>1, <2>5, LenProperties, ElementOfSeq
  <2> QED
    BY <2>6, ValueFacts
<1>8. i \in InstrSet /\ i.blocks = <<>> /\ i.op \notin Terminators /\ i.def = def
  <2> DEFINE op == CASE top.op = "add" -> "fadd" [] top.op = "sub" -> "fsub"
            [] top.op = "less" -> "fcmp_olt" [] top.op = "unequal" -> "fcmp_one"
            [] top.op = "equal" -> IF TypeOf(left) = "float" THEN "fcmp_oeq" ELSE "icmp_eq"
  <2>1. op \in {"fadd", "fsub", "fcmp_olt", "fcmp_one", "fcmp_oeq", "icmp_eq"}
    <3> HIDE DEF left
    <3> QED
      BY <1>6
  <2>2. i = Instr(op, def, <<left, Popped>>, <<>>)
    BY DEF BinaryInstr
  <2> HIDE DEF op, left, def, i
  <2>3. op \in InstrOps /\ op \notin Terminators
    BY <2>1 DEF InstrOps, Terminators
  <2>4. <<left, Popped>> \in Seq(Values) /\ <<>> \in Seq(Nat)
    BY <1>5, <1>7
  <2> QED
    BY <2>2, <2>3, <2>4, <1>4 DEF Instr, InstrSet
<1> HIDE DEF def, i
<1>9. notes \subseteq notes' /\ top.node \in ExprNodes
  BY <1>1 DEF ExprNodes
<1>10. Handled' => current_type' \in Data /\ TypeOf(def) \in Data
  BY <1>1, <1>3, <1>4
<1>11. ir_code' \in Seq(Value) /\ ValueLeft
  <2>1. ir_code' = Append(Front(ir_code), def)
    BY <1>1, <1>8
  <2>2. "stale" \in notes' => "stale" \in notes \cup Stale
    BY <1>1
  <2> QED
    BY <2>1, <2>2, <1>1, <1>4, <1>9, <1>10, ValueReplaced
<1>12. CodeType(code') /\ DOMAIN code' = DOMAIN code /\ at' \in DOMAIN code /\ LeavesCode
  BY <1>1, <1>8, <1>9, CodeStays
<1>13. current_type' \in Types /\ regs' \in Nat
  BY <1>1, <1>2, <1>3 DEF Types
<1> QED
  BY <1>1, <1>9, <1>11, <1>12, <1>13, ExprEndKeepsInv

LEMMA CallEndKeepsInv ==
    ASSUME IInv, visits # <<>>, CallEnd
    PROVE  IInv'
<1> USE DEF IInv
<1> DEFINE ret == unit[top.fn].ret
           result == IF ret = "()" THEN NoReg ELSE NewReg(ret)
           fn_ref == scope_manager[FnId(top.fn)]
           i == Instr("call", result, <<fn_ref>> \o top.values, <<>>)
           n == Len(ir_code)
           tree == <<"call", top.fn, [p \in ToSet(top.args) |->
                           top.trees[Cardinality(ArgsBefore(top.args, p)) + 1]]>>
<1>1. /\ unit' = unit /\ stage' = stage /\ item' = item /\ scope_manager' = scope_manager
      /\ types' = types /\ at' = at
      /\ top.node = "call" /\ ~top.after /\ FnId(top.fn) \in DOMAIN scope_manager
      /\ code' = Emit(<<i>>) /\ ir_code' = ir_code \o CallLeaves(result)
      /\ regs' = IF ret = "()" THEN regs ELSE regs + 1
      /\ current_type' = ret
      /\ Returns(tree)
  BY DEF CallEnd, CallReady, Within, Goes, Runs
<1>2. /\ notes \subseteq notes' /\ notes' \subseteq notes \cup {"misused_call"}
      /\ "misused_call" \notin notes' => ret \in top.want
  BY DEF CallEnd, Note
<1> HIDE DEF tree
<1>3. /\ TypeInv /\ VisitType(top) /\ regs \in Nat /\ CallOK(top, unit) /\ ir_code \in Seq(Value)
      /\ \A id \in DOMAIN scope_manager : scope_manager[id] \in Values
  BY TopFacts DEF Local, TypeInv
<1>4. ret \in Types
  BY <1>1, <1>3 DEF CallOK, Signature
<1>5. /\ result \in Value /\ (ret = "()" => TypeOf(result) = "()")
      /\ (ret # "()" => TypeOf(result) = ret)
  <2>1. NoReg \in Value /\ TypeOf(NoReg) = "()"
    BY ValueFacts DEF NoReg
  <2>2. NewReg(ret) \in Value /\ TypeOf(NewReg(ret)) = ret
    BY <1>3, <1>4, NewRegIs
  <2> QED
    BY <2>1, <2>2
<1>6. fn_ref \in Values
  BY <1>1, <1>3
<1> HIDE DEF ret, result, fn_ref
<1>7. i \in InstrSet /\ i.blocks = <<>> /\ i.op \notin Terminators
  <2>1. top.values \in Seq(Values)
    BY <1>3, ValueFacts, SeqMonotonic DEF VisitType
  <2>2. <<fn_ref>> \in Seq(Values)
    BY <1>6
  <2>3. <<fn_ref>> \o top.values \in Seq(Values)
    BY <2>1, <2>2, ConcatProperties
  <2>4. "call" \in InstrOps /\ "call" \notin Terminators /\ <<>> \in Seq(Nat)
    BY DEF InstrOps, Terminators
  <2> QED
    BY <2>3, <2>4, <1>5 DEF Instr, InstrSet
<1> HIDE DEF i
<1>8. top.node \in ExprNodes
  BY <1>1 DEF ExprNodes
<1>9. n \in Nat
  BY <1>3, LenProperties
<1>10. CASE ret = "()"
  <2>1. ir_code' = ir_code
    <3>1. CallLeaves(result) = <<>>
      BY <1>5, <1>10 DEF CallLeaves
    <3> QED
      BY <3>1, <1>1, <1>3
  <2>2. ValueLeft
    <3> SUFFICES ASSUME Handled'
                 PROVE  /\ "stale" \notin notes' /\ Datas(ir_code)
                        /\ ~Valued(below)
                        /\ top.base <= Len(ir_code)
                        /\ "discarded" \notin notes' => Len(ir_code) <= 1
      BY <2>1 DEF ValueLeft
    <3>1. Handled
      BY <1>2, HandledBefore
    <3>2. /\ "stale" \notin notes /\ Datas(ir_code) /\ top.base <= Len(ir_code)
          /\ "discarded" \notin notes => Len(ir_code) <= 1
      BY <3>1, StackFact
    <3>3. ret \in top.want
      BY <1>2 DEF Handled
    <3>4. Valued(below) => top.want \subseteq Data
      BY <1>1, <3>1, BelowStack
    <3>5. "()" \notin Data
      BY DEF Data
    <3> QED
      BY <1>2, <1>10, <3>2, <3>3, <3>4, <3>5
  <2>3. CodeType(code') /\ DOMAIN code' = DOMAIN code /\ at' \in DOMAIN code /\ LeavesCode
    BY <1>1, <1>2, <1>7, <1>8, CodeStays
  <2>4. ir_code' \in Seq(Value) /\ current_type' \in Types /\ regs' \in Nat
    BY <1>1, <1>3, <1>4, <1>10, <2>1
  <2> QED
    BY <1>1, <1>2, <1>8, <2>2, <2>3, <2>4, ExprEndKeepsInv
<1>11. CASE ret # "()"
  <2>1. ir_code' = Append(ir_code, result)
    <3>1. CallLeaves(result) = <<result>>
      BY <1>5, <1>11 DEF CallLeaves
    <3> QED
      BY <3>1, <1>1, <1>3, <1>5, DatasAppend
  <2>2. /\ ir_code' \in Seq(Value) /\ Len(ir_code') = n + 1
        /\ Datas(ir_code) /\ TypeOf(result) \in Data => Datas(ir_code')
    BY <2>1, <1>3, <1>5, DatasAppend
  <2>3. ret \in Data
    BY <1>4, <1>11 DEF Types
  <2> DEFINE m == Len(ir_code')
             t == top.base
  <2>4. m = n + 1
    BY <2>2
  <2>5. ValueLeft
    <3> SUFFICES ASSUME Handled'
                 PROVE  /\ "stale" \notin notes' /\ Datas(ir_code')
                        /\ current_type' \in Data /\ t < m
                        /\ t <= m
                        /\ "discarded" \notin notes' => m <= 1
      BY DEF ValueLeft
    <3>1. Handled
      BY <1>2, HandledBefore
    <3>2. /\ "stale" \notin notes /\ Datas(ir_code) /\ t \in Nat /\ t = n
          /\ "discarded" \notin notes => n = 0
      BY <3>1, <1>1, StackFact
    <3> HIDE DEF n, m, t
    <3>3. t < m /\ t <= m
      BY <2>4, <3>2, <1>9
    <3>4. "discarded" \notin notes' => m <= 1
      BY <2>4, <3>2, <1>2
    <3> QED
      BY <1>1, <1>2, <1>5, <1>11, <2>2, <2>3, <3>2, <3>3, <3>4
  <2>6. CodeType(code') /\ DOMAIN code' = DOMAIN code /\ at' \in DOMAIN code /\ LeavesCode
    BY <1>1, <1>2, <1>7, <1>8, CodeStays
  <2>7. current_type' \in Types /\ regs' \in Nat
    BY <1>1, <1>3, <1>4
  <2> QED
    BY <1>1, <1>2, <1>8, <2>2, <2>5, <2>6, <2>7, ExprEndKeepsInv
<1> QED
  BY <1>10, <1>11

(* A basic block is given instructions, whatever it had. *)
LEMMA Replaced ==
    ASSUME NEW c, CodeType(c), NEW a \in DOMAIN c, NEW is \in Seq(InstrSet),
           \A i \in DOMAIN is : ToSet(is[i].blocks) \subseteq DOMAIN c,
           NEW c2, c2 = [c EXCEPT ![a] = is]
    PROVE  /\ CodeType(c2)
           /\ DOMAIN c2 = DOMAIN c
           /\ \A b \in DOMAIN c \ {a} : c2[b] = c[b]
           /\ c2[a] = is
<1>1. c \in Seq(Seq(InstrSet)) /\ DOMAIN c = 1..Len(c) /\ a \in 1..Len(c)
  BY LenProperties DEF CodeType
<1>2. /\ c2 \in Seq(Seq(InstrSet)) /\ Len(c2) = Len(c)
      /\ \A b \in 1..Len(c) : c2[b] = IF b = a THEN is ELSE c[b]
  BY <1>1, ExceptSeq
<1>3. DOMAIN c2 = DOMAIN c
  BY <1>1, <1>2, LenProperties
<1>4. ASSUME NEW b \in DOMAIN c2, NEW i \in DOMAIN c2[b]
      PROVE  ToSet(c2[b][i].blocks) \subseteq DOMAIN c2
  <2>1. CASE b = a
    BY <2>1, <1>1, <1>2, <1>3
  <2>2. CASE b # a
    <3>1. c2[b] = c[b] /\ b \in DOMAIN c
      BY <2>2, <1>1, <1>2, <1>3
    <3> QED
      BY <3>1, <1>3 DEF CodeType
  <2> QED
    BY <2>1, <2>2
<1> QED
  BY <1>1, <1>2, <1>3, <1>4 DEF CodeType

(* The builder is at the end of the if expression, where the values meet.    *)
LEMMA IfExprElseKeepsInv ==
    ASSUME IInv, visits # <<>>, IfExprElse
    PROVE  IInv'
<1> USE DEF IInv
<1> DEFINE phi == NewReg(current_type)
           end == top.blocks[3]
           first == top.blocks[4]
           then == top.values[2]
           br == Instr("br", NoReg, <<>>, <<end>>)
           i == Instr("phi", phi, <<then, Popped>>, <<first, at>>)
           e == Emit(<<br>>)
           tree == <<"if_expr", top.trees[1], top.trees[2], top.trees[3]>>
<1>1. /\ unit' = unit /\ stage' = stage /\ item' = item /\ scope_manager' = scope_manager
      /\ types' = types /\ current_type' = current_type
      /\ top.node = "if_expr" /\ top.after /\ Len(top.trees) = 3 /\ ir_code # <<>>
      /\ ir_code' = Append(Front(ir_code), phi)
      /\ code' = [e EXCEPT ![end] = <<i>>] /\ at' = end
      /\ notes \cup Stale \subseteq notes'
      /\ notes' \subseteq notes \cup Stale \cup {"unequal_branches"}
      /\ regs' = regs + 1
      /\ Returns(tree)
  BY DEF IfExprElse, At, PartDone, Within, Goes, Runs, Note, Position
<1> HIDE DEF tree
<1>2. /\ TypeInv /\ VisitType(top) /\ regs \in Nat /\ ExprParts(top) /\ current_type \in Types
      /\ ToSet(top.blocks) \subseteq DOMAIN code /\ at \in DOMAIN code /\ CodeType(code)
  BY TopFacts DEF Local, TypeInv
<1>3. /\ top.values \in Seq(Value) /\ top.blocks \in Seq(Nat) /\ Len(top.trees) \in Nat
  BY <1>2, SeqItems DEF VisitType
<1>4. Part(top) = 2 /\ Len(top.values) = 2 /\ Len(top.blocks) = 4
  <2>1. Part(top) = 2
    BY <1>1, <1>3 DEF Part
  <2> QED
    BY <2>1, <1>1, <1>2 DEF ExprParts, ExprNodes
<1>5. /\ DOMAIN top.values = 1..2 /\ DOMAIN top.blocks = 1..4
      /\ \A k \in 1..2 : top.values[k] \in Value
      /\ \A k \in 1..4 : top.blocks[k] \in Nat
  BY <1>3, <1>4, LenProperties, ElementOfSeq
<1>6. /\ then \in Values /\ end \in Nat /\ first \in Nat
      /\ end \in DOMAIN code /\ first \in DOMAIN code
  <2>1. 2 \in 1..2 /\ 3 \in 1..4 /\ 4 \in 1..4
    OBVIOUS
  <2>2. end \in DOMAIN code /\ first \in DOMAIN code
    BY <2>1, <1>2, <1>5 DEF ToSet
  <2> QED
    BY <2>1, <2>2, <1>5, ValueFacts
<1>7. end \in Pending(top)
  <2>1. top.blocks # <<>>
    <3>1. Len(<<>>) = 0
      BY EmptySeq
    <3> QED
      BY <3>1, <1>4
  <2>2. PendingParts(top) = 3..3
    BY <2>1, <1>1, <1>4 DEF PendingParts
  <2> QED
    BY <2>2 DEF Pending
<1>8. phi \in Value /\ TypeOf(phi) = current_type
  BY <1>2, NewRegIs
<1>9. Popped \in Value /\ Popped \in Values /\ Front(ir_code) \in Seq(Value)
  BY <1>1, <1>2, PopFacts
<1>10. at \in Nat
  BY <1>2, LenProperties DEF CodeType
<1> HIDE DEF phi, end, first, then
<1>11. br \in InstrSet /\ br.blocks = <<end>>
  <2>1. <<>> \in Seq(Values) /\ <<end>> \in Seq(Nat) /\ "br" \in InstrOps
    BY <1>6 DEF InstrOps
  <2> QED
    BY <2>1, ValueFacts DEF Instr, InstrSet
<1>12. i \in InstrSet /\ i.blocks = <<first, at>> /\ i.op = "phi"
  <2>1. <<then, Popped>> \in Seq(Values) /\ <<first, at>> \in Seq(Nat) /\ "phi" \in InstrOps
    BY <1>6, <1>9, <1>10 DEF InstrOps
  <2> QED
    BY <2>1, <1>8 DEF Instr, InstrSet
<1> HIDE DEF br, i
<1>13. /\ CodeType(e) /\ DOMAIN e = DOMAIN code /\ Grows(code, e, at)
  <2>1. ToSet(br.blocks) \subseteq DOMAIN code
    BY <1>6, <1>11 DEF ToSet
  <2> QED
    BY <2>1, <1>2, <1>11, EmitsOne
<1> HIDE DEF e
<1>14. /\ CodeType(code') /\ DOMAIN code' = DOMAIN code
       /\ \A b \in DOMAIN code \ {end} : code'[b] = e[b]
       /\ code'[end] = <<i>>
  <2> DEFINE is == <<i>>
             c2 == code'
  <2>1. is \in Seq(InstrSet) /\ DOMAIN is = {1} /\ is[1] = i
    BY <1>12
  <2>2. ToSet(i.blocks) \subseteq DOMAIN e
    BY <1>2, <1>6, <1>12, <1>13 DEF ToSet
  <2>3. c2 = [e EXCEPT ![end] = is] /\ end \in DOMAIN e
    BY <1>1, <1>6, <1>13
  <2> HIDE DEF is, c2
  <2>4. \A k \in DOMAIN is : ToSet(is[k].blocks) \subseteq DOMAIN e
    BY <2>1, <2>2
  <2>5. /\ CodeType(c2) /\ DOMAIN c2 = DOMAIN e
        /\ \A b \in DOMAIN e \ {end} : c2[b] = e[b]
        /\ c2[end] = is
    BY <2>1, <2>3, <2>4, <1>13, Replaced
  <2> QED
    BY <2>5, <1>13 DEF is, c2
<1>15. notes \subseteq notes' /\ top.node \in ExprNodes
  BY <1>1 DEF ExprNodes
<1>16. LeavesCode
  <2>1. Open(code', end)
    <3>1. Last(<<i>>) = i
      BY DEF Last
    <3> QED
      BY <3>1, <1>12, <1>14 DEF Open, Terminators
  <2>2. ASSUME NEW b \in DOMAIN code, b # at, b \notin Pending(top)
        PROVE  code'[b] = code[b]
    BY <2>2, <1>7, <1>13, <1>14 DEF Grows
  <2> QED
    BY <2>1, <2>2, <1>1, <1>7 DEF LeavesCode
<1>17. Handled' => current_type' \in Data /\ TypeOf(phi) \in Data
  <2> SUFFICES ASSUME Handled' PROVE current_type \in Data
    BY <1>1, <1>8
  <2>1. Handled
    BY <1>15, HandledBefore
  <2>2. ExprPart(top) /\ Valued(top)
    BY <1>15 DEF ExprPart, Valued
  <2> QED
    BY <1>1, <2>1, <2>2, StackFact
<1>18. ir_code' \in Seq(Value) /\ ValueLeft
  <2>1. "stale" \in notes' => "stale" \in notes \cup Stale
    BY <1>1
  <2> QED
    BY <2>1, <1>1, <1>8, <1>15, <1>17, ValueReplaced
<1>19. current_type' \in Types /\ regs' \in Nat /\ at' \in DOMAIN code
  BY <1>1, <1>2, <1>6
<1> QED
  BY <1>1, <1>14, <1>15, <1>16, <1>18, <1>19, ExprEndKeepsInv

-----------------------------------------------------------------------------
(* Statements. *)

(* The value of a statement is that of the block that it ends. *)
LEMMA StatementOfBlock ==
    ASSUME VisitsInv, ShapeInv, visits # <<>>, top.node \in {"stmt", "if"}
    PROVE  /\ below.node = "block" /\ below.last = top.source
           /\ ~CondPart(below) /\ ~ExprPart(below)
           /\ Valued(below) <=> Sourced(top)
           /\ MayLeave(below) <=> Sourced(top)
<1>1. /\ below.node = "block" /\ below.last = top.source
      /\ top.source => top.want = below.want
  BY BelowReady DEF Linked
<1>2. below.last => below.source
  BY BelowFacts DEF Local, Flags
<1>3. ~CondPart(below) /\ ~ExprPart(below)
  BY <1>1 DEF CondPart, ExprPart, ExprNodes
<1>4. Valued(below) <=> Sourced(top)
  BY <1>1, <1>2, <1>3 DEF Valued, Sourced, ExprNodes
<1> QED
  BY <1>1, <1>3, <1>4 DEF MayLeave

LEMMA IfEndKeepsInv ==
    ASSUME IInv, visits # <<>>, IfEnd
    PROVE  IInv'
<1> USE DEF IInv
<1> DEFINE phi == NewReg(type_of)
           i == Instr("phi", phi, top.values, PhiBlocks)
           n == Len(ir_code)
           tree == <<"if", top.branches, top.trees>>
<1>1. /\ unit' = unit /\ stage' = stage /\ item' = item /\ scope_manager' = scope_manager
      /\ types' = types /\ at' = at /\ notes' = notes
      /\ top.node = "if" /\ ~top.after
      /\ top.source => /\ code' = Emit(<<i>>) /\ regs' = regs + 1
                       /\ ir_code' = Append(ir_code, phi) /\ current_type' = type_of
      /\ ~top.source => /\ code' = code /\ regs' = regs /\ ir_code' = ir_code
                        /\ current_type' = current_type
      /\ Returns(tree)
  BY DEF IfEnd, PartNext, Within, Goes, Runs
<1> HIDE DEF tree
<1>2. /\ TypeInv /\ VisitType(top) /\ regs \in Nat /\ current_type \in Types
      /\ Flags(top, unit[item].ret) /\ ir_code \in Seq(Value) /\ at \in DOMAIN code
      /\ CodeType(code)
  BY TopFacts DEF Local, TypeInv
<1>3. /\ top.source => type_of \in Types
      /\ Sourced(top) => type_of \in Data
  <2>1. top.source => \E type \in Types : top.want = {type}
    BY <1>2 DEF Flags
  <2> QED
    BY <2>1 DEF type_of, Sourced
<1>4. n \in Nat
  BY <1>2, LenProperties
<1>5. Handled /\ top.source => Sourced(top)
  BY <1>1, BelowStack
<1>6. /\ ~ExprPart(below) /\ (Valued(below) => top.source)
      /\ Handled /\ top.source => MayLeave(below)
  BY <1>1, <1>5, StatementOfBlock DEF Sourced
<1>7. /\ top.source => phi \in Value
      /\ Handled /\ top.source => TypeOf(phi) \in Data
  <2>1. top.source => phi \in Value /\ TypeOf(phi) = type_of
    BY <1>2, <1>3, NewRegIs
  <2> QED
    BY <2>1, <1>3, <1>5
<1>8. ASSUME top.source
      PROVE  PhiBlocks \in Seq(Nat) /\ ToSet(PhiBlocks) \subseteq DOMAIN code
  <2> DEFINE b == top.branches
             m == Len(top.blocks)
             f == [k \in 1..b |-> top.blocks[2 * k - 1]]
             l == top.blocks[m - 1]
  <2>1. /\ b \in Nat /\ m = 2 * b + 1 /\ b >= 1
        /\ \A k \in 1..m : top.blocks[k] \in Nat /\ top.blocks[k] \in DOMAIN code
    BY <1>1, <1>8, IfFacts
  <2> HIDE DEF b, m
  <2>2. m - 1 \in 1..m /\ \A k \in 1..b : 2 * k - 1 \in 1..m
    BY <2>1
  <2> DEFINE S == Nat \cap DOMAIN code
  <2>3. f \in [1..b -> S] /\ l \in S
    BY <2>1, <2>2
  <2>4. PhiBlocks = f \o <<l>>
    BY DEF PhiBlocks, b, m
  <2> HIDE DEF f, l, S
  <2>5. f \in Seq(S)
    BY <2>1, <2>3
  <2>6. <<l>> \in Seq(S)
    BY <2>3
  <2>7. PhiBlocks \in Seq(S)
    BY <2>4, <2>5, <2>6, ConcatProperties
  <2>8. \A k \in DOMAIN PhiBlocks : PhiBlocks[k] \in S
    BY <2>7, LenProperties, ElementOfSeq
  <2>9. S \subseteq Nat /\ S \subseteq DOMAIN code
    BY DEF S
  <2>10. PhiBlocks \in Seq(Nat)
    BY <2>7, <2>9, SeqMonotonic
  <2> QED
    BY <2>8, <2>9, <2>10 DEF ToSet
<1>9. CodeType(code') /\ DOMAIN code' = DOMAIN code /\ at' \in DOMAIN code /\ LeavesCode
  <2>1. CASE top.source
    <3>1. i \in InstrSet /\ i.blocks = PhiBlocks /\ i.op = "phi"
      <4>1. top.values \in Seq(Values)
        BY <1>2, ValueFacts, SeqMonotonic DEF VisitType
      <4>2. "phi" \in InstrOps
        BY DEF InstrOps
      <4> HIDE DEF phi
      <4> QED
        BY <4>1, <4>2, <1>7, <1>8, <2>1 DEF Instr, InstrSet
    <3> HIDE DEF i
    <3>2. i.op \notin Terminators /\ ToSet(i.blocks) \subseteq DOMAIN code
      BY <3>1, <1>8, <2>1 DEF Terminators
    <3> QED
      BY <3>1, <3>2, <1>1, <2>1, CodeStaysIn
  <2>2. CASE ~top.source
    <3>1. Handled' => Open(code', at)
      <4> SUFFICES ASSUME Handled' PROVE Open(code, at)
        BY <1>1, <2>2
      <4>1. Handled
        BY <1>1, HandledBefore
      <4> QED
        BY <4>1, <1>1, IsOpen
    <3> QED
      BY <3>1, <1>1, <1>2, <2>2 DEF LeavesCode
  <2> QED
    BY <2>1, <2>2, <1>2 DEF VisitType
<1> HIDE DEF phi, i
<1>10. /\ ir_code' \in Seq(Value)
       /\ top.source => /\ Len(ir_code') = n + 1
                        /\ Handled /\ Datas(ir_code) => Datas(ir_code')
  BY <1>1, <1>2, <1>7, DatasAppend
<1>11. LeavesStack(below)
  <2> DEFINE m == Len(ir_code')
             b == below.base
             t == top.base
  <2> SUFFICES ASSUME Handled'
               PROVE  /\ "stale" \notin notes' /\ Datas(ir_code')
                      /\ b <= b /\ b <= m
                      /\ top.source => b < m
                      /\ "discarded" \notin notes' => b = 0 /\ m <= 1 /\ (m = 0 \/ top.source)
    <3>1. notes \subseteq notes'
      BY <1>1
    <3>2. Handled' => Handled
      BY <3>1, HandledBefore
    <3> QED
      BY <3>2, <1>6 DEF LeavesStack
  <2>1. Handled
    BY <1>1, HandledBefore
  <2>2. /\ "stale" \notin notes /\ Datas(ir_code) /\ t \in Nat /\ t = n
        /\ "discarded" \notin notes => n = 0
    BY <2>1, <1>1, StackFact
  <2>3. /\ b \in Nat /\ b <= t
        /\ "discarded" \notin notes => b = 0
    BY <2>1, <1>1, BelowStack
  <2>4. (top.source => m = n + 1) /\ (~top.source => m = n)
    BY <1>1, <1>10
  <2>5. Datas(ir_code') /\ "stale" \notin notes'
    BY <1>1, <1>10, <2>1, <2>2
  <2> HIDE DEF n, m, b, t
  <2>6. b <= b /\ b <= m /\ (top.source => b < m)
    BY <2>2, <2>3, <2>4, <1>4
  <2>7. "discarded" \notin notes' => b = 0 /\ m <= 1 /\ (m = 0 \/ top.source)
    BY <2>2, <2>3, <2>4, <1>1
  <2> QED
    BY <2>5, <2>6, <2>7
<1>12. current_type' \in Types /\ regs' \in Nat
  BY <1>1, <1>2, <1>3 DEF VisitType
<1> QED
  BY <1>1, <1>9, <1>10, <1>11, <1>12, ReturnsKeepInv

(* Unless it is that of the block, the value is left for nobody. *)
LEMMA ExprStmtEndKeepsInv ==
    ASSUME IInv, visits # <<>>, ExprStmtEnd
    PROVE  IInv'
<1> USE DEF IInv
<1> DEFINE n == Len(ir_code)
           b == below.base
           t == top.base
           tree == <<"expr", top.trees[1]>>
<1>1. /\ unit' = unit /\ stage' = stage /\ item' = item /\ scope_manager' = scope_manager
      /\ types' = types /\ at' = at /\ code' = code /\ regs' = regs /\ ir_code' = ir_code
      /\ current_type' = current_type
      /\ top.node = "stmt" /\ top.after
      /\ notes \subseteq notes' /\ notes' \subseteq notes \cup {"discarded"}
      /\ "discarded" \notin notes' => (top.source /\ top.want # {"()"}) \/ n = t
      /\ Returns(tree)
  BY DEF ExprStmtEnd, At, PartDone, Within, Goes, Runs, Note, builder
<1> HIDE DEF tree
<1>2. /\ TypeInv /\ VisitType(top) /\ regs \in Nat /\ current_type \in Types
      /\ ir_code \in Seq(Value) /\ at \in DOMAIN code /\ CodeType(code)
  BY TopFacts DEF Local, TypeInv
<1>3. n \in Nat
  BY <1>2, LenProperties
<1> DEFINE valued == Sourced(top)
<1>5. "discarded" \notin notes' => valued \/ n = t
  <2>1. Flags(top, unit[item].ret)
    BY TopFacts DEF Local
  <2>2. top.source /\ top.want # {"()"} => valued
    BY <2>1 DEF Flags, Sourced, Types
  <2> QED
    BY <2>2, <1>1
<1>6. ~ExprPart(below) /\ (Valued(below) <=> valued) /\ (MayLeave(below) <=> valued)
  BY <1>1, StatementOfBlock
<1>7. LeavesCode
  <2>1. Handled' => Open(code, at)
    BY <1>1, HandledBefore, IsOpen
  <2> QED
    BY <2>1, <1>1 DEF LeavesCode
<1>8. LeavesStack(below)
  <2> SUFFICES ASSUME Handled'
               PROVE  /\ "stale" \notin notes' /\ Datas(ir_code)
                      /\ b <= b /\ b <= n
                      /\ valued => b < n
                      /\ "discarded" \notin notes' => b = 0 /\ n <= 1 /\ (n = 0 \/ valued)
    BY <1>1, <1>6 DEF LeavesStack
  <2>1. Handled
    BY <1>1, HandledBefore
  <2>2. /\ "stale" \notin notes /\ Datas(ir_code) /\ t \in Nat /\ t <= n
        /\ "discarded" \notin notes => t = 0 /\ n <= 1
    BY <2>1, StackFact
  <2>3. /\ b \in Nat /\ b <= t
        /\ "discarded" \notin notes => b = 0
    BY <2>1, <1>1, BelowStack
  <2>4. valued => t < n
    <3>1. valued => Valued(top)
      BY <1>1 DEF Valued
    <3> QED
      BY <3>1, <2>1, <1>1, NotStale
  <2>5. "discarded" \notin notes' => "discarded" \notin notes /\ (valued \/ n = t)
    BY <1>1, <1>5
  <2>6. "stale" \notin notes'
    BY <1>1, <2>2
  <2> HIDE DEF n, b, t, valued
  <2>7. b <= b /\ b <= n /\ (valued => b < n)
    BY <1>3, <2>2, <2>3, <2>4
  <2>8. "discarded" \notin notes' => b = 0 /\ n <= 1 /\ (n = 0 \/ valued)
    BY <2>2, <2>3, <2>5
  <2> QED
    BY <2>2, <2>6, <2>7, <2>8
<1> QED
  BY <1>1, <1>2, <1>7, <1>8, ReturnsKeepInv

LEMMA TailReturned ==
    ASSUME VisitsInv, ShapeInv, visits # <<>>, top.node # "fn",
           below.node = "block", below.tail, below.last,
           NEW w, Ends(visits, visits', w), SameVisit(below, w), w.last = below.last, w.after,
           ir_code' = <<>>
    PROVE  Returned'
<1> DEFINE n == Len(visits)
<1>1. /\ n \in Nat /\ n >= 2 /\ Len(visits') = n - 1
      /\ \A k \in 1..(n - 2) : visits'[k] = visits[k]
      /\ visits'[n - 1] = w /\ visits[n - 1] = below
  BY TopFacts, BelowReady DEF Ends, below
<1>2. /\ visits[1].node = "fn"
      /\ \A k \in 1..(n - 1) : Linked(visits[k], visits[k + 1])
      /\ \A k \in 1..n : visits[k].tail =>
            \A j \in 2..(k - 1) : visits[j].node = "block" /\ visits[j].tail /\ visits[j].last
  BY DEF ShapeInv, Shape, Tails
<1>3. w.node = "block" /\ w.tail /\ w.last
  BY DEF SameVisit
<1>4. top' = w
  BY <1>1 DEF top
<1> HIDE DEF n
<1>5. n - 1 # 1
  BY <1>1, <1>2
<1>6. n - 1 \in 1..n /\ 1 \in 1..(n - 1) /\ 2 \in 2..(n - 1) /\ 1 \in 1..(n - 2) /\ 1 + 1 = 2
  BY <1>1, <1>5
<1>7. \A j \in 2..(n - 2) : visits[j].node = "block" /\ visits[j].tail /\ visits[j].last
  <2>1. n - 1 - 1 = n - 2
    BY <1>1
  <2> QED
    BY <2>1, <1>1, <1>2, <1>6
<1>8. \A j \in 2..(n - 1) : visits[j].node = "block" /\ visits[j].tail /\ visits[j].last
  <2> SUFFICES ASSUME NEW j \in 2..(n - 1)
               PROVE  visits[j].node = "block" /\ visits[j].tail /\ visits[j].last
    OBVIOUS
  <2>1. j = n - 1 \/ j \in 2..(n - 2)
    BY <1>1
  <2> QED
    BY <2>1, <1>1, <1>7
<1>9. visits[1].source
  <2>1. Linked(visits[1], visits[2])
    BY <1>2, <1>6
  <2>2. visits[2].node = "block" /\ visits[2].tail
    BY <1>6, <1>8
  <2> QED
    BY <2>1, <2>2, <1>2 DEF Linked
<1>10. visits'[1].source
  BY <1>1, <1>6, <1>9
<1>11. \A j \in 2..(n - 1) : visits'[j].node = "block" /\ visits'[j].tail /\ visits'[j].last
  <2> SUFFICES ASSUME NEW j \in 2..(n - 1)
               PROVE  visits'[j].node = "block" /\ visits'[j].tail /\ visits'[j].last
    OBVIOUS
  <2>1. j = n - 1 \/ j \in 1..(n - 2)
    BY <1>1
  <2> QED
    BY <2>1, <1>1, <1>3, <1>8
<1> QED
  BY <1>1, <1>4, <1>10, <1>11 DEF Returned

LEMMA StillReturned ==
    ASSUME VisitsInv, ShapeInv, visits # <<>>, top.node # "fn", Returned,
           NEW w, Ends(visits, visits', w), SameVisit(below, w), w.last = below.last, w.after,
           ir_code' = ir_code
    PROVE  Returned'
<1> DEFINE n == Len(visits)
<1>1. /\ n \in Nat /\ n >= 2 /\ Len(visits') = n - 1
      /\ \A k \in 1..(n - 2) : visits'[k] = visits[k]
      /\ visits'[n - 1] = w /\ visits[n - 1] = below
  BY TopFacts, BelowReady DEF Ends, below
<1>2. /\ visits[1].source /\ ir_code = <<>>
      /\ \A k \in 2..n : visits[k].node = "block" /\ visits[k].tail /\ visits[k].last
  BY DEF Returned
<1>3. w.node = below.node /\ w.tail = below.tail /\ w.source = below.source
  BY DEF SameVisit
<1>4. top' = w
  BY <1>1 DEF top
<1> HIDE DEF n
<1>5. visits'[1].source
  <2>1. n - 1 = 1 \/ 1 \in 1..(n - 2)
    BY <1>1
  <2> QED
    BY <2>1, <1>1, <1>2, <1>3
<1>6. \A j \in 2..(n - 1) : visits'[j].node = "block" /\ visits'[j].tail /\ visits'[j].last
  <2> SUFFICES ASSUME NEW j \in 2..(n - 1)
               PROVE  visits'[j].node = "block" /\ visits'[j].tail /\ visits'[j].last
    OBVIOUS
  <2>1. (j = n - 1 \/ j \in 1..(n - 2)) /\ j \in 2..n
    BY <1>1
  <2> QED
    BY <2>1, <1>1, <1>2, <1>3
<1> QED
  BY <1>1, <1>2, <1>4, <1>5, <1>6 DEF Returned

(* The value of the function is returned, and the stack is empty again. *)
LEMMA ReturnEndKeepsInv ==
    ASSUME IInv, visits # <<>>, ReturnEnd
    PROVE  IInv'
<1> USE DEF IInv
<1> DEFINE i == Instr("ret", NoReg, <<Popped>>, <<>>)
           n == Len(ir_code)
           b == below.base
           t == top.base
           tree == <<"return", top.trees[1]>>
           w == GivenTree(below, tree)
<1>1. /\ unit' = unit /\ stage' = stage /\ item' = item /\ scope_manager' = scope_manager
      /\ types' = types /\ at' = at /\ code' = Emit(<<i>>) /\ regs' = regs
      /\ ir_code # <<>> /\ ir_code' = Front(ir_code) \o <<>>
      /\ current_type' = "()" /\ notes' = notes \cup Stale
      /\ top.node = "return" /\ top.after
      /\ Returns(tree)
  BY DEF ReturnEnd, At, PartDone, Within, Goes, Runs, Pops, Note
<1>2. /\ TypeInv /\ VisitType(top) /\ regs \in Nat
      /\ ir_code \in Seq(Value) /\ at \in DOMAIN code /\ IsSeq(visits)
  BY TopFacts DEF Local, TypeInv
<1>3. /\ n \in Nat /\ ir_code' \in Seq(Value) /\ Len(ir_code') = n - 1
      /\ Datas(ir_code) => Datas(ir_code')
      /\ Popped \in Values
  BY <1>1, <1>2, PopFacts
<1>4. i \in InstrSet /\ ToSet(i.blocks) \subseteq DOMAIN code
  <2>1. <<Popped>> \in Seq(Values) /\ <<>> \in Seq(Nat) /\ "ret" \in InstrOps
    BY <1>3 DEF InstrOps
  <2> QED
    BY <2>1, ValueFacts, NoBlocks DEF Instr, InstrSet
<1> HIDE DEF i
<1>5. CodeType(code') /\ DOMAIN code' = DOMAIN code /\ Grows(code, code', at)
  BY <1>1, <1>2, <1>4, EmitsOne
<1>6. /\ below.node = "block" /\ VisitType(below) /\ Len(visits) >= 2
      /\ Local(below, unit, unit[item].ret, DOMAIN code) /\ below.last \in BOOLEAN
  BY <1>1, BelowReady DEF Linked, VisitType
<1>7. ~ExprPart(below)
  BY <1>6 DEF CondPart, ExprPart, ExprNodes
<1>8. notes \subseteq notes'
  BY <1>1
<1>9. Ends(visits, visits', w)
  BY <1>1, <1>2, <1>6, ReturnLeaves DEF Returns, below
<1>10. SameVisit(below, w) /\ w.last = below.last /\ w.after = TRUE
  BY <1>6, GivenTreeVisit
<1> HIDE DEF w, tree
<1>11. ASSUME Handled'
       PROVE  /\ "stale" \notin notes' /\ Datas(ir_code')
              /\ b <= b /\ b <= Len(ir_code')
              /\ below.last /\ below.tail /\ "return" \in notes'
              /\ b = 0 /\ Len(ir_code') = 0
  <2>1. Handled
    BY <1>8, <1>11, HandledBefore
  <2>2. Valued(top)
    BY <1>1 DEF Valued
  <2>3. Stale = {} /\ t < n
    BY <2>1, <2>2, <1>1, NotStale
  <2>4. below.last /\ below.tail /\ "return" \in notes
    BY <2>1, <1>1, BelowStack
  <2>5. "discarded" \notin notes
    BY <2>1, <2>4 DEF Handled
  <2>6. "stale" \notin notes /\ Datas(ir_code) /\ t \in Nat /\ t = 0 /\ n <= 1
    BY <2>1, <2>5, StackFact
  <2>7. b = 0
    BY <2>1, <2>5, <1>1, BelowStack
  <2> DEFINE m == Len(ir_code')
  <2>8. m = n - 1
    BY <1>3
  <2> HIDE DEF n, m, t, b
  <2>9. m = 0 /\ b <= b /\ b <= m
    BY <2>3, <2>6, <2>7, <2>8, <1>3
  <2> QED
    BY <2>3, <2>4, <2>6, <2>7, <2>9, <1>1, <1>3 DEF m
<1>12. LeavesStack(below)
  <2> SUFFICES ASSUME Handled'
               PROVE  /\ "stale" \notin notes' /\ Datas(ir_code')
                      /\ b <= b /\ b <= Len(ir_code')
                      /\ MayReturn(below) /\ "return" \in notes'
                      /\ b = 0 /\ Len(ir_code') <= 1 /\ Len(ir_code') = 0
    BY <1>7 DEF LeavesStack
  <2> DEFINE m == Len(ir_code')
  <2>1. m = 0
    BY <1>11
  <2> HIDE DEF m
  <2>2. m <= 1 /\ m = 0
    BY <2>1
  <2> QED
    BY <2>2, <1>6, <1>11 DEF MayReturn, m
<1>13. LeavesCode
  <2> SUFFICES ASSUME Handled'
               PROVE  /\ Returned'
                      /\ \A c \in DOMAIN code : c # at => code'[c] = code[c]
    BY <1>1 DEF LeavesCode
  <2>1. ir_code' = <<>>
    BY <1>3, <1>11, EmptySeq
  <2>2. Returned'
    BY <2>1, <1>1, <1>6, <1>9, <1>10, <1>11, TailReturned
  <2> QED
    BY <2>2, <1>5 DEF Grows
<1>14. "()" \in Types
  BY ValueFacts
<1> QED
  BY <1>1, <1>2, <1>3, <1>5, <1>8, <1>12, <1>13, <1>14, ReturnsKeepInv

LEMMA BlockEndKeepsInv ==
    ASSUME IInv, visits # <<>>, BlockEnd
    PROVE  IInv'
<1> USE DEF IInv
<1> DEFINE n == Len(ir_code)
           b == below.base
           t == top.base
           o == below
           k == IF top.last THEN t ELSE b
           p == [o EXCEPT !.base = k]
           tree == <<"block", top.trees>>
           w == GivenTree(p, tree)
           parent == Len(visits) - 1
           f == Front(visits)
<1>1. /\ unit' = unit /\ stage' = stage /\ item' = item /\ scope_manager' = scope_manager
      /\ types' = types /\ at' = at /\ code' = code /\ regs' = regs /\ ir_code' = ir_code
      /\ notes' = notes /\ top.node = "block" /\ top.last = top.source
      /\ current_type' = (IF top.source THEN type_of ELSE current_type)
      /\ visits' = Leave([f EXCEPT ![parent].base = IF top.last THEN top.base ELSE @], tree)
  BY DEF BlockEnd, Within, Goes, Runs, builder
<1> HIDE DEF tree
<1>2. /\ TypeInv /\ VisitType(top) /\ Flags(top, unit[item].ret) /\ regs \in Nat
      /\ current_type \in Types /\ CodeType(code)
      /\ ir_code \in Seq(Value) /\ at \in DOMAIN code /\ IsSeq(visits)
      /\ Len(visits) \in Nat
  BY TopFacts DEF Local, TypeInv
<1>3. n \in Nat
  BY <1>2, LenProperties
<1>4. /\ VisitType(below) /\ Len(visits) >= 2 /\ Linked(below, top)
      /\ Local(below, unit, unit[item].ret, DOMAIN code)
  BY <1>1, BelowReady
<1>5. b \in Nat /\ t \in Nat /\ k \in Nat /\ top.last \in BOOLEAN /\ VisitType(o)
  BY <1>2, <1>4 DEF VisitType
<1> HIDE DEF o, k, t
<1>6. /\ VisitType(p) /\ SameVisit(o, p) /\ p.trees = o.trees /\ p.after = o.after
      /\ p.values = o.values /\ p.blocks = o.blocks /\ p.last = o.last
      /\ p.declared = o.declared /\ p.base = k
  BY <1>5 DEF VisitType, SameVisit
<1>7. visits' = Leave([f EXCEPT ![parent] = p], tree)
  <2>1. f[parent] = o
    <3>1. visits # <<>>
      OBVIOUS
    <3>2. \A j \in 1..(Len(visits) - 1) : f[j] = visits[j]
      BY <1>2, SeqFront
    <3>3. Len(visits) - 1 \in 1..(Len(visits) - 1)
      BY <1>2, <1>4
    <3> QED
      BY <3>2, <3>3 DEF below, o
  <2>2. [f EXCEPT ![parent].base = IF top.last THEN top.base ELSE @] =
            [f EXCEPT ![parent] = [f[parent] EXCEPT !.base = IF top.last THEN top.base ELSE @]]
    OBVIOUS
  <2>3. [o EXCEPT !.base = IF top.last THEN top.base ELSE @] = p
    BY DEF k, t, o
  <2> HIDE DEF f, p
  <2> QED
    BY <2>1, <2>2, <2>3, <1>1
<1> HIDE DEF p
<1>8. Ends(visits, visits', w)
  <2> HIDE DEF w
  <2>1. Ends(visits, Leave([Front(visits) EXCEPT ![Len(visits) - 1] = p], tree), GivenTree(p, tree))
    BY <1>2, <1>4, <1>6, EndLeaves
  <2> QED
    BY <2>1, <1>7 DEF w
<1>9. w.after = TRUE /\ SameVisit(p, w) /\ w.last = p.last
  BY <1>6, GivenTreeVisit
<1> HIDE DEF w
<1>10. /\ p.node = below.node /\ p.op = below.op /\ p.fn = below.fn /\ p.args = below.args
       /\ p.want = below.want /\ p.source = below.source /\ p.branches = below.branches
       /\ p.tail = below.tail /\ p.trees = below.trees /\ p.after = below.after
       /\ p.values = below.values /\ p.blocks = below.blocks /\ p.last = below.last
       /\ p.declared = below.declared
  BY <1>6 DEF SameVisit, o
<1>11. Part(p) = Part(below)
  BY <1>10 DEF Part
<1>12. /\ CondPart(p) <=> CondPart(below)
  BY <1>10, <1>11 DEF CondPart
<1>13. Local(p, unit, unit[item].ret, DOMAIN code)
  <2>1. /\ Flags(p, unit[item].ret) /\ IfParts(p) /\ CallOK(p, unit)
        /\ ToSet(p.blocks) \subseteq DOMAIN code
    BY <1>4, <1>10 DEF Local, Flags, IfParts, CallOK
  <2>2. ExprParts(p)
    BY <1>4, <1>10, <1>11 DEF Local, ExprParts
  <2> QED
    BY <2>1, <2>2, <1>6 DEF Local
<1>14. StaysBelow(p, {})
  BY <1>6, <1>13 DEF StaysBelow, o
<1>15. /\ below.node \in {"block", "fn", "if"}
       /\ below.node = "block" => top.source = below.last /\ top.tail = (below.last /\ below.tail)
       /\ below.node = "fn" => (below.source => top.source)
       /\ below.node = "if" => ~CondPart(below) /\ top.source = below.source /\ ~top.tail
       /\ top.source => top.want = below.want
       /\ below.last => below.source
  BY <1>1, <1>4 DEF Linked, Local, Flags
<1> DEFINE valued == Valued(top)
<1>16. ~ExprPart(p) /\ (Valued(p) => valued) /\ (valued => MayLeave(p) /\ top.last)
  <2>1. ~ExprPart(p)
    BY <1>10, <1>12, <1>15 DEF ExprPart, CondPart, ExprNodes
  <2>2. valued <=> top.last /\ Sourced(top)
    BY <1>1 DEF Valued, CondPart, ExprNodes
  <2>3. Valued(p) <=> Sourced(below) /\ (below.node = "block" => below.last)
    BY <1>10, <1>12, <1>15 DEF CondPart, Valued, Sourced, ExprNodes
  <2>4. Valued(p) => valued
    BY <2>2, <2>3, <1>1, <1>15 DEF Sourced
  <2>5. valued => Valued(p) \/ p.node = "fn"
    BY <2>2, <2>3, <1>1, <1>10, <1>15 DEF Sourced
  <2> QED
    BY <2>1, <2>2, <2>4, <2>5 DEF MayLeave
<1>17. MayReturn(top) => MayReturn(p)
  BY <1>1, <1>10, <1>15 DEF MayReturn
<1>18. LeavesStack(p)
  <2> SUFFICES ASSUME Handled'
               PROVE  /\ "stale" \notin notes /\ Datas(ir_code)
                      /\ b <= k /\ k <= n
                      /\ valued => k < n \/ (MayReturn(p) /\ "return" \in notes)
                      /\ "discarded" \notin notes => k = 0 /\ n <= 1 /\ (n = 0 \/ valued)
    BY <1>1, <1>6, <1>16 DEF LeavesStack
  <2>1. Handled
    BY <1>1, HandledBefore
  <2>3. MayLeave(top) <=> valued
    BY <1>1 DEF MayLeave
  <2>4. /\ "stale" \notin notes /\ Datas(ir_code) /\ t <= n
        /\ "discarded" \notin notes => t = 0 /\ n <= 1 /\ (n = 0 \/ valued)
    BY <2>1, <2>3, StackFact DEF t
  <2>5. b <= t /\ ("discarded" \notin notes => b = 0)
    BY <2>1, <1>1, BelowStack DEF t
  <2>6. valued => t < n \/ (MayReturn(top) /\ "return" \in notes)
    <3>1. Left(visits, Len(ir_code), notes)
      BY <2>1 DEF StackInv
    <3>2. top = Last(visits) /\ (top.last => top.after)
      BY TopFacts DEF VisitsInv
    <3> QED
      BY <3>1, <3>2, <1>16 DEF Left, t
  <2> HIDE DEF n, b, valued
  <2>7. b <= k /\ k <= n
    BY <2>4, <2>5, <1>3, <1>5 DEF k
  <2>8. valued => k = t
    BY <1>16 DEF k
  <2>9. "discarded" \notin notes => k = 0
    BY <2>4, <2>5 DEF k
  <2> QED
    BY <2>4, <2>6, <2>7, <2>8, <2>9, <1>17
<1>19. LeavesCode
  <2> SUFFICES ASSUME Handled'
               PROVE  Open(code, at) \/ Returned'
    BY <1>1 DEF LeavesCode
  <2>1. Handled
    BY <1>1, HandledBefore
  <2>2. Open(code, at) \/ Returned
    BY <2>1, <1>1 DEF OpenInv
  <2>3. SameVisit(below, w) /\ w.last = below.last
    BY <1>6, <1>9 DEF SameVisit, o
  <2>4. Returned => Returned'
    BY <2>3, <1>1, <1>8, <1>9, StillReturned
  <2> QED
    BY <2>2, <2>4
<1>20. current_type' \in Types
  <2>1. top.source => type_of \in Types
    BY <1>2 DEF Flags, type_of
  <2> QED
    BY <2>1, <1>1, <1>2
<1>21. TypeInv'
  BY <1>1, <1>2, <1>20, TypesKept
<1>22. KnowsNew({})
  BY <1>1 DEF KnowsNew
<1> QED
  BY <1>1, <1>2, <1>8, <1>14, <1>18, <1>19, <1>21, <1>22, EndsKeepInv DEF w

-----------------------------------------------------------------------------
(* The block comes to know a variable, which has a slot. *)
LEMMA LetEndKeepsInv ==
    ASSUME IInv, visits # <<>>, LetEnd
    PROVE  IInv'
<1> USE DEF IInv
<1> DEFINE n == Len(ir_code)
           b == below.base
           t == top.base
           o == below
           new == {NewId}
           d == o.declared \cup new
           p == [o EXCEPT !.declared = d]
           tree == <<"let", NewId, top.trees[1]>>
           w == GivenTree(p, tree)
           block == Len(visits) - 1
           f == Front(visits)
           slot == NewReg(current_type)
           i == Instr("alloca", slot, <<>>, <<>>)
           j == Instr("store", NoReg, <<Popped, slot>>, <<>>)
           type == CHOOSE x \in top.want : TRUE
<1>1. /\ unit' = unit /\ stage' = stage /\ item' = item /\ at' = at /\ regs' = regs + 1
      /\ current_type' = current_type
      /\ ir_code # <<>> /\ ir_code' = Front(ir_code) \o <<>> /\ notes' = notes \cup Stale
      /\ code' = Emit(<<i, j>>)
      /\ top.node = "let" /\ top.after
      /\ scope_manager' = With(scope_manager, [id \in new |-> slot])
      /\ types' = With(types, [id \in new |-> type])
      /\ visits' = Leave([f EXCEPT ![block].declared = @ \cup new], tree)
  BY DEF LetEnd, Runs, Pops, Note
<1> HIDE DEF tree
<1>2. /\ TypeInv /\ VisitType(top) /\ Flags(top, unit[item].ret) /\ regs \in Nat
      /\ item \in Nat /\ current_type \in Types /\ CodeType(code)
      /\ ir_code \in Seq(Value) /\ at \in DOMAIN code /\ IsSeq(visits)
      /\ Len(visits) \in Nat
      /\ \A id \in DOMAIN types : types[id] \in Data
      /\ \A id \in DOMAIN scope_manager : scope_manager[id] \in Values
  BY TopFacts DEF Local, TypeInv
<1>3. /\ n \in Nat /\ ir_code' \in Seq(Value) /\ Len(ir_code') = n - 1
      /\ Datas(ir_code) => Datas(ir_code')
      /\ Popped \in Values
  BY <1>1, <1>2, PopFacts
<1>4. /\ VisitType(below) /\ Len(visits) >= 2
      /\ Local(below, unit, unit[item].ret, DOMAIN code)
      /\ below.node = "block" /\ (below.last => below.want = {"()"})
  BY <1>1, BelowReady DEF Linked
<1>5. type \in Data
  BY <1>1, <1>2 DEF Flags
<1>6. slot \in Value /\ slot \in Values /\ TypeOf(slot) = current_type
  BY <1>2, NewRegIs
<1> HIDE DEF slot, type
<1>7. i \in InstrSet /\ j \in InstrSet /\ i.blocks = <<>> /\ j.blocks = <<>> /\ j.op = "store"
  <2>1. /\ <<>> \in Seq(Values) /\ <<>> \in Seq(Nat) /\ <<Popped, slot>> \in Seq(Values)
        /\ "alloca" \in InstrOps /\ "store" \in InstrOps
    BY <1>3, <1>6 DEF InstrOps
  <2> QED
    BY <2>1, <1>6, ValueFacts DEF Instr, InstrSet
<1> HIDE DEF i, j
<1>8. /\ CodeType(code') /\ DOMAIN code' = DOMAIN code /\ Grows(code, code', at)
      /\ Open(code', at)
  <2>1. ToSet(i.blocks) \subseteq DOMAIN code /\ ToSet(j.blocks) \subseteq DOMAIN code
    BY <1>7, NoBlocks
  <2>2. /\ CodeType(Emit(<<i, j>>))
        /\ DOMAIN Emit(<<i, j>>) = DOMAIN code
        /\ Grows(code, Emit(<<i, j>>), at)
        /\ Emit(<<i, j>>)[at] # <<>> /\ Last(Emit(<<i, j>>)[at]) = j
    BY <2>1, <1>2, <1>7, EmitsTwo
  <2> QED
    BY <2>2, <1>1, <1>7 DEF Open, Terminators
<1>9. NewId \in Seq(Nat)
  <2>1. NewId = <<item, 0, regs + 1>>
    BY DEF NewId
  <2> QED
    BY <2>1, <1>2
<1>10. d \in SUBSET Seq(Nat) /\ VisitType(o)
  BY <1>4, <1>9 DEF VisitType
<1> DEFINE new2 == new
<1>11. new2 = {NewId}
  OBVIOUS
<1> HIDE DEF o, d, new
<1>12. /\ VisitType(p) /\ SameVisit(o, p) /\ p.trees = o.trees /\ p.after = o.after
       /\ p.values = o.values /\ p.blocks = o.blocks /\ p.last = o.last
       /\ p.declared = d /\ p.base = o.base
  BY <1>10 DEF VisitType, SameVisit
<1>13. visits' = Leave([f EXCEPT ![block] = p], tree)
  <2>1. f[block] = o
    <3>2. \A k \in 1..(Len(visits) - 1) : f[k] = visits[k]
      BY <1>2, SeqFront
    <3>3. Len(visits) - 1 \in 1..(Len(visits) - 1)
      BY <1>2, <1>4
    <3> QED
      BY <3>2, <3>3 DEF below, o
  <2>2. [f EXCEPT ![block].declared = @ \cup new] =
            [f EXCEPT ![block] = [f[block] EXCEPT !.declared = @ \cup new]]
    OBVIOUS
  <2>3. [o EXCEPT !.declared = @ \cup new] = p
    BY DEF d
  <2> HIDE DEF f, p
  <2> QED
    BY <2>1, <2>2, <2>3, <1>1
<1> HIDE DEF p
<1>14. Ends(visits, visits', w)
  <2> HIDE DEF w
  <2>1. Ends(visits, Leave([Front(visits) EXCEPT ![Len(visits) - 1] = p], tree), GivenTree(p, tree))
    BY <1>2, <1>4, <1>12, EndLeaves
  <2> QED
    BY <2>1, <1>13 DEF w
<1>15. /\ p.node = below.node /\ p.op = below.op /\ p.fn = below.fn /\ p.args = below.args
       /\ p.want = below.want /\ p.source = below.source /\ p.branches = below.branches
       /\ p.tail = below.tail /\ p.trees = below.trees /\ p.after = below.after
       /\ p.values = below.values /\ p.blocks = below.blocks /\ p.last = below.last
       /\ p.base = b
  BY <1>12 DEF SameVisit, o
<1>16. Local(p, unit, unit[item].ret, DOMAIN code)
  <2>1. /\ Flags(p, unit[item].ret) /\ IfParts(p) /\ CallOK(p, unit)
        /\ ToSet(p.blocks) \subseteq DOMAIN code
    BY <1>4, <1>15 DEF Local, Flags, IfParts, CallOK
  <2>2. ExprParts(p)
    BY <1>4, <1>15 DEF Local, ExprParts, ExprNodes
  <2> QED
    BY <2>1, <2>2, <1>12 DEF Local
<1>17. StaysBelow(p, new)
  BY <1>12, <1>16 DEF StaysBelow, o, d
<1>18. ~ExprPart(p) /\ ~Valued(p) /\ ~MayLeave(p)
  <2>1. p.node = "block" /\ (p.last => p.want = {"()"})
    BY <1>4, <1>15
  <2>2. ~({"()"} \subseteq Data)
    BY DEF Data
  <2>3. ~(p.last /\ Sourced(p))
    BY <2>1, <2>2 DEF Sourced
  <2> QED
    BY <2>1, <2>3 DEF CondPart, ExprPart, Valued, MayLeave, ExprNodes
<1>19. notes \subseteq notes'
  BY <1>1
<1>20. ASSUME Handled'
       PROVE  /\ Handled /\ Stale = {} /\ t < n /\ "stale" \notin notes' /\ Datas(ir_code')
              /\ current_type \in Data
              /\ b <= t /\ b \in Nat /\ t \in Nat
              /\ "discarded" \notin notes' => b = 0 /\ n <= 1
  <2>1. Handled
    BY <1>19, <1>20, HandledBefore
  <2>2. Valued(top) /\ ExprPart(top)
    BY <1>1 DEF Valued, ExprPart
  <2>3. Stale = {} /\ t < n
    BY <2>1, <2>2, <1>1, NotStale
  <2>4. /\ "stale" \notin notes /\ Datas(ir_code) /\ t \in Nat /\ current_type \in Data
        /\ "discarded" \notin notes => n <= 1
    BY <2>1, <2>2, <1>1, StackFact
  <2>5. /\ b \in Nat /\ b <= t
        /\ "discarded" \notin notes => b = 0
    BY <2>1, <1>1, BelowStack
  <2> HIDE DEF n, b, t
  <2> QED
    BY <2>1, <2>3, <2>4, <2>5, <1>1, <1>3
<1>21. LeavesStack(p)
  <2> DEFINE m == Len(ir_code')
             q == p.base
  <2> SUFFICES ASSUME Handled'
               PROVE  /\ "stale" \notin notes' /\ Datas(ir_code')
                      /\ b <= q /\ q <= m
                      /\ "discarded" \notin notes' => q = 0 /\ m <= 1 /\ m = 0
    BY <1>18 DEF LeavesStack
  <2>1. m = n - 1 /\ q = b
    BY <1>3, <1>15
  <2>2. /\ t < n /\ b <= t /\ b \in Nat /\ t \in Nat
        /\ "discarded" \notin notes' => b = 0 /\ n <= 1
    BY <1>20
  <2> HIDE DEF n, b, t, m, q
  <2>3. b <= q /\ q <= m
    BY <2>1, <2>2, <1>3
  <2>4. "discarded" \notin notes' => q = 0 /\ m <= 1 /\ m = 0
    BY <2>1, <2>2, <1>3
  <2> QED
    BY <2>3, <2>4, <1>20
<1>22. LeavesCode
  <2> SUFFICES ASSUME Handled'
               PROVE  \A c \in DOMAIN code : c # at => code'[c] = code[c]
    BY <1>1, <1>8 DEF LeavesCode
  <2> QED
    BY <1>8 DEF Grows
<1>23. /\ \A id \in DOMAIN scope_manager \ new : /\ id \in DOMAIN scope_manager'
                                                 /\ scope_manager'[id] = scope_manager[id]
       /\ \A id \in new : id \in DOMAIN scope_manager' /\ scope_manager'[id] = slot
       /\ DOMAIN scope_manager' = DOMAIN scope_manager \cup new
  <2> DEFINE g == [id \in new |-> slot]
             r == scope_manager'
  <2>1. DOMAIN g = new /\ (\A id \in new : g[id] = slot) /\ r = With(scope_manager, g)
    BY <1>1
  <2> HIDE DEF g, r
  <2>2. /\ \A id \in DOMAIN scope_manager \ new : id \in DOMAIN r /\ r[id] = scope_manager[id]
        /\ \A id \in new : id \in DOMAIN r /\ r[id] = slot
        /\ DOMAIN r = DOMAIN scope_manager \cup new
    BY <2>1, Zenon DEF With
  <2> QED
    BY <2>2 DEF r
<1>24. KnowsNew(new)
  BY <1>6, <1>20, <1>23 DEF KnowsNew
<1>25. \A id \in DOMAIN scope_manager' : scope_manager'[id] \in Values
  BY <1>2, <1>6, <1>23
<1>26. \A id \in DOMAIN types' : types'[id] \in Data
  <2> DEFINE g == [id \in new |-> type]
             r == types'
  <2>1. DOMAIN g = new /\ (\A id \in new : g[id] = type) /\ r = With(types, g)
    BY <1>1
  <2> HIDE DEF g, r
  <2>2. \A id \in DOMAIN r : r[id] \in Data
    BY <2>1, <1>2, <1>5, Zenon DEF With
  <2> QED
    BY <2>2 DEF r
<1>27. TypeInv'
  BY <1>1, <1>2, <1>3, <1>8, <1>25, <1>26 DEF TypeInv
<1> QED
  BY <1>1, <1>2, <1>8, <1>14, <1>17, <1>19, <1>21, <1>22, <1>24, <1>27, EndsKeepInv DEF w

-----------------------------------------------------------------------------
(* A function begins. *)

LEMMA EntryIs ==
    ASSUME item \in Nat, unit[item] \in Signature
    PROVE  /\ Entry \in Seq(InstrSet)
           /\ \A i \in DOMAIN Entry : ToSet(Entry[i].blocks) \subseteq {2}
<1> DEFINE params == fn_ty.params
           n == Len(params)
           slot(p) == Reg(p, params[p])
           arg(p) == Param(p, params[p])
           p2(i) == (i + 1) \div 2
           at1(i) == IF i % 2 = 1 THEN Instr("alloca", slot(p2(i)), <<>>, <<>>)
                     ELSE Instr("store", NoReg, <<arg(p2(i)), slot(p2(i))>>, <<>>)
           slots == [i \in 1..2 * n |-> at1(i)]
           br == Instr("br", NoReg, <<>>, <<2>>)
           S == {i \in InstrSet : ToSet(i.blocks) \subseteq {2}}
<1>1. /\ n \in Nat /\ DOMAIN params = 1..n
      /\ \A p \in 1..n : params[p] \in Types /\ params[p] \in Data
  <2>1. params \in Seq(Data)
    BY DEF Signature, fn_ty
  <2> QED
    BY <2>1, LenProperties, ElementOfSeq DEF Types
<1>2. Entry = slots \o <<br>>
  BY DEF Entry
<1> HIDE DEF params
<1>3. ASSUME NEW p \in 1..n
      PROVE  slot(p) \in Value /\ arg(p) \in Value
  <2>1. p \in Nat /\ params[p] \in Types
    BY <1>1, <1>3
  <2> QED
    BY <2>1 DEF Reg, Param, Value
<1> HIDE DEF slot, arg, n
<1>4. ASSUME NEW i \in 1..2 * n
      PROVE  at1(i) \in S
  <2> DEFINE p == p2(i)
  <2>1. p \in 1..n
    BY <1>1, <1>4
  <2> DEFINE s == slot(p)
             a == arg(p)
  <2>2. s \in Value /\ a \in Value
    BY <2>1, <1>3
  <2>3. at1(i) = IF i % 2 = 1 THEN Instr("alloca", s, <<>>, <<>>)
                 ELSE Instr("store", NoReg, <<a, s>>, <<>>)
    OBVIOUS
  <2> HIDE DEF s, a, p, at1
  <2>4. s \in Values /\ a \in Values
    BY <2>2, ValueFacts
  <2>5. /\ "alloca" \in InstrOps /\ "store" \in InstrOps
        /\ <<>> \in Seq(Values) /\ <<>> \in Seq(Nat) /\ <<a, s>> \in Seq(Values)
    BY <2>4 DEF InstrOps
  <2>6. Instr("alloca", s, <<>>, <<>>) \in S
    BY <2>2, <2>5, NoBlocks DEF Instr, InstrSet
  <2>7. Instr("store", NoReg, <<a, s>>, <<>>) \in S
    BY <2>5, NoBlocks, ValueFacts DEF Instr, InstrSet
  <2> HIDE DEF S
  <2> QED
    BY <2>3, <2>6, <2>7
<1>5. br \in S
  <2>1. "br" \in InstrOps /\ <<>> \in Seq(Values) /\ <<2>> \in Seq(Nat) /\ ToSet(<<2>>) = {2}
    BY DEF InstrOps, ToSet
  <2> QED
    BY <2>1, ValueFacts DEF Instr, InstrSet
<1> DEFINE m == 2 * n
<1> HIDE DEF S, br, at1
<1>6. slots = [i \in 1..m |-> at1(i)] /\ m \in Nat /\ \A i \in 1..m : at1(i) \in S
  BY <1>1, <1>4
<1> HIDE DEF m, slots
<1>7. slots \in Seq(S)
  <2>1. slots \in [1..m -> S]
    BY <1>6
  <2> QED
    BY <2>1, <1>6
<1>8. Entry \in Seq(S)
  <2>1. <<br>> \in Seq(S)
    BY <1>5
  <2> QED
    BY <2>1, <1>2, <1>7, ConcatProperties
<1>9. \A i \in DOMAIN Entry : Entry[i] \in S
  BY <1>8, LenProperties, ElementOfSeq
<1>10. S \subseteq InstrSet /\ \A i \in S : ToSet(i.blocks) \subseteq {2}
  BY DEF S
<1> QED
  BY <1>8, <1>9, <1>10, SeqMonotonic

LEMMA FnBeginKeepsInv ==
    ASSUME IInv, FnBegin
    PROVE  IInv'
<1> USE DEF IInv
<1> DEFINE valued == fn_ty.ret # "()"
           sourced == HasSource(valued)
           n == Len(ir_code)
           fnVisit(want) == [NewVisit("fn", want) EXCEPT !.source = valued]
           body0(want) == [NewVisit("block", want) EXCEPT !.source = sourced, !.tail = valued]
           slot == [p \in Params |-> Reg(p, fn_ty.params[p])]
           ids == {ParamId(p) : p \in Params}
           slots == [id \in ids |-> slot[id[2]]]
           sorts == [id \in ids |-> fn_ty.params[id[2]]]
           refs == [id \in {FnId(item)} |-> FnRef(item)]
<1>1. /\ visits = <<>> /\ item \in DOMAIN unit /\ unit[item].kind = "Fn"
      /\ scope_manager' = With(With(scope_manager, refs), slots)
      /\ types' = With(types, sorts)
      /\ code' = <<Entry, <<>>>> /\ at' = 2 /\ regs' = Len(fn_ty.params)
      /\ \E want \in BodyTypes : visits' = <<fnVisit(want), body0(want)>>
      /\ unit' = unit /\ stage' = stage /\ item' = item /\ ir_code' = ir_code
      /\ current_type' = current_type /\ notes' = notes
  BY DEF FnBegin, AtItem
<1>2. /\ TypeInv /\ unit \in Seq(Item) /\ item \in Nat /\ ir_code \in Seq(Value)
      /\ \A id \in DOMAIN types : types[id] \in Data
      /\ \A id \in DOMAIN scope_manager : scope_manager[id] \in Values
  BY DEF TypeInv
<1>3. unit[item] \in Signature
  <2>1. unit[item] \in Item
    BY <1>1, <1>2, LenProperties, ElementOfSeq
  <2> QED
    BY <2>1, <1>1 DEF Item, Signature
<1>4. /\ fn_ty.ret \in Types /\ fn_ty.params \in Seq(Data) /\ Len(fn_ty.params) \in Nat
      /\ Params = 1..Len(fn_ty.params)
      /\ \A p \in Params : fn_ty.params[p] \in Data
  <2>1. fn_ty.ret \in Types /\ fn_ty.params \in Seq(Data)
    BY <1>3 DEF Signature, fn_ty
  <2> QED
    BY <2>1, LenProperties, ElementOfSeq DEF Params
<1>0. PICK want \in BodyTypes : visits' = <<fnVisit(want), body0(want)>>
  BY <1>1
<1> DEFINE v == fnVisit(want)
           c == body0(want)
<1>5. /\ valued \in BOOLEAN /\ sourced \in BOOLEAN /\ want \in SUBSET Types
      /\ valued => sourced
      /\ sourced => \E t \in Types : want = {t} /\ (valued => t = fn_ty.ret)
  BY <1>4 DEF HasSource, BodyTypes
<1>6. n \in Nat
  BY <1>2, LenProperties
<1>24. valued <=> fn_ty.ret # "()"
  OBVIOUS
<1>25. visits' = <<v, c>>
  BY <1>0
<1> HIDE DEF valued, sourced
<1>7. /\ Fresh(v) /\ v.node = "fn" /\ v.op = "none" /\ v.tail = FALSE /\ v.source = valued
      /\ v.blocks = <<>> /\ v.want = want /\ v.base = n
  BY <1>5, <1>6, EmptyIs DEF NewVisit, Fresh, VisitType, Nodes
<1>8. /\ Fresh(c) /\ c.node = "block" /\ c.op = "none" /\ c.tail = valued /\ c.source = sourced
      /\ c.blocks = <<>> /\ c.want = want /\ c.base = n
  BY <1>5, <1>6, EmptyIs DEF NewVisit, Fresh, VisitType, Nodes
<1> HIDE DEF v, c
<1>9. /\ Len(visits') = 2 /\ DOMAIN visits' = {1, 2} /\ visits'[1] = v /\ visits'[2] = c
      /\ visits' # <<>> /\ IsSeq(visits') /\ top' = c /\ Last(visits') = c
  <2>1. /\ <<v, c>> \in Seq({v, c})
        /\ Len(<<v, c>>) = 2 /\ DOMAIN <<v, c>> = {1, 2} /\ <<v, c>>[1] = v /\ <<v, c>>[2] = c
        /\ <<v, c>> # <<>>
    OBVIOUS
  <2>2. IsSeq(<<v, c>>)
    BY <2>1, SeqIsSeq
  <2> QED
    BY <2>1, <2>2, <1>25 DEF top, Last
<1>10. /\ CodeType(code') /\ DOMAIN code' = {1, 2} /\ code'[2] = <<>>
  <2> DEFINE e == Entry
             c2 == <<e, <<>>>>
  <2>1. e \in Seq(InstrSet) /\ \A i \in DOMAIN e : ToSet(e[i].blocks) \subseteq {2}
    BY <1>2, <1>3, EntryIs
  <2>2. code' = c2
    BY <1>1
  <2> HIDE DEF e
  <2>3. c2 \in Seq(Seq(InstrSet)) /\ DOMAIN c2 = {1, 2} /\ c2[1] = e /\ c2[2] = <<>>
    BY <2>1
  <2> HIDE DEF c2
  <2>4. \A b \in DOMAIN c2 : \A i \in DOMAIN c2[b] : ToSet(c2[b][i].blocks) \subseteq DOMAIN c2
    <3>1. \A i \in DOMAIN c2[1] : ToSet(c2[1][i].blocks) \subseteq DOMAIN c2
      BY <2>1, <2>3
    <3>2. DOMAIN c2[2] = {}
      BY <2>3
    <3>3. \A b \in DOMAIN c2 : b = 1 \/ b = 2
      BY <2>3
    <3> QED
      BY <3>1, <3>2, <3>3, Zenon
  <2> QED
    BY <2>2, <2>3, <2>4 DEF CodeType
<1>11. ASSUME NEW id \in ids
       PROVE  /\ slots[id] \in Value /\ TypeOf(slots[id]) \in Data
              /\ sorts[id] \in Data
  <2>1. PICK p \in Params : id = ParamId(p)
    OBVIOUS
  <2>2. id[2] = p
    BY <2>1 DEF ParamId
  <2>3. slots[id] = Reg(p, fn_ty.params[p]) /\ sorts[id] = fn_ty.params[p]
    BY <2>2
  <2>4. p \in Nat /\ fn_ty.params[p] \in Data /\ fn_ty.params[p] \in Types
    BY <1>4 DEF Types
  <2>5. Reg(p, fn_ty.params[p]) \in Value /\ TypeOf(Reg(p, fn_ty.params[p])) = fn_ty.params[p]
    <3> DEFINE t == fn_ty.params[p]
    <3>1. t \in Types
      BY <2>4
    <3> HIDE DEF t
    <3>2. Reg(p, t) \in Value /\ TypeOf(Reg(p, t)) = t
      BY <3>1, <2>4, <1>2 DEF Reg, Value, TypeOf
    <3> QED
      BY <3>2 DEF t
  <2> QED
    BY <2>3, <2>4, <2>5
<1>12. FnRef(item) \in Values
  BY <1>2 DEF FnRef, Values
<1> DEFINE fid == FnId(item)
           fref == FnRef(item)
<1>13. /\ DOMAIN slots = ids /\ DOMAIN sorts = ids /\ DOMAIN refs = {fid} /\ refs[fid] = fref
  OBVIOUS
<1> HIDE DEF slots, sorts, refs, fid, fref
<1>14. /\ \A id \in DOMAIN scope_manager' : scope_manager'[id] \in Values
       /\ \A id \in ids : id \in DOMAIN scope_manager' /\ scope_manager'[id] = slots[id]
  <2> DEFINE r == scope_manager'
             s == With(scope_manager, refs)
  <2>1. r = With(s, slots)
    BY <1>1
  <2>2. s = With(scope_manager, refs)
    OBVIOUS
  <2> HIDE DEF r, s, ids
  <2>3. /\ DOMAIN s = DOMAIN scope_manager \cup {fid}
        /\ s[fid] = fref
        /\ \A id \in DOMAIN scope_manager \ {fid} : s[id] = scope_manager[id]
    BY <2>2, <1>13, Zenon DEF With
  <2>4. \A id \in DOMAIN s : s[id] \in Values
    BY <2>3, <1>2, <1>12 DEF fref
  <2>5. /\ DOMAIN r = DOMAIN s \cup ids
        /\ \A id \in ids : r[id] = slots[id]
        /\ \A id \in DOMAIN s \ ids : r[id] = s[id]
    BY <2>1, <1>13, Zenon DEF With
  <2>6. \A id \in ids : slots[id] \in Values
    BY <1>11, ValueFacts
  <2>7. \A id \in DOMAIN r : r[id] \in Values
    BY <2>4, <2>5, <2>6
  <2> QED
    BY <2>5, <2>7 DEF r
<1>15. \A id \in DOMAIN types' : types'[id] \in Data
  <2> DEFINE r == types'
  <2>1. r = With(types, sorts)
    BY <1>1
  <2> HIDE DEF r, ids
  <2>2. /\ DOMAIN r = DOMAIN types \cup ids
        /\ \A id \in ids : r[id] = sorts[id]
        /\ \A id \in DOMAIN types \ ids : r[id] = types[id]
    BY <2>1, <1>13, Zenon DEF With
  <2>3. \A id \in DOMAIN r : r[id] \in Data
    BY <2>2, <1>2, <1>11
  <2> QED
    BY <2>3 DEF r
<1>16. TypeInv'
  BY <1>1, <1>2, <1>4, <1>10, <1>14, <1>15 DEF TypeInv
<1>17. Visible' = ids
  <2>1. UNION {visits'[k].declared : k \in DOMAIN visits'} = {}
    BY <1>7, <1>8, <1>9 DEF Fresh
  <2>2. {ParamId(p) : p \in Params}' = ids
    BY <1>1 DEF ParamId, Params, fn_ty
  <2> QED
    BY <2>1, <2>2 DEF Visible
<1> HIDE DEF ids
<1>18. VisitsInv'
  <2>1. ~top'.last
    BY <1>8, <1>9 DEF Fresh
  <2> QED
    BY <2>1, <1>1, <1>3, <1>10, <1>11, <1>14, <1>17 DEF VisitsInv
<1>19. ASSUME NEW w, Fresh(w), w.op = "none", w.blocks = <<>>, w.want = want,
              \/ w.node = "fn" /\ w.tail = FALSE /\ w.source = valued
              \/ w.node = "block" /\ w.tail = valued /\ w.source = sourced,
              NEW D
       PROVE  Local(w, unit, unit[item].ret, D) /\ PendingParts(w) = {}
  <2>1. Flags(w, unit[item].ret)
    BY <1>4, <1>5, <1>24, <1>19 DEF Flags, Fresh, fn_ty
  <2>2. ExprParts(w)
    BY <1>19 DEF ExprParts, ExprNodes
  <2>3. IfParts(w) /\ CallOK(w, unit)
    BY <1>19 DEF IfParts, CallOK
  <2>4. ToSet(w.blocks) \subseteq D
    BY <1>19, NoBlocks
  <2>5. PendingParts(w) = {}
    BY <1>19, FreshParts
  <2> QED
    BY <2>1, <2>2, <2>3, <2>4, <2>5, <1>19 DEF Local, Fresh
<1>20. /\ \A D : Local(v, unit, unit[item].ret, D) /\ Local(c, unit, unit[item].ret, D)
       /\ PendingParts(v) = {} /\ PendingParts(c) = {}
  BY <1>7, <1>8, <1>19
<1>21. ShapeInv'
  <2>1. Linked(v, c)
    BY <1>5, <1>7, <1>8 DEF Linked, ExprNodes, Fresh
  <2>2. \A k \in 1..2 : k = 1 \/ k = 2
    OBVIOUS
  <2>3. \A k \in 1..(2 - 1) : k = 1 /\ k + 1 = 2
    OBVIOUS
  <2>4. Shape(visits', unit, unit[item].ret, DOMAIN code')
    BY <2>1, <2>2, <2>3, <1>7, <1>9, <1>20 DEF Shape
  <2>5. \A k \in 1..2 : \A j \in 2..(k - 1) : FALSE
    OBVIOUS
  <2>6. Tails(visits')
    BY <2>5, <1>9 DEF Tails
  <2> QED
    BY <2>4, <2>6, <1>1 DEF ShapeInv
<1>22. StackInv'
  <2> SUFFICES ASSUME Handled'
               PROVE  /\ "stale" \notin notes'
                      /\ DataInv'
                      /\ Bases(visits', n)
                      /\ Left(visits', n, notes')
                      /\ Exact(visits', n, notes')
                      /\ Noted(visits', notes')
    BY <1>1 DEF StackInv
  <2>1. Handled
    BY <1>1 DEF Handled
  <2>2. "stale" \notin notes /\ Datas(ir_code) /\ Exact(visits, n, notes)
    BY <2>1 DEF StackInv, DataInv
  <2>3. "discarded" \notin notes => n = 0
    BY <2>2, <1>1 DEF Exact
  <2>4. Bases(visits', n)
    <3>1. n <= n
      BY <1>6
    <3> HIDE DEF n
    <3> QED
      BY <3>1, <1>7, <1>8, <1>9 DEF Bases
  <2>5. Left(visits', n, notes')
    BY <1>8, <1>9 DEF Left, Fresh
  <2>6. Exact(visits', n, notes')
    <3> SUFFICES ASSUME "discarded" \notin notes
                 PROVE  (\A k \in DOMAIN visits' : visits'[k].base = 0) /\ n <= 1 /\ n = 0
      BY <1>1 DEF Exact
    <3>1. n = 0
      BY <2>3
    <3> HIDE DEF n
    <3> QED
      BY <3>1, <1>7, <1>8, <1>9
  <2>7. Noted(visits', notes')
    <3>1. \A k \in 1..(2 - 1) : k + 1 = 2
      OBVIOUS
    <3> QED
      BY <3>1, <1>8, <1>9 DEF Noted
  <2>8. DataInv'
    <3>1. Datas(<<>>)
      BY DEF Datas
    <3>2. \A k \in DOMAIN visits' : Datas(visits'[k].values)
      BY <3>1, <1>7, <1>8, <1>9 DEF Fresh
    <3>3. \A id \in Visible' : TypeOf(scope_manager'[id]) \in Data
      BY <1>11, <1>14, <1>17
    <3>4. ~top'.after
      BY <1>8, <1>9 DEF Fresh
    <3>5. Datas(ir_code')
      BY <2>2, <1>1
    <3> QED
      BY <3>2, <3>3, <3>4, <3>5 DEF DataInv
  <2> QED
    BY <2>2, <2>4, <2>5, <2>6, <2>7, <2>8, <1>1
<1>23. OpenInv'
  <2>1. Open(code', at')
    BY <1>1, <1>10 DEF Open
  <2>2. Pending(v) = {} /\ Pending(c) = {}
    BY <1>20 DEF Pending
  <2>3. PendingInv(visits', code', at')
    BY <2>2, <1>9, <1>20 DEF PendingInv
  <2> QED
    BY <2>1, <2>3 DEF OpenInv
<1> QED
  BY <1>16, <1>18, <1>21, <1>22, <1>23

-----------------------------------------------------------------------------
(* Between functions. *)

LEMMA NoVisitsKeepInv ==
    ASSUME TypeInv, visits' = <<>>, unit' = unit, ir_code' = ir_code,
           current_type' = current_type, types' = types, scope_manager' = scope_manager,
           code' = code, at' = at, regs' = regs, notes' = notes,
           stage' \in {"compile", "compiled", "panic"}, item' \in Nat,
           Handled => /\ "stale" \notin notes /\ Datas(ir_code)
                      /\ "discarded" \notin notes => Len(ir_code) = 0
    PROVE  IInv'
<1> DEFINE n == Len(ir_code)
<1>1. TypeInv'
  BY DEF TypeInv
<1>2. VisitsInv' /\ OpenInv'
  BY DEF VisitsInv, OpenInv
<1>3. IsSeq(<<>>) /\ Len(<<>>) = 0 /\ DOMAIN <<>> = {}
  BY EmptyIs
<1>4. ShapeInv'
  <2>1. \A k \in 1..0 : FALSE
    OBVIOUS
  <2>2. \A k \in 1..(0 - 1) : FALSE
    OBVIOUS
  <2> QED
    BY <2>1, <2>2, <1>3 DEF ShapeInv, Shape, Tails
<1>5. StackInv'
  <2> SUFFICES ASSUME Handled'
               PROVE  /\ "stale" \notin notes
                      /\ DataInv'
                      /\ Bases(<<>>, n) /\ Left(<<>>, n, notes) /\ Exact(<<>>, n, notes)
                      /\ Noted(<<>>, notes)
    BY DEF StackInv
  <2>1. /\ "stale" \notin notes /\ Datas(ir_code)
        /\ "discarded" \notin notes => n = 0
    BY DEF Handled
  <2>2. DataInv'
    BY <2>1, <1>3 DEF DataInv
  <2>3. Bases(<<>>, n) /\ Left(<<>>, n, notes)
    BY <1>3 DEF Bases, Left
  <2>4. Exact(<<>>, n, notes)
    <3> HIDE DEF n
    <3> QED
      BY <2>1, <1>3 DEF Exact
  <2>5. Noted(<<>>, notes)
    <3>1. \A k \in 1..(0 - 1) : FALSE
      OBVIOUS
    <3> QED
      BY <3>1, <1>3 DEF Noted
  <2> QED
    BY <2>1, <2>2, <2>3, <2>4, <2>5
<1> QED
  BY <1>1, <1>2, <1>4, <1>5 DEF IInv

(* Where there is no visit or a function is done, nothing is left on the     *)
(* stack, if nothing was left behind.                                        *)
LEMMA StackAfter ==
    ASSUME IInv, visits = <<>> \/ (top.node = "fn" /\ ~top.after), Handled
    PROVE  /\ "stale" \notin notes /\ Datas(ir_code)
           /\ "discarded" \notin notes => Len(ir_code) = 0
<1>1. "stale" \notin notes /\ DataInv /\ Exact(visits, Len(ir_code), notes)
  BY DEF IInv, StackInv
<1>2. visits # <<>> => top = Last(visits)
  BY TopFacts DEF IInv
<1> QED
  BY <1>1, <1>2 DEF DataInv, Exact

(* The step is the last one, or changes nothing. *)
LEMMA LastStep ==
    ASSUME IInv, unit' = unit, item' = item, visits' = visits, ir_code' = ir_code,
           current_type' = current_type, types' = types, scope_manager' = scope_manager,
           code' = code, at' = at, regs' = regs,
           stage' \in {"compile", "compiled", "panic"}, Handled' => notes' = notes
    PROVE  IInv'
<1> USE DEF IInv
<1>1. TypeInv'
  BY DEF TypeInv
<1>2. top' = top /\ Visible' = Visible
  BY DEF top, Visible, ParamId, Params, fn_ty
<1>3. VisitsInv'
  BY <1>2 DEF VisitsInv
<1>4. ShapeInv'
  BY DEF ShapeInv
<1>5. Returned' <=> Returned
  BY <1>2 DEF Returned
<1>6. DataInv' <=> DataInv
  BY <1>2 DEF DataInv
<1>7. Handled' => Handled
  BY DEF Handled
<1>8. StackInv'
  BY <1>6, <1>7 DEF StackInv
<1>9. OpenInv'
  BY <1>2, <1>5, <1>7 DEF OpenInv
<1> QED
  BY <1>1, <1>3, <1>4, <1>8, <1>9

LEMMA InitIInv ==
    ASSUME Init
    PROVE  IInv
<1> USE UnitsAssumption
<1>1. PICK u \in Units : unit = u.items
  BY DEF Init
<1>2. /\ stage = "compile" /\ item = 1 /\ visits = <<>> /\ ir_code = <<>> /\ current_type = "()"
      /\ types = <<>> /\ scope_manager = <<>> /\ code = <<>> /\ at = 0 /\ regs = 0
      /\ notes = {}
  BY DEF Init
<1>3. IsSeq(<<>>) /\ Len(<<>>) = 0 /\ DOMAIN <<>> = {}
  BY EmptyIs
<1>4. TypeInv
  <2>1. CodeType(code)
    <3>1. <<>> \in Seq(Seq(InstrSet))
      BY EmptySeq
    <3> QED
      BY <3>1, <1>2, <1>3 DEF CodeType
  <2>2. ir_code \in Seq(Value) /\ current_type \in Types
    BY <1>2, EmptySeq, ValueFacts
  <2>3. unit \in Seq(Item) /\ unit \in {x.items : x \in Units}
    BY <1>1
  <2> QED
    BY <2>1, <2>2, <2>3, <1>2, <1>3 DEF TypeInv
<1>5. VisitsInv /\ OpenInv
  BY <1>2 DEF VisitsInv, OpenInv
<1>6. ShapeInv
  <2>1. \A k \in 1..0 : FALSE
    OBVIOUS
  <2>2. \A k \in 1..(0 - 1) : FALSE
    OBVIOUS
  <2> QED
    BY <2>1, <2>2, <1>2, <1>3 DEF ShapeInv, Shape, Tails
<1>7. StackInv
  <2>1. \A k \in 1..(0 - 1) : FALSE
    OBVIOUS
  <2>2. Noted(<<>>, {})
    BY <2>1, <1>3 DEF Noted
  <2>3. Bases(<<>>, 0) /\ Left(<<>>, 0, {}) /\ Exact(<<>>, 0, {})
    BY <1>3 DEF Bases, Left, Exact
  <2>4. DataInv
    BY <1>2, <1>3 DEF DataInv, Datas
  <2> QED
    BY <2>2, <2>3, <2>4, <1>2, <1>3 DEF StackInv
<1> QED
  BY <1>4, <1>5, <1>6, <1>7 DEF IInv

-----------------------------------------------------------------------------
(* The visitor's steps. *)
VisitNext ==
    \/ \E type \in Data : Literal(type) \/ IfExprBegin(type)
    \/ \E id \in Visible : VarRef(id)
    \/ \E op \in UnaryOps : UnaryBegin(op)
    \/ \E op \in BinaryOps : BinaryBegin(op)
    \/ UnaryEnd \/ BinaryLeft \/ BinaryEnd
    \/ IfExprCondition \/ IfExprThen \/ IfExprElse
    \/ Calls \/ CallArg \/ CallEnd \/ CallUnknown
    \/ \E last \in BOOLEAN :
          \/ \E type \in Data : LetBegin(last, type)
          \/ ExprBegin(last) \/ ReturnBegin(last) \/ ReturnEmpty(last) \/ DoBlock(last)
          \/ \E branches \in 1..MaxBranches, else \in BOOLEAN : IfBegin(last, branches, else)
    \/ IfCondition \/ IfBlock \/ IfBlockEnd \/ IfEnd
    \/ BlockEnd \/ LetEnd \/ ReturnEnd \/ ExprStmtEnd
    \/ FnEnd \/ FnVerify \/ ExpectFails

LEMMA NextIs ==
    Next <=> \/ FnBegin \/ SkipTypedef \/ UnitEnd
             \/ stage = "compile" /\ visits # <<>> /\ VisitNext
             \/ Ended
BY DEF Next, VisitNext

LEMMA FnVerifyKeepsInv ==
    ASSUME IInv, visits # <<>>, FnVerify
    PROVE  IInv'
<1>1. /\ unit' = unit /\ types' = types /\ ir_code' = ir_code /\ current_type' = current_type
      /\ scope_manager' = scope_manager /\ code' = code /\ at' = at /\ regs' = regs
      /\ notes' = notes /\ top.node = "fn" /\ ~top.after
      /\ \/ visits' = <<>> /\ item' = item + 1 /\ stage' = stage
         \/ stage' = "panic" /\ visits' = visits /\ item' = item
  BY DEF FnVerify, Goes, Runs, builder
<1>2. TypeInv /\ item \in Nat /\ stage \in {"compile", "compiled", "panic"}
  BY DEF IInv, TypeInv
<1>3. CASE visits' = <<>> /\ item' = item + 1 /\ stage' = stage
  <2>1. item' \in Nat /\ stage' \in {"compile", "compiled", "panic"}
    BY <1>2, <1>3
  <2> QED
    BY <2>1, <1>1, <1>2, <1>3, StackAfter, NoVisitsKeepInv
<1>4. CASE stage' = "panic" /\ visits' = visits /\ item' = item
  BY <1>1, <1>4, LastStep
<1> QED
  BY <1>1, <1>3, <1>4

LEMMA VisitKeepsInv ==
    ASSUME IInv, visits # <<>>, VisitNext
    PROVE  IInv'
<1>1. CASE \E type \in Data : Literal(type) \/ IfExprBegin(type)
  BY <1>1, LiteralKeepsInv, IfExprBeginKeepsInv
<1>2. CASE \E id \in Visible : VarRef(id)
  BY <1>2, VarRefKeepsInv
<1>3. CASE \E op \in UnaryOps : UnaryBegin(op)
  BY <1>3, UnaryBeginKeepsInv
<1>4. CASE \E op \in BinaryOps : BinaryBegin(op)
  BY <1>4, BinaryBeginKeepsInv
<1>5. CASE UnaryEnd \/ BinaryLeft \/ BinaryEnd
  BY <1>5, UnaryEndKeepsInv, BinaryLeftKeepsInv, BinaryEndKeepsInv
<1>6. CASE IfExprCondition \/ IfExprThen \/ IfExprElse
  BY <1>6, IfExprConditionKeepsInv, IfExprThenKeepsInv, IfExprElseKeepsInv
<1>7. CASE Calls \/ CallArg \/ CallEnd
  BY <1>7, CallsKeepInv, CallArgKeepsInv, CallEndKeepsInv
<1>8. CASE CallUnknown
  <2>1. /\ unit' = unit /\ item' = item /\ visits' = visits /\ ir_code' = ir_code
        /\ current_type' = current_type /\ types' = types /\ scope_manager' = scope_manager
        /\ code' = code /\ at' = at /\ regs' = regs /\ stage' = "panic"
        /\ "forward_call" \in notes'
    BY <1>8 DEF CallUnknown, Goes, Runs, Note, builder
  <2>2. ~Handled'
    BY <2>1 DEF Handled
  <2> QED
    BY <2>1, <2>2, LastStep
<1>9. CASE \E last \in BOOLEAN : \E type \in Data : LetBegin(last, type)
  BY <1>9, LetBeginKeepsInv
<1>10. CASE \E last \in BOOLEAN : ReturnEmpty(last)
  BY <1>10, ReturnEmptyKeepsInv
<1>11. CASE \E last \in BOOLEAN :
              \/ ExprBegin(last) \/ ReturnBegin(last) \/ DoBlock(last)
              \/ \E branches \in 1..MaxBranches, else \in BOOLEAN :
                    IfBegin(last, branches, else)
  BY <1>11, ExprBeginKeepsInv, ReturnBeginKeepsInv, DoBlockKeepsInv, IfBeginKeepsInv
<1>12. CASE IfCondition \/ IfBlock \/ IfBlockEnd \/ IfEnd
  BY <1>12, IfConditionKeepsInv, IfBlockKeepsInv, IfBlockEndKeepsInv, IfEndKeepsInv
<1>13. CASE BlockEnd \/ LetEnd \/ ReturnEnd \/ ExprStmtEnd
  BY <1>13, BlockEndKeepsInv, LetEndKeepsInv, ReturnEndKeepsInv, ExprStmtEndKeepsInv
<1>14. CASE FnEnd \/ FnVerify
  BY <1>14, FnEndKeepsInv, FnVerifyKeepsInv
<1>15. CASE ExpectFails
  BY <1>15, LastStep DEF ExpectFails, Goes, Runs, builder
<1> QED
  BY <1>1, <1>2, <1>3, <1>4, <1>5, <1>6, <1>7, <1>8, <1>9, <1>10, <1>11, <1>12, <1>13,
     <1>14, <1>15 DEF VisitNext

LEMMA NextKeepsInv ==
    ASSUME IInv, [Next]_vars
    PROVE  IInv'
<1>1. CASE FnBegin
  BY <1>1, FnBeginKeepsInv
<1>2. CASE SkipTypedef
  <2>1. /\ visits = <<>> /\ visits' = <<>> /\ unit' = unit /\ stage' = stage /\ item' = item + 1
        /\ ir_code' = ir_code /\ current_type' = current_type /\ types' = types
        /\ scope_manager' = scope_manager /\ code' = code /\ at' = at /\ regs' = regs
        /\ notes' = notes
    BY <1>2 DEF SkipTypedef, AtItem, builder
  <2>2. TypeInv /\ item' \in Nat /\ stage' \in {"compile", "compiled", "panic"}
    BY <2>1 DEF IInv, TypeInv
  <2> QED
    BY <2>1, <2>2, StackAfter, NoVisitsKeepInv
<1>3. CASE UnitEnd
  BY <1>3, LastStep DEF UnitEnd, builder
<1>4. CASE visits # <<>> /\ VisitNext
  BY <1>4, VisitKeepsInv
<1>5. CASE UNCHANGED vars
  <2>1. stage \in {"compile", "compiled", "panic"}
    BY DEF IInv, TypeInv
  <2> QED
    BY <1>5, <2>1, LastStep DEF vars, builder
<1> QED
  BY <1>1, <1>2, <1>3, <1>4, <1>5, NextIs DEF Ended

-----------------------------------------------------------------------------
(* Basic blocks that have ended. *)

EndedStay == \A b \in DOMAIN code : ~Open(code, b) => code'[b] = code[b]

(* Instructions are added to a block that is open, new blocks to the end.    *)
LEMMA EmitsWhereOpen ==
    ASSUME IInv, visits # <<>>, Open(code, at), NEW is, NEW n \in Nat,
           code' = Emit(is) \/ code' = Emit(is) \o NewBlocks(n)
    PROVE  EndedStay
<1> DEFINE y == code[at] \o is
           S == Seq(InstrSet) \cup {y}
           e == Emit(is)
<1>1. code \in Seq(Seq(InstrSet)) /\ at \in DOMAIN code
  BY DEF IInv, TypeInv, VisitsInv, CodeType
<1>2. e = [code EXCEPT ![at] = y]
  BY DEF Emit
<1>3. code \in Seq(S) /\ y \in S /\ at \in 1..Len(code)
  BY <1>1, SeqMonotonic, LenProperties
<1>4. <<>> \in S
  BY EmptySeq
<1>5. NewBlocks(n) \in Seq(S)
  BY <1>4 DEF NewBlocks
<1> HIDE DEF y, S, e
<1>6. /\ e \in Seq(S) /\ Len(e) = Len(code)
      /\ \A b \in 1..Len(code) : e[b] = IF b = at THEN y ELSE code[b]
  <2> DEFINE r == [code EXCEPT ![at] = y]
  <2>1. /\ r \in Seq(S) /\ Len(r) = Len(code)
        /\ \A b \in 1..Len(code) : r[b] = IF b = at THEN y ELSE code[b]
    BY <1>3, ExceptSeq
  <2> QED
    BY <2>1, <1>2
<1>7. \A b \in 1..Len(e) : (e \o NewBlocks(n))[b] = e[b]
  <2> DEFINE m == Len(e)
             k == Len(NewBlocks(n))
  <2>1. m \in Nat /\ k \in Nat
    BY <1>5, <1>6, LenProperties
  <2>2. \A b \in 1..(m + k) :
           (e \o NewBlocks(n))[b] = IF b <= m THEN e[b] ELSE NewBlocks(n)[b - m]
    BY <1>5, <1>6, ConcatProperties
  <2> HIDE DEF m, k
  <2>4. \A b \in 1..m : b \in 1..(m + k) /\ b <= m
    BY <2>1
  <2>3. \A b \in 1..m : (e \o NewBlocks(n))[b] = e[b]
    BY <2>2, <2>4
  <2> QED
    BY <2>3 DEF m
<1>8. DOMAIN code = 1..Len(code)
  BY <1>1, LenProperties
<1>9. code' = e \/ code' = e \o NewBlocks(n)
  BY DEF e
<1> QED
  BY <1>6, <1>7, <1>8, <1>9 DEF EndedStay

(* An action that takes or leaves a value adds to the block of the builder.  *)
LEMMA StepEmits ==
    ASSUME IInv, visits # <<>>, notes \subseteq notes', Handled',
           top.node # "fn" \/ top.after,
           \/ ~top.after
           \/ top.node = "block" /\ ~top.last
           \/ top.node \notin {"fn", "block"}
           \/ ir_code # <<>>
           \/ top.node = "fn" /\ ~top.source,
           NEW is, NEW n \in Nat,
           code' = Emit(is) \/ code' = Emit(is) \o NewBlocks(n) \/ code' = code
    PROVE  EndedStay
<1>1. Open(code, at)
  BY HandledBefore, IsOpen DEF IInv
<1> QED
  BY <1>1, EmitsWhereOpen DEF EndedStay

LEMMA ExpressionsStay ==
    ASSUME IInv, visits # <<>>, Handled',
           \/ \E id \in Visible : VarRef(id)
           \/ UnaryEnd \/ BinaryEnd \/ IfExprCondition \/ IfExprThen \/ CallEnd
    PROVE  EndedStay
<1>1. CASE \E id \in Visible : VarRef(id)
  <2> PICK id \in Visible : VarRef(id)
    BY <1>1
  <2> DEFINE is == <<Instr("load", NewReg(TypeOf(scope_manager[id])),
                           <<scope_manager[id]>>, <<>>)>>
  <2>1. code' = Emit(is) /\ notes' = notes /\ types[id] \in Wants
    BY DEF VarRef, Expression
  <2>2. ~top.after /\ top.node \notin {"fn", "block"}
    BY <2>1, WantsFacts DEF IInv
  <2> HIDE DEF is
  <2>3. 0 \in Nat
    OBVIOUS
  <2> QED
    BY <2>1, <2>2, <2>3, StepEmits
<1>2. CASE UnaryEnd
  <2> DEFINE is == <<Instr("fsub", NewReg("float"), <<Popped, Const(0, "float")>>, <<>>)>>
  <2>1. code' = Emit(is) \/ code' = code
    BY <1>2 DEF UnaryEnd
  <2>2. notes \subseteq notes' /\ top.node = "unary"
    BY <1>2 DEF UnaryEnd, Pops, Note, At, PartDone, Within
  <2> HIDE DEF is
  <2>3. 0 \in Nat
    OBVIOUS
  <2> QED
    BY <2>1, <2>2, <2>3, StepEmits
<1>3. CASE BinaryEnd
  <2> DEFINE is == <<BinaryInstr(top.op, top.values[1], Popped)>>
  <2>1. code' = Emit(is) /\ notes \subseteq notes' /\ top.node = "binary"
    BY <1>3 DEF BinaryEnd, Note, At, PartDone, Within
  <2> HIDE DEF is
  <2>2. 0 \in Nat
    OBVIOUS
  <2> QED
    BY <2>1, <2>2, StepEmits
<1>4. CASE IfExprCondition
  <2> DEFINE new == [b \in 1..3 |-> Len(code) + b]
             is == <<Instr("cond_br", NoReg, <<Popped>>, <<new[1], new[2]>>)>>
  <2>1. code' = Emit(is) \o NewBlocks(3)
    BY <1>4, Zenon DEF IfExprCondition
  <2>2. notes \subseteq notes' /\ top.node = "if_expr"
    BY <1>4 DEF IfExprCondition, Pops, Note, At, PartDone, Within
  <2> HIDE DEF is
  <2>3. 3 \in Nat
    OBVIOUS
  <2> QED
    BY <2>1, <2>2, <2>3, StepEmits
<1>5. CASE IfExprThen
  <2> DEFINE is == <<Instr("br", NoReg, <<>>, <<top.blocks[3]>>)>>
  <2>1. code' = Emit(is) /\ notes \subseteq notes' /\ top.node = "if_expr"
    BY <1>5 DEF IfExprThen, Pops, Note, At, PartDone, Within
  <2> HIDE DEF is
  <2>2. 0 \in Nat
    OBVIOUS
  <2> QED
    BY <2>1, <2>2, StepEmits
<1>6. CASE CallEnd
  <2> DEFINE ret == unit[top.fn].ret
             is == <<Instr("call", IF ret = "()" THEN NoReg ELSE NewReg(ret),
                           <<scope_manager[FnId(top.fn)]>> \o top.values, <<>>)>>
  <2>1. code' = Emit(is) /\ notes \subseteq notes' /\ top.node = "call"
    BY <1>6 DEF CallEnd, CallReady, Note, Within
  <2> HIDE DEF is
  <2>2. 0 \in Nat
    OBVIOUS
  <2> QED
    BY <2>1, <2>2, StepEmits
<1> QED
  BY <1>1, <1>2, <1>3, <1>4, <1>5, <1>6

(* The phi goes to the end block, to which the builder has not yet come.     *)
LEMMA IfExprElseStays ==
    ASSUME IInv, visits # <<>>, Handled', IfExprElse
    PROVE  EndedStay
<1> DEFINE end == top.blocks[3]
           is == <<Instr("br", NoReg, <<>>, <<end>>)>>
           e == Emit(is)
           phi == <<Instr("phi", NewReg(current_type), <<top.values[2], Popped>>,
                          <<top.blocks[4], at>>)>>
<1>1. /\ code' = [e EXCEPT ![end] = phi]
      /\ top.node = "if_expr" /\ top.after /\ Len(top.trees) = 3 /\ notes \subseteq notes'
  BY DEF IfExprElse, At, PartDone, Within, Note
<1> HIDE DEF is, phi
<1>2. /\ VisitType(top) /\ ExprParts(top) /\ Handled
  BY <1>1, TopFacts, HandledBefore DEF IInv, Local
<1>3. code[end] = <<>>
  <2>1. Len(top.trees) \in Nat /\ top.blocks \in Seq(Nat)
    BY <1>2, SeqItems DEF VisitType
  <2>2. Part(top) = 2
    BY <2>1, <1>1 DEF Part
  <2>3. Len(top.values) = 2 /\ Len(top.blocks) = 4
    BY <2>2, <1>1, <1>2 DEF ExprParts, ExprNodes
  <2>4. top.blocks # <<>>
    BY <2>3, EmptySeq
  <2>5. PendingParts(top) = 3..3
    BY <2>3, <2>4, <1>1 DEF PendingParts
  <2>6. end \in Pending(top)
    BY <2>5 DEF Pending
  <2> QED
    BY <2>6, <1>2, PendingTop DEF IInv
<1>4. Open(code, at) /\ Open(code, end)
  <2>1. Open(code, at)
    BY <1>1, <1>2, IsOpen DEF IInv
  <2> QED
    BY <2>1, <1>3 DEF Open
<1>5. ASSUME NEW b \in DOMAIN code, ~Open(code, b)
      PROVE  code'[b] = code[b]
  <2>1. b # at /\ b # end
    BY <1>4, <1>5
  <2>2. DOMAIN e = DOMAIN code /\ e[b] = code[b]
    BY <2>1 DEF Emit
  <2> HIDE DEF e, end
  <2> QED
    BY <2>1, <2>2, <1>1
<1> QED
  BY <1>5 DEF EndedStay

LEMMA StatementsStay ==
    ASSUME IInv, visits # <<>>, Handled',
           \/ (\E last \in BOOLEAN : ReturnEmpty(last))
           \/ IfCondition \/ IfBlockEnd \/ IfEnd \/ LetEnd \/ ReturnEnd \/ FnEnd
    PROVE  EndedStay
<1>0. 0 \in Nat
  OBVIOUS
<1>1. CASE \E last \in BOOLEAN : ReturnEmpty(last)
  <2> DEFINE is == <<Instr("ret_void", NoReg, <<>>, <<>>)>>
  <2>1. code' = Emit(is) /\ notes \subseteq notes' /\ top.node = "block" /\ ~top.last
    BY <1>1 DEF ReturnEmpty, BlockNext, Note
  <2> HIDE DEF is
  <2> QED
    BY <1>0, <2>1, StepEmits
<1>2. CASE IfCondition
  <2> DEFINE n == Len(top.trees)
             cmp == NewReg("bool")
             is == <<Instr("icmp_eq", cmp, <<Popped, Const(0, "bool")>>, <<>>),
                     Instr("cond_br", NoReg, <<cmp>>, <<top.blocks[n], top.blocks[n + 1]>>)>>
  <2>1. code' = Emit(is) /\ notes \subseteq notes' /\ top.node = "if"
    BY <1>2, Zenon DEF IfCondition, Pops, Note, PartDone, Within
  <2> HIDE DEF is
  <2> QED
    BY <1>0, <2>1, StepEmits
<1>3. CASE IfBlockEnd
  <2> DEFINE is == <<Instr("br", NoReg, <<>>, <<Last(top.blocks)>>)>>
  <2>1. code' = Emit(is) /\ notes \subseteq notes' /\ top.node = "if"
    BY <1>3 DEF IfBlockEnd, Pops, Note, PartDone, Within
  <2> HIDE DEF is
  <2> QED
    BY <1>0, <2>1, StepEmits
<1>4. CASE IfEnd
  <2> DEFINE is == <<Instr("phi", NewReg(type_of), top.values, PhiBlocks)>>
  <2>1. code' = Emit(is) \/ code' = code
    BY <1>4 DEF IfEnd
  <2>2. notes' = notes /\ top.node = "if"
    BY <1>4 DEF IfEnd, PartNext, Within
  <2> HIDE DEF is
  <2> QED
    BY <1>0, <2>1, <2>2, StepEmits
<1>5. CASE LetEnd
  <2> DEFINE slot == NewReg(current_type)
             is == <<Instr("alloca", slot, <<>>, <<>>),
                     Instr("store", NoReg, <<Popped, slot>>, <<>>)>>
  <2>1. code' = Emit(is) /\ notes \subseteq notes' /\ top.node = "let"
    BY <1>5, Zenon DEF LetEnd, Pops, Note
  <2> HIDE DEF is
  <2> QED
    BY <1>0, <2>1, StepEmits
<1>6. CASE ReturnEnd
  <2> DEFINE is == <<Instr("ret", NoReg, <<Popped>>, <<>>)>>
  <2>1. code' = Emit(is) /\ notes \subseteq notes' /\ top.node = "return"
    BY <1>6 DEF ReturnEnd, Pops, Note, At, PartDone, Within
  <2> HIDE DEF is
  <2> QED
    BY <1>0, <2>1, StepEmits
<1>7. CASE FnEnd
  <2>1. top.node = "fn" /\ top.after
    BY <1>7 DEF FnEnd
  <2>2. CASE ~top.source
    <3> DEFINE is == <<Instr("ret_void", NoReg, <<>>, <<>>)>>
    <3>1. code' = Emit(is) /\ notes \subseteq notes'
      BY <1>7, <2>2 DEF FnEnd, Note
    <3> HIDE DEF is
    <3> QED
      BY <1>0, <2>1, <2>2, <3>1, StepEmits
  <2>3. CASE top.source /\ ir_code = <<>>
    BY <1>7, <2>3 DEF FnEnd, EndedStay
  <2>4. CASE top.source /\ ir_code # <<>>
    <3> DEFINE is == <<Instr("ret", NoReg, <<Popped>>, <<>>)>>
    <3>1. code' = Emit(is) /\ notes \subseteq notes'
      BY <1>7, <2>4 DEF FnEnd, Pops, Note
    <3> HIDE DEF is
    <3> QED
      BY <1>0, <2>1, <2>4, <3>1, StepEmits
  <2> QED
    BY <2>2, <2>3, <2>4
<1> QED
  BY <1>1, <1>2, <1>3, <1>4, <1>5, <1>6, <1>7

(* An if block appends its basic blocks. *)
LEMMA IfBeginStays ==
    ASSUME IInv, visits # <<>>, NEW last \in BOOLEAN, NEW branches \in 1..MaxBranches,
           NEW else \in BOOLEAN, IfBegin(last, branches, else)
    PROVE  EndedStay
<1> DEFINE n == 2 * branches + IF else THEN 1 ELSE 0
<1>1. code' = code \o NewBlocks(n)
  BY DEF IfBegin
<1>2. n \in Nat
  BY BoundsAssumption
<1> HIDE DEF n
<1>3. /\ DOMAIN code = 1..Len(code) /\ Len(code) \in Nat
      /\ code \in Seq(Seq(InstrSet)) /\ NewBlocks(n) \in Seq(Seq(InstrSet))
  <2>1. code \in Seq(Seq(InstrSet))
    BY DEF IInv, TypeInv, CodeType
  <2>2. NewBlocks(n) \in Seq(Seq(InstrSet))
    BY <1>2, EmptySeq DEF NewBlocks
  <2> QED
    BY <2>1, <2>2, LenProperties
<1> DEFINE m == Len(code)
           k == Len(NewBlocks(n))
<1>4. k \in Nat /\ m \in Nat /\ DOMAIN code = 1..m
  BY <1>3, LenProperties
<1>5. \A b \in 1..(m + k) : code'[b] = IF b <= m THEN code[b] ELSE NewBlocks(n)[b - m]
  BY <1>1, <1>3, ConcatProperties
<1> HIDE DEF m, k
<1>6. \A b \in DOMAIN code : code'[b] = code[b]
  BY <1>4, <1>5
<1> QED
  BY <1>6 DEF EndedStay

LEMMA VisitStays ==
    ASSUME IInv, visits # <<>>, Handled', VisitNext
    PROVE  EndedStay
<1>1. CASE \/ \E id \in Visible : VarRef(id)
           \/ UnaryEnd \/ BinaryEnd \/ IfExprCondition \/ IfExprThen \/ CallEnd
  BY <1>1, ExpressionsStay
<1>2. CASE IfExprElse
  BY <1>2, IfExprElseStays
<1>3. CASE \/ \E last \in BOOLEAN : ReturnEmpty(last)
           \/ IfCondition \/ IfBlockEnd \/ IfEnd \/ LetEnd \/ ReturnEnd
           \/ FnEnd
  BY <1>3, StatementsStay
<1>4. CASE \E last \in BOOLEAN : \E branches \in 1..MaxBranches, else \in BOOLEAN :
              IfBegin(last, branches, else)
  BY <1>4, IfBeginStays
<1>5. CASE code' = code
  BY <1>5 DEF EndedStay
<1>6. CASE \E type \in Data : Literal(type) \/ IfExprBegin(type)
  BY <1>5, <1>6 DEF Literal, IfExprBegin, Operation, builder
<1>7. CASE \E op \in UnaryOps : UnaryBegin(op)
  BY <1>5, <1>7 DEF UnaryBegin, Operation, builder
<1>8. CASE \E op \in BinaryOps : BinaryBegin(op)
  BY <1>5, <1>8 DEF BinaryBegin, Operation, builder
<1>9. CASE BinaryLeft \/ CallArg \/ CallUnknown
  BY <1>5, <1>9 DEF BinaryLeft, CallArg, CallUnknown, builder
<1>10. CASE Calls
  BY <1>5, <1>10 DEF Calls, CallBegin, WildCallBegin, Call, Operation, builder
<1>11. CASE \E last \in BOOLEAN : \E type \in Data : LetBegin(last, type)
  BY <1>5, <1>11 DEF LetBegin, Simple
<1>12. CASE \E last \in BOOLEAN : ExprBegin(last) \/ ReturnBegin(last) \/ DoBlock(last)
  BY <1>5, <1>12 DEF ExprBegin, ReturnBegin, DoBlock, Simple
<1>13. CASE IfBlock \/ BlockEnd \/ ExprStmtEnd
  BY <1>5, <1>13 DEF IfBlock, BlockEnd, ExprStmtEnd, builder
<1>14. CASE FnVerify \/ ExpectFails
  BY <1>5, <1>14 DEF FnVerify, ExpectFails, builder
<1> QED
  BY <1>1, <1>2, <1>3, <1>4, <1>6, <1>7, <1>8, <1>9, <1>10, <1>11, <1>12, <1>13, <1>14
     DEF VisitNext

LEMMA NextStays ==
    ASSUME IInv, [Next]_vars, visits # <<>>, Handled'
    PROVE  EndedStay
<1>1. CASE FnBegin \/ SkipTypedef \/ UnitEnd
  BY <1>1 DEF FnBegin, SkipTypedef, UnitEnd, AtItem
<1>2. CASE VisitNext
  BY <1>2, VisitStays
<1>3. CASE UNCHANGED vars
  BY <1>3 DEF vars, builder, EndedStay
<1> QED
  BY <1>1, <1>2, <1>3, NextIs DEF Ended

-----------------------------------------------------------------------------
(* The theorems. *)

LEMMA FieldsOfVisits ==
    ASSUME NEW v, VisitType(v)
    PROVE  [f \in DOMAIN v \ {"trees"} |-> v[f]] \in VisitFields
<1> DEFINE r == [f \in DOMAIN v \ {"trees"} |-> v[f]]
           s == [node |-> v.node, op |-> v.op, fn |-> v.fn, args |-> v.args, want |-> v.want,
                 values |-> v.values, blocks |-> v.blocks, after |-> v.after,
                 source |-> v.source, last |-> v.last, branches |-> v.branches,
                 tail |-> v.tail, base |-> v.base, declared |-> v.declared]
<1>1. v.values \in Seq(Values)
  BY ValueFacts, SeqMonotonic DEF VisitType
<1>2. s \in VisitFields
  BY <1>1 DEF VisitType, VisitFields, Nodes
<1>3. r = s
  <2> DEFINE names == {"node", "op", "fn", "args", "want", "values", "blocks", "after", "source",
                       "last", "branches", "tail", "base", "declared"}
  <2>1. DOMAIN v \ {"trees"} = names
    BY DEF VisitType
  <2>2. r = [f \in names |-> v[f]]
    BY <2>1
  <2>3. s = [f \in names |-> v[f]]
    OBVIOUS
  <2> QED
    BY <2>2, <2>3
<1> QED
  BY <1>2, <1>3

(* The sources that are left of Names are counted up and down. *)
SourcesType == lvalues \in Nat

LEMMA SourcesCounted ==
    ASSUME SourcesType, [Next]_vars
    PROVE  SourcesType'
<1> USE DEF SourcesType
<1>1. PopSource(lvalues) \in Nat
  BY DEF PopSource
<1>2. CASE FnBegin \/ SkipTypedef \/ UnitEnd
  BY <1>1, <1>2 DEF FnBegin, SkipTypedef, UnitEnd
<1>3. CASE VisitNext
  <2>1. ASSUME NEW type \in Data, Literal(type) \/ IfExprBegin(type)
        PROVE  lvalues' = lvalues
    BY <2>1 DEF Literal, IfExprBegin, Operation, Expression
  <2>2. ASSUME NEW id \in Visible, VarRef(id)
        PROVE  lvalues' = lvalues
    BY <2>2 DEF VarRef, Expression
  <2>3. ASSUME NEW op, UnaryBegin(op) \/ BinaryBegin(op)
        PROVE  lvalues' = lvalues
    BY <2>3 DEF UnaryBegin, BinaryBegin, Operation, Expression
  <2>4. CASE Calls
    BY <2>4 DEF Calls, CallBegin, WildCallBegin, Call, Operation, Expression
  <2>5. ASSUME NEW last \in BOOLEAN, NEW type \in Data, LetBegin(last, type)
        PROVE  lvalues' \in Nat
    BY <2>5 DEF LetBegin, LeavesSource
  <2>6. ASSUME NEW last \in BOOLEAN, ExprBegin(last) \/ ReturnBegin(last) \/ ReturnEmpty(last)
        PROVE  lvalues' \in Nat
    BY <2>6 DEF ExprBegin, ReturnBegin, ReturnEmpty, LeavesSource
  <2>7. ASSUME NEW last \in BOOLEAN, DoBlock(last)
        PROVE  lvalues' = lvalues
    BY <2>7 DEF DoBlock
  <2>8. ASSUME NEW last \in BOOLEAN, NEW branches \in 1..MaxBranches, NEW else \in BOOLEAN,
               IfBegin(last, branches, else)
        PROVE  lvalues' = lvalues
    BY <2>8 DEF IfBegin
  <2>9. CASE \/ UnaryEnd \/ BinaryLeft \/ BinaryEnd
             \/ IfExprCondition \/ IfExprThen \/ IfExprElse \/ CallArg \/ CallEnd
    BY <2>9 DEF UnaryEnd, BinaryLeft, BinaryEnd, IfExprCondition, IfExprThen, IfExprElse,
                CallArg, CallEnd, At, PartDone, Within
  <2>10. CASE \/ IfCondition \/ IfBlock \/ IfBlockEnd \/ IfEnd
              \/ BlockEnd \/ ReturnEnd \/ ExprStmtEnd
    BY <2>10 DEF IfCondition, IfBlock, IfBlockEnd, IfEnd, BlockEnd, ReturnEnd, ExprStmtEnd,
                 At, PartDone, PartNext, Within
  <2>11. CASE CallUnknown \/ LetEnd \/ FnEnd \/ FnVerify \/ ExpectFails
    BY <2>11, <1>1 DEF CallUnknown, LetEnd, FnEnd, FnVerify, ExpectFails
  <2> QED
    BY <1>3, <2>1, <2>2, <2>3, <2>4, <2>5, <2>6, <2>7, <2>8, <2>9, <2>10, <2>11 DEF VisitNext
<1>4. CASE UNCHANGED vars
  BY <1>4 DEF vars
<1> QED
  BY <1>2, <1>3, <1>4, NextIs DEF Ended

LEMMA InvTypes ==
    ASSUME IInv, SourcesType
    PROVE  TypeOK
<1> USE DEF IInv
<1>1. /\ unit \in {u.items : u \in Units}
      /\ stage \in {"compile", "compiled", "panic"}
      /\ item \in Nat /\ current_type \in Types /\ regs \in Nat
      /\ \A id \in DOMAIN types : types[id] \in Data
      /\ \A id \in DOMAIN scope_manager : scope_manager[id] \in Values
      /\ at \in DOMAIN code \cup {0}
      /\ ir_code \in Seq(Value) /\ CodeType(code)
  BY DEF TypeInv
<1>2. ir_code \in Seq(Values)
  BY <1>1, ValueFacts, SeqMonotonic
<1>3. \A v \in DOMAIN visits :
         [f \in DOMAIN visits[v] \ {"trees"} |-> visits[v][f]] \in VisitFields
  <2> SUFFICES ASSUME NEW v \in DOMAIN visits
               PROVE  [f \in DOMAIN visits[v] \ {"trees"} |-> visits[v][f]] \in VisitFields
    OBVIOUS
  <2>1. VisitType(visits[v])
    BY SeqItems DEF ShapeInv, Shape, Local
  <2> QED
    BY <2>1, FieldsOfVisits
<1>4. \A b \in DOMAIN code : \A i \in DOMAIN code[b] :
          /\ code[b][i].def \in Values
          /\ code[b][i].args \in Seq(Values)
          /\ ToSet(code[b][i].blocks) \subseteq DOMAIN code
  <2> SUFFICES ASSUME NEW b \in DOMAIN code, NEW i \in DOMAIN code[b]
               PROVE  /\ code[b][i].def \in Values
                      /\ code[b][i].args \in Seq(Values)
                      /\ ToSet(code[b][i].blocks) \subseteq DOMAIN code
    OBVIOUS
  <2>1. code[b] \in Seq(InstrSet)
    BY <1>1, LenProperties, ElementOfSeq DEF CodeType
  <2>2. code[b][i] \in InstrSet
    BY <2>1, LenProperties, ElementOfSeq
  <2> QED
    BY <2>2, <1>1, ValueFacts DEF InstrSet, CodeType
<1> QED
  BY <1>1, <1>2, <1>3, <1>4 DEF TypeOK, SourcesType

(* The invariant holds always: the visitor's calls nest as the tree does,    *)
(* the stack holds what the parts have left, and the builder is where        *)
(* instructions may be added.                                                *)
THEOREM VisitsAreInOrder == Spec => []IInv
<1>1. Init => IInv
  BY InitIInv
<1>2. IInv /\ [Next]_vars => IInv'
  BY NextKeepsInv
<1> QED
  BY <1>1, <1>2, PTL DEF Spec

(* ModuleCompiler's state and the basic blocks it builds have their types:   *)
(* what the visitors pop, keep and append is a value, and a branch goes to a *)
(* basic block that there is.                                                *)
THEOREM GeneratorTypes == Spec => []TypeOK
<1>1. IInv /\ SourcesType => TypeOK
  BY InvTypes
<1>2. Init => SourcesType
  BY DEF Init, SourcesType
<1>3. SourcesType /\ [Next]_vars => SourcesType'
  BY SourcesCounted
<1> QED
  BY <1>1, <1>2, <1>3, VisitsAreInOrder, PTL DEF Spec

(* ir_code.pop() takes the value that the part just visited has left, where  *)
(* the generator can handle the function: not one that an expression         *)
(* statement, of it or of a function before it, left behind.                 *)
THEOREM ValuesAreTheirs == Spec => []ValuesAreOfTheirPart
<1>1. IInv => ValuesAreOfTheirPart
  BY DEF IInv, StackInv, ValuesAreOfTheirPart
<1> QED
  BY <1>1, VisitsAreInOrder, PTL

(* The builder adds nothing to a basic block after its terminator: each      *)
(* visitor that ends a block moves the builder on, or is the last to build.  *)
THEOREM EndedBlocksAreLeft == Spec => EndedBlocksStay
<1>1. IInv /\ [Next]_vars =>
          [visits # <<>> /\ Handled' =>
              \A b \in DOMAIN code :
                 code[b] # <<>> /\ Last(code[b]).op \in Terminators => code'[b] = code[b]]_vars
  <2> SUFFICES ASSUME IInv, [Next]_vars, visits # <<>>, Handled'
               PROVE  \A b \in DOMAIN code :
                         code[b] # <<>> /\ Last(code[b]).op \in Terminators =>
                             code'[b] = code[b]
    OBVIOUS
  <2> QED
    BY NextStays DEF EndedStay, Open
<1> QED
  BY <1>1, VisitsAreInOrder, PTL DEF Spec, EndedBlocksStay
=============================================================================

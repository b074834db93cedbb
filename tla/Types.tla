------------------------------- MODULE Types --------------------------------
(***************************************************************************)
(* Type checking: ItemTypeIdentifier names the types of the items,         *)
(* ItemTypographer and ExprTypographer (src/src/identify/types/) draw a    *)
(* graph of the types that must agree, and TypeConcretifier                *)
(* (src/src/check/types/) searches it for the type of each variable.       *)
(*                                                                         *)
(* The tree comes from Names: its ids are unique and every name is known.  *)
(* A block or an if has a source if its value is that of a valued function *)
(* (TailsHaveSources), or that of a function for which Names found one     *)
(* left over (OnlyValuedFnsNeedValues); lvalues follows what it leaves.    *)
(* The items are fixed at the start; the body of a function is chosen,     *)
(* node by node, as ExprTypographer visits it, and the ids that            *)
(* TypeConcretifier will ask for are noted.  Assignments do not get here:  *)
(* Names refuses all of them.                                              *)
(***************************************************************************)
EXTENDS Naturals, SequencesExt

CONSTANTS
    TypeNames,      \* names of types that the text uses
    Units,          \* the units to check: their items, and as a bound how many
                    \* nodes their functions have, and of which forms
    MaxBranches,    \* bound: conditionals of one if block
    MaxArgs         \* bound: arguments of one call

VARIABLES
    unit,           \* the items
    stage,          \* the visitor that runs, or how checking ended
    item,           \* the item that is visited
    type_ids,       \* per item: the ids of its type expressions
    names,          \* TypeScopeBuilder::names
    types,          \* TypeScopeBuilder::types
    concrete,       \* TypeGraph::types: the ids that have a node
    variables,      \* TypeGraph::variables: likewise
    temps,          \* nodes of expressions, arguments and results of calls
    edges,
    visits,         \* the visitor's calls
    fn_ret_type,
    asked,          \* the ids that TypeConcretifier will infer
    results,        \* TypeConcretifier::results
    errors,
    ids,            \* ids of nodes within functions, counted
    lvalues,        \* OriginManager: the sources that Names has left after the
                    \* statements visited so far
    budget,         \* the nodes that may still come, and their forms
    claims          \* history: what the text says of types

scope == <<type_ids, names, types>>
graph == <<concrete, variables, temps, edges>>
vars == <<unit, stage, item, scope, graph, visits, fn_ret_type, asked, results,
          errors, ids, lvalues, budget, claims>>

Primitives == {"()", "bool", "float"}

(* No name is "()": it stands for the return type that a function leaves out. *)
TextNames == TypeNames \ {"()"}

Item == [kind : {"Fn"}, params : Seq(TextNames), ret : TypeNames]
            \cup [kind : {"Typedef"}, name : TextNames, type : TextNames]

(* The forms that are counted: not an expression as the last statement of a  *)
(* block, and not a number, which are always possible.                       *)
Forms == {"let", "typed_let", "return", "empty_return", "stmt", "do", "if",
          "bool", "var", "if_expr", "unary", "equality", "comparison", "arithmetic",
          "call"}

ASSUME UnitsAssumption ==
    \A u \in Units :
        /\ u.items \in Seq(Item)
        /\ u.forms \subseteq Forms
        /\ u.nodes \in Nat
ASSUME BoundsAssumption ==
    MaxBranches \in Nat /\ MaxArgs \in Nat

(* Ids: the primitives have the first ones; then those that Names gives, up  *)
(* to renaming, to the items, their parameters and the nodes inside.         *)
None == <<>>
PrimitiveId == [name \in Primitives |->
                   CASE name = "()" -> <<1>> [] name = "bool" -> <<2>>
                     [] name = "float" -> <<3>>]
ItemId(i) == <<0, i>>
ParamId(i, p) == <<0, i, p>>
NewId == <<0, 0, 0, ids + 1>>

(* ConcreteType: a NamedType by its name, or a FnType. *)
Named(name) == <<name>>
Function(args, ret) == <<"fn", args, ret>>

(* The nodes of the graph. *)
Type(id) == <<"type", id>>
Var(id) == <<"var", id>>
Temp(n) == <<"temp", <<n>>>>
NoNode == <<"none", None>>

Nodes == {Type(id) : id \in concrete} \cup {Var(id) : id \in variables}
             \cup {Temp(n) : n \in 1..temps}

(* A call of the visitor: the node, and the current_type left by each of the *)
(* children visited so far, of as many as it has.  Of the statements of a    *)
(* block the last one counts.                                                *)
Visit == [node : {"fn", "block", "if", "let", "return", "stmt", "if_expr", "unary",
                  "equality", "comparison", "arithmetic", "call"},
          id : Seq(Nat),        \* of a let: that of its type expression, or None
          arity : Nat,
          children : Seq(Nodes),
          source : BOOLEAN,     \* has_source()
          phase : {"start", "stmts", "last"},
          declared : SUBSET Seq(Nat)]   \* history: the variables of a block

NewVisit(node, id, arity) ==
    [node |-> node, id |-> id, arity |-> arity, children |-> <<>>,
     source |-> FALSE, phase |-> "start", declared |-> {}]

top == visits[Len(visits)]

TypeOK ==
    /\ [items |-> unit, forms |-> budget.forms] \in
          {[items |-> u.items, forms |-> u.forms] : u \in Units}
    /\ stage \in {"identify", "items", "expressions", "concretify",
                  "accepted", "rejected", "panic"}
    /\ item \in Nat
    /\ DOMAIN names \subseteq TypeNames \cup Primitives
    /\ \A n \in DOMAIN names : names[n] \in DOMAIN types
    /\ concrete \subseteq DOMAIN types
    /\ temps \in Nat
    /\ edges \subseteq Nodes \X Nodes
    /\ visits \in Seq(Visit)
    /\ fn_ret_type \in Nodes \cup {NoNode}
    /\ asked \in Seq(Seq(Nat))
    /\ DOMAIN results \subseteq variables
    /\ errors \subseteq {"UnknownType", "Circular", "NoInfo", "Conflict"}
    /\ ids \in Nat
    /\ lvalues \in Seq(Seq(Nat))
    /\ budget.nodes \in Nat

-----------------------------------------------------------------------------
(* TypeGraph. *)

(* A fault: only the types.                                                  *)
GetTypeNotAlias(id) == IF id \in concrete THEN Type(id) ELSE NoNode

GetType(id) ==
    IF id \in concrete THEN Type(id)
    ELSE IF id \in variables THEN Var(id) ELSE NoNode

(* HashMap::insert *)
Put(map, key, value) ==
    [k \in DOMAIN map \cup {key} |-> IF k = key THEN value ELSE map[k]]

(* add_type: the ids of S that have no node yet get one, and the node of id. *)
Missing(S) == {id \in S : GetType(id) = NoNode}
AddedType(id) == IF GetType(id) = NoNode THEN Type(id) ELSE GetType(id)

(* primitive_type_ix *)
Primitive(name) == GetType(names[name])

(* The nodes that are reached from S along the edges in E. *)
Reached(S, E) ==
    LET search[T \in SUBSET Nodes] ==
            LET more == T \cup {e[2] : e \in {d \in E : d[1] \in T}}
            IN IF more = T THEN T ELSE search[more]
    IN search[S]

(* infer_type_of_var: the concrete types that the search finds. *)
Found(id) ==
    LET reached == Reached({Var(id)}, edges)
    IN {t \in concrete : Type(t) \in reached}

-----------------------------------------------------------------------------
(* ItemTypeIdentifier. *)

NoClaims == [declared |-> {}, returned |-> {}, arithmetic |-> {}, condition |-> {},
             equality |-> {}, branches |-> {}, calls |-> {}, empty |-> FALSE]

Init ==
    /\ \E u \in Units : unit = u.items /\ budget = [forms |-> u.forms, nodes |-> u.nodes]
    /\ stage = "identify"
    /\ item = 1
    /\ type_ids = [i \in DOMAIN unit |-> <<>>]
    /\ names = PrimitiveId
    /\ types = [id \in {PrimitiveId[n] : n \in Primitives} |->
                   Named(CHOOSE n \in Primitives : PrimitiveId[n] = id)]
    /\ concrete = {PrimitiveId[n] : n \in Primitives}
    /\ variables = {} /\ temps = 0 /\ edges = {}
    /\ visits = <<>>
    /\ fn_ret_type = NoNode
    /\ asked = <<>> /\ results = <<>> /\ errors = {}
    /\ ids = 0
    /\ lvalues = <<>>
    /\ claims = NoClaims

AtItem(s, kind) ==
    /\ stage = s
    /\ visits = <<>>
    /\ item \in DOMAIN unit
    /\ unit[item].kind = kind

(* The type expressions of the item. *)
TypeExprs ==
    IF unit[item].kind = "Fn" THEN Append(unit[item].params, unit[item].ret)
    ELSE <<unit[item].type>>

(* TypeIdentifier, for each of them: the first unknown type ends the visit.  *)
TypesKnown == \A e \in DOMAIN TypeExprs : TypeExprs[e] \in DOMAIN names

IdentifyTypes ==
    type_ids' = [type_ids EXCEPT ![item] = [e \in DOMAIN TypeExprs |-> names[TypeExprs[e]]]]

IdentifyUnknown ==
    /\ stage = "identify" /\ item \in DOMAIN unit
    /\ ~TypesKnown
    /\ errors' = errors \cup {"UnknownType"}
    /\ item' = item + 1
    /\ UNCHANGED <<unit, stage, scope, graph, visits, fn_ret_type, asked, results,
                   ids, lvalues, budget, claims>>

IdentifyFn ==
    /\ AtItem("identify", "Fn")
    /\ TypesKnown
    /\ IdentifyTypes
    /\ LET of == [e \in DOMAIN TypeExprs |-> types[names[TypeExprs[e]]]]
       IN types' = Put(types, ItemId(item), Function(Front(of), Last(of)))
    /\ item' = item + 1
    /\ UNCHANGED <<unit, stage, names, graph, visits, fn_ret_type, asked, results,
                   errors, ids, lvalues, budget, claims>>

(* A second typedef of a name is an error of Names, but one of a primitive   *)
(* takes its place.                                                          *)
IdentifyTypedef ==
    /\ AtItem("identify", "Typedef")
    /\ TypesKnown
    /\ IdentifyTypes
    /\ LET id == ItemId(item)
           of == names[unit[item].type]
       IN /\ errors' = errors \cup IF of = id THEN {"Circular"} ELSE {}
          /\ names' = Put(names, unit[item].name, id)
          /\ types' = Put(types, id, types[of])
    /\ item' = item + 1
    /\ UNCHANGED <<unit, stage, graph, visits, fn_ret_type, asked, results,
                   ids, lvalues, budget, claims>>

(* A stage ends after the last item.  IdentifyRunner and CheckRunner go on   *)
(* only without errors.                                                      *)
NextStage ==
    /\ stage \in {"identify", "items", "expressions"}
    /\ visits = <<>>
    /\ item = Len(unit) + 1
    /\ item' = 1
    /\ stage' = IF errors # {} THEN "rejected"
                ELSE CASE stage = "identify"    -> "items"
                       [] stage = "items"       -> "expressions"
                       [] stage = "expressions" -> "concretify"
    /\ UNCHANGED <<unit, scope, graph, visits, fn_ret_type, asked, results, errors,
                   ids, lvalues, budget, claims>>

-----------------------------------------------------------------------------
(* ItemTypographer. *)

Params == DOMAIN unit[item].params

ParamType(p) == type_ids[item][p]
RetType == Last(type_ids[item])

ParamEdges == {<<Var(ParamId(item, p)), AddedType(ParamType(p))>> : p \in Params}

ItemFn ==
    /\ AtItem("items", "Fn")
    /\ concrete' = concrete \cup {ItemId(item)} \cup Missing({ParamType(p) : p \in Params})
    /\ variables' = variables \cup {ParamId(item, p) : p \in Params}
    /\ edges' = edges \cup ParamEdges
    /\ item' = item + 1
    /\ UNCHANGED <<unit, stage, scope, temps, visits, fn_ret_type, asked, results,
                   errors, ids, lvalues, budget, claims>>

ItemTypedef ==
    /\ AtItem("items", "Typedef")
    /\ concrete' = concrete \cup Missing({RetType})
    /\ variables' = variables \cup {ItemId(item)}
    /\ edges' = edges \cup {<<Var(ItemId(item)), AddedType(RetType)>>}
    /\ item' = item + 1
    /\ UNCHANGED <<unit, stage, scope, temps, visits, fn_ret_type, asked, results,
                   errors, ids, lvalues, budget, claims>>

-----------------------------------------------------------------------------
(* ExprTypographer, and what TypeConcretifier will ask for at each node. *)

NeedRetValue == RetType # names["()"]

(* The block of a node with the id source. *)
BlockVisit(source, id) ==
    [NewVisit("block", IF source = None THEN None ELSE id, 1) EXCEPT !.source = source # None]

(* What Names leaves on its stack of sources goes to the next function that  *)
(* has no return type.                                                       *)
FnSource ==
    IF NeedRetValue THEN ItemId(item)
    ELSE IF lvalues = <<>> THEN None ELSE Last(lvalues)

PopSource == IF lvalues = <<>> THEN lvalues ELSE Front(lvalues)

AsksOf(source, id) == IF source = None THEN <<>> ELSE <<source, id>>

FnBegin ==
    /\ AtItem("expressions", "Fn")
    /\ LET id == ItemId(item)
           source == FnSource
       IN /\ concrete' = concrete \cup Missing({ParamType(p) : p \in Params})
          /\ variables' = variables \cup {id} \cup {ParamId(item, p) : p \in Params}
          /\ edges' = edges \cup {<<Var(id), AddedType(id)>>} \cup ParamEdges
          /\ fn_ret_type' = GetType(RetType)
          /\ visits' = <<NewVisit("fn", id, 1), BlockVisit(source, NewId)>>
          /\ asked' = asked \o <<id>> \o [p \in Params |-> ParamId(item, p)]
                          \o AsksOf(source, NewId)
          /\ claims' = [claims EXCEPT
                !.declared = @ \cup {<<Var(ParamId(item, p)), ParamType(p)>> : p \in Params},
                !.returned = @ \cup IF NeedRetValue THEN {<<Var(NewId), RetType>>} ELSE {}]
    /\ lvalues' = IF NeedRetValue THEN lvalues ELSE PopSource
    /\ ids' = ids + 1
    /\ UNCHANGED <<unit, stage, item, scope, temps, results, errors, budget>>

SkipTypedef ==
    /\ AtItem("expressions", "Typedef")
    /\ asked' = Append(asked, ItemId(item))
    /\ item' = item + 1
    /\ UNCHANGED <<unit, stage, scope, graph, visits, fn_ret_type, results, errors,
                   ids, lvalues, budget, claims>>

(* The visits vs with the type t left for the top one. *)
Leave(vs, t) ==
    IF Last(vs).node = "block" /\ Last(vs).phase # "last" THEN vs
    ELSE [vs EXCEPT ![Len(vs)].children = Append(@, t)]

(* What the visitor goes on with. *)
Awaits(v) ==
    IF Len(v.children) = v.arity THEN "end"
    ELSE CASE v.node = "block" -> "stmt"
           [] v.node = "if" /\ (Len(v.children) % 2 = 1 \/ Len(v.children) + 1 = v.arity)
                     -> "block"
           [] OTHER -> "expr"

Visits(what) ==
    /\ stage = "expressions"
    /\ visits # <<>>
    /\ Awaits(top) = what
    /\ UNCHANGED <<unit, scope, results, errors>>

Goes(what) == Visits(what) /\ UNCHANGED item

child == top.children[1]

Draw(new) == edges' = edges \cup new

(* A new node of the graph, and the edges from it to each of ts. *)
NewTemp == Temp(temps + 1)

Asks(more) == asked' = asked \o more

-----------------------------------------------------------------------------
(* Expressions. *)

Visible ==
    {ItemId(i) : i \in DOMAIN unit} \cup {ParamId(item, p) : p \in Params}
        \cup UNION {visits[v].declared : v \in DOMAIN visits}

Counted(form) ==
    /\ form \in budget.forms
    /\ budget.nodes > 0
    /\ budget' = [budget EXCEPT !.nodes = @ - 1]

Expression(form) ==
    /\ Goes("expr")
    /\ Counted(form)
    /\ UNCHANGED <<concrete, variables, fn_ret_type, ids, lvalues>>

Literal(name) ==
    /\ Goes("expr")
    /\ IF name = "float" THEN UNCHANGED budget ELSE Counted(name)
    /\ temps' = temps + 1
    /\ Draw({<<NewTemp, Primitive(name)>>})
    /\ visits' = Leave(visits, NewTemp)
    /\ UNCHANGED <<stage, concrete, variables, fn_ret_type, asked, ids, lvalues, claims>>

(* A function that is a value before its declaration has been visited is not *)
(* in the graph: expect fails.                                               *)
VarRef(id) ==
    /\ Expression("var")
    /\ IF id \in variables
       THEN /\ visits' = Leave(visits, Var(id))
            /\ Asks(<<id>>)
            /\ UNCHANGED stage
       ELSE /\ stage' = "panic"
            /\ UNCHANGED <<visits, asked>>
    /\ UNCHANGED <<temps, edges, claims>>

Operation(node, arity) ==
    /\ Expression(node)
    /\ visits' = Append(visits, NewVisit(node, None, arity))
    /\ UNCHANGED <<stage, temps, edges, asked, claims>>

(* Every name in scope has a node. *)
Call(id, args) ==
    /\ Expression("call")
    /\ GetType(id) # NoNode
    /\ visits' = Append(visits, NewVisit("call", id, args))
    /\ Asks(<<id>>)
    /\ claims' = [claims EXCEPT !.calls = @ \cup {id}]
    /\ UNCHANGED <<stage, temps, edges>>

ExprEnd(node) ==
    /\ Goes("end")
    /\ top.node = node
    /\ UNCHANGED <<stage, concrete, variables, fn_ret_type, asked, ids, lvalues, budget>>

(* A fault: the value of the expression is forgotten.                        *)
IfExprEdgesBranches(t, left, right) == {<<right, left>>}

IfExprEdges(t, left, right) == {<<right, left>>, <<t, left>>}

IfExprEnd ==
    /\ ExprEnd("if_expr")
    /\ temps' = temps + 1
    /\ LET left == top.children[2]
           right == top.children[3]
       IN /\ Draw({<<child, Primitive("bool")>>} \cup IfExprEdges(NewTemp, left, right))
          /\ claims' = [claims EXCEPT !.condition = @ \cup {child},
                                      !.equality = @ \cup {<<left, right>>},
                                      !.branches = @ \cup {[if |-> NewTemp, else |-> right]}]
    /\ visits' = Leave(Front(visits), NewTemp)

(* The type of the operand is left for that of the operation. *)
UnaryEnd ==
    /\ ExprEnd("unary")
    /\ temps' = temps + 1
    /\ Draw({<<child, Primitive("float")>>, <<NewTemp, Primitive("float")>>})
    /\ visits' = Leave(Front(visits), child)
    /\ claims' = [claims EXCEPT !.arithmetic = @ \cup {child}]

(* A fault: the right operand of a comparison is not looked at.              *)
BinaryEdgesLeft(node, t, left, right) ==
    CASE node = "equality"   -> {<<right, left>>, <<t, Primitive("bool")>>}
      [] node = "comparison" -> {<<left, Primitive("float")>>, <<t, Primitive("bool")>>}
      [] node = "arithmetic" -> {<<left, Primitive("float")>>, <<right, Primitive("float")>>,
                                 <<t, Primitive("float")>>}

(* The edges of a binary operation t with an operator of the kind of node. *)
BinaryEdges(node, t, left, right) ==
    CASE node = "equality"   -> {<<right, left>>, <<t, Primitive("bool")>>}
      [] node = "comparison" -> {<<left, Primitive("float")>>, <<right, Primitive("float")>>,
                                 <<t, Primitive("bool")>>}
      [] node = "arithmetic" -> {<<left, Primitive("float")>>, <<right, Primitive("float")>>,
                                 <<t, Primitive("float")>>}

BinaryEnd(node) ==
    /\ ExprEnd(node)
    /\ temps' = temps + 1
    /\ LET right == top.children[2]
       IN /\ Draw(BinaryEdges(node, NewTemp, child, right))
          /\ claims' = IF node = "equality"
                       THEN [claims EXCEPT !.equality = @ \cup {<<child, right>>}]
                       ELSE [claims EXCEPT !.arithmetic = @ \cup {child, right}]
    /\ visits' = Leave(Front(visits), NewTemp)

(* Nothing leads from the nodes of a call to the type of the function. *)
CallEnd ==
    /\ ExprEnd("call")
    /\ temps' = temps + top.arity + 1
    /\ Draw({<<Temp(temps + a), top.children[a]>> : a \in 1..top.arity})
    /\ visits' = Leave(Front(visits), Temp(temps + top.arity + 1))
    /\ UNCHANGED claims

-----------------------------------------------------------------------------
(* Statements and blocks. *)

(* The next statement of a block: of those before the last one the type is   *)
(* not looked at.                                                            *)
Statement ==
    /\ Goes("stmt")
    /\ UNCHANGED <<stage, concrete, temps, fn_ret_type>>

AtPhase(last) ==
    [visits EXCEPT ![Len(visits)].phase = IF last THEN "last" ELSE "stmts"]

(* The source that Names puts up for the last statement of a block is taken  *)
(* by a block; after any other statement it is left on the stack.            *)
LeftBy(last) == IF last /\ top.source THEN Append(lvalues, top.id) ELSE lvalues

Simple(last) ==
    /\ Statement
    /\ lvalues' = LeftBy(last)
    /\ UNCHANGED <<variables, asked, ids>>

(* type is the id of the declared type, or None. *)
LetBegin(last, type) ==
    /\ Simple(last)
    /\ Counted(IF type = None THEN "let" ELSE "typed_let")
    /\ visits' = Append(AtPhase(last), NewVisit("let", type, 1))
    /\ UNCHANGED <<edges, claims>>

ReturnBegin(last) ==
    /\ Simple(last)
    /\ Counted("return")
    /\ visits' = Append(AtPhase(last), NewVisit("return", None, 1))
    /\ UNCHANGED <<edges, claims>>

(* A fault: the other way round.                                             *)
EmptyReturnEdgesBack == {<<Primitive("()"), fn_ret_type>>}

EmptyReturnEdges == {<<fn_ret_type, Primitive("()")>>}

ReturnEmpty(last) ==
    /\ Simple(last)
    /\ Counted("empty_return")
    /\ Draw(EmptyReturnEdges)
    /\ visits' = Leave(AtPhase(last), Primitive("()"))
    /\ claims' = [claims EXCEPT !.empty = @ \/ NeedRetValue]

ExprBegin(last) ==
    /\ Simple(last)
    /\ IF last THEN UNCHANGED budget ELSE Counted("stmt")
    /\ visits' = Append(AtPhase(last), NewVisit("stmt", None, 1))
    /\ UNCHANGED <<edges, claims>>

Nested(form) ==
    /\ Statement
    /\ Counted(form)
    /\ ids' = ids + 1
    /\ UNCHANGED <<lvalues, edges, claims>>

DoBlock(last) ==
    /\ Nested("do")
    /\ LET source == IF last /\ top.source THEN top.id ELSE None
       IN /\ visits' = Append(AtPhase(last), BlockVisit(source, NewId))
          /\ Asks(AsksOf(source, NewId))
    /\ UNCHANGED variables

IfBegin(last, branches, else) ==
    /\ Nested("if")
    /\ LET valued == last /\ top.source
           arity == 2 * branches + IF else THEN 1 ELSE 0
       IN /\ valued => else
          /\ visits' = Append(AtPhase(last),
                              [NewVisit("if", NewId, arity) EXCEPT !.source = valued])
    /\ variables' = variables \cup {NewId}
    /\ UNCHANGED asked

IfBlock ==
    /\ Goes("block")
    /\ LET source == IF top.source THEN top.id ELSE None
       IN /\ visits' = Append(visits, BlockVisit(source, NewId))
          /\ Asks(AsksOf(source, NewId))
    /\ ids' = ids + 1
    /\ UNCHANGED <<stage, graph, fn_ret_type, lvalues, budget, claims>>

(* Names has refused it where a value is needed. *)
EmptyBlock ==
    /\ Goes("stmt")
    /\ top.phase = "start" /\ ~top.source
    /\ visits' = Leave(Front(visits), Primitive("()"))
    /\ UNCHANGED <<stage, graph, fn_ret_type, asked, ids, lvalues, budget, claims>>

Ends(node) ==
    /\ Goes("end")
    /\ top.node = node
    /\ UNCHANGED <<stage, concrete, temps, fn_ret_type, lvalues, budget>>

(* A fault: the variable is not added.                                       *)
BlockEndNotAdded ==
    /\ Ends("block")
    /\ visits' = Leave(Front(visits), IF top.source THEN child ELSE Primitive("()"))
    /\ UNCHANGED <<variables, edges, asked, ids, claims>>

BlockEnd ==
    /\ Ends("block")
    /\ IF top.source
       THEN /\ variables' = variables \cup {top.id}
            /\ Draw({<<Var(top.id), child>>})
            /\ visits' = Leave(Front(visits), Var(top.id))
       ELSE /\ visits' = Leave(Front(visits), Primitive("()"))
            /\ UNCHANGED <<variables, edges>>
    /\ UNCHANGED <<asked, ids, claims>>

(* A fault: the declared type is not looked at.                              *)
LetEdgesValue(id, type) == {<<Var(id), child>>}

LetEdges(id, type) ==
    {<<Var(id), child>>} \cup IF type = None THEN {} ELSE {<<Var(id), GetType(type)>>}

LetEnd ==
    /\ Ends("let")
    /\ LET id == NewId
           block == Len(visits) - 1
       IN /\ variables' = variables \cup {id}
          /\ Draw(LetEdges(id, top.id))
          /\ Asks(<<id>>)
          /\ visits' = Leave([Front(visits) EXCEPT ![block].declared = @ \cup {id}],
                             Primitive("()"))
          /\ claims' = IF top.id = None THEN claims
                       ELSE [claims EXCEPT !.declared = @ \cup {<<Var(id), top.id>>}]
    /\ ids' = ids + 1

ReturnEnd ==
    /\ Ends("return")
    /\ Draw(IF child = Primitive("()") THEN {} ELSE {<<child, fn_ret_type>>})
    /\ visits' = Leave(Front(visits), child)
    /\ claims' = [claims EXCEPT !.returned = @ \cup {<<child, RetType>>}]
    /\ UNCHANGED <<variables, asked, ids>>

ExprStmtEnd ==
    /\ Ends("stmt")
    /\ visits' = Leave(Front(visits), child)
    /\ UNCHANGED <<variables, edges, asked, ids, claims>>

(* The children of an if: conditions and blocks in turn, then that of else.  *)
IfEnd ==
    /\ Ends("if")
    /\ LET n == top.arity \div 2
           var == Var(top.id)
           conditions == {top.children[2 * b - 1] : b \in 1..n}
           others == IF top.arity = 2 * n THEN {} ELSE {top.children[top.arity]}
       IN /\ Draw({<<c, Primitive("bool")>> : c \in conditions}
                    \cup IF top.source
                         THEN {<<var, top.children[2 * b]>> : b \in 1..n}
                                 \cup {<<o, var>> : o \in others}
                         ELSE {})
          /\ visits' = Leave(Front(visits), IF top.source THEN var ELSE Primitive("()"))
          /\ claims' = [claims EXCEPT !.condition = @ \cup conditions]
    /\ UNCHANGED <<variables, asked, ids>>

(* A fault: only return statements are compared.                             *)
ReturnedEdgesNone == {}

ReturnedEdges == IF NeedRetValue THEN {<<child, fn_ret_type>>} ELSE {}

FnEnd ==
    /\ Visits("end")
    /\ top.node = "fn"
    /\ Draw(ReturnedEdges)
    /\ visits' = <<>>
    /\ item' = item + 1
    /\ lvalues' = PopSource
    /\ UNCHANGED <<stage, concrete, variables, temps, fn_ret_type, asked, ids, budget,
                   claims>>

-----------------------------------------------------------------------------
(* TypeConcretifier. *)

(* infer_var: with the types found for it, and what comes of them. *)
Infer(id) ==
    /\ stage = "concretify" /\ asked # <<>>
    /\ id = Head(asked)
    /\ asked' = Tail(asked)
    /\ UNCHANGED <<unit, item, scope, concrete, variables, temps, visits, fn_ret_type,
                   ids, lvalues, budget, claims>>

InferKnown(id) ==
    /\ Infer(id)
    /\ id \in DOMAIN results
    /\ UNCHANGED <<stage, edges, results, errors>>

InferOne(id) ==
    /\ Infer(id)
    /\ id \notin DOMAIN results
    /\ \E t \in Found(id) :
          /\ Found(id) = {t}
          /\ results' = Put(results, id, types[t])
          /\ Draw({<<Var(id), Type(t)>>})
    /\ UNCHANGED <<stage, errors>>

(* A variable that is not in the graph panics. *)
InferNot(id) ==
    /\ Infer(id)
    /\ id \notin DOMAIN results
    /\ Cardinality(Found(id)) # 1
    /\ IF id \in variables
       THEN /\ errors' = errors \cup {IF Found(id) = {} THEN "NoInfo" ELSE "Conflict"}
            /\ UNCHANGED stage
       ELSE /\ stage' = "panic"
            /\ UNCHANGED errors
    /\ UNCHANGED <<edges, results>>

ConcretifyEnd ==
    /\ stage = "concretify" /\ asked = <<>>
    /\ stage' = IF errors = {} THEN "accepted" ELSE "rejected"
    /\ UNCHANGED <<unit, item, scope, graph, visits, fn_ret_type, asked, results, errors,
                   ids, lvalues, budget, claims>>

Ended == stage \in {"accepted", "rejected", "panic"}

Done == Ended /\ UNCHANGED vars

-----------------------------------------------------------------------------
DeclaredTypes == {names[n] : n \in DOMAIN names \ {"()"}}

Next ==
    \/ IdentifyUnknown \/ IdentifyFn \/ IdentifyTypedef \/ NextStage
    \/ ItemFn \/ ItemTypedef
    \/ FnBegin \/ FnEnd \/ SkipTypedef
    \/ \E name \in {"bool", "float"} : Literal(name)
    \/ stage = "expressions" /\ visits # <<>> /\ \E id \in Visible :
          \/ VarRef(id)
          \/ \E args \in 0..MaxArgs : Call(id, args)
    \/ Operation("if_expr", 3) \/ Operation("unary", 1)
    \/ \E node \in {"equality", "comparison", "arithmetic"} :
          Operation(node, 2) \/ BinaryEnd(node)
    \/ IfExprEnd \/ UnaryEnd \/ CallEnd
    \/ \E last \in BOOLEAN :
          \/ \E type \in DeclaredTypes \cup {None} : LetBegin(last, type)
          \/ ReturnBegin(last) \/ ReturnEmpty(last) \/ ExprBegin(last) \/ DoBlock(last)
          \/ \E branches \in 1..MaxBranches, else \in BOOLEAN :
                IfBegin(last, branches, else)
    \/ IfBlock \/ EmptyBlock \/ BlockEnd
    \/ LetEnd \/ ReturnEnd \/ ExprStmtEnd \/ IfEnd
    \/ \E id \in ToSet(asked) :
          InferKnown(id) \/ InferOne(id) \/ InferNot(id)
    \/ ConcretifyEnd
    \/ Done

Spec == Init /\ [][Next]_vars

-----------------------------------------------------------------------------
(* Properties. *)

(* The variables of these pairs of a node and a type have that type. *)
Hold(pairs) ==
    \A p \in pairs : p[1][1] = "var" => results[p[1][2]] = types[p[2]]

(* If a unit is accepted then the body of every function, and every variable *)
(* that a return statement names, has the declared return type, by whatever  *)
(* blocks, ifs and variables the value gets there (FnEnd, IfEnd, BlockEnd).  *)
ReturnTypesHold == stage = "accepted" => Hold(claims.returned)

(* If a unit is accepted then every parameter and every let with a declared  *)
(* type has that type, whatever its value and its uses ask for.              *)
DeclarationsHold == stage = "accepted" => Hold(claims.declared)

(* A return without a value in a function that declares a type is an error   *)
(* of some variable of it, if only of its block ("Need to make sure this is  *)
(* a type error").                                                           *)
EmptyReturnsAreErrors == ~(stage = "accepted" /\ claims.empty)

(* If a unit is accepted then variables are used at their types: numbers in  *)
(* arithmetic, Booleans in conditions, and two that are compared, or are     *)
(* the branches of an if expression, have one type.                          *)
UsesAgree ==
    stage = "accepted" =>
        /\ Hold({<<n, names["float"]>> : n \in claims.arithmetic})
        /\ Hold({<<n, names["bool"]>> : n \in claims.condition})
        /\ \A e \in claims.equality :
              e[1][1] = "var" /\ e[2][1] = "var" => results[e[1][2]] = results[e[2][2]]

(* ExprTypographer adds each variable before a name can mean it, but for the *)
(* functions after the one it visits; and when it is done there is a node    *)
(* for all that TypeConcretifier asks for, which would panic without it.     *)
InferredVarsAreKnown ==
    /\ stage = "expressions" /\ visits # <<>> =>
          Visible \ variables \subseteq {ItemId(i) : i \in item + 1..Len(unit)}
    /\ stage = "concretify" => ToSet(asked) \subseteq variables

(* Without calls, whose result the graph knows nothing about, checking       *)
(* refuses a unit only if it asks for two types to be one: no variable       *)
(* lacks a type, and no two are confused.                                    *)
WellTypedIsAccepted ==
    LET both == edges \cup {<<e[2], e[1]>> : e \in edges}
    IN stage = "rejected" /\ errors \cap {"UnknownType", "Circular"} = {} /\ claims.calls = {} =>
          \E s \in concrete :
             Reached({Type(s)}, both) \cap {Type(t) : t \in concrete} # {Type(s)}

(* "ty_if_expr: ty_if_else": what the else of an if expression can be, the   *)
(* expression can be (visit_if_expr).                                        *)
IfExprMatchesElse ==
    stage = "accepted" =>
        \A b \in claims.branches :
           \A t \in concrete :
              Type(t) \in Reached({b.else}, edges) => Type(t) \in Reached({b.if}, edges)

(* "t_current = t_return(fn)": if only functions are called, then there is   *)
(* something known of the type of every variable (visit_fn_call).            *)
CallsGiveTypes ==
    claims.calls \subseteq {ItemId(i) : i \in {j \in DOMAIN unit : unit[j].kind = "Fn"}} =>
        "NoInfo" \notin errors
=============================================================================

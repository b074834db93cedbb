------------------------------ MODULE Compile -------------------------------
(***************************************************************************)
(* Code generation: ModuleCompiler (src/src/compile/module_compiler.rs)    *)
(* visits the tree of a unit, appends LLVM instructions to basic blocks    *)
(* and hands values from one visit to another on the stack ir_code.  LLVM  *)
(* verifies each function when its visit ends; a function that it refuses  *)
(* is a panic.                                                             *)
(*                                                                         *)
(* The tree is one that Types accepts: its items are fixed at the start,   *)
(* the body of a function is chosen, node by node, as it is visited, with  *)
(* the types that checking ensures.  Nothing is checked of calls, so that  *)
(* they may have any arguments and any type, and not enough of the else    *)
(* branches of if expressions.  Functions are not used as values, and      *)
(* assignments do not get here: Names refuses all of them.                 *)
(*                                                                         *)
(* Which blocks have a source is what Names has left in the tree: those at *)
(* the end of a function that declares a return type, but also those at    *)
(* the end of one that does not, if the branches of an earlier function    *)
(* have left sources on the stack of Names.                                *)
(***************************************************************************)
EXTENDS Naturals, SequencesExt

CONSTANTS
    Units,          \* the units to compile: their items, and as a bound how many
                    \* nodes their functions have, and of which forms
    MaxBranches     \* bound: conditionals of one if block

VARIABLES
    unit,           \* the items
    stage,          \* "compile", "compiled" or "panic"
    item,           \* the item that is visited
    visits,         \* the visitor's calls
    ir_code,        \* the stack of values, kept from one function to the next
    current_type,
    types,          \* TypeMapping: the types of the variables
    scope_manager,  \* from ids to functions and to the slots of variables
    code,           \* the basic blocks of the function visited last
    at,             \* the basic block that the builder appends to
    regs,           \* how many instructions of the function have a value
    budget,         \* the nodes that may still come, and their forms
    lvalues,        \* OriginManager: how many sources Names has left when it has
                    \* visited the functions before, and this one so far
    body,           \* history: the function visited last, and its tree
    notes           \* history: what happened that the generator cannot handle

builder == <<code, at, regs>>
vars == <<unit, stage, item, visits, ir_code, current_type, types, scope_manager,
          builder, budget, lvalues, body, notes>>

(* What a variable can hold, and what a function can return. *)
Data == {"bool", "float"}
Types == Data \cup {"()"}

Item == [kind : {"Fn"}, params : Seq(Data), ret : Types] \cup [kind : {"Typedef"}]

(* Of the operators one or two stand for all that take the same path. *)
UnaryOps == {"negate", "plus"}
Arithmetic == {"add", "sub"}
BinaryOps == Arithmetic \cup {"less", "equal", "unequal"}

(* The forms that are counted: not an expression as the value of a block or  *)
(* a variable at the end of one that has no value, and not a literal, which  *)
(* are always possible.  A wild call has arguments  *)
(* or a value that the function does not have; where there are wild if       *)
(* expressions, the type of the else branch may be another.                  *)
Forms == {"let", "return", "empty_return", "stmt", "do", "if", "var", "if_expr",
          "call", "wild_call", "wild_if_expr"} \cup UnaryOps \cup BinaryOps

ASSUME UnitsAssumption ==
    \A u \in Units : /\ u.items \in Seq(Item)
                     /\ u.forms \subseteq Forms
                     /\ u.nodes \in Nat
ASSUME BoundsAssumption == MaxBranches \in Nat

Fns == {i \in DOMAIN unit : unit[i].kind = "Fn"}

(* The ids of a function, of a parameter and of the next variable. *)
FnId(i) == <<i>>
ParamId(p) == <<item, p>>
NewId == <<item, 0, regs + 1>>

(* A map after an insert. *)
With(map, added) ==
    [id \in DOMAIN map \cup DOMAIN added |->
        IF id \in DOMAIN added THEN added[id] ELSE map[id]]

-----------------------------------------------------------------------------
(* LLVM: values, each with its type, instructions and basic blocks. *)

Const(n, type) == <<"const", 0, n, type>>
Reg(n, type) == <<"reg", item, n, type>>        \* of a slot: the type of its content
Param(p, type) == <<"param", item, p, type>>
FnRef(i) == <<"fn", i, 0, "fn">>

TypeOf(value) == value[4]

Values == {"const", "reg", "param", "fn"} \X Nat \X Nat \X (Types \cup {"fn"})

NewReg(type) == Reg(regs + 1, type)
NoReg == Const(0, "()")

Terminators == {"br", "cond_br", "ret", "ret_void"}

(* An instruction that sets def, of arguments and basic blocks. *)
Instr(op, def, args, blocks) == [op |-> op, def |-> def, args |-> args, blocks |-> blocks]

Emit(instrs) == [code EXCEPT ![at] = @ \o instrs]

(* append_basic_block. A fault: the last one is forgotten.                   *)
NewBlocksNoEnd(n) == [b \in 1..n - 1 |-> <<>>]
NewBlocks(n) == [b \in 1..n |-> <<>>]

(* position_at_end. A fault: the builder stays where it is.                  *)
PositionStays(block) == at
Position(block) == block

(* A call of the visitor.  The parts of the node that have been visited are  *)
(* in trees, and the values taken from ir_code for them in values.           *)
VisitFields ==
    [node : {"fn", "block", "if", "let", "return", "stmt", "unary", "binary",
             "if_expr", "call"},
     op : UnaryOps \cup BinaryOps \cup {"none"},
     fn : Nat,                  \* of a call: the function
     args : Seq(Nat),           \* of a call: the parameters that it names
     want : SUBSET Types,       \* the types that checking allows for its value
     values : Seq(Values),
     blocks : Seq(Nat),
     after : BOOLEAN,           \* a part has just been visited
     source : BOOLEAN,          \* has_source(); of a function, it has a return type
     last : BOOLEAN,            \* of a block: its last statement is visited
     branches : Nat,            \* of an if block: its conditionals
     tail : BOOLEAN,            \* history: of a block, its value is the function's
     base : Nat,                \* history: the values on ir_code before the part,
                                \* of a block before its last statement
     declared : SUBSET Seq(Nat)]

NewVisit(node, want) ==
    [node |-> node, op |-> "none", fn |-> 0, args |-> <<>>, want |-> want,
     trees |-> <<>>, values |-> <<>>, blocks |-> <<>>, after |-> FALSE,
     source |-> FALSE, last |-> FALSE, branches |-> 0, tail |-> FALSE,
     base |-> Len(ir_code), declared |-> {}]

top == visits[Len(visits)]

TypeOK ==
    /\ unit \in {u.items : u \in Units}
    /\ stage \in {"compile", "compiled", "panic"}
    /\ item \in Nat
    /\ \A v \in DOMAIN visits :
          [f \in DOMAIN visits[v] \ {"trees"} |-> visits[v][f]] \in VisitFields
    /\ ir_code \in Seq(Values)
    /\ current_type \in Types
    /\ \A id \in DOMAIN types : types[id] \in Data
    /\ \A id \in DOMAIN scope_manager :
          scope_manager[id] \in Values
    /\ at \in DOMAIN code \cup {0}
    /\ \A b \in DOMAIN code : \A i \in DOMAIN code[b] :
          /\ code[b][i].def \in Values
          /\ code[b][i].args \in Seq(Values)
          /\ ToSet(code[b][i].blocks) \subseteq DOMAIN code
    /\ regs \in Nat
    /\ lvalues \in Nat

-----------------------------------------------------------------------------
(* LLVMVerifyFunction: the rules of it that the generator could break.       *)

Succs(b) == IF code[b] = <<>> THEN {} ELSE ToSet(Last(code[b]).blocks)
Preds(b) == {p \in DOMAIN code : b \in Succs(p)}

(* The basic blocks reached from the first one, but for those after skip. *)
Reached(skip) ==
    LET search[S \in SUBSET DOMAIN code] ==
            LET more == S \cup ((UNION {Succs(b) : b \in S}) \ {skip})
            IN IF more = S THEN S ELSE search[more]
    IN search[{1} \ {skip}]

(* The value is one that is known at the end of the basic block b, or before *)
(* its instruction i.                                                        *)
Known(value, b, i) ==
    value[1] = "reg" =>
        /\ value[2] = item
        /\ \/ \E j \in DOMAIN code[b] : j < i /\ code[b][j].def = value
           \/ \E d \in DOMAIN code \ {b} :
                 /\ \E j \in DOMAIN code[d] : code[d][j].def = value
                 /\ b \notin Reached(d)

EndsOnce(b) ==
    /\ code[b] # <<>>
    /\ \A i \in DOMAIN code[b] : code[b][i].op \in Terminators <=> i = Len(code[b])

ArgTypes(instr) == [a \in DOMAIN instr.args |-> TypeOf(instr.args[a])]

Callee(instr) == unit[Head(instr.args)[2]]

WellTyped(instr) ==
    LET type == TypeOf(instr.def)
        args == ArgTypes(instr)
        op == instr.op
    IN /\ op \in {"fadd", "fsub"} => args = <<"float", "float">>
       /\ op \in {"fcmp_oeq", "fcmp_one", "fcmp_olt"} => args = <<"float", "float">>
       /\ op = "icmp_eq" => args = <<"bool", "bool">>
       /\ op \in {"alloca", "load"} => type # "()"
       /\ op = "store"   => args[1] = args[2]
       /\ op = "phi"     => ToSet(args) = {type}
       /\ op = "cond_br" => args = <<"bool">>
       /\ op = "ret"     => args = <<unit[item].ret>>
       /\ op = "ret_void" => unit[item].ret = "()"
       /\ op = "call"    => Tail(args) = Callee(instr).params

PhiOfPreds(b, instr) ==
    /\ ToSet(instr.blocks) = Preds(b)
    /\ Len(instr.blocks) = Cardinality(Preds(b))
    /\ Len(instr.blocks) = Len(instr.args)
    /\ \A k \in DOMAIN instr.args :
          Known(instr.args[k], instr.blocks[k], Len(code[instr.blocks[k]]) + 1)

Verified ==
    /\ \A b \in DOMAIN code : EndsOnce(b)
    /\ \A b \in DOMAIN code : \A i \in DOMAIN code[b] :
          LET instr == code[b][i]
          IN /\ WellTyped(instr)
             /\ IF instr.op = "phi" THEN PhiOfPreds(b, instr)
                ELSE \A a \in DOMAIN instr.args : Known(instr.args[a], b, i)

-----------------------------------------------------------------------------
(* Items. *)

Init ==
    /\ \E u \in Units : unit = u.items /\ budget = [forms |-> u.forms, nodes |-> u.nodes]
    /\ stage = "compile"
    /\ item = 1
    /\ visits = <<>> /\ ir_code = <<>> /\ current_type = "()"
    /\ types = <<>> /\ scope_manager = <<>>
    /\ code = <<>> /\ at = 0 /\ regs = 0
    /\ lvalues = 0
    /\ body = [fn |-> 0, tree |-> <<>>]
    /\ notes = {}

AtItem(kind) ==
    /\ stage = "compile"
    /\ visits = <<>>
    /\ item \in DOMAIN unit
    /\ unit[item].kind = kind

fn_ty == unit[item]
Params == DOMAIN fn_ty.params

(* The entry block: a slot for each parameter, and its value stored there.   *)
Entry ==
    [i \in 1..2 * Len(fn_ty.params) |->
        LET p == (i + 1) \div 2
            slot == Reg(p, fn_ty.params[p])
        IN IF i % 2 = 1 THEN Instr("alloca", slot, <<>>, <<>>)
           ELSE Instr("store", NoReg, <<Param(p, fn_ty.params[p]), slot>>, <<>>)]
    \o <<Instr("br", NoReg, <<>>, <<2>>)>>

(* One source less on the stack of Names, if there is one: pop_source(). *)
PopSource(n) == IF n = 0 THEN 0 ELSE n - 1

(* The body has the source that Names gives it: the function, or what is     *)
(* left of one before it.                                                    *)
HasSource(valued) == valued \/ lvalues > 0

(* The types of the body: the declared one; the one that inference has found *)
(* for a body that has a source all the same; any, if nothing takes it.      *)
BodyTypes ==
    IF fn_ty.ret # "()" THEN {{fn_ty.ret}}
    ELSE IF lvalues > 0 THEN {{t} : t \in Types}
    ELSE {Types}

(* The code of the body begins in a block of its own.                        *)
FnBegin ==
    /\ AtItem("Fn")
    /\ LET slot == [p \in Params |-> Reg(p, fn_ty.params[p])]
           valued == fn_ty.ret # "()"
           params == {ParamId(p) : p \in Params}
       IN /\ scope_manager' = With(With(scope_manager, [id \in {FnId(item)} |-> FnRef(item)]),
                                   [id \in params |-> slot[id[2]]])
          /\ types' = With(types, [id \in params |-> fn_ty.params[id[2]]])
          /\ code' = <<Entry, <<>>>>
          /\ at' = 2
          /\ regs' = Len(fn_ty.params)
          /\ \E want \in BodyTypes :
                visits' = <<[NewVisit("fn", want) EXCEPT !.source = valued],
                            [NewVisit("block", want) EXCEPT !.source = HasSource(valued),
                                                            !.tail = valued]>>
          /\ lvalues' = IF valued THEN lvalues ELSE PopSource(lvalues)
    /\ UNCHANGED <<unit, stage, item, ir_code, current_type, budget, body, notes>>

SkipTypedef ==
    /\ AtItem("Typedef")
    /\ item' = item + 1
    /\ UNCHANGED <<unit, stage, visits, ir_code, current_type, types, scope_manager,
                   builder, budget, lvalues, body, notes>>

UnitEnd ==
    /\ stage = "compile" /\ visits = <<>> /\ item = Len(unit) + 1
    /\ stage' = "compiled"
    /\ UNCHANGED <<unit, item, visits, ir_code, current_type, types, scope_manager,
                   builder, budget, lvalues, body, notes>>

(* The visitor goes on.  Without more, nothing but the visits changes. *)
Runs == stage = "compile" /\ visits # <<>> /\ UNCHANGED unit
Goes == Runs /\ UNCHANGED types

(* The visitor goes on within the node on top. *)
Within(node) ==
    /\ Goes
    /\ top.node = node
    /\ UNCHANGED <<stage, item, scope_manager, budget, lvalues, body>>

PartDone(node) == Within(node) /\ top.after
PartNext(node) == Within(node) /\ ~top.after

(* So many parts of the node have been visited, the last one just now.       *)
At(node, parts) == PartDone(node) /\ Len(top.trees) = parts

(* The visits vs when the visit of a part of its top node has ended. *)
Leave(vs, tree) ==
    [vs EXCEPT ![Len(vs)].trees = Append(@, tree), ![Len(vs)].after = TRUE]

Under(v) == [visits EXCEPT ![Len(visits)] = v]

Returns(tree) == visits' = Leave(Front(visits), tree)

Note(what) == notes' = notes \cup what

(* ir_code.pop(): without a value, expect fails.  A value that the part just *)
(* visited has not left is one of a node before it.                          *)
Popped == Last(ir_code)

Stale == IF Len(ir_code) <= top.base THEN {"stale"} ELSE {}

(* The top node with the value, and ready for its next part. *)
Taken == [top EXCEPT !.values = Append(@, Popped), !.after = FALSE,
                     !.base = Len(ir_code) - 1]

Pops(pushed) ==
    /\ ir_code # <<>>
    /\ ir_code' = Front(ir_code) \o pushed
    /\ Note(Stale)

-----------------------------------------------------------------------------
(* Expressions. *)

(* The arguments of a call that are visited before that of the parameter p:  *)
(* those of the parameters before it.  A fault: those written before it.     *)
ArgsWrittenBefore(args, p) ==
    {q \in ToSet(args) : \E i, j \in DOMAIN args : i < j /\ args[i] = q /\ args[j] = p}

ArgsBefore(args, p) == {q \in ToSet(args) : q < p}

(* The parameter whose argument the visitor comes to next, if there is one.  *)
NextArg == {p \in ToSet(top.args) : Cardinality(ArgsBefore(top.args, p)) = Len(top.trees)}

(* The types that checking allows for the next part of the top node, which   *)
(* are none if it is not an expression.                                      *)
Wants ==
    LET n == Len(top.trees)
        node == top.node
    IN IF top.after \/ node \in {"fn", "block"} THEN {}
       ELSE IF node = "unary" \/ top.op \in Arithmetic \cup {"less"} THEN {"float"}
       ELSE
       CASE node = "binary" /\ n = 0 -> Data
         [] node = "binary" /\ n = 1 -> {TypeOf(top.values[1])}
         [] node = "if_expr" /\ n = 0 -> {"bool"}
         [] node = "if_expr" /\ n = 2 /\ "wild_if_expr" \in budget.forms -> Data
         [] node = "if" -> IF n % 2 = 0 /\ n < 2 * top.branches THEN {"bool"} ELSE {}
         [] node = "call" -> IF NextArg # {} /\ "wild_call" \in budget.forms THEN Data
                             ELSE {unit[top.fn].params[p] : p \in NextArg}
         [] OTHER -> top.want

Counted(form) ==
    /\ form \in budget.forms
    /\ budget.nodes > 0
    /\ budget' = [budget EXCEPT !.nodes = @ - 1]

(* An expression that the visitor comes to next. *)
Expression(type) ==
    /\ Goes
    /\ type \in Wants
    /\ UNCHANGED <<stage, item, scope_manager, lvalues, body>>

(* A Boolean is true, a number tells which part of its node it is. *)
LiteralOf(type) == Const(IF type = "bool" THEN 1 ELSE Len(top.trees) + 2, type)

Literal(type) ==
    /\ Expression(type)
    /\ current_type' = type
    /\ ir_code' = Append(ir_code, LiteralOf(type))
    /\ visits' = Leave(visits, <<"literal", LiteralOf(type)>>)
    /\ UNCHANGED <<builder, budget, notes>>

Visible ==
    {ParamId(p) : p \in Params} \cup UNION {visits[v].declared : v \in DOMAIN visits}

VarRef(id) ==
    /\ Expression(types[id])
    /\ Counted("var")
    /\ LET slot == scope_manager[id]
           load == NewReg(TypeOf(slot))
       IN /\ code' = Emit(<<Instr("load", load, <<slot>>, <<>>)>>)
          /\ ir_code' = Append(ir_code, load)
    /\ regs' = regs + 1
    /\ current_type' = types[id]
    /\ visits' = Leave(visits, <<"var", id>>)
    /\ UNCHANGED <<at, notes>>

(* The visitor is in a branch of an if block that has a value. *)
InBranch ==
    \E v \in 1..Len(visits) - 1 :
        visits[v].node = "if" /\ visits[v].source /\ visits[v + 1].node = "block"

Operation(form, type, visit) ==
    /\ Expression(type)
    /\ Counted(form)
    /\ visits' = Append(visits, visit)
    /\ Note(IF form = "if_expr" /\ InBranch THEN {"nested_branch"} ELSE {})
    /\ UNCHANGED <<builder, ir_code, current_type>>

ResultOf(op) == IF op \in UnaryOps \cup Arithmetic THEN "float" ELSE "bool"

UnaryBegin(op) ==
    Operation(op, ResultOf(op), [NewVisit("unary", {}) EXCEPT !.op = op])

BinaryBegin(op) ==
    Operation(op, ResultOf(op), [NewVisit("binary", {}) EXCEPT !.op = op])

IfExprBegin(type) ==
    Operation("if_expr", type, NewVisit("if_expr", {type}))

UnaryEnd ==
    /\ At("unary", 1)
    /\ IF top.op = "negate"
       THEN /\ Pops(<<NewReg("float")>>)
            /\ code' = Emit(<<Instr("fsub", NewReg("float"), <<Popped, Const(0, "float")>>, <<>>)>>)
            /\ regs' = regs + 1
            /\ current_type' = "float"
       ELSE /\ Pops(<<Popped>>)
            /\ UNCHANGED <<code, regs, current_type>>
    /\ Returns(<<"unary", top.op, top.trees[1]>>)
    /\ UNCHANGED at

BinaryLeft ==
    /\ At("binary", 1)
    /\ Pops(<<>>)
    /\ visits' = Under(Taken)
    /\ UNCHANGED <<current_type, builder>>

BinaryInstr(op, left, right) ==
    Instr(CASE op = "add" -> "fadd" [] op = "sub" -> "fsub"
            [] op = "less" -> "fcmp_olt" [] op = "unequal" -> "fcmp_one"
            [] op = "equal" -> IF TypeOf(left) = "float" THEN "fcmp_oeq" ELSE "icmp_eq",
          NewReg(ResultOf(op)), <<left, right>>, <<>>)

BinaryEnd ==
    /\ At("binary", 2)
    /\ ir_code # <<>>
    /\ LET instr == BinaryInstr(top.op, top.values[1], Popped)
       IN /\ code' = Emit(<<instr>>)
          /\ ir_code' = Append(Front(ir_code), instr.def)
    /\ Note(Stale \cup IF top.op = "unequal" /\ TypeOf(top.values[1]) = "bool"
                       THEN {"bool_inequality"} ELSE {})
    /\ regs' = regs + 1
    /\ current_type' = ResultOf(top.op)
    /\ Returns(<<"binary", top.op, top.trees[1], top.trees[2]>>)
    /\ UNCHANGED at

(* After the condition: the branches get their basic blocks. *)
IfExprCondition ==
    /\ At("if_expr", 1)
    /\ Pops(<<>>)
    /\ LET new == [b \in 1..3 |-> Len(code) + b]
       IN /\ code' = Emit(<<Instr("cond_br", NoReg, <<Popped>>, <<new[1], new[2]>>)>>)
                        \o NewBlocks(3)
          /\ at' = Position(new[1])
          /\ visits' = Under([Taken EXCEPT !.blocks = new])
    /\ UNCHANGED <<current_type, regs>>

(* The builder's block when the branch ends may not be where it began.       *)
IfExprThen ==
    /\ At("if_expr", 2)
    /\ Pops(<<>>)
    /\ code' = Emit(<<Instr("br", NoReg, <<>>, <<top.blocks[3]>>)>>)
    /\ at' = Position(top.blocks[2])
    /\ visits' = Under([Taken EXCEPT !.blocks = Append(@, at)])
    /\ UNCHANGED <<current_type, regs>>

IfExprElse ==
    /\ At("if_expr", 3)
    /\ LET phi == NewReg(current_type)
           end == top.blocks[3]
       IN /\ ir_code # <<>>
          /\ ir_code' = Append(Front(ir_code), phi)
          /\ Note(Stale \cup IF TypeOf(top.values[2]) = TypeOf(Popped) THEN {}
                              ELSE {"unequal_branches"})
          /\ code' = [Emit(<<Instr("br", NoReg, <<>>, <<end>>)>>) EXCEPT
                ![end] = <<Instr("phi", phi, <<top.values[2], Popped>>, <<top.blocks[4], at>>)>>]
          /\ at' = Position(end)
    /\ regs' = regs + 1
    /\ Returns(<<"if_expr", top.trees[1], top.trees[2], top.trees[3]>>)
    /\ UNCHANGED current_type

Call(form, type, fn, args) ==
    Operation(form, type, [NewVisit("call", {type}) EXCEPT !.fn = fn, !.args = args])

Fits(type, fn, args) == unit[fn].ret = type /\ ToSet(args) = DOMAIN unit[fn].params

(* A call with an argument for each parameter, in any order; and one whose   *)
(* value has another type, or that does not name the parameters.             *)
CallBegin(type, fn, args) == Fits(type, fn, args) /\ Call("call", type, fn, args)

WildCallBegin(type, fn, args) ==
    /\ ~Fits(type, fn, args)
    /\ unit[fn].ret \in Wants => unit[fn].ret = type
    /\ Call("wild_call", type, fn, args)

CallArg ==
    /\ PartDone("call")
    /\ Pops(<<>>)
    /\ visits' = Under(Taken)
    /\ UNCHANGED <<current_type, builder>>

(* A fault: no call leaves a value.                                          *)
CallLeavesNone(result) == <<>>

(* What a call leaves on the stack. *)
CallLeaves(result) == IF TypeOf(result) = "()" THEN <<>> ELSE <<result>>

CallReady == top.node = "call" /\ ~top.after /\ NextArg = {}

(* A function whose visit has not begun has no value yet: the index panics.  *)
CallEnd ==
    /\ Within("call")
    /\ CallReady
    /\ FnId(top.fn) \in DOMAIN scope_manager
    /\ LET ret == unit[top.fn].ret
           result == IF ret = "()" THEN NoReg ELSE NewReg(ret)
           fn_ref == scope_manager[FnId(top.fn)]
           given == [a \in DOMAIN top.values |-> TypeOf(top.values[a])]
       IN /\ code' = Emit(<<Instr("call", result, <<fn_ref>> \o top.values, <<>>)>>)
          /\ ir_code' = ir_code \o CallLeaves(result)
          /\ regs' = IF ret = "()" THEN regs ELSE regs + 1
          /\ current_type' = ret
          /\ Returns(<<"call", top.fn, [p \in ToSet(top.args) |->
                           top.trees[Cardinality(ArgsBefore(top.args, p)) + 1]]>>)
          /\ Note(IF ret \in top.want /\ given = unit[top.fn].params THEN {}
                  ELSE {"misused_call"})
    /\ UNCHANGED at

CallUnknown ==
    /\ Goes
    /\ CallReady
    /\ FnId(top.fn) \notin DOMAIN scope_manager
    /\ stage' = "panic"
    /\ Note({"forward_call"})
    /\ UNCHANGED <<item, visits, ir_code, current_type, scope_manager, builder, budget,
                   lvalues, body>>

-----------------------------------------------------------------------------
(* Statements and blocks. *)

(* The next statement of a block: the last one, if the block has a source.   *)
BlockNext(last) ==
    /\ Goes
    /\ top.node = "block" /\ ~top.last
    /\ last => top.source

Statement(last) ==
    /\ BlockNext(last)
    /\ UNCHANGED <<stage, item, ir_code, current_type, scope_manager, regs, body>>

(* The block goes to the statement. *)
ToStatement(last) == Under([top EXCEPT !.last = last, !.base = Len(ir_code)])

(* The statement is visited by visit. *)
Enters(last, visit) == visits' = Append(ToStatement(last), visit)

(* A statement that is not made of blocks: at the end of a block, Names      *)
(* leaves the source that it has put there for it.                           *)
LeavesSource(last) == lvalues' = IF last THEN lvalues + 1 ELSE lvalues

(* A statement without a value: it may end a block that wants none.          *)
EndsUnvalued(last) == last => top.want = {"()"}

Simple(last) ==
    /\ Statement(last)
    /\ UNCHANGED <<code, at>>

LetBegin(last, type) ==
    /\ Simple(last)
    /\ EndsUnvalued(last)
    /\ LeavesSource(last)
    /\ IF last THEN UNCHANGED budget ELSE Counted("let")
    /\ Enters(last, NewVisit("let", {type}))
    /\ UNCHANGED notes

(* An expression without a value is a call: there is one more, if it ends a  *)
(* block that wants none.                                                    *)
ExprBegin(last) ==
    /\ Simple(last)
    /\ last /\ EndsUnvalued(last) => "call" \in budget.forms /\ budget.nodes > 0
    /\ LeavesSource(last)
    /\ IF last THEN UNCHANGED budget ELSE Counted("stmt")
    /\ Enters(last, [NewVisit("stmt", IF last THEN top.want ELSE Types) EXCEPT
                        !.source = last])
    /\ UNCHANGED notes

(* A return that is the value of the function, or one that is not. *)
ReturnNote(last) == {IF last /\ top.tail THEN "return" ELSE "inner_return"}

ReturnBegin(last) ==
    /\ Simple(last)
    /\ fn_ty.ret = "()" => EndsUnvalued(last)
    /\ LeavesSource(last)
    /\ Counted("return")
    /\ Enters(last, NewVisit("return", IF fn_ty.ret = "()" THEN Data ELSE {fn_ty.ret}))
    /\ Note(ReturnNote(last))

(* A return without a value. Types refuses it in a function that has one.    *)
ReturnEmpty(last) ==
    /\ BlockNext(last)
    /\ fn_ty.ret = "()"
    /\ EndsUnvalued(last)
    /\ LeavesSource(last)
    /\ Counted("empty_return")
    /\ code' = Emit(<<Instr("ret_void", NoReg, <<>>, <<>>)>>)
    /\ current_type' = "()"
    /\ visits' = Leave(ToStatement(last), <<"return">>)
    /\ Note({"empty_return"})
    /\ UNCHANGED <<stage, item, ir_code, scope_manager, at, regs, body>>

DoBlock(last) ==
    /\ Simple(last)
    /\ Counted("do")
    /\ Enters(last, [NewVisit("block", IF last THEN top.want ELSE Types) EXCEPT
                        !.source = last, !.tail = last /\ top.tail])
    /\ UNCHANGED <<lvalues, notes>>

(* The basic blocks of an if: those of the conditionals, of which all but    *)
(* the first have one for the condition, that of the else, and the end.      *)
IfBegin(last, branches, else) ==
    /\ Statement(last)
    /\ Counted("if")
    /\ last => else
    /\ LET n == 2 * branches + IF else THEN 1 ELSE 0
       IN /\ code' = code \o NewBlocks(n)
          /\ Enters(last, [NewVisit("if", IF last THEN top.want ELSE Types) EXCEPT
                              !.source = last,
                              !.branches = branches,
                              !.blocks = [b \in 1..n |-> Len(code) + b]])
    /\ Note((IF InBranch THEN {"nested_branch"} ELSE {}) \cup
             (IF last /\ top.want = {"()"} THEN {"void_if"} ELSE {}))
    /\ UNCHANGED <<at, lvalues>>

IfCondition ==
    /\ PartDone("if")
    /\ LET n == Len(top.trees)
           cmp == NewReg("bool")
       IN /\ n % 2 = 1 /\ n < 2 * top.branches
          /\ Pops(<<>>)
          /\ code' = Emit(<<Instr("icmp_eq", cmp, <<Popped, Const(0, "bool")>>, <<>>),
                            Instr("cond_br", NoReg, <<cmp>>, <<top.blocks[n], top.blocks[n + 1]>>)>>)
          /\ at' = Position(top.blocks[n])
    /\ regs' = regs + 1
    /\ visits' = Under([top EXCEPT !.after = FALSE, !.base = Len(ir_code) - 1])
    /\ UNCHANGED current_type

(* The block of a conditional or of the else. *)
IfBlock ==
    /\ PartNext("if")
    /\ LET n == Len(top.trees)
       IN n < Len(top.blocks) /\ (n % 2 = 1 \/ n = 2 * top.branches)
    /\ visits' = Append(visits, [NewVisit("block", top.want) EXCEPT !.source = top.source])
    /\ UNCHANGED <<ir_code, current_type, builder, notes>>

(* After a block: its value, if the if has one, is kept for the phi. *)
IfBlockEnd ==
    /\ PartDone("if")
    /\ LET n == Len(top.trees)
       IN /\ n % 2 = 0 \/ n > 2 * top.branches
          /\ IF top.source
             THEN /\ Pops(<<>>)
                  /\ visits' = Under(Taken)
             ELSE /\ visits' = Under([top EXCEPT !.after = FALSE, !.base = Len(ir_code)])
                  /\ UNCHANGED <<ir_code, notes>>
          /\ at' = Position(top.blocks[n])
    /\ code' = Emit(<<Instr("br", NoReg, <<>>, <<Last(top.blocks)>>)>>)
    /\ UNCHANGED <<current_type, regs>>

(* A fault: of each pair the other block.                                    *)
PhiBlocksOther == [b \in 1..top.branches |-> top.blocks[2 * b]]
                      \o <<top.blocks[Len(top.blocks) - 1]>>

(* The first blocks of the branches, in pairs with those of the conditions;  *)
(* then that of the else.                                                    *)
PhiBlocks == [b \in 1..top.branches |-> top.blocks[2 * b - 1]]
                 \o <<top.blocks[Len(top.blocks) - 1]>>

(* The type of a block or of an if block that has a source. *)
type_of == CHOOSE t \in top.want : TRUE

IfEnd ==
    /\ PartNext("if")
    /\ Len(top.trees) = Len(top.blocks)
    /\ IF top.source
       THEN LET phi == NewReg(type_of)
            IN /\ code' = Emit(<<Instr("phi", phi, top.values, PhiBlocks)>>)
               /\ regs' = regs + 1
               /\ ir_code' = Append(ir_code, phi)
               /\ current_type' = type_of
       ELSE UNCHANGED <<code, regs, ir_code, current_type>>
    /\ Returns(<<"if", top.branches, top.trees>>)
    /\ UNCHANGED <<at, notes>>

BlockEnd ==
    /\ Within("block")
    /\ top.last = top.source
    /\ current_type' = IF top.source THEN type_of ELSE current_type
    /\ LET parent == Len(visits) - 1
       IN visits' = Leave([Front(visits) EXCEPT ![parent].base = IF top.last THEN top.base ELSE @],
                          <<"block", top.trees>>)
    /\ UNCHANGED <<ir_code, builder, notes>>

LetEnd ==
    /\ Runs
    /\ top.node = "let" /\ top.after
    /\ LET slot == NewReg(current_type)
           block == Len(visits) - 1
       IN /\ Pops(<<>>)
          /\ code' = Emit(<<Instr("alloca", slot, <<>>, <<>>),
                            Instr("store", NoReg, <<Popped, slot>>, <<>>)>>)
          /\ scope_manager' = With(scope_manager, [id \in {NewId} |-> slot])
          /\ types' = With(types, [id \in {NewId} |-> CHOOSE t \in top.want : TRUE])
          /\ visits' = Leave([Front(visits) EXCEPT ![block].declared = @ \cup {NewId}],
                             <<"let", NewId, top.trees[1]>>)
    /\ regs' = regs + 1
    /\ UNCHANGED <<stage, item, current_type, at, budget, lvalues, body>>

ReturnEnd ==
    /\ At("return", 1)
    /\ Pops(<<>>)
    /\ code' = Emit(<<Instr("ret", NoReg, <<Popped>>, <<>>)>>)
    /\ current_type' = "()"
    /\ Returns(<<"return", top.trees[1]>>)
    /\ UNCHANGED <<at, regs>>

(* The value of an expression stays on the stack, whether it is that of the  *)
(* block or one that nothing takes.                                          *)
ExprStmtEnd ==
    /\ At("stmt", 1)
    /\ Returns(<<"expr", top.trees[1]>>)
    /\ Note(IF (top.source /\ top.want # {"()"}) \/ Len(ir_code) = top.base THEN {}
            ELSE {"discarded"})
    /\ UNCHANGED <<ir_code, current_type, builder>>

(* The value that is left, if there is one, is that of the function, if it   *)
(* has a return type, and is left behind if it has none.                     *)
FnEnd ==
    /\ Goes
    /\ top.node = "fn" /\ top.after
    /\ IF ~top.source
       THEN /\ code' = Emit(<<Instr("ret_void", NoReg, <<>>, <<>>)>>)
            /\ Note(IF ir_code = <<>> THEN {} ELSE {"discarded"})
            /\ UNCHANGED ir_code
       ELSE IF ir_code = <<>>
       THEN UNCHANGED <<code, ir_code, notes>>
       ELSE /\ Pops(<<>>)
            /\ code' = Emit(<<Instr("ret", NoReg, <<Popped>>, <<>>)>>)
    /\ visits' = Under([top EXCEPT !.after = FALSE])
    /\ body' = [fn |-> item, tree |-> top.trees[1]]
    /\ lvalues' = PopSource(lvalues)
    /\ UNCHANGED <<stage, item, current_type, scope_manager, at, regs, budget>>

FnVerify ==
    /\ Goes
    /\ top.node = "fn" /\ ~top.after
    /\ IF Verified
       THEN visits' = <<>> /\ item' = item + 1 /\ UNCHANGED stage
       ELSE stage' = "panic" /\ UNCHANGED <<visits, item>>
    /\ UNCHANGED <<ir_code, current_type, scope_manager, builder, budget, lvalues, body, notes>>

(* A visit that takes a value where there is none fails. *)
TakesValue ==
    \/ top.node \in {"unary", "binary", "if_expr", "call", "let", "return"}
    \/ /\ top.node = "if"
       /\ top.source \/ (Len(top.trees) % 2 = 1 /\ Len(top.trees) < 2 * top.branches)

ExpectFails ==
    /\ Goes
    /\ top.after /\ TakesValue /\ ir_code = <<>>
    /\ stage' = "panic"
    /\ UNCHANGED <<item, visits, ir_code, current_type, scope_manager, builder, budget,
                   lvalues, body, notes>>

Ended == stage # "compile" /\ UNCHANGED vars

-----------------------------------------------------------------------------
(* The arguments of a call: some of the parameters, in any order. *)
ArgLists(fn) ==
    UNION {{a \in [1..n -> DOMAIN unit[fn].params] : IsInjective(a)} :
              n \in 0..Len(unit[fn].params)}

Calls ==
    \E type \in Wants, fn \in Fns : \E args \in ArgLists(fn) :
        CallBegin(type, fn, args) \/ WildCallBegin(type, fn, args)

Next ==
    \/ FnBegin \/ SkipTypedef \/ UnitEnd
    \/ /\ stage = "compile" /\ visits # <<>>
       /\ \/ \E type \in Data : Literal(type) \/ IfExprBegin(type)
          \/ \E id \in Visible : VarRef(id)
          \/ \E op \in UnaryOps : UnaryBegin(op)
          \/ \E op \in BinaryOps : BinaryBegin(op)
          \/ UnaryEnd \/ BinaryLeft \/ BinaryEnd
          \/ IfExprCondition \/ IfExprThen \/ IfExprElse
          \/ Calls \/ CallArg \/ CallEnd \/ CallUnknown
          \/ \E last \in BOOLEAN :
                \/ \E type \in Data : LetBegin(last, type)
                \/ ExprBegin(last) \/ ReturnBegin(last) \/ ReturnEmpty(last) \/ DoBlock(last)
                \/ \E branches \in 1..MaxBranches, else \in BOOLEAN :
                      IfBegin(last, branches, else)
          \/ IfCondition \/ IfBlock \/ IfBlockEnd \/ IfEnd
          \/ BlockEnd \/ LetEnd \/ ReturnEnd \/ ExprStmtEnd
          \/ FnEnd \/ FnVerify \/ ExpectFails
    \/ Ended

Spec == Init /\ [][Next]_vars

-----------------------------------------------------------------------------
(* Properties. *)

(* What LLVM or an expect can be made to refuse: a call or an if expression  *)
(* that checking should have refused; a call of a later function; Booleans   *)
(* compared with !=; a return with a value that is not the end of its        *)
(* function; any return without one, as the function gets a return at its    *)
(* end too (tests/known-issues/empty-return-ok); a conditional inside a      *)
(* branch of an if block with a source; an if block that has a source but no *)
(* value, which is at the end of a function without a return type; and a     *)
(* return after the value of some expression has been left.                  *)
Handled ==
    /\ notes \cap {"misused_call", "unequal_branches", "forward_call", "bool_inequality",
                   "inner_return", "empty_return", "nested_branch", "void_if"} = {}
    /\ ~({"discarded", "return"} \subseteq notes)

(* A unit without these is compiled, whatever the order of its blocks,       *)
(* conditionals and variables: no expect fails and LLVM refuses nothing.     *)
FailuresHaveACause == Handled => stage # "panic"

(* A visit takes from ir_code the value that the part it has just visited    *)
(* left there, and not one that an expression statement, of this function or *)
(* of one before it, left behind.                                            *)
ValuesAreOfTheirPart == Handled => "stale" \notin notes

(* A basic block that has ended gets no more instructions, and no other end, *)
(* if each return is the end of its function: the builder has always moved   *)
(* on.                                                                       *)
EndedBlocksStay ==
    [][visits # <<>> /\ Handled' =>
          \A b \in DOMAIN code :
             code[b] # <<>> /\ Last(code[b]).op \in Terminators => code'[b] = code[b]]_vars
=============================================================================

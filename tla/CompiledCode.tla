---------------------------- MODULE CompiledCode ----------------------------
(***************************************************************************)
(* What the code that Compile generates computes, against what the tree of *)
(* the function means.  Numbers are integers, Booleans are 0 and 1.  Calls *)
(* are answered alike in both by a function of the callee and the order of *)
(* its arguments, and are remembered.                                      *)
(***************************************************************************)
EXTENDS Compile, Integers

Bit(condition) == IF condition THEN 1 ELSE 0

Answer(fn, args) ==
    LET sum == FoldLeft(LAMBDA acc, x : 2 * acc + x, fn, args)
    IN IF unit[fn].ret = "bool" THEN sum % 2 ELSE sum

-----------------------------------------------------------------------------
(* The tree.  Its meaning takes the variables, the calls and the value so    *)
(* far to those after it; a return ends the function.                        *)

(* Two things that the code does otherwise than the language: "if", the      *)
(* branch of an if block is taken when its condition is false, and "negate", *)
(* a negation gives its operand.                                             *)
Deviations == {"if", "negate"}

Operate(op, x, y) ==
    CASE op = "add" -> x + y
      [] op = "sub" -> x - y
      [] op = "less" -> Bit(x < y)
      [] op = "equal" -> Bit(x = y)
      [] op = "unequal" -> Bit(x # y)

RECURSIVE Meaning(_, _, _)
Meaning(tree, s, deviations) ==
    LET After(t, x) == Meaning(t, x, deviations)
        Holds(x) == (x.val = 1) # ("if" \in deviations)
        node == tree[1]
        RECURSIVE Conditional(_, _)
        Conditional(parts, x) ==
            CASE parts = <<>> -> x
              [] Len(parts) = 1 -> After(parts[1], x)
              [] OTHER -> LET condition == After(parts[1], x)
                          IN IF Holds(condition) THEN After(parts[2], condition)
                             ELSE Conditional(SubSeq(parts, 3, Len(parts)), condition)
        Argument(acc, t) ==
            LET x == After(t, acc.s) IN [s |-> x, args |-> Append(acc.args, x.val)]
    IN IF s.returned THEN s ELSE
       CASE node = "literal" -> [s EXCEPT !.val = tree[2][3]]
         [] node = "var" -> [s EXCEPT !.val = s.vars[tree[2]]]
         [] node = "unary" ->
              LET x == After(tree[3], s)
              IN IF tree[2] = "negate" /\ "negate" \notin deviations
                 THEN [x EXCEPT !.val = 0 - @] ELSE x
         [] node = "binary" ->
              LET left == After(tree[3], s)
              IN [After(tree[4], left) EXCEPT !.val = Operate(tree[2], left.val, @)]
         [] node = "if_expr" ->
              LET condition == After(tree[2], s)
              IN After(IF condition.val = 1 THEN tree[3] ELSE tree[4], condition)
         [] node = "call" ->
              LET given == FoldLeft(Argument, [s |-> s, args |-> <<>>], tree[3])
              IN [given.s EXCEPT !.val = Answer(tree[2], given.args),
                                 !.calls = Append(@, <<tree[2], given.args>>)]
         [] node = "let" ->
              LET x == After(tree[3], s) IN [x EXCEPT !.vars = (tree[2] :> x.val) @@ @]
         [] node = "return" ->
              [(IF Len(tree) = 1 THEN s ELSE After(tree[2], s)) EXCEPT !.returned = TRUE]
         [] node = "expr" -> After(tree[2], s)
         [] node = "block" -> FoldLeft(LAMBDA x, t : After(t, x), s, tree[2])
         [] node = "if" -> Conditional(tree[3], s)

-----------------------------------------------------------------------------
(* The code. *)

(* The step of an instruction that does not end its basic block; from is the *)
(* basic block before this one.                                              *)
Step(m, instr, given, from) ==
    LET Val(v) == CASE v[1] = "const" -> v[3]
                    [] v[1] = "param" -> given[v[3]]
                    [] v[1] = "reg" -> m.vals[v]
        Sets(x) == [m EXCEPT !.vals = (instr.def :> x) @@ @]
        x == Val(instr.args[1])
        y == Val(instr.args[2])
    IN CASE instr.op = "fadd" -> Sets(x + y)
         [] instr.op = "fsub" -> Sets(x - y)
         [] instr.op = "fcmp_olt" -> Sets(Bit(x < y))
         [] instr.op = "fcmp_one" -> Sets(Bit(x # y))
         [] instr.op \in {"fcmp_oeq", "icmp_eq"} -> Sets(Bit(x = y))
         [] instr.op = "alloca" -> m
         [] instr.op = "store" -> [m EXCEPT !.slots = (instr.args[2] :> x) @@ @]
         [] instr.op = "load" -> Sets(m.slots[instr.args[1]])
         [] instr.op = "phi" ->
              Sets(Val(instr.args[CHOOSE k \in DOMAIN instr.blocks : instr.blocks[k] = from]))
         [] instr.op = "call" ->
              LET fn == instr.args[1][2]
                  args == [a \in DOMAIN Tail(instr.args) |-> Val(instr.args[a + 1])]
              IN [Sets(Answer(fn, args)) EXCEPT !.calls = Append(@, <<fn, args>>)]
         [] instr.op \in {"cond_br", "ret"} -> [m EXCEPT !.val = x]
         [] instr.op \in {"br", "ret_void"} -> m

RECURSIVE Run(_, _, _, _)
Run(m, b, given, from) ==
    LET end == FoldLeft(LAMBDA x, instr : Step(x, instr, given, from), m, code[b])
        last == Last(code[b])
    IN CASE last.op \in {"ret", "ret_void"} -> end
         [] last.op = "br" -> Run(end, last.blocks[1], given, b)
         [] last.op = "cond_br" -> Run(end, last.blocks[2 - end.val], given, b)

-----------------------------------------------------------------------------
(* The function that has been verified last, and the values it is called     *)
(* with.                                                                     *)
Compiled == visits = <<>> /\ body.fn # 0 /\ item = body.fn + 1

Given == {args \in [DOMAIN unit[body.fn].params -> {0, 1, 4}] :
            \A p \in DOMAIN args : unit[body.fn].params[p] = "bool" <=> args[p] # 4}

(* The code gives the value of the tree, with the deviations, and makes its  *)
(* calls.                                                                    *)
CodeIs(deviations) ==
    \A given \in Given :
        LET meant == Meaning(body.tree,
                             [vars |-> [id \in {<<body.fn, p>> : p \in DOMAIN given} |->
                                           given[id[2]]],
                              calls |-> <<>>, val |-> 0, returned |-> FALSE], deviations)
            done == Run([vals |-> <<>>, slots |-> <<>>, calls |-> <<>>, val |-> 0],
                        1, given, 0)
        IN /\ done.calls = meant.calls
           /\ unit[body.fn].ret # "()" => done.val = meant.val

(* Code that LLVM does not refuse computes what the tree of its function     *)
(* means, and makes the calls of it in their order and with their arguments: *)
(* whatever the generator gets wrong about blocks, returns and values is     *)
(* caught.  But the conditions of if blocks are inverted                     *)
(* (IfTakesTrueBranch), negations do nothing (NegationsNegate), and a call   *)
(* that checking should have refused may go unnoticed.                       *)
CodeMeansTree == Compiled /\ "misused_call" \notin notes => CodeIs(Deviations)

(* As it should be: an if block takes the branch whose condition is true.    *)
(* module_compiler.rs:273 has "Go to the `if_true` block of this             *)
(* conditional" for the basic block that the comparison with zero selects.   *)
IfTakesTrueBranch == Compiled /\ Handled => CodeIs({"negate"})

(* As it should be: a negation gives the opposite number.                    *)
(* ast/operator.rs:34 has "Negation", and module_compiler.rs:423 subtracts   *)
(* zero from the operand.                                                    *)
NegationsNegate == Compiled /\ Handled => CodeIs({"if"})

(* At least one of the two is so.  Code that refutes this is wrong in both   *)
(* ways: neither alone gives the value that it computes.                     *)
IfsOrNegationsAreRight == IfTakesTrueBranch \/ NegationsNegate
=============================================================================

------------------------------ MODULE MCCompile ------------------------------
(***************************************************************************)
(* Units for model checking Compile.                                       *)
(***************************************************************************)
EXTENDS CompiledCode

Fn(params, ret) == [kind |-> "Fn", params |-> params, ret |-> ret]
Typedef == [kind |-> "Typedef"]

Unit(items, forms, nodes) == [items |-> items, forms |-> forms, nodes |-> nodes]

MCUnits == {
    \* expressions, among them conditional ones inside others
    Unit(<<Fn(<<"float", "bool">>, "bool")>>, {"let", "var", "equal", "if_expr"}, 4),
    Unit(<<Fn(<<>>, "float")>>, {"if_expr", "add", "sub", "negate", "plus", "less"}, 3),
    Unit(<<Fn(<<>>, "bool")>>, {"unequal", "less", "if_expr", "wild_if_expr", "let"}, 3),
    \* if blocks, with a value and without, and what their branches hold
    Unit(<<Fn(<<"bool">>, "float")>>, {"if", "var", "let"}, 3),
    Unit(<<Fn(<<"bool">>, "float")>>, {"if", "if_expr", "stmt", "do"}, 3),
    Unit(<<Fn(<<"bool">>, "()")>>, {"if", "var", "do", "stmt"}, 3),
    Unit(<<Fn(<<"float">>, "float")>>, {"if", "negate", "var"}, 3),
    \* returns, and values that are left by a function for the next one
    Unit(<<Fn(<<>>, "()"), Fn(<<>>, "float")>>, {"if", "return", "empty_return"}, 3),
    Unit(<<Fn(<<>>, "float"), Fn(<<>>, "float")>>, {"return", "stmt", "do", "let"}, 3),
    \* the sources of the first function that the second one finds at its end
    Unit(<<Fn(<<"bool">>, "float"), Fn(<<"bool">>, "()")>>, {"if"}, 2),
    Unit(<<Fn(<<"bool">>, "float"), Fn(<<>>, "()"), Fn(<<>>, "float")>>,
         {"if", "do", "call", "stmt"}, 2),
    Unit(<<Fn(<<"bool">>, "float"), Fn(<<>>, "()"), Fn(<<>>, "()")>>,
         {"if", "return", "empty_return"}, 2),
    \* calls: of itself, of the functions before and after it
    Unit(<<Typedef, Fn(<<"float", "float">>, "float"), Fn(<<>>, "float")>>, {"call", "stmt"}, 3),
    Unit(<<Fn(<<"bool">>, "()"), Fn(<<>>, "bool")>>, {"call", "stmt", "let"}, 4),
    Unit(<<Fn(<<>>, "()")>>, {"if", "call", "stmt"}, 3),
    Unit(<<Fn(<<>>, "()"), Fn(<<"float">>, "float")>>, {"wild_call", "let", "stmt"}, 3)
  }
=============================================================================

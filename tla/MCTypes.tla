------------------------------ MODULE MCTypes -------------------------------
(***************************************************************************)
(* Units for Types: what declarations can get wrong, and bodies of         *)
(* functions with a value and without one.                                 *)
(***************************************************************************)
EXTENDS Types

Fn(params, ret) == [kind |-> "Fn", params |-> params, ret |-> ret]
Typedef(name, type) == [kind |-> "Typedef", name |-> name, type |-> type]

MCTypeNames == {"()", "bool", "float", "A"}

Unit(items, forms, nodes) == [items |-> items, forms |-> forms, nodes |-> nodes]

MCUnits == {
    (* Expressions, with parameters of each type. *)
    Unit(<<Fn(<<"float", "bool">>, "bool")>>,
         {"let", "var", "equality", "if_expr"}, 4),
    Unit(<<Fn(<<"bool">>, "float")>>, {"let", "var", "comparison", "unary"}, 4),
    (* Blocks, with a value and without. *)
    Unit(<<Fn(<<"bool">>, "float")>>, {"var", "return", "do", "if"}, 3),
    Unit(<<Fn(<<"bool">>, "float")>>, {"let", "typed_let", "empty_return", "if", "bool"}, 3),
    Unit(<<Fn(<<"bool">>, "()")>>, {"let", "var", "return", "empty_return", "stmt", "do"}, 3),
    (* Functions that mean each other. *)
    Unit(<<Fn(<<>>, "()"), Fn(<<"float">>, "float")>>, {"let", "var", "call"}, 4),
    (* A function without a value that finds a source of the one before it. *)
    Unit(<<Fn(<<>>, "float"), Fn(<<>>, "()")>>, {"let", "if", "bool"}, 3),
    (* An alias, and one that takes the place of a primitive type. *)
    Unit(<<Typedef("A", "float"), Fn(<<"float">>, "A")>>, {"typed_let", "var", "arithmetic"}, 4),
    Unit(<<Typedef("float", "bool"), Fn(<<"float">>, "bool")>>, {"let", "var", "arithmetic", "if"}, 3),
    (* Everything, once or twice. *)
    Unit(<<Fn(<<"bool">>, "bool")>>, Forms, 2),
    (* Types that are not known, or not yet. *)
    Unit(<<Fn(<<"A">>, "()"), Typedef("A", "bool")>>, {}, 0),
    Unit(<<Fn(<<>>, "A")>>, {}, 0) }
=============================================================================

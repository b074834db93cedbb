------------------------------ MODULE MCNames -------------------------------
(***************************************************************************)
(* Units for model checking Names.                                         *)
(***************************************************************************)
EXTENDS Names

Fn(name, params, valued) ==
    [kind |-> "Fn", name |-> name, params |-> params, valued |-> valued]

Typedef(name) == [kind |-> "Typedef", name |-> name, params |-> <<>>, valued |-> FALSE]

MCIdents == {"f", "g", "x"}

(* Functions with and without a value, before and after one another; type    *)
(* aliases before and after a function; and every clash of two names: of     *)
(* functions, of parameters, of a parameter or an alias with an item before  *)
(* it, and of a parameter with an item after it.                             *)
MCUnits ==
    {<<Fn("f", <<>>, valued), Fn("g", <<>>, ~valued)>> : valued \in BOOLEAN}
        \cup {<<Fn("f", <<>>, FALSE), Fn("f", <<"x">>, TRUE)>>,
              <<Fn("f", <<"x", "x">>, TRUE), Fn("g", <<>>, TRUE)>>,
              <<Fn("f", <<"x", "g">>, TRUE), Typedef("g")>>,
              <<Fn("f", <<>>, TRUE), Typedef("f")>>,
              <<Typedef("x"), Fn("f", <<"x">>, TRUE)>>,
              <<Typedef("x"), Fn("f", <<"g">>, FALSE)>>}
=============================================================================

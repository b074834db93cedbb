------------------------------ MODULE MCParser ------------------------------
(***************************************************************************)
(* Sources for model checking Parser.                                      *)
(***************************************************************************)
EXTENDS Parser

(* The body of a function. *)
Body == <<"Fn", "Ident", "LeftParen", "RightParen", "BeginBlock">>

Source(start, kinds, size) == [start |-> start, kinds |-> kinds, size |-> size]

(* Items; operators; conditions; statements; the arguments of a call; the   *)
(* branches of an if block.                                                  *)
MCSources ==
    {Source(<<>>, {"Fn", "Typedef", "Ident", "LeftParen", "RightParen", "Colon",
                   "Comma", "Arrow", "Equals"}, 14),
     Source(Body, {"Ident", "Plus", "Star", "LeftAngle", "LeftParen", "RightParen",
                   "Equals", "PlusEquals"}, 6),
     Source(Body, {"Ident", "If", "InlineArrow", "Else", "Minus", "Percent"}, 8),
     Source(Body, {"Ident", "Let", "Mut", "Colon", "Equals", "Return", "Do"}, 7),
     Source(Body \o <<"Ident", "LeftParen">>,
            {"Ident", "Literal", "Colon", "Comma", "RightParen"}, 10),
     Source(Body \o <<"If", "Ident">>, {"Ident", "If", "Else", "Return"}, 10)}
=============================================================================

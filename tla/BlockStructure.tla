--------------------------- MODULE BlockStructure ---------------------------
(***************************************************************************)
(* What the lexer promises its reader: an unbounded stream of tokens whose *)
(* block markers nest.  A block can be ended only if one is open, the end  *)
(* of the file is announced only when every block has been ended, and once *)
(* announced it is announced for ever.  The tokenizer (module Tokenizer)   *)
(* implements this specification; the parser (module Parser) is checked    *)
(* against every stream that it allows.                                    *)
(***************************************************************************)
EXTENDS Naturals

VARIABLES
    depth,      \* blocks begun and not yet ended
    last        \* the class of the token handed out last

vars == <<depth, last>>

Classes == {"None", "Text", "BeginBlock", "EndBlock", "EOF"}

Init == depth = 0 /\ last = "None"

(* Any token that stands for characters of the source. *)
Text == 
    /\ last # "EOF"
    /\ last' = "Text"
    /\ UNCHANGED depth

BeginBlock ==
    /\ last # "EOF"
    /\ last' = "BeginBlock"
    /\ depth' = depth + 1

EndBlock ==
    /\ last # "EOF"
    /\ depth > 0
    /\ last' = "EndBlock"
    /\ depth' = depth - 1

EndOfFile ==
    /\ depth = 0
    /\ last' = "EOF"
    /\ UNCHANGED depth

Next == Text \/ BeginBlock \/ EndBlock \/ EndOfFile

Spec == Init /\ [][Next]_vars
=============================================================================

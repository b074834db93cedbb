------------------------------- MODULE Parser -------------------------------
(***************************************************************************)
(* The Pratt parser: Parser (src/src/parse/parser.rs) and the sub-parsers  *)
(* it calls (src/src/parse/parsers/).                                      *)
(*                                                                         *)
(* The call stack of the recursive descent is the variable frames: a frame *)
(* says at which point of its function a call is, and the value that a     *)
(* call returns is left in value.  Most functions only look at the next    *)
(* token to decide what to do; they are tables of rows                     *)
(*     << point, token type, what is done, point reached >>                *)
(* read by Follow.  The lexer hands out every stream of tokens that        *)
(* BlockStructure allows within the bounds of a source.                    *)
(***************************************************************************)
EXTENDS Naturals, SequencesExt

CONSTANT
    Sources     \* bound: what the lexer hands out.  The token types "start",
                \* then at most "size" more tokens, of types "kinds" and blocks

VARIABLES
    source,         \* the source that is parsed
    delivered,      \* tokens the lexer has handed out
    depth, last,    \* the state of the lexer, see BlockStructure
    lookahead,
    indent_rules,
    frames,         \* the calls that are under way
    value,          \* what the call that returned last has returned
    result          \* of parse_unit: "running", "ok" or the error

lexer == <<source, delivered, depth, last>>
vars == <<lexer, lookahead, indent_rules, frames, value, result>>

Lexer == INSTANCE BlockStructure

-----------------------------------------------------------------------------
(* Token types and precedence. *)

BinaryOperators ==
    {"Plus", "Minus", "Star", "Slash", "Percent", "DoubleEquals", "NotEquals",
     "LeftAngle", "RightAngle", "LessThanEquals", "GreaterThanEquals"}

AssignOperators ==
    {"PlusEquals", "MinusEquals", "StarEquals", "SlashEquals", "PercentEquals"}

TextTypes ==
    BinaryOperators \cup AssignOperators \cup
    {"Equals", "LeftParen", "RightParen", "InlineArrow", "Arrow", "Comma",
     "Colon", "GitMergeBegin", "Let", "Mut", "Return", "Do", "If", "Else",
     "Fn", "Typedef", "Ident", "Literal"}

TokenTypes == TextTypes \cup {"BeginBlock", "EndBlock", "EOF"}

ASSUME SourcesAssumption ==
    \A s \in Sources : /\ s.start \in Seq(TextTypes \cup {"BeginBlock"})
                       /\ s.kinds \subseteq TextTypes
                       /\ s.size \in Nat

Prec == [Min |-> 0, Return |-> 1, Assign |-> 2, Equality |-> 3,
         EqualityCompare |-> 4, AddSub |-> 5, MulDiv |-> 6, Modulo |-> 7,
         NumericPrefix |-> 8, NotKeyword |-> 9, Paren |-> 10]

(* Precedence::for_token for an infix token. *)
ForToken(type) ==
    CASE type = "Return"                              -> Prec.Return
      [] type \in AssignOperators \cup {"Equals"}     -> Prec.Assign
      [] type \in {"DoubleEquals", "NotEquals"}       -> Prec.Equality
      [] type \in {"LeftAngle", "RightAngle",
                   "LessThanEquals", "GreaterThanEquals"}
                                                      -> Prec.EqualityCompare
      [] type \in {"Plus", "Minus"}                   -> Prec.AddSub
      [] type \in {"Star", "Slash"}                   -> Prec.MulDiv
      [] type = "Percent"                             -> Prec.Modulo
      [] type = "LeftParen"                           -> Prec.Paren
      [] OTHER                                        -> Prec.Min

(* Expressions, by variant: op is the operator of a BinaryOp, and paren says *)
(* that parentheses enclosed it, which the program does not keep.            *)
Variants == {"VariableRef", "Literal", "Assignment", "FnCall", "IfExpression",
             "BinaryOp", "UnaryOp", "none"}

Value(variant) == [variant |-> variant, op |-> "none", paren |-> FALSE]

NoValue == Value("none")

HasValue(v) == v.variant # "Assignment"

ParseErrors == {"ExpectedToken", "LazyString", "EOF", "ExpectedExpression",
                "ExpectedLValue", "UnknownOperator"}

-----------------------------------------------------------------------------
(* The functions, as tables.  A row is                                       *)
(*     << point, type of the next token, what is done, point reached >>      *)
(* where the type may be "other", and what is done is to "keep" the token,   *)
(* to "take" it, to take it and push a "rule", to take it and parse a       *)
(* "block", to "call" the function that starts at the point, or to "fail".   *)
(* A token with no row is an error.                                          *)

UnitRows ==
    {<<"unit", "EOF",     "keep", "done">>,
     <<"unit", "other",   "call", "item">>,
     <<"item", "Fn",      "take", "fn">>,
     <<"item", "Typedef", "take", "typedef">>}

FnDeclarationRows ==
    {<<"fn",          "Ident",      "take", "fn_paren">>,
     <<"fn_paren",    "LeftParen",  "take", "params">>,
     <<"params",      "RightParen", "take", "arrow">>,
     <<"params",      "BeginBlock", "rule", "param">>,
     <<"params",      "other",      "keep", "param">>,
     <<"param",       "Ident",      "take", "param_colon">>,
     <<"param_colon", "Colon",      "take", "param_type">>,
     <<"param_type",  "Ident",      "take", "params_comma">>,
     <<"params_comma", "RightParen", "take", "arrow">>,
     <<"params_comma", "BeginBlock", "rule", "comma">>,
     <<"params_comma", "other",     "keep", "comma">>,
     <<"comma",       "Comma",      "take", "params">>,
     <<"arrow",       "Arrow",      "take", "return_type">>,
     <<"arrow",       "other",      "keep", "fn_body">>,
     <<"return_type", "Ident",      "take", "fn_body">>,
     <<"fn_body",     "BeginBlock", "take", "block">>}

TypedefRows ==
    {<<"typedef",        "Ident",  "take", "typedef_equals">>,
     <<"typedef_equals", "Equals", "take", "typedef_type">>,
     <<"typedef_type",   "Ident",  "take", "done">>}

BlockRows ==
    {<<"block", "EOF",      "keep", "done">>,
     <<"block", "EndBlock", "take", "done">>,
     <<"block", "other",    "call", "statement">>}

StatementRows ==
    {<<"statement", "Let",    "take", "let">>,
     <<"statement", "Return", "take", "return">>,
     <<"statement", "Do",     "take", "do">>,
     <<"statement", "If",     "take", "if_cond">>,
     <<"statement", "other",  "keep", "expression">>}

DoBlockRows ==
    {<<"do", "BeginBlock", "take", "block">>,
     <<"do", "other",      "keep", "statement">>}

DeclarationRows ==
    {<<"let",       "Mut",    "take", "let_name">>,
     <<"let",       "other",  "keep", "let_name">>,
     <<"let_name",  "Ident",  "take", "let_colon">>,
     <<"let_colon", "Colon",  "take", "let_type">>,
     <<"let_colon", "other",  "keep", "let_equals">>,
     <<"let_type",  "Ident",  "take", "let_equals">>,
     <<"let_equals", "Equals", "take", "let_value">>}

IfBlockRows ==
    {<<"if_cond",   "InlineArrow", "take", "if_true">>,
     <<"if_cond",   "BeginBlock",  "block", "if_blocks">>,
     <<"if_true",   "Else",        "take", "if_else">>,
     <<"if_else",   "If",          "fail", "if_else">>,
     <<"if_else",   "other",       "keep", "expression">>,
     <<"if_blocks", "Else",        "take", "else">>,
     <<"if_blocks", "other",       "keep", "done">>,
     <<"else",      "BeginBlock",  "take", "block">>,
     <<"else",      "If",          "take", "elif_cond">>,
     <<"elif_cond", "InlineArrow", "fail", "elif_cond">>,
     <<"elif_cond", "BeginBlock",  "block", "if_blocks">>}

IfExpressionRows ==
    {<<"ifx_cond", "InlineArrow", "take", "ifx_true">>,
     <<"ifx_true", "Else",        "take", "ifx_false">>}

ParensRows == {<<"parens", "RightParen", "take", "done">>}

(* An argument is named if its name is followed by a colon; anything else    *)
(* must end the call.                                                        *)
FnCallRows ==
    {<<"args",      "RightParen", "take", "called">>,
     <<"args",      "other",      "keep", "arg">>,
     <<"name",      "Colon",      "take", "arg_value">>,
     <<"unnamed",   "BeginBlock", "rule", "arg_close">>,
     <<"unnamed",   "other",      "keep", "arg_close">>,
     <<"arg_close", "RightParen", "take", "called">>,
     <<"arg_value", "RightParen", "take", "called">>,
     <<"arg_value", "BeginBlock", "rule", "arg_comma">>,
     <<"arg_value", "other",      "keep", "arg_comma">>,
     <<"arg_comma", "Comma",      "take", "args">>,
     <<"called",    "other",      "keep", "done">>}

Rows == UnitRows \cup FnDeclarationRows \cup TypedefRows \cup BlockRows
            \cup StatementRows \cup DoBlockRows \cup DeclarationRows
            \cup IfBlockRows \cup IfExpressionRows \cup ParensRows
            \cup FnCallRows

RowPoints == {r[1] : r \in Rows}

(* The points at which expression has been called. *)
ExpressionPoints ==
    {"let_value", "return_value", "if_cond", "if_true", "elif_cond",
     "ifx_cond", "ifx_true", "ifx_false", "parens", "unary", "assign",
     "assign_op", "arg", "arg_value"}

PrecedenceAtNot(point) ==   \* a fault: a sign binds like a "not"
    CASE point = "return_value" -> Prec.Return
      [] point = "unary"        -> Prec.NotKeyword
      [] point = "assign"       -> Prec.Assign
      [] OTHER                  -> Prec.Min

(* The precedence it has been called with. *)
PrecedenceAt(point) ==
    CASE point = "return_value" -> Prec.Return
      [] point = "unary"        -> Prec.NumericPrefix
      [] point = "assign"       -> Prec.Assign
      [] OTHER                  -> Prec.Min

(* The points after a call at which nothing more is read. *)
LastPoints == {"let_value", "return_value", "ifx_false", "unary", "assign",
               "assign_op", "binop"}

(* The points whose expression must have a value. *)
ValuePoints == {"let_value", "return_value", "parens", "unary", "assign",
                "assign_op"}

Points == RowPoints \cup ExpressionPoints \cup
              {"return", "expression", "prefix", "infix", "binop"}

-----------------------------------------------------------------------------
(* The state. *)

Token == [type : TokenTypes,
          newline : BOOLEAN,    \* starts on a later line than the token before
          level : Nat]          \* of a BeginBlock or EndBlock: which block it is

Expression == [variant : Variants, op : BinaryOperators \cup {"none"},
               paren : BOOLEAN]

Frame == [at : Points,
          prec : {Prec.Min, Prec.Return, Prec.Assign, Prec.NumericPrefix}
                     \cup {ForToken(op) : op \in BinaryOperators},
          left : Expression,    \* of an infix operator
          op : BinaryOperators \cup AssignOperators \cup {"none"},
          level : Nat]          \* of the BeginBlock that began a block, 0 if
                                \* a rule to skip an EndBlock was pending

TypeOK ==
    /\ source \in Sources
    /\ delivered \in Nat
    /\ depth \in Nat
    /\ last \in Lexer!Classes
    /\ lookahead \in Seq(Token)
    /\ indent_rules \in Seq({"NegateDeindent"})
    /\ frames \in Seq(Frame)
    /\ value \in Expression
    /\ result \in {"running", "ok"} \cup ParseErrors

-----------------------------------------------------------------------------
(* Tokens. *)

top == frames[Len(frames)]

(* peek(), and what consume() takes: the token queued last. *)
Peek == lookahead[1].type
Taken == Last(lookahead)
Take == lookahead' = Front(lookahead)

(* peek_indented looks ahead past every BeginBlock. *)
Needed ==
    CASE top.at = "return"       -> 1 + Cardinality({i \in DOMAIN lookahead :
                                             lookahead[i].type = "BeginBlock"})
      [] top.at \in LastPoints   -> 0
      [] OTHER                   -> 1

Limit == Len(source.start) + source.size

(* What the lexer may hand out next.  BlockStructure says the rest. *)
Offered ==
    IF delivered < Len(source.start) THEN {source.start[delivered + 1]}
    ELSE (IF delivered < Limit THEN source.kinds \cup {"BeginBlock"} ELSE {})
             \cup {"EndBlock", "EOF"}

(* Only the parser of return looks at lines. *)
Newlines(type) ==
    IF top.at = "return" /\ lookahead = <<>> /\ type \notin {"BeginBlock", "EOF"}
    THEN BOOLEAN ELSE {TRUE}

(* The lexer's side: on the line of another token an EndBlock is there only  *)
(* because the file ends on that line.                                       *)
HandOut(token) ==
    /\ CASE token.type = "BeginBlock" -> Lexer!BeginBlock
         [] token.type = "EndBlock"   -> Lexer!EndBlock
         [] token.type = "EOF"        -> Lexer!EndOfFile
         [] OTHER                     -> Lexer!Text
    /\ token.level = IF token.type = "EndBlock" THEN depth ELSE depth'
    /\ delivered' = IF token.type = "EndBlock" /\ ~token.newline
                    THEN Limit ELSE delivered + 1
    /\ UNCHANGED source

(* NegateDeindent is the only rule that any parser pushes. *)
PushRuleOnce ==     \* a fault: a flag in place of a stack
    IF indent_rules = <<>> THEN <<"NegateDeindent">> ELSE indent_rules

PushRule == Append(indent_rules, "NegateDeindent")

PopNoRule == indent_rules   \* a fault: the rule stays in force

PopRule == Front(indent_rules)

NegatesEveryOther(type) ==  \* a fault: a rule upon a rule is not applied
    Len(indent_rules) = 1 /\ type = "EndBlock"

Negates(type) == indent_rules # <<>> /\ type = "EndBlock"

(* look_ahead, one turn of its loop. *)
LookAhead ==
    /\ result = "running"
    /\ Len(lookahead) < Needed
    /\ \E type \in Offered : \E newline \in Newlines(type) :
         LET token == [type |-> type, newline |-> newline,
                       level |-> CASE type = "BeginBlock" -> depth + 1
                                   [] OTHER               -> depth]
         IN /\ HandOut(token)
            /\ IF Negates(type)
               THEN /\ indent_rules' = PopRule
                    /\ UNCHANGED lookahead
               ELSE /\ lookahead' = Append(lookahead, token)
                    /\ UNCHANGED indent_rules
    /\ UNCHANGED <<frames, value, result>>

-----------------------------------------------------------------------------
(* Calls. *)

New(at, prec) ==
    [at |-> at, prec |-> prec, left |-> NoValue, op |-> "none", level |-> 0]

BlockLevel == IF indent_rules = <<>> THEN Taken.level ELSE 0

(* The call on top of the stack fs reaches a point. *)
Reach(fs, to) ==
    LET moved == [fs EXCEPT ![Len(fs)] =
                     [@ EXCEPT !.at = to,
                               !.level = IF to = "block" THEN BlockLevel ELSE 0]]
    IN CASE to = "done"              -> Front(fs)
         [] to \in ExpressionPoints  -> Append(moved, New("expression", PrecedenceAt(to)))
         [] OTHER                    -> moved

Call(fs, to) == Reach(Append(fs, New(to, Prec.Min)), to)

(* What the call on top of the stack returns. *)
Returned ==
    CASE top.at = "called"                 -> Value("FnCall")
      [] top.at = "parens"                 -> [value EXCEPT !.paren = TRUE]
      [] top.at = "ifx_false"              -> Value("IfExpression")
      [] top.at = "unary"                  -> Value("UnaryOp")
      [] top.at \in {"assign", "assign_op"} -> Value("Assignment")
      [] top.at = "binop"                  -> [Value("BinaryOp") EXCEPT !.op = top.op]
      [] OTHER                             -> NoValue

Error(error) == result' = error

(* Whether the call on top of the stack goes on: the tokens it looks at are  *)
(* there, and what it called returned what it must.                          *)
Runs ==
    /\ result = "running"
    /\ Len(lookahead) >= Needed
    /\ top.at \in ValuePoints => HasValue(value)

-----------------------------------------------------------------------------
Init ==
    /\ source \in Sources
    /\ delivered = 0
    /\ Lexer!Init
    /\ lookahead = <<>>
    /\ indent_rules = <<>>
    /\ frames = <<New("unit", Prec.Min)>>
    /\ value = NoValue
    /\ result = "running"

(* An argument is a name or it is not. *)
Point ==
    IF top.at # "arg" THEN top.at
    ELSE IF value.variant = "VariableRef" THEN "name" ELSE "unnamed"

Applies(r) ==
    /\ r[1] = Point
    /\ r[2] = Peek \/ (r[2] = "other" /\ \A q \in Rows : q[1] = r[1] => q[2] # Peek)

Follow(rows) ==
    /\ Runs
    /\ Point \in RowPoints
    /\ \E r \in rows :
         /\ Applies(r)
         /\ frames' = CASE r[3] = "call"  -> Call(frames, r[4])
                        [] r[3] = "block" -> Call(Reach(frames, r[4]), "block")
                        [] r[3] = "fail"  -> frames
                        [] OTHER          -> Reach(frames, r[4])
         /\ IF r[3] \in {"take", "rule", "block"} THEN Take ELSE UNCHANGED lookahead
         /\ indent_rules' = IF r[3] = "rule" THEN PushRule ELSE indent_rules
         /\ value' = IF r[4] = "done" THEN Returned ELSE NoValue
         /\ result' = CASE r[3] = "fail"   -> "LazyString"
                        [] frames' = <<>> -> "ok"
                        [] OTHER          -> result
    /\ UNCHANGED lexer

ParseUnit == Follow(UnitRows)
FnDeclaration == Follow(FnDeclarationRows)
Typedef == Follow(TypedefRows)
Block == Follow(BlockRows)
Statement == Follow(StatementRows)
DoBlock == Follow(DoBlockRows)
Declaration == Follow(DeclarationRows)
IfBlock == Follow(IfBlockRows)
IfExpression == Follow(IfExpressionRows)
Parens == Follow(ParensRows)
FnCall == Follow(FnCallRows)

LazyPoints == {"item", "param_type", "return_type", "typedef_type", "let_type",
               "name", "else"}

(* A token that the function does not expect. *)
Unexpected ==
    /\ Runs
    /\ Point \in RowPoints
    /\ \A r \in Rows : ~Applies(r)
    /\ Error(IF Point \in LazyPoints THEN "LazyString" ELSE "ExpectedToken")
    /\ UNCHANGED <<lexer, lookahead, indent_rules, frames, value>>

(* expect_value. *)
ExpectValue ==
    /\ result = "running"
    /\ top.at \in ValuePoints
    /\ ~HasValue(value)
    /\ Error("ExpectedExpression")
    /\ UNCHANGED <<lexer, lookahead, indent_rules, frames, value>>

(* The rest of a function whose last call has returned: binary_operator      *)
(* knows the operators of a BinaryOp only.                                   *)
Finish ==
    /\ Runs
    /\ top.at \in LastPoints
    /\ IF top.at = "assign_op" /\ top.op \notin BinaryOperators
       THEN /\ Error("UnknownOperator")
            /\ UNCHANGED <<frames, value>>
       ELSE /\ frames' = Front(frames)
            /\ value' = Returned
            /\ UNCHANGED result
    /\ UNCHANGED <<lexer, lookahead, indent_rules>>

(* peek_is_newline, then an empty return or a value. *)
ReturnStatement ==
    /\ Runs
    /\ top.at = "return"
    /\ frames' = IF Len(lookahead) > 1 \/ Taken.newline \/ Peek = "EOF"
                 THEN Front(frames) ELSE Reach(frames, "return_value")
    /\ UNCHANGED <<lexer, lookahead, indent_rules, value, result>>

-----------------------------------------------------------------------------
(* expression. *)

(* consume_indented, when there is an indentation. *)
Indented ==
    /\ Runs
    /\ top.at = "expression"
    /\ Taken.type = "BeginBlock"
    /\ Take
    /\ indent_rules' = PushRule
    /\ frames' = Reach(frames, "prefix")
    /\ UNCHANGED <<lexer, value, result>>

StartsPrefix(type) ==
    CASE type = "If"                 -> "ifx_cond"
      [] type \in {"Minus", "Plus"}  -> "unary"
      [] type = "LeftParen"          -> "parens"

(* Among the numbers of the lexer are some that f64 does not parse, as the   *)
(* lexer takes every char::is_number for a digit: such a literal fails.      *)
LiteralError(type) ==
    /\ type = "Literal"
    /\ Error("ExpectedToken")
    /\ UNCHANGED <<frames, value>>

Prefix ==
    /\ Runs
    /\ \/ top.at = "prefix"
       \/ top.at = "expression" /\ Taken.type # "BeginBlock"
    /\ Take
    /\ LET type == Taken.type
           infix == Reach(frames, "infix")
       IN \/ /\ type \in {"Ident", "Literal"}
             /\ frames' = infix
             /\ value' = Value(IF type = "Ident" THEN "VariableRef" ELSE "Literal")
             /\ UNCHANGED result
          \/ LiteralError(type)
          \/ /\ type \in {"If", "Minus", "Plus", "LeftParen"}
             /\ frames' = Call(infix, StartsPrefix(type))
             /\ UNCHANGED <<value, result>>
          \/ /\ type \notin {"Ident", "Literal", "If", "Minus", "Plus", "LeftParen"}
             /\ Error(IF type \in {"EOF", "EndBlock"} THEN "EOF" ELSE "LazyString")
             /\ UNCHANGED <<frames, value>>
    /\ UNCHANGED <<lexer, indent_rules>>

BindsEqual == top.prec <= ForToken(Peek)     \* a fault: equals bind

(* The loop goes on; a BeginBlock has precedence Min, so that the call of    *)
(* consume_indented in the loop never finds one.                             *)
Binds == top.prec < ForToken(Peek)

Infix(types) ==
    /\ Runs
    /\ top.at = "infix"
    /\ Binds
    /\ Taken.type \in types
    /\ Take
    /\ UNCHANGED <<lexer, indent_rules>>

OperandPrecedenceMin(type) == Prec.Min  \* a fault: the operand takes all

OperandPrecedence(type) == ForToken(type)

InfixBinaryOp ==
    /\ Infix(BinaryOperators)
    /\ LET binop == [New("binop", Prec.Min) EXCEPT !.left = value, !.op = Taken.type]
       IN frames' = frames \o <<binop, New("expression", OperandPrecedence(Taken.type))>>
    /\ value' = NoValue
    /\ UNCHANGED result

StartsInfix(type) ==
    CASE type = "Equals"    -> "assign"
      [] type = "LeftParen" -> "args"
      [] OTHER              -> "assign_op"

(* Assignments and calls, which expect_identifier on the left. *)
InfixOfIdentifier ==
    /\ Infix(AssignOperators \cup {"Equals", "LeftParen"})
    /\ IF value.variant = "VariableRef"
       THEN LET at == StartsInfix(Taken.type)
                frame == [New(at, Prec.Min) EXCEPT
                            !.op = IF at = "assign_op" THEN Taken.type ELSE "none"]
            IN /\ frames' = Reach(Append(frames, frame), at)
               /\ value' = NoValue
               /\ UNCHANGED result
       ELSE /\ Error("ExpectedLValue")
            /\ UNCHANGED <<frames, value>>

InfixBreakGoesOn ==     \* a fault: the loop goes on without a token
    /\ Runs /\ top.at = "infix" /\ Binds /\ Peek = "Return"
    /\ UNCHANGED vars

(* "If we can't match an infix then we need to parse the next expression":   *)
(* the token that has been taken is dropped.                                 *)
InfixBreak ==
    /\ Infix(TokenTypes \ (BinaryOperators \cup AssignOperators
                               \cup {"Equals", "LeftParen"}))
    /\ frames' = Front(frames)
    /\ UNCHANGED <<value, result>>

InfixDone ==
    /\ Runs
    /\ top.at = "infix"
    /\ ~Binds
    /\ frames' = Front(frames)
    /\ UNCHANGED <<lexer, lookahead, indent_rules, value, result>>

Stopped == result # "running" /\ UNCHANGED vars

Next ==
    \/ LookAhead
    \/ ParseUnit \/ FnDeclaration \/ Typedef
    \/ Block \/ Statement \/ DoBlock \/ Declaration \/ IfBlock \/ ReturnStatement
    \/ IfExpression \/ Parens \/ FnCall
    \/ Unexpected \/ ExpectValue \/ Finish
    \/ Indented \/ Prefix
    \/ InfixBinaryOp \/ InfixOfIdentifier \/ InfixBreak \/ InfixDone
    \/ Stopped

Spec == Init /\ [][Next]_vars

(* The parser is sequential code and the lexer answers every call. *)
FairSpec == Spec /\ WF_vars(Next)

-----------------------------------------------------------------------------
(* Properties. *)

BlockFrames == {i \in DOMAIN frames : frames[i].at = "block"}

Queued(type) == {i \in DOMAIN lookahead : lookahead[i].type = type}

(* Every BeginBlock that has been taken is answered for, by a block that is  *)
(* parsed or by a rule that will skip one EndBlock, wherever the indentation *)
(* was: the rules and the call stack together keep the count of the lexer.   *)
IndentationAccounted ==
    result \in {"running", "ok"} =>
        depth + Cardinality(Queued("EndBlock"))
            = Len(indent_rules) + Cardinality(BlockFrames)
                  + Cardinality(Queued("BeginBlock"))

(* A block that begins while no rule is pending ends at its own EndBlock,    *)
(* though statements inside it push rules and rules skip EndBlocks.          *)
BlocksEndAtTheirEnd ==
    (result = "running" /\ top.at = "block" /\ lookahead # <<>> /\ Peek = "EndBlock")
        => top.level \in {0, lookahead[1].level}

(* A source is accepted only when all of it has been read: no block is ended *)
(* by the end of the file, as block() would allow, no rule is left over and  *)
(* no token is left in the queue.                                            *)
AcceptedIsRead ==
    /\ result = "ok" => /\ depth = 0 /\ indent_rules = <<>>
                        /\ Len(lookahead) = 1 /\ Peek = "EOF"
    /\ (result = "running" /\ top.at = "block" /\ lookahead # <<>>) => Peek # "EOF"

(* The binary operators, from the loosest to the tightest.                   *)
Tiers == <<{"DoubleEquals", "NotEquals"},
           {"LeftAngle", "RightAngle", "LessThanEquals", "GreaterThanEquals"},
           {"Plus", "Minus"}, {"Star", "Slash"}, {"Percent"}>>

Tier(op) == CHOOSE t \in DOMAIN Tiers : op \in Tiers[t]

Bare(v, variant) == v.variant = variant /\ ~v.paren

(* The operators bind by tier and to the left: without parentheses, the left *)
(* operand of an operator is not looser than it, the right operand of it is  *)
(* tighter, and a sign applies to no binary operation.                       *)
OperatorsBind ==
    result = "running" =>
        /\ \A i \in DOMAIN frames :
             (frames[i].at = "binop" /\ Bare(frames[i].left, "BinaryOp"))
                 => Tier(frames[i].left.op) >= Tier(frames[i].op)
        /\ (top.at = "binop" /\ Bare(value, "BinaryOp")) => Tier(value.op) > Tier(top.op)
        /\ top.at = "unary" => ~Bare(value, "BinaryOp")

(* An operand of a binary operator has a value: BinOpExprSymbol, alone among *)
(* the infix parsers, does not ask for one, and relies on precedence.        *)
OperandsHaveValue ==
    result = "running" =>
        /\ \A i \in DOMAIN frames : frames[i].at = "binop" => HasValue(frames[i].left)
        /\ top.at = "binop" => HasValue(value)

(* Parsing ends, whatever the lexer hands out: the loops of parse_unit,      *)
(* block, params, arguments, else branches and operators all take tokens.    *)
EventuallyParsed == <>(result # "running")

(* "You can use the return keyword to immediately return that value": a      *)
(* return that is taken from the queue starts a return statement or an error. *)
ReturnsAreParsed ==
    [][(Len(lookahead') < Len(lookahead) /\ Taken.type = "Return")
           => result' # "running" \/ Last(frames').at = "return"]_vars
=============================================================================

---------------------------- MODULE ParserProofs ----------------------------
(***************************************************************************)
(* For every set of sources, of any length: the parser stays within its    *)
(* types, its rules and its call stack account for every indentation, it   *)
(* accepts only what it has read to the end, operators bind by tier, and   *)
(* blocks end at their own ends.                                           *)
(***************************************************************************)
EXTENDS Parser, StackFacts, FiniteSetTheorems

ExprAts == {"expression", "prefix", "infix"}

(* The operands of these are parsed by a call of expression.                 *)
Operators == {"binop", "unary", "assign"}

(* The precedence with which the operand of the operator is parsed.          *)
Operand(f) == IF f.at = "binop" THEN ForToken(f.op) ELSE PrecedenceAt(f.at)

(* The left operand of a binary operator.                                    *)
LeftBinds(f) ==
    /\ HasValue(f.left)
    /\ Bare(f.left, "BinaryOp") => /\ f.left.op \in BinaryOperators
                                   /\ ForToken(f.left.op) >= ForToken(f.op)

(* What the loop over the operators calls, and what it becomes. *)
InfixCalls == {"binop", "assign", "assign_op", "unary", "parens", "ifx_cond",
               "ifx_true", "ifx_false", "args", "arg", "arg_value", "arg_close",
               "arg_comma", "called"}

(* The call f has made the call g.                                           *)
Calls(f, g) ==
    /\ g.at # "unit"
    /\ g.at = "binop" => /\ g.op \in BinaryOperators /\ LeftBinds(g)
                         /\ f.at = "infix" /\ f.prec < ForToken(g.op)
    /\ g.at = "assign" => f.at = "infix" /\ f.prec < Prec.Assign
    /\ g.at = "assign_op" => g.op \in AssignOperators
    /\ g.at \in {"statement", "do", "return"} => f.at = "block"
    /\ f.at = "infix" => g.at \in InfixCalls
    /\ f.at \in Operators => g.at \in ExprAts /\ g.prec = Operand(f)

(* Every call on the stack was made by the one below it.                     *)
Linked(fs) ==
    /\ fs # <<>> /\ fs[1].at = "unit"
    /\ \A i \in 2..Len(fs) : Calls(fs[i - 1], fs[i])

(* The next token of the queue q binds at most as tightly as p.              *)
NextBinds(p, q) == q # <<>> /\ ForToken(q[1].type) <= p

(* The value v is what the call f may have got, and q has what stopped it.   *)
ValueFits(v, f, q) ==
    /\ v.variant = "BinaryOp" => v.op \in BinaryOperators
    /\ f.at = "infix" =>
          /\ v.variant = "Assignment" => f.prec < Prec.Assign /\ NextBinds(Prec.Assign, q)
          /\ Bare(v, "BinaryOp") => f.prec < ForToken(v.op) /\ NextBinds(ForToken(v.op), q)
    /\ f.at \in Operators =>
          /\ v.variant = "Assignment" => Operand(f) < Prec.Assign
          /\ Bare(v, "BinaryOp") => Operand(f) < ForToken(v.op)
          /\ NextBinds(Operand(f), q)

(* The queue holds more than one token only after "return" has looked ahead: *)
(* BeginBlocks, and what follows them until a statement takes the first.     *)
QueuePoints == {"return", "block", "statement", "expression"}

QueueFits(q, at) ==
    /\ \A i \in 1..(Len(q) - 1) : q[i].type = "BeginBlock"
    /\ Len(q) >= 2 /\ q[Len(q)].type # "BeginBlock" => at \in QueuePoints

(* The end of the file is announced when every block has been ended. *)
EOFInv ==
    /\ \A i \in DOMAIN lookahead : lookahead[i].type = "EOF" => last = "EOF"
    /\ last = "EOF" => depth = 0

Positions(s, T) == {i \in DOMAIN s : s[i] \in T}

Occurrences(s, T) == Cardinality(Positions(s, T))

Tokens(type) == {t \in Token : t.type = type}

Count(q, type) == Occurrences(q, Tokens(type))

Blocks(fs) == Occurrences(fs, {f \in Frame : f.at = "block"})

(* IndentationAccounted, in these terms. *)
Balanced ==
    depth + Count(lookahead, "EndBlock")
        = Len(indent_rules) + Blocks(frames) + Count(lookahead, "BeginBlock")

Running ==
    /\ Linked(frames)
    /\ ValueFits(value, top, lookahead)
    /\ QueueFits(lookahead, top.at)
    /\ EOFInv
    /\ Balanced

Accepted ==
    /\ depth = 0 /\ indent_rules = <<>> /\ frames = <<>>
    /\ Len(lookahead) = 1 /\ Peek = "EOF"

(* The inductive invariant. *)
IInv ==
    /\ TypeOK
    /\ result = "running" => Running
    /\ result = "ok" => Accepted

-----------------------------------------------------------------------------
(* Sequences, and how often something occurs in them. *)

LEMMA OneOrMore == \A n \in Nat \ {0} : n = 1 \/ n >= 2
OBVIOUS

LEMMA OccurrencesType ==
    ASSUME NEW S, NEW s \in Seq(S), NEW T
    PROVE  /\ IsFiniteSet(Positions(s, T))
           /\ Occurrences(s, T) \in Nat
<1>1. Len(s) \in Nat /\ DOMAIN s = 1..Len(s)
  BY LenProperties
<1>2. IsFiniteSet(1..Len(s))
  BY <1>1, FS_Interval
<1>3. Positions(s, T) \in SUBSET (1..Len(s))
  BY <1>1 DEF Positions
<1>4. IsFiniteSet(Positions(s, T))
  BY <1>2, <1>3, FS_Subset
<1> QED
  BY <1>4, FS_CardinalityType DEF Occurrences

LEMMA OccurrencesAppend ==
    ASSUME NEW S, NEW s \in Seq(S), NEW e \in S, NEW T
    PROVE  Occurrences(Append(s, e), T) = IF e \in T THEN Occurrences(s, T) + 1
                                                     ELSE Occurrences(s, T)
<1> DEFINE n == Len(s)
           a == Append(s, e)
<1>1. n \in Nat /\ DOMAIN s = 1..n
  BY LenProperties
<1>2. a \in Seq(S) /\ Len(a) = n + 1 /\ (\A i \in 1..n : a[i] = s[i]) /\ a[n + 1] = e
  BY AppendItem
<1>3. DOMAIN a = 1..(n + 1)
  BY <1>2, LenProperties
<1>4. IsFiniteSet(Positions(s, T))
  BY OccurrencesType
<1> HIDE DEF n, a
<1>5. n + 1 \notin Positions(s, T)
  BY <1>1 DEF Positions
<1>6. CASE e \in T
  <2>1. Positions(a, T) = Positions(s, T) \cup {n + 1}
    BY <1>1, <1>2, <1>3, <1>6 DEF Positions
  <2>2. Cardinality(Positions(s, T) \cup {n + 1}) = Cardinality(Positions(s, T)) + 1
    BY <1>4, <1>5, FS_AddElement
  <2> QED
    BY <1>6, <2>1, <2>2 DEF Occurrences, a
<1>7. CASE e \notin T
  <2>1. Positions(a, T) = Positions(s, T)
    BY <1>1, <1>2, <1>3, <1>7 DEF Positions
  <2> QED
    BY <1>7, <2>1 DEF Occurrences, a
<1> QED
  BY <1>6, <1>7

LEMMA OccurrencesFront ==
    ASSUME NEW S, NEW s \in Seq(S), s # <<>>, NEW T
    PROVE  Occurrences(s, T) = IF s[Len(s)] \in T THEN Occurrences(Front(s), T) + 1
                                                  ELSE Occurrences(Front(s), T)
<1>1. /\ Len(s) \in Nat \ {0}
      /\ s[Len(s)] \in S
      /\ Front(s) \in Seq(S)
  BY FrontItems
<1>2. [s EXCEPT ![Len(s)] = s[Len(s)]] = Append(Front(s), s[Len(s)])
  BY <1>1, ReplaceLast
<1>3. [s EXCEPT ![Len(s)] = s[Len(s)]] = s
  <2>1. s \in [1..Len(s) -> S]
    BY LenProperties
  <2> QED
    BY <1>1, <2>1
<1>4. Append(Front(s), s[Len(s)]) = s
  BY <1>2, <1>3
<1>5. Occurrences(Append(Front(s), s[Len(s)]), T)
          = IF s[Len(s)] \in T THEN Occurrences(Front(s), T) + 1
                               ELSE Occurrences(Front(s), T)
  BY <1>1, OccurrencesAppend
<1> QED
  BY <1>4, <1>5

LEMMA NoOccurrences ==
    ASSUME NEW T
    PROVE  Occurrences(<<>>, T) = 0
<1>1. Positions(<<>>, T) = {}
  BY DEF Positions
<1> QED
  BY <1>1, FS_EmptySet DEF Occurrences

-----------------------------------------------------------------------------
(* The tables. *)

RowFacts(r) ==
    /\ r[1] \notin ExprAts \cup Operators \cup {"arg", "return", "assign_op"}
    /\ r[2] \in TokenTypes \cup {"other"}
    /\ r[3] \in {"keep", "take", "rule", "block", "call", "fail"}
    /\ r[4] \in Points \cup {"done"}
    /\ r[4] \notin Operators \cup {"unit", "assign_op", "infix", "prefix"}

(* Which rows open and close blocks, call, or push a rule. *)
RowKinds(r) ==
    /\ r[3] = "call" => /\ r[2] = "other"
                        /\ \/ r[1] = "unit" /\ r[4] = "item"
                           \/ r[1] = "block" /\ r[4] = "statement"
    /\ r[3] = "block" => /\ r[2] = "BeginBlock" /\ r[4] = "if_blocks"
                         /\ r[1] \notin {"unit", "block"}
    /\ r[3] = "rule" => /\ r[2] = "BeginBlock" /\ r[4] \notin {"block", "done"}
                        /\ r[1] \notin {"unit", "block"}
    /\ r[3] = "take" => /\ r[2] # "other" /\ r[1] # "unit"
                        /\ r[2] = "BeginBlock" <=> r[4] = "block"
                        /\ r[2] = "EndBlock" <=> r[1] = "block"
                        /\ r[1] = "block" => r[4] = "done"
    /\ r[3] = "keep" => /\ r[4] # "block"
                        /\ r[1] \in {"unit", "block"} => r[2] = "EOF" /\ r[4] = "done"

(* Where the functions lead to. *)
RowTargets(r) ==
    /\ (r[3] # "call" /\ r[4] \in {"statement", "do", "return"}) => r[1] \in {"statement", "do"}
    /\ r[1] \in InfixCalls \cup {"name", "unnamed"}
           => /\ r[3] \notin {"call", "block"}
              /\ r[4] \in InfixCalls \cup {"done"}
    /\ r[1] \in {"block", "statement"}
           => /\ r[2] # "BeginBlock"
              /\ r[2] = "other" => r[3] \in {"call", "keep"} /\ r[4] \in {"statement", "expression"}

(* The points at which the tables look at a token.                           *)
RowPointNames ==
    {"unit", "item", "fn", "fn_paren", "params", "param",
     "param_colon", "param_type", "params_comma", "comma", "arrow",
     "return_type", "fn_body", "typedef", "typedef_equals",
     "typedef_type", "block", "statement", "do", "let", "let_name",
     "let_colon", "let_type", "let_equals", "if_cond", "if_true",
     "if_else", "if_blocks", "else", "elif_cond", "ifx_cond",
     "ifx_true", "parens", "args", "name", "unnamed", "arg_close",
     "arg_value", "arg_comma", "called"}

LEMMA RowPointsAre == RowPoints = RowPointNames
<1>1. {r[1] : r \in UnitRows} = {"unit", "item"}
  BY DEF UnitRows
<1>2. {r[1] : r \in FnDeclarationRows} = {"fn", "fn_paren", "params", "param",
                                   "param_colon", "param_type",
                                   "params_comma", "comma", "arrow",
                                   "return_type", "fn_body"}
  BY DEF FnDeclarationRows
<1>3. {r[1] : r \in TypedefRows} = {"typedef", "typedef_equals",
                                   "typedef_type"}
  BY DEF TypedefRows
<1>4. {r[1] : r \in BlockRows} = {"block"}
  BY DEF BlockRows
<1>5. {r[1] : r \in StatementRows} = {"statement"}
  BY DEF StatementRows
<1>6. {r[1] : r \in DoBlockRows} = {"do"}
  BY DEF DoBlockRows
<1>7. {r[1] : r \in DeclarationRows} = {"let", "let_name", "let_colon",
                                   "let_type", "let_equals"}
  BY DEF DeclarationRows
<1>8. {r[1] : r \in IfBlockRows} = {"if_cond", "if_true", "if_else",
                                   "if_blocks", "else", "elif_cond"}
  BY DEF IfBlockRows
<1>9. {r[1] : r \in IfExpressionRows} = {"ifx_cond", "ifx_true"}
  BY DEF IfExpressionRows
<1>10. {r[1] : r \in ParensRows} = {"parens"}
  BY DEF ParensRows
<1>11. {r[1] : r \in FnCallRows} = {"args", "name", "unnamed",
                                   "arg_close", "arg_value",
                                   "arg_comma", "called"}
  BY DEF FnCallRows
<1>12. RowPoints = UNION {{r[1] : r \in UnitRows},
                         {r[1] : r \in FnDeclarationRows},
                         {r[1] : r \in TypedefRows},
                         {r[1] : r \in BlockRows},
                         {r[1] : r \in StatementRows},
                         {r[1] : r \in DoBlockRows},
                         {r[1] : r \in DeclarationRows},
                         {r[1] : r \in IfBlockRows},
                         {r[1] : r \in IfExpressionRows},
                         {r[1] : r \in ParensRows},
                         {r[1] : r \in FnCallRows}}
  BY DEF RowPoints, Rows
<1> QED
  BY <1>1, <1>2, <1>3, <1>4, <1>5, <1>6, <1>7, <1>8, <1>9, <1>10, <1>11, <1>12 DEF RowPointNames

LEMMA RowsGood == \A r \in Rows : RowFacts(r) /\ RowKinds(r) /\ RowTargets(r)
<1>1. \A r \in UnitRows : RowFacts(r) /\ RowKinds(r) /\ RowTargets(r)
  <2>1. \A r \in UnitRows : RowFacts(r)
    BY RowPointsAre DEF UnitRows, RowFacts, ExprAts, Operators, TokenTypes, TextTypes,
       Points, RowPointNames, ExpressionPoints
  <2>2. \A r \in UnitRows : RowKinds(r) /\ RowTargets(r)
    BY DEF UnitRows, RowKinds, RowTargets, InfixCalls
  <2> QED
    BY <2>1, <2>2
<1>2. \A r \in FnDeclarationRows : RowFacts(r) /\ RowKinds(r) /\ RowTargets(r)
  <2>1. \A r \in FnDeclarationRows : RowFacts(r)
    BY RowPointsAre DEF FnDeclarationRows, RowFacts, ExprAts, Operators, TokenTypes, TextTypes,
       Points, RowPointNames, ExpressionPoints
  <2>2. \A r \in FnDeclarationRows : RowKinds(r) /\ RowTargets(r)
    BY DEF FnDeclarationRows, RowKinds, RowTargets, InfixCalls
  <2> QED
    BY <2>1, <2>2
<1>3. \A r \in TypedefRows : RowFacts(r) /\ RowKinds(r) /\ RowTargets(r)
  <2>1. \A r \in TypedefRows : RowFacts(r)
    BY RowPointsAre DEF TypedefRows, RowFacts, ExprAts, Operators, TokenTypes, TextTypes,
       Points, RowPointNames, ExpressionPoints
  <2>2. \A r \in TypedefRows : RowKinds(r) /\ RowTargets(r)
    BY DEF TypedefRows, RowKinds, RowTargets, InfixCalls
  <2> QED
    BY <2>1, <2>2
<1>4. \A r \in BlockRows : RowFacts(r) /\ RowKinds(r) /\ RowTargets(r)
  <2>1. \A r \in BlockRows : RowFacts(r)
    BY RowPointsAre DEF BlockRows, RowFacts, ExprAts, Operators, TokenTypes, TextTypes,
       Points, RowPointNames, ExpressionPoints
  <2>2. \A r \in BlockRows : RowKinds(r) /\ RowTargets(r)
    BY DEF BlockRows, RowKinds, RowTargets, InfixCalls
  <2> QED
    BY <2>1, <2>2
<1>5. \A r \in StatementRows : RowFacts(r) /\ RowKinds(r) /\ RowTargets(r)
  <2>1. \A r \in StatementRows : RowFacts(r)
    BY RowPointsAre DEF StatementRows, RowFacts, ExprAts, Operators, TokenTypes, TextTypes,
       Points, RowPointNames, ExpressionPoints
  <2>2. \A r \in StatementRows : RowKinds(r) /\ RowTargets(r)
    BY DEF StatementRows, RowKinds, RowTargets, InfixCalls
  <2> QED
    BY <2>1, <2>2
<1>6. \A r \in DoBlockRows : RowFacts(r) /\ RowKinds(r) /\ RowTargets(r)
  <2>1. \A r \in DoBlockRows : RowFacts(r)
    BY RowPointsAre DEF DoBlockRows, RowFacts, ExprAts, Operators, TokenTypes, TextTypes,
       Points, RowPointNames, ExpressionPoints
  <2>2. \A r \in DoBlockRows : RowKinds(r) /\ RowTargets(r)
    BY DEF DoBlockRows, RowKinds, RowTargets, InfixCalls
  <2> QED
    BY <2>1, <2>2
<1>7. \A r \in DeclarationRows : RowFacts(r) /\ RowKinds(r) /\ RowTargets(r)
  <2>1. \A r \in DeclarationRows : RowFacts(r)
    BY RowPointsAre DEF DeclarationRows, RowFacts, ExprAts, Operators, TokenTypes, TextTypes,
       Points, RowPointNames, ExpressionPoints
  <2>2. \A r \in DeclarationRows : RowKinds(r) /\ RowTargets(r)
    BY DEF DeclarationRows, RowKinds, RowTargets, InfixCalls
  <2> QED
    BY <2>1, <2>2
<1>8. \A r \in IfBlockRows : RowFacts(r) /\ RowKinds(r) /\ RowTargets(r)
  <2>1. \A r \in IfBlockRows : RowFacts(r)
    BY RowPointsAre DEF IfBlockRows, RowFacts, ExprAts, Operators, TokenTypes, TextTypes,
       Points, RowPointNames, ExpressionPoints
  <2>2. \A r \in IfBlockRows : RowKinds(r) /\ RowTargets(r)
    BY DEF IfBlockRows, RowKinds, RowTargets, InfixCalls
  <2> QED
    BY <2>1, <2>2
<1>9. \A r \in IfExpressionRows : RowFacts(r) /\ RowKinds(r) /\ RowTargets(r)
  <2>1. \A r \in IfExpressionRows : RowFacts(r)
    BY RowPointsAre DEF IfExpressionRows, RowFacts, ExprAts, Operators, TokenTypes, TextTypes,
       Points, RowPointNames, ExpressionPoints
  <2>2. \A r \in IfExpressionRows : RowKinds(r) /\ RowTargets(r)
    BY DEF IfExpressionRows, RowKinds, RowTargets, InfixCalls
  <2> QED
    BY <2>1, <2>2
<1>10. \A r \in ParensRows : RowFacts(r) /\ RowKinds(r) /\ RowTargets(r)
  <2>1. \A r \in ParensRows : RowFacts(r)
    BY RowPointsAre DEF ParensRows, RowFacts, ExprAts, Operators, TokenTypes, TextTypes,
       Points, RowPointNames, ExpressionPoints
  <2>2. \A r \in ParensRows : RowKinds(r) /\ RowTargets(r)
    BY DEF ParensRows, RowKinds, RowTargets, InfixCalls
  <2> QED
    BY <2>1, <2>2
<1>11. \A r \in FnCallRows : RowFacts(r) /\ RowKinds(r) /\ RowTargets(r)
  <2>1. \A r \in FnCallRows : RowFacts(r)
    BY RowPointsAre DEF FnCallRows, RowFacts, ExprAts, Operators, TokenTypes, TextTypes,
       Points, RowPointNames, ExpressionPoints
  <2>2. \A r \in FnCallRows : RowKinds(r) /\ RowTargets(r)
    BY DEF FnCallRows, RowKinds, RowTargets, InfixCalls
  <2> QED
    BY <2>1, <2>2
<1> QED
  BY <1>1, <1>2, <1>3, <1>4, <1>5, <1>6, <1>7, <1>8, <1>9, <1>10, <1>11 DEF Rows
-----------------------------------------------------------------------------
(* Precedence. *)

LEMMA PrecedenceOfTokens ==
    /\ \A type \in TokenTypes : ForToken(type) \in Nat
    /\ \A op \in BinaryOperators : ForToken(op) \in 3..7
    /\ \A op \in AssignOperators \cup {"Equals"} : ForToken(op) = 2
    /\ \A type \in TokenTypes \ (BinaryOperators \cup AssignOperators
                                     \cup {"Equals", "LeftParen"}) :
          ForToken(type) \in {0, 1}
<1>1. /\ \A op \in BinaryOperators : ForToken(op) \in 3..7
      /\ \A op \in AssignOperators \cup {"Equals"} : ForToken(op) = 2
      /\ ForToken("LeftParen") = 10
  BY DEF ForToken, BinaryOperators, AssignOperators, Prec
<1>2. ASSUME NEW type,
             type \notin BinaryOperators \cup AssignOperators \cup {"Equals", "LeftParen"}
      PROVE  ForToken(type) \in {0, 1}
  BY <1>2 DEF ForToken, BinaryOperators, AssignOperators, Prec
<1> QED
  BY <1>1, <1>2

LEMMA PrecedenceOfPoints ==
    /\ \A p \in Points : PrecedenceAt(p) \in {0, 1, 2, 8}
    /\ PrecedenceAt("unary") = 8
    /\ PrecedenceAt("assign") = 2
BY DEF PrecedenceAt, Prec

Precedences == {Prec.Min, Prec.Return, Prec.Assign, Prec.NumericPrefix}
                   \cup {ForToken(op) : op \in BinaryOperators}

LEMMA PrecedencesAre ==
    /\ {0, 1, 2, 8} \subseteq Precedences
    /\ \A op \in BinaryOperators : ForToken(op) \in Precedences
    /\ Precedences \subseteq Nat
BY PrecedenceOfTokens DEF Precedences, Prec

LEMMA OperandType ==
    ASSUME NEW f \in Frame, f.at \in Operators, f.at = "binop" => f.op \in BinaryOperators
    PROVE  /\ Operand(f) \in Nat /\ Operand(f) >= 2
           /\ f.at = "binop" => Operand(f) = ForToken(f.op)
           /\ f.at = "unary" => Operand(f) = 8
           /\ f.at = "assign" => Operand(f) = 2
BY PrecedenceOfTokens, PrecedenceOfPoints DEF Operand, Operators

-----------------------------------------------------------------------------
(* The stack of calls. *)

LEMMA NoValueIs ==
    /\ NoValue \in Expression
    /\ NoValue.variant = "none"
BY DEF NoValue, Value, Expression, Variants

LEMMA NewFrame ==
    ASSUME NEW at \in Points, NEW prec \in Precedences
    PROVE  /\ New(at, prec) \in Frame
           /\ New(at, prec).at = at
           /\ New(at, prec).prec = prec
BY NoValueIs DEF New, Frame, Precedences

LEMMA FrameFields ==
    ASSUME NEW f \in Frame
    PROVE  /\ f.at \in Points
           /\ f.prec \in Nat
           /\ f.left \in Expression
           /\ f.op \in BinaryOperators \cup AssignOperators \cup {"none"}
<1>1. /\ f.at \in Points
      /\ f.prec \in Precedences
      /\ f.left \in Expression
      /\ f.op \in BinaryOperators \cup AssignOperators \cup {"none"}
  BY DEF Frame, Precedences
<1> QED
  BY <1>1, PrecedencesAre

LEMMA LinkedFront ==
    ASSUME NEW fs \in Seq(Frame), Linked(fs), Len(fs) >= 2
    PROVE  /\ Front(fs) \in Seq(Frame)
           /\ Linked(Front(fs))
           /\ Len(Front(fs)) \in Nat
           /\ Front(fs)[Len(Front(fs))] = fs[Len(fs) - 1]
           /\ fs[Len(fs) - 1] \in Frame
           /\ fs[Len(fs)] \in Frame
           /\ Calls(fs[Len(fs) - 1], fs[Len(fs)])
<1> DEFINE n == Len(fs)
           h == Front(fs)
<1>1. fs # <<>> /\ fs[1].at = "unit" /\ \A i \in 2..n : Calls(fs[i - 1], fs[i])
  BY DEF Linked
<1>2. /\ n \in Nat \ {0}
      /\ h \in Seq(Frame)
      /\ Len(h) = n - 1
      /\ \A i \in 1..(n - 1) : h[i] = fs[i]
      /\ h = <<>> <=> n = 1
  BY <1>1, FrontItems
<1>3. \A i \in 1..n : fs[i] \in Frame
  BY ElementOfSeq
<1>4. n >= 2
  OBVIOUS
<1> HIDE DEF n, h
<1>5. h # <<>> /\ h[1].at = "unit"
  BY <1>1, <1>2, <1>4
<1>6. \A i \in 2..Len(h) : Calls(h[i - 1], h[i])
  BY <1>1, <1>2, <1>4
<1>7. Linked(h)
  BY <1>5, <1>6 DEF Linked
<1>8. h[Len(h)] = fs[n - 1] /\ fs[n - 1] \in Frame /\ fs[n] \in Frame /\ Calls(fs[n - 1], fs[n])
  BY <1>1, <1>2, <1>3, <1>4
<1> QED
  BY <1>2, <1>7, <1>8 DEF n, h

LEMMA LinkedAppend ==
    ASSUME NEW fs \in Seq(Frame), Linked(fs), NEW g \in Frame, Calls(fs[Len(fs)], g)
    PROVE  /\ Append(fs, g) \in Seq(Frame)
           /\ Linked(Append(fs, g))
           /\ Len(Append(fs, g)) \in Nat
           /\ Len(Append(fs, g)) >= 2
           /\ Len(Append(fs, g)) - 1 = Len(fs)
           /\ Append(fs, g)[Len(Append(fs, g))] = g
           /\ Append(fs, g)[Len(fs)] = fs[Len(fs)]
<1> DEFINE n == Len(fs)
           a == Append(fs, g)
<1>1. fs # <<>> /\ fs[1].at = "unit" /\ \A i \in 2..n : Calls(fs[i - 1], fs[i])
  BY DEF Linked
<1>2. n \in Nat \ {0}
  BY <1>1, FrontItems
<1>3. /\ a \in Seq(Frame)
      /\ a # <<>>
      /\ Len(a) = n + 1
      /\ \A i \in 1..n : a[i] = fs[i]
      /\ a[n + 1] = g
  BY AppendItem
<1>4. Calls(fs[n], g)
  OBVIOUS
<1> HIDE DEF n, a
<1>5. a[1].at = "unit"
  BY <1>1, <1>2, <1>3
<1>6. ASSUME NEW i \in 2..Len(a)
      PROVE  Calls(a[i - 1], a[i])
  <2>1. CASE i = n + 1
    BY <1>2, <1>3, <1>4, <2>1
  <2>2. CASE i # n + 1
    BY <1>1, <1>2, <1>3, <2>2
  <2> QED
    BY <2>1, <2>2
<1>7. Linked(a)
  BY <1>3, <1>5, <1>6 DEF Linked
<1> QED
  BY <1>2, <1>3, <1>7 DEF n, a

LEMMA LinkedTop ==
    ASSUME NEW fs \in Seq(Frame), Linked(fs)
    PROVE  /\ fs # <<>>
           /\ Len(fs) \in Nat \ {0}
           /\ fs[Len(fs)] \in Frame
           /\ fs[Len(fs)].at # "unit" => Len(fs) >= 2
           /\ Len(fs) >= 2 => fs[Len(fs)].at # "unit"
<1>1. fs # <<>> /\ fs[1].at = "unit" /\ \A i \in 2..Len(fs) : Calls(fs[i - 1], fs[i])
  BY DEF Linked
<1>2. Len(fs) \in Nat \ {0} /\ fs[Len(fs)] \in Frame
  BY <1>1, FrontItems
<1> QED
  BY <1>1, <1>2 DEF Calls

LEMMA BlocksAppend ==
    ASSUME NEW fs \in Seq(Frame), NEW g \in Frame
    PROVE  /\ Blocks(fs) \in Nat
           /\ Blocks(Append(fs, g)) = IF g.at = "block" THEN Blocks(fs) + 1 ELSE Blocks(fs)
BY OccurrencesType, OccurrencesAppend DEF Blocks

LEMMA BlocksFront ==
    ASSUME NEW fs \in Seq(Frame), fs # <<>>
    PROVE  /\ Blocks(fs) \in Nat
           /\ Blocks(Front(fs)) \in Nat
           /\ Blocks(fs) = IF fs[Len(fs)].at = "block" THEN Blocks(Front(fs)) + 1
                                                       ELSE Blocks(Front(fs))
<1>1. fs[Len(fs)] \in Frame /\ Front(fs) \in Seq(Frame)
  BY FrontItems
<1> QED
  BY <1>1, OccurrencesType, OccurrencesFront DEF Blocks

(* The call f when it has reached the point to. *)
Moved(f, to) == [f EXCEPT !.at = to, !.level = IF to = "block" THEN BlockLevel ELSE 0]

LEMMA MovedFrame ==
    ASSUME NEW f \in Frame, NEW to \in Points, to = "block" => BlockLevel \in Nat
    PROVE  /\ Moved(f, to) \in Frame
           /\ Moved(f, to).at = to
           /\ Moved(f, to).prec = f.prec
           /\ Moved(f, to).left = f.left
           /\ Moved(f, to).op = f.op
<1>1. (IF to = "block" THEN BlockLevel ELSE 0) \in Nat
  OBVIOUS
<1> QED
  BY <1>1 DEF Moved, Frame

LEMMA ReachAs ==
    ASSUME NEW fs \in Seq(Frame), fs # <<>>, NEW to \in Points,
           to = "block" => BlockLevel \in Nat
    PROVE  /\ to # "done" /\ to \notin ExpressionPoints
                 => Reach(fs, to) = Append(Front(fs), Moved(fs[Len(fs)], to))
           /\ to # "done" /\ to \in ExpressionPoints
                 => Reach(fs, to) = Append(Append(Front(fs), Moved(fs[Len(fs)], to)),
                                           New("expression", PrecedenceAt(to)))
<1> DEFINE g == Moved(fs[Len(fs)], to)
<1>1. fs[Len(fs)] \in Frame
  BY FrontItems
<1>2. g \in Frame
  BY <1>1, MovedFrame
<1>3. [fs EXCEPT ![Len(fs)] = g] = Append(Front(fs), g)
  BY <1>2, ReplaceLast
<1>4. [fs EXCEPT ![Len(fs)] = [@ EXCEPT !.at = to,
                                       !.level = IF to = "block" THEN BlockLevel ELSE 0]]
          = [fs EXCEPT ![Len(fs)] = g]
  BY DEF Moved
<1>5. /\ to # "done" /\ to \notin ExpressionPoints
            => Reach(fs, to) = [fs EXCEPT ![Len(fs)] = g]
      /\ to # "done" /\ to \in ExpressionPoints
            => Reach(fs, to) = Append([fs EXCEPT ![Len(fs)] = g],
                                      New("expression", PrecedenceAt(to)))
  BY <1>4 DEF Reach
<1> QED
  BY <1>3, <1>5

(* The call on top of the stack goes on to a point. *)
LEMMA ReachStack ==
    ASSUME NEW fs \in Seq(Frame), Linked(fs), Len(fs) >= 2, NEW to \in Points,
           to # "done", to = "block" => BlockLevel \in Nat,
           Calls(fs[Len(fs) - 1], Moved(fs[Len(fs)], to))
    PROVE  LET ns == Reach(fs, to)
           IN  /\ ns \in Seq(Frame)
               /\ Linked(ns)
               /\ ns[Len(ns)] = IF to \in ExpressionPoints
                                THEN New("expression", PrecedenceAt(to))
                                ELSE Moved(fs[Len(fs)], to)
               /\ Blocks(ns) = Blocks(fs) - (IF fs[Len(fs)].at = "block" THEN 1 ELSE 0)
                                          + (IF to = "block" THEN 1 ELSE 0)
<1> DEFINE f == fs[Len(fs)]
           h == Front(fs)
           g == Moved(f, to)
           a == Append(h, g)
           e == New("expression", PrecedenceAt(to))
<1>1. /\ h \in Seq(Frame)
      /\ Linked(h)
      /\ h[Len(h)] = fs[Len(fs) - 1]
      /\ f \in Frame
  BY LinkedFront
<1>2. g \in Frame /\ g.at = to
  BY <1>1, MovedFrame
<1>3. Calls(h[Len(h)], g)
  BY <1>1
<1>4. a \in Seq(Frame) /\ Linked(a) /\ a[Len(a)] = g
  BY <1>1, <1>2, <1>3, LinkedAppend
<1>5. /\ Blocks(fs) \in Nat
      /\ Blocks(h) \in Nat
      /\ Blocks(fs) = IF f.at = "block" THEN Blocks(h) + 1 ELSE Blocks(h)
  BY LinkedTop, BlocksFront
<1>6. /\ Blocks(a) \in Nat
      /\ Blocks(a) = IF to = "block" THEN Blocks(h) + 1 ELSE Blocks(h)
  BY <1>1, <1>2, <1>4, BlocksAppend
<1>7. Blocks(a) = Blocks(fs) - (IF f.at = "block" THEN 1 ELSE 0)
                             + (IF to = "block" THEN 1 ELSE 0)
  BY <1>5, <1>6
<1>8. /\ to \notin ExpressionPoints => Reach(fs, to) = a
      /\ to \in ExpressionPoints => Reach(fs, to) = Append(a, e)
  BY LinkedTop, ReachAs
<1>9. CASE to \notin ExpressionPoints
  BY <1>4, <1>7, <1>8, <1>9
<1>10. CASE to \in ExpressionPoints
  <2>1. e \in Frame /\ e.at = "expression" /\ e.prec = PrecedenceAt(to)
    <3>1. "expression" \in Points
      BY DEF Points
    <3>2. PrecedenceAt(to) \in Precedences
      <4>1. PrecedenceAt(to) \in {0, 1, 2, 8}
        BY PrecedenceOfPoints
      <4> QED
        BY <4>1, PrecedencesAre
    <3> QED
      BY <3>1, <3>2, NewFrame
  <2>2. Calls(g, e)
    <3>1. to \notin {"binop", "infix"}
      BY <1>10 DEF ExpressionPoints
    <3>2. Operand(g) = PrecedenceAt(to)
      BY <1>2, <3>1 DEF Operand
    <3> HIDE DEF e, g
    <3> QED
      BY <1>2, <2>1, <3>1, <3>2 DEF Calls, ExprAts
  <2>3. /\ Append(a, e) \in Seq(Frame)
        /\ Linked(Append(a, e))
        /\ Append(a, e)[Len(Append(a, e))] = e
    BY <1>4, <2>1, <2>2, LinkedAppend
  <2>4. Blocks(Append(a, e)) = Blocks(a)
    BY <1>4, <2>1, BlocksAppend
  <2> HIDE DEF a, e
  <2> QED
    BY <1>7, <1>8, <1>10, <2>3, <2>4 DEF e
<1> QED
  BY <1>9, <1>10

(* The call on top of the stack calls a function, which reaches a point. *)
LEMMA CallStack ==
    ASSUME NEW fs \in Seq(Frame), Linked(fs), NEW k \in Frame, NEW to \in Points,
           k.at = to, to # "done", to = "block" => BlockLevel \in Nat,
           Calls(fs[Len(fs)], k)
    PROVE  LET ns == Reach(Append(fs, k), to)
           IN  /\ ns \in Seq(Frame)
               /\ Linked(ns)
               /\ ns[Len(ns)] = IF to \in ExpressionPoints
                                THEN New("expression", PrecedenceAt(to))
                                ELSE Moved(k, to)
               /\ Blocks(ns) = Blocks(fs) + (IF to = "block" THEN 1 ELSE 0)
<1> DEFINE a == Append(fs, k)
           m == Moved(k, to)
<1>1. /\ a \in Seq(Frame)
      /\ Linked(a)
      /\ Len(a) >= 2
      /\ Len(a) - 1 = Len(fs)
      /\ a[Len(a)] = k
      /\ a[Len(fs)] = fs[Len(fs)]
  BY LinkedAppend
<1>2. m \in Frame /\ m.at = k.at /\ m.prec = k.prec /\ m.left = k.left /\ m.op = k.op
  BY MovedFrame
<1>3. Calls(fs[Len(fs)], m)
  <2> HIDE DEF m
  <2> QED
    BY <1>2 DEF Calls, LeftBinds
<1>4. Calls(a[Len(a) - 1], Moved(a[Len(a)], to))
  BY <1>1, <1>3
<1>5. /\ Blocks(fs) \in Nat
      /\ Blocks(a) = Blocks(fs) + (IF k.at = "block" THEN 1 ELSE 0)
  BY BlocksAppend
<1> HIDE DEF a
<1>6. /\ Reach(a, to) \in Seq(Frame)
      /\ Linked(Reach(a, to))
      /\ Reach(a, to)[Len(Reach(a, to))] = IF to \in ExpressionPoints
                                           THEN New("expression", PrecedenceAt(to))
                                           ELSE Moved(k, to)
      /\ Blocks(Reach(a, to)) = Blocks(a) - (IF k.at = "block" THEN 1 ELSE 0)
                                          + (IF to = "block" THEN 1 ELSE 0)
  BY <1>1, <1>4, ReachStack
<1>7. Blocks(Reach(a, to)) = Blocks(fs) + (IF to = "block" THEN 1 ELSE 0)
  BY <1>5, <1>6
<1> QED
  BY <1>6, <1>7 DEF a

(* The call on top of the stack returns. *)
LEMMA ReturnStack ==
    ASSUME NEW fs \in Seq(Frame), Linked(fs), Len(fs) >= 2
    PROVE  LET ns == Front(fs)
           IN  /\ ns \in Seq(Frame)
               /\ Linked(ns)
               /\ ns[Len(ns)] \in Frame
               /\ Calls(ns[Len(ns)], fs[Len(fs)])
               /\ Blocks(ns) = Blocks(fs) - (IF fs[Len(fs)].at = "block" THEN 1 ELSE 0)
<1>1. /\ Blocks(fs) \in Nat
      /\ Blocks(Front(fs)) \in Nat
      /\ Blocks(fs) = IF fs[Len(fs)].at = "block" THEN Blocks(Front(fs)) + 1
                                                  ELSE Blocks(Front(fs))
  BY LinkedTop, BlocksFront
<1> QED
  BY <1>1, LinkedFront

-----------------------------------------------------------------------------
(* The queue of tokens. *)

LEMMA TokenFields ==
    ASSUME NEW q \in Seq(Token), NEW i \in 1..Len(q)
    PROVE  /\ q[i] \in Token
           /\ q[i].type \in TokenTypes
           /\ q[i].newline \in BOOLEAN
           /\ q[i].level \in Nat
<1>1. q[i] \in Token
  BY ElementOfSeq
<1> QED
  BY <1>1 DEF Token

(* The token that is taken is the one that has been looked at. *)
LEMMA TakenIsPeek ==
    ASSUME NEW q \in Seq(Token), NEW at, QueueFits(q, at), q # <<>>,
           \/ at \notin QueuePoints
           \/ q[Len(q)].type = "BeginBlock"
           \/ q[1].type # "BeginBlock"
    PROVE  /\ q[1].type = q[Len(q)].type
           /\ q[1].type # "BeginBlock" => Len(q) = 1
<1>1. Len(q) \in Nat \ {0}
  BY FrontItems
<1>2. CASE Len(q) = 1
  BY <1>2
<1>3. CASE Len(q) >= 2
  <2>1. q[1].type = "BeginBlock"
    BY <1>1, <1>3 DEF QueueFits
  <2>2. q[Len(q)].type = "BeginBlock"
    BY <1>3, <2>1 DEF QueueFits
  <2> QED
    BY <2>1, <2>2
<1>4. Len(q) = 1 \/ Len(q) >= 2
  BY <1>1, OneOrMore
<1> QED
  BY <1>2, <1>3, <1>4

LEMMA FrontOfQueue ==
    ASSUME NEW q \in Seq(Token), NEW at, QueueFits(q, at), q # <<>>
    PROVE  /\ Front(q) \in Seq(Token)
           /\ \A a : QueueFits(Front(q), a)
           /\ \A i \in DOMAIN Front(q) : Front(q)[i].type = "BeginBlock"
<1> DEFINE n == Len(q)
           h == Front(q)
<1>1. /\ n \in Nat \ {0}
      /\ h \in Seq(Token)
      /\ Len(h) = n - 1
      /\ \A i \in 1..(n - 1) : h[i] = q[i]
  BY FrontItems
<1>2. \A i \in 1..(n - 1) : q[i].type = "BeginBlock"
  BY DEF QueueFits
<1>3. DOMAIN h = 1..Len(h)
  BY <1>1, LenProperties
<1> HIDE DEF n, h
<1>4. \A i \in 1..(n - 1) : h[i].type = "BeginBlock"
  BY <1>1, <1>2
<1>5. \A i \in 1..Len(h) : h[i].type = "BeginBlock"
  BY <1>1, <1>4
<1>6. \A i \in 1..(Len(h) - 1) : h[i].type = "BeginBlock"
  BY <1>1, <1>5
<1>7. Len(h) >= 2 => h[Len(h)].type = "BeginBlock"
  BY <1>1, <1>5
<1>8. \A a : QueueFits(h, a)
  BY <1>6, <1>7 DEF QueueFits
<1> QED
  BY <1>1, <1>3, <1>5, <1>8 DEF h

LEMMA CountFront ==
    ASSUME NEW q \in Seq(Token), q # <<>>, NEW type
    PROVE  /\ Count(q, type) \in Nat
           /\ Count(Front(q), type) \in Nat
           /\ Count(q, type) = IF q[Len(q)].type = type THEN Count(Front(q), type) + 1
                                                        ELSE Count(Front(q), type)
<1>1. q[Len(q)] \in Token /\ Front(q) \in Seq(Token)
  BY FrontItems
<1>2. q[Len(q)] \in Tokens(type) <=> q[Len(q)].type = type
  BY <1>1 DEF Tokens
<1> QED
  BY <1>1, <1>2, OccurrencesType, OccurrencesFront DEF Count

LEMMA CountAppend ==
    ASSUME NEW q \in Seq(Token), NEW t \in Token, NEW type
    PROVE  /\ Count(q, type) \in Nat
           /\ Count(Append(q, t), type) = IF t.type = type THEN Count(q, type) + 1
                                                           ELSE Count(q, type)
<1>1. t \in Tokens(type) <=> t.type = type
  BY DEF Tokens
<1> QED
  BY <1>1, OccurrencesType, OccurrencesAppend DEF Count

LEMMA CountSingle ==
    ASSUME NEW q \in Seq(Token), Len(q) = 1, NEW type
    PROVE  Count(q, type) = IF q[1].type = type THEN 1 ELSE 0
<1>1. q # <<>> /\ Front(q) = <<>>
  BY FrontItems, EmptySeq
<1>2. Count(<<>>, type) = 0
  BY NoOccurrences DEF Count
<1> QED
  BY <1>1, <1>2, CountFront

(* With the end of the file next, no block is open. *)
LEMMA EndOfFileClosesAll ==
    ASSUME TypeOK, Running, lookahead # <<>>, Peek = "EOF"
    PROVE  /\ Len(lookahead) = 1
           /\ depth = 0
           /\ Len(indent_rules) = 0
           /\ Blocks(frames) = 0
<1>1. lookahead \in Seq(Token) /\ frames \in Seq(Frame) /\ indent_rules \in Seq({"NegateDeindent"})
  BY DEF TypeOK
<1>2. Len(lookahead) = 1
  BY <1>1, TakenIsPeek DEF Running, Peek
<1>3. depth = 0
  <2>1. 1 \in DOMAIN lookahead
    BY <1>1, <1>2, LenProperties
  <2> QED
    BY <2>1 DEF Running, EOFInv, Peek
<1>4. Count(lookahead, "EndBlock") = 0 /\ Count(lookahead, "BeginBlock") = 0
  BY <1>1, <1>2, CountSingle DEF Peek
<1>5. Blocks(frames) \in Nat /\ Len(indent_rules) \in Nat
  BY <1>1, OccurrencesType, LenProperties DEF Blocks
<1> QED
  BY <1>2, <1>3, <1>4, <1>5 DEF Running, Balanced

-----------------------------------------------------------------------------
(* Values. *)

LEMMA PlainValueFits ==
    ASSUME NEW v, NEW f, NEW q, f.at \notin Operators,
           v.variant = "BinaryOp" => v.op \in BinaryOperators,
           f.at = "infix" => v.variant # "Assignment" /\ ~Bare(v, "BinaryOp")
    PROVE  ValueFits(v, f, q)
BY DEF ValueFits

LEMMA PlainValues ==
    ASSUME NEW variant \in Variants \ {"BinaryOp", "Assignment"}
    PROVE  /\ Value(variant) \in Expression
           /\ Value(variant).variant \notin {"BinaryOp", "Assignment"}
           /\ ~Bare(Value(variant), "BinaryOp")
BY DEF Value, Expression, Bare

LEMMA ReturnedType ==
    ASSUME TypeOK, Running
    PROVE  Returned \in Expression
<1>1. /\ value \in Expression
      /\ top \in Frame
      /\ top.at = "binop" => top.op \in BinaryOperators
  <2>1. frames \in Seq(Frame) /\ value \in Expression /\ Linked(frames)
    BY DEF TypeOK, Running
  <2>2. top \in Frame /\ (top.at # "unit" => Len(frames) >= 2)
    BY <2>1, LinkedTop DEF top
  <2>3. ASSUME top.at = "binop" PROVE Calls(frames[Len(frames) - 1], top)
    <3>1. Len(frames) >= 2
      BY <2>2, <2>3
    <3> QED
      BY <2>1, <3>1, LinkedFront DEF top
  <2> QED
    BY <2>1, <2>3, LinkedTop DEF top, Calls
<1> QED
  BY <1>1 DEF Returned, Expression, Value, NoValue, Variants

-----------------------------------------------------------------------------
(* What each step needs of the invariant, and what makes up the next state.  *)

LEMMA RunningFacts ==
    ASSUME TypeOK, Running
    PROVE  /\ frames \in Seq(Frame)
           /\ Linked(frames)
           /\ Len(frames) \in Nat \ {0}
           /\ top = frames[Len(frames)]
           /\ top \in Frame
           /\ top.at # "unit" => Len(frames) >= 2
           /\ Len(frames) >= 2 => top.at # "unit"
           /\ lookahead \in Seq(Token)
           /\ Len(lookahead) \in Nat
           /\ indent_rules \in Seq({"NegateDeindent"})
           /\ Len(indent_rules) \in Nat
           /\ value \in Expression
           /\ value.variant = "BinaryOp" => value.op \in BinaryOperators
           /\ depth \in Nat
           /\ Blocks(frames) \in Nat
           /\ \A type : Count(lookahead, type) \in Nat
<1>1. /\ frames \in Seq(Frame) /\ lookahead \in Seq(Token)
      /\ indent_rules \in Seq({"NegateDeindent"})
      /\ value \in Expression /\ depth \in Nat
  BY DEF TypeOK
<1>2. /\ Linked(frames)
      /\ value.variant = "BinaryOp" => value.op \in BinaryOperators
  BY DEF Running, ValueFits
<1>3. /\ Len(frames) \in Nat \ {0}
      /\ top = frames[Len(frames)]
      /\ top \in Frame
      /\ top.at # "unit" => Len(frames) >= 2
      /\ Len(frames) >= 2 => top.at # "unit"
  BY <1>1, <1>2, LinkedTop DEF top
<1>4. Len(lookahead) \in Nat /\ Len(indent_rules) \in Nat
  BY <1>1, LenProperties
<1>5. Blocks(frames) \in Nat /\ \A type : Count(lookahead, type) \in Nat
  BY <1>1, OccurrencesType DEF Blocks, Count
<1> QED
  BY <1>1, <1>2, <1>3, <1>4, <1>5

(* A function that looks at the next token has one in the queue.             *)
LEMMA TokenIsThere ==
    ASSUME TypeOK, Running, Len(lookahead) >= Needed, top.at \notin LastPoints \cup {"return"}
    PROVE  /\ lookahead # <<>>
           /\ Taken = lookahead[Len(lookahead)]
           /\ Taken.type \in TokenTypes
           /\ Peek \in TokenTypes
           /\ Taken.level \in Nat
           /\ BlockLevel \in Nat
<1>1. lookahead \in Seq(Token) /\ Len(lookahead) \in Nat
  BY RunningFacts
<1>2. Needed = 1
  BY DEF Needed
<1>3. lookahead # <<>>
  BY <1>1, <1>2, EmptySeq
<1>4. Taken = lookahead[Len(lookahead)]
  BY DEF Taken, Last
<1>5. Taken.type \in TokenTypes /\ Taken.level \in Nat /\ Peek \in TokenTypes
  BY <1>1, <1>2, <1>4, TokenFields DEF Peek
<1> QED
  BY <1>3, <1>4, <1>5 DEF BlockLevel

(* A step that takes no token. *)
LEMMA KeepStep ==
    ASSUME TypeOK, Running, UNCHANGED <<lexer, lookahead>>,
           frames' \in Seq(Frame), Linked(frames'),
           indent_rules' \in Seq({"NegateDeindent"}),
           Len(indent_rules') + Blocks(frames') = Len(indent_rules) + Blocks(frames),
           value' \in Expression,
           ValueFits(value', frames'[Len(frames')], lookahead),
           QueueFits(lookahead, frames'[Len(frames')].at),
           result' = "running"
    PROVE  IInv'
<1>1. TypeOK'
  BY DEF TypeOK, lexer
<1>2. EOFInv'
  BY DEF Running, EOFInv, lexer
<1>3. Balanced'
  <2>1. depth' = depth /\ lookahead' = lookahead
    BY DEF lexer
  <2>2. Len(indent_rules') \in Nat /\ Blocks(frames') \in Nat
    BY OccurrencesType, LenProperties DEF Blocks
  <2>3. depth + Count(lookahead, "EndBlock")
            = Len(indent_rules) + Blocks(frames) + Count(lookahead, "BeginBlock")
    BY DEF Running, Balanced
  <2>4. depth + Count(lookahead, "EndBlock")
            = Len(indent_rules') + Blocks(frames') + Count(lookahead, "BeginBlock")
    BY <2>3
  <2>5. depth' + Count(lookahead', "EndBlock")
            = Len(indent_rules') + Blocks(frames') + Count(lookahead', "BeginBlock")
    BY <2>1, <2>4
  <2> QED
    BY <2>5, Zenon DEF Balanced
<1>4. Running'
  BY <1>2, <1>3 DEF Running, top, lexer
<1> QED
  BY <1>1, <1>4 DEF IInv

(* A step that takes a token. *)
LEMMA TakeStep ==
    ASSUME TypeOK, Running, lookahead # <<>>, Take, UNCHANGED lexer,
           frames' \in Seq(Frame), Linked(frames'),
           indent_rules' \in Seq({"NegateDeindent"}),
           Len(indent_rules') + Blocks(frames')
               = Len(indent_rules) + Blocks(frames)
                     + (IF Taken.type = "BeginBlock" THEN 1 ELSE 0)
                     - (IF Taken.type = "EndBlock" THEN 1 ELSE 0),
           value' \in Expression,
           ValueFits(value', frames'[Len(frames')], lookahead'),
           result' = "running"
    PROVE  IInv'
<1>1. /\ lookahead' \in Seq(Token)
      /\ \A at : QueueFits(lookahead', at)
      /\ \A i \in DOMAIN lookahead' : lookahead'[i].type = "BeginBlock"
  BY FrontOfQueue DEF TypeOK, Running, Take
<1>2. TypeOK'
  BY <1>1 DEF TypeOK, lexer
<1>3. EOFInv'
  BY <1>1 DEF Running, EOFInv, lexer
<1>4. Balanced'
  <2>1. depth' = depth /\ lookahead' = Front(lookahead) /\ Taken = lookahead[Len(lookahead)]
    BY DEF lexer, Take, Taken, Last
  <2>2. /\ Len(indent_rules') \in Nat /\ Blocks(frames') \in Nat
        /\ Len(indent_rules) \in Nat /\ Blocks(frames) \in Nat
        /\ depth \in Nat
    BY RunningFacts, OccurrencesType, LenProperties DEF Blocks
  <2>3. depth + Count(lookahead, "EndBlock")
            = Len(indent_rules) + Blocks(frames) + Count(lookahead, "BeginBlock")
    BY DEF Running, Balanced
  <2>4. \A type : /\ Count(lookahead, type) \in Nat
                  /\ Count(lookahead', type) \in Nat
                  /\ Count(lookahead, type) = IF Taken.type = type
                                              THEN Count(lookahead', type) + 1
                                              ELSE Count(lookahead', type)
    <3>1. lookahead \in Seq(Token)
      BY DEF TypeOK
    <3> QED
      BY <2>1, <3>1, CountFront
  <2>5. depth + Count(lookahead', "EndBlock")
            = Len(indent_rules') + Blocks(frames') + Count(lookahead', "BeginBlock")
    <3> DEFINE t == Taken.type
               r == Len(indent_rules)
               b == Blocks(frames)
               rn == Len(indent_rules')
               bn == Blocks(frames')
               e == Count(lookahead, "EndBlock")
               en == Count(lookahead', "EndBlock")
               g == Count(lookahead, "BeginBlock")
               gn == Count(lookahead', "BeginBlock")
    <3>1. rn + bn = r + b + (IF t = "BeginBlock" THEN 1 ELSE 0)
                          - (IF t = "EndBlock" THEN 1 ELSE 0)
      OBVIOUS
    <3>2. /\ e \in Nat /\ en \in Nat /\ g \in Nat /\ gn \in Nat
          /\ e = IF t = "EndBlock" THEN en + 1 ELSE en
          /\ g = IF t = "BeginBlock" THEN gn + 1 ELSE gn
      BY <2>4
    <3>3. depth + e = r + b + g
      BY <2>3
    <3>4. rn \in Nat /\ bn \in Nat /\ r \in Nat /\ b \in Nat /\ depth \in Nat
      BY <2>2
    <3> HIDE DEF t, r, b, rn, bn, e, en, g, gn
    <3>5. depth + en = rn + bn + gn
      <4>1. CASE t = "BeginBlock"
        <5>1. /\ rn + bn = r + b + 1
              /\ e = en
              /\ g = gn + 1
          BY <3>1, <3>2, <3>4, <4>1
        <5> QED
          BY <3>2, <3>3, <3>4, <5>1
      <4>2. CASE t = "EndBlock"
        <5>1. /\ rn + bn = r + b - 1
              /\ e = en + 1
              /\ g = gn
          BY <3>1, <3>2, <3>4, <4>2
        <5> QED
          BY <3>2, <3>3, <3>4, <5>1
      <4>3. CASE t \notin {"BeginBlock", "EndBlock"}
        <5>1. /\ rn + bn = r + b
              /\ e = en
              /\ g = gn
          BY <3>1, <3>2, <3>4, <4>3
        <5> QED
          BY <3>2, <3>3, <3>4, <5>1
      <4> QED
        BY <4>1, <4>2, <4>3
    <3> QED
      BY <3>5 DEF rn, bn, en, gn
  <2>6. depth' + Count(lookahead', "EndBlock")
            = Len(indent_rules') + Blocks(frames') + Count(lookahead', "BeginBlock")
    BY <2>1, <2>5
  <2> QED
    BY <2>6, Zenon DEF Balanced
<1>5. Running'
  BY <1>1, <1>3, <1>4 DEF Running, top
<1> QED
  BY <1>2, <1>5 DEF IInv

-----------------------------------------------------------------------------
(* The rows of the tables. *)

RowStep(r) ==
    /\ Runs
    /\ Point \in RowPoints
    /\ Applies(r)
    /\ frames' = CASE r[3] = "call"  -> Call(frames, r[4])
                   [] r[3] = "block" -> Call(Reach(frames, r[4]), "block")
                   [] r[3] = "fail"  -> frames
                   [] OTHER          -> Reach(frames, r[4])
    /\ IF r[3] \in {"take", "rule", "block"} THEN Take ELSE UNCHANGED lookahead
    /\ indent_rules' = IF r[3] = "rule" THEN PushRule ELSE indent_rules
    /\ value' = IF r[4] = "done" THEN Returned ELSE NoValue
    /\ result' = CASE r[3] = "fail"   -> "LazyString"
                   [] frames' = <<>> -> "ok"
                   [] OTHER          -> result
    /\ UNCHANGED lexer

LEMMA FollowsRow ==
    ASSUME NEW rows \in SUBSET Rows, Follow(rows)
    PROVE  \E r \in Rows : RowStep(r)
BY DEF Follow, RowStep

LEMMA AtRowPoint ==
    ASSUME TypeOK, Running, Runs, Point \in RowPoints
    PROVE  /\ result = "running"
           /\ top.at \notin LastPoints \cup {"return"} \cup ExprAts \cup Operators
           /\ top.at = "arg" => Point \in {"name", "unnamed"}
           /\ top.at # "arg" => Point = top.at
           /\ lookahead # <<>>
           /\ Peek \in TokenTypes
           /\ Taken = lookahead[Len(lookahead)]
           /\ Taken.type \in TokenTypes
           /\ BlockLevel \in Nat
<1>1. /\ top.at = "arg" => Point \in {"name", "unnamed"}
      /\ top.at # "arg" => Point = top.at
  <2>1. CASE top.at # "arg"
    BY <2>1 DEF Point
  <2>2. CASE top.at = "arg"
    <3>1. CASE value.variant = "VariableRef"
      BY <2>2, <3>1 DEF Point
    <3>2. CASE value.variant # "VariableRef"
      BY <2>2, <3>2 DEF Point
    <3> QED
      BY <2>2, <3>1, <3>2
  <2> QED
    BY <2>1, <2>2
<1>2. top.at \in RowPointNames \cup {"arg"}
  BY <1>1, RowPointsAre
<1>3. top.at \notin LastPoints \cup {"return"} \cup ExprAts \cup Operators
  BY <1>2 DEF RowPointNames, LastPoints, ExprAts, Operators
<1>4. result = "running" /\ Len(lookahead) >= Needed
  BY DEF Runs
<1> QED
  BY <1>1, <1>3, <1>4, TokenIsThere

(* The row that applies. *)
LEMMA RowOfPoint ==
    ASSUME TypeOK, Running, NEW r \in Rows, Runs, Point \in RowPoints, Applies(r)
    PROVE  /\ RowFacts(r) /\ RowKinds(r) /\ RowTargets(r)
           /\ r[1] = Point
           /\ r[2] = Peek \/ r[2] = "other"
           /\ top.at \in InfixCalls => r[1] \in InfixCalls \cup {"name", "unnamed"}
           /\ r[1] \notin {"name", "unnamed"} => top.at = r[1]
           /\ top.at \in QueuePoints => r[1] = top.at /\ r[1] \in {"block", "statement"}
           /\ top.at = "block" <=> r[1] = "block"
           /\ top.at = "unit" <=> r[1] = "unit"
           /\ top.at = "statement" <=> r[1] = "statement"
<1>1. /\ r[1] = Point
      /\ r[2] = Peek \/ r[2] = "other"
  BY DEF Applies
<1>2. /\ top.at \notin LastPoints \cup {"return"} \cup ExprAts \cup Operators
      /\ top.at = "arg" => Point \in {"name", "unnamed"}
      /\ top.at # "arg" => Point = top.at
  BY AtRowPoint
<1>3. top.at \in QueuePoints => top.at \in {"block", "statement"}
  BY <1>2 DEF QueuePoints, ExprAts
<1> QED
  BY <1>1, <1>2, <1>3, RowsGood

LEMMA RowMoves ==
    ASSUME TypeOK, Running, NEW r \in Rows, Runs, Point \in RowPoints, Applies(r),
           r[3] # "call", r[4] # "done", Len(frames) >= 2
    PROVE  /\ r[4] \in Points
           /\ Calls(frames[Len(frames) - 1], Moved(frames[Len(frames)], r[4]))
<1> DEFINE f == frames[Len(frames) - 1]
           g == Moved(frames[Len(frames)], r[4])
<1>1. /\ RowFacts(r) /\ RowTargets(r)
      /\ top.at \in InfixCalls => r[1] \in InfixCalls \cup {"name", "unnamed"}
      /\ r[1] \notin {"name", "unnamed"} => top.at = r[1]
  BY RowOfPoint
<1>2. r[4] \in Points
  BY <1>1 DEF RowFacts
<1>3. frames[Len(frames)] = top /\ top \in Frame /\ Calls(f, top)
  BY RunningFacts, LinkedFront
<1>4. BlockLevel \in Nat /\ top.at \notin ExprAts
  BY AtRowPoint
<1>5. g.at = r[4]
  BY <1>2, <1>3, <1>4, MovedFrame
<1>6. r[4] \notin Operators \cup {"unit", "assign_op"}
  BY <1>1 DEF RowFacts
<1>7. r[4] \in {"statement", "do", "return"} => f.at = "block"
  BY <1>1, <1>3 DEF RowTargets, Calls
<1>8. f.at = "infix" => r[4] \in InfixCalls
  BY <1>1, <1>3 DEF RowTargets, Calls
<1>9. f.at \notin Operators
  BY <1>3, <1>4 DEF Calls
<1> HIDE DEF f, g
<1>10. Calls(f, g)
  BY <1>5, <1>6, <1>7, <1>8, <1>9 DEF Calls, Operators
<1> QED
  BY <1>2, <1>10 DEF f, g

LEMMA KeptQueue ==
    ASSUME TypeOK, Running, NEW at,
           \/ top.at \notin QueuePoints
           \/ at \in QueuePoints
           \/ lookahead # <<>> /\ Peek # "BeginBlock"
    PROVE  QueueFits(lookahead, at)
<1>1. /\ QueueFits(lookahead, top.at)
      /\ Len(lookahead) \in Nat
  BY RunningFacts DEF Running
<1>2. CASE top.at \notin QueuePoints \/ at \in QueuePoints
  BY <1>1, <1>2 DEF QueueFits
<1>3. CASE lookahead # <<>> /\ Peek # "BeginBlock"
  <2>1. ~(Len(lookahead) >= 2)
    BY <1>1, <1>3 DEF QueueFits, Peek
  <2> QED
    BY <1>1, <2>1 DEF QueueFits
<1> QED
  BY <1>2, <1>3

LEMMA NoValueFits ==
    ASSUME NEW f, NEW q, f.at \notin Operators
    PROVE  ValueFits(NoValue, f, q)
BY NoValueIs, PlainValueFits DEF Bare

(* A row that goes on to a point without calling a function of its own.      *)
LEMMA RowReaches ==
    ASSUME TypeOK, Running, NEW r \in Rows, RowStep(r),
           r[3] \in {"keep", "take", "rule"}, r[4] # "done"
    PROVE  IInv'
<1>1. /\ Runs /\ Point \in RowPoints /\ Applies(r)
      /\ frames' = Reach(frames, r[4])
      /\ value' = NoValue
      /\ indent_rules' = IF r[3] = "rule" THEN PushRule ELSE indent_rules
      /\ UNCHANGED lexer
  BY DEF RowStep
<1>2. /\ result = "running"
      /\ top.at \notin ExprAts \cup Operators
      /\ lookahead # <<>>
      /\ Taken = lookahead[Len(lookahead)]
      /\ BlockLevel \in Nat
  BY <1>1, AtRowPoint
<1>3. /\ RowFacts(r) /\ RowKinds(r) /\ RowTargets(r)
      /\ r[2] = Peek \/ r[2] = "other"
      /\ top.at \in QueuePoints => r[1] = top.at /\ r[1] \in {"block", "statement"}
      /\ top.at = "block" <=> r[1] = "block"
      /\ top.at = "unit" <=> r[1] = "unit"
      /\ top.at = "statement" <=> r[1] = "statement"
  BY <1>1, RowOfPoint
<1>4. /\ frames \in Seq(Frame) /\ Linked(frames)
      /\ top = frames[Len(frames)] /\ top \in Frame
      /\ top.at # "unit" => Len(frames) >= 2
      /\ lookahead \in Seq(Token)
      /\ indent_rules \in Seq({"NegateDeindent"}) /\ Len(indent_rules) \in Nat
      /\ Blocks(frames) \in Nat
  BY RunningFacts
<1>5. top.at \notin {"unit", "block"}
  BY <1>3 DEF RowKinds
<1>6. Len(frames) >= 2
  BY <1>4, <1>5
<1>7. /\ r[4] \in Points
      /\ Calls(frames[Len(frames) - 1], Moved(frames[Len(frames)], r[4]))
  BY <1>1, <1>6, RowMoves
<1> DEFINE ns == Reach(frames, r[4])
           nt == ns[Len(ns)]
<1>8. /\ ns \in Seq(Frame)
      /\ Linked(ns)
      /\ nt = IF r[4] \in ExpressionPoints THEN New("expression", PrecedenceAt(r[4]))
                                           ELSE Moved(top, r[4])
      /\ Blocks(ns) = Blocks(frames) - (IF top.at = "block" THEN 1 ELSE 0)
                                     + (IF r[4] = "block" THEN 1 ELSE 0)
  BY <1>2, <1>4, <1>6, <1>7, ReachStack
<1>9. Blocks(ns) = Blocks(frames) + (IF r[4] = "block" THEN 1 ELSE 0)
  BY <1>4, <1>5, <1>8
<1>10. nt.at = IF r[4] \in ExpressionPoints THEN "expression" ELSE r[4]
  BY <1>2, <1>4, <1>7, <1>8, MovedFrame DEF New
<1>11. nt.at \notin Operators
  BY <1>3, <1>10 DEF RowFacts, Operators
<1>12. frames' # <<>>
  BY <1>1, <1>8 DEF Linked
<1>13. result' = "running"
  BY <1>2, <1>12 DEF RowStep
<1>14. value' \in Expression
  BY <1>1, NoValueIs
<1>15. ValueFits(value', nt, lookahead) /\ ValueFits(value', nt, lookahead')
  BY <1>1, <1>11, NoValueFits
<1>16. frames' = ns
  BY <1>1
<1> HIDE DEF ns, nt
<1>17. CASE r[3] = "keep"
  <2>1. lookahead' = lookahead /\ indent_rules' = indent_rules
    BY <1>1, <1>17 DEF RowStep
  <2>2. r[4] # "block"
    BY <1>3, <1>17 DEF RowKinds
  <2>3. Len(indent_rules') + Blocks(frames') = Len(indent_rules) + Blocks(frames)
    BY <1>4, <1>9, <1>16, <2>1, <2>2
  <2>4. QueueFits(lookahead, nt.at)
    <3>1. CASE top.at \notin QueuePoints
      BY <3>1, KeptQueue
    <3>2. CASE top.at \in QueuePoints /\ r[2] = "other"
      <4>1. r[4] \in {"statement", "expression"}
        BY <1>3, <3>2 DEF RowTargets
      <4>2. nt.at \in QueuePoints
        BY <1>10, <4>1 DEF ExpressionPoints, QueuePoints
      <4> QED
        BY <4>2, KeptQueue
    <3>3. CASE top.at \in QueuePoints /\ r[2] # "other"
      <4>1. Peek # "BeginBlock"
        BY <1>3, <3>3 DEF RowTargets
      <4> QED
        BY <1>2, <4>1, KeptQueue
    <3> QED
      BY <3>1, <3>2, <3>3
  <2>5. UNCHANGED <<lexer, lookahead>>
    BY <1>1, <2>1
  <2>6. indent_rules' \in Seq({"NegateDeindent"})
    BY <1>4, <2>1
  <2> QED
    BY <1>8, <1>13, <1>14, <1>15, <1>16, <2>3, <2>4, <2>5, <2>6, KeepStep DEF nt
<1>18. CASE r[3] \in {"take", "rule"}
  <2>1. Take
    BY <1>18 DEF RowStep
  <2>2. r[2] = Peek
    BY <1>3, <1>18 DEF RowKinds
  <2>3. top.at \notin QueuePoints \/ Peek # "BeginBlock"
    BY <1>3, <2>2 DEF RowTargets
  <2>4. Taken.type = Peek
    <3>1. QueueFits(lookahead, top.at)
      BY DEF Running
    <3> QED
      BY <1>2, <1>4, <2>3, <3>1, TakenIsPeek DEF Peek
  <2>5. Taken.type # "EndBlock"
    BY <1>3, <1>5, <1>18, <2>2, <2>4 DEF RowKinds
  <2>6. CASE r[3] = "take"
    <3>1. indent_rules' = indent_rules
      BY <1>1, <2>6
    <3>2. Taken.type = "BeginBlock" <=> r[4] = "block"
      BY <1>3, <2>2, <2>4, <2>6 DEF RowKinds
    <3>3. Len(indent_rules') + Blocks(frames')
               = Len(indent_rules) + Blocks(frames)
                     + (IF Taken.type = "BeginBlock" THEN 1 ELSE 0)
                     - (IF Taken.type = "EndBlock" THEN 1 ELSE 0)
      BY <1>4, <1>9, <1>16, <2>5, <3>1, <3>2
    <3>4. indent_rules' \in Seq({"NegateDeindent"})
      BY <1>4, <3>1
    <3> QED
      BY <1>1, <1>2, <1>8, <1>13, <1>14, <1>15, <1>16, <2>1, <3>3, <3>4, TakeStep DEF nt
  <2>7. CASE r[3] = "rule"
    <3>1. indent_rules' = Append(indent_rules, "NegateDeindent")
      BY <1>1, <2>7 DEF PushRule
    <3>2. /\ indent_rules' \in Seq({"NegateDeindent"})
          /\ Len(indent_rules') = Len(indent_rules) + 1
      BY <1>4, <3>1, AppendItem
    <3>3. r[4] # "block" /\ Taken.type = "BeginBlock"
      BY <1>3, <2>2, <2>4, <2>7 DEF RowKinds
    <3>4. Len(indent_rules') + Blocks(frames')
               = Len(indent_rules) + Blocks(frames)
                     + (IF Taken.type = "BeginBlock" THEN 1 ELSE 0)
                     - (IF Taken.type = "EndBlock" THEN 1 ELSE 0)
      BY <1>4, <1>9, <1>16, <3>2, <3>3
    <3> QED
      BY <1>1, <1>2, <1>8, <1>13, <1>14, <1>15, <1>16, <2>1, <3>2, <3>4, TakeStep DEF nt
  <2> QED
    BY <1>18, <2>6, <2>7
<1> QED
  BY <1>17, <1>18

(* A row that ends the function. *)
LEMMA RowReturns ==
    ASSUME TypeOK, Running, NEW r \in Rows, RowStep(r),
           r[3] \in {"keep", "take", "rule"}, r[4] = "done"
    PROVE  IInv'
<1>1. /\ Runs /\ Point \in RowPoints /\ Applies(r)
      /\ frames' = Reach(frames, r[4])
      /\ value' = Returned
      /\ UNCHANGED lexer
  BY DEF RowStep
<1>2. /\ result = "running"
      /\ top.at \notin LastPoints \cup ExprAts \cup Operators
      /\ lookahead # <<>>
      /\ Taken = lookahead[Len(lookahead)]
  BY <1>1, AtRowPoint
<1>3. /\ RowKinds(r) /\ RowTargets(r)
      /\ r[2] = Peek \/ r[2] = "other"
      /\ top.at \in QueuePoints => r[1] = top.at /\ r[1] \in {"block", "statement"}
      /\ top.at = "block" <=> r[1] = "block"
      /\ top.at = "unit" <=> r[1] = "unit"
  BY <1>1, RowOfPoint
<1>4. /\ frames \in Seq(Frame) /\ Linked(frames)
      /\ Len(frames) \in Nat \ {0}
      /\ top = frames[Len(frames)] /\ top \in Frame
      /\ top.at # "unit" => Len(frames) >= 2
      /\ Len(frames) >= 2 => top.at # "unit"
      /\ lookahead \in Seq(Token)
      /\ indent_rules \in Seq({"NegateDeindent"}) /\ Len(indent_rules) \in Nat
      /\ value \in Expression
      /\ value.variant = "BinaryOp" => value.op \in BinaryOperators
      /\ Blocks(frames) \in Nat
  BY RunningFacts
<1>5. frames' = Front(frames)
  <2>1. "done" \notin ExpressionPoints
    BY DEF ExpressionPoints
  <2> QED
    BY <1>1, <2>1 DEF Reach
<1>6. r[3] \in {"keep", "take"} /\ indent_rules' = indent_rules
  BY <1>3 DEF RowKinds, RowStep
<1>7. value' \in Expression
  BY <1>1, ReturnedType
<1>8. CASE top.at = "unit"
  <2>1. Len(frames) = 1
    BY <1>4, <1>8, OneOrMore
  <2>2. frames' = <<>>
    BY <1>4, <1>5, <2>1, FrontItems, EmptySeq
  <2>3. r[3] = "keep" /\ r[2] = "EOF"
    BY <1>3, <1>6, <1>8 DEF RowKinds
  <2>4. lookahead' = lookahead /\ result' = "ok"
    BY <2>2, <2>3 DEF RowStep
  <2>5. Peek = "EOF"
    BY <1>3, <2>3
  <2>6. /\ Len(lookahead) = 1
        /\ depth = 0
        /\ Len(indent_rules) = 0
    BY <1>2, <2>5, EndOfFileClosesAll
  <2>7. indent_rules = <<>>
    BY <1>4, <2>6, EmptySeq
  <2>8. depth' = depth
    BY <1>1 DEF lexer
  <2>9. Accepted'
    BY <1>6, <2>2, <2>4, <2>5, <2>6, <2>7, <2>8 DEF Accepted, Peek
  <2>10. TypeOK'
    <3>1. frames' \in Seq(Frame)
      BY <2>2, EmptySeq
    <3> QED
      BY <1>1, <1>6, <1>7, <2>4, <3>1 DEF TypeOK, lexer
  <2> QED
    BY <2>4, <2>9, <2>10 DEF IInv
<1>9. CASE top.at # "unit"
  <2> DEFINE ns == Front(frames)
             nt == ns[Len(ns)]
  <2>1. Len(frames) >= 2
    BY <1>4, <1>9
  <2>2. /\ ns \in Seq(Frame)
        /\ Linked(ns)
        /\ nt \in Frame
        /\ Calls(nt, top)
        /\ Blocks(ns) = Blocks(frames) - (IF top.at = "block" THEN 1 ELSE 0)
    BY <1>4, <2>1, ReturnStack
  <2> HIDE DEF ns, nt
  <2>3. nt.at \notin Operators
    BY <1>2, <2>2 DEF Calls
  <2>4. /\ value'.variant = "BinaryOp" => value'.op \in BinaryOperators
        /\ value'.variant # "Assignment"
        /\ ~Bare(value', "BinaryOp")
    <3>1. CASE top.at = "called"
      <4>1. value' = Value("FnCall")
        BY <1>1, <3>1 DEF Returned
      <4> QED
        BY <4>1, PlainValues DEF Variants
    <3>2. CASE top.at = "parens"
      <4>1. value' = [value EXCEPT !.paren = TRUE]
        BY <1>1, <3>2 DEF Returned
      <4>2. value.variant # "Assignment"
        BY <1>1, <3>2 DEF Runs, ValuePoints, HasValue
      <4>3. value'.variant = value.variant /\ value'.op = value.op /\ value'.paren
        BY <1>4, <4>1 DEF Expression
      <4> QED
        BY <1>4, <4>2, <4>3 DEF Bare
    <3>3. CASE top.at \notin {"called", "parens"}
      <4>1. value' = NoValue
        BY <1>1, <1>2, <3>3 DEF Returned, LastPoints
      <4> QED
        BY <4>1, NoValueIs DEF Bare
    <3> QED
      BY <3>1, <3>2, <3>3
  <2>5. ValueFits(value', nt, lookahead) /\ ValueFits(value', nt, lookahead')
    BY <2>3, <2>4, PlainValueFits
  <2>6. frames' = ns /\ frames' # <<>>
    BY <1>5, <2>2 DEF ns, Linked
  <2>7. result' = "running"
    BY <1>2, <1>6, <2>6 DEF RowStep
  <2>8. CASE r[3] = "keep"
    <3>1. lookahead' = lookahead
      BY <2>8 DEF RowStep
    <3>2. top.at # "block"
      <4>1. SUFFICES ASSUME top.at = "block" PROVE FALSE
        OBVIOUS
      <4>2. Peek = "EOF"
        BY <1>3, <2>8, <4>1 DEF RowKinds
      <4>3. Blocks(frames) = 0
        BY <1>2, <4>2, EndOfFileClosesAll
      <4>4. Blocks(frames) >= 1
        BY <1>4, <4>1, LinkedTop, BlocksFront
      <4> QED
        BY <4>3, <4>4
    <3>3. Len(indent_rules') + Blocks(frames') = Len(indent_rules) + Blocks(frames)
      BY <1>4, <1>6, <2>2, <2>6, <3>2
    <3>4. QueueFits(lookahead, nt.at)
      <4>1. top.at \notin QueuePoints \/ Peek # "BeginBlock"
        BY <1>3 DEF RowTargets
      <4> QED
        BY <1>2, <4>1, KeptQueue
    <3>5. UNCHANGED <<lexer, lookahead>> /\ indent_rules' \in Seq({"NegateDeindent"})
      BY <1>1, <1>4, <1>6, <3>1
    <3> QED
      BY <1>7, <2>2, <2>5, <2>6, <2>7, <3>3, <3>4, <3>5, KeepStep DEF nt
  <2>9. CASE r[3] = "take"
    <3>1. Take
      BY <2>9 DEF RowStep
    <3>2. r[2] = Peek
      BY <1>3, <2>9 DEF RowKinds
    <3>3. top.at \notin QueuePoints \/ Peek # "BeginBlock"
      BY <1>3, <3>2 DEF RowTargets
    <3>4. Taken.type = Peek
      <4>1. QueueFits(lookahead, top.at)
        BY DEF Running
      <4> QED
        BY <1>2, <1>4, <3>3, <4>1, TakenIsPeek DEF Peek
    <3>5. /\ Taken.type # "BeginBlock"
          /\ Taken.type = "EndBlock" <=> top.at = "block"
      BY <1>3, <2>9, <3>2, <3>4 DEF RowKinds
    <3>6. Len(indent_rules') + Blocks(frames')
               = Len(indent_rules) + Blocks(frames)
                     + (IF Taken.type = "BeginBlock" THEN 1 ELSE 0)
                     - (IF Taken.type = "EndBlock" THEN 1 ELSE 0)
      <4>1. CASE top.at = "block"
        BY <1>4, <1>6, <2>2, <2>6, <3>5, <4>1
      <4>2. CASE top.at # "block"
        BY <1>4, <1>6, <2>2, <2>6, <3>5, <4>2
      <4> QED
        BY <4>1, <4>2
    <3>7. indent_rules' \in Seq({"NegateDeindent"})
      BY <1>4, <1>6
    <3> QED
      BY <1>1, <1>2, <1>7, <2>2, <2>5, <2>6, <2>7, <3>1, <3>6, <3>7, TakeStep DEF nt
  <2> QED
    BY <1>6, <2>8, <2>9
<1> QED
  BY <1>8, <1>9

(* A row that calls the function of its point. *)
LEMMA RowCalls ==
    ASSUME TypeOK, Running, NEW r \in Rows, RowStep(r), r[3] = "call"
    PROVE  IInv'
<1>1. /\ Runs /\ Point \in RowPoints /\ Applies(r)
      /\ frames' = Call(frames, r[4])
      /\ lookahead' = lookahead
      /\ indent_rules' = indent_rules
      /\ UNCHANGED lexer
  BY DEF RowStep
<1>2. result = "running" /\ lookahead # <<>> /\ top.at \notin Operators
  BY <1>1, AtRowPoint
<1>3. /\ RowKinds(r) /\ RowTargets(r)
      /\ r[2] = Peek \/ r[2] = "other"
      /\ top.at = "block" <=> r[1] = "block"
      /\ top.at = "unit" <=> r[1] = "unit"
  BY <1>1, RowOfPoint
<1>4. \/ top.at = "unit" /\ r[4] = "item"
      \/ top.at = "block" /\ r[4] = "statement"
  BY <1>3 DEF RowKinds
<1>5. /\ frames \in Seq(Frame) /\ Linked(frames)
      /\ top = frames[Len(frames)]
      /\ indent_rules \in Seq({"NegateDeindent"}) /\ Len(indent_rules) \in Nat
      /\ Blocks(frames) \in Nat
  BY RunningFacts
<1> DEFINE k == New(r[4], Prec.Min)
           ns == Reach(Append(frames, k), r[4])
           nt == ns[Len(ns)]
<1>6. r[4] \in Points /\ r[4] \notin ExpressionPoints /\ r[4] \notin {"done", "block"}
  BY <1>4, RowPointsAre DEF Points, RowPointNames, ExpressionPoints
<1>7. k \in Frame /\ k.at = r[4]
  BY <1>6, NewFrame, PrecedencesAre DEF Prec
<1>8. Calls(top, k)
  <2> HIDE DEF k
  <2> QED
    BY <1>4, <1>7 DEF Calls, Operators
<1>9. /\ ns \in Seq(Frame)
      /\ Linked(ns)
      /\ nt = Moved(k, r[4])
      /\ Blocks(ns) = Blocks(frames)
  <2> HIDE DEF k
  <2>1. /\ ns \in Seq(Frame)
        /\ Linked(ns)
        /\ nt = IF r[4] \in ExpressionPoints THEN New("expression", PrecedenceAt(r[4]))
                                             ELSE Moved(k, r[4])
        /\ Blocks(ns) = Blocks(frames) + (IF r[4] = "block" THEN 1 ELSE 0)
    BY <1>5, <1>6, <1>7, <1>8, CallStack
  <2> QED
    BY <1>5, <1>6, <2>1
<1>10. nt.at = r[4]
  <2> HIDE DEF k, ns
  <2> QED
    BY <1>6, <1>7, <1>9, MovedFrame
<1>11. frames' = ns
  BY <1>1 DEF Call
<1> HIDE DEF k, ns, nt
<1>12. frames' # <<>>
  BY <1>9, <1>11 DEF Linked
<1>13. result' = "running" /\ value' = NoValue
  BY <1>2, <1>6, <1>12 DEF RowStep
<1>14. value' \in Expression /\ ValueFits(value', nt, lookahead)
  <2>1. nt.at \notin Operators
    BY <1>4, <1>10 DEF Operators
  <2> QED
    BY <1>13, <2>1, NoValueIs, NoValueFits
<1>15. QueueFits(lookahead, nt.at)
  BY <1>4, <1>10, KeptQueue DEF QueuePoints
<1>16. Len(indent_rules') + Blocks(frames') = Len(indent_rules) + Blocks(frames)
  BY <1>1, <1>9, <1>11
<1>17. UNCHANGED <<lexer, lookahead>> /\ indent_rules' \in Seq({"NegateDeindent"})
  BY <1>1, <1>5
<1> QED
  BY <1>9, <1>11, <1>13, <1>14, <1>15, <1>16, <1>17, KeepStep DEF nt

(* A row that goes on to a point and parses a block before that. *)
LEMMA RowBlocks ==
    ASSUME TypeOK, Running, NEW r \in Rows, RowStep(r), r[3] = "block"
    PROVE  IInv'
<1>1. /\ Runs /\ Point \in RowPoints /\ Applies(r)
      /\ frames' = Call(Reach(frames, r[4]), "block")
      /\ Take
      /\ indent_rules' = indent_rules
      /\ UNCHANGED lexer
  BY DEF RowStep
<1>2. /\ result = "running"
      /\ lookahead # <<>>
      /\ Taken = lookahead[Len(lookahead)]
      /\ BlockLevel \in Nat
  BY <1>1, AtRowPoint
<1>3. /\ RowKinds(r) /\ RowTargets(r)
      /\ r[2] = Peek \/ r[2] = "other"
      /\ top.at \in QueuePoints => r[1] = top.at /\ r[1] \in {"block", "statement"}
      /\ top.at = "block" <=> r[1] = "block"
      /\ top.at = "unit" <=> r[1] = "unit"
  BY <1>1, RowOfPoint
<1>4. /\ frames \in Seq(Frame) /\ Linked(frames)
      /\ top = frames[Len(frames)] /\ top \in Frame
      /\ top.at # "unit" => Len(frames) >= 2
      /\ lookahead \in Seq(Token)
      /\ indent_rules \in Seq({"NegateDeindent"}) /\ Len(indent_rules) \in Nat
      /\ Blocks(frames) \in Nat
  BY RunningFacts
<1>5. /\ r[2] = Peek /\ Peek = "BeginBlock" /\ r[4] = "if_blocks"
      /\ top.at \notin {"unit", "block"} \cup QueuePoints
  BY <1>3 DEF RowKinds, RowTargets
<1>6. Taken.type = "BeginBlock"
  <2>1. QueueFits(lookahead, top.at)
    BY DEF Running
  <2> QED
    BY <1>2, <1>4, <1>5, <2>1, TakenIsPeek DEF Peek
<1>7. Len(frames) >= 2
  BY <1>4, <1>5
<1>8. "if_blocks" \in Points \ ExpressionPoints /\ "block" \in Points \ ExpressionPoints
  BY RowPointsAre DEF Points, RowPointNames, ExpressionPoints
<1>9. Calls(frames[Len(frames) - 1], Moved(top, "if_blocks"))
  BY <1>1, <1>4, <1>5, <1>7, RowMoves
<1> DEFINE ms == Reach(frames, "if_blocks")
           mt == ms[Len(ms)]
           k == New("block", Prec.Min)
           ns == Reach(Append(ms, k), "block")
           nt == ns[Len(ns)]
<1>10. /\ ms \in Seq(Frame)
       /\ Linked(ms)
       /\ mt = Moved(top, "if_blocks")
       /\ Blocks(ms) = Blocks(frames)
  <2>1. /\ ms \in Seq(Frame)
        /\ Linked(ms)
        /\ mt = IF "if_blocks" \in ExpressionPoints
                THEN New("expression", PrecedenceAt("if_blocks"))
                ELSE Moved(top, "if_blocks")
        /\ Blocks(ms) = Blocks(frames) - (IF top.at = "block" THEN 1 ELSE 0)
                                       + (IF "if_blocks" = "block" THEN 1 ELSE 0)
    BY <1>2, <1>4, <1>7, <1>8, <1>9, ReachStack
  <2> QED
    BY <1>4, <1>5, <1>8, <2>1
<1>11. k \in Frame /\ k.at = "block"
  BY <1>8, NewFrame, PrecedencesAre DEF Prec
<1>12. mt.at = "if_blocks"
  BY <1>4, <1>8, <1>10, MovedFrame
<1> HIDE DEF ms, mt, k
<1>13. Calls(mt, k)
  BY <1>11, <1>12 DEF Calls, Operators
<1>14. /\ ns \in Seq(Frame)
       /\ Linked(ns)
       /\ nt = Moved(k, "block")
       /\ Blocks(ns) = Blocks(frames) + 1
  <2>1. Calls(ms[Len(ms)], k)
    BY <1>13 DEF mt
  <2>2. /\ ns \in Seq(Frame)
        /\ Linked(ns)
        /\ nt = IF "block" \in ExpressionPoints THEN New("expression", PrecedenceAt("block"))
                                                ELSE Moved(k, "block")
        /\ Blocks(ns) = Blocks(ms) + (IF "block" = "block" THEN 1 ELSE 0)
    BY <1>2, <1>8, <1>10, <1>11, <2>1, CallStack
  <2> QED
    BY <1>8, <1>10, <2>2
<1>15. nt.at = "block"
  <2> HIDE DEF ns, nt
  <2> QED
    BY <1>2, <1>8, <1>11, <1>14, MovedFrame
<1>16. frames' = ns
  BY <1>1, <1>5 DEF Call, ms, k
<1> HIDE DEF ns, nt
<1>17. frames' # <<>>
  BY <1>14, <1>16 DEF Linked
<1>18. result' = "running" /\ value' = NoValue
  BY <1>2, <1>5, <1>17 DEF RowStep
<1>19. value' \in Expression /\ ValueFits(value', nt, lookahead')
  <2>1. nt.at \notin Operators
    BY <1>15 DEF Operators
  <2> QED
    BY <1>18, <2>1, NoValueIs, NoValueFits
<1>20. Len(indent_rules') + Blocks(frames')
               = Len(indent_rules) + Blocks(frames)
                     + (IF Taken.type = "BeginBlock" THEN 1 ELSE 0)
                     - (IF Taken.type = "EndBlock" THEN 1 ELSE 0)
  BY <1>1, <1>4, <1>6, <1>14, <1>16
<1>21. indent_rules' \in Seq({"NegateDeindent"})
  BY <1>1, <1>4
<1> QED
  BY <1>1, <1>2, <1>14, <1>16, <1>18, <1>19, <1>20, <1>21, TakeStep DEF nt

(* A step that ends in an error. *)
LEMMA ErrorStep ==
    ASSUME TypeOK, Running, UNCHANGED <<lexer, indent_rules, frames, value>>,
           \/ UNCHANGED lookahead
           \/ lookahead # <<>> /\ Take,
           result' \in ParseErrors
    PROVE  IInv'
<1>1. lookahead' \in Seq(Token)
  <2>1. CASE lookahead # <<>> /\ Take
    BY <2>1, FrontOfQueue DEF TypeOK, Running, Take
  <2>2. CASE UNCHANGED lookahead
    BY <2>2 DEF TypeOK
  <2> QED
    BY <2>1, <2>2
<1>2. TypeOK'
  BY <1>1 DEF TypeOK, lexer
<1>3. result' \notin {"running", "ok"}
  BY DEF ParseErrors
<1> QED
  BY <1>2, <1>3 DEF IInv

LEMMA RowFails ==
    ASSUME TypeOK, Running, NEW r \in Rows, RowStep(r), r[3] = "fail"
    PROVE  IInv'
<1>1. Runs /\ Point \in RowPoints /\ Applies(r)
  BY DEF RowStep
<1>2. frames' = frames /\ lookahead' = lookahead /\ indent_rules' = indent_rules
      /\ UNCHANGED lexer
  BY DEF RowStep
<1>3. result' = "LazyString"
  BY <1>2, LinkedTop, RunningFacts DEF RowStep
<1>4. value' \in Expression
  BY NoValueIs, ReturnedType DEF RowStep
<1>5. TypeOK'
  BY <1>2, <1>3, <1>4 DEF TypeOK, lexer, ParseErrors
<1> QED
  BY <1>3, <1>5 DEF IInv

LEMMA FollowStep ==
    ASSUME IInv, NEW rows \in SUBSET Rows, Follow(rows)
    PROVE  IInv'
<1>1. PICK r \in Rows : RowStep(r)
  BY FollowsRow
<1>2. TypeOK /\ Running
  BY <1>1 DEF IInv, RowStep, Runs
<1>3. r[3] \in {"keep", "take", "rule", "block", "call", "fail"}
  BY RowsGood DEF RowFacts
<1>4. CASE r[3] \in {"keep", "take", "rule"}
  <2>1. CASE r[4] = "done"
    BY <1>1, <1>2, <1>4, <2>1, RowReturns
  <2>2. CASE r[4] # "done"
    BY <1>1, <1>2, <1>4, <2>2, RowReaches
  <2> QED
    BY <2>1, <2>2
<1>5. CASE r[3] = "block"
  BY <1>1, <1>2, <1>5, RowBlocks
<1>6. CASE r[3] = "call"
  BY <1>1, <1>2, <1>6, RowCalls
<1>7. CASE r[3] = "fail"
  BY <1>1, <1>2, <1>7, RowFails
<1> QED
  BY <1>3, <1>4, <1>5, <1>6, <1>7

-----------------------------------------------------------------------------
(* The other steps. *)

LEMMA UnexpectedStep ==
    ASSUME IInv, Unexpected
    PROVE  IInv'
<1>1. TypeOK /\ Running
  BY DEF IInv, Unexpected, Runs
<1>2. UNCHANGED <<lexer, indent_rules, frames, value>> /\ UNCHANGED lookahead
  BY DEF Unexpected
<1>3. result' \in ParseErrors
  BY DEF Unexpected, Error, ParseErrors
<1> QED
  BY <1>1, <1>2, <1>3, ErrorStep

LEMMA ExpectValueStep ==
    ASSUME IInv, ExpectValue
    PROVE  IInv'
<1>1. TypeOK /\ Running
  BY DEF IInv, ExpectValue
<1>2. UNCHANGED <<lexer, indent_rules, frames, value>> /\ UNCHANGED lookahead
  BY DEF ExpectValue
<1>3. result' \in ParseErrors
  BY DEF ExpectValue, Error, ParseErrors
<1> QED
  BY <1>1, <1>2, <1>3, ErrorStep

(* The call on top of the stack returns, and no token is taken.              *)
LEMMA KeepReturns ==
    ASSUME TypeOK, Running, UNCHANGED <<lexer, lookahead, indent_rules, result>>,
           result = "running", top.at \notin {"unit", "block"}, frames' = Front(frames),
           value' \in Expression,
           LET nt == frames[Len(frames) - 1]
           IN  Calls(nt, top) => /\ ValueFits(value', nt, lookahead)
                                 /\ QueueFits(lookahead, nt.at)
    PROVE  IInv'
<1>1. /\ frames \in Seq(Frame) /\ Linked(frames)
      /\ top = frames[Len(frames)]
      /\ top.at # "unit" => Len(frames) >= 2
      /\ indent_rules \in Seq({"NegateDeindent"}) /\ Len(indent_rules) \in Nat
      /\ Blocks(frames) \in Nat
  BY RunningFacts
<1> DEFINE ns == Front(frames)
           nt == ns[Len(ns)]
<1>2. Len(frames) >= 2
  BY <1>1
<1>3. /\ ns \in Seq(Frame)
      /\ Linked(ns)
      /\ nt = frames[Len(frames) - 1]
      /\ Calls(nt, top)
      /\ Blocks(ns) = Blocks(frames) - (IF top.at = "block" THEN 1 ELSE 0)
  BY <1>1, <1>2, LinkedFront, ReturnStack
<1> HIDE DEF ns, nt
<1>4. ValueFits(value', nt, lookahead) /\ QueueFits(lookahead, nt.at)
  BY <1>3
<1>5. frames' = ns
  BY DEF ns
<1>6. Len(indent_rules') + Blocks(frames') = Len(indent_rules) + Blocks(frames)
  BY <1>1, <1>3, <1>5
<1>7. indent_rules' \in Seq({"NegateDeindent"}) /\ result' = "running"
  BY <1>1
<1> QED
  BY <1>3, <1>4, <1>5, <1>6, <1>7, KeepStep DEF nt

LEMMA FinishStep ==
    ASSUME IInv, Finish
    PROVE  IInv'
<1>1. TypeOK /\ Running /\ result = "running" /\ top.at \in LastPoints
  BY DEF IInv, Finish, Runs
<1>2. UNCHANGED <<lexer, lookahead, indent_rules>>
  BY DEF Finish
<1>3. /\ frames \in Seq(Frame) /\ Linked(frames)
      /\ top = frames[Len(frames)] /\ top \in Frame
      /\ top.at # "unit" => Len(frames) >= 2
      /\ value \in Expression
  BY <1>1, RunningFacts
<1>4. CASE top.at = "assign_op" /\ top.op \notin BinaryOperators
  <2>1. result' \in ParseErrors /\ UNCHANGED <<frames, value>>
    BY <1>4 DEF Finish, Error, ParseErrors
  <2> QED
    BY <1>1, <1>2, <2>1, ErrorStep
<1>5. CASE ~(top.at = "assign_op" /\ top.op \notin BinaryOperators)
  <2> DEFINE nt == frames[Len(frames) - 1]
  <2>1. frames' = Front(frames) /\ value' = Returned /\ result' = result
    BY <1>5 DEF Finish
  <2>2. value' \in Expression
    BY <1>1, <2>1, ReturnedType
  <2>3. top.at \notin {"unit", "block"} \cup ExprAts \cup QueuePoints
    BY <1>1 DEF LastPoints, ExprAts, QueuePoints
  <2>4. QueueFits(lookahead, nt.at)
    BY <1>1, <2>3, KeptQueue
  <2>5. ASSUME Calls(nt, top)
        PROVE  ValueFits(value', nt, lookahead)
    <3>1. nt.at \notin Operators
      BY <2>3, <2>5 DEF Calls
    <3>2. CASE top.at = "binop"
      <4>1. /\ top.op \in BinaryOperators
            /\ nt.prec < ForToken(top.op)
        BY <2>5, <3>2 DEF Calls
      <4>2. NextBinds(ForToken(top.op), lookahead)
        BY <1>1, <3>2 DEF Running, ValueFits, Operators, Operand
      <4>3. value' = [Value("BinaryOp") EXCEPT !.op = top.op]
        BY <2>1, <3>2 DEF Returned
      <4>4. value'.variant = "BinaryOp" /\ value'.op = top.op
        BY <4>3 DEF Value
      <4> QED
        BY <3>1, <4>1, <4>2, <4>4 DEF ValueFits
    <3>3. CASE top.at = "assign"
      <4>1. nt.prec < Prec.Assign
        BY <2>5, <3>3 DEF Calls
      <4>2. NextBinds(Prec.Assign, lookahead)
        <5>1. Operand(top) = Prec.Assign
          BY <3>3 DEF Operand, PrecedenceAt
        <5> QED
          BY <1>1, <3>3, <5>1 DEF Running, ValueFits, Operators
      <4>3. value' = Value("Assignment")
        BY <2>1, <3>3 DEF Returned
      <4>4. value'.variant = "Assignment"
        BY <4>3 DEF Value
      <4> QED
        BY <3>1, <4>1, <4>2, <4>4 DEF ValueFits, Bare
    <3>4. CASE top.at = "assign_op"
      <4>1. top.op \in AssignOperators
        BY <2>5, <3>4 DEF Calls
      <4> QED
        BY <1>5, <3>4, <4>1 DEF AssignOperators, BinaryOperators
    <3>5. CASE top.at = "unary"
      <4>1. value' = Value("UnaryOp")
        BY <2>1, <3>5 DEF Returned
      <4> QED
        BY <3>1, <4>1, PlainValues, PlainValueFits DEF Variants
    <3>6. CASE top.at = "ifx_false"
      <4>1. value' = Value("IfExpression")
        BY <2>1, <3>6 DEF Returned
      <4> QED
        BY <3>1, <4>1, PlainValues, PlainValueFits DEF Variants
    <3>7. CASE top.at \in {"let_value", "return_value"}
      <4>1. value' = NoValue
        BY <2>1, <3>7 DEF Returned
      <4> QED
        BY <3>1, <4>1, NoValueFits
    <3> QED
      BY <1>1, <3>2, <3>3, <3>4, <3>5, <3>6, <3>7 DEF LastPoints
  <2> QED
    BY <1>1, <1>2, <2>1, <2>2, <2>3, <2>4, <2>5, KeepReturns
<1> QED
  BY <1>4, <1>5

LEMMA ReturnStatementStep ==
    ASSUME IInv, ReturnStatement
    PROVE  IInv'
<1>1. /\ TypeOK /\ Running /\ result = "running" /\ top.at = "return"
      /\ UNCHANGED <<lexer, lookahead, indent_rules, value, result>>
      /\ \/ frames' = Front(frames)
         \/ frames' = Reach(frames, "return_value")
  BY DEF IInv, ReturnStatement, Runs
<1>2. /\ frames \in Seq(Frame) /\ Linked(frames)
      /\ top = frames[Len(frames)] /\ top \in Frame
      /\ top.at # "unit" => Len(frames) >= 2
      /\ indent_rules \in Seq({"NegateDeindent"}) /\ Len(indent_rules) \in Nat
      /\ value \in Expression
      /\ value.variant = "BinaryOp" => value.op \in BinaryOperators
      /\ Blocks(frames) \in Nat
  BY <1>1, RunningFacts
<1>3. Len(frames) >= 2
  BY <1>1, <1>2
<1> DEFINE caller == frames[Len(frames) - 1]
<1>4. Calls(caller, top)
  BY <1>2, <1>3, LinkedFront
<1>5. caller.at = "block"
  BY <1>1, <1>4 DEF Calls
<1>6. CASE frames' = Front(frames)
  <2>1. ValueFits(value', caller, lookahead) /\ QueueFits(lookahead, caller.at)
    BY <1>1, <1>2, <1>5, PlainValueFits, KeptQueue DEF Operators, QueuePoints
  <2> QED
    BY <1>1, <1>2, <1>6, <2>1, KeepReturns
<1>7. CASE frames' = Reach(frames, "return_value")
  <2> DEFINE ns == Reach(frames, "return_value")
             nt == ns[Len(ns)]
             g == Moved(top, "return_value")
  <2>1. "return_value" \in ExpressionPoints /\ "return_value" \in Points
    BY DEF ExpressionPoints, Points
  <2>2. g.at = "return_value"
    BY <1>2, <2>1, MovedFrame
  <2>3. Calls(caller, g)
    <3> HIDE DEF g, caller
    <3> QED
      BY <1>5, <2>2 DEF Calls, Operators
  <2>4. /\ ns \in Seq(Frame)
        /\ Linked(ns)
        /\ nt = IF "return_value" \in ExpressionPoints
                THEN New("expression", PrecedenceAt("return_value"))
                ELSE Moved(top, "return_value")
        /\ Blocks(ns) = Blocks(frames) - (IF top.at = "block" THEN 1 ELSE 0)
                                       + (IF "return_value" = "block" THEN 1 ELSE 0)
    BY <1>2, <1>3, <2>1, <2>3, ReachStack
  <2>5. nt.at = "expression"
    BY <2>1, <2>4 DEF New
  <2>6. ValueFits(value', nt, lookahead) /\ QueueFits(lookahead, nt.at)
    <3> HIDE DEF nt
    <3> QED
      BY <1>1, <1>2, <2>5, PlainValueFits, KeptQueue DEF Operators, QueuePoints
  <2>7. Blocks(ns) = Blocks(frames)
    BY <1>1, <1>2, <2>4
  <2>8. frames' = ns
    BY <1>7
  <2> HIDE DEF ns, nt
  <2>9. Len(indent_rules') + Blocks(frames') = Len(indent_rules) + Blocks(frames)
    BY <1>1, <2>7, <2>8
  <2>10. UNCHANGED <<lexer, lookahead>> /\ indent_rules' \in Seq({"NegateDeindent"})
         /\ value' \in Expression /\ result' = "running"
    BY <1>1, <1>2
  <2> QED
    BY <1>1, <2>4, <2>6, <2>8, <2>9, <2>10, KeepStep DEF nt
<1> QED
  BY <1>1, <1>6, <1>7

-----------------------------------------------------------------------------
(* The steps of expression. *)

(* What the operators call is not an expression that goes on in their place. *)
LEMMA ExpressionCaller ==
    ASSUME TypeOK, Running, top.at \in ExprAts
    PROVE  /\ Len(frames) >= 2
           /\ Calls(frames[Len(frames) - 1], top)
           /\ frames[Len(frames) - 1].at # "infix"
<1>1. /\ frames \in Seq(Frame) /\ Linked(frames)
      /\ top = frames[Len(frames)]
      /\ top.at # "unit" => Len(frames) >= 2
  BY RunningFacts
<1>2. top.at \notin InfixCalls \cup {"unit"}
  BY DEF ExprAts, InfixCalls
<1>3. Len(frames) >= 2
  BY <1>1, <1>2
<1>4. Calls(frames[Len(frames) - 1], top)
  BY <1>1, <1>3, LinkedFront
<1> QED
  BY <1>2, <1>3, <1>4 DEF Calls

LEMMA ExpressionMoves ==
    ASSUME TypeOK, Running, top.at \in ExprAts, NEW to \in {"prefix", "infix"}
    PROVE  LET ns == Reach(frames, to)
           IN  /\ ns \in Seq(Frame)
               /\ Linked(ns)
               /\ ns[Len(ns)].at = to
               /\ ns[Len(ns)].prec = top.prec
               /\ Blocks(ns) = Blocks(frames)
<1> DEFINE caller == frames[Len(frames) - 1]
           g == Moved(top, to)
           ns == Reach(frames, to)
           nt == ns[Len(ns)]
<1>1. /\ frames \in Seq(Frame) /\ Linked(frames)
      /\ top = frames[Len(frames)] /\ top \in Frame
      /\ Blocks(frames) \in Nat
  BY RunningFacts
<1>2. /\ Len(frames) >= 2
      /\ Calls(caller, top)
      /\ caller.at # "infix"
  BY ExpressionCaller
<1>3. to \in Points \ ExpressionPoints /\ to \in ExprAts /\ to # "block" /\ to # "done"
  BY DEF Points, ExpressionPoints, ExprAts
<1>4. g.at = to /\ g.prec = top.prec
  BY <1>1, <1>3, MovedFrame
<1>5. Calls(caller, g)
  <2> HIDE DEF caller, g
  <2> QED
    BY <1>2, <1>4 DEF Calls, ExprAts
<1>6. /\ ns \in Seq(Frame)
      /\ Linked(ns)
      /\ nt = IF to \in ExpressionPoints THEN New("expression", PrecedenceAt(to)) ELSE g
      /\ Blocks(ns) = Blocks(frames) - (IF top.at = "block" THEN 1 ELSE 0)
                                     + (IF to = "block" THEN 1 ELSE 0)
  BY <1>1, <1>2, <1>3, <1>5, ReachStack
<1>7. top.at # "block"
  BY DEF ExprAts
<1> HIDE DEF g, ns, nt
<1>8. nt = g /\ Blocks(ns) = Blocks(frames)
  BY <1>1, <1>3, <1>6, <1>7
<1> QED
  BY <1>4, <1>6, <1>8 DEF ns, nt

LEMMA AtExpression ==
    ASSUME TypeOK, Running, Runs, top.at \in ExprAts
    PROVE  /\ result = "running"
           /\ lookahead # <<>>
           /\ Taken = lookahead[Len(lookahead)]
           /\ Taken.type \in TokenTypes
           /\ Peek \in TokenTypes
           /\ BlockLevel \in Nat
<1>1. top.at \notin LastPoints \cup {"return"}
  BY DEF ExprAts, LastPoints
<1>2. result = "running" /\ Len(lookahead) >= Needed
  BY DEF Runs
<1> QED
  BY <1>1, <1>2, TokenIsThere

LEMMA IndentedStep ==
    ASSUME IInv, Indented
    PROVE  IInv'
<1>1. /\ TypeOK /\ Running /\ Runs /\ top.at = "expression" /\ Taken.type = "BeginBlock"
      /\ Take
      /\ indent_rules' = Append(indent_rules, "NegateDeindent")
      /\ frames' = Reach(frames, "prefix")
      /\ UNCHANGED lexer /\ value' = value /\ result' = result
  BY DEF IInv, Indented, Runs, PushRule
<1>2. result = "running" /\ lookahead # <<>>
  BY <1>1, AtExpression DEF ExprAts
<1>3. /\ indent_rules \in Seq({"NegateDeindent"}) /\ Len(indent_rules) \in Nat
      /\ value \in Expression
      /\ value.variant = "BinaryOp" => value.op \in BinaryOperators
      /\ Blocks(frames) \in Nat
  BY <1>1, RunningFacts
<1> DEFINE nt == frames'[Len(frames')]
<1>4. /\ frames' \in Seq(Frame)
      /\ Linked(frames')
      /\ nt.at = "prefix"
      /\ Blocks(frames') = Blocks(frames)
  BY <1>1, ExpressionMoves DEF ExprAts
<1>5. /\ indent_rules' \in Seq({"NegateDeindent"})
      /\ Len(indent_rules') = Len(indent_rules) + 1
  BY <1>1, <1>3, AppendItem
<1> HIDE DEF nt
<1>6. ValueFits(value', nt, lookahead')
  BY <1>1, <1>3, <1>4, PlainValueFits DEF Operators
<1>7. Len(indent_rules') + Blocks(frames')
               = Len(indent_rules) + Blocks(frames)
                     + (IF Taken.type = "BeginBlock" THEN 1 ELSE 0)
                     - (IF Taken.type = "EndBlock" THEN 1 ELSE 0)
  BY <1>1, <1>3, <1>4, <1>5
<1> QED
  BY <1>1, <1>2, <1>3, <1>4, <1>5, <1>6, <1>7, TakeStep DEF nt

LEMMA PrefixStep ==
    ASSUME IInv, Prefix
    PROVE  IInv'
<1>1. /\ TypeOK /\ Running /\ Runs /\ top.at \in ExprAts
      /\ Take
      /\ UNCHANGED lexer /\ indent_rules' = indent_rules
  BY DEF IInv, Prefix, LiteralError, Runs, ExprAts
<1>2. result = "running" /\ lookahead # <<>> /\ BlockLevel \in Nat
  BY <1>1, AtExpression
<1>3. /\ indent_rules \in Seq({"NegateDeindent"}) /\ Len(indent_rules) \in Nat
      /\ value \in Expression
      /\ value.variant = "BinaryOp" => value.op \in BinaryOperators
      /\ Blocks(frames) \in Nat
  BY <1>1, RunningFacts
<1> DEFINE ms == Reach(frames, "infix")
           mt == ms[Len(ms)]
           nt == frames'[Len(frames')]
<1>4. /\ ms \in Seq(Frame)
      /\ Linked(ms)
      /\ mt.at = "infix"
      /\ Blocks(ms) = Blocks(frames)
  BY <1>1, ExpressionMoves
<1> HIDE DEF ms, mt, nt
<1>5. CASE Taken.type \in {"Ident", "Literal"} /\ result' = result
  <2> DEFINE variant == IF Taken.type = "Ident" THEN "VariableRef" ELSE "Literal"
  <2>1. frames' = ms /\ value' = Value(variant) /\ result' = result
    BY <1>2, <1>5 DEF Prefix, LiteralError, Error, ms
  <2>2. variant \in Variants \ {"BinaryOp", "Assignment"}
    BY DEF Variants
  <2> HIDE DEF variant
  <2>3. nt.at = "infix"
    BY <1>4, <2>1 DEF mt, nt
  <2>4. value' \in Expression /\ ValueFits(value', nt, lookahead')
    BY <2>1, <2>2, <2>3, PlainValues, PlainValueFits DEF Operators
  <2>5. Len(indent_rules') + Blocks(frames')
               = Len(indent_rules) + Blocks(frames)
                     + (IF Taken.type = "BeginBlock" THEN 1 ELSE 0)
                     - (IF Taken.type = "EndBlock" THEN 1 ELSE 0)
    BY <1>1, <1>3, <1>4, <1>5, <2>1
  <2> QED
    BY <1>1, <1>2, <1>3, <1>4, <2>1, <2>4, <2>5, TakeStep DEF nt
<1>6. CASE Taken.type \in {"If", "Minus", "Plus", "LeftParen"}
  <2> DEFINE to == StartsPrefix(Taken.type)
             k == New(to, Prec.Min)
  <2>1. frames' = Reach(Append(ms, k), to) /\ value' = value /\ result' = result
    BY <1>6 DEF Prefix, LiteralError, ms, Call
  <2>2. to \in {"ifx_cond", "unary", "parens"}
    BY <1>6 DEF StartsPrefix
  <2> HIDE DEF to
  <2>3. /\ to \in Points /\ to \in ExpressionPoints
        /\ to # "block" /\ to # "done" /\ to \in InfixCalls
    BY <2>2 DEF Points, ExpressionPoints, InfixCalls
  <2>4. k \in Frame /\ k.at = to
    BY <2>3, NewFrame, PrecedencesAre DEF Prec
  <2> HIDE DEF k
  <2>5. Calls(ms[Len(ms)], k)
    BY <1>4, <2>2, <2>3, <2>4 DEF Calls, Operators, mt
  <2>6. /\ frames' \in Seq(Frame)
        /\ Linked(frames')
        /\ nt = IF to \in ExpressionPoints THEN New("expression", PrecedenceAt(to))
                                           ELSE Moved(k, to)
        /\ Blocks(frames') = Blocks(ms) + (IF to = "block" THEN 1 ELSE 0)
    BY <1>4, <2>1, <2>3, <2>4, <2>5, CallStack DEF nt
  <2>7. nt.at = "expression"
    BY <2>3, <2>6 DEF New
  <2>8. ValueFits(value', nt, lookahead')
    BY <1>3, <2>1, <2>7, PlainValueFits DEF Operators
  <2>9. Len(indent_rules') + Blocks(frames')
               = Len(indent_rules) + Blocks(frames)
                     + (IF Taken.type = "BeginBlock" THEN 1 ELSE 0)
                     - (IF Taken.type = "EndBlock" THEN 1 ELSE 0)
    BY <1>1, <1>3, <1>4, <1>6, <2>3, <2>6
  <2> QED
    BY <1>1, <1>2, <1>3, <2>1, <2>6, <2>8, <2>9, TakeStep DEF nt
<1>7. CASE /\ Taken.type \notin {"If", "Minus", "Plus", "LeftParen"}
           /\ Taken.type \in {"Ident", "Literal"} => result' # result
  <2>1. result' \in ParseErrors /\ UNCHANGED <<frames, value>>
    BY <1>7 DEF Prefix, LiteralError, Error, ParseErrors
  <2> QED
    BY <1>1, <1>2, <2>1, ErrorStep
<1> QED
  BY <1>5, <1>6, <1>7

(* The loop has taken an operator that binds tighter than the call asks for. *)
LEMMA InfixTakes ==
    ASSUME IInv, NEW types, Infix(types)
    PROVE  /\ TypeOK /\ Running /\ result = "running"
           /\ top.at = "infix"
           /\ lookahead # <<>> /\ Take
           /\ BlockLevel \in Nat
           /\ Taken.type = Peek /\ Taken.type \in types /\ Taken.type \in TokenTypes
           /\ top.prec < ForToken(Taken.type)
           /\ UNCHANGED lexer /\ indent_rules' = indent_rules
<1>1. /\ TypeOK /\ Running /\ Runs /\ top.at = "infix" /\ Binds
      /\ Taken.type \in types /\ Take
      /\ UNCHANGED lexer /\ indent_rules' = indent_rules
  BY DEF IInv, Infix, Runs
<1>2. top.at \in ExprAts /\ top.at \notin QueuePoints
  BY <1>1 DEF ExprAts, QueuePoints
<1>3. /\ result = "running" /\ lookahead # <<>>
      /\ Taken = lookahead[Len(lookahead)]
      /\ Taken.type \in TokenTypes /\ BlockLevel \in Nat
  BY <1>1, <1>2, AtExpression
<1>4. Taken.type = Peek
  BY <1>1, <1>2, <1>3, TakenIsPeek DEF Running, TypeOK, Peek
<1> QED
  BY <1>1, <1>3, <1>4 DEF Binds

(* The operator calls the function k, which reaches the point to.            *)
LEMMA InfixCallsStep ==
    ASSUME IInv, NEW types, Infix(types),
           Taken.type \notin {"BeginBlock", "EndBlock"},
           NEW k \in Frame, NEW to \in Points, k.at = to,
           to # "done", to # "block", to \in {"args"} \cup ExpressionPoints,
           Calls(top, k),
           frames' = Reach(Append(frames, k), to), value' = NoValue, result' = result
    PROVE  IInv'
<1>1. /\ TypeOK /\ Running /\ result = "running"
      /\ lookahead # <<>> /\ Take
      /\ BlockLevel \in Nat
      /\ UNCHANGED lexer /\ indent_rules' = indent_rules
  BY InfixTakes
<1>2. /\ frames \in Seq(Frame) /\ Linked(frames)
      /\ top = frames[Len(frames)]
      /\ indent_rules \in Seq({"NegateDeindent"}) /\ Len(indent_rules) \in Nat
      /\ Blocks(frames) \in Nat
  BY <1>1, RunningFacts
<1> DEFINE nt == frames'[Len(frames')]
<1>3. /\ frames' \in Seq(Frame)
      /\ Linked(frames')
      /\ nt = IF to \in ExpressionPoints THEN New("expression", PrecedenceAt(to))
                                         ELSE Moved(k, to)
      /\ Blocks(frames') = Blocks(frames) + (IF to = "block" THEN 1 ELSE 0)
  BY <1>1, <1>2, CallStack
<1> HIDE DEF nt
<1>4. nt.at \in {"expression", "args"}
  <2>1. CASE to \in ExpressionPoints
    BY <1>3, <2>1 DEF New
  <2>2. CASE to \notin ExpressionPoints
    BY <1>1, <1>3, <2>2, MovedFrame
  <2> QED
    BY <2>1, <2>2
<1>5. value' \in Expression /\ ValueFits(value', nt, lookahead')
  <2>1. nt.at \notin Operators
    BY <1>4 DEF Operators
  <2> QED
    BY <2>1, NoValueIs, NoValueFits
<1>6. Len(indent_rules') + Blocks(frames')
               = Len(indent_rules) + Blocks(frames)
                     + (IF Taken.type = "BeginBlock" THEN 1 ELSE 0)
                     - (IF Taken.type = "EndBlock" THEN 1 ELSE 0)
  BY <1>1, <1>2, <1>3
<1> QED
  BY <1>1, <1>2, <1>3, <1>5, <1>6, TakeStep DEF nt

LEMMA InfixOfIdentifierStep ==
    ASSUME IInv, InfixOfIdentifier
    PROVE  IInv'
<1> DEFINE types == AssignOperators \cup {"Equals", "LeftParen"}
           at == StartsInfix(Taken.type)
           k == [New(at, Prec.Min) EXCEPT !.op = IF at = "assign_op" THEN Taken.type ELSE "none"]
<1>1. Infix(types)
  BY DEF InfixOfIdentifier
<1>2. /\ TypeOK /\ Running /\ top.at = "infix"
      /\ lookahead # <<>> /\ Take
      /\ Taken.type \in types
      /\ top.prec < ForToken(Taken.type)
      /\ UNCHANGED lexer /\ indent_rules' = indent_rules
  BY <1>1, InfixTakes
<1>3. CASE value.variant # "VariableRef"
  <2>1. result' \in ParseErrors /\ UNCHANGED <<frames, value>>
    BY <1>3 DEF InfixOfIdentifier, Error, ParseErrors
  <2> QED
    BY <1>2, <2>1, ErrorStep
<1>4. CASE value.variant = "VariableRef"
  <2>1. frames' = Reach(Append(frames, k), at) /\ value' = NoValue /\ result' = result
    BY <1>4 DEF InfixOfIdentifier
  <2>2. Taken.type \notin {"BeginBlock", "EndBlock"}
    BY <1>2 DEF AssignOperators
  <2>3. /\ at \in {"assign", "args", "assign_op"}
        /\ at = "assign" => Taken.type = "Equals"
        /\ at = "assign_op" => Taken.type \in AssignOperators
    BY <1>2 DEF StartsInfix
  <2> HIDE DEF at, types
  <2>4. at \in Points
    BY <2>3, RowPointsAre DEF Points, RowPointNames, ExpressionPoints
  <2>5. New(at, Prec.Min) \in Frame /\ New(at, Prec.Min).at = at
    BY <2>4, NewFrame, PrecedencesAre DEF Prec
  <2>6. (IF at = "assign_op" THEN Taken.type ELSE "none")
            \in BinaryOperators \cup AssignOperators \cup {"none"}
    BY <2>3
  <2>7. k \in Frame /\ k.at = at /\ (at = "assign_op" => k.op = Taken.type)
    BY <2>5, <2>6 DEF Frame
  <2> HIDE DEF k
  <2>8. at = "assign" => top.prec < Prec.Assign
    BY <1>2, <2>3 DEF ForToken, AssignOperators, BinaryOperators
  <2>9. Calls(top, k)
    BY <1>2, <2>3, <2>7, <2>8 DEF Calls, Operators, InfixCalls
  <2>10. at # "done" /\ at # "block" /\ at \in {"args"} \cup ExpressionPoints
    BY <2>3 DEF ExpressionPoints
  <2> QED
    BY <1>1, <2>1, <2>2, <2>4, <2>7, <2>9, <2>10, InfixCallsStep
<1> QED
  BY <1>3, <1>4

LEMMA InfixBinaryOpStep ==
    ASSUME IInv, InfixBinaryOp
    PROVE  IInv'
<1> DEFINE binop == [New("binop", Prec.Min) EXCEPT !.left = value, !.op = Taken.type]
           expr == New("expression", OperandPrecedence(Taken.type))
           op == Taken.type
           ms == Append(frames, binop)
           ns == Append(ms, expr)
<1>1. /\ TypeOK /\ Running /\ result = "running" /\ top.at = "infix"
      /\ lookahead # <<>> /\ Take
      /\ op = Peek /\ op \in BinaryOperators
      /\ top.prec < ForToken(op)
      /\ UNCHANGED lexer /\ indent_rules' = indent_rules
  BY InfixTakes DEF InfixBinaryOp
<1>2. frames' = frames \o <<binop, expr>> /\ value' = NoValue /\ result' = result
  BY DEF InfixBinaryOp
<1>3. /\ frames \in Seq(Frame) /\ Linked(frames)
      /\ top = frames[Len(frames)] /\ top \in Frame
      /\ indent_rules \in Seq({"NegateDeindent"}) /\ Len(indent_rules) \in Nat
      /\ value \in Expression
      /\ value.variant = "BinaryOp" => value.op \in BinaryOperators
      /\ Blocks(frames) \in Nat
  BY <1>1, RunningFacts
<1>4. ForToken(op) \in 3..7 /\ ForToken(op) \in Precedences
  BY <1>1, PrecedenceOfTokens, PrecedencesAre
<1>5. expr \in Frame /\ expr.at = "expression" /\ expr.prec = ForToken(op)
  <2>1. "expression" \in Points
    BY DEF Points
  <2> QED
    BY <1>4, <2>1, NewFrame DEF OperandPrecedence
<1>6. binop \in Frame /\ binop.at = "binop" /\ binop.op = op /\ binop.left = value
  <2>1. "binop" \in Points
    BY DEF Points
  <2>2. New("binop", Prec.Min) \in Frame /\ New("binop", Prec.Min).at = "binop"
    BY <2>1, NewFrame, PrecedencesAre DEF Prec
  <2> QED
    BY <1>1, <1>3, <2>2 DEF Frame
<1> HIDE DEF op
<1>7. LeftBinds(binop)
  <2>1. ValueFits(value, top, lookahead)
    BY <1>1 DEF Running
  <2>2. value.variant # "Assignment"
    <3>1. SUFFICES ASSUME value.variant = "Assignment" PROVE FALSE
      OBVIOUS
    <3>2. ForToken(Peek) <= Prec.Assign
      BY <1>1, <2>1, <3>1 DEF ValueFits, NextBinds, Peek
    <3> QED
      BY <1>1, <1>4, <3>2 DEF Prec
  <2>3. Bare(value, "BinaryOp") => /\ value.op \in BinaryOperators
                                   /\ ForToken(op) <= ForToken(value.op)
    BY <1>1, <1>3, <2>1 DEF ValueFits, NextBinds, Peek, Bare
  <2>4. Bare(value, "BinaryOp") => ForToken(value.op) >= ForToken(op)
    BY <1>4, <2>3, PrecedenceOfTokens
  <2> HIDE DEF binop
  <2> QED
    BY <1>6, <2>2, <2>3, <2>4 DEF LeftBinds, HasValue
<1> HIDE DEF binop, expr
<1>8. Calls(top, binop)
  BY <1>1, <1>6, <1>7 DEF Calls, InfixCalls, Operators
<1>9. /\ ms \in Seq(Frame)
      /\ Linked(ms)
      /\ ms[Len(ms)] = binop
  BY <1>3, <1>6, <1>8, LinkedAppend
<1>10. Blocks(ms) = Blocks(frames)
  BY <1>3, <1>6, BlocksAppend
<1>11. Calls(binop, expr)
  BY <1>5, <1>6 DEF Calls, Operators, ExprAts, Operand
<1>12. ns = frames \o <<binop, expr>>
  <2>1. <<binop, expr>> \in Seq(Frame)
    BY <1>5, <1>6
  <2> QED
    BY <1>3, <1>5, <1>6, <2>1
<1> HIDE DEF ms
<1>13. /\ ns \in Seq(Frame)
       /\ Linked(ns)
       /\ ns[Len(ns)] = expr
       /\ Blocks(ns) = Blocks(frames)
  BY <1>5, <1>9, <1>10, <1>11, LinkedAppend, BlocksAppend
<1> HIDE DEF ns
<1>14. frames' = ns
  BY <1>2, <1>12
<1>15. value' \in Expression /\ ValueFits(value', expr, lookahead')
  <2>1. expr.at \notin Operators
    BY <1>5 DEF Operators
  <2> QED
    BY <1>2, <2>1, NoValueIs, NoValueFits
<1>16. Taken.type \notin {"BeginBlock", "EndBlock"}
  BY <1>1 DEF BinaryOperators, op
<1>17. Len(indent_rules') + Blocks(frames')
               = Len(indent_rules) + Blocks(frames)
                     + (IF Taken.type = "BeginBlock" THEN 1 ELSE 0)
                     - (IF Taken.type = "EndBlock" THEN 1 ELSE 0)
  BY <1>1, <1>3, <1>13, <1>14, <1>16
<1> QED
  BY <1>1, <1>2, <1>3, <1>13, <1>14, <1>15, <1>17, TakeStep

LEMMA InfixBreakStep ==
    ASSUME IInv, InfixBreak
    PROVE  IInv'
<1> DEFINE types == TokenTypes \ (BinaryOperators \cup AssignOperators
                                     \cup {"Equals", "LeftParen"})
           ns == Front(frames)
           nt == ns[Len(ns)]
<1>1. /\ TypeOK /\ Running /\ result = "running" /\ top.at = "infix"
      /\ lookahead # <<>> /\ Take
      /\ Taken.type \in types
      /\ top.prec < ForToken(Taken.type)
      /\ UNCHANGED lexer /\ indent_rules' = indent_rules
  BY InfixTakes DEF InfixBreak
<1>2. frames' = ns /\ value' = value /\ result' = result
  BY DEF InfixBreak
<1>3. /\ frames \in Seq(Frame) /\ Linked(frames)
      /\ top = frames[Len(frames)] /\ top \in Frame
      /\ indent_rules \in Seq({"NegateDeindent"}) /\ Len(indent_rules) \in Nat
      /\ value \in Expression
      /\ value.variant = "BinaryOp" => value.op \in BinaryOperators
      /\ Blocks(frames) \in Nat
  BY <1>1, RunningFacts
<1>4. ForToken(Taken.type) \in {0, 1}
  BY <1>1, PrecedenceOfTokens
<1>5. top.prec = 0
  BY <1>1, <1>3, <1>4, FrameFields
<1>6. Taken.type \notin {"BeginBlock", "EndBlock"}
  <2>1. ForToken(Taken.type) # 0
    BY <1>1, <1>4, <1>5
  <2>2. ForToken("BeginBlock") = 0 /\ ForToken("EndBlock") = 0
    BY DEF ForToken, Prec, AssignOperators
  <2> QED
    BY <2>1, <2>2
<1>7. /\ Len(frames) >= 2
      /\ frames[Len(frames) - 1].at # "infix"
  BY <1>1, ExpressionCaller DEF ExprAts
<1>8. /\ ns \in Seq(Frame)
      /\ Linked(ns)
      /\ nt = frames[Len(frames) - 1]
      /\ nt \in Frame
      /\ Calls(nt, top)
      /\ Blocks(ns) = Blocks(frames) - (IF top.at = "block" THEN 1 ELSE 0)
  BY <1>3, <1>7, LinkedFront, ReturnStack
<1>9. nt.at = "binop" => nt.op \in BinaryOperators
  <2>1. Linked(ns) /\ ns \in Seq(Frame)
    BY <1>8
  <2> HIDE DEF ns
  <2>2. ASSUME nt.at = "binop" PROVE Len(ns) >= 2 /\ Calls(ns[Len(ns) - 1], nt)
    BY <2>1, <2>2, LinkedTop, LinkedFront
  <2> QED
    BY <2>2 DEF Calls
<1> HIDE DEF ns, nt
<1>10. nt.at \notin Operators
  <2>1. SUFFICES ASSUME nt.at \in Operators PROVE FALSE
    OBVIOUS
  <2>2. Operand(nt) >= 2
    BY <1>8, <1>9, <2>1, OperandType
  <2>3. top.prec = Operand(nt)
    BY <1>8, <2>1 DEF Calls
  <2> QED
    BY <1>5, <2>2, <2>3
<1>11. ValueFits(value', nt, lookahead')
  BY <1>2, <1>3, <1>7, <1>8, <1>10, PlainValueFits
<1>12. Len(indent_rules') + Blocks(frames')
               = Len(indent_rules) + Blocks(frames)
                     + (IF Taken.type = "BeginBlock" THEN 1 ELSE 0)
                     - (IF Taken.type = "EndBlock" THEN 1 ELSE 0)
  BY <1>1, <1>2, <1>3, <1>6, <1>8
<1> QED
  BY <1>1, <1>2, <1>3, <1>8, <1>11, <1>12, TakeStep DEF nt

LEMMA InfixDoneStep ==
    ASSUME IInv, InfixDone
    PROVE  IInv'
<1> DEFINE nt == frames[Len(frames) - 1]
<1>1. /\ TypeOK /\ Running /\ Runs /\ top.at = "infix" /\ ~Binds
      /\ frames' = Front(frames)
      /\ UNCHANGED <<lexer, lookahead, indent_rules, result>> /\ value' = value
  BY DEF IInv, InfixDone, Runs
<1>2. result = "running" /\ lookahead # <<>> /\ Peek \in TokenTypes
  BY <1>1, AtExpression DEF ExprAts
<1>3. /\ top \in Frame /\ value \in Expression
      /\ value.variant = "BinaryOp" => value.op \in BinaryOperators
  BY <1>1, RunningFacts
<1>4. nt.at # "infix"
  BY <1>1, ExpressionCaller DEF ExprAts
<1>5. QueueFits(lookahead, nt.at)
  BY <1>1, KeptQueue DEF QueuePoints
<1>6. ForToken(Peek) <= top.prec
  <2>1. ForToken(Peek) \in Nat /\ top.prec \in Nat
    BY <1>2, <1>3, PrecedenceOfTokens, FrameFields
  <2> QED
    BY <1>1, <2>1 DEF Binds
<1>7. ValueFits(value, top, lookahead)
  BY <1>1 DEF Running
<1> HIDE DEF nt
<1>8. ASSUME Calls(nt, top)
      PROVE  ValueFits(value', nt, lookahead)
  <2>1. CASE nt.at \notin Operators
    BY <1>1, <1>3, <1>4, <2>1, PlainValueFits
  <2>2. CASE nt.at \in Operators
    <3>1. top.prec = Operand(nt)
      BY <1>8, <2>2 DEF Calls
    <3>2. NextBinds(Operand(nt), lookahead)
      BY <1>2, <1>6, <3>1 DEF NextBinds, Peek
    <3>3. /\ value.variant = "Assignment" => Operand(nt) < Prec.Assign
          /\ Bare(value, "BinaryOp") => Operand(nt) < ForToken(value.op)
      BY <1>1, <1>7, <3>1 DEF ValueFits
    <3> QED
      BY <1>1, <1>3, <1>4, <2>2, <3>2, <3>3 DEF ValueFits
  <2> QED
    BY <2>1, <2>2
<1>9. top.at \notin {"unit", "block"} /\ value' \in Expression
  BY <1>1, <1>3
<1> QED
  BY <1>1, <1>2, <1>5, <1>8, <1>9, KeepReturns DEF nt

-----------------------------------------------------------------------------
(* The lexer hands out a token. *)

LEMMA HandedOut ==
    ASSUME TypeOK, NEW type \in Offered, NEW newline \in Newlines(type),
           NEW token, token = [type |-> type, newline |-> newline,
                               level |-> CASE type = "BeginBlock" -> depth + 1
                                           [] OTHER               -> depth],
           HandOut(token)
    PROVE  /\ token \in Token /\ token.type = type
           /\ source' = source /\ delivered' \in Nat
           /\ depth' \in Nat /\ last' \in Lexer!Classes
           /\ depth' = depth + (IF type = "BeginBlock" THEN 1 ELSE 0)
                             - (IF type = "EndBlock" THEN 1 ELSE 0)
           /\ last' = "EOF" <=> type = "EOF"
           /\ type = "EOF" => depth' = 0
<1>1. /\ source \in Sources /\ delivered \in Nat /\ depth \in Nat
  BY DEF TypeOK
<1>2. /\ source.start \in Seq(TextTypes \cup {"BeginBlock"})
      /\ source.kinds \subseteq TextTypes
      /\ source.size \in Nat
  BY <1>1, SourcesAssumption
<1>3. Len(source.start) \in Nat /\ Limit \in Nat
  BY <1>2, LenProperties DEF Limit
<1>4. type \in TokenTypes
  <2>1. CASE delivered < Len(source.start)
    <3>1. delivered + 1 \in 1..Len(source.start)
      BY <1>1, <1>3, <2>1
    <3>2. source.start[delivered + 1] \in TextTypes \cup {"BeginBlock"}
      BY <1>2, <3>1, ElementOfSeq
    <3> QED
      BY <2>1, <3>2 DEF Offered, TokenTypes
  <2>2. CASE ~(delivered < Len(source.start))
    BY <1>2, <2>2 DEF Offered, TokenTypes
  <2> QED
    BY <2>1, <2>2
<1>5. newline \in BOOLEAN
  BY DEF Newlines
<1>6. token \in Token /\ token.type = type
  BY <1>1, <1>4, <1>5 DEF Token
<1>7. source' = source /\ delivered' \in Nat
  BY <1>1, <1>3 DEF HandOut
<1>8. CASE type = "BeginBlock"
  <2>1. last' = "BeginBlock" /\ depth' = depth + 1
    BY <1>6, <1>8 DEF HandOut, Lexer!BeginBlock
  <2> QED
    BY <1>1, <1>6, <1>7, <1>8, <2>1 DEF Lexer!Classes
<1>9. CASE type = "EndBlock"
  <2>1. last' = "EndBlock" /\ depth' = depth - 1 /\ depth > 0
    BY <1>6, <1>9 DEF HandOut, Lexer!EndBlock
  <2> QED
    BY <1>1, <1>6, <1>7, <1>9, <2>1 DEF Lexer!Classes
<1>10. CASE type = "EOF"
  <2>1. last' = "EOF" /\ depth' = depth /\ depth = 0
    BY <1>6, <1>10 DEF HandOut, Lexer!EndOfFile
  <2> QED
    BY <1>1, <1>6, <1>7, <1>10, <2>1 DEF Lexer!Classes
<1>11. CASE type \notin {"BeginBlock", "EndBlock", "EOF"}
  <2>1. last' = "Text" /\ depth' = depth
    BY <1>6, <1>11 DEF HandOut, Lexer!Text
  <2> QED
    BY <1>1, <1>6, <1>7, <1>11, <2>1 DEF Lexer!Classes
<1> QED
  BY <1>8, <1>9, <1>10, <1>11

(* The parser asks for a token when the queue holds nothing but BeginBlocks, *)
(* and nothing at all unless it parses a return.                             *)
LEMMA AsksForToken ==
    ASSUME TypeOK, Running, Len(lookahead) < Needed
    PROVE  /\ \A i \in 1..Len(lookahead) : lookahead[i].type = "BeginBlock"
           /\ top.at # "return" => Len(lookahead) = 0
<1> DEFINE n == Len(lookahead)
           B == {i \in DOMAIN lookahead : lookahead[i].type = "BeginBlock"}
<1>1. n \in Nat /\ DOMAIN lookahead = 1..n
  BY LenProperties DEF TypeOK
<1>2. CASE top.at = "return"
  <2>1. n < 1 + Cardinality(B)
    BY <1>2 DEF Needed, LastPoints
  <2>2. IsFiniteSet(1..n) /\ Cardinality(1..n) = n
    <3> HIDE DEF n
    <3>1. 1 \in Int /\ n \in Int
      BY <1>1
    <3>2. IsFiniteSet(1..n) /\ Cardinality(1..n) = IF 1 > n THEN 0 ELSE n - 1 + 1
      BY <3>1, FS_Interval
    <3> QED
      BY <1>1, <3>2
  <2>3. B \in SUBSET (1..n)
    BY <1>1
  <2> HIDE DEF B, n
  <2>4. Cardinality(B) <= n /\ IsFiniteSet(B) /\ (Cardinality(1..n) = Cardinality(B) => 1..n = B)
    BY <2>2, <2>3, FS_Subset
  <2>5. Cardinality(B) \in Nat
    BY <2>4, FS_CardinalityType
  <2>6. Cardinality(B) = n
    BY <1>1, <2>1, <2>4, <2>5
  <2>7. 1..n = B
    BY <2>2, <2>4, <2>6
  <2> QED
    BY <1>2, <2>7 DEF B, n
<1>3. CASE top.at # "return"
  <2>1. Needed \in {0, 1}
    BY <1>3 DEF Needed
  <2>2. n = 0
    BY <1>1, <2>1
  <2> QED
    BY <2>2
<1> QED
  BY <1>2, <1>3

LEMMA LookAheadStep ==
    ASSUME IInv, LookAhead
    PROVE  IInv'
<1>1. /\ TypeOK /\ Running /\ result = "running" /\ Len(lookahead) < Needed
      /\ frames' = frames /\ value' = value /\ result' = "running"
  BY DEF IInv, LookAhead
<1> DEFINE T(type, newline) == [type |-> type, newline |-> newline,
                                level |-> CASE type = "BeginBlock" -> depth + 1
                                            [] OTHER               -> depth]
           Reads(type, newline) ==
               /\ HandOut(T(type, newline))
               /\ IF Negates(type)
                  THEN /\ indent_rules' = PopRule
                       /\ UNCHANGED lookahead
                  ELSE /\ lookahead' = Append(lookahead, T(type, newline))
                       /\ UNCHANGED indent_rules
<1>2. \E type \in Offered : \E newline \in Newlines(type) : Reads(type, newline)
  BY DEF LookAhead
<1> HIDE DEF Reads
<1>3. PICK type \in Offered : \E newline \in Newlines(type) : Reads(type, newline)
  BY <1>2
<1>4. PICK newline \in Newlines(type) : Reads(type, newline)
  BY <1>3
<1>5. /\ HandOut(T(type, newline))
      /\ IF Negates(type)
         THEN /\ indent_rules' = PopRule
              /\ UNCHANGED lookahead
         ELSE /\ lookahead' = Append(lookahead, T(type, newline))
              /\ UNCHANGED indent_rules
  BY <1>4 DEF Reads
<1> DEFINE token == T(type, newline)
<1>6. /\ token \in Token /\ token.type = type
      /\ source' = source /\ delivered' \in Nat
      /\ depth' \in Nat /\ last' \in Lexer!Classes
      /\ depth' = depth + (IF type = "BeginBlock" THEN 1 ELSE 0)
                        - (IF type = "EndBlock" THEN 1 ELSE 0)
      /\ last' = "EOF" <=> type = "EOF"
      /\ type = "EOF" => depth' = 0
  BY <1>1, <1>5, HandedOut
<1>7. \/ /\ Negates(type) /\ indent_rules' = PopRule /\ lookahead' = lookahead
      \/ /\ lookahead' = Append(lookahead, token) /\ indent_rules' = indent_rules
  BY <1>5
<1> HIDE DEF T, token
<1>8. /\ lookahead \in Seq(Token) /\ Len(lookahead) \in Nat
      /\ indent_rules \in Seq({"NegateDeindent"}) /\ Len(indent_rules) \in Nat
      /\ depth \in Nat
      /\ Blocks(frames) \in Nat
      /\ \A t : Count(lookahead, t) \in Nat
  BY <1>1, RunningFacts
<1>9. /\ \A i \in 1..Len(lookahead) : lookahead[i].type = "BeginBlock"
      /\ top.at # "return" => Len(lookahead) = 0
  BY <1>1, AsksForToken
<1>10. /\ ValueFits(value, top, lookahead)
      /\ depth + Count(lookahead, "EndBlock")
            = Len(indent_rules) + Blocks(frames) + Count(lookahead, "BeginBlock")
  BY <1>1 DEF Running, Balanced
<1>11. CASE Negates(type) /\ indent_rules' = PopRule /\ lookahead' = lookahead
  <2>1. indent_rules # <<>> /\ type = "EndBlock" /\ indent_rules' = Front(indent_rules)
    BY <1>11 DEF Negates, PopRule
  <2>2. /\ indent_rules' \in Seq({"NegateDeindent"})
        /\ Len(indent_rules') = Len(indent_rules) - 1
    BY <1>8, <2>1, FrontItems
  <2>3. TypeOK'
    BY <1>1, <1>6, <1>11, <2>2 DEF TypeOK
  <2>4. EOFInv'
    <3>1. DOMAIN lookahead = 1..Len(lookahead)
      BY <1>8, LenProperties
    <3> QED
      BY <1>6, <1>9, <1>11, <2>1, <3>1 DEF EOFInv
  <2>5. depth' = depth - 1
    BY <1>6, <1>8, <2>1
  <2>6. depth' + Count(lookahead', "EndBlock")
            = Len(indent_rules') + Blocks(frames') + Count(lookahead', "BeginBlock")
    BY <1>1, <1>8, <1>10, <1>11, <2>2, <2>5
  <2>7. Balanced'
    BY <2>6, Zenon DEF Balanced
  <2>8. Running'
    BY <1>1, <1>11, <2>4, <2>7 DEF Running, top
  <2> QED
    BY <1>1, <2>3, <2>8 DEF IInv
<1>12. CASE lookahead' = Append(lookahead, token) /\ indent_rules' = indent_rules
  <2>1. /\ lookahead' \in Seq(Token)
        /\ lookahead' # <<>>
        /\ Len(lookahead') = Len(lookahead) + 1
        /\ \A i \in 1..Len(lookahead) : lookahead'[i] = lookahead[i]
        /\ lookahead'[Len(lookahead) + 1] = token
    BY <1>6, <1>8, <1>12, AppendItem
  <2>2. TypeOK'
    BY <1>1, <1>6, <1>8, <1>12, <2>1 DEF TypeOK
  <2>3. DOMAIN lookahead' = 1..(Len(lookahead) + 1)
    BY <2>1, LenProperties
  <2>4. EOFInv'
    <3>1. ASSUME NEW i \in DOMAIN lookahead', lookahead'[i].type = "EOF"
          PROVE  last' = "EOF"
      <4>1. CASE i = Len(lookahead) + 1
        BY <1>6, <2>1, <3>1, <4>1
      <4>2. CASE i # Len(lookahead) + 1
        <5>1. i \in 1..Len(lookahead)
          BY <1>8, <2>3, <4>2
        <5> QED
          BY <1>9, <2>1, <3>1, <5>1
      <4> QED
        BY <4>1, <4>2
    <3> QED
      BY <1>6, <3>1 DEF EOFInv
  <2>5. QueueFits(lookahead', top.at)
    <3>1. \A i \in 1..(Len(lookahead') - 1) : lookahead'[i].type = "BeginBlock"
      <4>1. Len(lookahead') - 1 = Len(lookahead)
        BY <1>8, <2>1
      <4> QED
        BY <1>9, <2>1, <4>1
    <3>2. Len(lookahead') >= 2 => top.at = "return"
      BY <1>9, <2>1
    <3> QED
      BY <3>1, <3>2 DEF QueueFits, QueuePoints
  <2>6. ASSUME NEW p, NextBinds(p, lookahead)
        PROVE  NextBinds(p, lookahead')
    <3>1. lookahead # <<>> /\ ForToken(lookahead[1].type) <= p
      BY <2>6 DEF NextBinds
    <3>2. Len(lookahead) \in Nat \ {0}
      BY <1>8, <3>1, EmptySeq
    <3>3. lookahead'[1] = lookahead[1]
      BY <2>1, <3>2
    <3> QED
      BY <2>1, <3>1, <3>3 DEF NextBinds
  <2>7. ValueFits(value, top, lookahead')
    BY <1>10, <2>6 DEF ValueFits
  <2>8. \A t : Count(lookahead', t) = IF type = t THEN Count(lookahead, t) + 1
                                                  ELSE Count(lookahead, t)
    BY <1>6, <1>8, <1>12, CountAppend
  <2>9. depth' + Count(lookahead', "EndBlock")
            = Len(indent_rules) + Blocks(frames) + Count(lookahead', "BeginBlock")
    <3> DEFINE r == Len(indent_rules)
               b == Blocks(frames)
               e == Count(lookahead, "EndBlock")
               en == Count(lookahead', "EndBlock")
               g == Count(lookahead, "BeginBlock")
               gn == Count(lookahead', "BeginBlock")
    <3>1. /\ en = IF type = "EndBlock" THEN e + 1 ELSE e
          /\ gn = IF type = "BeginBlock" THEN g + 1 ELSE g
      BY <2>8
    <3>2. r \in Nat /\ b \in Nat /\ e \in Nat /\ g \in Nat
      BY <1>8
    <3>3. depth + e = r + b + g
      BY <1>10
    <3> HIDE DEF r, b, e, en, g, gn
    <3>4. depth' + en = r + b + gn
      <4>1. CASE type = "BeginBlock"
        BY <1>6, <1>8, <3>1, <3>2, <3>3, <4>1
      <4>2. CASE type = "EndBlock"
        BY <1>6, <1>8, <3>1, <3>2, <3>3, <4>2
      <4>3. CASE type \notin {"BeginBlock", "EndBlock"}
        BY <1>6, <1>8, <3>1, <3>2, <3>3, <4>3
      <4> QED
        BY <4>1, <4>2, <4>3
    <3> QED
      BY <3>4 DEF r, b, en, gn
  <2>10. depth' + Count(lookahead', "EndBlock")
            = Len(indent_rules') + Blocks(frames') + Count(lookahead', "BeginBlock")
    BY <1>1, <1>12, <2>9
  <2>11. Balanced'
    BY <2>10, Zenon DEF Balanced
  <2>12. Running'
    <3>1. top' = top
      BY <1>1 DEF top
    <3>2. Linked(frames)
      BY <1>1 DEF Running
    <3> QED
      BY <1>1, <2>4, <2>5, <2>7, <2>11, <3>1, <3>2 DEF Running
  <2> QED
    BY <1>1, <2>2, <2>12 DEF IInv
<1> QED
  BY <1>7, <1>11, <1>12

-----------------------------------------------------------------------------
(* The theorems. *)

LEMMA InitInvariant == Init => IInv
<1> SUFFICES ASSUME Init PROVE IInv
  OBVIOUS
<1> DEFINE unit == New("unit", Prec.Min)
<1>1. unit \in Frame /\ unit.at = "unit"
  <2>1. "unit" \in Points
    BY RowPointsAre DEF Points, RowPointNames
  <2> QED
    BY <2>1, NewFrame, PrecedencesAre DEF Prec
<1>2. /\ source \in Sources /\ delivered = 0 /\ depth = 0 /\ last = "None"
      /\ lookahead = <<>> /\ indent_rules = <<>> /\ frames = <<unit>>
      /\ value = NoValue /\ result = "running"
  BY DEF Init, Lexer!Init
<1> HIDE DEF unit
<1>3. frames \in Seq(Frame) /\ Len(frames) = 1 /\ frames[1] = unit /\ frames # <<>>
  BY <1>1, <1>2
<1>4. TypeOK
  <2>1. lookahead \in Seq(Token) /\ indent_rules \in Seq({"NegateDeindent"})
    BY <1>2, EmptySeq
  <2> QED
    BY <1>2, <1>3, <2>1, NoValueIs DEF TypeOK, Lexer!Classes
<1>5. top = unit
  BY <1>3 DEF top
<1>6. Linked(frames)
  BY <1>1, <1>3 DEF Linked
<1>7. ValueFits(value, top, lookahead)
  BY <1>1, <1>2, <1>5, NoValueFits DEF Operators
<1>8. Len(lookahead) = 0 /\ DOMAIN lookahead = {} /\ Len(indent_rules) = 0
  BY <1>2, EmptySeq
<1>9. QueueFits(lookahead, top.at) /\ EOFInv
  BY <1>2, <1>8 DEF QueueFits, EOFInv
<1>10. Balanced
  <2>1. Blocks(frames) = 0
    <3>1. frames = Append(<<>>, unit) /\ <<>> \in Seq(Frame)
      BY <1>2, <1>1, EmptySeq
    <3>2. Blocks(<<>>) = 0
      BY NoOccurrences DEF Blocks
    <3> QED
      BY <1>1, <3>1, <3>2, BlocksAppend
  <2>2. Count(lookahead, "EndBlock") = 0 /\ Count(lookahead, "BeginBlock") = 0
    BY <1>2, NoOccurrences DEF Count
  <2> QED
    BY <1>2, <1>8, <2>1, <2>2 DEF Balanced
<1> QED
  BY <1>2, <1>4, <1>6, <1>7, <1>9, <1>10 DEF IInv, Running

LEMMA StutterInvariant ==
    ASSUME IInv, UNCHANGED vars
    PROVE  IInv'
<1>1. /\ source' = source /\ delivered' = delivered /\ depth' = depth /\ last' = last
      /\ lookahead' = lookahead /\ indent_rules' = indent_rules /\ frames' = frames
      /\ value' = value /\ result' = result
  BY DEF vars, lexer
<1>2. TypeOK'
  BY <1>1 DEF IInv, TypeOK
<1>3. result = "running" => Running'
  BY <1>1 DEF IInv, Running, EOFInv, Balanced, top
<1>4. result = "ok" => Accepted'
  BY <1>1 DEF IInv, Accepted, Peek
<1> QED
  BY <1>1, <1>2, <1>3, <1>4 DEF IInv

LEMMA NextInvariant == IInv /\ [Next]_vars => IInv'
<1> SUFFICES ASSUME IInv, [Next]_vars PROVE IInv'
  OBVIOUS
<1>1. CASE LookAhead
  BY <1>1, LookAheadStep
<1>2. CASE \/ ParseUnit \/ FnDeclaration \/ Typedef
           \/ Block \/ Statement \/ DoBlock \/ Declaration \/ IfBlock
           \/ IfExpression \/ Parens \/ FnCall
  <2>1. /\ UnitRows \subseteq Rows /\ FnDeclarationRows \subseteq Rows
        /\ TypedefRows \subseteq Rows /\ BlockRows \subseteq Rows
        /\ StatementRows \subseteq Rows /\ DoBlockRows \subseteq Rows
        /\ DeclarationRows \subseteq Rows /\ IfBlockRows \subseteq Rows
        /\ IfExpressionRows \subseteq Rows /\ ParensRows \subseteq Rows
        /\ FnCallRows \subseteq Rows
    BY DEF Rows
  <2>2. \E rows \in SUBSET Rows : Follow(rows)
    BY <1>2, <2>1 DEF ParseUnit, FnDeclaration, Typedef, Block, Statement, DoBlock,
                      Declaration, IfBlock, IfExpression, Parens, FnCall
  <2> QED
    BY <2>2, FollowStep
<1>3. CASE Unexpected \/ ExpectValue \/ Finish \/ ReturnStatement
  BY <1>3, UnexpectedStep, ExpectValueStep, FinishStep, ReturnStatementStep
<1>4. CASE Indented \/ Prefix
  BY <1>4, IndentedStep, PrefixStep
<1>5. CASE InfixBinaryOp \/ InfixOfIdentifier \/ InfixBreak \/ InfixDone
  BY <1>5, InfixBinaryOpStep, InfixOfIdentifierStep, InfixBreakStep, InfixDoneStep
<1>6. CASE Stopped \/ UNCHANGED vars
  BY <1>6, StutterInvariant DEF Stopped
<1> QED
  BY <1>1, <1>2, <1>3, <1>4, <1>5, <1>6 DEF Next

LEMMA Invariant == Spec => []IInv
BY InitInvariant, NextInvariant, PTL DEF Spec

(* The parser stays within its types, whatever the lexer hands out: no point *)
(* is reached that no function has, and every token, frame and expression is *)
(* one that the program can build.                                           *)
THEOREM TypeCorrect == Spec => []TypeOK
<1>1. IInv => TypeOK
  BY DEF IInv
<1> QED
  BY <1>1, Invariant, PTL

LEMMA CountsAre ==
    ASSUME TypeOK
    PROVE  /\ \A type : Cardinality(Queued(type)) = Count(lookahead, type)
           /\ Cardinality(BlockFrames) = Blocks(frames)
<1>1. /\ DOMAIN lookahead = 1..Len(lookahead) /\ DOMAIN frames = 1..Len(frames)
      /\ \A i \in 1..Len(lookahead) : lookahead[i] \in Token
      /\ \A i \in 1..Len(frames) : frames[i] \in Frame
  BY LenProperties, ElementOfSeq DEF TypeOK
<1>2. \A type : Queued(type) = Positions(lookahead, Tokens(type))
  BY <1>1 DEF Queued, Positions, Tokens
<1>3. BlockFrames = Positions(frames, {f \in Frame : f.at = "block"})
  BY <1>1 DEF BlockFrames, Positions
<1> QED
  BY <1>2, <1>3 DEF Count, Blocks, Occurrences

(* The rules and the call stack account for every BeginBlock that has been   *)
(* taken, however deep the source is indented and wherever in a line the     *)
(* indentation is: push_rule and NegateDeindent lose and invent no EndBlock. *)
THEOREM EveryIndentationIsAccounted == Spec => []IndentationAccounted
<1>1. ASSUME IInv PROVE IndentationAccounted
  <2>1. TypeOK
    BY <1>1 DEF IInv
  <2>2. /\ \A type : Cardinality(Queued(type)) = Count(lookahead, type)
        /\ Cardinality(BlockFrames) = Blocks(frames)
    BY <2>1, CountsAre
  <2>3. CASE result = "running"
    BY <1>1, <2>2, <2>3 DEF IInv, Running, Balanced, IndentationAccounted
  <2>4. CASE result = "ok"
    <3>1. depth = 0 /\ indent_rules = <<>> /\ frames = <<>> /\ Len(lookahead) = 1 /\ Peek = "EOF"
      BY <1>1, <2>4 DEF IInv, Accepted
    <3>2. Blocks(frames) = 0 /\ Len(indent_rules) = 0
      BY <3>1, NoOccurrences, EmptySeq DEF Blocks
    <3>3. Count(lookahead, "EndBlock") = 0 /\ Count(lookahead, "BeginBlock") = 0
      BY <2>1, <3>1, CountSingle DEF TypeOK, Peek
    <3> QED
      BY <2>2, <3>1, <3>2, <3>3 DEF IndentationAccounted
  <2> QED
    BY <2>3, <2>4 DEF IndentationAccounted
<1> QED
  BY <1>1, Invariant, PTL

(* A source is accepted only with every block ended by its own EndBlock, no  *)
(* rule left over and no token left in the queue: the arm of block() that    *)
(* ends a block at the end of the file is never taken.                       *)
THEOREM AcceptedSourcesAreRead == Spec => []AcceptedIsRead
<1>1. ASSUME IInv PROVE AcceptedIsRead
  <2>1. result = "ok" => /\ depth = 0 /\ indent_rules = <<>>
                         /\ Len(lookahead) = 1 /\ Peek = "EOF"
    BY <1>1 DEF IInv, Accepted
  <2>2. ASSUME result = "running", top.at = "block", lookahead # <<>>, Peek = "EOF"
        PROVE  FALSE
    <3>1. TypeOK /\ Running
      BY <1>1, <2>2 DEF IInv
    <3>2. Blocks(frames) = 0
      BY <2>2, <3>1, EndOfFileClosesAll
    <3>3. frames \in Seq(Frame) /\ frames # <<>> /\ top = frames[Len(frames)]
      BY <3>1, RunningFacts, LinkedTop
    <3>4. Blocks(Front(frames)) \in Nat /\ Blocks(frames) = Blocks(Front(frames)) + 1
      BY <2>2, <3>3, BlocksFront
    <3> QED
      BY <3>2, <3>4
  <2> QED
    BY <2>1, <2>2 DEF AcceptedIsRead
<1> QED
  BY <1>1, Invariant, PTL

LEMMA TierIsPrecedence == \A op \in BinaryOperators : Tier(op) = ForToken(op) - 2
<1>1. DOMAIN Tiers = 1..5
  BY DEF Tiers
<1>2. ASSUME NEW op \in BinaryOperators, NEW t \in 1..5
      PROVE  op \in Tiers[t] <=> t = ForToken(op) - 2
  <2>1. t \in {1, 2, 3, 4, 5}
    OBVIOUS
  <2> QED
    BY <2>1 DEF Tiers, ForToken, BinaryOperators, AssignOperators, Prec
<1>3. ASSUME NEW op \in BinaryOperators
      PROVE  Tier(op) = ForToken(op) - 2
  <2>1. ForToken(op) - 2 \in 1..5
    BY PrecedenceOfTokens
  <2>2. Tier(op) = CHOOSE t \in 1..5 : op \in Tiers[t]
    BY <1>1 DEF Tier
  <2>3. \E t \in 1..5 : op \in Tiers[t]
    BY <1>2, <2>1
  <2>4. Tier(op) \in 1..5 /\ op \in Tiers[Tier(op)]
    BY <2>2, <2>3
  <2> QED
    BY <1>2, <2>4
<1> QED
  BY <1>3

(* The call of a binary operator has its left operand. *)
LEMMA BinopFrames ==
    ASSUME TypeOK, Running, NEW i \in DOMAIN frames, frames[i].at = "binop"
    PROVE  /\ frames[i].op \in BinaryOperators
           /\ LeftBinds(frames[i])
<1>1. DOMAIN frames = 1..Len(frames) /\ Len(frames) \in Nat
  BY LenProperties DEF TypeOK
<1>2. /\ frames[1].at = "unit"
      /\ \A k \in 2..Len(frames) : Calls(frames[k - 1], frames[k])
  BY DEF Running, Linked
<1>3. i \in 2..Len(frames)
  BY <1>1, <1>2
<1> QED
  BY <1>2, <1>3 DEF Calls

(* Operators bind by tier and to the left, in every expression of every      *)
(* length: what expression() reads with a precedence, and what stops it, fit *)
(* each operator that waits for an operand.                                  *)
THEOREM OperatorsBindByTier == Spec => []OperatorsBind
<1>1. ASSUME IInv PROVE OperatorsBind
  <2>1. SUFFICES ASSUME result = "running"
                 PROVE  /\ \A i \in DOMAIN frames :
                             (frames[i].at = "binop" /\ Bare(frames[i].left, "BinaryOp"))
                                 => Tier(frames[i].left.op) >= Tier(frames[i].op)
                        /\ (top.at = "binop" /\ Bare(value, "BinaryOp"))
                              => Tier(value.op) > Tier(top.op)
                        /\ top.at = "unary" => ~Bare(value, "BinaryOp")
    BY DEF OperatorsBind
  <2>2. TypeOK /\ Running
    BY <1>1, <2>1 DEF IInv
  <2>3. ASSUME NEW i \in DOMAIN frames, frames[i].at = "binop",
               Bare(frames[i].left, "BinaryOp")
        PROVE  Tier(frames[i].left.op) >= Tier(frames[i].op)
    <3>1. /\ frames[i].op \in BinaryOperators
          /\ frames[i].left.op \in BinaryOperators
          /\ ForToken(frames[i].left.op) >= ForToken(frames[i].op)
      BY <2>2, <2>3, BinopFrames DEF LeftBinds
    <3> QED
      BY <3>1, TierIsPrecedence, PrecedenceOfTokens
  <2>4. /\ DOMAIN frames = 1..Len(frames) /\ Len(frames) \in Nat \ {0}
        /\ top = frames[Len(frames)]
    BY <2>2, RunningFacts, LenProperties
  <2>5. /\ ValueFits(value, top, lookahead)
        /\ value.variant = "BinaryOp" => value.op \in BinaryOperators
    BY <2>2 DEF Running, ValueFits
  <2>6. ASSUME top.at = "binop", Bare(value, "BinaryOp")
        PROVE  Tier(value.op) > Tier(top.op)
    <3>1. top.op \in BinaryOperators
      BY <2>2, <2>4, <2>6, BinopFrames
    <3>2. value.op \in BinaryOperators
      BY <2>5, <2>6 DEF Bare
    <3>3. ForToken(top.op) < ForToken(value.op)
      BY <2>5, <2>6 DEF ValueFits, Operators, Operand
    <3> QED
      BY <3>1, <3>2, <3>3, TierIsPrecedence, PrecedenceOfTokens
  <2>7. ASSUME top.at = "unary", Bare(value, "BinaryOp")
        PROVE  FALSE
    <3>1. ForToken(value.op) \in 3..7
      BY <2>5, <2>7, PrecedenceOfTokens DEF Bare
    <3>2. Operand(top) = 8
      BY <2>7, PrecedenceOfPoints DEF Operand
    <3>3. Operand(top) < ForToken(value.op)
      BY <2>5, <2>7 DEF ValueFits, Operators
    <3> QED
      BY <3>1, <3>2, <3>3
  <2> QED
    BY <2>3, <2>6, <2>7
<1> QED
  BY <1>1, Invariant, PTL

(* No assignment becomes an operand of a binary operator: BinOpExprSymbol    *)
(* does not ask for a value, and precedence alone guarantees one.            *)
THEOREM OperandsAreValues == Spec => []OperandsHaveValue
<1>1. ASSUME IInv PROVE OperandsHaveValue
  <2>1. SUFFICES ASSUME result = "running"
                 PROVE  /\ \A i \in DOMAIN frames :
                             frames[i].at = "binop" => HasValue(frames[i].left)
                        /\ top.at = "binop" => HasValue(value)
    BY DEF OperandsHaveValue
  <2>2. TypeOK /\ Running
    BY <1>1, <2>1 DEF IInv
  <2>3. ASSUME NEW i \in DOMAIN frames, frames[i].at = "binop"
        PROVE  HasValue(frames[i].left)
    BY <2>2, <2>3, BinopFrames DEF LeftBinds
  <2>4. ASSUME top.at = "binop"
        PROVE  HasValue(value)
    <3>1. /\ DOMAIN frames = 1..Len(frames) /\ Len(frames) \in Nat \ {0}
          /\ top = frames[Len(frames)]
      BY <2>2, RunningFacts, LenProperties
    <3>2. ForToken(top.op) \in 3..7
      BY <2>2, <2>4, <3>1, BinopFrames, PrecedenceOfTokens
    <3>3. value.variant = "Assignment" => ForToken(top.op) < Prec.Assign
      BY <2>2, <2>4 DEF Running, ValueFits, Operators, Operand
    <3> QED
      BY <3>2, <3>3 DEF HasValue, Prec
  <2> QED
    BY <2>3, <2>4
<1> QED
  BY <1>1, Invariant, PTL

-----------------------------------------------------------------------------
(* Which EndBlock ends which block.                                          *)

(* The points that a call can be at when a queue that holds a BeginBlock has *)
(* been left to it: "return" has looked past the block marks of the lines    *)
(* after it, and the statement that follows is an expression.                *)
StaleAts == {"return", "statement"} \cup ExprAts \cup InfixCalls

(* Such calls only, above the block whose statement they are.                *)
Chain(fs) ==
    \E k \in 1..Len(fs) : /\ fs[k].at = "block"
                          /\ \A i \in (k + 1)..Len(fs) : fs[i].at \in StaleAts

Rank(fs, i) == Cardinality({j \in 1..i : fs[j].at = "block"})

(* A block that began with no rule pending is as deep as its BeginBlock was. *)
Levels(fs) ==
    \A i \in 1..Len(fs) :
        (fs[i].at = "block" /\ fs[i].level > 0) => fs[i].level = Rank(fs, i)

(* The queue holds no more than the next token, read at the depth at hand;   *)
(* an EndBlock is queued only with no rule to skip it.                       *)
Fresh ==
    /\ Len(lookahead) <= 1
    /\ lookahead # <<>> =>
          /\ Peek = "BeginBlock" => lookahead[1].level = depth
          /\ Peek = "EndBlock" => lookahead[1].level = depth + 1 /\ indent_rules = <<>>

(* Or it holds what "return" has looked ahead at, the statements after it    *)
(* take the queue from its end, and no block can begin.                      *)
Stale == lookahead # <<>> /\ Peek = "BeginBlock" /\ Chain(frames)

EndsInv == result = "running" => (Fresh \/ Stale) /\ Levels(frames)

LEMMA RankSame ==
    ASSUME NEW fs, NEW gs, NEW i \in Nat, \A j \in 1..i : fs[j] = gs[j]
    PROVE  Rank(fs, i) = Rank(gs, i)
<1>1. {j \in 1..i : fs[j].at = "block"} = {j \in 1..i : gs[j].at = "block"}
  OBVIOUS
<1> QED
  BY <1>1 DEF Rank

LEMMA RankOfTop ==
    ASSUME NEW fs \in Seq(Frame)
    PROVE  Rank(fs, Len(fs)) = Blocks(fs)
<1>1. DOMAIN fs = 1..Len(fs) /\ \A i \in 1..Len(fs) : fs[i] \in Frame
  BY LenProperties, ElementOfSeq
<1>2. Positions(fs, {f \in Frame : f.at = "block"}) = {j \in 1..Len(fs) : fs[j].at = "block"}
  BY <1>1 DEF Positions
<1> QED
  BY <1>2 DEF Rank, Blocks, Occurrences

LEMMA LevelsAppend ==
    ASSUME NEW fs \in Seq(Frame), NEW g \in Frame, Levels(fs),
           g.at = "block" /\ g.level > 0 => g.level = Blocks(fs) + 1
    PROVE  Levels(Append(fs, g))
<1>1. Len(fs) \in Nat
  BY LenProperties
<1>2. PICK n \in Nat : n = Len(fs)
  BY <1>1
<1>3. PICK a \in Seq(Frame) : a = Append(fs, g)
  BY AppendItem
<1>4. Len(a) = n + 1 /\ (\A i \in 1..n : a[i] = fs[i]) /\ a[n + 1] = g
  BY <1>2, <1>3, AppendItem
<1>5. ASSUME NEW i \in 1..(n + 1), a[i].at = "block", a[i].level > 0
      PROVE  a[i].level = Rank(a, i)
  <2>1. CASE i = n + 1
    <3>1. g.at = "block" /\ g.level > 0
      BY <1>4, <1>5, <2>1
    <3>2. Blocks(a) = Blocks(fs) + 1
      BY <1>3, <3>1, BlocksAppend
    <3>3. Rank(a, Len(a)) = Blocks(a)
      BY RankOfTop
    <3> QED
      BY <1>4, <2>1, <3>1, <3>2, <3>3
  <2>2. CASE i # n + 1
    <3>1. i \in 1..n /\ i \in Nat
      BY <1>2, <2>2
    <3>2. fs[i].level = Rank(fs, i)
      BY <1>2, <1>4, <1>5, <3>1 DEF Levels
    <3>3. \A j \in 1..i : a[j] = fs[j]
      BY <1>4, <3>1
    <3>4. Rank(a, i) = Rank(fs, i)
      BY <3>1, <3>3, RankSame
    <3> QED
      BY <1>4, <3>1, <3>2, <3>4
  <2> QED
    BY <2>1, <2>2
<1>6. Levels(a)
  BY <1>4, <1>5 DEF Levels
<1> QED
  BY <1>3, <1>6

LEMMA LevelsFront ==
    ASSUME NEW fs \in Seq(Frame), fs # <<>>, Levels(fs)
    PROVE  Levels(Front(fs))
<1>1. PICK n \in Nat \ {0} : n = Len(fs)
  BY FrontItems
<1>2. PICK h \in Seq(Frame) : h = Front(fs)
  BY FrontItems
<1>3. Len(h) = n - 1 /\ \A i \in 1..(n - 1) : h[i] = fs[i]
  BY <1>1, <1>2, FrontItems
<1>4. ASSUME NEW i \in 1..(n - 1), h[i].at = "block", h[i].level > 0
      PROVE  h[i].level = Rank(h, i)
  <2>1. i \in 1..n /\ i \in Nat
    BY <1>1
  <2>2. fs[i].level = Rank(fs, i)
    BY <1>1, <1>3, <1>4, <2>1 DEF Levels
  <2>3. \A j \in 1..i : h[j] = fs[j]
    BY <1>1, <1>3, <2>1
  <2>4. Rank(h, i) = Rank(fs, i)
    BY <2>1, <2>3, RankSame
  <2> QED
    BY <1>3, <2>2, <2>4
<1>5. Levels(h)
  BY <1>3, <1>4 DEF Levels
<1> QED
  BY <1>2, <1>5

LEMMA ChainAppend ==
    ASSUME NEW fs \in Seq(Frame), NEW g \in Frame, Chain(fs), g.at \in StaleAts
    PROVE  Chain(Append(fs, g))
<1>1. PICK n \in Nat : n = Len(fs)
  BY LenProperties
<1>2. PICK a \in Seq(Frame) : a = Append(fs, g)
  BY AppendItem
<1>3. Len(a) = n + 1 /\ (\A i \in 1..n : a[i] = fs[i]) /\ a[n + 1] = g
  BY <1>1, <1>2, AppendItem
<1>4. PICK k \in 1..n : fs[k].at = "block" /\ \A i \in (k + 1)..n : fs[i].at \in StaleAts
  BY <1>1 DEF Chain
<1>5. k \in 1..(n + 1) /\ a[k].at = "block"
  BY <1>1, <1>3, <1>4
<1>6. ASSUME NEW i \in (k + 1)..(n + 1)
      PROVE  a[i].at \in StaleAts
  <2>1. CASE i = n + 1
    BY <1>3, <2>1
  <2>2. CASE i # n + 1
    <3>1. i \in (k + 1)..n /\ i \in 1..n
      BY <1>1, <1>4, <2>2
    <3> QED
      BY <1>3, <1>4, <3>1
  <2> QED
    BY <2>1, <2>2
<1>7. Chain(a)
  BY <1>3, <1>5, <1>6 DEF Chain
<1> QED
  BY <1>2, <1>7

LEMMA ChainFront ==
    ASSUME NEW fs \in Seq(Frame), fs # <<>>, Chain(fs), fs[Len(fs)].at # "block"
    PROVE  Front(fs) # <<>> /\ Chain(Front(fs))
<1>1. PICK n \in Nat \ {0} : n = Len(fs)
  BY FrontItems
<1>2. PICK h \in Seq(Frame) : h = Front(fs)
  BY FrontItems
<1>3. Len(h) = n - 1 /\ \A i \in 1..(n - 1) : h[i] = fs[i]
  BY <1>1, <1>2, FrontItems
<1>4. PICK k \in 1..n : fs[k].at = "block" /\ \A i \in (k + 1)..n : fs[i].at \in StaleAts
  BY <1>1 DEF Chain
<1>5. k # n
  BY <1>1, <1>4
<1>6. k \in 1..(n - 1) /\ h[k].at = "block"
  BY <1>1, <1>3, <1>4, <1>5
<1>7. ASSUME NEW i \in (k + 1)..(n - 1)
      PROVE  h[i].at \in StaleAts
  <2>1. i \in (k + 1)..n /\ i \in 1..(n - 1)
    BY <1>1, <1>6
  <2> QED
    BY <1>3, <1>4, <2>1
<1>8. Chain(h)
  BY <1>3, <1>6, <1>7 DEF Chain
<1>9. n # 1
  BY <1>1, <1>6
<1>10. h # <<>>
  BY <1>1, <1>2, <1>9, FrontItems
<1> QED
  BY <1>2, <1>8, <1>10

LEMMA ChainOfBlock ==
    ASSUME NEW fs \in Seq(Frame), fs # <<>>, fs[Len(fs)].at = "block"
    PROVE  Chain(fs)
<1>1. PICK n \in Nat \ {0} : n = Len(fs)
  BY FrontItems
<1>2. n \in 1..n /\ fs[n].at = "block" /\ \A i \in (n + 1)..n : fs[i].at \in StaleAts
  BY <1>1
<1> QED
  BY <1>1, <1>2 DEF Chain

LEMMA ChainTop ==
    ASSUME NEW fs \in Seq(Frame), fs # <<>>, Chain(fs)
    PROVE  fs[Len(fs)].at \in StaleAts \cup {"block"}
<1>1. PICK n \in Nat \ {0} : n = Len(fs)
  BY FrontItems
<1>2. PICK k \in 1..n : fs[k].at = "block" /\ \A i \in (k + 1)..n : fs[i].at \in StaleAts
  BY <1>1 DEF Chain
<1>3. k = n \/ n \in (k + 1)..n
  BY <1>1
<1> QED
  BY <1>1, <1>2, <1>3

(* The call on top of the stack reaches a point.                             *)
LEMMA LevelsReach ==
    ASSUME NEW fs \in Seq(Frame), fs # <<>>, Levels(fs), NEW to \in Points, to # "done",
           to = "block" => BlockLevel \in Nat,
           to = "block" /\ BlockLevel > 0 => BlockLevel = Blocks(Front(fs)) + 1
    PROVE  Reach(fs, to) \in Seq(Frame) /\ Levels(Reach(fs, to))
<1>1. PICK h \in Seq(Frame) : h = Front(fs)
  BY FrontItems
<1>2. fs[Len(fs)] \in Frame
  BY FrontItems
<1>3. Moved(fs[Len(fs)], to) \in Frame /\ Moved(fs[Len(fs)], to).at = to
  BY <1>2, MovedFrame
<1>4. Moved(fs[Len(fs)], to).level = IF to = "block" THEN BlockLevel ELSE 0
  BY <1>2 DEF Moved, Frame
<1>5. PICK g \in Frame : g = Moved(fs[Len(fs)], to)
  BY <1>3
<1>6. Levels(h)
  BY <1>1, LevelsFront
<1>7. g.at = "block" /\ g.level > 0 => g.level = Blocks(h) + 1
  BY <1>1, <1>3, <1>4, <1>5
<1>8. PICK a \in Seq(Frame) : a = Append(h, g)
  BY AppendItem
<1>9. Levels(a)
  BY <1>6, <1>7, <1>8, LevelsAppend
<1>10. CASE to \notin ExpressionPoints
  <2>1. Reach(fs, to) = a
    BY <1>1, <1>5, <1>8, <1>10, ReachAs
  <2> QED
    BY <1>9, <2>1
<1>11. CASE to \in ExpressionPoints
  <2>1. "expression" \in Points
    BY DEF Points
  <2>2. PrecedenceAt(to) \in Precedences
    <3>1. PrecedenceAt(to) \in {0, 1, 2, 8}
      BY PrecedenceOfPoints
    <3> QED
      BY <3>1, PrecedencesAre
  <2>3. PICK e \in Frame : e = New("expression", PrecedenceAt(to)) /\ e.at = "expression"
    BY <2>1, <2>2, NewFrame
  <2>4. Reach(fs, to) = Append(a, e)
    BY <1>1, <1>5, <1>8, <1>11, <2>3, ReachAs
  <2>5. Append(a, e) \in Seq(Frame) /\ Levels(Append(a, e))
    BY <1>9, <2>3, LevelsAppend, AppendItem
  <2> QED
    BY <2>4, <2>5
<1> QED
  BY <1>10, <1>11

LEMMA ChainReach ==
    ASSUME NEW fs \in Seq(Frame), fs # <<>>, Chain(fs), fs[Len(fs)].at # "block",
           NEW to \in Points, to # "done", to \in StaleAts
    PROVE  Chain(Reach(fs, to))
<1>1. PICK h \in Seq(Frame) : h = Front(fs)
  BY FrontItems
<1>2. fs[Len(fs)] \in Frame
  BY FrontItems
<1>3. to # "block"
  BY DEF StaleAts, ExprAts, InfixCalls
<1>4. PICK g \in Frame : g = Moved(fs[Len(fs)], to) /\ g.at = to
  BY <1>2, <1>3, MovedFrame
<1>5. Chain(h)
  BY <1>1, ChainFront
<1>6. PICK a \in Seq(Frame) : a = Append(h, g)
  BY AppendItem
<1>7. Chain(a)
  BY <1>4, <1>5, <1>6, ChainAppend
<1>8. CASE to \notin ExpressionPoints
  <2>1. Reach(fs, to) = a
    BY <1>1, <1>3, <1>4, <1>6, <1>8, ReachAs
  <2> QED
    BY <1>7, <2>1
<1>9. CASE to \in ExpressionPoints
  <2>1. "expression" \in Points /\ "expression" \in StaleAts
    BY DEF Points, StaleAts, ExprAts
  <2>2. PrecedenceAt(to) \in Precedences
    <3>1. PrecedenceAt(to) \in {0, 1, 2, 8}
      BY PrecedenceOfPoints
    <3> QED
      BY <3>1, PrecedencesAre
  <2>3. PICK e \in Frame : e = New("expression", PrecedenceAt(to)) /\ e.at = "expression"
    BY <2>1, <2>2, NewFrame
  <2>4. Reach(fs, to) = Append(a, e)
    BY <1>1, <1>3, <1>4, <1>6, <1>9, <2>3, ReachAs
  <2>5. Chain(Append(a, e))
    BY <1>7, <2>1, <2>3, ChainAppend
  <2> QED
    BY <2>4, <2>5
<1> QED
  BY <1>8, <1>9

LEMMA FrontOfAppend ==
    ASSUME NEW S, NEW s \in Seq(S), NEW e \in S
    PROVE  Front(Append(s, e)) = s
<1>1. PICK n \in Nat : n = Len(s)
  BY LenProperties
<1>2. PICK a \in Seq(S) : a = Append(s, e) /\ a # <<>>
  BY AppendItem
<1>3. Len(a) = n + 1 /\ \A i \in 1..n : a[i] = s[i]
  BY <1>1, <1>2, AppendItem
<1>4. PICK h \in Seq(S) : h = Front(a)
  BY <1>2, FrontItems
<1>5. Len(h) = Len(a) - 1 /\ \A i \in 1..(Len(a) - 1) : h[i] = a[i]
  BY <1>2, <1>4, FrontItems
<1>6. Len(h) = n /\ \A i \in 1..n : h[i] = s[i]
  BY <1>1, <1>3, <1>5
<1>7. h = s
  BY <1>1, <1>6, SeqEqual
<1> QED
  BY <1>2, <1>4, <1>7

LEMMA FrontAndTop ==
    ASSUME NEW S, NEW s \in Seq(S), s # <<>>
    PROVE  Append(Front(s), s[Len(s)]) = s
<1>1. s[Len(s)] \in S /\ Len(s) \in Nat \ {0}
  BY FrontItems
<1>2. [s EXCEPT ![Len(s)] = s[Len(s)]] = Append(Front(s), s[Len(s)])
  BY <1>1, ReplaceLast
<1>3. s \in [1..Len(s) -> S]
  BY LenProperties
<1> QED
  BY <1>1, <1>2, <1>3

(* A call that reaches a point at once.                                      *)
LEMMA CallReach ==
    ASSUME NEW fs \in Seq(Frame), NEW k \in Frame, NEW to \in Points, k.at = to,
           to # "done", to # "block"
    PROVE  /\ Levels(fs) => /\ Reach(Append(fs, k), to) \in Seq(Frame)
                            /\ Levels(Reach(Append(fs, k), to))
           /\ Chain(fs) /\ to \in StaleAts => Chain(Reach(Append(fs, k), to))
<1>1. PICK a \in Seq(Frame) : a = Append(fs, k) /\ a # <<>>
  BY AppendItem
<1>2. a[Len(a)] = k
  <2>1. PICK n \in Nat : n = Len(fs)
    BY LenProperties
  <2>2. Len(a) = n + 1 /\ a[n + 1] = k
    BY <1>1, <2>1, AppendItem
  <2> QED
    BY <2>2
<1>3. ASSUME Levels(fs)
      PROVE  Reach(a, to) \in Seq(Frame) /\ Levels(Reach(a, to))
  <2>1. Levels(a)
    BY <1>1, <1>3, LevelsAppend
  <2> QED
    BY <1>1, <2>1, LevelsReach
<1>4. ASSUME Chain(fs), to \in StaleAts
      PROVE  Chain(Reach(a, to))
  <2>1. Chain(a)
    BY <1>1, <1>4, ChainAppend
  <2> QED
    BY <1>1, <1>2, <1>4, <2>1, ChainReach
<1> QED
  BY <1>1, <1>3, <1>4

(* The BeginBlock of a block that begins with no rule pending is as deep as  *)
(* the blocks that are parsed.                                               *)
LEMMA FreshBlock ==
    ASSUME TypeOK, Running, Fresh, lookahead # <<>>, Peek = "BeginBlock", BlockLevel > 0
    PROVE  BlockLevel = Blocks(frames) + 1
<1>1. indent_rules = <<>>
  BY DEF BlockLevel
<1>2. lookahead \in Seq(Token) /\ Len(lookahead) = 1
  <2>1. PICK n \in Nat \ {0} : n = Len(lookahead)
    BY FrontItems DEF TypeOK
  <2>2. n <= 1
    BY <2>1 DEF Fresh
  <2> QED
    BY <2>1, <2>2 DEF TypeOK
<1>3. BlockLevel = depth
  <2>1. Taken = lookahead[1]
    BY <1>2 DEF Taken, Last
  <2> QED
    BY <1>1, <2>1 DEF BlockLevel, Fresh
<1>4. Count(lookahead, "EndBlock") = 0 /\ Count(lookahead, "BeginBlock") = 1
  BY <1>2, CountSingle DEF Peek
<1>5. Len(indent_rules) = 0
  BY <1>1, EmptySeq
<1>6. depth \in Nat /\ Blocks(frames) \in Nat
  BY RunningFacts
<1> QED
  BY <1>3, <1>4, <1>5, <1>6 DEF Running, Balanced

(* A step of a function that leaves the queue alone or takes a token.        *)
LEMMA EndsStep ==
    ASSUME TypeOK, Running, EndsInv, result = "running", UNCHANGED lexer,
           Levels(frames'),
           \/ UNCHANGED <<lookahead, indent_rules>>
           \/ lookahead # <<>> /\ Take,
           Stale => Chain(frames')
    PROVE  EndsInv'
<1>1. lookahead \in Seq(Token) /\ depth' = depth
  BY DEF TypeOK, lexer
<1>2. Fresh \/ Stale
  BY DEF EndsInv
<1>3. CASE UNCHANGED <<lookahead, indent_rules>>
  <2>1. Fresh => Fresh'
    BY <1>1, <1>3 DEF Fresh, Peek
  <2>2. Stale => Stale'
    BY <1>3 DEF Stale, Peek
  <2> QED
    BY <1>2, <2>1, <2>2 DEF EndsInv
<1>4. CASE lookahead # <<>> /\ Take
  <2>1. PICK n \in Nat \ {0} : n = Len(lookahead)
    BY <1>1, <1>4, FrontItems
  <2>2. PICK q \in Seq(Token) : q = Front(lookahead)
    BY <1>1, <1>4, FrontItems
  <2>3. /\ Len(q) = n - 1
        /\ q = <<>> <=> n = 1
        /\ \A i \in DOMAIN q : q[i].type = "BeginBlock"
    <3>1. Len(q) = n - 1 /\ (q = <<>> <=> n = 1)
      BY <1>1, <1>4, <2>1, <2>2, FrontItems
    <3>2. QueueFits(lookahead, top.at)
      BY DEF Running
    <3>3. \A i \in DOMAIN q : q[i].type = "BeginBlock"
      BY <1>1, <1>4, <2>2, <3>2, FrontOfQueue
    <3> QED
      BY <3>1, <3>3
  <2>4. lookahead' = q
    BY <1>4, <2>2 DEF Take
  <2>5. CASE q = <<>>
    <3>1. Fresh'
      BY <2>4, <2>5, EmptySeq DEF Fresh
    <3> QED
      BY <3>1 DEF EndsInv
  <2>6. CASE q # <<>>
    <3>1. n # 1
      BY <2>3, <2>6
    <3>2. ~Fresh
      BY <2>1, <3>1 DEF Fresh
    <3>3. Chain(frames')
      BY <1>2, <3>2
    <3>4. q[1].type = "BeginBlock"
      <4>1. 1 \in 1..Len(q) /\ DOMAIN q = 1..Len(q)
        BY <2>1, <2>3, <3>1, LenProperties
      <4> QED
        BY <2>3, <4>1
    <3>5. Stale'
      BY <2>4, <2>6, <3>3, <3>4 DEF Stale, Peek
    <3> QED
      BY <3>5 DEF EndsInv
  <2> QED
    BY <2>5, <2>6
<1> QED
  BY <1>3, <1>4

(* A call returns.                                                           *)
LEMMA EndsReturn ==
    ASSUME TypeOK, Running, EndsInv, result = "running",
           frames' = Front(frames), top.at # "block"
    PROVE  Levels(frames') /\ (Stale => Chain(frames'))
<1>1. frames \in Seq(Frame) /\ frames # <<>> /\ top = frames[Len(frames)] /\ Levels(frames)
  BY RunningFacts, LinkedTop DEF EndsInv
<1>2. Levels(Front(frames))
  BY <1>1, LevelsFront
<1>3. Stale => Chain(Front(frames))
  BY <1>1, ChainFront DEF Stale
<1> QED
  BY <1>2, <1>3

(* No function at which a row takes a BeginBlock is called with such a queue. *)
LEMMA StaleRow ==
    ASSUME TypeOK, Running, Stale, NEW r \in Rows, Runs, Point \in RowPoints, Applies(r)
    PROVE  /\ r[3] # "block"
           /\ r[4] # "done" => r[4] \in StaleAts
           /\ r[3] # "call" => top.at # "block"
<1>1. /\ RowKinds(r) /\ RowTargets(r)
      /\ r[1] = Point
      /\ r[2] = Peek \/ r[2] = "other"
      /\ top.at \in InfixCalls => r[1] \in InfixCalls \cup {"name", "unnamed"}
      /\ r[1] \notin {"name", "unnamed"} => top.at = r[1]
      /\ top.at = "block" <=> r[1] = "block"
      /\ top.at = "statement" <=> r[1] = "statement"
  BY RowOfPoint
<1>2. top.at \in StaleAts \cup {"block"}
  <2>1. frames \in Seq(Frame) /\ frames # <<>> /\ top = frames[Len(frames)]
    BY RunningFacts, LinkedTop
  <2> QED
    BY <2>1, ChainTop DEF Stale
<1>3. top.at \notin {"return"} \cup ExprAts
  BY AtRowPoint
<1>4. Peek = "BeginBlock"
  BY DEF Stale
<1>5. r[3] \in {"keep", "take", "rule", "block", "call", "fail"}
  BY RowsGood DEF RowFacts
<1>6. CASE top.at = "block"
  <2>1. r[2] = "other" /\ r[3] \in {"call", "keep"}
    BY <1>1, <1>4, <1>6 DEF RowTargets
  <2>2. r[3] = "call" /\ r[4] = "statement"
    BY <1>1, <1>6, <2>1 DEF RowKinds
  <2> QED
    BY <1>6, <2>2 DEF StaleAts
<1>7. CASE top.at = "statement"
  <2>1. r[2] = "other" /\ r[3] \in {"call", "keep"} /\ r[4] \in {"statement", "expression"}
    BY <1>1, <1>4, <1>7 DEF RowTargets
  <2> QED
    BY <1>7, <2>1 DEF StaleAts, ExprAts
<1>8. CASE top.at \in InfixCalls
  <2>1. r[3] \notin {"call", "block"} /\ r[4] \in InfixCalls \cup {"done"}
    BY <1>1, <1>8 DEF RowTargets
  <2>2. top.at # "block"
    BY <1>8 DEF InfixCalls
  <2> QED
    BY <2>1, <2>2 DEF StaleAts
<1> QED
  BY <1>2, <1>3, <1>6, <1>7, <1>8 DEF StaleAts

LEMMA EndsRow ==
    ASSUME TypeOK, Running, EndsInv, NEW r \in Rows, RowStep(r)
    PROVE  EndsInv'
<1>1. /\ Runs /\ Point \in RowPoints /\ Applies(r)
      /\ UNCHANGED lexer
  BY DEF RowStep
<1>2. frames' = CASE r[3] = "call"  -> Call(frames, r[4])
                  [] r[3] = "block" -> Call(Reach(frames, r[4]), "block")
                  [] r[3] = "fail"  -> frames
                  [] OTHER          -> Reach(frames, r[4])
  BY DEF RowStep
<1>3. IF r[3] \in {"take", "rule", "block"} THEN Take ELSE UNCHANGED lookahead
  BY DEF RowStep
<1>4. indent_rules' = IF r[3] = "rule" THEN PushRule ELSE indent_rules
  BY DEF RowStep
<1>5. /\ RowFacts(r) /\ RowKinds(r)
      /\ r[1] = Point
      /\ r[2] = Peek \/ r[2] = "other"
      /\ top.at = "block" <=> r[1] = "block"
  BY <1>1, RowOfPoint
<1>6. /\ r[3] \in {"keep", "take", "rule", "block", "call", "fail"}
      /\ r[4] \in Points \cup {"done"}
  BY <1>5 DEF RowFacts
<1>7. /\ result = "running" /\ lookahead # <<>> /\ BlockLevel \in Nat
  BY <1>1, AtRowPoint
<1>8. /\ frames \in Seq(Frame) /\ frames # <<>> /\ top = frames[Len(frames)] /\ top \in Frame
      /\ Levels(frames) /\ Blocks(frames) \in Nat
  BY <1>7, RunningFacts, LinkedTop DEF EndsInv
<1>9. /\ Stale => r[3] # "block"
      /\ Stale /\ r[4] # "done" => r[4] \in StaleAts
      /\ Stale /\ r[3] # "call" => top.at # "block"
  BY <1>1, StaleRow
<1>10. \/ UNCHANGED <<lookahead, indent_rules>>
       \/ lookahead # <<>> /\ Take
  <2>1. CASE r[3] \in {"take", "rule", "block"}
    BY <1>3, <1>7, <2>1
  <2>2. CASE r[3] \notin {"take", "rule", "block"}
    BY <1>3, <1>4, <2>2
  <2> QED
    BY <2>1, <2>2
<1>11. Fresh \/ Stale
  BY <1>7 DEF EndsInv
<1>12. CASE r[3] = "fail"
  <2>1. frames' # <<>>
    BY <1>2, <1>8, <1>12
  <2>2. result' = "LazyString"
    BY <1>12, <2>1 DEF RowStep
  <2> QED
    BY <2>2 DEF EndsInv
<1>13. CASE r[3] = "call"
  <2>1. r[4] \in {"item", "statement"}
    BY <1>5, <1>13 DEF RowKinds
  <2>2. r[4] \in Points /\ r[4] # "done" /\ r[4] # "block"
    BY <1>6, <2>1
  <2>3. PICK k \in Frame : k = New(r[4], Prec.Min) /\ k.at = r[4]
    BY <2>2, NewFrame, PrecedencesAre DEF Prec
  <2>4. frames' = Reach(Append(frames, k), r[4])
    BY <1>2, <1>13, <2>3 DEF Call
  <2>5. Levels(frames')
    BY <1>8, <2>2, <2>3, <2>4, CallReach
  <2>6. Stale => Chain(frames')
    BY <1>8, <1>9, <2>2, <2>3, <2>4, CallReach DEF Stale
  <2> QED
    BY <1>1, <1>7, <1>10, <2>5, <2>6, EndsStep
<1>14. CASE r[3] = "block"
  <2>1. r[2] = "BeginBlock" /\ r[4] = "if_blocks" /\ r[1] # "block"
    BY <1>5, <1>14 DEF RowKinds
  <2>2. Peek = "BeginBlock"
    BY <1>5, <2>1
  <2>3. ~Stale
    BY <1>9, <1>14
  <2>4. BlockLevel > 0 => BlockLevel = Blocks(frames) + 1
    BY <1>7, <1>11, <2>2, <2>3, FreshBlock
  <2>5. r[4] \in Points /\ r[4] # "done" /\ r[4] # "block" /\ r[4] \notin ExpressionPoints
    BY <1>6, <2>1 DEF ExpressionPoints
  <2>6. PICK ms \in Seq(Frame) : ms = Reach(frames, r[4])
    BY <1>8, <2>5, LevelsReach
  <2>7. Levels(ms)
    BY <1>8, <2>5, <2>6, LevelsReach
  <2>8. Blocks(ms) = Blocks(frames)
    <3>1. PICK h \in Seq(Frame) : h = Front(frames)
      BY <1>8, FrontItems
    <3>2. PICK g \in Frame : g = Moved(top, r[4]) /\ g.at = r[4]
      BY <1>8, <2>5, MovedFrame
    <3>3. ms = Append(h, g)
      BY <1>8, <2>5, <2>6, <3>1, <3>2, ReachAs
    <3>4. Blocks(frames) = Blocks(h)
      BY <1>5, <1>8, <2>1, <3>1, BlocksFront
    <3>5. Blocks(ms) = Blocks(h)
      BY <2>5, <3>2, <3>3, BlocksAppend
    <3> QED
      BY <3>4, <3>5
  <2>9. "block" \in Points
    BY RowPointsAre DEF Points, RowPointNames
  <2>10. PICK k \in Frame : k = New("block", Prec.Min) /\ k.at = "block"
    BY <2>9, NewFrame, PrecedencesAre DEF Prec
  <2>11. PICK a \in Seq(Frame) : a = Append(ms, k) /\ a # <<>>
    BY <2>6, AppendItem
  <2>12. frames' = Reach(a, "block")
    BY <1>2, <1>14, <2>6, <2>10, <2>11 DEF Call
  <2>13. k.level = 0
    BY <2>10 DEF New
  <2>14. Levels(a)
    BY <2>6, <2>7, <2>11, <2>13, LevelsAppend
  <2>15. Front(a) = ms
    BY <2>6, <2>11, FrontOfAppend
  <2>16. Levels(frames')
    BY <1>7, <2>4, <2>8, <2>9, <2>11, <2>12, <2>14, <2>15, LevelsReach
  <2> QED
    BY <1>1, <1>7, <1>10, <2>3, <2>16, EndsStep
<1>15. CASE r[3] \in {"keep", "take", "rule"} /\ r[4] = "done"
  <2>1. frames' = Front(frames)
    BY <1>2, <1>15 DEF Reach, ExpressionPoints
  <2>2. Levels(Front(frames))
    BY <1>8, LevelsFront
  <2>3. Stale => Chain(Front(frames))
    BY <1>8, <1>9, <1>15, ChainFront DEF Stale
  <2> QED
    BY <1>1, <1>7, <1>10, <2>1, <2>2, <2>3, EndsStep
<1>16. CASE r[3] \in {"keep", "take", "rule"} /\ r[4] # "done"
  <2>1. frames' = Reach(frames, r[4])
    BY <1>2, <1>16
  <2>2. ASSUME r[4] = "block", BlockLevel > 0
        PROVE  BlockLevel = Blocks(Front(frames)) + 1
    <3>1. r[3] = "take" /\ r[2] = "BeginBlock" /\ r[1] # "block"
      BY <1>5, <1>16, <2>2 DEF RowKinds
    <3>2. ~Stale
      BY <1>9, <2>2 DEF StaleAts, ExprAts, InfixCalls
    <3>3. BlockLevel = Blocks(frames) + 1
      BY <1>5, <1>7, <1>11, <2>2, <3>1, <3>2, FreshBlock
    <3>4. Blocks(frames) = Blocks(Front(frames))
      BY <1>5, <1>8, <3>1, BlocksFront
    <3> QED
      BY <3>3, <3>4
  <2>3. Levels(Reach(frames, r[4]))
    BY <1>6, <1>7, <1>8, <1>16, <2>2, LevelsReach
  <2>4. Stale => Chain(Reach(frames, r[4]))
    BY <1>6, <1>8, <1>9, <1>16, ChainReach DEF Stale
  <2> QED
    BY <1>1, <1>7, <1>10, <2>1, <2>3, <2>4, EndsStep
<1> QED
  BY <1>6, <1>12, <1>13, <1>14, <1>15, <1>16

LEMMA EndsError ==
    ASSUME result' \in ParseErrors
    PROVE  EndsInv'
<1>1. result' # "running"
  BY DEF ParseErrors
<1> QED
  BY <1>1 DEF EndsInv

LEMMA EndsFinish ==
    ASSUME TypeOK, Running, EndsInv, Finish
    PROVE  EndsInv'
<1>1. /\ result = "running" /\ top.at \in LastPoints
      /\ UNCHANGED lexer /\ UNCHANGED <<lookahead, indent_rules>>
  BY DEF Finish, Runs
<1>2. CASE top.at = "assign_op" /\ top.op \notin BinaryOperators
  <2>1. result' \in ParseErrors
    BY <1>2 DEF Finish, Error, ParseErrors
  <2> QED
    BY <2>1, EndsError
<1>3. CASE ~(top.at = "assign_op" /\ top.op \notin BinaryOperators)
  <2>1. frames' = Front(frames)
    BY <1>3 DEF Finish
  <2>2. top.at # "block"
    BY <1>1 DEF LastPoints
  <2>3. Levels(frames') /\ (Stale => Chain(frames'))
    BY <1>1, <2>1, <2>2, EndsReturn
  <2> QED
    BY <1>1, <2>3, EndsStep
<1> QED
  BY <1>2, <1>3

(* "return" looks further than a BeginBlock, so that with one in the queue   *)
(* it returns nothing.                                                       *)
LEMMA EndsReturnStatement ==
    ASSUME TypeOK, Running, EndsInv, ReturnStatement
    PROVE  EndsInv'
<1>1. /\ result = "running" /\ top.at = "return" /\ Len(lookahead) >= Needed
      /\ UNCHANGED lexer /\ UNCHANGED <<lookahead, indent_rules>>
      /\ frames' = IF Len(lookahead) > 1 \/ Taken.newline \/ Peek = "EOF"
                   THEN Front(frames) ELSE Reach(frames, "return_value")
  BY DEF ReturnStatement, Runs
<1>2. /\ frames \in Seq(Frame) /\ frames # <<>> /\ top = frames[Len(frames)]
      /\ Levels(frames)
  BY <1>1, RunningFacts, LinkedTop DEF EndsInv
<1>3. ASSUME Stale
      PROVE  Len(lookahead) > 1
  <2> DEFINE B == {i \in DOMAIN lookahead : lookahead[i].type = "BeginBlock"}
  <2>1. PICK n \in Nat \ {0} : n = Len(lookahead)
    BY <1>3, FrontItems DEF Stale, TypeOK
  <2>2. DOMAIN lookahead = 1..n
    BY <2>1, LenProperties DEF TypeOK
  <2>3. 1 \in B
    <3>1. 1 \in 1..n
      BY <2>1
    <3> QED
      BY <1>3, <2>2, <3>1 DEF Stale, Peek
  <2>4. Needed = 1 + Cardinality(B)
    BY <1>1 DEF Needed, LastPoints
  <2> HIDE DEF B
  <2>5. IsFiniteSet(B)
    <3>1. IsFiniteSet(1..n)
      BY <2>1, FS_Interval
    <3>2. B \in SUBSET (1..n)
      BY <2>2 DEF B
    <3> QED
      BY <3>1, <3>2, FS_Subset
  <2>6. Cardinality(B) \in Nat
    BY <2>5, FS_CardinalityType
  <2>7. Cardinality(B) # 0
    BY <2>3, <2>5, FS_EmptySet
  <2> QED
    BY <1>1, <2>1, <2>4, <2>6, <2>7
<1>4. CASE frames' = Front(frames)
  <2>1. Levels(frames') /\ (Stale => Chain(frames'))
    BY <1>1, <1>4, EndsReturn
  <2> QED
    BY <1>1, <2>1, EndsStep
<1>5. CASE frames' # Front(frames)
  <2>1. frames' = Reach(frames, "return_value")
    BY <1>1, <1>5
  <2>2. ~Stale
    BY <1>1, <1>3, <1>5
  <2>3. "return_value" \in Points
    BY DEF Points, ExpressionPoints
  <2>4. Levels(frames')
    <3>1. PICK to \in Points : to = "return_value"
      BY <2>3
    <3>2. to # "done" /\ to # "block"
      BY <3>1
    <3>3. Levels(Reach(frames, to))
      BY <1>2, <3>2, LevelsReach
    <3> QED
      BY <2>1, <3>1, <3>3
  <2> QED
    BY <1>1, <2>2, <2>4, EndsStep
<1> QED
  BY <1>4, <1>5

LEMMA EndsExpression ==
    ASSUME TypeOK, Running, EndsInv, result = "running", top.at \in ExprAts,
           NEW to \in {"prefix", "infix"}
    PROVE  /\ Reach(frames, to) \in Seq(Frame)
           /\ Levels(Reach(frames, to))
           /\ Stale => Chain(Reach(frames, to))
<1>1. /\ frames \in Seq(Frame) /\ frames # <<>> /\ top = frames[Len(frames)]
      /\ Levels(frames)
  BY RunningFacts, LinkedTop DEF EndsInv
<1>2. to \in Points /\ to # "done" /\ to # "block" /\ to \in StaleAts
  BY DEF Points, StaleAts, ExprAts
<1>3. top.at # "block"
  BY DEF ExprAts
<1>4. Reach(frames, to) \in Seq(Frame) /\ Levels(Reach(frames, to))
  BY <1>1, <1>2, LevelsReach
<1>5. Stale => Chain(Reach(frames, to))
  BY <1>1, <1>2, <1>3, ChainReach DEF Stale
<1> QED
  BY <1>4, <1>5

LEMMA EndsIndented ==
    ASSUME TypeOK, Running, EndsInv, Indented
    PROVE  EndsInv'
<1>1. /\ Runs /\ top.at = "expression" /\ Take /\ UNCHANGED lexer
      /\ frames' = Reach(frames, "prefix")
  BY DEF Indented
<1>2. top.at \in ExprAts
  BY <1>1 DEF ExprAts
<1>3. result = "running" /\ lookahead # <<>>
  BY <1>1, <1>2, AtExpression
<1>4. Levels(frames') /\ (Stale => Chain(frames'))
  BY <1>1, <1>2, <1>3, EndsExpression
<1> QED
  BY <1>1, <1>3, <1>4, EndsStep

LEMMA EndsPrefix ==
    ASSUME TypeOK, Running, EndsInv, Prefix
    PROVE  EndsInv'
<1>1. Runs /\ top.at \in ExprAts /\ Take /\ UNCHANGED lexer
  BY DEF Prefix, LiteralError, ExprAts
<1>2. result = "running" /\ lookahead # <<>>
  BY <1>1, AtExpression
<1>3. PICK ms \in Seq(Frame) : ms = Reach(frames, "infix")
  BY <1>1, <1>2, EndsExpression
<1>4. Levels(ms) /\ (Stale => Chain(ms))
  BY <1>1, <1>2, <1>3, EndsExpression
<1>5. CASE Taken.type \in {"Ident", "Literal"} /\ result' = result
  <2>1. frames' = ms
    BY <1>2, <1>3, <1>5 DEF Prefix, LiteralError, Error
  <2> QED
    BY <1>1, <1>2, <1>4, <2>1, EndsStep
<1>6. CASE Taken.type \in {"If", "Minus", "Plus", "LeftParen"}
  <2>1. PICK to : to = StartsPrefix(Taken.type)
    OBVIOUS
  <2>2. to \in {"ifx_cond", "unary", "parens"}
    BY <1>6, <2>1 DEF StartsPrefix
  <2>3. to \in Points /\ to # "block" /\ to # "done" /\ to \in StaleAts
    BY <2>2 DEF Points, ExpressionPoints, StaleAts, InfixCalls
  <2>4. PICK k \in Frame : k = New(to, Prec.Min) /\ k.at = to
    BY <2>3, NewFrame, PrecedencesAre DEF Prec
  <2>5. frames' = Reach(Append(ms, k), to)
    BY <1>3, <1>6, <2>1, <2>4 DEF Prefix, LiteralError, Call
  <2>6. Levels(frames')
    BY <1>4, <2>3, <2>4, <2>5, CallReach
  <2>7. Stale => Chain(frames')
    BY <1>4, <2>3, <2>4, <2>5, CallReach
  <2> QED
    BY <1>1, <1>2, <2>6, <2>7, EndsStep
<1>7. CASE /\ Taken.type \notin {"If", "Minus", "Plus", "LeftParen"}
           /\ Taken.type \in {"Ident", "Literal"} => result' # result
  <2>1. result' \in ParseErrors
    BY <1>7 DEF Prefix, LiteralError, Error, ParseErrors
  <2> QED
    BY <2>1, EndsError
<1> QED
  BY <1>5, <1>6, <1>7

LEMMA EndsInfix ==
    ASSUME IInv, EndsInv, InfixBinaryOp \/ InfixOfIdentifier \/ InfixBreak
    PROVE  EndsInv'
<1>1. \E types : Infix(types)
  BY DEF InfixBinaryOp, InfixOfIdentifier, InfixBreak
<1>2. /\ TypeOK /\ Running /\ result = "running" /\ top.at = "infix"
      /\ lookahead # <<>> /\ Take /\ Taken.type \in TokenTypes
      /\ UNCHANGED lexer
  BY <1>1, InfixTakes
<1>3. /\ frames \in Seq(Frame) /\ frames # <<>> /\ Levels(frames)
      /\ value \in Expression
  BY <1>2, RunningFacts, LinkedTop DEF EndsInv
<1>4. CASE InfixBinaryOp
  <2>1. Taken.type \in BinaryOperators
    BY <1>4 DEF InfixBinaryOp, Infix
  <2>2. "expression" \in Points /\ "binop" \in Points
    BY DEF Points
  <2>3. "expression" \in StaleAts /\ "binop" \in StaleAts
    BY DEF StaleAts, ExprAts, InfixCalls
  <2>4. PICK e \in Frame : /\ e = New("expression", OperandPrecedence(Taken.type))
                           /\ e.at = "expression"
    <3>1. OperandPrecedence(Taken.type) \in Precedences
      BY <2>1, PrecedencesAre DEF OperandPrecedence
    <3> QED
      BY <2>2, <3>1, NewFrame
  <2>5. PICK b \in Frame : /\ b = [New("binop", Prec.Min) EXCEPT !.left = value,
                                                                !.op = Taken.type]
                           /\ b.at = "binop"
    <3>1. New("binop", Prec.Min) \in Frame /\ New("binop", Prec.Min).at = "binop"
      BY <2>2, NewFrame, PrecedencesAre DEF Prec
    <3>2. /\ [New("binop", Prec.Min) EXCEPT !.left = value, !.op = Taken.type] \in Frame
          /\ [New("binop", Prec.Min) EXCEPT !.left = value, !.op = Taken.type].at = "binop"
      BY <1>3, <2>1, <3>1 DEF Frame
    <3> QED
      BY <3>2
  <2>6. frames' = frames \o <<b, e>>
    BY <1>4, <2>4, <2>5 DEF InfixBinaryOp
  <2>7. PICK ms \in Seq(Frame) : ms = Append(frames, b)
    BY <1>3, AppendItem
  <2>8. frames' = Append(ms, e)
    BY <1>3, <2>6, <2>7
  <2>9. Levels(ms) /\ (Stale => Chain(ms))
    <3>1. Levels(ms)
      BY <1>3, <2>5, <2>7, LevelsAppend
    <3>2. Stale => Chain(ms)
      BY <1>3, <2>3, <2>5, <2>7, ChainAppend DEF Stale
    <3> QED
      BY <3>1, <3>2
  <2>10. Levels(frames')
    BY <2>4, <2>8, <2>9, LevelsAppend
  <2>11. Stale => Chain(frames')
    BY <2>3, <2>4, <2>8, <2>9, ChainAppend
  <2> QED
    BY <1>2, <2>10, <2>11, EndsStep
<1>5. CASE InfixOfIdentifier /\ value.variant # "VariableRef"
  <2>1. result' \in ParseErrors
    BY <1>5 DEF InfixOfIdentifier, Error, ParseErrors
  <2> QED
    BY <2>1, EndsError
<1>6. CASE InfixOfIdentifier /\ value.variant = "VariableRef"
  <2>1. PICK at : at = StartsInfix(Taken.type)
    OBVIOUS
  <2>2. /\ at \in {"assign", "args", "assign_op"}
        /\ at = "assign_op" => Taken.type \in AssignOperators
    BY <1>6, <2>1 DEF InfixOfIdentifier, Infix, StartsInfix
  <2>3. at \in Points /\ at # "done" /\ at # "block" /\ at \in StaleAts
    BY <2>2, RowPointsAre DEF Points, RowPointNames, ExpressionPoints, StaleAts, InfixCalls
  <2>4. PICK k \in Frame :
           /\ k = [New(at, Prec.Min) EXCEPT
                      !.op = IF at = "assign_op" THEN Taken.type ELSE "none"]
           /\ k.at = at
    <3>1. New(at, Prec.Min) \in Frame /\ New(at, Prec.Min).at = at
      BY <2>3, NewFrame, PrecedencesAre DEF Prec
    <3>2. (IF at = "assign_op" THEN Taken.type ELSE "none")
              \in BinaryOperators \cup AssignOperators \cup {"none"}
      BY <2>2
    <3>3. PICK op : op = IF at = "assign_op" THEN Taken.type ELSE "none"
      OBVIOUS
    <3>4. /\ [New(at, Prec.Min) EXCEPT !.op = op] \in Frame
          /\ [New(at, Prec.Min) EXCEPT !.op = op].at = at
      BY <3>1, <3>2, <3>3 DEF Frame
    <3> QED
      BY <3>3, <3>4
  <2>5. frames' = Reach(Append(frames, k), at)
    BY <1>6, <2>1, <2>4 DEF InfixOfIdentifier
  <2>6. Levels(frames')
    BY <1>3, <2>3, <2>4, <2>5, CallReach
  <2>7. Stale => Chain(frames')
    BY <1>3, <2>3, <2>4, <2>5, CallReach DEF Stale
  <2> QED
    BY <1>2, <2>6, <2>7, EndsStep
<1>7. CASE InfixBreak
  <2>1. frames' = Front(frames) /\ top.at # "block"
    BY <1>2, <1>7 DEF InfixBreak
  <2>2. Levels(frames') /\ (Stale => Chain(frames'))
    BY <1>2, <2>1, EndsReturn
  <2> QED
    BY <1>2, <2>2, EndsStep
<1> QED
  BY <1>4, <1>5, <1>6, <1>7

LEMMA EndsInfixDone ==
    ASSUME TypeOK, Running, EndsInv, InfixDone
    PROVE  EndsInv'
<1>1. /\ result = "running" /\ frames' = Front(frames) /\ top.at # "block"
      /\ UNCHANGED lexer /\ UNCHANGED <<lookahead, indent_rules>>
  BY DEF InfixDone, Runs
<1>2. Levels(frames') /\ (Stale => Chain(frames'))
  BY <1>1, EndsReturn
<1> QED
  BY <1>1, <1>2, EndsStep

LEMMA EndsLookAhead ==
    ASSUME TypeOK, Running, EndsInv, LookAhead
    PROVE  EndsInv'
<1>1. /\ result = "running" /\ Len(lookahead) < Needed /\ frames' = frames
  BY DEF LookAhead
<1> DEFINE T(type, newline) == [type |-> type, newline |-> newline,
                                level |-> CASE type = "BeginBlock" -> depth + 1
                                            [] OTHER               -> depth]
           Reads(type, newline) ==
               /\ HandOut(T(type, newline))
               /\ IF Negates(type)
                  THEN /\ indent_rules' = PopRule
                       /\ UNCHANGED lookahead
                  ELSE /\ lookahead' = Append(lookahead, T(type, newline))
                       /\ UNCHANGED indent_rules
<1>2. \E type \in Offered : \E newline \in Newlines(type) : Reads(type, newline)
  BY DEF LookAhead
<1> HIDE DEF Reads
<1>3. PICK type \in Offered : \E newline \in Newlines(type) : Reads(type, newline)
  BY <1>2
<1>4. PICK newline \in Newlines(type) : Reads(type, newline)
  BY <1>3
<1>5. /\ HandOut(T(type, newline))
      /\ IF Negates(type)
         THEN /\ indent_rules' = PopRule
              /\ UNCHANGED lookahead
         ELSE /\ lookahead' = Append(lookahead, T(type, newline))
              /\ UNCHANGED indent_rules
  BY <1>4 DEF Reads
<1> DEFINE token == T(type, newline)
<1>6. /\ token \in Token /\ token.type = type
      /\ depth' = depth + (IF type = "BeginBlock" THEN 1 ELSE 0)
                        - (IF type = "EndBlock" THEN 1 ELSE 0)
  BY <1>5, HandedOut
<1>7. token.level = IF type = "BeginBlock" THEN depth + 1 ELSE depth
  OBVIOUS
<1>8. \/ Negates(type) /\ lookahead' = lookahead
      \/ ~Negates(type) /\ lookahead' = Append(lookahead, token) /\ indent_rules' = indent_rules
  BY <1>5
<1> HIDE DEF T, token
<1>9. /\ lookahead \in Seq(Token) /\ depth \in Nat
      /\ frames \in Seq(Frame) /\ Linked(frames) /\ top = frames[Len(frames)] /\ top \in Frame
      /\ top.at # "unit" => Len(frames) >= 2
  BY RunningFacts
<1>10. Levels(frames')
  BY <1>1 DEF EndsInv
<1>11. PICK n \in Nat : n = Len(lookahead)
  BY <1>9, LenProperties
<1>12. /\ \A i \in 1..n : lookahead[i].type = "BeginBlock"
       /\ top.at # "return" => n = 0
  BY <1>1, <1>11, AsksForToken
<1>13. CASE n = 0
  <2>1. lookahead = <<>>
    BY <1>9, <1>11, <1>13, EmptySeq
  <2>2. CASE lookahead' = lookahead
    <3>1. Fresh'
      BY <2>1, <2>2, EmptySeq DEF Fresh
    <3> QED
      BY <1>10, <3>1 DEF EndsInv
  <2>3. CASE ~Negates(type) /\ lookahead' = Append(lookahead, token) /\ indent_rules' = indent_rules
    <3>1. Len(lookahead') = 1 /\ lookahead'[1] = token
      <4>1. Len(lookahead') = n + 1 /\ lookahead'[n + 1] = token
        BY <1>6, <1>9, <1>11, <2>3, AppendItem
      <4> QED
        BY <1>13, <4>1
    <3>2. type = "BeginBlock" => token.level = depth'
      BY <1>6, <1>7, <1>9
    <3>3. type = "EndBlock" => token.level = depth' + 1
      BY <1>6, <1>7, <1>9
    <3>4. type = "EndBlock" => indent_rules' = <<>>
      BY <2>3 DEF Negates
    <3>5. Fresh'
      BY <1>6, <3>1, <3>2, <3>3, <3>4 DEF Fresh, Peek
    <3> QED
      BY <1>10, <3>5 DEF EndsInv
  <2> QED
    BY <1>8, <2>2, <2>3
<1>14. CASE n # 0
  <2>1. top.at = "return"
    BY <1>12, <1>14
  <2>2. /\ Front(frames) \in Seq(Frame)
        /\ Len(Front(frames)) \in Nat
        /\ Linked(Front(frames))
        /\ Front(frames)[Len(Front(frames))] = frames[Len(frames) - 1]
        /\ Calls(frames[Len(frames) - 1], top)
    BY <1>9, <2>1, LinkedFront
  <2>3. PICK h \in Seq(Frame) : h = Front(frames)
    BY <2>2
  <2>4. h[Len(h)].at = "block" /\ h # <<>>
    BY <2>1, <2>2, <2>3, LinkedTop DEF Calls
  <2>5. Chain(h)
    BY <2>4, ChainOfBlock
  <2>6. "return" \in StaleAts
    BY DEF StaleAts
  <2>7. Chain(Append(h, top))
    BY <1>9, <2>1, <2>5, <2>6, ChainAppend
  <2>8. frames = Append(h, top)
    BY <1>9, <2>3, LinkedTop, FrontAndTop
  <2>9. Chain(frames')
    BY <1>1, <2>7, <2>8
  <2>10. lookahead' # <<>> /\ lookahead'[1].type = "BeginBlock"
    <3>1. 1 \in 1..n /\ lookahead[1].type = "BeginBlock"
      BY <1>12, <1>14
    <3>2. CASE lookahead' = lookahead
      <4>1. lookahead # <<>>
        BY <1>11, <1>14, EmptySeq
      <4> QED
        BY <3>1, <3>2, <4>1
    <3>3. CASE lookahead' = Append(lookahead, token)
      <4>1. lookahead' # <<>> /\ lookahead'[1] = lookahead[1]
        BY <1>6, <1>9, <1>11, <3>1, <3>3, AppendItem
      <4> QED
        BY <3>1, <4>1
    <3> QED
      BY <1>8, <3>2, <3>3
  <2>11. Stale'
    BY <2>9, <2>10 DEF Stale, Peek
  <2> QED
    BY <1>10, <2>11 DEF EndsInv
<1> QED
  BY <1>13, <1>14

LEMMA EndsNext ==
    ASSUME IInv, EndsInv, [Next]_vars
    PROVE  EndsInv'
<1>1. ASSUME Runs \/ LookAhead PROVE TypeOK /\ Running /\ result = "running"
  BY <1>1 DEF IInv, Runs, LookAhead
<1>2. CASE LookAhead
  BY <1>1, <1>2, EndsLookAhead
<1>3. CASE \/ ParseUnit \/ FnDeclaration \/ Typedef
           \/ Block \/ Statement \/ DoBlock \/ Declaration \/ IfBlock
           \/ IfExpression \/ Parens \/ FnCall
  <2>1. /\ UnitRows \subseteq Rows /\ FnDeclarationRows \subseteq Rows
        /\ TypedefRows \subseteq Rows /\ BlockRows \subseteq Rows
        /\ StatementRows \subseteq Rows /\ DoBlockRows \subseteq Rows
        /\ DeclarationRows \subseteq Rows /\ IfBlockRows \subseteq Rows
        /\ IfExpressionRows \subseteq Rows /\ ParensRows \subseteq Rows
        /\ FnCallRows \subseteq Rows
    BY DEF Rows
  <2>2. \E rows \in SUBSET Rows : Follow(rows)
    BY <1>3, <2>1 DEF ParseUnit, FnDeclaration, Typedef, Block, Statement, DoBlock,
                      Declaration, IfBlock, IfExpression, Parens, FnCall
  <2>3. PICK r \in Rows : RowStep(r)
    BY <2>2, FollowsRow
  <2>4. TypeOK /\ Running
    BY <1>1, <2>3 DEF RowStep
  <2> QED
    BY <2>3, <2>4, EndsRow
<1>4. CASE Unexpected \/ ExpectValue
  <2>1. result' \in ParseErrors
    BY <1>4 DEF Unexpected, ExpectValue, Error, ParseErrors
  <2> QED
    BY <2>1, EndsError
<1>5. CASE Finish
  BY <1>1, <1>5, EndsFinish DEF Finish
<1>6. CASE ReturnStatement
  BY <1>1, <1>6, EndsReturnStatement DEF ReturnStatement
<1>7. CASE Indented
  BY <1>1, <1>7, EndsIndented DEF Indented
<1>8. CASE Prefix
  BY <1>1, <1>8, EndsPrefix DEF Prefix
<1>9. CASE InfixBinaryOp \/ InfixOfIdentifier \/ InfixBreak
  BY <1>9, EndsInfix
<1>10. CASE InfixDone
  BY <1>1, <1>10, EndsInfixDone DEF InfixDone
<1>11. CASE Stopped \/ UNCHANGED vars
  <2>1. UNCHANGED vars
    BY <1>11 DEF Stopped
  <2>2. /\ depth' = depth /\ lookahead' = lookahead /\ indent_rules' = indent_rules
        /\ frames' = frames /\ result' = result
    BY <2>1 DEF vars, lexer
  <2> QED
    BY <2>2 DEF EndsInv, Fresh, Stale, Peek
<1> QED
  BY <1>2, <1>3, <1>4, <1>5, <1>6, <1>7, <1>8, <1>9, <1>10, <1>11 DEF Next

LEMMA EndsInit == Init => EndsInv
<1> SUFFICES ASSUME Init PROVE EndsInv
  OBVIOUS
<1>1. lookahead = <<>> /\ frames = <<New("unit", Prec.Min)>>
  BY DEF Init
<1>2. Fresh
  BY <1>1, EmptySeq DEF Fresh
<1>3. Len(frames) = 1 /\ frames[1].at = "unit"
  BY <1>1 DEF New
<1>4. Levels(frames)
  BY <1>3 DEF Levels
<1> QED
  BY <1>2, <1>4 DEF EndsInv

(* A block that block() began to parse with no rule pending is ended by the  *)
(* EndBlock of its own indentation, in every source: the rules pushed by the *)
(* statements in it have skipped, when it looks at an EndBlock, those and    *)
(* only those EndBlocks that the lexer handed out for indentations in them.  *)
THEOREM BlocksEndWhereTheyShould == Spec => []BlocksEndAtTheirEnd
<1>1. ASSUME IInv, EndsInv PROVE BlocksEndAtTheirEnd
  <2> SUFFICES ASSUME result = "running", top.at = "block", lookahead # <<>>,
                      Peek = "EndBlock", top.level > 0
               PROVE  top.level = lookahead[1].level
    <3>1. top.at = "block" /\ result = "running" => top.level \in Nat
      BY <1>1, RunningFacts DEF IInv, Frame
    <3> QED
      BY <3>1 DEF BlocksEndAtTheirEnd
  <2>1. TypeOK /\ Running /\ Fresh /\ Levels(frames)
    BY <1>1 DEF IInv, EndsInv, Stale
  <2>2. /\ lookahead \in Seq(Token) /\ depth \in Nat /\ Blocks(frames) \in Nat
        /\ frames \in Seq(Frame) /\ top = frames[Len(frames)] /\ Len(frames) \in Nat \ {0}
    BY <2>1, RunningFacts
  <2>3. Len(lookahead) = 1
    <3>1. PICK n \in Nat \ {0} : n = Len(lookahead)
      BY <2>2, FrontItems
    <3> QED
      BY <2>1, <3>1 DEF Fresh
  <2>4. lookahead[1].level = depth + 1 /\ indent_rules = <<>>
    BY <2>1 DEF Fresh
  <2>5. Count(lookahead, "EndBlock") = 1 /\ Count(lookahead, "BeginBlock") = 0
    BY <2>2, <2>3, CountSingle DEF Peek
  <2>6. Len(indent_rules) = 0
    BY <2>4, EmptySeq
  <2>7. depth + 1 = Blocks(frames)
    BY <2>1, <2>2, <2>5, <2>6 DEF Running, Balanced
  <2>8. top.level = Rank(frames, Len(frames))
    <3>1. Len(frames) \in 1..Len(frames)
      BY <2>2
    <3> QED
      BY <2>1, <2>2, <3>1 DEF Levels
  <2>9. Rank(frames, Len(frames)) = Blocks(frames)
    BY <2>2, RankOfTop
  <2> QED
    BY <2>4, <2>7, <2>8, <2>9
<1> QED
  BY <1>1, InitInvariant, NextInvariant, EndsInit, EndsNext, PTL DEF Spec
=============================================================================

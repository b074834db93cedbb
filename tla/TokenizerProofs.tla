--------------------------- MODULE TokenizerProofs --------------------------
(***************************************************************************)
(* For every text, every choice of character classes and every number of   *)
(* calls: the tokenizer stays within its types, its indentation stack      *)
(* strictly increases, and it implements BlockStructure.  Then what the    *)
(* tokens are: every location names the line that it is on, every          *)
(* character that is code is in one token, no token is cut short, the      *)
(* tokenizer panics only for a reason that the text gives, and the blocks  *)
(* of a token are those that the indentations of the lines say.            *)
(***************************************************************************)
EXTENDS Tokenizer, StackFacts

(* What the tokenizer_state says of the function that runs. *)
StateInv ==
    /\ fn = "next_indent" => tokenizer_state = "LookingForIndent"
    /\ fn = "next_outdent" => tokenizer_state = "EmittingOutdents"
    /\ fn = "next_eof" => tokenizer_state = "ReachedEOF"
    /\ fn \in Functions \ {"next_indent", "next_outdent", "next_eof"}
          => tokenizer_state = "LookingForNewline"

(* EOF has been handed out only with every block ended, and for good. *)
EOFInv ==
    (out # <<>> /\ out[Len(out)].data = "EOF")
        => /\ tokenizer_state = "ReachedEOF"
           /\ Len(indent_size_stack) <= 1

(* The symbol matched so far has just been read on this line, and is one     *)
(* that the loop goes on from.                                               *)
SymInv ==
    fn = "parse_symbol" =>
        /\ Len(sym) <= pos
        /\ Len(sym) <= column
        /\ sym # <<>> => sym \in CompletePrefix \cup Partial

IInv == TypeOK /\ IndentStackIncreasing /\ StateInv /\ EOFInv /\ SymInv

-----------------------------------------------------------------------------
(* A run of characters ends where the text ends at the latest. *)
LEMMA RunLengthBound ==
    ASSUME TypeOK, NEW p \in 0..Len(text), NEW C
    PROVE  RunLength(p, C) \in 0..(Len(text) - p)
<1> DEFINE k == Len(text) - p
           R == {n \in 1..k : \A i \in 1..n : text[p + i] \in C}
<1>1. Len(text) \in Nat
  BY LenProperties DEF TypeOK
<1>2. k \in Nat
  BY <1>1
<1>3. IsFiniteSet(1..k) /\ Cardinality(1..k) = k
  BY <1>2, FS_Interval
<1>4. IsFiniteSet(R) /\ Cardinality(R) <= k
  BY <1>3, FS_Subset, R \in SUBSET (1..k)
<1>5. Cardinality(R) \in Nat
  BY <1>4, FS_CardinalityType
<1> QED
  BY <1>2, <1>4, <1>5 DEF RunLength

(* A complete symbol is never one that the loop went on from: it is not a    *)
(* prefix of a longer symbol.                                                *)
LEMMA CompleteIsLast ==
    Complete \cap (CompletePrefix \cup Partial \cup {<<>>}) = {}
<1>1. ASSUME NEW n \in Nat
      PROVE  /\ Len([i \in 1..n |-> "<"]) = n
             /\ n >= 2 => [i \in 1..n |-> "<"][2] = "<"
  OBVIOUS
<1>2. \A t \in Complete :
        \/ Len(t) = 2 /\ t[2] \in {"=", ">"}
        \/ Len(t) = 1 /\ t[1] \in {"(", ")", "comma", ":"}
        \/ Len(t) = 7
  <2>1. Len([i \in 1..7 |-> "<"]) = 7
    BY <1>1
  <2>2. ASSUME NEW s \in {<<c, "=">> : c \in {"=", "!", "+", "-", "*", "/", "%", "<", ">"}}
        PROVE  Len(s) = 2 /\ s[2] = "="
    OBVIOUS
  <2>3. ASSUME NEW s \in {<<c>> : c \in {"(", ")", "comma", ":"}}
        PROVE  Len(s) = 1 /\ s[1] \in {"(", ")", "comma", ":"}
    OBVIOUS
  <2>4. ASSUME NEW s \in {<<"=", ">">>, <<"-", ">">>}
        PROVE  Len(s) = 2 /\ s[2] = ">"
    OBVIOUS
  <2> QED
    BY <2>1, <2>2, <2>3, <2>4 DEF Complete
<1>3. \A t \in CompletePrefix :
        \/ Len(t) = 2 /\ t[2] = "/"
        \/ Len(t) = 1 /\ t[1] \in {"+", "-", "*", "/", "=", "%", "<", ">"}
  BY DEF CompletePrefix
<1>4. \A t \in Partial :
        \/ Len(t) \in 2..5 /\ t[2] = "<"
        \/ Len(t) = 1 /\ t[1] = "!"
  BY <1>1 DEF Partial
<1>5. \A t \in {<<>>} : Len(t) = 0
  OBVIOUS
<1>6. ASSUME NEW s \in Complete
      PROVE  s \notin CompletePrefix /\ s \notin Partial /\ s \notin {<<>>}
  <2>1. s \notin CompletePrefix
    BY <1>2, <1>3, <1>6
  <2>2. s \notin Partial
    BY <1>2, <1>4, <1>6
  <2> QED
    BY <1>2, <1>5, <1>6, <2>1, <2>2
<1> QED
  BY <1>6

LEMMA SlicesAreText ==
    ASSUME TypeOK, NEW n \in Nat, pos + n <= Len(text)
    PROVE  Slice(n) \in Seq(Chars)
  BY SubSeqProperties, ElementOfSeq, LenProperties DEF TypeOK, Slice

(* The optional parts of a number lie within the text. *)
LEMMA AfterPartBound ==
    ASSUME TypeOK, NEW n \in Nat, pos + n <= Len(text), NEW mark
    PROVE  AfterPart(n, mark) \in Nat /\ pos + AfterPart(n, mark) <= Len(text)
<1>1. Len(text) \in Nat /\ pos \in Nat
  BY LenProperties DEF TypeOK
<1>2. CASE Ahead(n, mark)
  <2>1. pos + n + 1 \in 0..Len(text)
    BY <1>1, <1>2 DEF Ahead
  <2>2. RunLength(pos + n + 1, Digits) \in 0..(Len(text) - (pos + n + 1))
    BY <2>1, RunLengthBound
  <2> QED
    BY <1>1, <1>2, <2>2 DEF AfterPart
<1>3. CASE ~Ahead(n, mark)
  BY <1>3 DEF AfterPart
<1> QED
  BY <1>2, <1>3

(* Ending a block takes the last element off the stack. *)
LEMMA PopIsPrefix ==
    ASSUME TypeOK, Len(indent_size_stack) > 1
    PROVE  /\ Pop \in Seq(Nat)
           /\ Len(Pop) = Len(indent_size_stack) - 1
           /\ \A i \in 1..Len(Pop) : Pop[i] = indent_size_stack[i]
<1>1. Len(indent_size_stack) \in Nat
  BY LenProperties DEF TypeOK
<1>2. \A i \in 1..(Len(indent_size_stack) - 1) : indent_size_stack[i] \in Nat
  BY ElementOfSeq, <1>1 DEF TypeOK
<1> QED
  BY <1>1, <1>2, SubSeqProperties DEF Pop

LEMMA PopIncreasing ==
    ASSUME TypeOK, IndentStackIncreasing, Len(indent_size_stack) > 1,
           indent_size_stack' = Pop
    PROVE  IndentStackIncreasing'
<1>1. Len(indent_size_stack) \in Nat /\ DOMAIN indent_size_stack = 1..Len(indent_size_stack)
  BY LenProperties DEF TypeOK
<1>2. DOMAIN Pop = 1..Len(Pop)
  BY PopIsPrefix, LenProperties
<1> QED
  BY <1>1, <1>2, PopIsPrefix DEF IndentStackIncreasing

LEMMA PushIncreasing ==
    ASSUME TypeOK, IndentStackIncreasing, NEW n \in Nat, n > Top,
           indent_size_stack' = Append(indent_size_stack, n)
    PROVE  IndentStackIncreasing'
<1> DEFINE stack == indent_size_stack
<1>1. Len(stack) \in Nat /\ DOMAIN stack = 1..Len(stack) /\ stack \in Seq(Nat)
  BY LenProperties DEF TypeOK
<1>2. \A i \in DOMAIN stack : stack[i] \in Nat
  BY <1>1, ElementOfSeq
<1>3. /\ Append(stack, n) \in Seq(Nat)
      /\ Len(Append(stack, n)) = Len(stack) + 1
      /\ \A i \in 1..Len(stack) : Append(stack, n)[i] = stack[i]
      /\ Append(stack, n)[Len(stack) + 1] = n
  BY <1>1, AppendProperties
<1>4. DOMAIN Append(stack, n) = 1..(Len(stack) + 1)
  BY <1>3, LenProperties
<1>5. \A i \in DOMAIN stack : stack[i] < n
  <2>1. \A i \in DOMAIN stack : i < Len(stack) => stack[i] < stack[Len(stack)]
    BY <1>1 DEF IndentStackIncreasing
  <2> QED
    BY <1>1, <1>2, <2>1 DEF Top, IndentStackIncreasing
<1>6. \A i, j \in DOMAIN Append(stack, n) :
        i < j => Append(stack, n)[i] < Append(stack, n)[j]
  <2> SUFFICES ASSUME NEW i \in 1..(Len(stack) + 1), NEW j \in 1..(Len(stack) + 1), i < j
               PROVE  Append(stack, n)[i] < Append(stack, n)[j]
    BY <1>4
  <2>1. CASE j <= Len(stack)
    BY <1>1, <1>3, <2>1 DEF IndentStackIncreasing
  <2>2. CASE j = Len(stack) + 1
    BY <1>1, <1>3, <1>5, <2>2
  <2> QED
    BY <1>1, <2>1, <2>2
<1> QED
  BY <1>1, <1>3, <1>6 DEF IndentStackIncreasing

-----------------------------------------------------------------------------
(* The invariant holds initially, and every action preserves it. *)
LEMMA InitInv == Init => IInv
<1> SUFFICES ASSUME Init PROVE IInv
  OBVIOUS
<1>1. text \in Seq(Chars)
  BY TextsAssumption DEF Init
<1>2. TypeOK
  BY <1>1, LenProperties DEF Init, TypeOK, States
<1>3. IndentStackIncreasing
  BY DEF Init, IndentStackIncreasing
<1>4. StateInv /\ EOFInv /\ SymInv
  BY DEF Init, StateInv, EOFInv, SymInv, Functions
<1> QED
  BY <1>2, <1>3, <1>4 DEF IInv

(* A returned token is a token, and becomes the last one. *)
LEMMA ReturnType ==
    ASSUME TypeOK, NEW data \in TokenData, NEW start \in Location,
           NEW chars \in Seq(Chars), Return(data, start, chars)
    PROVE  /\ out' \in Seq(Token)
           /\ fn' = "caller"
           /\ out' # <<>>
           /\ out'[Len(out')].data = data
<1> DEFINE token == [data |-> data, start |-> start, text |-> chars]
<1>1. token \in Token /\ token.data = data
  BY DEF Token
<1>2. out \in Seq(Token) /\ out' = Append(out, token) /\ fn' = "caller"
  BY DEF Return, TypeOK
<1> HIDE DEF token
<1>3. /\ Append(out, token) \in Seq(Token)
      /\ Append(out, token) # <<>>
      /\ Append(out, token)[Len(Append(out, token))] = token
  BY <1>1, <1>2, AppendProperties, LenProperties
<1> QED
  BY <1>1, <1>2, <1>3

LEMMA StackTop ==
    ASSUME TypeOK, IndentStackIncreasing
    PROVE  /\ Len(indent_size_stack) \in Nat
           /\ Len(indent_size_stack) >= 1
           /\ Top \in Nat
  BY LenProperties, ElementOfSeq DEF TypeOK, IndentStackIncreasing, Top

LEMMA CallNextInv == IInv /\ CallNext => IInv'
<1> SUFFICES ASSUME IInv, CallNext PROVE IInv'
  OBVIOUS
<1> USE DEF IInv, CallNext, cursor
<1>1. Dispatch(tokenizer_state) \in
        {"next_indent", "next_line", "next_eof", "next_outdent"}
  BY DEF TypeOK, States, Dispatch
<1>2. TypeOK'
  BY <1>1 DEF TypeOK, Goto, Functions
<1>3. IndentStackIncreasing'
  BY DEF IndentStackIncreasing
<1>4. StateInv'
  BY DEF StateInv, Goto, Dispatch, TypeOK, States, Functions
<1>5. EOFInv' /\ SymInv'
  BY <1>1 DEF EOFInv, SymInv, Goto
<1> QED
  BY <1>2, <1>3, <1>4, <1>5

LEMMA NextEofInv == IInv /\ NextEof => IInv'
<1> SUFFICES ASSUME IInv, NextEof PROVE IInv'
  OBVIOUS
<1> USE DEF IInv, cursor
<1>1. location \in Location /\ <<>> \in Seq(Chars)
  BY LenProperties DEF TypeOK, location, Location
<1>2. CASE Len(indent_size_stack) > 1 /\ indent_size_stack' = Pop
             /\ Return("EndBlock", location, <<>>)
  <2>1. TypeOK' /\ out'[Len(out')].data = "EndBlock" /\ fn' = "caller"
    BY <1>1, <1>2, ReturnType, PopIsPrefix DEF NextEof, TypeOK, TokenData
  <2>2. IndentStackIncreasing'
    BY <1>2, PopIncreasing
  <2>3. StateInv' /\ EOFInv' /\ SymInv'
    BY <2>1 DEF StateInv, EOFInv, SymInv, Functions
  <2> QED
    BY <2>1, <2>2, <2>3
<1>3. CASE Len(indent_size_stack) <= 1 /\ UNCHANGED indent_size_stack
             /\ Return("EOF", location, <<>>)
  <2>1. TypeOK' /\ fn' = "caller"
    BY <1>1, <1>3, ReturnType DEF NextEof, TypeOK, TokenData
  <2>2. IndentStackIncreasing'
    BY <1>3 DEF IndentStackIncreasing
  <2>3. StateInv' /\ SymInv'
    BY <2>1 DEF StateInv, SymInv, Functions
  <2>4. tokenizer_state' = "ReachedEOF"
    BY DEF NextEof, StateInv
  <2>5. EOFInv'
    BY <1>3, <2>4 DEF EOFInv
  <2> QED
    BY <2>1, <2>2, <2>3, <2>5
<1> QED
  BY <1>2, <1>3 DEF NextEof

LEMMA NextIndentInv == IInv /\ NextIndent => IInv'
<1> SUFFICES ASSUME IInv, NextIndent PROVE IInv'
  OBVIOUS
<1> USE DEF IInv, cursor
<1> DEFINE n == RunLength(pos, Spacing)
<1>1. Len(text) \in Nat /\ pos \in Nat /\ n \in Nat /\ pos + n <= Len(text)
  BY RunLengthBound, LenProperties DEF TypeOK
<1>2. CASE /\ tokenizer_state' = "ReachedEOF" /\ Goto("next_eof")
           /\ UNCHANGED <<cursor, indent_size_stack>>
  <2>1. TypeOK'
    BY <1>2 DEF NextIndent, TypeOK, Goto, States, Functions
  <2>2. IndentStackIncreasing'
    BY <1>2 DEF IndentStackIncreasing
  <2>3. StateInv' /\ EOFInv' /\ SymInv'
    BY <1>2 DEF NextIndent, StateInv, EOFInv, SymInv, Goto, Functions
  <2> QED
    BY <2>1, <2>2, <2>3
<1>3. CASE Consume(n) /\ Indentation(n)
  <2> USE <1>3 DEF NextIndent
  <2>1. pos' \in 0..Len(text') /\ column' \in Nat /\ line' \in Nat
    BY <1>1 DEF Consume, TypeOK
  <2>2. tokenizer_state = "LookingForIndent"
    BY DEF StateInv
  <2>3. CASE n = Top /\ tokenizer_state' = "LookingForNewline"
               /\ Goto("next_line") /\ UNCHANGED indent_size_stack
    BY <2>1, <2>2, <2>3
       DEF TypeOK, Goto, States, Functions, IndentStackIncreasing, StateInv,
           EOFInv, SymInv
  <2>4. CASE /\ n > Top
             /\ tokenizer_state' = "LookingForNewline"
             /\ indent_size_stack' = Append(indent_size_stack, n)
             /\ Return("BeginBlock", LocationAhead(n), <<>>)
    <3>1. LocationAhead(n) \in Location /\ <<>> \in Seq(Chars)
      BY <1>1 DEF LocationAhead, Location, TypeOK
    <3>2. /\ out' \in Seq(Token) /\ fn' = "caller"
          /\ out'[Len(out')].data = "BeginBlock"
      BY <2>4, <3>1, ReturnType DEF TokenData
    <3>3. indent_size_stack' \in Seq(Nat)
      BY <1>1, <2>4, AppendProperties DEF TypeOK
    <3>4. TypeOK'
      BY <2>1, <2>4, <3>2, <3>3 DEF TypeOK, States
    <3>5. IndentStackIncreasing'
      BY <1>1, <2>4, PushIncreasing
    <3> QED
      BY <3>2, <3>4, <3>5 DEF StateInv, EOFInv, SymInv, Functions
  <2>5. CASE n < Top /\ tokenizer_state' = "EmittingOutdents"
               /\ Goto("next_outdent") /\ UNCHANGED indent_size_stack
    BY <2>1, <2>2, <2>5
       DEF TypeOK, Goto, States, Functions, IndentStackIncreasing, StateInv,
           EOFInv, SymInv
  <2> QED
    BY <2>3, <2>4, <2>5 DEF Indentation
<1> QED
  BY <1>2, <1>3 DEF NextIndent

LEMMA NextOutdentInv == IInv /\ NextOutdent => IInv'
<1> SUFFICES ASSUME IInv, NextOutdent PROVE IInv'
  OBVIOUS
<1> USE DEF IInv, cursor
<1>1. /\ Len(indent_size_stack) \in Nat /\ Len(indent_size_stack) >= 1
      /\ Top \in Nat /\ pos \in Nat /\ column \in Nat /\ line \in Nat
  BY StackTop, LenProperties DEF TypeOK
<1>2. tokenizer_state = "EmittingOutdents" /\ UNCHANGED <<text, cursor, sym>>
  BY DEF NextOutdent, StateInv
<1>3. CASE /\ Len(indent_size_stack) > 1
           /\ Top > column
           /\ indent_size_stack' = Pop
           /\ Return("EndBlock", OutdentLocation(Top), <<>>)
           /\ UNCHANGED tokenizer_state
  <2>1. OutdentLocation(Top) \in Location /\ <<>> \in Seq(Chars)
    BY <1>1, <1>3 DEF OutdentLocation, Location
  <2>2. /\ out' \in Seq(Token) /\ fn' = "caller"
        /\ out'[Len(out')].data = "EndBlock"
    BY <1>3, <2>1, ReturnType DEF TokenData
  <2>3. TypeOK'
    BY <1>2, <1>3, <2>2, PopIsPrefix DEF TypeOK
  <2>4. IndentStackIncreasing'
    BY <1>3, PopIncreasing
  <2> QED
    BY <2>2, <2>3, <2>4 DEF StateInv, EOFInv, SymInv, Functions
<1>4. CASE /\ Len(indent_size_stack) = 1
           /\ column > 0
           /\ indent_size_stack' = Append(indent_size_stack, column)
           /\ tokenizer_state' = "LookingForNewline"
           /\ Return("BeginBlock", location, <<>>)
  <2>1. location \in Location /\ <<>> \in Seq(Chars)
    BY <1>1 DEF location, Location
  <2>2. /\ out' \in Seq(Token) /\ fn' = "caller"
        /\ out'[Len(out')].data = "BeginBlock"
    BY <1>4, <2>1, ReturnType DEF TokenData
  <2>3. indent_size_stack' \in Seq(Nat)
    BY <1>1, <1>4, AppendProperties DEF TypeOK
  <2>4. TypeOK'
    BY <1>2, <1>4, <2>2, <2>3 DEF TypeOK, States
  <2>5. Top = 0
    BY <1>4 DEF Top, IndentStackIncreasing
  <2>6. IndentStackIncreasing'
    BY <1>1, <1>4, <2>5, PushIncreasing
  <2> QED
    BY <2>2, <2>4, <2>6 DEF StateInv, EOFInv, SymInv, Functions
<1>5. CASE /\ tokenizer_state' = "LookingForNewline"
           /\ Goto("next_line")
           /\ UNCHANGED indent_size_stack
  BY <1>2, <1>5
     DEF TypeOK, Goto, States, Functions, IndentStackIncreasing, StateInv,
         EOFInv, SymInv
<1> QED
  BY <1>3, <1>4, <1>5 DEF NextOutdent

LEMMA NextLineInv == IInv /\ NextLine => IInv'
<1> SUFFICES ASSUME IInv, NextLine PROVE IInv'
  OBVIOUS
<1> USE DEF IInv, cursor
<1> DEFINE n == RunLength(pos, Spacing)
<1>1. Len(text) \in Nat /\ pos \in Nat /\ n \in Nat /\ pos + n <= Len(text)
  BY RunLengthBound, LenProperties DEF TypeOK
<1>2. /\ tokenizer_state = "LookingForNewline"
      /\ UNCHANGED <<text, indent_size_stack>>
      /\ sym' = <<>> /\ Len(sym') = 0
  BY DEF NextLine, StateInv, Functions
<1>3. IndentStackIncreasing'
  BY <1>2 DEF IndentStackIncreasing
<1>4. EOFInv' /\ UNCHANGED out
  BY <1>2 DEF NextLine, EndOfLine, EOFInv, Goto
<1>5. pos' \in 0..Len(text) /\ line' \in Nat /\ column' \in Nat
  <2>1. CASE Consume(n)
    BY <1>1, <2>1 DEF Consume, TypeOK
  <2>2. CASE Ahead(n, {CR, LF}) /\ EndOfLine(n)
    <3> DEFINE n1 == IF text[pos + n + 1] = CR THEN n + 1 ELSE n
    <3>1. n1 \in Nat /\ pos + n1 <= Len(text)
      BY <1>1, <2>2 DEF Ahead
    <3> HIDE DEF n1
    <3>2. CASE Ahead(n1, {LF}) /\ ConsumeLine(n1 + 1)
      BY <1>1, <3>1, <3>2 DEF Ahead, ConsumeLine, TypeOK
    <3>3. CASE Consume(n1)
      BY <1>1, <3>1, <3>3 DEF Consume, TypeOK
    <3> QED
      BY <2>2, <3>2, <3>3 DEF EndOfLine, n1
  <2> QED
    BY <2>1, <2>2 DEF NextLine
<1>6. /\ tokenizer_state' \in States
      /\ fn' \in Functions \cup {"panic"}
      /\ StateInv'
  BY <1>2 DEF NextLine, EndOfLine, Goto, LexemeParser, States, Functions, StateInv
<1>7. TypeOK'
  BY <1>2, <1>4, <1>5, <1>6 DEF TypeOK
<1>8. SymInv'
  BY <1>2, <1>5 DEF SymInv
<1> QED
  BY <1>3, <1>4, <1>6, <1>7, <1>8

LEMMA ParseKeywordOrIdentInv == IInv /\ ParseKeywordOrIdent => IInv'
<1> SUFFICES ASSUME IInv, ParseKeywordOrIdent PROVE IInv'
  OBVIOUS
<1> USE DEF IInv, cursor
<1> DEFINE n == RunLength(pos, IdentChars)
           data == CASE Slice(n) \in Keywords     -> "Keyword"
                     [] Slice(n) \in BoolLiterals -> "BoolLiteral"
                     [] OTHER                     -> "Ident"
<1>1. Len(text) \in Nat /\ pos \in Nat /\ n \in Nat /\ pos + n <= Len(text)
  BY RunLengthBound, LenProperties DEF TypeOK
<1>2. data \in TextData /\ data \in TokenData
  BY DEF TokenData, TextData
<1>3. location \in Location /\ Slice(n) \in Seq(Chars)
  BY <1>1, SlicesAreText DEF location, Location, TypeOK
<1>4. Return(data, location, Slice(n)) /\ Consume(n)
  BY DEF ParseKeywordOrIdent
<1> HIDE DEF n, data
<1>5. out' \in Seq(Token) /\ fn' = "caller" /\ out'[Len(out')].data = data
  BY <1>2, <1>3, <1>4, ReturnType
<1>6. pos' \in 0..Len(text) /\ line' \in Nat /\ column' \in Nat
  BY <1>1, <1>4 DEF Consume, TypeOK
<1>7. TypeOK'
  BY <1>5, <1>6 DEF ParseKeywordOrIdent, TypeOK
<1>8. IndentStackIncreasing'
  BY DEF ParseKeywordOrIdent, IndentStackIncreasing
<1>9. EOFInv' /\ StateInv' /\ SymInv'
  BY <1>2, <1>5 DEF EOFInv, StateInv, SymInv, TextData, Functions
<1> QED
  BY <1>7, <1>8, <1>9

LEMMA ParseFloatLiteralInv == IInv /\ ParseFloatLiteral => IInv'
<1> SUFFICES ASSUME IInv, ParseFloatLiteral PROVE IInv'
  OBVIOUS
<1> USE DEF IInv, cursor
<1> DEFINE whole == RunLength(pos, Digits)
           fraction == AfterPart(whole, {"."})
           all == AfterPart(fraction, Exponents)
<1>1. Len(text) \in Nat /\ pos \in Nat /\ whole \in Nat /\ pos + whole <= Len(text)
  BY RunLengthBound, LenProperties DEF TypeOK
<1>2. fraction \in Nat /\ pos + fraction <= Len(text)
  BY <1>1, AfterPartBound
<1>3. all \in Nat /\ pos + all <= Len(text)
  BY <1>2, AfterPartBound
<1>4. UNCHANGED <<text, tokenizer_state, indent_size_stack, sym>>
  BY DEF ParseFloatLiteral
<1>5. IndentStackIncreasing'
  BY <1>4 DEF IndentStackIncreasing
<1>6. CASE Goto("panic") /\ UNCHANGED cursor
  BY <1>4, <1>5, <1>6 DEF Goto, TypeOK, StateInv, EOFInv, SymInv, Functions
<1>7. CASE Return("NumberLiteral", location, Slice(all)) /\ Consume(all)
  <2>1. location \in Location /\ Slice(all) \in Seq(Chars)
    BY <1>1, <1>3, SlicesAreText DEF location, Location, TypeOK
  <2> HIDE DEF all
  <2>2. /\ out' \in Seq(Token) /\ fn' = "caller"
        /\ out'[Len(out')].data = "NumberLiteral"
    BY <1>7, <2>1, ReturnType DEF TokenData
  <2>3. pos' \in 0..Len(text) /\ line' \in Nat /\ column' \in Nat
    BY <1>1, <1>3, <1>7 DEF Consume, TypeOK
  <2>4. TypeOK'
    BY <1>4, <2>2, <2>3 DEF TypeOK
  <2> QED
    BY <1>5, <2>2, <2>4 DEF StateInv, EOFInv, SymInv, Functions
<1> QED
  BY <1>6, <1>7 DEF ParseFloatLiteral

(* What has been matched of a symbol lies behind the cursor, so that the     *)
(* location of the token is one.                                             *)
LEMMA SymStartType ==
    ASSUME TypeOK, SymInv, fn = "parse_symbol"
    PROVE  SymStart \in Location
<1>1. /\ Len(sym) \in Nat /\ pos \in Nat /\ column \in Nat /\ line \in Nat
      /\ Len(sym) <= pos /\ Len(sym) <= column
  BY LenProperties DEF TypeOK, SymInv
<1> QED
  BY <1>1 DEF SymStart, Location

LEMMA ParseSymbolInv == IInv /\ ParseSymbol => IInv'
<1> SUFFICES ASSUME IInv, ParseSymbol PROVE IInv'
  OBVIOUS
<1> USE DEF IInv, cursor
<1> DEFINE more == pos < Len(text)
           s == IF more THEN Append(sym, text[pos + 1]) ELSE sym
<1>1. /\ fn = "parse_symbol" /\ tokenizer_state = "LookingForNewline"
      /\ UNCHANGED <<text, tokenizer_state, indent_size_stack>>
  BY DEF ParseSymbol, StateInv, Functions
<1>2. /\ Len(text) \in Nat /\ pos \in 0..Len(text) /\ column \in Nat
      /\ line \in Nat /\ sym \in Seq(Chars) /\ Len(sym) \in Nat
      /\ Len(sym) <= pos /\ Len(sym) <= column
  BY <1>1, LenProperties DEF TypeOK, SymInv
<1>3. s \in Seq(Chars) /\ (more => Len(s) = Len(sym) + 1)
  <2>1. more => text[pos + 1] \in Chars
    BY <1>2, ElementOfSeq DEF TypeOK
  <2> QED
    BY <1>2, <2>1, AppendProperties
<1>4. SymStart \in Location
  BY <1>1, SymStartType
<1>5. IndentStackIncreasing'
  BY <1>1 DEF IndentStackIncreasing
<1>6. s \in Complete => more
  BY <1>1, CompleteIsLast DEF SymInv
<1> HIDE DEF s
<1>7. CASE /\ Consume(RunLength(pos, Chars \ {LF}))
           /\ Goto(Dispatch(tokenizer_state))
           /\ UNCHANGED sym
  <2>1. RunLength(pos, Chars \ {LF}) \in 0..(Len(text) - pos)
    BY <1>2, RunLengthBound
  <2>2. pos' \in 0..Len(text) /\ line' \in Nat /\ column' \in Nat
    BY <1>2, <1>7, <2>1 DEF Consume
  <2>3. fn' = "next_line" /\ UNCHANGED out
    BY <1>1, <1>7 DEF Goto, Dispatch
  <2>4. TypeOK'
    BY <1>1, <1>7, <2>2, <2>3 DEF TypeOK, Functions
  <2> QED
    BY <1>1, <1>5, <1>7, <2>3, <2>4 DEF StateInv, EOFInv, SymInv, Functions
<1>8. ASSUME NEW chars \in Seq(Chars), Return("Symbol", SymStart, chars),
             pos' \in 0..Len(text), line' \in Nat, column' \in Nat, UNCHANGED sym
      PROVE  IInv'
  <2>1. /\ out' \in Seq(Token) /\ fn' = "caller"
        /\ out'[Len(out')].data = "Symbol"
    BY <1>4, <1>8, ReturnType DEF TokenData
  <2>2. TypeOK'
    BY <1>1, <1>8, <2>1 DEF TypeOK
  <2> QED
    BY <1>5, <2>1, <2>2 DEF StateInv, EOFInv, SymInv, Functions
<1>9. CASE s \in Complete /\ Consume(1) /\ Return("Symbol", SymStart, s)
             /\ UNCHANGED sym
  <2>1. pos' \in 0..Len(text) /\ line' \in Nat /\ column' \in Nat
    BY <1>2, <1>6, <1>9 DEF Consume
  <2> QED
    BY <1>3, <1>8, <1>9, <2>1
<1>10. CASE /\ s \in CompletePrefix \cup Partial
            /\ more /\ Consume(1) /\ sym' = s /\ UNCHANGED <<fn, out>>
  <2>1. /\ pos' \in 0..Len(text) /\ line' \in Nat /\ column' \in Nat
        /\ Len(sym') <= pos' /\ Len(sym') <= column'
    BY <1>2, <1>3, <1>10 DEF Consume
  <2>2. TypeOK'
    BY <1>1, <1>3, <1>10, <2>1 DEF TypeOK
  <2>3. SymInv'
    BY <1>10, <2>1 DEF SymInv
  <2>4. StateInv' /\ EOFInv'
    BY <1>1, <1>10 DEF StateInv, EOFInv
  <2> QED
    BY <1>5, <2>2, <2>3, <2>4
<1>11. CASE Return("Symbol", SymStart, s) /\ UNCHANGED <<cursor, sym>>
  BY <1>2, <1>3, <1>8, <1>11
<1>12. CASE Return("Symbol", SymStart, sym) /\ UNCHANGED <<cursor, sym>>
  BY <1>2, <1>8, <1>12
<1>13. CASE Goto("panic") /\ UNCHANGED <<cursor, sym>>
  BY <1>1, <1>5, <1>13 DEF Goto, TypeOK, StateInv, EOFInv, SymInv, Functions
<1> QED
  BY <1>7, <1>9, <1>10, <1>11, <1>12, <1>13 DEF ParseSymbol, s

-----------------------------------------------------------------------------
LEMMA StutterInv == IInv /\ UNCHANGED vars => IInv'
  BY DEF IInv, vars, cursor, TypeOK, IndentStackIncreasing, StateInv, EOFInv, SymInv

(* The five parts of the invariant hold together in every reachable state.   *)
LEMMA Invariance == Spec => []IInv
<1>1. IInv /\ [Next]_vars => IInv'
  <2> SUFFICES ASSUME IInv, [Next]_vars PROVE IInv'
    OBVIOUS
  <2>1. CASE Next
    BY <2>1, CallNextInv, NextEofInv, NextIndentInv, NextOutdentInv,
       NextLineInv, ParseKeywordOrIdentInv, ParseFloatLiteralInv,
       ParseSymbolInv, StutterInv DEF Next, Stopped
  <2>2. CASE UNCHANGED vars
    BY <2>2, StutterInv
  <2> QED
    BY <2>1, <2>2
<1> QED
  BY InitInv, <1>1, PTL DEF Spec

(* Every variable of the tokenizer stays within its type, whatever the text: *)
(* no cursor runs past the text and no location is negative.                 *)
THEOREM TypeCorrect == Spec => []TypeOK
  BY Invariance, PTL DEF IInv

(* The stack of indentations keeps its base and strictly increases, the      *)
(* indentation that next_outdent pushes unchecked included.                  *)
THEOREM IndentStackIsIncreasing == Spec => []IndentStackIncreasing
  BY Invariance, PTL DEF IInv

-----------------------------------------------------------------------------
(* A returned token decides the class that BlockStructure sees. *)
LEMMA ReturnClass ==
    ASSUME TypeOK, NEW data \in TokenData, NEW start \in Location,
           NEW chars \in Seq(Chars), Return(data, start, chars)
    PROVE  LastClass' = Class(data)
  BY ReturnType DEF LastClass, Class

LEMMA ClassIsEOF ==
    ASSUME TypeOK, EOFInv, LastClass = "EOF"
    PROVE  tokenizer_state = "ReachedEOF" /\ Len(indent_size_stack) <= 1
<1>1. out # <<>> /\ Class(out[Len(out)].data) = "EOF"
  BY DEF LastClass
<1>2. out[Len(out)].data = "EOF"
  BY <1>1 DEF Class
<1> QED
  BY <1>1, <1>2 DEF EOFInv

(* Each step of the tokenizer is a step of BlockStructure or leaves what     *)
(* BlockStructure sees alone.                                                *)
LEMMA StepSimulation ==
    ASSUME IInv, [Next]_vars
    PROVE  [Blocks!Next]_(Blocks!vars)
<1> USE DEF IInv
<1>1. /\ Len(indent_size_stack) \in Nat /\ Len(indent_size_stack) >= 1
      /\ Top \in Nat /\ pos \in Nat /\ column \in Nat /\ line \in Nat
      /\ indent_size_stack \in Seq(Nat)
      /\ <<>> \in Seq(Chars)
      /\ location \in Location
  BY StackTop, LenProperties DEF TypeOK, location, Location
<1>2. ASSUME UNCHANGED <<indent_size_stack, out>>
      PROVE  UNCHANGED Blocks!vars
  BY <1>2 DEF Blocks!vars, OpenBlocks, LastClass
<1>3. ASSUME NEW data \in TextData, NEW start \in Location, NEW chars \in Seq(Chars),
             Return(data, start, chars), UNCHANGED indent_size_stack,
             tokenizer_state # "ReachedEOF"
      PROVE  Blocks!Text
  <2>1. LastClass' = "Text"
    BY <1>3, ReturnClass DEF TextData, Class
  <2>2. LastClass # "EOF"
    BY <1>3, ClassIsEOF
  <2> QED
    BY <1>3, <2>1, <2>2 DEF Blocks!Text, OpenBlocks
<1>4. ASSUME NEW start \in Location, NEW n \in Nat,
             Return("BeginBlock", start, <<>>),
             indent_size_stack' = Append(indent_size_stack, n),
             tokenizer_state # "ReachedEOF"
      PROVE  Blocks!BeginBlock
  <2>1. LastClass' = "BeginBlock"
    BY <1>1, <1>4, ReturnClass DEF TextData, TokenData, Class
  <2>2. LastClass # "EOF"
    BY <1>4, ClassIsEOF
  <2>3. Len(indent_size_stack') = Len(indent_size_stack) + 1
    BY <1>1, <1>4, AppendProperties
  <2> QED
    BY <1>1, <2>1, <2>2, <2>3 DEF Blocks!BeginBlock, OpenBlocks
<1>5. ASSUME NEW start \in Location, Return("EndBlock", start, <<>>),
             Len(indent_size_stack) > 1, indent_size_stack' = Pop
      PROVE  Blocks!EndBlock
  <2>1. LastClass' = "EndBlock"
    BY <1>1, <1>5, ReturnClass DEF TextData, TokenData, Class
  <2>2. LastClass # "EOF"
    BY <1>1, <1>5, ClassIsEOF
  <2>3. Len(indent_size_stack') = Len(indent_size_stack) - 1
    BY <1>5, PopIsPrefix
  <2> QED
    BY <1>1, <1>5, <2>1, <2>2, <2>3 DEF Blocks!EndBlock, OpenBlocks
<1>6. CASE CallNext
  BY <1>2, <1>6 DEF CallNext, Goto
<1>7. CASE NextEof
  <2>1. CASE Len(indent_size_stack) > 1 /\ indent_size_stack' = Pop
               /\ Return("EndBlock", location, <<>>)
    BY <1>1, <1>5, <2>1 DEF Blocks!Next
  <2>2. CASE /\ Len(indent_size_stack) <= 1
             /\ Return("EOF", location, <<>>)
             /\ UNCHANGED indent_size_stack
    <3>1. LastClass' = "EOF"
      BY <1>1, <2>2, ReturnClass DEF TextData, TokenData, Class
    <3>2. UNCHANGED OpenBlocks
      BY <2>2 DEF OpenBlocks
    <3>3. \A k \in Nat : k >= 1 /\ k <= 1 => k - 1 = 0
      OBVIOUS
    <3>4. OpenBlocks = 0
      BY <1>1, <2>2, <3>3, Zenon DEF OpenBlocks
    <3> QED
      BY <3>1, <3>2, <3>4 DEF Blocks!EndOfFile, Blocks!Next
  <2> QED
    BY <1>7, <2>1, <2>2 DEF NextEof
<1>8. CASE NextIndent
  <2>1. tokenizer_state # "ReachedEOF"
    BY <1>8 DEF NextIndent, StateInv
  <2>2. RunLength(pos, Spacing) \in Nat /\ LocationAhead(RunLength(pos, Spacing)) \in Location
    BY <1>1, RunLengthBound DEF TypeOK, LocationAhead, Location
  <2>3. CASE /\ indent_size_stack' = Append(indent_size_stack, RunLength(pos, Spacing))
             /\ Return("BeginBlock", LocationAhead(RunLength(pos, Spacing)), <<>>)
    BY <1>4, <2>1, <2>2, <2>3 DEF Blocks!Next
  <2>4. CASE UNCHANGED <<indent_size_stack, out>>
    BY <1>2, <2>4
  <2> QED
    BY <1>8, <2>3, <2>4 DEF NextIndent, Indentation, Goto
<1>9. CASE NextOutdent
  <2>1. tokenizer_state # "ReachedEOF"
    BY <1>9 DEF NextOutdent, StateInv
  <2>2. CASE /\ Len(indent_size_stack) > 1 /\ Top > column
             /\ indent_size_stack' = Pop
             /\ Return("EndBlock", OutdentLocation(Top), <<>>)
    <3>1. OutdentLocation(Top) \in Location
      BY <1>1, <2>2 DEF OutdentLocation, Location
    <3> QED
      BY <1>5, <2>2, <3>1 DEF Blocks!Next
  <2>3. CASE /\ indent_size_stack' = Append(indent_size_stack, column)
             /\ Return("BeginBlock", location, <<>>)
    BY <1>1, <1>4, <2>1, <2>3 DEF Blocks!Next
  <2>4. CASE UNCHANGED <<indent_size_stack, out>>
    BY <1>2, <2>4
  <2> QED
    BY <1>9, <2>2, <2>3, <2>4 DEF NextOutdent, Goto
<1>10. CASE NextLine
  BY <1>2, <1>10 DEF NextLine, EndOfLine, Goto
<1>11. CASE ParseKeywordOrIdent
  <2> DEFINE n == RunLength(pos, IdentChars)
             data == CASE Slice(n) \in Keywords     -> "Keyword"
                       [] Slice(n) \in BoolLiterals -> "BoolLiteral"
                       [] OTHER                     -> "Ident"
  <2>1. tokenizer_state # "ReachedEOF"
    BY <1>11 DEF ParseKeywordOrIdent, StateInv, Functions
  <2>2. data \in TextData /\ Slice(n) \in Seq(Chars)
    BY <1>1, RunLengthBound, LenProperties, SlicesAreText DEF TypeOK, TextData, TokenData
  <2>3. Return(data, location, Slice(n)) /\ UNCHANGED indent_size_stack
    BY <1>11 DEF ParseKeywordOrIdent
  <2> QED
    BY <1>1, <1>3, <2>1, <2>2, <2>3 DEF Blocks!Next
<1>12. CASE ParseFloatLiteral
  <2> DEFINE all == AfterPart(AfterPart(RunLength(pos, Digits), {"."}), Exponents)
  <2>1. tokenizer_state # "ReachedEOF" /\ UNCHANGED indent_size_stack
    BY <1>12 DEF ParseFloatLiteral, StateInv, Functions
  <2>2. all \in Nat /\ pos + all <= Len(text)
    <3>1. /\ RunLength(pos, Digits) \in Nat
          /\ pos + RunLength(pos, Digits) <= Len(text)
      BY <1>1, RunLengthBound, LenProperties DEF TypeOK
    <3> QED
      BY <3>1, AfterPartBound
  <2>3. Slice(all) \in Seq(Chars)
    BY <2>2, SlicesAreText
  <2>4. CASE Return("NumberLiteral", location, Slice(all))
    BY <1>1, <1>3, <2>1, <2>3, <2>4 DEF Blocks!Next, TextData, TokenData
  <2>5. CASE UNCHANGED out
    BY <1>2, <2>1, <2>5
  <2> QED
    BY <1>12, <2>4, <2>5 DEF ParseFloatLiteral, Goto
<1>13. CASE ParseSymbol
  <2> DEFINE s == IF pos < Len(text) THEN Append(sym, text[pos + 1]) ELSE sym
  <2>1. tokenizer_state # "ReachedEOF" /\ UNCHANGED indent_size_stack
    BY <1>13 DEF ParseSymbol, StateInv, Functions
  <2>2. SymStart \in Location /\ sym \in Seq(Chars)
    BY <1>13, SymStartType DEF ParseSymbol, TypeOK
  <2>3. s \in Seq(Chars)
    BY <1>1, LenProperties, ElementOfSeq, AppendProperties DEF TypeOK
  <2> HIDE DEF s
  <2>4. ASSUME NEW chars \in Seq(Chars), Return("Symbol", SymStart, chars)
        PROVE  Blocks!Next
    BY <1>3, <2>1, <2>2, <2>4 DEF Blocks!Next, TextData, TokenData
  <2>5. CASE UNCHANGED out
    BY <1>2, <2>1, <2>5
  <2>6. CASE Return("Symbol", SymStart, s) \/ Return("Symbol", SymStart, sym)
    BY <2>2, <2>3, <2>4, <2>6
  <2> QED
    BY <1>13, <2>5, <2>6 DEF ParseSymbol, Goto, s
<1>14. CASE UNCHANGED vars
  BY <1>2, <1>14 DEF vars
<1> QED
  BY <1>6, <1>7, <1>8, <1>9, <1>10, <1>11, <1>12, <1>13, <1>14 DEF Next, Stopped

(* The tokenizer implements BlockStructure: the block markers nest, EOF is   *)
(* handed out only with every block ended, and nothing but EOF follows it.   *)
THEOREM TokenizerImplementsBlockStructure == Spec => ImplementsBlockStructure
<1>1. Init => Blocks!Init
  BY DEF Init, Blocks!Init, OpenBlocks, LastClass
<1>2. IInv /\ [Next]_vars => [Blocks!Next]_(Blocks!vars)
  BY StepSimulation
<1> QED
  BY <1>1, <1>2, Invariance, PTL DEF Spec, ImplementsBlockStructure, Blocks!Spec

-----------------------------------------------------------------------------
(* The text and its tokens. *)

(* A location on the line that starts after its first index - column         *)
(* characters.                                                               *)
OnItsLine(start) ==
    /\ start.index >= start.column
    /\ StartsLine(start.index - start.column)
    /\ LinesBefore(start.index - start.column) = start.line

(* The cursor is on the line it says, at the column it says. *)
CursorInv ==
    /\ OnItsLine(location)
    /\ \A p \in pos - column + 1 .. pos : text[p] # LF

(* The characters that the functions of the lexemes find before them. *)
AheadInv ==
    /\ fn = "parse_float_literal" => Ahead(0, Digits) /\ sym = <<>>
    /\ fn = "parse_keyword_or_ident" => Ahead(0, Letters)
    /\ (fn = "parse_symbol" /\ sym = <<>>) => Ahead(0, SymbolChars)

(* The symbol matched so far is what has been read last, and no comment. *)
MatchedInv ==
    fn = "parse_symbol" =>
        /\ ~IsComment(sym)
        /\ \A i \in 1..Len(sym) : text[pos - Len(sym) + i] = sym[i]

(* The characters before the token that is being read. *)
Before == IF fn = "parse_symbol" THEN pos - Len(sym) ELSE pos

(* A comment starts at q. *)
Opens(q) == q < Len(text) /\ text[q] = "/" /\ text[q + 1] = "/"

(* Every comment that starts in the first e characters ends in them. *)
CommentsEnd(e) ==
    \A q \in 1..e : Opens(q) => \E r \in q..e : text[r] = LF

LexemeFunctions == {"parse_symbol", "parse_keyword_or_ident", "parse_float_literal"}

(* The cursor is in no comment, unless it has just been moved to its end. *)
CommentInv ==
    \/ fn = "panic"
    \/ CommentsEnd(Before)
    \/ /\ fn \notin LexemeFunctions
       /\ pos < Len(text) => text[pos + 1] = LF

(* TokensTileCode at every step, for the characters before the token being   *)
(* read.                                                                     *)
Tiled(e) ==
    /\ \A p \in CodePositions :
          p <= e <=> \E i \in DOMAIN out : p \in Positions(out[i])
    /\ \A i \in DOMAIN out :
          /\ Positions(out[i]) \subseteq CodePositions
          /\ \A j \in DOMAIN out :
                i # j => Positions(out[i]) \cap Positions(out[j]) = {}
          /\ out[i].text = SubSeq(text, out[i].start.index + 1,
                                  out[i].start.index + Len(out[i].text))

TileInv == fn = "panic" \/ Tiled(Before)

(* Where every token handed out is, and that none was cut short. *)
GoodTokens == LocationsConsistent /\ MaximalMunch

TextInv ==
    /\ CursorInv
    /\ AheadInv
    /\ MatchedInv
    /\ CommentInv
    /\ TileInv
    /\ GoodTokens
    /\ PanicsHaveACause

-----------------------------------------------------------------------------
(* Facts about the characters of the text. *)

LEMMA Cursor ==
    ASSUME TypeOK
    PROVE  /\ Len(text) \in Nat /\ pos \in Nat /\ pos <= Len(text)
           /\ column \in Nat /\ line \in Nat
           /\ DOMAIN text = 1..Len(text)
           /\ \A p \in 1..Len(text) : text[p] \in Chars
           /\ sym \in Seq(Chars) /\ Len(sym) \in Nat /\ DOMAIN sym = 1..Len(sym)
           /\ out \in Seq(Token) /\ Len(out) \in Nat /\ DOMAIN out = 1..Len(out)
           /\ \A i \in 1..Len(out) : out[i] \in Token
  BY LenProperties, ElementOfSeq DEF TypeOK

(* A run takes all that it may: its characters are of the class and the      *)
(* character after it is not.                                                *)
LEMMA RunLengthExact ==
    ASSUME TypeOK, NEW p \in 0..Len(text), NEW C
    PROVE  /\ RunLength(p, C) \in Nat
           /\ p + RunLength(p, C) <= Len(text)
           /\ \A i \in 1..RunLength(p, C) : text[p + i] \in C
           /\ p + RunLength(p, C) < Len(text) => text[p + RunLength(p, C) + 1] \notin C
<1> DEFINE k == Len(text) - p
           R == {n \in 1..k : \A i \in 1..n : text[p + i] \in C}
           r == Cardinality(R)
<1>1. k \in Nat /\ Len(text) \in Nat /\ p \in Nat
  BY Cursor
<1>2. r = RunLength(p, C) /\ r \in 0..k
  BY <1>1, RunLengthBound DEF RunLength
<1>3. ASSUME NEW n \in Nat
      PROVE  IsFiniteSet(1..n) /\ Cardinality(1..n) = n
  BY FS_Interval
<1>4. IsFiniteSet(R)
  BY <1>1, <1>3, FS_Subset, R \in SUBSET (1..k)
<1>5. ASSUME NEW n \in R, NEW m \in 1..n
      PROVE  m \in R
  <2>1. m \in 1..k /\ 1..m \subseteq 1..n
    BY <1>1, <1>5
  <2> QED
    BY <1>5, <2>1
<1>6. R \subseteq 1..r
  <2> SUFFICES ASSUME NEW n \in R PROVE n \in 1..r
    OBVIOUS
  <2>1. n \in Nat /\ (1..n) \in SUBSET R
    BY <1>1, <1>5
  <2>2. IsFiniteSet(1..n) /\ Cardinality(1..n) = n
    BY <1>3, <2>1
  <2>3. n >= 1
    BY <1>1
  <2> HIDE DEF R
  <2>4. n <= Cardinality(R)
    BY <1>4, <2>1, <2>2, FS_Subset
  <2> QED
    BY <1>2, <2>1, <2>3, <2>4
<1>7. R = 1..r
  <2> HIDE DEF R
  <2>1. IsFiniteSet(1..r) /\ Cardinality(1..r) = Cardinality(R)
    BY <1>2, <1>3
  <2> QED
    BY <1>6, <2>1, FS_Subset
<1>8. \A i \in 1..r : text[p + i] \in C
  BY <1>1, <1>2, <1>7
<1>9. ASSUME p + r < Len(text), text[p + r + 1] \in C
      PROVE  FALSE
  <2> DEFINE n == r + 1
  <2>1. n \in 1..k
    BY <1>1, <1>2, <1>9
  <2>2. \A i \in 1..n : text[p + i] \in C
    BY <1>1, <1>2, <1>8, <1>9
  <2>3. n \in R
    BY <2>1, <2>2
  <2>4. n \in 1..r
    BY <1>7, <2>3
  <2> HIDE DEF r
  <2> QED
    BY <1>2, <2>4
<1> HIDE DEF R, r
<1> QED
  BY <1>1, <1>2, <1>8, <1>9

(* A newline begins the next line. *)
LEMMA NextLineNumber ==
    ASSUME TypeOK, NEW a \in Nat, NEW b \in Nat, a < b, b <= Len(text),
           text[b] = LF, \A p \in a + 1 .. b - 1 : text[p] # LF
    PROVE  LinesBefore(b) = LinesBefore(a) + 1
<1> DEFINE A == {p \in 1..a : text[p] = LF}
<1>1. {p \in 1..b : text[p] = LF} = A \cup {b}
  OBVIOUS
<1>2. b \notin A
  OBVIOUS
<1>3. IsFiniteSet(A)
  <2>1. IsFiniteSet(1..a)
    BY FS_Interval
  <2> QED
    BY <2>1, FS_Subset, A \in SUBSET (1..a)
<1> HIDE DEF A
<1>4. Cardinality(A \cup {b}) = Cardinality(A) + 1
  BY <1>2, <1>3, FS_AddElement
<1> QED
  BY <1>1, <1>4 DEF LinesBefore, A

(* Characters of a word or a number are code and open no comment. *)
LEMMA ClassFacts ==
    /\ LF \notin Spacing /\ CR \notin Spacing /\ LF # CR
    /\ \A c \in Letters \cup Digits \cup {"."} :
          /\ c \notin Spacing \cup {LF, CR, "/"}
          /\ c \notin SymbolChars
    /\ \A c \in SymbolChars : c \notin Spacing \cup {LF, CR}
    /\ Exponents \subseteq Letters
  BY ClassesAssumption DEF SymbolChars, LF, CR

-----------------------------------------------------------------------------
(* The cursor. *)

LEMMA SameLine ==
    ASSUME UNCHANGED text, NEW start, OnItsLine(start)
    PROVE  OnItsLine(start)'
  BY DEF OnItsLine, StartsLine, LinesBefore

LEMMA SameLines ==
    ASSUME UNCHANGED text, NEW d
    PROVE  StartsLine(d)' = StartsLine(d) /\ LinesBefore(d)' = LinesBefore(d)
  BY DEF StartsLine, LinesBefore

(* Reading on along the line. *)
LEMMA ConsumeCursor ==
    ASSUME TypeOK, CursorInv, UNCHANGED text,
           NEW n \in Nat, pos + n <= Len(text), Consume(n),
           \A i \in 1..n : text[pos + i] # LF
    PROVE  CursorInv'
<1>1. /\ pos \in Nat /\ column \in Nat
      /\ pos' = pos + n /\ column' = column + n /\ line' = line
      /\ pos' - column' = pos - column
  BY Cursor DEF Consume
<1>2. OnItsLine(location)
  BY DEF CursorInv
<1>3. OnItsLine(location)'
  <2>1. pos >= column /\ StartsLine(pos - column) /\ LinesBefore(pos - column) = line
    BY <1>2 DEF OnItsLine, location
  <2>2. PICK d \in Nat : d = pos - column
    BY <1>1, <2>1
  <2>3. StartsLine(d)' /\ LinesBefore(d)' = line
    BY <2>1, <2>2, SameLines
  <2>4. d = pos' - column' /\ pos' >= column' /\ line' = line
    BY <1>1, <2>1, <2>2
  <2> QED
    BY <2>3, <2>4 DEF OnItsLine, location, StartsLine, LinesBefore
<1>4. ASSUME NEW p \in pos' - column' + 1 .. pos'
      PROVE  text'[p] # LF
  <2>1. CASE p <= pos
    BY <1>1, <2>1 DEF CursorInv
  <2>2. CASE p > pos
    <3>1. p - pos \in 1..n /\ pos + (p - pos) = p
      BY <1>1, <2>2, <1>2 DEF OnItsLine, location
    <3> QED
      BY <3>1
  <2> QED
    BY <1>1, <1>2, <2>1, <2>2 DEF OnItsLine, location
<1> QED
  BY <1>3, <1>4 DEF CursorInv

(* Reading a newline. *)
LEMMA ConsumeLineCursor ==
    ASSUME TypeOK, CursorInv, UNCHANGED text,
           NEW n \in Nat, pos + n < Len(text), ConsumeLine(n + 1),
           text[pos + n + 1] = LF,
           \A i \in 1..n : text[pos + i] # LF
    PROVE  CursorInv'
<1> DEFINE a == pos - column
           b == pos + n + 1
<1>1. /\ pos \in Nat /\ column \in Nat /\ line \in Nat /\ Len(text) \in Nat
      /\ column <= pos /\ a \in Nat /\ b \in Nat /\ a < b /\ b <= Len(text)
      /\ DOMAIN text = 1..Len(text)
  BY Cursor DEF CursorInv, OnItsLine, location
<1>2. \A p \in a + 1 .. b - 1 : text[p] # LF
  <2> SUFFICES ASSUME NEW p \in a + 1 .. b - 1 PROVE text[p] # LF
    OBVIOUS
  <2>1. CASE p <= pos
    BY <1>1, <2>1 DEF CursorInv
  <2>2. CASE p > pos
    <3>1. p - pos \in 1..n /\ pos + (p - pos) = p
      BY <1>1, <2>2
    <3> QED
      BY <3>1
  <2> QED
    BY <1>1, <2>1, <2>2
<1>3. LinesBefore(a) = line
  BY DEF CursorInv, OnItsLine, location
<1> HIDE DEF a
<1>4. LinesBefore(b) = line + 1
  BY <1>1, <1>2, <1>3, NextLineNumber
<1>5. StartsLine(b)
  BY <1>1 DEF StartsLine
<1>6. pos' = b /\ column' = 0 /\ line' = line + 1
  BY <1>1 DEF ConsumeLine
<1> HIDE DEF b
<1>7. pos' - column' = b
  BY <1>1, <1>6
<1>8. OnItsLine(location)'
  BY <1>1, <1>4, <1>5, <1>6, <1>7 DEF OnItsLine, location, StartsLine, LinesBefore
<1>9. pos' - column' + 1 .. pos' = {}
  BY <1>1, <1>6
<1> QED
  BY <1>8, <1>9 DEF CursorInv

LEMMA StillCursor ==
    ASSUME CursorInv, UNCHANGED <<text, cursor>>
    PROVE  CursorInv'
  BY DEF CursorInv, cursor, OnItsLine, location, StartsLine, LinesBefore

-----------------------------------------------------------------------------
(* The tokens. *)

(* What MaximalMunch says of one token. *)
Longest(token) ==
    LET next == token.start.index + Len(token.text) + 1
    IN next \in DOMAIN text =>
         /\ token.data \in {"Keyword", "Ident", "BoolLiteral"}
                => text[next] \notin Letters \cup Digits
         /\ token.data = "NumberLiteral" => text[next] \notin Digits
         /\ token.data = "Symbol" => Append(token.text, text[next]) \notin Symbols

LEMMA GoodByToken ==
    GoodTokens <=> \A i \in DOMAIN out : OnItsLine(out[i].start) /\ Longest(out[i])
  BY DEF GoodTokens, LocationsConsistent, MaximalMunch, OnItsLine, Longest

LEMMA SameTokens ==
    ASSUME GoodTokens, UNCHANGED <<text, out>>
    PROVE  GoodTokens'
  BY DEF GoodTokens, LocationsConsistent, MaximalMunch, StartsLine, LinesBefore

LEMMA MoreTokens ==
    ASSUME TypeOK, GoodTokens, UNCHANGED text,
           NEW data \in TokenData, NEW start \in Location, NEW chars \in Seq(Chars),
           Return(data, start, chars), OnItsLine(start),
           Longest([data |-> data, start |-> start, text |-> chars])
    PROVE  GoodTokens'
<1> DEFINE token == [data |-> data, start |-> start, text |-> chars]
<1>1. token \in Token /\ token.start = start
  BY DEF Token
<1>2. /\ out' = Append(out, token) /\ out \in Seq(Token) /\ Len(out) \in Nat
      /\ DOMAIN out = 1..Len(out)
  BY Cursor DEF Return
<1>3. OnItsLine(token.start)
  BY <1>1
<1>4. Longest(token)
  OBVIOUS
<1> HIDE DEF token
<1>5. /\ DOMAIN out' = 1..(Len(out) + 1)
      /\ out'[Len(out) + 1] = token
      /\ \A i \in 1..Len(out) : out'[i] = out[i]
  BY <1>1, <1>2, AppendProperties, LenProperties
<1>6. \A i \in DOMAIN out' : OnItsLine(out'[i].start) /\ Longest(out'[i])
  <2> SUFFICES ASSUME NEW i \in DOMAIN out'
               PROVE  OnItsLine(out'[i].start) /\ Longest(out'[i])
    OBVIOUS
  <2>1. CASE i <= Len(out)
    BY <1>2, <1>5, <2>1, GoodByToken
  <2>2. CASE i = Len(out) + 1
    BY <1>3, <1>4, <1>5, <2>2
  <2> QED
    BY <1>2, <1>5, <2>1, <2>2
<1>7. LocationsConsistent'
  BY <1>6 DEF LocationsConsistent, OnItsLine, StartsLine, LinesBefore
<1>8. MaximalMunch'
  BY <1>6 DEF MaximalMunch, Longest
<1> QED
  BY <1>7, <1>8 DEF GoodTokens

(* The tokens cover what has been read when what is read is no code. *)
LEMMA SkipTiles ==
    ASSUME TypeOK, NEW e \in Nat, NEW e2 \in Nat, e <= e2, Tiled(e),
           \A p \in e + 1 .. e2 : p \notin CodePositions
    PROVE  Tiled(e2)
<1>2. \A p \in CodePositions : p \in Nat
  BY Cursor DEF CodePositions
<1>3. \A p \in CodePositions : p <= e <=> p <= e2
  BY <1>2
<1> QED
  BY <1>3 DEF Tiled

LEMMA SameTiles ==
    ASSUME UNCHANGED <<text, out>>, NEW e, Tiled(e)
    PROVE  Tiled(e)'
  BY DEF Tiled, Positions, CodePositions, InComment

(* They do when what is read becomes a token, all of it code. *)
LEMMA TokenTiles ==
    ASSUME TypeOK, UNCHANGED text,
           NEW e \in Nat, NEW n \in Nat, e + n <= Len(text), Tiled(e),
           NEW data \in TokenData, NEW start \in Location, NEW chars \in Seq(Chars),
           Return(data, start, chars), n > 0 => start.index = e,
           chars = SubSeq(text, e + 1, e + n), Len(chars) = n,
           n = 0 => chars = SubSeq(text, start.index + 1, start.index),
           \A p \in e + 1 .. e + n : p \in CodePositions
    PROVE  Tiled(e + n)'
<1> DEFINE token == [data |-> data, start |-> start, text |-> chars]
           fresh == e + 1 .. e + n
<1>1. token \in Token /\ token.start = start /\ token.text = chars
  BY DEF Token
<1>2. /\ out' = Append(out, token) /\ out \in Seq(Token) /\ Len(out) \in Nat
      /\ DOMAIN out = 1..Len(out)
  BY Cursor DEF Return
<1>3. Positions(token) = fresh
  <2>1. start.index \in Nat
    BY DEF Location
  <2>2. CASE n = 0
    BY <1>1, <2>1, <2>2 DEF Positions
  <2>3. CASE n > 0
    BY <1>1, <2>3 DEF Positions
  <2> QED
    BY <2>2, <2>3
<1>4. token.text = SubSeq(text, token.start.index + 1, token.start.index + Len(token.text))
  <2>1. start.index \in Nat
    BY DEF Location
  <2>2. CASE n = 0
    BY <1>1, <2>1, <2>2
  <2>3. CASE n > 0
    BY <1>1, <2>3
  <2> HIDE DEF token
  <2> QED
    BY <2>2, <2>3
<1> HIDE DEF token
<1>5. /\ DOMAIN out' = 1..(Len(out) + 1)
      /\ out'[Len(out) + 1] = token
      /\ \A i \in 1..Len(out) : out'[i] = out[i]
  BY <1>1, <1>2, AppendProperties, LenProperties
<1>6. CodePositions' = CodePositions
  BY DEF CodePositions, InComment
<1>7. \A p \in CodePositions : p \in Nat
  BY Cursor DEF CodePositions
<1>8. ASSUME NEW i \in 1..Len(out)
      PROVE  Positions(out[i]) \cap fresh = {}
  <2>1. \A p \in Positions(out[i]) : p \in CodePositions /\ p <= e
    BY <1>2 DEF Tiled
  <2> QED
    BY <1>7, <2>1
<1>9. ASSUME NEW p \in CodePositions
      PROVE  p <= e + n <=> \E i \in DOMAIN out' : p \in Positions(out'[i])
  <2>1. p <= e + n <=> (p <= e \/ p \in fresh)
    BY <1>7
  <2>2. p <= e <=> \E i \in 1..Len(out) : p \in Positions(out[i])
    BY <1>2 DEF Tiled
  <2>3. (\E i \in DOMAIN out' : p \in Positions(out'[i]))
           <=> (\E i \in 1..Len(out) : p \in Positions(out[i])) \/ p \in fresh
    <3>1. ASSUME NEW i \in 1..(Len(out) + 1)
          PROVE  i \in 1..Len(out) \/ i = Len(out) + 1
      BY <1>2
    <3>2. Len(out) + 1 \in 1..(Len(out) + 1)
      BY <1>2
    <3>3. 1..Len(out) \subseteq 1..(Len(out) + 1)
      BY <1>2
    <3> HIDE DEF fresh
    <3> QED
      BY <1>3, <1>5, <3>1, <3>2, <3>3, Zenon
  <2> QED
    BY <2>1, <2>2, <2>3
<1>10. ASSUME NEW i \in DOMAIN out'
       PROVE  /\ Positions(out'[i]) \subseteq CodePositions
              /\ \A j \in DOMAIN out' :
                    i # j => Positions(out'[i]) \cap Positions(out'[j]) = {}
              /\ out'[i].text = SubSeq(text, out'[i].start.index + 1,
                                       out'[i].start.index + Len(out'[i].text))
  <2>1. ASSUME NEW j \in DOMAIN out'
        PROVE  j \in 1..Len(out) \/ j = Len(out) + 1
    BY <1>2, <1>5
  <2>2. fresh \subseteq CodePositions
    OBVIOUS
  <2> HIDE DEF fresh
  <2>3. Positions(out'[i]) \subseteq CodePositions
    BY <1>2, <1>3, <1>5, <2>1, <2>2 DEF Tiled
  <2>4. ASSUME NEW j \in DOMAIN out', i # j
        PROVE  Positions(out'[i]) \cap Positions(out'[j]) = {}
    <3>1. CASE i \in 1..Len(out) /\ j \in 1..Len(out)
      BY <1>2, <1>5, <2>4, <3>1 DEF Tiled
    <3>2. CASE i \in 1..Len(out) /\ j = Len(out) + 1
      BY <1>3, <1>5, <1>8, <3>2
    <3>3. CASE i = Len(out) + 1 /\ j \in 1..Len(out)
      BY <1>3, <1>5, <1>8, <3>3
    <3> QED
      BY <2>1, <2>4, <3>1, <3>2, <3>3
  <2>5. out'[i].text = SubSeq(text, out'[i].start.index + 1,
                              out'[i].start.index + Len(out'[i].text))
    <3>1. CASE i \in 1..Len(out)
      BY <1>2, <1>5, <3>1 DEF Tiled
    <3>2. CASE i = Len(out) + 1
      BY <1>4, <1>5, <3>2
    <3> QED
      BY <2>1, <3>1, <3>2
  <2> QED
    BY <2>3, <2>4, <2>5
<1> HIDE DEF fresh
<1> QED
  BY <1>6, <1>9, <1>10 DEF Tiled, Positions

-----------------------------------------------------------------------------
(* The symbol table. *)

LEMMA Runs ==
    ASSUME NEW n \in Nat
    PROVE  /\ Len([i \in 1..n |-> "<"]) = n
           /\ \A i \in 1..n : [j \in 1..n |-> "<"][i] = "<"
  OBVIOUS

(* The shapes of the symbols that the table holds. *)
LEMMA TableShapes ==
    ASSUME NEW s \in Complete \cup CompletePrefix \cup Partial
    PROVE  \/ Len(s) = 1 /\ s[1] \in SymbolChars \ {"$"}
           \/ Len(s) = 2 /\ s[1] \in SymbolChars /\ s[2] \in {"=", ">"}
           \/ Len(s) \in 2..7 /\ \A i \in 1..Len(s) : s[i] = "<"
           \/ Len(s) = 2 /\ s[1] = "/" /\ s[2] = "/"
<1>1. CASE s \in Complete
  <2>1. CASE s \in {<<c, "=">> : c \in {"=", "!", "+", "-", "*", "/", "%", "<", ">"}}
    BY <2>1 DEF SymbolChars
  <2>2. CASE s \in {<<c>> : c \in {"(", ")", "comma", ":"}}
    BY <2>2 DEF SymbolChars
  <2>3. CASE s \in {<<"=", ">">>, <<"-", ">">>}
    BY <2>3 DEF SymbolChars
  <2>4. CASE s = [i \in 1..7 |-> "<"]
    BY <2>4, Runs
  <2> QED
    BY <1>1, <2>1, <2>2, <2>3, <2>4 DEF Complete
<1>2. CASE s \in CompletePrefix
  BY <1>2 DEF CompletePrefix, SymbolChars
<1>3. CASE s \in Partial
  <2>1. CASE s \in {[i \in 1..n |-> "<"] : n \in 2..5}
    BY <2>1, Runs
  <2>2. CASE s = <<"!">>
    BY <2>2 DEF SymbolChars
  <2> QED
    BY <1>3, <2>1, <2>2 DEF Partial
<1> QED
  BY <1>1, <1>2, <1>3

(* The characters of a symbol are symbol characters; a "/" in one that is no *)
(* comment comes first and is followed by nothing or "=".                    *)
LEMMA SymbolText ==
    ASSUME NEW s \in Complete \cup CompletePrefix \cup Partial, ~IsComment(s)
    PROVE  /\ Len(s) \in 1..7
           /\ \A i \in 1..Len(s) : s[i] \in SymbolChars
           /\ \A i \in 1..Len(s) :
                 s[i] = "/" => i = 1 /\ (Len(s) > 1 => s[2] \in {"=", ">"})
<1>1. {"=", ">", "<", "/"} \subseteq SymbolChars
  BY DEF SymbolChars
<1>2. CASE Len(s) = 1 /\ s[1] \in SymbolChars \ {"$"}
  BY <1>2
<1>3. CASE Len(s) = 2 /\ s[1] \in SymbolChars /\ s[2] \in {"=", ">"}
  BY <1>1, <1>3
<1>4. CASE Len(s) \in 2..7 /\ \A i \in 1..Len(s) : s[i] = "<"
  BY <1>1, <1>4
<1>5. CASE Len(s) = 2 /\ s[1] = "/" /\ s[2] = "/"
  BY <1>5 DEF IsComment
<1> QED
  BY <1>2, <1>3, <1>4, <1>5, TableShapes

(* No symbol begins with a complete one and goes on. *)
LEMMA CompleteIsLongest ==
    ASSUME NEW s \in Complete, s \in Seq(Chars), NEW c \in Chars
    PROVE  Append(s, c) \notin Symbols
<1>1. /\ Len(s) \in Nat
      /\ Len(Append(s, c)) = Len(s) + 1
      /\ \A i \in 1..Len(s) : Append(s, c)[i] = s[i]
  BY AppendProperties, LenProperties
<1>2. \/ Len(s) = 2
      \/ Len(s) = 1 /\ s[1] \in {"(", ")", "comma", ":"}
      \/ Len(s) = 7
  <2>1. CASE s = [i \in 1..7 |-> "<"]
    BY <2>1, Runs
  <2>2. CASE s # [i \in 1..7 |-> "<"]
    BY <2>2 DEF Complete
  <2> QED
    BY <2>1, <2>2
<1>3. ASSUME NEW t \in Symbols
      PROVE  \/ Len(t) = 1
             \/ Len(t) = 2 /\ t[1] \notin {"(", ")", "comma", ":"}
             \/ Len(t) = 7
  <2>1. CASE t = [i \in 1..7 |-> "<"]
    BY <2>1, Runs
  <2>2. CASE t \in {<<c2, "=">> : c2 \in {"=", "!", "+", "-", "*", "/", "%", "<", ">"}}
    BY <2>2
  <2>3. CASE t \in {<<c2>> : c2 \in {"(", ")", "comma", ":"}}
    BY <2>3
  <2>4. CASE t \in {<<"=", ">">>, <<"-", ">">>}
    BY <2>4
  <2>5. CASE t \in CompletePrefix
    BY <2>5 DEF CompletePrefix
  <2> QED
    BY <1>3, <2>1, <2>2, <2>3, <2>4, <2>5 DEF Symbols, Complete
<1>4. ASSUME NEW k \in Nat, NEW m \in Nat, k = m + 1, m \in {2, 7}
      PROVE  k \notin {1, 2, 7}
  BY <1>4
<1>5. ASSUME Append(s, c) \in Symbols PROVE FALSE
  <2> DEFINE t == Append(s, c)
             k == Len(t)
             m == Len(s)
  <2>1. t \in Symbols /\ k = m + 1 /\ (m = 1 => t[1] = s[1])
    BY <1>1, <1>5
  <2>2. k \in Nat /\ m \in Nat
    BY <1>1
  <2>3. \/ k = 1 \/ k = 7
        \/ k = 2 /\ t[1] \notin {"(", ")", "comma", ":"}
    BY <1>3, <2>1
  <2>4. m \in {2, 7} \/ (m = 1 /\ s[1] \in {"(", ")", "comma", ":"})
    BY <1>2
  <2> HIDE DEF k, m, t
  <2>5. CASE m \in {2, 7}
    BY <1>4, <2>1, <2>2, <2>3, <2>5
  <2>6. CASE m = 1 /\ s[1] \in {"(", ")", "comma", ":"}
    BY <2>1, <2>2, <2>3, <2>6
  <2> QED
    BY <2>4, <2>5, <2>6
<1> QED
  BY <1>5

(* The symbols that one character makes. *)
LEMMA OneCharacter ==
    ASSUME NEW c \in SymbolChars, <<c>> \notin Complete \cup CompletePrefix \cup Partial
    PROVE  c = "$"
  BY DEF SymbolChars, Complete, CompletePrefix, Partial

LEMMA PartialShapes ==
    ASSUME NEW s \in Partial
    PROVE  \/ s = <<"!">>
           \/ Len(s) \in 2..5 /\ s[1] = "<" /\ s[2] = "<"
<1>1. CASE s = <<"!">>
  BY <1>1
<1>2. CASE s # <<"!">>
  <2>1. PICK n \in 2..5 : s = [i \in 1..n |-> "<"]
    BY <1>2 DEF Partial
  <2> QED
    BY <2>1, Runs
<1> QED
  BY <1>1, <1>2

(* What has been read as a token of SymbolChars or of a word is code, and no *)
(* comment starts in it, when none was open before it.                       *)
Plain(a, b) ==
    \A p \in a + 1 .. b : text[p] \notin Spacing \cup {LF, CR} /\ ~Opens(p)

LEMMA PlainIsCode ==
    ASSUME TypeOK, NEW a \in Nat, NEW b \in Nat, a <= b, b <= Len(text),
           CommentsEnd(a), Plain(a, b)
    PROVE  /\ \A p \in a + 1 .. b : p \in CodePositions
           /\ CommentsEnd(b)
<1>1. Len(text) \in Nat /\ DOMAIN text = 1..Len(text)
  BY Cursor
<1>2. ASSUME NEW p \in a + 1 .. b, InComment(p)
      PROVE  FALSE
  <2>1. PICK q \in 1..p : Opens(q) /\ \A r \in q..p : text[r] # LF
    BY <1>2 DEF InComment, Opens
  <2>2. CASE q <= a
    <3>1. PICK r \in q..a : text[r] = LF
      BY <2>1, <2>2 DEF CommentsEnd
    <3>2. r \in q..p
      BY <1>2
    <3> QED
      BY <2>1, <3>1, <3>2
  <2>3. CASE q > a
    BY <2>1, <2>3 DEF Plain
  <2> QED
    BY <2>2, <2>3
<1>3. \A p \in a + 1 .. b : p \in CodePositions
  BY <1>1, <1>2 DEF CodePositions, Plain
<1>4. CommentsEnd(b)
  <2> SUFFICES ASSUME NEW q \in 1..b, Opens(q)
               PROVE  \E r \in q..b : text[r] = LF
    BY DEF CommentsEnd
  <2>1. q <= a
    BY DEF Plain
  <2>2. PICK r \in q..a : text[r] = LF
    BY <2>1 DEF CommentsEnd
  <2> QED
    BY <2>2
<1> QED
  BY <1>3, <1>4

(* Spacing opens no comment and is no code. *)
LEMMA SpacingIsSkipped ==
    ASSUME TypeOK, NEW a \in Nat, NEW b \in Nat, a <= b, b <= Len(text),
           \A p \in a + 1 .. b : text[p] \in Spacing \cup {LF, CR}
    PROVE  /\ \A p \in a + 1 .. b : p \notin CodePositions
           /\ CommentsEnd(a) => CommentsEnd(b)
<1>1. "/" \notin Spacing \cup {LF, CR}
  BY ClassesAssumption DEF SymbolChars, LF, CR
<1>2. \A p \in a + 1 .. b : ~Opens(p)
  BY <1>1 DEF Opens
<1>3. ASSUME CommentsEnd(a), NEW q \in 1..b, Opens(q)
      PROVE  \E r \in q..b : text[r] = LF
  <2>1. q <= a
    BY <1>2, <1>3
  <2>2. PICK r \in q..a : text[r] = LF
    BY <1>3, <2>1 DEF CommentsEnd
  <2> QED
    BY <2>2
<1> QED
  BY <1>3 DEF CodePositions, CommentsEnd

-----------------------------------------------------------------------------
(* Steps outside of lexemes. *)

LEMMA SameComments ==
    ASSUME UNCHANGED text, NEW e
    PROVE  CommentsEnd(e)' = CommentsEnd(e)
  BY DEF CommentsEnd, Opens

Between == fn \notin LexemeFunctions \cup {"panic"}

(* Spacing after the cursor is skipped. *)
LEMMA SkipSpacing ==
    ASSUME TypeOK, CommentInv, TileInv, Between, NEW n \in Nat, pos + n <= Len(text),
           \A i \in 1..n : text[pos + i] \in Spacing
    PROVE  /\ Tiled(pos + n)
           /\ \/ CommentsEnd(pos + n)
              \/ n = 0 /\ (pos < Len(text) => text[pos + 1] = LF)
<1>1. /\ Len(text) \in Nat /\ pos \in Nat /\ pos + n \in Nat
      /\ pos <= pos + n /\ DOMAIN text = 1..Len(text)
  BY Cursor
<1>2. \A p \in pos + 1 .. pos + n : text[p] \in Spacing \cup {LF, CR}
  <2> SUFFICES ASSUME NEW p \in pos + 1 .. pos + n PROVE text[p] \in Spacing
    OBVIOUS
  <2>1. p - pos \in 1..n /\ pos + (p - pos) = p
    BY <1>1
  <2> QED
    BY <2>1
<1>3. /\ Tiled(pos)
      /\ CommentsEnd(pos) \/ (pos < Len(text) => text[pos + 1] = LF)
  BY DEF TileInv, CommentInv, Between, Before, LexemeFunctions
<1>4. Tiled(pos + n)
  BY <1>1, <1>2, <1>3, SpacingIsSkipped, SkipTiles
<1>5. CommentsEnd(pos) => CommentsEnd(pos + n)
  BY <1>1, <1>2, SpacingIsSkipped
<1>6. ASSUME n # 0, pos < Len(text) => text[pos + 1] = LF
      PROVE  FALSE
  BY <1>1, <1>2, <1>6, ClassFacts
<1> QED
  BY <1>3, <1>4, <1>5, <1>6

(* A step that hands out nothing and goes on between lexemes. *)
LEMMA QuietStep ==
    ASSUME TypeOK, TextInv, Between, Between', UNCHANGED <<text, cursor, out>>
    PROVE  TextInv'
<1>1. CursorInv' /\ GoodTokens'
  BY StillCursor, SameTokens DEF TextInv
<1>2. AheadInv' /\ MatchedInv' /\ PanicsHaveACause'
  BY DEF Between, LexemeFunctions, AheadInv, MatchedInv, PanicsHaveACause
<1>3. PICK e : e = pos
  OBVIOUS
<1>4. Before = e /\ Before' = e /\ pos' = e
  BY <1>3 DEF Before, Between, LexemeFunctions, cursor
<1>5. TileInv'
  BY <1>3, <1>4, SameTiles DEF TextInv, TileInv, Between
<1>6. CommentInv'
  BY <1>3, <1>4, SameComments DEF TextInv, CommentInv, Between
<1> QED
  BY <1>1, <1>2, <1>5, <1>6 DEF TextInv

(* A step that skips spacing and hands out nothing. *)
LEMMA SpacingStep ==
    ASSUME TypeOK, TextInv, Between, Between', UNCHANGED <<text, out>>,
           NEW n \in Nat, pos + n <= Len(text), Consume(n),
           \A i \in 1..n : text[pos + i] \in Spacing
    PROVE  TextInv'
<1>1. CursorInv'
  <2>1. \A i \in 1..n : text[pos + i] # LF
    BY ClassFacts
  <2> QED
    BY <2>1, ConsumeCursor DEF TextInv
<1>2. GoodTokens'
  BY SameTokens DEF TextInv
<1>3. AheadInv' /\ MatchedInv' /\ PanicsHaveACause'
  BY DEF Between, LexemeFunctions, AheadInv, MatchedInv, PanicsHaveACause
<1>4. PICK e : e = pos + n
  OBVIOUS
<1>5. Before' = e /\ pos' = e
  BY <1>4 DEF Before, Between, LexemeFunctions, Consume
<1>6. /\ Tiled(e)
      /\ CommentsEnd(e) \/ (n = 0 /\ (pos < Len(text) => text[pos + 1] = LF))
  BY <1>4, SkipSpacing DEF TextInv
<1>7. TileInv'
  BY <1>5, <1>6, SameTiles DEF TileInv
<1>8. CASE CommentsEnd(e)
  <2>1. CommentInv'
    BY <1>5, <1>8, SameComments DEF CommentInv
  <2> QED
    BY <1>1, <1>2, <1>3, <1>7, <2>1 DEF TextInv
<1>9. CASE n = 0 /\ (pos < Len(text) => text[pos + 1] = LF)
  <2>1. pos' = pos
    BY <1>9, Cursor DEF Consume
  <2>2. CommentInv'
    BY <1>9, <2>1 DEF CommentInv, Between, LexemeFunctions
  <2> QED
    BY <1>1, <1>2, <1>3, <1>7, <2>2 DEF TextInv
<1> QED
  BY <1>6, <1>8, <1>9

(* A step that hands out a token without text. *)
LEMMA MarkerStep ==
    ASSUME TypeOK, TextInv, Between, UNCHANGED text,
           NEW n \in Nat, pos + n <= Len(text), Consume(n),
           \A i \in 1..n : text[pos + i] \in Spacing,
           NEW data \in {"BeginBlock", "EndBlock", "EOF"}, NEW start \in Location,
           OnItsLine(start), Return(data, start, <<>>)
    PROVE  TextInv'
<1> DEFINE token == [data |-> data, start |-> start, text |-> <<>>]
<1>1. CursorInv'
  <2>1. \A i \in 1..n : text[pos + i] # LF
    BY ClassFacts
  <2> QED
    BY <2>1, ConsumeCursor DEF TextInv
<1>2. data \in TokenData /\ <<>> \in Seq(Chars) /\ fn' = "caller"
  BY DEF TokenData, Return
<1>3. GoodTokens'
  <2>1. Longest(token)
    BY DEF Longest
  <2> HIDE DEF token
  <2> QED
    BY <1>2, <2>1, MoreTokens DEF TextInv, token
<1>4. AheadInv' /\ MatchedInv' /\ PanicsHaveACause'
  BY <1>2 DEF AheadInv, MatchedInv, PanicsHaveACause
<1>5. PICK e \in Nat : e = pos + n
  BY Cursor
<1>6. Before' = e /\ pos' = e /\ e <= Len(text)
  BY <1>2, <1>5 DEF Before, Consume
<1>7. /\ Tiled(e)
      /\ CommentsEnd(e) \/ (n = 0 /\ (pos < Len(text) => text[pos + 1] = LF))
  BY <1>5, SkipSpacing DEF TextInv
<1>8. Tiled(e)'
  <2>1. <<>> = SubSeq(text, e + 1, e + 0) /\ Len(<<>>) = 0
    BY <1>5
  <2>2. <<>> = SubSeq(text, start.index + 1, start.index)
    BY DEF Location
  <2>3. \A p \in e + 1 .. e + 0 : p \in CodePositions
    BY <1>5
  <2>4. e + 0 <= Len(text) /\ 0 \in Nat /\ ~(0 > 0) /\ e + 0 = e
    BY <1>5, <1>6
  <2>5. PICK z \in Nat : z = 0
    BY <2>4
  <2>6. Tiled(e + z)'
    <3> HIDE DEF token
    <3>1. z > 0 => start.index = e
      BY <2>5
    <3>2. <<>> = SubSeq(text, e + 1, e + z) /\ Len(<<>>) = z /\ e + z <= Len(text)
      BY <2>1, <2>4, <2>5
    <3>3. \A p \in e + 1 .. e + z : p \in CodePositions
      BY <2>3, <2>5
    <3> QED
      BY <1>2, <1>7, <2>2, <3>1, <3>2, <3>3, TokenTiles
  <2> QED
    BY <2>4, <2>5, <2>6
<1>9. TileInv'
  BY <1>6, <1>8 DEF TileInv
<1>10. CASE CommentsEnd(e)
  <2>1. CommentInv'
    BY <1>6, <1>10, SameComments DEF CommentInv
  <2> QED
    BY <1>1, <1>3, <1>4, <1>9, <2>1 DEF TextInv
<1>11. CASE n = 0 /\ (pos < Len(text) => text[pos + 1] = LF)
  <2>1. pos' = pos
    BY <1>11, Cursor DEF Consume
  <2>2. CommentInv'
    BY <1>2, <1>11, <2>1 DEF CommentInv, LexemeFunctions
  <2> QED
    BY <1>1, <1>3, <1>4, <1>9, <2>2 DEF TextInv
<1> QED
  BY <1>7, <1>10, <1>11

-----------------------------------------------------------------------------
(* The actions between lexemes. *)

LEMMA StartIsOnLine ==
    ASSUME TypeOK, CursorInv, NEW start, start.line = line,
           start.index \in Nat, start.column \in Nat,
           start.index - start.column = pos - column
    PROVE  OnItsLine(start)
<1>1. /\ pos \in Nat /\ column \in Nat /\ column <= pos
      /\ StartsLine(pos - column) /\ LinesBefore(pos - column) = line
  BY Cursor DEF CursorInv, OnItsLine, location
<1> QED
  BY <1>1 DEF OnItsLine

LEMMA ConsumeNothing ==
    ASSUME TypeOK, UNCHANGED cursor
    PROVE  Consume(0)
  BY Cursor DEF cursor, Consume

LEMMA CallNextText == IInv /\ TextInv /\ CallNext => TextInv'
<1> SUFFICES ASSUME IInv, TextInv, CallNext PROVE TextInv'
  OBVIOUS
<1>1. fn' \in {"next_indent", "next_line", "next_eof", "next_outdent"}
  BY DEF IInv, TypeOK, States, CallNext, Goto, Dispatch
<1>2. fn = "caller" /\ UNCHANGED <<text, cursor, out>>
  BY DEF CallNext, Goto
<1> QED
  BY <1>1, <1>2, QuietStep DEF IInv, Between, LexemeFunctions

LEMMA NextEofText == IInv /\ TextInv /\ NextEof => TextInv'
<1> SUFFICES ASSUME IInv, TextInv, NextEof PROVE TextInv'
  OBVIOUS
<1>1. TypeOK /\ Between /\ UNCHANGED <<text, cursor>> /\ CursorInv
  BY DEF IInv, NextEof, Between, LexemeFunctions, TextInv
<1>2. Consume(0) /\ pos + 0 <= Len(text) /\ 0 \in Nat
  BY <1>1, ConsumeNothing, Cursor
<1>3. location \in Location /\ OnItsLine(location)
  BY <1>1, Cursor DEF location, Location, CursorInv
<1>4. PICK data \in {"BeginBlock", "EndBlock", "EOF"} : Return(data, location, <<>>)
  BY DEF NextEof
<1> QED
  BY <1>1, <1>2, <1>3, <1>4, MarkerStep

LEMMA NextIndentText == IInv /\ TextInv /\ NextIndent => TextInv'
<1> SUFFICES ASSUME IInv, TextInv, NextIndent PROVE TextInv'
  OBVIOUS
<1> DEFINE n == RunLength(pos, Spacing)
<1>1. TypeOK /\ Between /\ UNCHANGED text /\ CursorInv
  BY DEF IInv, NextIndent, Between, LexemeFunctions, TextInv
<1>2. /\ n \in Nat /\ pos + n <= Len(text)
      /\ \A i \in 1..n : text[pos + i] \in Spacing
  BY <1>1, RunLengthExact DEF TypeOK
<1>3. CASE Goto("next_eof") /\ UNCHANGED <<cursor, indent_size_stack>>
  BY <1>1, <1>3, QuietStep DEF Goto, Between, LexemeFunctions
<1>4. CASE Consume(n) /\ Indentation(n)
  <2>1. LocationAhead(n) \in Location /\ OnItsLine(LocationAhead(n))
    BY <1>1, <1>2, Cursor, StartIsOnLine DEF LocationAhead, Location
  <2> HIDE DEF n
  <2>2. CASE Goto("next_line") \/ Goto("next_outdent")
    BY <1>1, <1>2, <1>4, <2>2, SpacingStep DEF Goto, Between, LexemeFunctions
  <2>3. CASE Return("BeginBlock", LocationAhead(n), <<>>)
    BY <1>1, <1>2, <1>4, <2>1, <2>3, MarkerStep
  <2> QED
    BY <1>4, <2>2, <2>3 DEF Indentation
<1> QED
  BY <1>3, <1>4 DEF NextIndent

LEMMA NextOutdentText == IInv /\ TextInv /\ NextOutdent => TextInv'
<1> SUFFICES ASSUME IInv, TextInv, NextOutdent PROVE TextInv'
  OBVIOUS
<1>1. TypeOK /\ Between /\ UNCHANGED <<text, cursor>> /\ CursorInv
  BY DEF IInv, NextOutdent, Between, LexemeFunctions, TextInv
<1>2. Consume(0) /\ pos + 0 <= Len(text) /\ 0 \in Nat
  BY <1>1, ConsumeNothing, Cursor
<1>3. CASE Top > column /\ Return("EndBlock", OutdentLocation(Top), <<>>)
  <2>1. PICK n \in Nat : n = Top /\ n > column
    BY <1>3, StackTop DEF IInv
  <2>2. /\ pos \in Nat /\ column \in Nat /\ line \in Nat
        /\ pos + (n - column) \in Nat
        /\ pos + (n - column) - n = pos - column
    BY <1>1, <2>1, Cursor
  <2>3. OutdentLocation(n) \in Location
    BY <2>1, <2>2 DEF OutdentLocation, Location
  <2>4. OnItsLine(OutdentLocation(n))
    BY <1>1, <2>1, <2>2, StartIsOnLine DEF OutdentLocation
  <2> QED
    BY <1>1, <1>2, <1>3, <2>1, <2>3, <2>4, MarkerStep
<1>4. CASE Return("BeginBlock", location, <<>>)
  <2>1. location \in Location /\ OnItsLine(location)
    BY <1>1, Cursor DEF location, Location, CursorInv
  <2> QED
    BY <1>1, <1>2, <1>4, <2>1, MarkerStep
<1>5. CASE Goto("next_line")
  BY <1>1, <1>5, QuietStep DEF Goto, Between, LexemeFunctions
<1> QED
  BY <1>3, <1>4, <1>5 DEF NextOutdent

(* A newline ends every comment. *)
LEMMA NewlineStep ==
    ASSUME TypeOK, TextInv, Between, Between', UNCHANGED <<text, out>>,
           NEW n \in Nat, pos + n < Len(text), ConsumeLine(n + 1),
           text[pos + n + 1] = LF, 
           \A i \in 1..n : text[pos + i] \in Spacing \cup {CR}
    PROVE  TextInv'
<1>1. CursorInv'
  <2>1. \A i \in 1..n : text[pos + i] # LF
    BY ClassFacts
  <2> QED
    BY <2>1, ConsumeLineCursor DEF TextInv
<1>2. GoodTokens'
  BY SameTokens DEF TextInv
<1>3. AheadInv' /\ MatchedInv' /\ PanicsHaveACause'
  BY DEF Between, LexemeFunctions, AheadInv, MatchedInv, PanicsHaveACause
<1>4. PICK e \in Nat : e = pos + n + 1
  BY Cursor
<1>5. /\ Before' = e /\ pos' = e /\ pos \in Nat /\ pos <= e /\ e <= Len(text)
      /\ text[e] = LF
  BY <1>4, Cursor DEF Before, Between, LexemeFunctions, ConsumeLine
<1>6. CommentsEnd(e)
  BY <1>5 DEF CommentsEnd
<1>7. \A p \in pos + 1 .. e : text[p] \in Spacing \cup {LF, CR}
  <2> SUFFICES ASSUME NEW p \in pos + 1 .. e PROVE text[p] \in Spacing \cup {LF, CR}
    OBVIOUS
  <2>1. CASE p = e
    BY <1>5, <2>1
  <2>2. CASE p # e
    <3>1. p - pos \in 1..n /\ pos + (p - pos) = p
      BY <1>4, <1>5, <2>2
    <3> QED
      BY <3>1
  <2> QED
    BY <2>1, <2>2
<1>8. Tiled(e)
  <2>1. Tiled(pos)
    BY DEF TextInv, TileInv, Between, Before, LexemeFunctions
  <2>2. \A p \in pos + 1 .. e : p \notin CodePositions
    BY <1>5, <1>7, SpacingIsSkipped
  <2> QED
    BY <1>5, <2>1, <2>2, SkipTiles
<1>9. TileInv'
  BY <1>5, <1>8, SameTiles DEF TileInv
<1>10. CommentInv'
  BY <1>5, <1>6, SameComments DEF CommentInv
<1> QED
  BY <1>1, <1>2, <1>3, <1>9, <1>10 DEF TextInv

(* A step that stops with a reason. *)
LEMMA PanicStep ==
    ASSUME TypeOK, TextInv, UNCHANGED <<text, out>>, fn' = "panic",
           NEW n \in Nat, pos + n <= Len(text), Consume(n),
           \A i \in 1..n : text[pos + i] # LF,
           PanicsHaveACause'
    PROVE  TextInv'
<1>1. CursorInv' /\ GoodTokens'
  BY ConsumeCursor, SameTokens DEF TextInv
<1>2. AheadInv' /\ MatchedInv' /\ CommentInv' /\ TileInv'
  BY DEF AheadInv, MatchedInv, CommentInv, TileInv
<1> QED
  BY <1>1, <1>2 DEF TextInv

(* A character is in no comment when every comment before it has ended and   *)
(* it opens none.                                                            *)
LEMMA NotInComment ==
    ASSUME TypeOK, NEW e \in Nat, CommentsEnd(e), NEW p \in e + 1 .. Len(text),
           \A q \in e + 1 .. p : text[q] # "/"
    PROVE  ~InComment(p)
<1> SUFFICES ASSUME InComment(p) PROVE FALSE
  OBVIOUS
<1>1. PICK q \in 1..p : Opens(q) /\ \A r \in q..p : text[r] # LF
  BY DEF InComment, Opens
<1>2. CASE q <= e
  <2>1. PICK r \in q..e : text[r] = LF
    BY <1>1, <1>2 DEF CommentsEnd
  <2> QED
    BY <1>1, <2>1, Cursor
<1>3. CASE q > e
  BY <1>1, <1>3 DEF Opens
<1> QED
  BY <1>2, <1>3, Cursor

LEMMA PanicCause ==
    ASSUME TypeOK, UNCHANGED text, NEW p \in 1..Len(text), ~InComment(p),
           \/ /\ sym' = <<>> /\ p = pos' + 1
              /\ text[p] \in {"?", "."} \/ (text[p] \in Digits /\ NumberLacksDigits(p))
           \/ /\ sym' = <<>> /\ p = pos'
              /\ text[p] = CR /\ (p = Len(text) \/ text[p + 1] # LF)
           \/ p = pos' - Len(sym') + 1 /\ NoSymbolAt(p)
    PROVE  PanicsHaveACause'
<1>1. p \in DOMAIN text'
  BY Cursor
<1>2. ~InComment(p)'
  BY DEF InComment
<1>3. /\ NumberLacksDigits(p)' = NumberLacksDigits(p)
      /\ NoSymbolAt(p)' = NoSymbolAt(p)
  BY DEF NumberLacksDigits, NoSymbolAt
<1> QED
  BY <1>1, <1>2, <1>3 DEF PanicsHaveACause

LEMMA NextLineText == IInv /\ TextInv /\ NextLine => TextInv'
<1> SUFFICES ASSUME IInv, TextInv, NextLine PROVE TextInv'
  OBVIOUS
<1> DEFINE n == RunLength(pos, Spacing)
           c == text[pos + n + 1]
<1>1. TypeOK /\ Between /\ UNCHANGED <<text, out>> /\ sym' = <<>>
  BY DEF IInv, NextLine, EndOfLine, Goto, Between, LexemeFunctions
<1>2. /\ n \in Nat /\ pos \in Nat /\ pos + n <= Len(text) /\ Len(text) \in Nat
      /\ \A i \in 1..n : text[pos + i] \in Spacing
      /\ pos + n < Len(text) => c \notin Spacing
  BY <1>1, RunLengthExact, Cursor DEF TypeOK
<1>3. \A i \in 1..n : text[pos + i] # LF
  BY <1>2, ClassFacts
<1>4. /\ Tiled(pos + n)
      /\ pos + n < Len(text) /\ c # LF => CommentsEnd(pos + n)
  <2> HIDE DEF n
  <2>1. /\ Tiled(pos + n)
        /\ CommentsEnd(pos + n) \/ (n = 0 /\ (pos < Len(text) => text[pos + 1] = LF))
    BY <1>1, <1>2, SkipSpacing DEF TextInv
  <2> QED
    BY <1>2, <2>1
<1>5. CASE pos + n = Len(text) /\ Consume(n) /\ Goto("next_eof")
  <2> HIDE DEF n
  <2> QED
    BY <1>1, <1>2, <1>5, SpacingStep DEF Goto, Between, LexemeFunctions
<1>6. CASE Ahead(n, {CR, LF}) /\ EndOfLine(n)
  <2> DEFINE n1 == IF c = CR THEN n + 1 ELSE n
  <2>1. c \in {CR, LF} /\ pos + n < Len(text)
    BY <1>6 DEF Ahead
  <2>2. /\ n1 \in Nat /\ pos + n1 <= Len(text)
        /\ \A i \in 1..n1 : text[pos + i] \in Spacing \cup {CR}
    <3>1. CASE c = CR
      <4> SUFFICES ASSUME NEW i \in 1..n + 1
                   PROVE  text[pos + i] \in Spacing \cup {CR}
        BY <1>2, <2>1, <3>1
      <4>1. CASE i = n + 1
        BY <1>2, <3>1, <4>1
      <4>2. CASE i # n + 1
        BY <1>2, <4>2
      <4> QED
        BY <4>1, <4>2
    <3>2. CASE c # CR
      BY <1>2, <3>2
    <3> QED
      BY <3>1, <3>2
  <2>3. CASE Ahead(n1, {LF}) /\ ConsumeLine(n1 + 1) /\ Goto("next_indent")
    <3> HIDE DEF n1
    <3>1. pos + n1 < Len(text) /\ text[pos + n1 + 1] = LF
      BY <2>3 DEF Ahead
    <3>2. Between'
      BY <2>3 DEF Goto, Between, LexemeFunctions
    <3> QED
      BY <1>1, <2>2, <2>3, <3>1, <3>2, NewlineStep
  <2>4. CASE ~Ahead(n1, {LF}) /\ Consume(n1) /\ Goto("panic")
    <3>1. c = CR
      BY <1>2, <2>1, <2>4 DEF Ahead
    <3>2. PICK p \in 1..Len(text) : p = pos + n + 1
      BY <1>2, <2>1
    <3>3. CommentsEnd(pos + n) /\ text[p] = CR
      BY <1>4, <2>1, <3>1, <3>2, ClassFacts
    <3>4. ~InComment(p)
      <4>1. PICK e \in Nat : e = pos + n
        BY <1>2
      <4>2. \A q \in e + 1 .. p : text[q] # "/"
        BY <3>2, <3>3, <4>1 DEF CR
      <4>3. CommentsEnd(e) /\ p \in e + 1 .. Len(text)
        BY <3>2, <3>3, <4>1
      <4> QED
        BY <1>1, <4>2, <4>3, NotInComment
    <3>5. PanicsHaveACause'
      <4>1. sym' = <<>> /\ pos' = p
        BY <1>1, <1>2, <2>4, <3>1, <3>2 DEF Consume
      <4>2. p = Len(text) \/ text[p + 1] # LF
        BY <1>2, <2>4, <3>1, <3>2 DEF Ahead
      <4> QED
        BY <1>1, <3>3, <3>4, <4>1, <4>2, PanicCause
    <3>6. \A i \in 1..n1 : text[pos + i] # LF
      BY <2>2, ClassFacts
    <3> HIDE DEF n1
    <3> QED
      BY <1>1, <2>2, <2>4, <3>5, <3>6, PanicStep DEF Goto
  <2> QED
    BY <1>6, <2>3, <2>4 DEF EndOfLine
<1>7. CASE Ahead(n, Chars \ {CR, LF}) /\ Consume(n) /\ Goto(LexemeParser(c))
  <2>1. /\ pos + n < Len(text) /\ c \in Chars \ {CR, LF}
        /\ fn' = LexemeParser(c)
    BY <1>7 DEF Ahead, Goto
  <2>2. CommentsEnd(pos + n)
    BY <1>4, <2>1
  <2>3. PICK e \in Nat : e = pos + n
    BY <1>2
  <2>4. CASE c \notin Digits \cup Letters \cup SymbolChars
    <3>1. c \in {".", "?"} /\ fn' = "panic"
      BY <1>2, <2>1, <2>4 DEF Chars, LexemeParser
    <3>2. PICK p \in 1..Len(text) : p = pos + n + 1
      BY <1>2, <2>1
    <3>3. ~InComment(p)
      <4>1. \A q \in e + 1 .. p : text[q] # "/"
        BY <2>3, <3>1, <3>2
      <4>2. CommentsEnd(e) /\ p \in e + 1 .. Len(text)
        BY <2>2, <2>3, <3>2
      <4> QED
        BY <1>1, <4>1, <4>2, NotInComment
    <3>4. PanicsHaveACause'
      <4>1. sym' = <<>> /\ p = pos' + 1 /\ text[p] \in {".", "?"}
        BY <1>1, <1>2, <1>7, <3>1, <3>2 DEF Consume
      <4> QED
        BY <1>1, <3>3, <4>1, PanicCause
    <3> HIDE DEF n
    <3> QED
      BY <1>1, <1>2, <1>3, <1>7, <3>1, <3>4, PanicStep
  <2>5. CASE c \in Digits \cup Letters \cup SymbolChars
    <3>1. /\ fn' \in LexemeFunctions
          /\ fn' = "parse_float_literal" => c \in Digits
          /\ fn' = "parse_keyword_or_ident" => c \in Letters
          /\ fn' = "parse_symbol" => c \in SymbolChars
      BY <2>1, <2>5 DEF LexemeParser, LexemeFunctions
    <3>2. /\ pos' = pos + n /\ text'[pos' + 0 + 1] = c /\ pos' + 0 < Len(text')
      BY <1>1, <1>2, <2>1, <1>7 DEF Consume
    <3> HIDE DEF n, c
    <3>3. CursorInv' /\ GoodTokens'
      BY <1>1, <1>2, <1>3, <1>7, ConsumeCursor, SameTokens DEF TextInv
    <3>4. AheadInv'
      BY <1>1, <3>1, <3>2 DEF AheadInv, Ahead
    <3>5. MatchedInv'
      BY <1>1 DEF MatchedInv, IsComment
    <3>6. PanicsHaveACause'
      BY <3>1 DEF PanicsHaveACause, LexemeFunctions
    <3>7. Before' = e
      <4>1. Len(sym') = 0 /\ pos' = e
        BY <1>1, <2>3, <3>2
      <4> QED
        BY <4>1, <2>3 DEF Before
    <3>8. TileInv'
      <4>1. Tiled(e)
        BY <1>4, <2>3
      <4> QED
        BY <1>1, <3>7, <4>1, SameTiles DEF TileInv
    <3>9. CommentInv'
      BY <1>1, <2>2, <2>3, <3>7, SameComments DEF CommentInv
    <3> QED
      BY <3>3, <3>4, <3>5, <3>6, <3>8, <3>9 DEF TextInv
  <2> QED
    BY <2>4, <2>5
<1> QED
  BY <1>5, <1>6, <1>7 DEF NextLine

-----------------------------------------------------------------------------
(* Words and numbers. *)

(* A token made of the n characters after the first e. *)
LEMMA LexemeStep ==
    ASSUME TypeOK, TextInv, UNCHANGED text, CursorInv',
           NEW e \in Nat, NEW n \in Nat, e + n <= Len(text), pos' = e + n,
           CommentsEnd(e), Tiled(e), Plain(e, e + n),
           NEW data \in TokenData, NEW start \in Location, NEW chars \in Seq(Chars),
           chars = SubSeq(text, e + 1, e + n), Len(chars) = n,
           start.index = e, OnItsLine(start),
           Longest([data |-> data, start |-> start, text |-> chars]),
           Return(data, start, chars)
    PROVE  TextInv'
<1>1. fn' = "caller" /\ Before' = e + n
  BY DEF Return, Before
<1>2. GoodTokens'
  BY MoreTokens DEF TextInv
<1>3. AheadInv' /\ MatchedInv' /\ PanicsHaveACause'
  BY <1>1 DEF AheadInv, MatchedInv, PanicsHaveACause
<1>4. PICK b \in Nat : b = e + n
  OBVIOUS
<1>5. (\A p \in e + 1 .. b : p \in CodePositions) /\ CommentsEnd(b)
  BY <1>4, PlainIsCode
<1>6. Tiled(e + n)'
  <2>1. n = 0 => chars = SubSeq(text, start.index + 1, start.index)
    BY <1>4
  <2> QED
    BY <1>4, <1>5, <2>1, TokenTiles
<1>7. TileInv'
  BY <1>1, <1>6 DEF TileInv
<1>8. CommentInv'
  BY <1>1, <1>4, <1>5, SameComments DEF CommentInv
<1> QED
  BY <1>2, <1>3, <1>7, <1>8 DEF TextInv

(* Letters, digits and points are code. *)
LEMMA PlainCharacters ==
    ASSUME TypeOK, NEW n \in Nat, pos + n <= Len(text),
           \A i \in 1..n : text[pos + i] \in Letters \cup Digits \cup {"."}
    PROVE  /\ Plain(pos, pos + n)
           /\ \A i \in 1..n : text[pos + i] # LF
<1>1. \A p \in pos + 1 .. pos + n : text[p] \in Letters \cup Digits \cup {"."}
  <2> SUFFICES ASSUME NEW p \in pos + 1 .. pos + n
               PROVE  text[p] \in Letters \cup Digits \cup {"."}
    OBVIOUS
  <2>1. p - pos \in 1..n /\ pos + (p - pos) = p
    BY Cursor
  <2> QED
    BY <2>1
<1>2. \A p \in pos + 1 .. pos + n : text[p] \notin Spacing \cup {LF, CR, "/"}
  BY <1>1, ClassFacts
<1>3. Plain(pos, pos + n)
  BY <1>2 DEF Plain, Opens
<1>4. \A i \in 1..n : text[pos + i] \notin Spacing \cup {LF, CR, "/"}
  BY ClassFacts
<1> QED
  BY <1>3, <1>4

LEMMA SliceText ==
    ASSUME TypeOK, NEW n \in Nat, pos + n <= Len(text)
    PROVE  /\ Slice(n) \in Seq(Chars)
           /\ Slice(n) = SubSeq(text, pos + 1, pos + n)
           /\ Len(Slice(n)) = n
<1>1. pos + 1 \in Nat /\ pos + n \in Nat /\ 1 + (pos + n) - (pos + 1) = n
  BY Cursor
<1>2. Len(SubSeq(text, pos + 1, pos + n)) = n
  BY <1>1, Cursor, SubSeqProperties DEF TypeOK
<1> QED
  BY <1>2, SlicesAreText DEF Slice

LEMMA ParseKeywordOrIdentText == IInv /\ TextInv /\ ParseKeywordOrIdent => TextInv'
<1> SUFFICES ASSUME IInv, TextInv, ParseKeywordOrIdent PROVE TextInv'
  OBVIOUS
<1> DEFINE n == RunLength(pos, IdentChars)
           data == CASE Slice(n) \in Keywords     -> "Keyword"
                     [] Slice(n) \in BoolLiterals -> "BoolLiteral"
                     [] OTHER                     -> "Ident"
           token == [data |-> data, start |-> location, text |-> Slice(n)]
<1>1. TypeOK /\ fn = "parse_keyword_or_ident" /\ UNCHANGED text
  BY DEF IInv, ParseKeywordOrIdent
<1>2. /\ n \in Nat /\ pos \in Nat /\ pos + n <= Len(text)
      /\ \A i \in 1..n : text[pos + i] \in IdentChars
      /\ pos + n < Len(text) => text[pos + n + 1] \notin IdentChars
  BY <1>1, RunLengthExact, Cursor DEF TypeOK
<1>3. Return(data, location, Slice(n)) /\ Consume(n)
  BY DEF ParseKeywordOrIdent
<1>4. data \in {"Keyword", "Ident", "BoolLiteral"} /\ data \in TokenData
  BY DEF TokenData
<1>5. location \in Location /\ location.index = pos /\ OnItsLine(location)
  BY <1>1, Cursor DEF location, Location, TextInv, CursorInv
<1> HIDE DEF n, data
<1>6. Plain(pos, pos + n) /\ \A i \in 1..n : text[pos + i] # LF
  BY <1>1, <1>2, PlainCharacters DEF IdentChars
<1>7. CursorInv'
  BY <1>1, <1>2, <1>3, <1>6, ConsumeCursor DEF TextInv
<1>8. CommentsEnd(pos) /\ Tiled(pos)
  BY <1>1 DEF TextInv, CommentInv, TileInv, Before, LexemeFunctions
<1>9. /\ Slice(n) \in Seq(Chars) /\ Slice(n) = SubSeq(text, pos + 1, pos + n)
      /\ Len(Slice(n)) = n
  BY <1>1, <1>2, SliceText
<1>10. Longest(token)
  BY <1>1, <1>2, <1>4, <1>5, <1>9, Cursor DEF Longest, IdentChars
<1>11. PICK e \in Nat, l \in Location, chars \in Seq(Chars) :
          e = pos /\ l = location /\ chars = Slice(n)
  BY <1>2, <1>5, <1>9
<1>12. pos' = e + n
  BY <1>3, <1>11 DEF Consume
<1> HIDE DEF token
<1>13. Longest([data |-> data, start |-> l, text |-> chars])
  BY <1>10, <1>11 DEF token
<1> QED
  BY <1>1, <1>2, <1>3, <1>4, <1>5, <1>6, <1>7, <1>8, <1>9, <1>11, <1>12, <1>13, LexemeStep

(* The optional part of a number: a mark and the digits after it. *)
LEMMA AfterPartExact ==
    ASSUME TypeOK, NEW n \in Nat, pos + n <= Len(text), NEW mark, NEW C,
           mark \subseteq C, Digits \subseteq C,
           \A i \in 1..n : text[pos + i] \in C,
           pos + n < Len(text) => text[pos + n + 1] \notin Digits,
           NEW a, a = AfterPart(n, mark)
    PROVE  /\ a \in Nat /\ n <= a /\ pos + a <= Len(text)
           /\ \A i \in 1..a : text[pos + i] \in C
           /\ pos + a < Len(text) => text[pos + a + 1] \notin Digits
           /\ a # n => /\ text[pos + n + 1] \in mark
                       /\ a # n + 1 => text[pos + a] \in Digits
                       /\ \A i \in n + 2 .. a : text[pos + i] \in Digits
<1> DEFINE r == RunLength(pos + n + 1, Digits)
<1>1. Len(text) \in Nat /\ pos \in Nat
  BY Cursor
<1>2. CASE ~Ahead(n, mark)
  <2>1. a = n
    BY <1>2 DEF AfterPart
  <2> QED
    BY <1>1, <2>1
<1>3. CASE Ahead(n, mark)
  <2>1. a = n + 1 + r /\ pos + n < Len(text) /\ text[pos + n + 1] \in mark
    BY <1>3 DEF AfterPart, Ahead
  <2>2. /\ r \in Nat /\ pos + n + 1 + r <= Len(text)
        /\ \A i \in 1..r : text[pos + n + 1 + i] \in Digits
        /\ pos + n + 1 + r < Len(text) => text[pos + n + 1 + r + 1] \notin Digits
    <3>1. pos + n + 1 \in 0..Len(text)
      BY <1>1, <2>1
    <3> QED
      BY <3>1, RunLengthExact
  <2> HIDE DEF r
  <2>3. a \in Nat /\ n <= a /\ pos + a <= Len(text) /\ pos + a + 1 = pos + n + 1 + r + 1
    BY <1>1, <2>1, <2>2
  <2>4. ASSUME NEW i \in 1..a
        PROVE  text[pos + i] \in C
    <3>1. CASE i <= n
      BY <3>1
    <3>2. CASE i = n + 1
      <4>1. pos + i = pos + n + 1
        BY <1>1, <3>2
      <4> QED
        BY <2>1, <4>1
    <3>3. CASE i > n + 1
      <4>1. i - (n + 1) \in 1..r /\ pos + n + 1 + (i - (n + 1)) = pos + i
        BY <1>1, <2>1, <2>2, <3>3
      <4> QED
        BY <2>2, <4>1
    <3> QED
      BY <2>3, <3>1, <3>2, <3>3
  <2>5. a # n + 1 => text[pos + a] \in Digits
    <3> SUFFICES ASSUME a # n + 1 PROVE text[pos + a] \in Digits
      OBVIOUS
    <3>1. r \in 1..r /\ pos + n + 1 + r = pos + a
      BY <1>1, <2>1, <2>2
    <3> QED
      BY <2>2, <3>1
  <2>6. ASSUME NEW i \in n + 2 .. a PROVE text[pos + i] \in Digits
    <3>1. i - (n + 1) \in 1..r /\ pos + n + 1 + (i - (n + 1)) = pos + i
      BY <1>1, <2>1, <2>2
    <3> QED
      BY <2>2, <3>1
  <2> QED
    BY <1>1, <2>1, <2>2, <2>3, <2>4, <2>5, <2>6
<1> QED
  BY <1>2, <1>3

LEMMA ParseFloatLiteralText == IInv /\ TextInv /\ ParseFloatLiteral => TextInv'
<1> SUFFICES ASSUME IInv, TextInv, ParseFloatLiteral PROVE TextInv'
  OBVIOUS
<1>1. /\ TypeOK /\ fn = "parse_float_literal" /\ UNCHANGED <<text, sym>>
      /\ Ahead(0, Digits) /\ sym = <<>>
  BY DEF IInv, ParseFloatLiteral, TextInv, AheadInv
<1>2. PICK whole : whole = RunLength(pos, Digits)
  OBVIOUS
<1>3. PICK fraction : fraction = AfterPart(whole, {"."})
  OBVIOUS
<1>4. PICK all : all = AfterPart(fraction, Exponents)
  OBVIOUS
<1> DEFINE C == Letters \cup Digits \cup {"."}
<1>5. /\ whole \in Nat /\ pos \in Nat /\ pos + whole <= Len(text) /\ Len(text) \in Nat
      /\ \A i \in 1..whole : text[pos + i] \in Digits
      /\ pos + whole < Len(text) => text[pos + whole + 1] \notin Digits
  BY <1>1, <1>2, RunLengthExact, Cursor DEF TypeOK
<1>6. whole >= 1
  <2>1. pos < Len(text) /\ text[pos + 1] \in Digits
    BY <1>1, <1>5 DEF Ahead
  <2> QED
    BY <1>5, <2>1
<1>7. {"."} \subseteq C /\ Exponents \subseteq C /\ Digits \subseteq C
  BY ClassFacts
<1>8. \A i \in 1..whole : text[pos + i] \in C
  BY <1>5
<1> HIDE DEF C
<1>9. /\ fraction \in Nat /\ whole <= fraction /\ pos + fraction <= Len(text)
      /\ \A i \in 1..fraction : text[pos + i] \in C
      /\ pos + fraction < Len(text) => text[pos + fraction + 1] \notin Digits
      /\ fraction # whole => /\ text[pos + whole + 1] \in {"."}
                             /\ fraction # whole + 1 => text[pos + fraction] \in Digits
                             /\ \A i \in whole + 2 .. fraction : text[pos + i] \in Digits
  <2>1. PICK mark : mark = {"."}
    OBVIOUS
  <2>2. mark \subseteq C /\ fraction = AfterPart(whole, mark)
    BY <1>3, <1>7, <2>1
  <2>3. whole \in Nat /\ pos + whole <= Len(text) /\ Digits \subseteq C
    BY <1>5, <1>7
  <2>4. pos + whole < Len(text) => text[pos + whole + 1] \notin Digits
    BY <1>5
  <2>5. /\ fraction \in Nat /\ whole <= fraction /\ pos + fraction <= Len(text)
        /\ \A i \in 1..fraction : text[pos + i] \in C
        /\ pos + fraction < Len(text) => text[pos + fraction + 1] \notin Digits
    BY <1>1, <1>8, <2>2, <2>3, <2>4, AfterPartExact
  <2>6. fraction # whole => text[pos + whole + 1] \in mark
    BY <1>1, <1>8, <2>2, <2>3, <2>4, AfterPartExact
  <2>7. fraction # whole /\ fraction # whole + 1 => text[pos + fraction] \in Digits
    BY <1>1, <1>8, <2>2, <2>3, <2>4, AfterPartExact
  <2>8. fraction # whole => \A i \in whole + 2 .. fraction : text[pos + i] \in Digits
    BY <1>1, <1>8, <2>2, <2>3, <2>4, AfterPartExact
  <2> QED
    BY <2>1, <2>5, <2>6, <2>7, <2>8
<1>10. /\ all \in Nat /\ fraction <= all /\ pos + all <= Len(text)
       /\ \A i \in 1..all : text[pos + i] \in C
       /\ pos + all < Len(text) => text[pos + all + 1] \notin Digits
       /\ all # fraction => text[pos + fraction + 1] \in Exponents
  BY <1>1, <1>4, <1>7, <1>9, AfterPartExact
<1>11. CommentsEnd(pos) /\ Tiled(pos)
  BY <1>1 DEF TextInv, CommentInv, TileInv, Before, LexemeFunctions
<1>12. Plain(pos, pos + all) /\ \A i \in 1..all : text[pos + i] # LF
  BY <1>1, <1>10, PlainCharacters DEF C
<1>13. CASE /\ fraction = whole + 1 \/ all = fraction + 1
            /\ Goto("panic") /\ UNCHANGED <<cursor, sym>>
  <2>1. PICK k \in 2..all :
           /\ text[pos + k] \in {"."} \cup Exponents
           /\ text[pos + k] = "." => \A i \in 1 .. k - 1 : text[pos + i] \in Digits
           /\ text[pos + (k - 1)] \in Digits
           /\ \A i \in 1 .. k - 1 : \/ text[pos + i] \in Digits
                                    \/ text[pos + i] = "." /\ i = whole + 1
           /\ pos + k = Len(text) \/ text[pos + k + 1] \notin Digits
    <3>1. CASE fraction = whole + 1
      <4>1. whole + 1 \in 2..all /\ text[pos + (whole + 1)] = "." /\ whole \in 1..whole
        BY <1>5, <1>6, <1>9, <1>10, <3>1
      <4>2. pos + (whole + 1) = Len(text) \/ text[pos + (whole + 1) + 1] \notin Digits
        BY <1>5, <1>9, <3>1
      <4>3. PICK k : k = whole + 1
        OBVIOUS
      <4>4. k \in 2..all /\ k - 1 = whole /\ text[pos + k] = "."
        BY <1>5, <4>1, <4>3
      <4>5. \A i \in 1 .. k - 1 : text[pos + i] \in Digits
        BY <1>5, <4>4
      <4>6. text[pos + (k - 1)] \in Digits
        BY <1>5, <4>1, <4>4
      <4>7. pos + k = Len(text) \/ text[pos + k + 1] \notin Digits
        BY <4>2, <4>3
      <4> QED
        BY <4>4, <4>5, <4>6, <4>7
    <3>2. CASE fraction # whole + 1
      <4>1. /\ fraction + 1 \in 2..all /\ pos + (fraction + 1) = pos + fraction + 1
            /\ all = fraction + 1 /\ fraction + 1 - 1 = fraction
        BY <1>5, <1>6, <1>9, <1>10, <1>13, <3>2
      <4>2. text[pos + fraction] \in Digits
        <5>1. CASE fraction = whole
          <6>1. whole \in 1..whole
            BY <1>5, <1>6
          <6> QED
            BY <1>5, <5>1, <6>1
        <5>2. CASE fraction # whole
          BY <1>9, <3>2, <5>2
        <5> QED
          BY <5>1, <5>2
      <4>3. text[pos + fraction + 1] \in Exponents /\ text[pos + fraction + 1] # "."
        <5>1. text[pos + fraction + 1] \in Exponents
          <6>1. all # fraction
            BY <1>9, <4>1
          <6> QED
            BY <1>10, <6>1
        <5>2. PICK x : x = text[pos + fraction + 1]
          OBVIOUS
        <5>3. "." \notin Exponents
          BY ClassesAssumption
        <5> QED
          BY <5>1, <5>2, <5>3
      <4>4. ASSUME NEW i \in 1..fraction
            PROVE  text[pos + i] \in Digits \/ (text[pos + i] = "." /\ i = whole + 1)
        <5>1. i \in 1..whole \/ i = whole + 1 \/ i \in whole + 2 .. fraction
          BY <1>5, <1>9
        <5>2. i = whole + 1 => pos + i = pos + whole + 1 /\ fraction # whole
          BY <1>5, <1>9
        <5>3. i \in whole + 2 .. fraction => fraction # whole
          BY <1>5, <1>9
        <5> QED
          BY <1>5, <1>9, <5>1, <5>2, <5>3
      <4>5. pos + (fraction + 1) = Len(text) \/ text[pos + (fraction + 1) + 1] \notin Digits
        BY <1>5, <1>9, <1>10, <4>1
      <4>6. PICK k : k = fraction + 1
        OBVIOUS
      <4>7. k \in 2..all /\ k - 1 = fraction /\ pos + k = pos + fraction + 1
        BY <1>9, <4>1, <4>6
      <4>8. text[pos + k] \in Exponents /\ text[pos + k] # "."
        BY <4>3, <4>7
      <4>9. text[pos + (k - 1)] \in Digits
        BY <4>2, <4>7
      <4>10. \A i \in 1 .. k - 1 : \/ text[pos + i] \in Digits
                                   \/ text[pos + i] = "." /\ i = whole + 1
        BY <4>4, <4>7
      <4>11. pos + k = Len(text) \/ text[pos + k + 1] \notin Digits
        BY <4>5, <4>6
      <4> QED
        BY <4>7, <4>8, <4>9, <4>10, <4>11
    <3> QED
      BY <3>1, <3>2
  <2>2. PICK p \in 1..Len(text) : p = pos + 1
    BY <1>5, <1>6
  <2>3. text[p] \in Digits /\ 1 \in 1..whole
    BY <1>5, <1>6, <2>2
  <2>4. ~InComment(p)
    <3>1. \A q \in pos + 1 .. p : text[q] # "/"
      BY <1>5, <2>2, <2>3, ClassFacts
    <3>2. p \in pos + 1 .. Len(text)
      BY <1>5, <2>2
    <3>3. PICK e \in Nat : e = pos
      BY <1>5
    <3> QED
      BY <1>1, <1>11, <3>1, <3>2, <3>3, NotInComment
  <2>5. NumberLacksDigits(p)
    <3>1. PICK q \in p + 1 .. Len(text) : q = pos + k /\ q - 1 = pos + (k - 1)
      BY <1>5, <1>10, <2>2
    <3>2. \A r \in p .. q - 1 : r - pos \in 1 .. k - 1 /\ pos + (r - pos) = r
      BY <1>5, <2>2, <3>1
    <3>3. /\ text[q] \in {"."} \cup Exponents
          /\ text[q] = "." => \A r \in p .. q - 1 : text[r] \in Digits
          /\ text[q - 1] \in Digits
          /\ q = Len(text) \/ text[q + 1] \notin Digits
      BY <2>1, <3>1, <3>2
    <3>4. \A r \in p .. q - 1 : \/ text[r] \in Digits
                                \/ text[r] = "." /\ r = pos + (whole + 1)
      BY <1>5, <2>1, <3>2
    <3>5. "." \notin Digits
      BY ClassesAssumption
    <3>6. \A r, s \in p .. q - 1 : text[r] = "." /\ text[s] = "." => r = s
      BY <3>4, <3>5
    <3>7. \A r \in p .. q - 1 : text[r] \in Digits \cup {"."}
      BY <3>4
    <3> QED
      BY <3>3, <3>6, <3>7 DEF NumberLacksDigits
  <2>6. PanicsHaveACause'
    <3>1. pos' = pos /\ sym' = <<>>
      BY <1>1, <1>13 DEF cursor
    <3> QED
      BY <1>1, <2>2, <2>3, <2>4, <2>5, <3>1, PanicCause
  <2>7. Consume(0) /\ pos + 0 <= Len(text) /\ 0 \in Nat
    BY <1>1, <1>13, ConsumeNothing, Cursor
  <2> QED
    BY <1>1, <1>13, <2>6, <2>7, PanicStep DEF Goto
<1>14. CASE Return("NumberLiteral", location, Slice(all)) /\ Consume(all)
  <2>1. location \in Location /\ location.index = pos /\ OnItsLine(location)
    BY <1>1, Cursor DEF location, Location, TextInv, CursorInv
  <2>2. CursorInv'
    BY <1>1, <1>10, <1>12, <1>14, ConsumeCursor DEF TextInv
  <2>3. /\ Slice(all) \in Seq(Chars) /\ Slice(all) = SubSeq(text, pos + 1, pos + all)
        /\ Len(Slice(all)) = all
    BY <1>1, <1>10, SliceText
  <2>4. PICK e \in Nat, l \in Location, chars \in Seq(Chars) :
           e = pos /\ l = location /\ chars = Slice(all)
    BY <1>5, <2>1, <2>3
  <2>5. Longest([data |-> "NumberLiteral", start |-> l, text |-> chars])
    BY <1>1, <1>10, <2>1, <2>3, <2>4, Cursor DEF Longest
  <2>6. pos' = e + all
    BY <1>14, <2>4 DEF Consume
  <2>7. "NumberLiteral" \in TokenData
    BY DEF TokenData
  <2> QED
    BY <1>1, <1>10, <1>11, <1>12, <1>14, <2>1, <2>2, <2>3, <2>4, <2>5, <2>6, <2>7, LexemeStep
<1> QED
  BY <1>2, <1>3, <1>4, <1>13, <1>14 DEF ParseFloatLiteral

-----------------------------------------------------------------------------
(* Symbols. *)

LEMMA MatchedSlice ==
    ASSUME TypeOK, NEW e \in Nat, NEW t \in Seq(Chars), e + Len(t) <= Len(text),
           \A i \in 1..Len(t) : text[e + i] = t[i]
    PROVE  t = SubSeq(text, e + 1, e + Len(t))
<1> DEFINE n == Len(t)
           u == SubSeq(text, e + 1, e + n)
<1>1. n \in Nat /\ Len(text) \in Nat /\ text \in Seq(Chars)
  BY Cursor, LenProperties DEF TypeOK
<1>2. Len(u) = n /\ u \in Seq(Chars) /\ \A i \in 1..n : u[i] = text[e + i]
  <2>1. e + 1 \in 1..(Len(text) + 1) /\ e + n \in e..Len(text)
    BY <1>1
  <2> HIDE DEF n
  <2>2. \A i \in e + 1 .. e + n : text[i] \in Chars
    BY <1>1, <2>1, ElementOfSeq
  <2> QED
    BY <1>1, <2>1, <2>2, SubSeqProperties
<1> HIDE DEF u
<1>3. t \in Seq(Chars) /\ u \in Seq(Chars) /\ Len(t) = Len(u)
      /\ \A i \in 1..Len(t) : t[i] = u[i]
  BY <1>1, <1>2
<1>4. t = u
  BY <1>3, SeqEqual
<1> QED
  BY <1>4 DEF u

(* A complete symbol opens no comment. *)
LEMMA CompleteIsNoComment ==
    ASSUME NEW s \in Complete
    PROVE  ~IsComment(s) /\ (Len(s) = 1 => s[1] # "/")
<1>1. CASE s = [i \in 1..7 |-> "<"]
  BY <1>1, Runs DEF IsComment
<1>2. CASE s # [i \in 1..7 |-> "<"]
  BY <1>2 DEF Complete, IsComment
<1> QED
  BY <1>1, <1>2

(* A symbol becomes a token. *)
LEMMA SymbolStep ==
    ASSUME TypeOK, TextInv, UNCHANGED text, CursorInv',
           NEW e \in Nat, CommentsEnd(e), Tiled(e),
           NEW t \in Seq(Chars), t \in Complete \cup CompletePrefix \cup Partial,
           ~IsComment(t), e + Len(t) <= Len(text), pos' = e + Len(t),
           \A i \in 1..Len(t) : text[e + i] = t[i],
           (t[1] = "/" /\ Len(t) = 1 /\ e + 1 < Len(text)) => text[e + 2] # "/",
           NEW start \in Location, start.index = e, OnItsLine(start),
           e + Len(t) < Len(text) => Append(t, text[e + Len(t) + 1]) \notin Symbols,
           Return("Symbol", start, t)
    PROVE  TextInv'
<1>1. PICK n \in Nat : n = Len(t)
  BY LenProperties
<1>2. t = SubSeq(text, e + 1, e + n)
  BY <1>1, MatchedSlice
<1>3. /\ n \in 1..7
      /\ \A i \in 1..n : t[i] \in SymbolChars
      /\ \A i \in 1..n : t[i] = "/" => i = 1 /\ (n > 1 => t[2] \in {"=", ">"})
  BY <1>1, SymbolText
<1>4. Plain(e, e + n)
  <2> SUFFICES ASSUME NEW p \in e + 1 .. e + n
               PROVE  text[p] \notin Spacing \cup {LF, CR} /\ ~Opens(p)
    BY DEF Plain
  <2>1. PICK i \in 1..n : p = e + i
    <3>1. p - e \in 1..n /\ p = e + (p - e)
      OBVIOUS
    <3> QED
      BY <3>1
  <2>2. text[p] = t[i] /\ text[p] \in SymbolChars
    BY <1>1, <1>3, <2>1
  <2>3. ASSUME Opens(p) PROVE FALSE
    <3>1. t[i] = "/" /\ text[p + 1] = "/" /\ p < Len(text)
      BY <2>2, <2>3 DEF Opens
    <3>2. i = 1 /\ p + 1 = e + 2
      BY <1>3, <2>1, <3>1
    <3>3. CASE n > 1
      <4>1. t[2] \in {"=", ">"} /\ text[e + 2] = t[2]
        BY <1>1, <1>3, <3>1, <3>3
      <4> QED
        BY <3>1, <3>2, <4>1
    <3>4. CASE n = 1
      BY <1>1, <2>1, <3>1, <3>2, <3>4
    <3> QED
      BY <1>3, <3>3, <3>4
  <2> QED
    BY <2>2, <2>3, ClassFacts
<1>5. Longest([data |-> "Symbol", start |-> start, text |-> t])
  BY <1>1, Cursor DEF Longest
<1>6. "Symbol" \in TokenData
  BY DEF TokenData
<1> QED
  BY <1>1, <1>2, <1>4, <1>5, <1>6, LexemeStep

LEMMA ParseSymbolText == IInv /\ TextInv /\ ParseSymbol => TextInv'
<1> SUFFICES ASSUME IInv, TextInv, ParseSymbol PROVE TextInv'
  OBVIOUS
<1>1. /\ TypeOK /\ fn = "parse_symbol" /\ UNCHANGED text /\ CursorInv
      /\ tokenizer_state = "LookingForNewline"
  BY DEF IInv, ParseSymbol, TextInv, StateInv, Functions
<1>2. PICK s : s = IF pos < Len(text) THEN Append(sym, text[pos + 1]) ELSE sym
  OBVIOUS
<1>3. /\ Len(text) \in Nat /\ pos \in Nat /\ pos <= Len(text) /\ column \in Nat
      /\ sym \in Seq(Chars) /\ Len(sym) \in Nat /\ Len(sym) <= pos /\ Len(sym) <= column
      /\ \A p \in 1..Len(text) : text[p] \in Chars
  BY <1>1, Cursor DEF IInv, SymInv
<1>4. PICK e \in Nat : e = pos - Len(sym)
  <2>1. pos - Len(sym) \in Nat
    BY <1>3
  <2> QED
    BY <2>1
<1>5. /\ Before = e /\ pos = e + Len(sym)
      /\ CommentsEnd(e) /\ Tiled(e)
  BY <1>1, <1>3, <1>4 DEF Before, TextInv, CommentInv, TileInv, LexemeFunctions
<1>6. /\ ~IsComment(sym)
      /\ \A i \in 1..Len(sym) : text[e + i] = sym[i]
      /\ sym # <<>> => sym \in CompletePrefix \cup Partial
      /\ sym = <<>> => pos < Len(text) /\ text[pos + 1] \in SymbolChars
  <2>1. sym = <<>> => pos + 0 < Len(text) /\ text[pos + 0 + 1] \in SymbolChars
    BY <1>1 DEF TextInv, AheadInv, Ahead
  <2> QED
    BY <1>1, <1>3, <1>4, <2>1 DEF TextInv, MatchedInv, IInv, SymInv
<1>7. sym # <<>> => Len(sym) >= 1
  BY <1>6, SymbolText
<1>8. /\ s \in Seq(Chars) /\ Len(s) \in Nat
      /\ pos < Len(text) =>
            /\ Len(s) = Len(sym) + 1 /\ s[Len(s)] = text[pos + 1]
            /\ \A i \in 1..Len(sym) : s[i] = sym[i]
            /\ e + Len(s) = pos + 1
      /\ ~(pos < Len(text)) => s = sym
  <2>1. CASE pos < Len(text)
    <3>1. s = Append(sym, text[pos + 1]) /\ text[pos + 1] \in Chars
      BY <1>2, <1>3, <2>1
    <3>2. /\ s \in Seq(Chars) /\ Len(s) = Len(sym) + 1
          /\ s[Len(sym) + 1] = text[pos + 1]
          /\ \A i \in 1..Len(sym) : s[i] = sym[i]
      BY <1>3, <3>1, AppendProperties
    <3> QED
      BY <1>3, <1>5, <2>1, <3>2
  <2>2. CASE ~(pos < Len(text))
    BY <1>2, <1>3, <2>2
  <2> QED
    BY <2>1, <2>2
<1>9. \A i \in 1..Len(s) : text[e + i] = s[i]
  <2>1. CASE pos < Len(text)
    <3> SUFFICES ASSUME NEW i \in 1..Len(s) PROVE text[e + i] = s[i]
      OBVIOUS
    <3>1. CASE i = Len(s)
      <4>1. e + i = pos + 1
        BY <1>8, <2>1, <3>1
      <4> QED
        BY <1>8, <2>1, <3>1, <4>1
    <3>2. CASE i # Len(s)
      <4>1. i \in 1..Len(sym)
        BY <1>3, <1>8, <2>1, <3>2
      <4> QED
        BY <1>6, <1>8, <2>1, <4>1
    <3> QED
      BY <3>1, <3>2
  <2>2. CASE ~(pos < Len(text))
    BY <1>6, <1>8, <2>2
  <2> QED
    BY <2>1, <2>2
<1>10. /\ SymStart \in Location /\ SymStart.index = e /\ OnItsLine(SymStart)
  <2>1. SymStart \in Location
    BY <1>1, SymStartType DEF IInv
  <2>2. SymStart.index = e /\ SymStart.line = line
    BY <1>4 DEF SymStart
  <2>3. SymStart.index - SymStart.column = pos - column
    BY <1>3 DEF SymStart
  <2>4. SymStart.index \in Nat /\ SymStart.column \in Nat
    BY <1>3, <1>4 DEF SymStart
  <2> QED
    BY <1>1, <2>1, <2>2, <2>3, <2>4, StartIsOnLine
<1>11. PICK start \in Location : start = SymStart /\ start.index = e /\ OnItsLine(start)
  BY <1>10
<1>12. ASSUME s \in Complete \cup CompletePrefix \cup Partial, ~IsComment(s),
              pos < Len(text), Consume(1)
       PROVE  CursorInv' /\ pos' = e + Len(s) /\ e + Len(s) <= Len(text)
  <2>1. text[pos + 1] # LF
    <3>1. Len(s) \in 1..Len(s) /\ s[Len(s)] \in SymbolChars
      <4>1. Len(s) \in 1..7 /\ \A i \in 1..Len(s) : s[i] \in SymbolChars
        BY <1>12, SymbolText
      <4>2. PICK k \in 1..7 : k = Len(s)
        BY <4>1
      <4>3. k \in 1..k
        BY <4>2
      <4> QED
        BY <4>1, <4>2, <4>3
    <3> QED
      BY <1>8, <1>12, <3>1, ClassFacts
  <2>2. \A i \in 1..1 : text[pos + i] # LF
    BY <2>1
  <2>3. pos + 1 <= Len(text) /\ pos' = pos + 1
    BY <1>3, <1>12 DEF Consume
  <2> QED
    BY <1>1, <1>8, <1>12, <2>2, <2>3, ConsumeCursor
<1>13. CASE /\ IsComment(s)
            /\ Consume(RunLength(pos, Chars \ {LF}))
            /\ Goto(Dispatch(tokenizer_state))
  <2> DEFINE r == RunLength(pos, Chars \ {LF})
  <2>1. pos < Len(text)
    BY <1>6, <1>8, <1>13
  <2>2. Len(s) >= 2 /\ s[1] = "/" /\ s[2] = "/"
    BY <1>13 DEF IsComment
  <2>3. sym # <<>> /\ sym \in CompletePrefix \cup Partial /\ sym[1] = "/"
    <3>1. Len(sym) >= 1
      BY <1>3, <1>8, <2>1, <2>2
    <3>2. sym # <<>>
      BY <3>1
    <3> QED
      BY <1>3, <1>6, <1>8, <2>1, <2>2, <3>1, <3>2
  <2>4. Len(sym) = 1
    <3>1. Len(sym) > 1 => sym[2] \in {"=", ">"}
      BY <1>6, <1>7, <2>3, SymbolText
    <3>2. Len(sym) > 1 => sym[2] = "/"
      BY <1>3, <1>8, <2>1, <2>2
    <3>3. ~(Len(sym) > 1)
      BY <3>1, <3>2
    <3>4. Len(sym) \in Nat /\ Len(sym) >= 1
      BY <1>3, <1>7, <2>3
    <3>5. PICK k \in Nat : k = Len(sym)
      BY <3>4
    <3> QED
      BY <3>3, <3>4, <3>5
  <2>5. pos = e + 1 /\ text[pos] = "/" /\ text[pos + 1] = "/"
    <3>1. s[Len(s)] = s[2]
      <4>1. Len(s) = Len(sym) + 1
        BY <1>8, <2>1
      <4>2. Len(s) = 2
        BY <2>4, <4>1
      <4> QED
        BY <4>2
    <3> QED
      BY <1>5, <1>6, <1>8, <2>1, <2>2, <2>3, <2>4, <3>1
  <2>6. /\ r \in Nat /\ pos + r <= Len(text)
        /\ \A i \in 1..r : text[pos + i] # LF
        /\ pos + r < Len(text) => text[pos + r + 1] = LF
    <3>1. pos \in 0..Len(text)
      BY <1>3
    <3>2. /\ r \in Nat /\ pos + r <= Len(text)
          /\ \A i \in 1..r : text[pos + i] \in Chars \ {LF}
          /\ pos + r < Len(text) => text[pos + r + 1] \notin Chars \ {LF}
      BY <1>1, <3>1, RunLengthExact
    <3> HIDE DEF r
    <3>3. pos + r < Len(text) => text[pos + r + 1] \in Chars
      BY <1>3, <3>2
    <3> QED
      BY <3>2, <3>3
  <2>7. PICK b \in Nat : b = pos + r
    BY <1>3, <2>6
  <2>8. fn' = "next_line" /\ UNCHANGED out /\ pos' = b /\ Consume(r)
    BY <1>1, <1>13, <2>7 DEF Goto, Dispatch, Consume
  <2> HIDE DEF r
  <2>9. CursorInv' /\ GoodTokens'
    BY <1>1, <2>6, <2>8, ConsumeCursor, SameTokens DEF TextInv
  <2>10. AheadInv' /\ MatchedInv' /\ PanicsHaveACause'
    BY <2>8 DEF AheadInv, MatchedInv, PanicsHaveACause
  <2>11. Before' = b
    BY <2>8 DEF Before
  <2>12. \A p \in e + 1 .. b : p \notin CodePositions
    <3> SUFFICES ASSUME NEW p \in e + 1 .. b PROVE InComment(p)
      BY DEF CodePositions
    <3>1. pos \in 1..p /\ Opens(pos)
      BY <1>3, <2>1, <2>5 DEF Opens
    <3>2. ASSUME NEW q \in pos..p PROVE text[q] # LF
      <4>1. CASE q = pos
        BY <2>5, <4>1 DEF LF
      <4>2. CASE q # pos
        <5>1. q - pos \in 1..r /\ pos + (q - pos) = q
          BY <1>3, <2>6, <2>7, <4>2
        <5> QED
          BY <2>6, <5>1
      <4> QED
        BY <4>1, <4>2
    <3> QED
      BY <3>1, <3>2 DEF InComment, Opens
  <2>13. Tiled(b)
    BY <1>1, <1>3, <1>5, <2>5, <2>6, <2>7, <2>12, SkipTiles
  <2>14. TileInv'
    BY <1>1, <2>8, <2>11, <2>13, SameTiles DEF TileInv
  <2>15. CommentInv'
    BY <1>1, <2>6, <2>7, <2>8 DEF CommentInv, LexemeFunctions
  <2> QED
    BY <2>9, <2>10, <2>14, <2>15 DEF TextInv
<1>14. CASE s \in Complete /\ Consume(1) /\ Return("Symbol", SymStart, s)
  <2>1. pos < Len(text)
    <3>1. sym \in CompletePrefix \cup Partial \cup {<<>>}
      BY <1>6
    <3> QED
      BY <1>8, <1>14, <3>1, CompleteIsLast
  <2>2. ~IsComment(s) /\ (Len(s) = 1 => s[1] # "/")
    BY <1>14, CompleteIsNoComment
  <2>3. CursorInv' /\ pos' = e + Len(s) /\ e + Len(s) <= Len(text)
    BY <1>12, <1>14, <2>1, <2>2
  <2>4. e + Len(s) < Len(text) => Append(s, text[e + Len(s) + 1]) \notin Symbols
    <3> SUFFICES ASSUME e + Len(s) < Len(text)
                 PROVE  Append(s, text[e + Len(s) + 1]) \notin Symbols
      OBVIOUS
    <3>1. text[e + Len(s) + 1] \in Chars
      BY <1>3, <1>8
    <3> QED
      BY <1>8, <1>14, <3>1, CompleteIsLongest
  <2> QED
    BY <1>1, <1>5, <1>8, <1>9, <1>11, <1>14, <2>2, <2>3, <2>4, SymbolStep
<1>15. CASE /\ s \in (CompletePrefix \cup Partial) /\ ~IsComment(s)
            /\ pos < Len(text)
            /\ Consume(1) /\ sym' = s /\ UNCHANGED <<fn, out>>
  <2>1. CursorInv' /\ pos' = e + Len(s) /\ e + Len(s) <= Len(text)
    BY <1>12, <1>15
  <2>2. Before' = e /\ pos' - Len(sym') = e
    BY <1>1, <1>8, <1>15, <2>1 DEF Before
  <2>3. sym' # <<>>
    BY <1>3, <1>8, <1>15
  <2>4. GoodTokens' /\ PanicsHaveACause'
    BY <1>1, <1>15, SameTokens DEF TextInv, PanicsHaveACause
  <2>5. AheadInv'
    BY <1>1, <1>15, <2>3 DEF AheadInv
  <2>6. MatchedInv'
    BY <1>1, <1>9, <1>15, <2>2 DEF MatchedInv, IsComment
  <2>7. TileInv' /\ CommentInv'
    BY <1>1, <1>5, <1>15, <2>2, SameTiles, SameComments DEF TileInv, CommentInv
  <2> QED
    BY <2>1, <2>4, <2>5, <2>6, <2>7 DEF TextInv
<1>16. ASSUME sym # <<>>, Return("Symbol", SymStart, sym), UNCHANGED <<cursor, sym>>,
              pos < Len(text) => /\ Append(sym, text[pos + 1]) \notin Symbols
                                 /\ ~(Len(sym) = 1 /\ sym[1] = "/" /\ text[pos + 1] = "/")
       PROVE  TextInv'
  <2>1. CursorInv' /\ pos' = e + Len(sym) /\ e + Len(sym) <= Len(text)
    BY <1>1, <1>3, <1>5, <1>16, StillCursor DEF cursor
  <2>2. (sym[1] = "/" /\ Len(sym) = 1 /\ e + 1 < Len(text)) => text[e + 2] # "/"
    <3> SUFFICES ASSUME sym[1] = "/", Len(sym) = 1, e + 1 < Len(text)
                 PROVE  text[e + 2] # "/"
      OBVIOUS
    <3>1. pos < Len(text) /\ pos + 1 = e + 2
      BY <1>5
    <3> QED
      BY <1>16, <3>1
  <2>3. e + Len(sym) < Len(text) => Append(sym, text[e + Len(sym) + 1]) \notin Symbols
    BY <1>5, <1>16
  <2>4. sym \in Complete \cup CompletePrefix \cup Partial
    BY <1>6, <1>16
  <2>5. PICK t \in Seq(Chars) : t = sym
    BY <1>3
  <2> QED
    BY <1>1, <1>5, <1>6, <1>11, <1>16, <2>1, <2>2, <2>3, <2>4, <2>5, SymbolStep
<1>17. CASE /\ ~(pos < Len(text))
            /\ Return("Symbol", SymStart, s) /\ UNCHANGED <<cursor, sym>>
  <2>1. s = sym /\ sym # <<>>
    BY <1>6, <1>8, <1>17
  <2> QED
    BY <1>16, <1>17, <2>1
<1>18. CASE /\ s \notin (Complete \cup CompletePrefix \cup Partial)
            /\ ~IsComment(s)
            /\ sym \in CompletePrefix
            /\ Return("Symbol", SymStart, sym) /\ UNCHANGED <<cursor, sym>>
  <2>1. sym # <<>>
    BY <1>18 DEF CompletePrefix
  <2>2. pos < Len(text)
    BY <1>8, <1>18
  <2>3. s = Append(sym, text[pos + 1]) /\ s \notin Symbols
    BY <1>2, <1>18, <2>2 DEF Symbols
  <2>4. ~(Len(sym) = 1 /\ sym[1] = "/" /\ text[pos + 1] = "/")
    <3> SUFFICES ASSUME Len(sym) = 1, sym[1] = "/", text[pos + 1] = "/"
                 PROVE  FALSE
      OBVIOUS
    <3>1. Len(s) = 2
      BY <1>8, <2>2
    <3>2. s[1] = "/" /\ s[2] = "/"
      BY <1>8, <2>2, <3>1
    <3> QED
      BY <1>18, <3>1, <3>2 DEF IsComment
  <2> QED
    BY <1>16, <1>18, <2>1, <2>3, <2>4
<1>19. CASE /\ s \notin (Complete \cup CompletePrefix \cup Partial)
            /\ sym \notin CompletePrefix
            /\ Goto("panic") /\ UNCHANGED <<cursor, sym>>
  <2>1. PICK p \in e + 1 .. Len(text) :
           /\ p = e + 1
           /\ \/ text[p] = "$"
              \/ text[p] = "!" /\ (p = Len(text) \/ text[p + 1] # "=")
              \/ text[p] = "<" /\ p < Len(text) /\ text[p + 1] = "<"
    <3>1. CASE sym = <<>>
      <4>1. pos < Len(text) /\ text[pos + 1] \in SymbolChars /\ e = pos
        BY <1>3, <1>4, <1>6, <3>1
      <4>2. s = <<text[pos + 1]>>
        BY <1>2, <3>1, <4>1
      <4>3. text[pos + 1] = "$"
        BY <1>19, <4>1, <4>2, OneCharacter
      <4> QED
        BY <1>3, <4>1, <4>3
    <3>2. CASE sym = <<"!">>
      <4>1. Len(sym) = 1 /\ pos = e + 1 /\ text[e + 1] = "!"
        BY <1>5, <1>6, <3>2
      <4>2. ASSUME e + 1 < Len(text), text[e + 1 + 1] = "="
            PROVE  FALSE
        <5>1. s = <<"!", "=">>
          <6>1. Len(s) = 2 /\ s[1] = "!" /\ s[2] = "=" /\ s \in Seq(Chars)
            BY <1>8, <3>2, <4>1, <4>2
          <6>2. DOMAIN s = 1..2 /\ s = [i \in DOMAIN s |-> s[i]]
            BY <6>1, SeqDef
          <6> QED
            BY <6>1, <6>2
        <5> QED
          BY <1>19, <5>1 DEF Complete
      <4> QED
        BY <1>3, <4>1, <4>2
    <3>3. CASE Len(sym) \in 2..5 /\ sym[1] = "<" /\ sym[2] = "<"
      <4>1. PICK k \in 2..5 : k = Len(sym)
        BY <3>3
      <4>2. 1 \in 1..k /\ 2 \in 1..k /\ pos = e + k
        BY <1>5, <4>1
      <4>3. text[e + 1] = "<" /\ text[e + 2] = "<"
        BY <1>6, <3>3, <4>1, <4>2
      <4>4. e + 1 + 1 = e + 2 /\ e + 1 < Len(text)
        BY <1>3, <4>2
      <4> QED
        BY <1>3, <4>3, <4>4
    <3> QED
      BY <1>6, <1>19, <3>1, <3>2, <3>3, PartialShapes
  <2>2. ~InComment(p)
    <3>1. \A q \in e + 1 .. p : text[q] # "/"
      BY <2>1
    <3> QED
      BY <1>1, <1>5, <3>1, NotInComment
  <2>3. PanicsHaveACause'
    <3>1. p \in 1..Len(text)
      BY <1>3
    <3>2. NoSymbolAt(p)
      BY <2>1 DEF NoSymbolAt
    <3>3. p = pos' - Len(sym') + 1
      BY <1>5, <1>19, <2>1 DEF cursor
    <3> QED
      BY <1>1, <2>2, <3>1, <3>2, <3>3, PanicCause
  <2>4. Consume(0) /\ pos + 0 <= Len(text) /\ 0 \in Nat
    BY <1>1, <1>19, ConsumeNothing, Cursor
  <2> QED
    BY <1>1, <1>19, <2>3, <2>4, PanicStep DEF Goto
<1> QED
  BY <1>2, <1>13, <1>14, <1>15, <1>17, <1>18, <1>19 DEF ParseSymbol

-----------------------------------------------------------------------------
LEMMA InitText == Init => TextInv
<1> SUFFICES ASSUME Init PROVE TextInv
  OBVIOUS
<1>1. /\ pos = 0 /\ line = 0 /\ column = 0 /\ fn = "caller" /\ out = <<>>
      /\ TypeOK
  BY InitInv DEF Init, IInv
<1>2. LinesBefore(0) = 0
  <2>1. {p \in 1..0 : text[p] = LF} = {}
    OBVIOUS
  <2> QED
    BY <2>1, FS_EmptySet DEF LinesBefore
<1>3. CursorInv
  BY <1>1, <1>2 DEF CursorInv, OnItsLine, location, StartsLine
<1>4. AheadInv /\ MatchedInv /\ PanicsHaveACause
  BY <1>1 DEF AheadInv, MatchedInv, PanicsHaveACause
<1>5. Before = 0
  BY <1>1 DEF Before
<1>6. CommentInv
  BY <1>5 DEF CommentInv, CommentsEnd
<1>7. DOMAIN out = {}
  BY <1>1
<1>8. GoodTokens
  BY <1>7 DEF GoodTokens, LocationsConsistent, MaximalMunch
<1>9. TileInv
  <2>1. \A p \in CodePositions : p \in Nat \ {0}
    BY <1>1, Cursor DEF CodePositions
  <2>2. \A p \in CodePositions : ~(p <= 0)
    BY <2>1
  <2> QED
    BY <1>5, <1>7, <2>2 DEF TileInv, Tiled
<1> QED
  BY <1>3, <1>4, <1>6, <1>8, <1>9 DEF TextInv

LEMMA StutterText == TextInv /\ UNCHANGED vars => TextInv'
<1> SUFFICES ASSUME TextInv, UNCHANGED vars PROVE TextInv'
  OBVIOUS
<1> USE DEF vars
<1>1. CursorInv' /\ GoodTokens'
  BY StillCursor, SameTokens DEF TextInv
<1>2. AheadInv' /\ MatchedInv'
  BY DEF TextInv, AheadInv, Ahead, MatchedInv, cursor
<1>3. PICK e : e = Before
  OBVIOUS
<1>4. Before' = e
  BY <1>3 DEF Before, cursor
<1>5. TileInv'
  BY <1>3, <1>4, SameTiles DEF TextInv, TileInv
<1>6. CommentInv'
  BY <1>3, <1>4, SameComments DEF TextInv, CommentInv, cursor
<1>7. PanicsHaveACause'
  <2>1. \A q : InComment(q)' = InComment(q)
    BY DEF InComment
  <2> QED
    BY <2>1 DEF TextInv, PanicsHaveACause, NumberLacksDigits, NoSymbolAt, cursor
<1> QED
  BY <1>1, <1>2, <1>5, <1>6, <1>7 DEF TextInv

(* Every reachable state accounts for all of the text that has been read.    *)
LEMMA TextInvariance == Spec => []TextInv
<1>1. IInv /\ TextInv /\ [Next]_vars => TextInv'
  <2> SUFFICES ASSUME IInv, TextInv, [Next]_vars PROVE TextInv'
    OBVIOUS
  <2>1. CASE Next
    BY <2>1, CallNextText, NextEofText, NextIndentText, NextOutdentText,
       NextLineText, ParseKeywordOrIdentText, ParseFloatLiteralText,
       ParseSymbolText, StutterText DEF Next, Stopped
  <2>2. CASE UNCHANGED vars
    BY <2>2, StutterText
  <2> QED
    BY <2>1, <2>2
<1> QED
  BY InitText, <1>1, Invariance, PTL DEF Spec

(* Every location handed out names the line that its character is on and its *)
(* distance from the start of it, those that next_outdent computes from the  *)
(* indentations included.                                                    *)
THEOREM LocationsAreConsistent == Spec => []LocationsConsistent
  BY TextInvariance, PTL DEF TextInv, GoodTokens

(* Between calls every character of code that has been read is in exactly    *)
(* one token, and every token is the slice of the text at its location.      *)
THEOREM TokensTileTheCode == Spec => []TokensTileCode
<1>1. TextInv => TokensTileCode
  <2> SUFFICES ASSUME TextInv, fn = "caller" PROVE Tiled(pos)
    BY DEF TokensTileCode, Tiled
  <2> QED
    BY DEF TextInv, TileInv, Before
<1> QED
  BY TextInvariance, <1>1, PTL

(* No word is cut before a letter or digit, no number before a digit, and no *)
(* symbol before a character that makes it a longer one.                     *)
THEOREM TokensAreLongest == Spec => []MaximalMunch
  BY TextInvariance, PTL DEF TextInv, GoodTokens

(* The tokenizer panics only where it has read a CR that is not followed by  *)
(* LF, or where an unknown character, a number without the digits that it    *)
(* announces, or the beginning of no symbol comes next.                      *)
THEOREM PanicsAreCaused == Spec => []PanicsHaveACause
  BY TextInvariance, PTL DEF TextInv

-----------------------------------------------------------------------------
(* The indentations of the open blocks. *)
Open == {indent_size_stack[i] : i \in 2..Len(indent_size_stack)}

(* Every BeginBlock without its EndBlock is an open block. *)
CountInv == Count("BeginBlock") = Count("EndBlock") + OpenBlocks

(* The indentations that the first character of the line leaves open. *)
Kept == {n \in OpenIndents[line - 1] : n <= IndentOf(line)}

(* The open blocks are those of the line, of the line before where the       *)
(* indentation is still to be read, and in between where it ends blocks.     *)
OpenInv ==
    /\ tokenizer_state = "LookingForNewline" => Open = OpenIndents[line]
    /\ tokenizer_state = "LookingForIndent" =>
          line > 0 /\ column = 0 /\ Open = OpenIndents[line - 1]
    /\ tokenizer_state = "EmittingOutdents" =>
          /\ line > 0 /\ column = IndentOf(line)
          /\ Kept \subseteq Open
          /\ Open \subseteq OpenIndents[line - 1]
          /\ Kept # OpenIndents[line - 1]

DepthInv == CountInv /\ OpenInv /\ DepthFollowsIndentation

-----------------------------------------------------------------------------
(* The indentations that are open. *)

LEMMA OpenFacts ==
    ASSUME TypeOK, IndentStackIncreasing
    PROVE  /\ Open \subseteq Nat \ {0}
           /\ Len(indent_size_stack) \in Nat \ {0}
           /\ Top \in Nat
           /\ Len(indent_size_stack) > 1 => Top \in Open /\ \A n \in Open : n <= Top
           /\ Len(indent_size_stack) = 1 => Open = {} /\ Top = 0
<1> DEFINE s == indent_size_stack
<1>1. Len(s) \in Nat \ {0} /\ DOMAIN s = 1..Len(s) /\ \A i \in 1..Len(s) : s[i] \in Nat
  BY LenProperties, ElementOfSeq DEF TypeOK, IndentStackIncreasing
<1>2. s[1] = 0 /\ \A i, j \in 1..Len(s) : i < j => s[i] < s[j]
  BY <1>1 DEF IndentStackIncreasing
<1>3. \A i \in 2..Len(s) : s[i] \in Nat \ {0} /\ s[i] <= s[Len(s)]
  BY <1>1, <1>2
<1> QED
  BY <1>1, <1>2, <1>3 DEF Open, Top

(* There are as many as there are open blocks. *)
LEMMA OpenSize ==
    ASSUME TypeOK, IndentStackIncreasing
    PROVE  Cardinality(Open) = OpenBlocks
<1> DEFINE s == indent_size_stack
           k == Len(s) - 1
           f == [i \in 1..k |-> s[i + 1]]
<1>1. k \in Nat /\ DOMAIN s = 1..Len(s)
  BY LenProperties DEF TypeOK, IndentStackIncreasing
<1>2. \A i, j \in 1..k : f[i] = f[j] => i = j
  <2>1. \A i \in DOMAIN s : s[i] \in Nat
    BY <1>1, ElementOfSeq DEF TypeOK
  <2>2. \A i \in 1..k : i + 1 \in DOMAIN s
    BY <1>1
  <2>3. \A i, j \in DOMAIN s : i < j => s[i] < s[j]
    BY DEF IndentStackIncreasing
  <2> SUFFICES ASSUME NEW i \in 1..k, NEW j \in 1..k, s[i + 1] = s[j + 1] PROVE i = j
    OBVIOUS
  <2>4. CASE i < j
    BY <2>1, <2>2, <2>3, <2>4
  <2>5. CASE j < i
    BY <2>1, <2>2, <2>3, <2>5
  <2> QED
    BY <2>4, <2>5
<1>3. f \in [1..k -> Open]
  BY <1>1 DEF Open
<1>4. \A n \in Open : \E i \in 1..k : f[i] = n
  <2> SUFFICES ASSUME NEW j \in 2..Len(s) PROVE \E i \in 1..k : f[i] = s[j]
    BY DEF Open
  <2>1. j - 1 \in 1..k /\ (j - 1) + 1 = j
    BY <1>1
  <2>2. f[j - 1] = s[j]
    BY <2>1
  <2> QED
    BY <2>1, <2>2
<1> HIDE DEF f
<1>5. DOMAIN f = 1..k
  BY <1>3
<1>6. f \in Bijection(1..k, Open)
  BY <1>2, <1>3, <1>4, <1>5 DEF Bijection, Injection, Surjection, IsInjective
<1>7. ExistsBijection(1..k, Open)
  BY <1>6 DEF ExistsBijection
<1>8. Cardinality(Open) = k
  BY <1>1, <1>7, FS_CountingElements
<1> QED
  BY <1>8 DEF OpenBlocks

LEMMA PushOpen ==
    ASSUME TypeOK, IndentStackIncreasing, NEW n \in Nat,
           indent_size_stack' = Append(indent_size_stack, n)
    PROVE  Open' = Open \cup {n} /\ OpenBlocks' = OpenBlocks + 1
<1> DEFINE s == indent_size_stack
<1>1. s \in Seq(Nat) /\ Len(s) \in Nat \ {0}
  BY LenProperties DEF TypeOK, IndentStackIncreasing
<1>2. PICK t : t = Append(s, n)
  OBVIOUS
<1>3. Len(t) = Len(s) + 1 /\ t[Len(s) + 1] = n /\ \A i \in 1..Len(s) : t[i] = s[i]
  BY <1>1, <1>2, AppendItem
<1>4. PICK k \in Nat \ {0} : k = Len(s)
  BY <1>1
<1>5. 2..(k + 1) = (2..k) \cup {k + 1}
  OBVIOUS
<1>6. {t[i] : i \in 2..(k + 1)} = {s[i] : i \in 2..k} \cup {n}
  BY <1>3, <1>4, <1>5
<1>7. indent_size_stack' = t /\ Len(t) = k + 1
  BY <1>2, <1>3, <1>4
<1>8. Open' = {t[i] : i \in 2..(k + 1)} /\ Open = {s[i] : i \in 2..k}
  BY <1>4, <1>7 DEF Open
<1>9. OpenBlocks' = k /\ OpenBlocks = k - 1
  BY <1>4, <1>7 DEF OpenBlocks
<1>10. OpenBlocks' = OpenBlocks + 1
  BY <1>9
<1> HIDE DEF s
<1> QED
  BY <1>6, <1>8, <1>10

LEMMA PopOpen ==
    ASSUME TypeOK, IndentStackIncreasing, Len(indent_size_stack) > 1,
           indent_size_stack' = Pop
    PROVE  Open' = Open \ {Top} /\ OpenBlocks' = OpenBlocks - 1
<1> DEFINE s == indent_size_stack
<1>1. /\ Len(s) \in Nat \ {0} /\ DOMAIN s = 1..Len(s)
      /\ \A i, j \in DOMAIN s : i < j => s[i] < s[j]
      /\ \A i \in DOMAIN s : s[i] \in Nat
  BY LenProperties, ElementOfSeq DEF TypeOK, IndentStackIncreasing
<1>2. PICK t : t = Pop
  OBVIOUS
<1>3. Len(t) = Len(s) - 1 /\ \A i \in 1..Len(t) : t[i] = s[i]
  BY <1>2, PopIsPrefix
<1>4. PICK k \in Nat \ {0} : Len(s) = k + 1
  <2>1. Len(s) - 1 \in Nat \ {0} /\ Len(s) = (Len(s) - 1) + 1
    BY <1>1
  <2> QED
    BY <2>1
<1>5. 2..(k + 1) = (2..k) \cup {k + 1} /\ \A i \in 2..k : i \in 1..k /\ i # k + 1
  OBVIOUS
<1>6. \A i \in 2..k : t[i] = s[i] /\ s[i] # s[k + 1]
  <2> SUFFICES ASSUME NEW i \in 2..k PROVE t[i] = s[i] /\ s[i] # s[k + 1]
    OBVIOUS
  <2>1. i \in 1..Len(t) /\ i \in DOMAIN s /\ k + 1 \in DOMAIN s /\ i < k + 1
    BY <1>1, <1>3, <1>4
  <2>2. s[i] < s[k + 1] /\ s[i] \in Nat /\ s[k + 1] \in Nat
    BY <1>1, <2>1
  <2> QED
    BY <1>3, <2>1, <2>2
<1>7. {t[i] : i \in 2..k} = {s[i] : i \in 2..(k + 1)} \ {s[k + 1]}
  BY <1>5, <1>6
<1>8. indent_size_stack' = t /\ Len(t) = k
  BY <1>2, <1>3, <1>4
<1>9. Open' = {t[i] : i \in 2..k} /\ Open = {s[i] : i \in 2..(k + 1)} /\ Top = s[k + 1]
  BY <1>4, <1>8 DEF Open, Top
<1> QED
  BY <1>4, <1>7, <1>8, <1>9 DEF OpenBlocks

-----------------------------------------------------------------------------
(* The indentations of the lines. *)

LEMMA LinesGrow ==
    ASSUME TypeOK, NEW a \in 0..Len(text), NEW b \in 0..Len(text), a < b, StartsLine(b)
    PROVE  LinesBefore(a) < LinesBefore(b)
<1> DEFINE A == {p \in 1..a : text[p] = LF}
           B == {p \in 1..b : text[p] = LF}
<1>1. Len(text) \in Nat /\ a \in Nat /\ b \in Nat /\ b # 0
  BY Cursor
<1>2. IsFiniteSet(B)
  <2>1. IsFiniteSet(1..b)
    BY <1>1, FS_Interval
  <2> QED
    BY <2>1, FS_Subset, B \in SUBSET (1..b)
<1>3. A \in SUBSET B /\ b \in B /\ b \notin A
  BY <1>1 DEF StartsLine
<1> HIDE DEF A, B
<1>4. IsFiniteSet(A) /\ Cardinality(A) \in Nat /\ Cardinality(B) \in Nat
      /\ Cardinality(A) <= Cardinality(B) /\ Cardinality(A) # Cardinality(B)
  <2>1. IsFiniteSet(A)
    BY <1>2, <1>3, FS_Subset
  <2> QED
    BY <1>2, <1>3, <2>1, FS_Subset, FS_CardinalityType
<1> QED
  BY <1>4 DEF LinesBefore, A, B

(* The line of the cursor starts where the cursor says. *)
LEMMA LineStartHere ==
    ASSUME TypeOK, CursorInv
    PROVE  LineStart(line) = pos - column
<1> DEFINE here == pos - column
           Starts(o) == StartsLine(o) /\ LinesBefore(o) = line
<1>1. here \in 0..Len(text) /\ Starts(here)
  BY Cursor DEF CursorInv, OnItsLine, location
<1>2. \A o \in 0..Len(text) : LinesBefore(o) \in Nat
  <2> SUFFICES ASSUME NEW o \in 0..Len(text) PROVE LinesBefore(o) \in Nat
    OBVIOUS
  <2>1. IsFiniteSet(1..o)
    BY Cursor, FS_Interval
  <2>2. IsFiniteSet({p \in 1..o : text[p] = LF})
    BY <2>1, FS_Subset, {p \in 1..o : text[p] = LF} \in SUBSET (1..o)
  <2> QED
    BY <2>2, FS_CardinalityType DEF LinesBefore
<1>3. ASSUME NEW o \in 0..Len(text), Starts(o)
      PROVE  o = here
  <2>1. CASE o < here
    BY <1>1, <1>2, <1>3, <2>1, LinesGrow
  <2>2. CASE here < o
    BY <1>1, <1>2, <1>3, <2>2, LinesGrow
  <2> QED
    BY <1>1, <2>1, <2>2, Cursor
<1>4. LineStart(line) = CHOOSE o \in 0..Len(text) : Starts(o)
  BY DEF LineStart
<1> HIDE DEF here, Starts
<1> QED
  BY <1>1, <1>3, <1>4 DEF here

(* The blocks of a line, from those of the line before. *)
Blocked(n, open) ==
    LET kept == {i \in open : i <= n}
    IN IF kept \in {open, {}} THEN kept \cup ({n} \ {0}) ELSE kept

LEMMA OpenIndentsUnfolds ==
    /\ OpenIndents[0] = {}
    /\ \A l \in Nat \ {0} : OpenIndents[l] = Blocked(IndentOf(l), OpenIndents[l - 1])
<1> DEFINE Body(f) ==
              [l \in Nat |->
                  IF l = 0 THEN {}
                  ELSE LET open == f[l - 1]
                           kept == {n \in open : n <= IndentOf(l)}
                       IN IF kept \in {open, {}}
                          THEN kept \cup ({IndentOf(l)} \ {0}) ELSE kept]
           I == {IndentOf(l) : l \in Nat}
           D == SUBSET I
           F == [l \in Nat |-> [open \in D |-> Blocked(IndentOf(l + 1), open)]]
<1>1. F \in [Nat -> [D -> D]]
  <2> SUFFICES ASSUME NEW l \in Nat, NEW open \in D
               PROVE  Blocked(IndentOf(l + 1), open) \in D
    OBVIOUS
  <2>1. IndentOf(l + 1) \in I
    OBVIOUS
  <2> HIDE DEF I
  <2> QED
    BY <2>1 DEF Blocked
<1>2. {} \in D
  OBVIOUS
<1>3. \A l \in Nat, open \in D : F[l][open] = Blocked(IndentOf(l + 1), open)
  OBVIOUS
<1> HIDE DEF D, F
<1>4. PICK f \in [Nat -> D] : f[0] = {} /\ \A l \in Nat : f[l + 1] = F[l][f[l]]
  <2> HIDE DEF Body, I
  <2>1. PICK d \in D : d = {}
    BY <1>2
  <2>2. PICK f : Iterates(f, D, d, F)
    BY <1>1, Recursion
  <2> QED
    BY <2>1, <2>2 DEF Iterates
<1>5. ASSUME NEW l \in Nat
      PROVE  f[l] = IF l = 0 THEN {} ELSE Blocked(IndentOf(l), f[l - 1])
  <2>1. CASE l = 0
    BY <1>4, <2>1
  <2>2. CASE l # 0
    <3>1. l - 1 \in Nat /\ (l - 1) + 1 = l /\ f[l - 1] \in D
      BY <1>4, <2>2
    <3>2. f[l] = F[l - 1][f[l - 1]]
      BY <1>4, <3>1
    <3> QED
      BY <1>3, <2>2, <3>1, <3>2
  <2> QED
    BY <2>1, <2>2
<1>6. f = Body(f)
  BY <1>4, <1>5 DEF Blocked
<1>7. \E g : g = Body(g)
  BY <1>6
<1>8. OpenIndents = Body(OpenIndents)
  BY <1>7 DEF OpenIndents
<1>9. \A l \in Nat : Body(OpenIndents)[l] =
                        IF l = 0 THEN {} ELSE Blocked(IndentOf(l), OpenIndents[l - 1])
  BY DEF Blocked
<1> HIDE DEF Body
<1> QED
  BY <1>8, <1>9

LEMMA SameIndents ==
    ASSUME UNCHANGED text
    PROVE  OpenIndents' = OpenIndents /\ \A l : IndentOf(l)' = IndentOf(l)
<1>1. OpenIndents' = OpenIndents
  BY DEF LineStart, StartsLine, LinesBefore, IndentOf, RunLength, OpenIndents
<1>2. \A l : IndentOf(l)' = IndentOf(l)
  BY DEF LineStart, StartsLine, LinesBefore, IndentOf, RunLength
<1> QED
  BY <1>1, <1>2

-----------------------------------------------------------------------------
(* What the steps do to the blocks. *)

(* A token handed out is one more of its kind. *)
LEMMA ReturnCounts ==
    ASSUME TypeOK, NEW data \in TokenData, NEW start, NEW chars,
           Return(data, start, chars), NEW d
    PROVE  /\ Count(d) \in Nat
           /\ Count(d)' = IF d = data THEN Count(d) + 1 ELSE Count(d)
           /\ out'[Len(out')] = [data |-> data, start |-> start, text |-> chars]
           /\ out' # <<>>
<1> DEFINE token == [data |-> data, start |-> start, text |-> chars]
           C == {i \in DOMAIN out : out[i].data = d}
<1>1. token.data = data
  OBVIOUS
<1> HIDE DEF token
<1>2. PICK k \in Nat : k = Len(out)
  BY Cursor
<1>3. DOMAIN out = 1..k /\ out \in Seq(Token)
  BY <1>2, Cursor
<1>4. PICK o : o = Append(out, token)
  OBVIOUS
<1>5. Len(o) = k + 1 /\ DOMAIN o = 1..(k + 1) /\ o[k + 1] = token /\ o # <<>>
      /\ \A i \in 1..k : o[i] = out[i]
  <2>1. out \in Seq(Token \cup {token}) /\ token \in Token \cup {token}
    BY <1>2, <1>3, SeqDef
  <2>2. o \in Seq(Token \cup {token}) /\ Len(o) = Len(out) + 1 /\ o[Len(out) + 1] = token
        /\ o # <<>> /\ \A i \in 1..Len(out) : o[i] = out[i]
    BY <1>4, <2>1, AppendItem
  <2> QED
    BY <1>2, <2>2, LenProperties
<1>6. out' = o
  BY <1>4 DEF Return, token
<1>7. IsFiniteSet(C)
  <2>1. IsFiniteSet(1..k)
    BY FS_Interval
  <2> QED
    BY <1>3, <2>1, FS_Subset, C \in SUBSET (1..k)
<1>8. k + 1 \notin C /\ C \subseteq 1..k
  BY <1>3
<1>9. {i \in DOMAIN o : o[i].data = d} = IF d = data THEN C \cup {k + 1} ELSE C
  <2>1. 1..(k + 1) = (1..k) \cup {k + 1}
    OBVIOUS
  <2> QED
    BY <1>1, <1>3, <1>5, <2>1
<1>10. Count(d) = Cardinality(C)
  BY DEF Count
<1>11. Count(d)' = Cardinality({i \in DOMAIN o : o[i].data = d})
  BY <1>6 DEF Count
<1> HIDE DEF C
<1>12. Cardinality(C) \in Nat /\ Cardinality(C \cup {k + 1}) = Cardinality(C) + 1
  BY <1>7, <1>8, FS_CardinalityType, FS_AddElement
<1>13. out'[Len(out')] = token /\ out' # <<>>
  BY <1>5, <1>6
<1> QED
  BY <1>9, <1>10, <1>11, <1>12, <1>13 DEF token

(* The blocks stay as they are. *)
LEMMA SameBlocks ==
    ASSUME UNCHANGED <<text, out, indent_size_stack>>, CountInv, DepthFollowsIndentation
    PROVE  CountInv' /\ DepthFollowsIndentation'
<1>1. OpenIndents' = OpenIndents
  BY SameIndents
<1>2. CountInv'
  BY DEF CountInv, Count, OpenBlocks
<1> QED
  BY <1>1, <1>2 DEF DepthFollowsIndentation, Count

LEMMA SameOpen ==
    ASSUME UNCHANGED <<text, line, indent_size_stack, tokenizer_state>>, OpenInv,
           tokenizer_state = "LookingForNewline" \/ UNCHANGED column
    PROVE  OpenInv'
<1>1. OpenIndents' = OpenIndents /\ IndentOf(line)' = IndentOf(line)
  BY SameIndents
<1>2. Open' = Open /\ Kept' = Kept
  BY <1>1 DEF Open, Kept
<1> QED
  BY <1>1, <1>2 DEF OpenInv

(* A block begins with its BeginBlock and ends with its EndBlock. *)
LEMMA BlockTokens ==
    ASSUME TypeOK, CountInv, NEW data \in {"BeginBlock", "EndBlock", "EOF"},
           NEW start, NEW chars, Return(data, start, chars),
           OpenBlocks' = CASE data = "BeginBlock" -> OpenBlocks + 1
                           [] data = "EndBlock" -> OpenBlocks - 1
                           [] data = "EOF" -> OpenBlocks
    PROVE  CountInv' /\ DepthFollowsIndentation'
<1>1. data \in TokenData /\ data \notin TextData
  BY DEF TokenData, TextData
<1>2. /\ Count("BeginBlock") \in Nat /\ Count("EndBlock") \in Nat
      /\ Count("BeginBlock")' =
            IF data = "BeginBlock" THEN Count("BeginBlock") + 1 ELSE Count("BeginBlock")
      /\ Count("EndBlock")' =
            IF data = "EndBlock" THEN Count("EndBlock") + 1 ELSE Count("EndBlock")
      /\ out'[Len(out')].data = data
  <2>1. ASSUME NEW d \in TokenData
        PROVE  /\ Count(d) \in Nat
               /\ Count(d)' = IF d = data THEN Count(d) + 1 ELSE Count(d)
               /\ out'[Len(out')] = [data |-> data, start |-> start, text |-> chars]
    BY <1>1, ReturnCounts
  <2>2. "BeginBlock" \in TokenData /\ "EndBlock" \in TokenData
    BY DEF TokenData
  <2>3. [data |-> data, start |-> start, text |-> chars].data = data
    OBVIOUS
  <2>4. out'[Len(out')].data = data
    BY <1>1, <2>1, <2>3, Zenon
  <2>5. Count("BeginBlock") \in Nat /\ Count("BeginBlock")' =
            IF data = "BeginBlock" THEN Count("BeginBlock") + 1 ELSE Count("BeginBlock")
    BY <2>1, <2>2
  <2>6. Count("EndBlock") \in Nat /\ Count("EndBlock")' =
            IF data = "EndBlock" THEN Count("EndBlock") + 1 ELSE Count("EndBlock")
    BY <2>1, <2>2
  <2> QED
    BY <2>4, <2>5, <2>6
<1>3. OpenBlocks \in Int
  BY LenProperties DEF OpenBlocks, TypeOK
<1>4. CountInv'
  <2>1. PICK b \in Nat, e \in Nat, o \in Int :
            b = Count("BeginBlock") /\ e = Count("EndBlock") /\ o = OpenBlocks
    BY <1>2, <1>3
  <2>2. b = e + o
    BY <2>1 DEF CountInv
  <2> QED
    BY <1>2, <2>1, <2>2 DEF CountInv
<1>5. DepthFollowsIndentation'
  BY <1>1, <1>2 DEF DepthFollowsIndentation, TextData, TokenData
<1> QED
  BY <1>4, <1>5

(* A token of text is handed out on the line of the cursor. *)
LEMMA TextTokens ==
    ASSUME IInv, DepthInv, tokenizer_state = "LookingForNewline",
           UNCHANGED <<text, line, indent_size_stack, tokenizer_state>>,
           NEW data \in TextData, NEW start, NEW chars, start.line = line,
           Return(data, start, chars)
    PROVE  DepthInv'
<1>1. TypeOK /\ data \in TokenData /\ data \notin {"BeginBlock", "EndBlock"}
  BY DEF TextData, TokenData, IInv
<1>2. /\ Count("BeginBlock") \in Nat /\ Count("EndBlock") \in Nat
      /\ Count("BeginBlock")' = Count("BeginBlock")
      /\ Count("EndBlock")' = Count("EndBlock")
      /\ out'[Len(out')] = [data |-> data, start |-> start, text |-> chars]
  BY <1>1, ReturnCounts
<1>3. OpenInv' /\ OpenIndents' = OpenIndents
  BY SameOpen, SameIndents DEF DepthInv
<1>4. CountInv'
  BY <1>2 DEF DepthInv, CountInv, OpenBlocks
<1>5. Cardinality(OpenIndents[line]) = OpenBlocks
  BY OpenSize DEF IInv, DepthInv, OpenInv
<1>6. Count("BeginBlock") - Count("EndBlock") = Cardinality(OpenIndents[line])
  <2>1. OpenBlocks \in Int
    BY <1>1, LenProperties DEF OpenBlocks, TypeOK
  <2> QED
    BY <1>2, <1>5, <2>1 DEF DepthInv, CountInv
<1>7. out'[Len(out')].start.line = line
  BY <1>2
<1>8. DepthFollowsIndentation'
  BY <1>2, <1>3, <1>6, <1>7 DEF DepthFollowsIndentation
<1> QED
  BY <1>3, <1>4, <1>8 DEF DepthInv

-----------------------------------------------------------------------------
LEMMA InitDepth == Init => DepthInv
<1> SUFFICES ASSUME Init PROVE DepthInv
  OBVIOUS
<1>1. out = <<>> /\ indent_size_stack = <<0>> /\ line = 0
      /\ tokenizer_state = "LookingForNewline"
  BY DEF Init
<1>2. Open = {}
  BY <1>1 DEF Open
<1>3. CountInv
  <2>1. \A d : {i \in DOMAIN out : out[i].data = d} = {}
    BY <1>1
  <2>2. OpenBlocks = 0
    BY <1>1 DEF OpenBlocks
  <2> QED
    BY <2>1, <2>2, FS_EmptySet DEF CountInv, Count
<1>4. OpenInv
  BY <1>1, <1>2, OpenIndentsUnfolds DEF OpenInv
<1>5. DepthFollowsIndentation
  BY <1>1 DEF DepthFollowsIndentation
<1> QED
  BY <1>3, <1>4, <1>5 DEF DepthInv

LEMMA CallNextDepth == DepthInv /\ CallNext => DepthInv'
<1> SUFFICES ASSUME DepthInv, CallNext PROVE DepthInv'
  OBVIOUS
<1> QED
  BY SameBlocks, SameOpen DEF DepthInv, CallNext, Goto, cursor

LEMMA StutterDepth == DepthInv /\ UNCHANGED vars => DepthInv'
<1> SUFFICES ASSUME DepthInv, UNCHANGED vars PROVE DepthInv'
  OBVIOUS
<1> QED
  BY SameBlocks, SameOpen DEF DepthInv, vars, cursor

LEMMA NextEofDepth == IInv /\ DepthInv /\ NextEof => DepthInv'
<1> SUFFICES ASSUME IInv, DepthInv, NextEof PROVE DepthInv'
  OBVIOUS
<1>1. tokenizer_state' = "ReachedEOF" /\ TypeOK /\ IndentStackIncreasing
  BY DEF NextEof, IInv, StateInv
<1>2. OpenInv'
  BY <1>1 DEF OpenInv
<1>3. CASE /\ Len(indent_size_stack) > 1 /\ indent_size_stack' = Pop
           /\ Return("EndBlock", location, <<>>)
  <2>1. OpenBlocks' = OpenBlocks - 1
    BY <1>1, <1>3, PopOpen
  <2> QED
    BY <1>1, <1>2, <1>3, <2>1, BlockTokens DEF DepthInv
<1>4. CASE Return("EOF", location, <<>>) /\ UNCHANGED indent_size_stack
  <2>1. OpenBlocks' = OpenBlocks
    BY <1>4 DEF OpenBlocks
  <2> QED
    BY <1>1, <1>2, <1>4, <2>1, BlockTokens DEF DepthInv
<1> QED
  BY <1>3, <1>4 DEF NextEof

(* The line is in the blocks that its indentation says, from those of the    *)
(* line before.                                                              *)
LEMMA IndentationHere ==
    ASSUME TypeOK, CursorInv, line > 0, column = 0
    PROVE  IndentOf(line) = RunLength(pos, Spacing)
<1>1. LineStart(line) = pos /\ line # 0
  BY LineStartHere, Cursor
<1> QED
  BY <1>1 DEF IndentOf

LEMMA NextIndentDepth == IInv /\ TextInv /\ DepthInv /\ NextIndent => DepthInv'
<1> SUFFICES ASSUME IInv, TextInv, DepthInv, NextIndent PROVE DepthInv'
  OBVIOUS
<1>1. /\ tokenizer_state = "LookingForIndent" /\ TypeOK /\ IndentStackIncreasing
      /\ CursorInv /\ OpenInv /\ CountInv /\ UNCHANGED text
      /\ line > 0 /\ column = 0 /\ Open = OpenIndents[line - 1]
  BY DEF NextIndent, IInv, StateInv, TextInv, DepthInv, OpenInv
<1>2. PICK n : n = IndentOf(line)
  OBVIOUS
<1>3. n = RunLength(pos, Spacing) /\ n \in Nat
  <2>1. n = RunLength(pos, Spacing)
    BY <1>1, <1>2, IndentationHere
  <2>2. pos \in 0..Len(text)
    BY <1>1, Cursor
  <2> QED
    BY <1>1, <2>1, <2>2, RunLengthExact
<1>4. /\ OpenIndents' = OpenIndents /\ IndentOf(line)' = IndentOf(line')
      /\ OpenIndents[line] = Blocked(n, Open)
  <2>1. line \in Nat \ {0}
    BY <1>1, Cursor
  <2> QED
    BY <1>1, <1>2, <2>1, SameIndents, OpenIndentsUnfolds
<1>5. CASE /\ tokenizer_state' = "ReachedEOF" /\ Goto("next_eof")
           /\ UNCHANGED <<cursor, indent_size_stack>>
  <2>1. OpenInv'
    BY <1>5 DEF OpenInv
  <2> QED
    BY <1>1, <1>5, <2>1, SameBlocks DEF DepthInv, Goto
<1>6. CASE Consume(n) /\ Indentation(n)
  <2>1. line' = line /\ column' = n
    BY <1>1, <1>3, <1>6 DEF Consume
  <2>2. /\ Open \subseteq Nat \ {0} /\ Top \in Nat
        /\ Open # {} => Top \in Open /\ \A i \in Open : i <= Top
        /\ Open = {} => Top = 0
    <3>1. PICK k : k = Len(indent_size_stack)
      OBVIOUS
    <3>2. /\ Open \subseteq Nat \ {0} /\ Top \in Nat /\ k \in Nat \ {0}
          /\ k > 1 => Top \in Open /\ \A i \in Open : i <= Top
          /\ k = 1 => Open = {} /\ Top = 0
      BY <1>1, <3>1, OpenFacts
    <3>3. k > 1 \/ k = 1
      BY <3>2
    <3> QED
      BY <3>2, <3>3
  <2>3. CASE n = Top /\ tokenizer_state' = "LookingForNewline" /\ Goto("next_line")
             /\ UNCHANGED indent_size_stack
    <3>1. Blocked(n, Open) = Open
      BY <2>2, <2>3 DEF Blocked
    <3>2. Open' = Open
      BY <2>3 DEF Open
    <3>3. OpenInv'
      BY <1>4, <2>1, <2>3, <3>1, <3>2 DEF OpenInv
    <3> QED
      BY <1>1, <2>3, <3>3, SameBlocks DEF DepthInv, Goto
  <2>4. CASE n > Top /\ tokenizer_state' = "LookingForNewline"
             /\ indent_size_stack' = Append(indent_size_stack, n)
             /\ Return("BeginBlock", LocationAhead(n), <<>>)
    <3>1. \A i \in Open : i <= n
      BY <1>3, <2>2, <2>4
    <3>2. Blocked(n, Open) = Open \cup {n}
      <4>1. {i \in Open : i <= n} = Open
        BY <3>1
      <4>2. n # 0
        BY <1>3, <2>2, <2>4
      <4> QED
        BY <4>1, <4>2 DEF Blocked
    <3>3. Open' = Open \cup {n} /\ OpenBlocks' = OpenBlocks + 1
      BY <1>1, <1>3, <2>4, PushOpen
    <3>4. OpenInv'
      BY <1>4, <2>1, <2>4, <3>2, <3>3 DEF OpenInv
    <3>5. CountInv' /\ DepthFollowsIndentation'
      BY <1>1, <2>4, <3>3, BlockTokens
    <3> QED
      BY <3>4, <3>5 DEF DepthInv
  <2>5. CASE n < Top /\ tokenizer_state' = "EmittingOutdents" /\ Goto("next_outdent")
             /\ UNCHANGED indent_size_stack
    <3>1. Open' = Open /\ Kept' = {i \in OpenIndents[line - 1] : i <= n}
      BY <1>2, <1>4, <2>1, <2>5 DEF Open, Kept
    <3>2. Open # {} /\ Top \in Open /\ ~(Top <= n)
      BY <1>3, <2>2, <2>5
    <3>3. OpenInv'
      BY <1>1, <1>2, <1>4, <2>1, <2>5, <3>1, <3>2 DEF OpenInv
    <3> QED
      BY <1>1, <2>5, <3>3, SameBlocks DEF DepthInv, Goto
  <2> QED
    BY <1>6, <2>3, <2>4, <2>5 DEF Indentation
<1> QED
  BY <1>3, <1>5, <1>6 DEF NextIndent

LEMMA NextOutdentDepth == IInv /\ DepthInv /\ NextOutdent => DepthInv'
<1> SUFFICES ASSUME IInv, DepthInv, NextOutdent PROVE DepthInv'
  OBVIOUS
<1> DEFINE open == OpenIndents[line - 1]
<1>1. /\ tokenizer_state = "EmittingOutdents" /\ TypeOK /\ IndentStackIncreasing
      /\ OpenInv /\ CountInv /\ DepthFollowsIndentation
      /\ UNCHANGED <<text, line, column>>
      /\ line > 0 /\ column = IndentOf(line) /\ column \in Nat
      /\ Kept = {i \in open : i <= column}
      /\ Kept \subseteq Open /\ Open \subseteq open /\ Kept # open
  BY Cursor DEF NextOutdent, IInv, StateInv, DepthInv, OpenInv, Kept, cursor
<1>2. /\ OpenIndents' = OpenIndents /\ IndentOf(line)' = IndentOf(line)
      /\ OpenIndents[line] = Blocked(column, open)
  <2>1. line \in Nat \ {0}
    BY <1>1, Cursor
  <2> QED
    BY <1>1, <2>1, SameIndents, OpenIndentsUnfolds
<1>3. Kept' = Kept
  BY <1>1, <1>2 DEF Kept
<1> HIDE DEF open
<1>4. /\ Open \subseteq Nat \ {0} /\ Top \in Nat /\ Len(indent_size_stack) \in Nat \ {0}
      /\ Len(indent_size_stack) > 1 => Top \in Open /\ \A i \in Open : i <= Top
      /\ Len(indent_size_stack) = 1 => Open = {}
  BY <1>1, OpenFacts
<1>5. CASE /\ Len(indent_size_stack) > 1
           /\ Top > column
           /\ indent_size_stack' = Pop
           /\ Return("EndBlock", OutdentLocation(Top), <<>>)
           /\ UNCHANGED tokenizer_state
  <2>1. Open' = Open \ {Top} /\ OpenBlocks' = OpenBlocks - 1
    BY <1>1, <1>5, PopOpen
  <2>2. Top \notin Kept
    BY <1>1, <1>4, <1>5
  <2>3. OpenInv'
    BY <1>1, <1>2, <1>3, <1>5, <2>1, <2>2 DEF OpenInv, open
  <2>4. CountInv' /\ DepthFollowsIndentation'
    BY <1>1, <1>5, <2>1, BlockTokens
  <2> QED
    BY <2>3, <2>4 DEF DepthInv
<1>6. CASE /\ Len(indent_size_stack) = 1
           /\ column > 0
           /\ indent_size_stack' = Append(indent_size_stack, column)
           /\ tokenizer_state' = "LookingForNewline"
           /\ Return("BeginBlock", location, <<>>)
  <2>1. Open' = Open \cup {column} /\ OpenBlocks' = OpenBlocks + 1
    BY <1>1, <1>6, PushOpen
  <2>2. Open = {} /\ Blocked(column, open) = {column}
    <3>1. Open = {} /\ Kept = {}
      BY <1>1, <1>4, <1>6
    <3>2. {i \in open : i <= column} = {}
      BY <1>1, <3>1
    <3>3. column # 0
      BY <1>1, <1>6
    <3> QED
      BY <3>1, <3>2, <3>3 DEF Blocked
  <2>3. OpenInv'
    BY <1>1, <1>2, <1>6, <2>1, <2>2 DEF OpenInv
  <2>4. CountInv' /\ DepthFollowsIndentation'
    BY <1>1, <1>6, <2>1, BlockTokens
  <2> QED
    BY <2>3, <2>4 DEF DepthInv
<1>7. CASE /\ IF Len(indent_size_stack) > 1 THEN Top <= column ELSE column = 0
           /\ tokenizer_state' = "LookingForNewline"
           /\ Goto("next_line")
           /\ UNCHANGED indent_size_stack
  <2>1. Blocked(column, open) = Open
    <3>1. CASE Len(indent_size_stack) > 1
      <4>1. Top \in Open /\ \A i \in Open : i <= column
        BY <1>1, <1>4, <1>7, <3>1
      <4>2. Open = Kept /\ Kept # {}
        BY <1>1, <4>1
      <4> QED
        BY <1>1, <4>2 DEF Blocked
    <3>2. CASE ~(Len(indent_size_stack) > 1)
      <4>1. Len(indent_size_stack) = 1
        <5>1. PICK k \in Nat \ {0} : k = Len(indent_size_stack)
          BY <1>4
        <5> QED
          BY <3>2, <5>1
      <4>2. Open = {} /\ column = 0
        BY <1>4, <1>7, <3>2, <4>1
      <4> QED
        BY <1>1, <4>2 DEF Blocked
    <3> QED
      BY <3>1, <3>2
  <2>2. Open' = Open
    BY <1>7 DEF Open
  <2>3. OpenInv'
    BY <1>1, <1>2, <1>7, <2>1, <2>2 DEF OpenInv
  <2> QED
    BY <1>1, <1>7, <2>3, SameBlocks DEF DepthInv, Goto
<1> QED
  BY <1>5, <1>6, <1>7 DEF NextOutdent

LEMMA NextLineDepth == IInv /\ DepthInv /\ NextLine => DepthInv'
<1> SUFFICES ASSUME IInv, DepthInv, NextLine PROVE DepthInv'
  OBVIOUS
<1> DEFINE n == RunLength(pos, Spacing)
<1>1. /\ tokenizer_state = "LookingForNewline" /\ TypeOK /\ line \in Nat
      /\ UNCHANGED <<text, indent_size_stack>> /\ Open = OpenIndents[line]
  BY Cursor DEF NextLine, IInv, StateInv, Functions, DepthInv, OpenInv
<1>2. UNCHANGED out
  BY DEF NextLine, EndOfLine, Goto
<1>3. CountInv' /\ DepthFollowsIndentation'
  BY <1>1, <1>2, SameBlocks DEF DepthInv
<1>4. \/ tokenizer_state' = "ReachedEOF"
      \/ /\ tokenizer_state' = "LookingForIndent" /\ line' = line + 1 /\ column' = 0
      \/ UNCHANGED <<tokenizer_state, line>>
  BY DEF NextLine, EndOfLine, Consume, ConsumeLine
<1>5. OpenInv'
  <2>1. CASE tokenizer_state' = "ReachedEOF"
    BY <2>1 DEF OpenInv
  <2>2. CASE tokenizer_state' = "LookingForIndent" /\ line' = line + 1 /\ column' = 0
    <3>1. Open' = Open /\ OpenIndents' = OpenIndents
      BY <1>1, SameIndents DEF Open
    <3>2. line' > 0 /\ line' - 1 = line
      BY <1>1, <2>2
    <3> QED
      BY <1>1, <2>2, <3>1, <3>2 DEF OpenInv
  <2>3. CASE UNCHANGED <<tokenizer_state, line>>
    BY <1>1, <2>3, SameOpen DEF DepthInv
  <2> QED
    BY <1>4, <2>1, <2>2, <2>3
<1> QED
  BY <1>3, <1>5 DEF DepthInv

(* A step of a function of the lexemes that hands out nothing. *)
LEMMA NoTokens ==
    ASSUME IInv, DepthInv, fn \in LexemeFunctions,
           UNCHANGED <<text, line, indent_size_stack, tokenizer_state, out>>
    PROVE  DepthInv'
<1>1. tokenizer_state = "LookingForNewline"
  BY DEF IInv, StateInv, LexemeFunctions, Functions
<1> QED
  BY <1>1, SameBlocks, SameOpen DEF DepthInv

LEMMA ParseKeywordOrIdentDepth == IInv /\ DepthInv /\ ParseKeywordOrIdent => DepthInv'
<1> SUFFICES ASSUME IInv, DepthInv, ParseKeywordOrIdent PROVE DepthInv'
  OBVIOUS
<1> DEFINE n == RunLength(pos, IdentChars)
           data == CASE Slice(n) \in Keywords     -> "Keyword"
                     [] Slice(n) \in BoolLiterals -> "BoolLiteral"
                     [] OTHER                     -> "Ident"
<1>1. data \in TextData
  BY DEF TokenData, TextData
<1>2. /\ Return(data, location, Slice(n)) /\ location.line = line
      /\ UNCHANGED <<text, line, indent_size_stack, tokenizer_state>>
      /\ tokenizer_state = "LookingForNewline"
  BY DEF ParseKeywordOrIdent, Consume, location, IInv, StateInv, Functions
<1> HIDE DEF data, n
<1> QED
  BY <1>1, <1>2, TextTokens

LEMMA ParseFloatLiteralDepth == IInv /\ DepthInv /\ ParseFloatLiteral => DepthInv'
<1> SUFFICES ASSUME IInv, DepthInv, ParseFloatLiteral PROVE DepthInv'
  OBVIOUS
<1>1. /\ UNCHANGED <<text, line, indent_size_stack, tokenizer_state>>
      /\ tokenizer_state = "LookingForNewline" /\ fn \in LexemeFunctions
      /\ location.line = line /\ "NumberLiteral" \in TextData
      /\ \/ UNCHANGED out
         \/ \E chars : Return("NumberLiteral", location, chars)
  BY DEF ParseFloatLiteral, Consume, location, IInv, StateInv, Functions, Goto, cursor,
         LexemeFunctions, TextData, TokenData
<1> QED
  BY <1>1, NoTokens, TextTokens

LEMMA ParseSymbolDepth == IInv /\ DepthInv /\ ParseSymbol => DepthInv'
<1> SUFFICES ASSUME IInv, DepthInv, ParseSymbol PROVE DepthInv'
  OBVIOUS
<1>1. /\ UNCHANGED <<text, line, indent_size_stack, tokenizer_state>>
      /\ tokenizer_state = "LookingForNewline" /\ fn \in LexemeFunctions
      /\ SymStart.line = line /\ "Symbol" \in TextData
      /\ \/ UNCHANGED out
         \/ \E chars : Return("Symbol", SymStart, chars)
  BY DEF ParseSymbol, Consume, SymStart, IInv, StateInv, Functions, Goto, cursor,
         LexemeFunctions, TextData, TokenData
<1> QED
  BY <1>1, NoTokens, TextTokens

LEMMA DepthInvariance == Spec => []DepthInv
<1>1. IInv /\ TextInv /\ DepthInv /\ [Next]_vars => DepthInv'
  <2> SUFFICES ASSUME IInv, TextInv, DepthInv, [Next]_vars PROVE DepthInv'
    OBVIOUS
  <2>1. CASE Next
    BY <2>1, CallNextDepth, NextEofDepth, NextIndentDepth, NextOutdentDepth,
       NextLineDepth, ParseKeywordOrIdentDepth, ParseFloatLiteralDepth,
       ParseSymbolDepth, StutterDepth DEF Next, Stopped
  <2>2. CASE UNCHANGED vars
    BY <2>2, StutterDepth
  <2> QED
    BY <2>1, <2>2
<1> QED
  BY InitDepth, <1>1, Invariance, TextInvariance, PTL DEF Spec

(* A token is in as many blocks as the indentations of the lines up to its   *)
(* own say, for every text: those that next_outdent ends one call at a time, *)
(* and the one it begins on its own, included.                               *)
THEOREM DepthIsIndentation == Spec => []DepthFollowsIndentation
  BY DepthInvariance, PTL DEF DepthInv
=============================================================================

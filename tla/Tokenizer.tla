----------------------------- MODULE Tokenizer ------------------------------
(***************************************************************************)
(* The indentation sensitive lexer: IterTokenizer (src/src/lex/            *)
(* tokenizer.rs) over a PeekTextIter (src/src/lex/textiter.rs) with the    *)
(* default symbol table (src/src/lex/tokens.rs).                           *)
(*                                                                         *)
(* Every call of next() hands out one token.  Inside a call the functions  *)
(* of the tokenizer call each other in tail position, so that one variable *)
(* (fn) names the function that runs and every action is the body of one   *)
(* function up to its return or its tail call.  Characters are the members *)
(* of small classes; the text of a token is a sequence of characters.      *)
(***************************************************************************)
EXTENDS Naturals, Sequences, FiniteSets

CONSTANTS
    Letters,        \* characters that start an identifier ('_' included)
    Exponents,      \* the letters 'e' and 'E'
    Digits,         \* char::is_number
    Spacing,        \* white space other than CR and LF
    Keywords,       \* texts of keywords
    BoolLiterals,   \* "true" and "false"
    Texts,          \* the source texts to tokenize
    MaxEOF          \* bound: calls of next() answered with EOF

VARIABLES
    text,               \* the source text
    pos,                \* characters of it consumed (current_char)
    line,               \* current_line
    column,             \* current_column
    tokenizer_state,
    indent_size_stack,
    fn,                 \* the function that runs, "caller" between calls
    sym,                \* the symbol parse_symbol has matched so far
    out                 \* history: the tokens handed out

cursor == <<pos, line, column>>
vars == <<text, cursor, tokenizer_state, indent_size_stack, fn, sym, out>>

LF == "LF"
CR == "CR"

(* The symbol table (declare_tokens!), by rule.  A symbol is the sequence of *)
(* its characters.                                                           *)
Complete ==
    {<<c, "=">> : c \in {"=", "!", "+", "-", "*", "/", "%", "<", ">"}}
        \cup {<<c>> : c \in {"(", ")", "comma", ":"}}
        \cup {<<"=", ">">>, <<"-", ">">>, [i \in 1..7 |-> "<"]}

CompletePrefixNoEquals ==   \* a fault: "=" is missing from the table
    {<<c>> : c \in {"+", "-", "*", "/", "%", "<", ">"}} \cup {<<"/", "/">>}

CompletePrefix ==
    {<<c>> : c \in {"+", "-", "*", "/", "=", "%", "<", ">"}}
        \cup {<<"/", "/">>}

Partial == {[i \in 1..n |-> "<"] : n \in 2..5} \cup {<<"!">>}

(* Symbols that are tokens of their own, as opposed to parts of symbols. *)
Symbols == (Complete \cup CompletePrefix) \ {<<"/", "/">>}

(* "$" stands for any other character of a Unicode symbol class. *)
SymbolChars == {"%", "/", "(", ")", "-", "*", "comma", ":", "!",
                "+", "=", "<", ">", "$"}

(* "?" stands for a character of no class the tokenizer knows. *)
Chars == Letters \cup Digits \cup Spacing \cup SymbolChars
             \cup {LF, CR, ".", "?"}

ASSUME TextsAssumption == Texts \subseteq Seq(Chars)
ASSUME ClassesAssumption == /\ Letters \cap Digits = {}
                            /\ (Letters \cup Digits) \cap SymbolChars = {}
                            /\ Spacing \cap (Letters \cup Digits \cup SymbolChars) = {}
                            /\ (Letters \cup Digits \cup Spacing)
                                   \cap {LF, CR, ".", "?"} = {}
                            /\ Exponents \subseteq Letters
                            /\ Keywords \cap BoolLiterals = {}
ASSUME MaxEOFAssumption == MaxEOF \in Nat

States == {"LookingForIndent", "LookingForNewline",
           "EmittingOutdents", "ReachedEOF"}

TokenData == {"Keyword", "Ident", "BoolLiteral", "NumberLiteral", "Symbol",
              "BeginBlock", "EndBlock", "EOF"}

Functions == {"next_indent", "next_line", "next_outdent", "next_eof",
              "parse_symbol", "parse_keyword_or_ident", "parse_float_literal"}

Location == [index : Nat, line : Nat, column : Nat]

Token == [data : TokenData, start : Location, text : Seq(Chars)]

TypeOK ==
    /\ text \in Seq(Chars)
    /\ pos \in 0..Len(text)
    /\ line \in Nat
    /\ column \in Nat
    /\ tokenizer_state \in States
    /\ indent_size_stack \in Seq(Nat)
    /\ fn \in Functions \cup {"caller", "panic"}
    /\ sym \in Seq(Chars)
    /\ out \in Seq(Token)

-----------------------------------------------------------------------------
(* The character iterator. *)

location == [index |-> pos, line |-> line, column |-> column]

(* The location of the character n places ahead on the line. *)
LocationAhead(n) == [index |-> pos + n, line |-> line, column |-> column + n]

(* How many of the characters from position p on belong to class C. *)
RunLength(p, C) ==
    Cardinality({n \in 1..(Len(text) - p) : \A i \in 1..n : text[p + i] \in C})

(* Whether the character n places ahead is one of C. *)
Ahead(n, C) == pos + n < Len(text) /\ text[pos + n + 1] \in C

(* PeekTextIter::next, n times, none of the characters a newline. *)
Consume(n) ==
    /\ pos' = pos + n
    /\ column' = column + n
    /\ UNCHANGED line

(* Faults of the next definition: it reads on, keeps the column, or is not   *)
(* called.                                                                   *)
ConsumeLineAndMore(n) == pos' = pos + n + 1 /\ line' = line + 1 /\ column' = 0
ConsumeLineKeepColumn(n) == pos' = pos + n /\ line' = line + 1 /\ UNCHANGED column
ConsumeNoLine(n) == UNCHANGED cursor

(* PeekTextIter::next over n characters, the last of them a newline. *)
ConsumeLine(n) ==
    /\ pos' = pos + n
    /\ line' = line + 1
    /\ column' = 0

TopIsBase == indent_size_stack[1]      \* a fault: first() for last()

Top == indent_size_stack[Len(indent_size_stack)]

PopAll == <<0>>     \* a fault: the whole stack is dropped at once

Pop == SubSeq(indent_size_stack, 1, Len(indent_size_stack) - 1)

(* A token is returned from next(). *)
Return(data, start, chars) ==
    /\ out' = Append(out, [data |-> data, start |-> start, text |-> chars])
    /\ fn' = "caller"

Goto(f) == fn' = f /\ UNCHANGED out

-----------------------------------------------------------------------------
Init ==
    /\ text \in Texts
    /\ pos = 0 /\ line = 0 /\ column = 0
    /\ tokenizer_state = "LookingForNewline"
    /\ indent_size_stack = <<0>>
    /\ fn = "caller"
    /\ sym = <<>>
    /\ out = <<>>

(* A fault: one outdent, then the line. *)
DispatchOneOutdent(state) ==
    CASE state = "LookingForIndent"  -> "next_indent"
      [] state = "LookingForNewline" -> "next_line"
      [] state = "ReachedEOF"        -> "next_eof"
      [] state = "EmittingOutdents"  -> "next_line"

(* next(): the function that continues in a state. *)
Dispatch(state) ==
    CASE state = "LookingForIndent"  -> "next_indent"
      [] state = "LookingForNewline" -> "next_line"
      [] state = "ReachedEOF"        -> "next_eof"
      [] state = "EmittingOutdents"  -> "next_outdent"

EOFs == Cardinality({i \in DOMAIN out : out[i].data = "EOF"})

CallNext ==
    /\ fn = "caller"
    /\ EOFs < MaxEOF
    /\ Goto(Dispatch(tokenizer_state))
    /\ UNCHANGED <<text, cursor, tokenizer_state, indent_size_stack, sym>>

NextEof ==
    /\ fn = "next_eof"
    /\ \/ /\ Len(indent_size_stack) > 1
          /\ indent_size_stack' = Pop
          /\ Return("EndBlock", location, <<>>)
       \/ /\ Len(indent_size_stack) <= 1
          /\ Return("EOF", location, <<>>)
          /\ UNCHANGED indent_size_stack
    /\ UNCHANGED <<text, cursor, tokenizer_state, sym>>

(* The branch at the end of next_indent, n spaces into the line. *)
Indentation(n) ==
    \/ /\ n = Top
       /\ tokenizer_state' = "LookingForNewline"
       /\ Goto("next_line")
       /\ UNCHANGED indent_size_stack
    \/ /\ n > Top
       /\ tokenizer_state' = "LookingForNewline"
       /\ indent_size_stack' = Append(indent_size_stack, n)
       /\ Return("BeginBlock", LocationAhead(n), <<>>)
    \/ /\ n < Top
       /\ tokenizer_state' = "EmittingOutdents"
       /\ Goto("next_outdent")
       /\ UNCHANGED indent_size_stack

NextIndent ==
    /\ fn = "next_indent"
    /\ \/ /\ pos = Len(text)
          /\ tokenizer_state' = "ReachedEOF"
          /\ Goto("next_eof")
          /\ UNCHANGED <<cursor, indent_size_stack>>
       \/ /\ pos < Len(text)
          /\ Consume(RunLength(pos, Spacing))
          /\ Indentation(RunLength(pos, Spacing))
    /\ UNCHANGED <<text, sym>>

(* The location next_outdent gives the end of a block that was indented by n. *)
OutdentLocation(n) ==
    [index |-> pos + (n - column), line |-> line, column |-> n]

NextOutdent ==
    /\ fn = "next_outdent"
    /\ \/ /\ Len(indent_size_stack) > 1
          /\ Top > column
          /\ indent_size_stack' = Pop
          /\ Return("EndBlock", OutdentLocation(Top), <<>>)
          /\ UNCHANGED tokenizer_state
       \/ /\ Len(indent_size_stack) = 1
          /\ column > 0
          /\ indent_size_stack' = Append(indent_size_stack, column)
          /\ tokenizer_state' = "LookingForNewline"
          /\ Return("BeginBlock", location, <<>>)
       \/ /\ IF Len(indent_size_stack) > 1 THEN Top <= column ELSE column = 0
          /\ tokenizer_state' = "LookingForNewline"
          /\ Goto("next_line")
          /\ UNCHANGED indent_size_stack
    /\ UNCHANGED <<text, cursor, sym>>

(* The function next_line picks for a character that starts a token. *)
LexemeParser(c) ==
    CASE c \in Digits      -> "parse_float_literal"
      [] c \in Letters     -> "parse_keyword_or_ident"
      [] c \in SymbolChars -> "parse_symbol"
      [] OTHER             -> "panic"

(* next_line after n spaces, at a CR or a newline. *)
EndOfLine(n) ==
    LET n1 == IF text[pos + n + 1] = CR THEN n + 1 ELSE n
    IN \/ /\ Ahead(n1, {LF})
          /\ ConsumeLine(n1 + 1)
          /\ tokenizer_state' = "LookingForIndent"
          /\ Goto("next_indent")
       \/ /\ ~Ahead(n1, {LF})
          /\ Consume(n1)
          /\ Goto("panic")
          /\ UNCHANGED tokenizer_state

NextLine ==
    /\ fn = "next_line"
    /\ LET n == RunLength(pos, Spacing)
       IN \/ /\ pos + n = Len(text)
             /\ Consume(n)
             /\ tokenizer_state' = "ReachedEOF"
             /\ Goto("next_eof")
          \/ /\ Ahead(n, {CR, LF})
             /\ EndOfLine(n)
          \/ /\ Ahead(n, Chars \ {CR, LF})
             /\ Consume(n)
             /\ Goto(LexemeParser(text[pos + n + 1]))
             /\ UNCHANGED tokenizer_state
    /\ sym' = <<>>
    /\ UNCHANGED <<text, indent_size_stack>>

-----------------------------------------------------------------------------
(* The lexemes of a line. *)

(* The n characters that come next. *)
Slice(n) == SubSeq(text, pos + 1, pos + n)

IdentCharsNoDigits == Letters   \* a fault: digits end an identifier

IdentChars == Letters \cup Digits

ParseKeywordOrIdent ==
    /\ fn = "parse_keyword_or_ident"
    /\ LET n == RunLength(pos, IdentChars)
           data == CASE Slice(n) \in Keywords     -> "Keyword"
                     [] Slice(n) \in BoolLiterals -> "BoolLiteral"
                     [] OTHER                     -> "Ident"
       IN /\ Return(data, location, Slice(n))
          /\ Consume(n)
    /\ UNCHANGED <<text, tokenizer_state, indent_size_stack, sym>>

(* The end of an optional part of a number, n characters ahead: a mark, then *)
(* at least one digit.                                                       *)
AfterPart(n, mark) ==
    IF Ahead(n, mark) THEN n + 1 + RunLength(pos + n + 1, Digits) ELSE n

ParseFloatLiteral ==
    /\ fn = "parse_float_literal"
    /\ LET whole == RunLength(pos, Digits)
           fraction == AfterPart(whole, {"."})
           all == AfterPart(fraction, Exponents)
       IN IF fraction = whole + 1 \/ all = fraction + 1
          THEN /\ Goto("panic")
               /\ UNCHANGED cursor
          ELSE /\ Return("NumberLiteral", location, Slice(all))
               /\ Consume(all)
    /\ UNCHANGED <<text, tokenizer_state, indent_size_stack, sym>>

(* Where the symbol matched so far began. *)
SymStart ==
    [index |-> pos - Len(sym), line |-> line, column |-> column - Len(sym)]

IsCommentAtSlash(s) == s # <<>> /\ s[1] = "/"   \* a fault: one slash will do

IsComment(s) == Len(s) >= 2 /\ s[1] = "/" /\ s[2] = "/"

(* One turn of the loop of parse_symbol. *)
ParseSymbol ==
    /\ fn = "parse_symbol"
    /\ LET more == pos < Len(text)
           s == IF more THEN Append(sym, text[pos + 1]) ELSE sym
       IN \/ /\ IsComment(s)
             /\ Consume(RunLength(pos, Chars \ {LF}))
             /\ Goto(Dispatch(tokenizer_state))
             /\ UNCHANGED sym
          \/ /\ s \in Complete
             /\ Consume(1)
             /\ Return("Symbol", SymStart, s)
             /\ UNCHANGED sym
          \/ /\ s \in (CompletePrefix \cup Partial) /\ ~IsComment(s)
             /\ IF more
                THEN Consume(1) /\ sym' = s /\ UNCHANGED <<fn, out>>
                ELSE Return("Symbol", SymStart, s) /\ UNCHANGED <<cursor, sym>>
          \/ /\ s \notin (Complete \cup CompletePrefix \cup Partial)
             /\ ~IsComment(s)
             /\ IF sym \in CompletePrefix
                THEN Return("Symbol", SymStart, sym)
                ELSE Goto("panic")
             /\ UNCHANGED <<cursor, sym>>
    /\ UNCHANGED <<text, tokenizer_state, indent_size_stack>>

(* The program has failed, or its caller has seen enough. *)
Stopped ==
    /\ fn = "panic" \/ (fn = "caller" /\ EOFs = MaxEOF)
    /\ UNCHANGED vars

Next ==
    \/ CallNext
    \/ NextEof
    \/ NextIndent
    \/ NextOutdent
    \/ NextLine
    \/ ParseKeywordOrIdent
    \/ ParseFloatLiteral
    \/ ParseSymbol
    \/ Stopped

Spec == Init /\ [][Next]_vars

(* The lexer is sequential code and its reader calls it until the end of the *)
(* file, so that a step that can be taken is taken.                          *)
FairSpec == Spec /\ WF_vars(Next)

-----------------------------------------------------------------------------
(* Properties. *)

TextData == TokenData \ {"BeginBlock", "EndBlock", "EOF"}

Class(data) == IF data \in TextData THEN "Text" ELSE data

(* The open blocks are the indentations above the base 0.                    *)
OpenBlocks == Len(indent_size_stack) - 1

LastClass == IF out = <<>> THEN "None" ELSE Class(out[Len(out)].data)

Blocks == INSTANCE BlockStructure WITH depth <- OpenBlocks, last <- LastClass

(* The token stream is one that BlockStructure allows: the two places that   *)
(* push an indentation hand out a BeginBlock, the two that pop one hand out  *)
(* an EndBlock, and next_eof drains the stack before the first EOF, after    *)
(* which nothing but EOF is handed out.                                      *)
ImplementsBlockStructure == Blocks!Spec

(* The stack of indentations starts with the base 0 that next_indent expects *)
(* ("Indent stack was missing leading 0") and strictly increases, although   *)
(* next_outdent pushes an indentation that it has not compared with one.     *)
IndentStackIncreasing ==
    /\ Len(indent_size_stack) > 0
    /\ indent_size_stack[1] = 0
    /\ \A i, j \in DOMAIN indent_size_stack :
           i < j => indent_size_stack[i] < indent_size_stack[j]

(* The line that starts after the first o characters. *)
LinesBefore(o) == Cardinality({p \in 1..o : text[p] = LF})

StartsLine(o) == o = 0 \/ (o \in DOMAIN text /\ text[o] = LF)

(* Every location handed out, those that next_outdent computes included,     *)
(* names a line by its number and a place by its distance from where that    *)
(* line starts.                                                              *)
LocationsConsistent ==
    \A i \in DOMAIN out :
        LET start == out[i].start
        IN /\ start.index >= start.column
           /\ StartsLine(start.index - start.column)
           /\ LinesBefore(start.index - start.column) = start.line

(* A character after "//" on the same line. *)
InComment(p) ==
    \E q \in 1..p :
        /\ q < Len(text) /\ text[q] = "/" /\ text[q + 1] = "/"
        /\ \A r \in q..p : text[r] # LF

CodePositions ==
    {p \in DOMAIN text : text[p] \notin Spacing \cup {LF, CR} /\ ~InComment(p)}

Positions(token) == token.start.index + 1 .. token.start.index + Len(token.text)

(* Between calls every character read so far that is neither spacing nor     *)
(* part of a comment is in exactly one token, whose text is the slice of the *)
(* source at its location: no character is lost or read twice where a symbol *)
(* is read too far, a comment is skipped or a number ends.                   *)
TokensTileCode ==
    fn = "caller" =>
        /\ \A p \in CodePositions :
              p <= pos <=> \E i \in DOMAIN out : p \in Positions(out[i])
        /\ \A i \in DOMAIN out :
              /\ Positions(out[i]) \subseteq CodePositions
              /\ \A j \in DOMAIN out :
                    i # j => Positions(out[i]) \cap Positions(out[j]) = {}
              /\ out[i].text = SubSeq(text, out[i].start.index + 1,
                                      out[i].start.index + Len(out[i].text))

(* The longest token is taken: a word is never cut before a letter or digit, *)
(* nor a symbol before a character that makes it a longer one.               *)
MaximalMunch ==
    \A i \in DOMAIN out :
        LET next == out[i].start.index + Len(out[i].text) + 1
        IN next \in DOMAIN text =>
             /\ out[i].data \in {"Keyword", "Ident", "BoolLiteral"}
                    => text[next] \notin Letters \cup Digits
             /\ out[i].data = "NumberLiteral" => text[next] \notin Digits
             /\ out[i].data = "Symbol"
                    => Append(out[i].text, text[next]) \notin Symbols

(* A number that starts at p announces digits that it has not: the "." of    *)
(* its fraction or its exponent is followed by something else.               *)
NumberLacksDigits(p) ==
    \E q \in p + 1 .. Len(text) :
        /\ text[q] \in {"."} \cup Exponents
        /\ text[q] = "." => \A r \in p .. q - 1 : text[r] \in Digits
        /\ text[q - 1] \in Digits
        /\ \A r \in p .. q - 1 : text[r] \in Digits \cup {"."}
        /\ \A r, s \in p .. q - 1 : text[r] = "." /\ text[s] = "." => r = s
        /\ q = Len(text) \/ text[q + 1] \notin Digits

(* No symbol can be read at p: "!" without "=", a character that no symbol   *)
(* has, or "<<", which the table only has as a part of longer symbols and    *)
(* cannot complete, as it has no row of six.                                 *)
NoSymbolAt(p) ==
    \/ text[p] = "$"
    \/ text[p] = "!" /\ (p = Len(text) \/ text[p + 1] # "=")
    \/ text[p] = "<" /\ p < Len(text) /\ text[p + 1] = "<"

(* The tokenizer panics only for a reason that the source gives right where  *)
(* it reads: an unknown character or a number that lacks digits comes next,  *)
(* a CR has been read that is not followed by LF, or there is no symbol      *)
(* where the one that is read begins.                                        *)
PanicsHaveACause ==
    fn = "panic" =>
        \E p \in DOMAIN text :
            /\ ~InComment(p)
            /\ \/ /\ sym = <<>>
                  /\ p = pos + 1
                  /\ \/ text[p] \in {"?", "."}
                     \/ text[p] \in Digits /\ NumberLacksDigits(p)
               \/ /\ sym = <<>>
                  /\ p = pos
                  /\ text[p] = CR /\ (p = Len(text) \/ text[p + 1] # LF)
               \/ /\ p = pos - Len(sym) + 1
                  /\ NoSymbolAt(p)

(* The spaces a line starts with; those of the first line are discarded. *)
LineStart(l) ==
    CHOOSE o \in 0..Len(text) : StartsLine(o) /\ LinesBefore(o) = l

IndentOf(l) == IF l = 0 THEN 0 ELSE RunLength(LineStart(l), Spacing)

(* The indentations of the blocks that line l is in.  A dedent leads back to *)
(* an open block, opens one if it ends all of them but is no dedent to the   *)
(* margin, and otherwise, between two open indentations, is of the outer one.*)
OpenIndents[l \in Nat] ==
    IF l = 0 THEN {}
    ELSE LET open == OpenIndents[l - 1]
             kept == {n \in open : n <= IndentOf(l)}
         IN IF kept \in {open, {}} THEN kept \cup ({IndentOf(l)} \ {0}) ELSE kept

Count(data) == Cardinality({i \in DOMAIN out : out[i].data = data})

(* A token is in as many blocks as the indentations of the lines up to its   *)
(* own line say, dedents that line up with no line included.  An empty line  *)
(* counts as one that is indented by what it has of spacing: this describes  *)
(* the code, and BlankLinesKeepBlocks what the repository wants instead.     *)
DepthFollowsIndentation ==
    (out # <<>> /\ out[Len(out)].data \in TextData) =>
        Count("BeginBlock") - Count("EndBlock")
            = Cardinality(OpenIndents[out[Len(out)].start.line])

(* tests/known-issues: a block goes on after lines that are empty.  Between  *)
(* two tokens that only empty lines are between, on lines of the same        *)
(* indentation, the block of the first does not end.                         *)
BlankLinesKeepBlocks ==
    \A i, j \in DOMAIN out :
        /\ i < j
        /\ {out[i].data, out[j].data} \subseteq TextData
        /\ IndentOf(out[i].start.line) = IndentOf(out[j].start.line)
        /\ \A p \in out[i].start.index + Len(out[i].text) + 1 .. out[j].start.index :
              text[p] \in Spacing \cup {LF, CR}
        => out[i + 1].data # "EndBlock"

(* Token::get_type: unreachable!("Invalid token text for symbol").  Every    *)
(* symbol token handed out is one of the symbols that have a type.           *)
SymbolTokensHaveAType ==
    \A i \in DOMAIN out : out[i].data = "Symbol" => out[i].text \in Symbols

(* The tokenizer panics at no symbol whose characters are those of one that  *)
(* is declared Complete.                                                     *)
CompleteSymbolsAreRead ==
    fn = "panic" /\ sym # <<>> =>
        LET rest == SubSeq(text, pos - Len(sym) + 1, Len(text))
        IN \A s \in Complete : Len(s) <= Len(rest) => SubSeq(rest, 1, Len(s)) # s

(* TokenizerSymbolRule: of a Partial symbol, "More characters *must* match   *)
(* for a complete symbol", so that no token is one of these; a Complete one  *)
(* "is completely parsed".                                                   *)
SymbolRulesHold == SymbolTokensHaveAType /\ CompleteSymbolsAreRead

(* Reading any text ends, in the end of the file or in a panic, although     *)
(* next_line, next_indent and parse_symbol call each other without bound.    *)
EventuallyEOF == <>(fn = "panic" \/ Count("EOF") > 0)
=============================================================================

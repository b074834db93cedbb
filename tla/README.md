# Specifications of the protosnirk compiler

TLA+ models of the compiler in `src/src`, TLC configurations that check them
on small instances, and proofs for TLAPS.  The compiler is a library: a runner
is given a text and takes it through the stages below, one after the other, in
one thread.

## The system

    text --Tokenizer--> tokens --Parser--> tree --Identifier--> ids, types
         --TypeChecker--> graph --TypeConcretifier--> types --ModuleCompiler--> IR

| Component | State | Operations |
| --- | --- | --- |
| Lexer (`lex/`) | the iterator over the characters with line and column, `TokenizerState`, the stack of indentations | `next`, which dispatches on the state to `next_line`, `next_indent`, `next_outdent`, `next_eof`; these call `parse_symbol`, `parse_keyword_or_ident`, `parse_float_literal` and one another |
| Parser (`parse/`) | the tokenizer, the queue `lookahead`, the stack `indent_rules`; the call stack of its sub-parsers | `peek`, `consume`, `look_ahead`, `apply_indentation`, `expression(precedence)`, `statement`, `block`, `item`, `parse_unit`, and a sub-parser per form |
| Naming (`identify/names/`, `identify/scope_builder.rs`, `ast/index.rs`) | the scopes from names to ids, the current id, the stack of sources of values, errors | the visitors `ItemVarIdentifier`, then `ExpressionVarIdentifier` |
| Type identification (`identify/types/item_namer.rs`, `expr_namer.rs`, `identify/type_scope_builder.rs`) | the scope of types, the map from ids to declared types | the visitors `ItemTypeIdentifier`, `ExprTypeIdentifier` |
| Type inference (`identify/types/type_graph.rs`, `*_typographer.rs`, `check/types/`) | the graph of types and variables, the current type, the return type of the function; the types found | the visitors `ItemTypographer`, `ExprTypographer`; `infer_type_of_var`; `TypeConcretifier` |
| Pipeline (`pipeline/`) | the stage and what it hands on | `parse`, `identify`, `check`, `compile`, each ending in an error or the next runner |
| Code generation (`compile/module_compiler.rs`) | the stack of values `ir_code`, `current_type`, the map `scope_manager` of ids to values, the basic block that the builder is at | the visitor `ModuleCompiler` over LLVM, which verifies each function |
| LLVM bindings (`llvm/`) | handles of LLVM | one foreign call each |
| Optimization and output (`compile/module_provider.rs`, `llvm/target.rs`, `llvm/pass_manager.rs`) | handles of LLVM | passes over a function, writing of an object |
| Lint (`lint/`) | not compiled: its module is commented out | |
| `derive_integration_tests` | none at run time | generates test functions |

How they interact: the parser owns the tokenizer and calls `next` when its
queue runs short; every other stage is a visitor that owns what it builds and
hands it on by value.  `NameScopeBuilder`, the error collectors and the graph
are the only state that several visitors share, one after the other.  Names
become ids, and every later map (types, values) is keyed by them, so that two
nodes with one id would silently merge.

There is no concurrency, no storage and no message.  What is hard here is
control that spreads over several calls:

- one dedent closes several blocks over several calls of `next`, with
  functions of the lexer that call each other;
- the parser drops an indentation with `indent_rules` pushed by one
  sub-parser and taken back by the look ahead of another;
- precedence is decided by nested calls of one loop;
- the visitors push and pop scopes, ids and sources at different places, leave
  in the middle on an error and go on with the next item;
- values are read before they are set (`visit_assignment`), or left behind on
  a stack from which a later visit takes them (`ir_code`);
- the builder appends where it was positioned last, while visits of nested
  nodes move it and the caller has chosen basic blocks before them.

What makes each part correct:

- *Lexer*: blocks nest and are closed before EOF; the indentation stack
  increases; the tokens cover the text, each at its true location; reading ends.
- *Parser*: every BeginBlock taken is accounted for; a block ends at its own
  EndBlock; only a source read to its end is accepted; operators bind by
  precedence, to the left; parsing ends.
- *Naming*: ids are unique; scopes are lexical, also where ifs and blocks nest;
  a value is asked of exactly the tails of valued functions; the visitors
  restore what they change, or leave too much but never too little.
- *Types*: a unit is accepted only if every declaration, use and return has its
  type, and refused only if two types clash; every variable that is asked for
  is in the graph.
- *Pipeline*: a stage runs only on the output of one without errors.
- *Code generation*: a visit takes the value that the part it visited has
  left; every basic block ends once; a phi names the blocks that its values
  come from; the code computes what the tree means; LLVM refuses no function.

## Modules

| Module | Models |
| --- | --- |
| `BlockStructure` | the abstract specification of the lexer, and the environment of the parser |
| `Tokenizer` | `lex/tokenizer.rs`, `textiter.rs`, `tokens.rs`, `token.rs` |
| `TokenizerProofs` | theorems about `Tokenizer`: its stack and its blocks; its tokens and the text |
| `Parser` | `parse/parser.rs` and the sub-parsers of `parse/parsers/` |
| `ParserProofs` | theorems about `Parser` |
| `Names` | `identify/names/`, `identify/scope_builder.rs`, `ast/index.rs` |
| `NamesProofs` | theorems about `Names`: its ids; its scopes and sources |
| `StackFacts` | lemmas on sequences as stacks and on induction, for the modules of proofs |
| `Types` | `identify/types/`, `identify/type_scope_builder.rs`, `check/types/`, and the stages of `pipeline/` from there |
| `TypesProofs`, `TypesSearchProofs` | theorems about `Types`: the graph; what is found in it |
| `Compile` | `compile/module_compiler.rs`, and of `llvm/` the calls that it makes |
| `CompileProofs`, `VerifyProofs` | theorems about `Compile`: its visits and its stack; the code it writes |
| `CompiledCode` | what the instructions of `Compile` compute, against the meaning of the tree |
| `MCTokenizer`, `MCParser`, `MCNames`, `MCTypes`, `MCCompile` | the constants of the runs |

`PROJECT.json` maps each definition to the lines that it models.

### BlockStructure and Tokenizer

`BlockStructure` has two variables: how many blocks are open, and the class of
the last token.  A block ends only if one is open, EOF needs every block ended,
and after EOF there is only EOF.

`Tokenizer` keeps the text as a sequence of characters and `pos`, `line`,
`column` as `PeekTextIter` does.  `indent_size_stack` and `tokenizer_state` are
the fields of that name.  `fn` is the function that runs, `"caller"` between
two calls and `"panic"` once one has panicked; each function is one action,
since between its reads of the text it does nothing that another part sees.
The two exceptions are the functions that call another one in tail position:
they hand over by setting `fn`.  `ParseSymbol` is one turn of the loop of
`parse_symbol`, `sym` its local string.  `out` is the history of the tokens
handed out.  `Complete`, `CompletePrefix` and `Partial` are the three columns of
`declare_tokens!`.  Letters, digits, spacing, keywords and Boolean literals are
constants, as is the set of texts.

The refinement maps `depth` to the open indentations above the base and `last`
to the class of the last token of `out`.

### Parser

The sub-parsers are recursive functions, so that the model has their call stack
as `frames`.  A frame says where its function is (`at`), and a *row* of a table
says for a place which tokens are taken there, which function is called and
where it goes on; the operators `...Rows` are those tables, one per sub-parser,
and `Follow` takes a step along a row.  What does not fit a row has an action:
the loop of `expression` (`Prefix`, `Infix...`), the look ahead (`LookAhead`),
`consume_indented` (`Indented`), `return`, and what a call does with a value it
is given (`ExpectValue`, `Finish`).

A token is fetched when it is looked for: `Needed` is how many tokens the code
at this place peeks at, and `LookAhead` fetches one, skipping an EndBlock that
a rule negates.  So the point at which a rule is pushed, relative to the point
at which tokens are queued, is the code's.  `consume` takes the token queued
last, as `pop_back` does, while `peek` looks at the first.

The tree is not built.  `value` keeps of the last expression what the parser
asks of it: its variant, its operator and whether it was in parentheses (a
history, since the code keeps no node for them).

The tokens come from `lexer`: any stream that `BlockStructure` allows, with
types from a set that a *source* names.  This is more than the tokenizer
produces from texts, and all that `Tokenizer` promises.

### Names

`unit` is the sequence of items; both visitors read it, so that it is fixed
at the start.  The bodies are read once: each step chooses the statement that
the visitor finds next.  `visits` is the stack of the visitor's calls, with the
local variables of `visit_block` and `visit_if_block` (`source`, and whether
there is more to visit).  `scopes`, `current_id` and `lvalues` are the fields of
`NameScopeBuilder`, the visitors and `OriginManager`.

An expression is represented by the name that it uses: a larger one is visited
as the sequence of its parts, with the same effects.  Messages are dropped: an
error is its kind.  Errors end a visit where the code returns, with its scopes
and ids as they are then.

### Types

The items of `unit` are fixed; `stage` is the visitor that runs: `identify` for
`ItemTypeIdentifier`, `items` for `ItemTypographer`, `expressions` for
`ExprTypographer`, `concretify` for `TypeConcretifier`, with the checks for
errors that `IdentifyRunner` and `CheckRunner` make between them in `NextStage`.
`names` and `types` are the fields of `TypeScopeBuilder`, `concrete` and
`variables` those of `TypeGraph`, as the sets of the ids that have a node;
`temps` counts the nodes that no id leads to, which stand for expressions,
arguments and results of calls alike: the search does not tell them apart.
The labels of edges are for messages and left out.

`visits` is the call stack of `ExprTypographer`.  A visit collects the
`current_type` that each of its children leaves, so that `...End` is the code
after the calls of `visit_expression` and `visit_block`; what a visitor reads is
then in one place.  The body of a function is chosen node by node, as it is
visited.  `asked` lists what `TypeConcretifier` will ask for, which visits the
same tree in the same order.  Ids are those of `Names` up to renaming: they are
all different, which is its `IdsAreUnique`.  Likewise the tree is one that
`Names` accepts: names are known, a valued `if` has an `else`, a valued block is
not empty, and there are no assignments, all of which it refuses.  Blocks have
the sources that `Names` gives them, exactly: `lvalues` is the stack of
`OriginManager` at the point that the visit has come to.  Within a valued
function these are as `TailsHaveSources` says; a function without a return type
finds what the ones before it have left over (`FnSource`, run `NamesSource`),
and its last statement is then visited as that of a block with a value.  The
functions of a unit are in any order.  `claims` is a history of what the text
says of types, for the properties.

### Compile and CompiledCode

`item` and `visits` are the walk over the items and the visitor's call stack, as
in `Types`; a visit has in `values` what it has taken from `ir_code` and in
`blocks` the basic blocks that it made, which are the local variables of
`visit_if_block` and `visit_if_expr`.  `ir_code`, `current_type`, `types` and
`scope_manager` are the fields of `ModuleCompiler`.  Each `...End`, `...Left`,
`...Then` is the code between two calls of a visit.

LLVM is the external part: `code` is the sequence of the basic blocks of the
function, `at` the one that the builder appends to and `regs` counts the
registers.  A value has its type with it; that of a slot is the type of its
content.  `Verified` has the rules of `LLVMVerifyFunction` that the generator
could break: a block ends once and at its end; a phi has an entry for each
predecessor; a value is defined on every path to its use; the types of operands
agree.  A function that is not verified is a panic, as in
`visit_block_fn_decl`.  Arithmetic and comparison have the operators that take
different paths: `add` for the five of arithmetic, `less` for the four of order.

The tree is one that the earlier passes accept: typed, with an `else` in valued
ifs, with the sources that `Names` gives.  Of its stack of sources only the
height matters here, `lvalues`: a function without a return type that comes
after one with an `if` at its end finds a source (`HasSource`), and inference
has given its body some type, `()` if its last statement has no value
(`BodyTypes`).  But checking lets through some
trees that it should refuse, and these are in the model as *wild* forms: calls
whose arguments or result have other types (see run `TypesCalls`), if
expressions with unlike branches (`TypesIf`).

What the generator cannot handle is recorded in `notes` when it happens, and
`Handled` says that none of it has: `misused_call` and `unequal_branches` (trees
that should not get here); `forward_call`, a call of a function whose visit has
not begun (line 531, a panic); `bool_inequality`, a comparison of numbers for
two Booleans (line 485); `inner_return`, a `return` with a value that is not the
end of its function, after which the block has two ends; `empty_return`, any
`return` without a value, also one that is the end of its function, since
`FnEnd` adds a second end (`src/tests/known-issues/empty-return-ok`);
`nested_branch`, a conditional in a branch of an `if` block with a source, whose
phi then has the wrong predecessors (line 319); `void_if`, an `if` block that has
a source but no value, which only a leftover source makes possible and whose
branches leave nothing for the phi: line 281 panics, or takes a value that a
statement before it has left; and a
`return` as the value of a function in which, or before which, some expression
has left its value on `ir_code`: `FnEnd` takes it and adds a second `ret`.  The
value may be that of an expression statement, or of a body that a leftover
source gives a value that its function does not return.  Each of them is needed: without any one of them
`FailuresHaveACause` is violated.

`CompiledCode` runs the code.  `Meaning` evaluates the tree, `Run` the
instructions, on the same arguments; a call is answered alike in both, and the
calls are compared too.  The code deviates from the tree in two ways, which
`Deviations` names: the condition of an `if` block is compared with zero before
it selects the branch, so that `if c` runs its block when `c` is false (line
264); and a negation is `x - 0` (line 423), the operand itself.  Run
`CompileMeaning` has a function with both.  Up to these,
`CodeMeansTree` holds of everything that LLVM accepts.

## Runs

| Run | What it shows |
| --- | --- |
| `Tokenizer` | on 28 000 texts the lexer implements `BlockStructure`; tokens tile the code, are maximal, have true locations; where it panics, the text has the cause right there; depth follows the indentation; reading ends |
| `Parser` | over every stream of the sources: indentation is accounted for, blocks end at their end, only what is read to the end is accepted, operators bind by tier, operands have values, parsing ends |
| `Names` | ids unique, depths of scopes and ids, lexical scope, sources exactly at tails, valid items named |
| `Types` | whatever is accepted has, at its variables, the types that parameters, `let`s, `return`s, operators and conditions ask for; an empty return in a valued function is an error; what is asked for is in the graph; without calls, only a clash of two types is refused |
| `Compile` | a unit without what the generator cannot handle is compiled; each visit takes the value of its own part; a basic block that has ended stays as it is; the code computes what the tree means, up to two deviations |
| `TokenizerSymbols` | *violated*: a symbol cut short by the end of the file (`!`, `<<`) becomes a token without a type; the merge marker, declared a complete symbol, would violate it too: the lexer panics at it |
| `TokenizerBlank` | *violated*: an empty line ends the blocks around it (issue 71 of the repository) |
| `ParserReturn` | *violated*: a `return` after an expression is taken as an infix and dropped |
| `NamesSource` | *violated*: an `if` with an `else` at the end of a valued function leaves a source to a later function |
| `TypesIf` | *violated*: `if c => true else 1.0` is accepted, as a `bool` |
| `TypesCalls` | *violated*: `let x = f()` is refused, because nothing is known of its type |
| `CompileMeaning` | *violated*: the block of an `if` runs when its condition is false, and a negation computes the number itself; one function shows both |

`DepthFollowsIndentation`, which run `Tokenizer` checks, describes what the code
does with indentations, empty lines included; that an empty line should not count
is `BlankLinesKeepBlocks`.

Each violated property is what a comment or a document of the repository says;
`PROJECT.json` quotes it under "findings".

### Bounds

- `Tokenizer`: every text of up to four characters of 12 kinds (a letter, an
  exponent letter, a digit, ".", space, LF, CR, "/", "=", "<", "!", an unknown
  character), texts of five characters of numbers, of symbols and comments, of
  line ends, up to seven `<` (a merge marker), and layouts: up to four lines with every indentation of 0 to 3 and
  nothing, a word or a comment on them, and five lines of words with
  indentations of 0 to 4.  The longest symbol has two characters and the
  longest look ahead one more; a dedent that closes two blocks needs four
  lines, and one between two open indentations after it, five.  `MaxEOF` = 2
  calls of `next` after the end show that EOF is repeated.
- `Parser`: a *source* has a start (tokens fixed so that small sizes get deep
  into a body), the kinds of tokens and a size.  The six sources take items;
  operators with assignment and calls; `if` expressions; statements; arguments
  over several lines; the branches of `if` blocks.  Sizes leave room for two
  nested constructs of each with their indentations.
- `Names`: units of one or two items with every clash of names, `MaxStmts` = 2
  statements that are not simple tails, `MaxBranches` = 1 conditional besides
  the `else`, `MaxErrors` = 1 erroneous expression.  Two nested blocks and a
  function after them are the least in which something left behind is found by
  another visit; an error is possible at each place.

- `Types`: twelve units, each with items, the forms of nodes in its bodies and how
  many of them (`nodes`); an expression as the last statement of a block and a
  number are free, so that every tree can be completed.  Four nodes of two to
  four forms are a `let` whose value is an operation of two variables, or two
  nested `if` expressions; three are an `if` block in another with a `return`;
  all forms come in pairs.  The items take parameters of each type, an alias, an
  alias that hides a primitive type, two functions that use each other, one
  without a return type after one that leaves it a source, a type
  that is unknown and one that is declared too late.  `MaxBranches` = 1
  conditional besides the `else`, `MaxArgs` = 1.

- `Compile`: sixteen units, each with one to three functions, the forms of nodes
  in their bodies and how many of them; literals and an expression as the value
  of a block are free.  Three nodes are a conditional in a branch of a
  conditional beside an operation, or a `return`, an `if` around it and a
  statement after it; four are two variables and their comparison in an `if`
  expression.  Two functions are the least in which a value left on `ir_code` by
  one is taken by the next, in which a call comes before its function, and in
  which a source is left over; a third takes what the second does with it.
  `MaxBranches` = 2 conditionals, so that a phi has a first, a second and an
  else block; 1 in `CompileMeaning`.  Arguments are 0, 1 and 4: two Booleans, and a
  number unlike every literal.

### Fairness

`FairSpec` of `Tokenizer` and `Parser` has weak fairness of `Next`: the
compiler is sequential code, and a program that can take its next step takes it.
For the tokenizer, this includes its caller, which calls `next` until EOF: so
does `parse_unit`.  The lexer always answers: `EventuallyEOF` of `Tokenizer` is
what `Parser` needs to assume it.

## Proofs

`TokenizerProofs`, for every text over every character class, every keyword and
every `MaxEOF`:

- `TypeCorrect`: `Spec => []TypeOK`.  No cursor passes the end of the text,
  no location is negative.
- `IndentStackIsIncreasing`: `Spec => []IndentStackIncreasing`.
- `TokenizerImplementsBlockStructure`: `Spec => Blocks!Spec`.

The assumptions are `TextsAssumption` (texts are sequences of characters) and
`MaxEOFAssumption`.  `ClassesAssumption` (the classes of characters and the two
tables of words are disjoint, and none has a character that a rule of the lexer
names) is needed for the tokens below.

The inductive invariant is `IInv`, of five parts.  `TypeOK` and
`IndentStackIncreasing` are what is to be proved.  `next_outdent` pushes the
column without comparing it with the top of the stack; the stack increases
because it does so only when the base 0 is all that is left and the column is
positive.  `SymInv` says that the partial symbol lies behind the cursor on the
same line and is one that the loop goes on from: without it the location of a
symbol could be negative, so that `TypeOK` is not inductive.  `EOFInv` says that
once EOF was handed out the state is `ReachedEOF` and no block is open: without
it "nothing but EOF follows" cannot be proved.  `StateInv` ties the state to the
function that runs, which `EOFInv` needs to be inductive.  Each action has a
lemma that it preserves `IInv`, and `Invariance` combines them.  The refinement
is by `StepSimulation`, which maps an action that returns a token to the action
of `BlockStructure` for its class, and one that does not to a stutter.

In the second part of `TokenizerProofs`, for the same texts:

- `LocationsAreConsistent`: `Spec => []LocationsConsistent`.
- `TokensTileTheCode`: `Spec => []TokensTileCode`.
- `TokensAreLongest`: `Spec => []MaximalMunch`.
- `PanicsAreCaused`: `Spec => []PanicsHaveACause`.  The cause is where the
  tokenizer has come to, at the character that is next, the one just read or the
  first of the symbol at hand; the same character elsewhere in the text is none.
- `DepthIsIndentation`: `Spec => []DepthFollowsIndentation`.

The first four follow from `TextInv`, which is about what has been read.
`CursorInv` says that `line` and `column` are those of the cursor; `AheadInv`
that the function of a lexeme finds its first character; `MatchedInv` that the
partial symbol is the text behind the cursor, and no comment.  `CommentInv` says
that the cursor is in no comment, unless it was moved to the end of one, and
`TileInv` is `TokensTileCode` up to the token being read: `TokensTileCode` speaks
of the times between two calls only, and is not inductive.  The number of line
ends before a character is a cardinality, and how far `ConsumeLine` and the
loops over a class of characters go is the least of a set.

`DepthIsIndentation` needs more, `DepthInv`: `CountInv`, that the tokens handed
out have left as many blocks open as the stack has indentations, and `OpenInv`,
which indentations these are in each state: those of the line, those of the line
before while the indentation is still to be read, and in between, where
`next_outdent` ends one block in a call, any that include what the line keeps.
The indentations of a line are a recursive function of its number
(`StackFacts` proves that such a function satisfies its equations).

`ParserProofs`, for every set of sources, of any length and any token types,
from `SourcesAssumption`:

- `TypeCorrect`: `Spec => []TypeOK`.
- `EveryIndentationIsAccounted`: `Spec => []IndentationAccounted`.
- `AcceptedSourcesAreRead`: `Spec => []AcceptedIsRead`.
- `OperatorsBindByTier`: `Spec => []OperatorsBind`.
- `OperandsAreValues`: `Spec => []OperandsHaveValue`.
- `BlocksEndWhereTheyShould`: `Spec => []BlocksEndAtTheirEnd`.

None of these safety properties is inductive.  The invariant `IInv` says, of
a parser that runs:

- `Linked`: which function each call on the stack was made by.  An operator
  frame has called `expression`, with the precedence of the operator (`Operand`),
  and sits on the loop that found it to bind tighter than its own precedence.
- `ValueFits`: a value that is a binary operation or an assignment has come from
  an operator above the precedence that was asked for, and the token that is next
  does not bind tighter than this operator.  Together with `Linked` this gives
  `OperatorsBind`, and since every binary operator binds tighter than an
  assignment it gives `OperandsHaveValue`.
- `QueueFits`: all tokens in the queue but the last are BeginBlocks, and if the
  last is not one the parser is between a return and the next expression.
  `consume` takes the last token and `peek` shows the first: this part is why
  they are the same wherever it matters (`TakenIsPeek`).
- `EOFInv`: an EOF in the queue was handed out with every block ended.  With the
  count this excludes the EOF arm of `block()` (`EndOfFileClosesAll`).
- `Balanced`: the count of `IndentationAccounted`.

`RowsGood` states what the rows of the tables have in common, by enumeration;
`FollowStep` then covers the eleven functions that follow a table at once.  A
step ends with `KeepStep` or `TakeStep`, as it takes a token or not, and changes
the stack by `ReachStack`, `CallStack` or `ReturnStack`.

`BlocksEndWhereTheyShould` adds `EndsInv`.  `Levels` says that a block that began
with no rule pending has the depth of its BeginBlock as its rank among the
blocks on the stack.  The queue is `Fresh`: one token, read at the depth at hand,
and an EndBlock only when no rule skips it.  It is so but for one case, `Stale`:
`return` looks past the BeginBlocks of the lines after it, and what it leaves
queued is taken from the other end.  Then the stack has only a `return` and the
expression after it above their block (`Chain`), and none of their functions
begins a block before the queue is empty.

`NamesProofs`, for every unit over any set of names and every bound on
statements, errors and branches (`UnitsAssumption`, `BoundsAssumption`):

- `TypeCorrect`: `Spec => []TypeOK`.
- `NodesHaveOwnIds`: `Spec => []IdsAreUnique`.
- `ValidUnitsAreNamed`: `Spec => []ValidItemsAreNamed`.

That no id was given before does not follow from what the builder holds: the
second visitor starts again at `FirstId` and at the ids of functions, and a
visitor that leaves a node early does not pop the level of this node.  The
inductive invariant `IInv` says why no id comes back.

- `FirstPassInv`: the first visitor's ids are `Precedes`-ordered, that is
  lexicographically, and each operation on `current_id` (`PushAdvances`,
  `IncrementAdvances`, `LeaveAdvances`) goes on in this order, popped or not.
  Its ids have no 0 behind the second index (`ItemId`), since a parameter's
  index starts at 1.
- `OwnersInv`: an id of the second visitor has the id of a function and then a
  0 (`BodyId`).  So it is none of the first visitor's (`BodyIsNoItem`) and
  belongs to one function (`BodiesDiffer`), which `ItemsInv` makes one item.
- `SecondPassInv`: within a function the ids grow as in the first pass.  What
  pops could make shorter than the id of the function, and the 0 behind it could
  be incremented: the current id is as long as the visits on the stack that have
  begun, which is why a visit that ends finds its own level or a deeper one.

The steps of the second visitor are of three kinds (`LeaveStep`, `StayStep`,
`EnterStep`), which `BodyStep` shows to keep the invariant; those of the first
are instances of `VisitsItems` (`FirstStep`).  `ValidUnitsAreNamed` adds
`NamedInv`: without an error what the first visitor has come to is named.

On the same units, about the scopes:

- `DepthsAreOfVisits`: `Spec => []DepthsFollowVisits`.
- `TailsAreSourced`: `Spec => []TailsHaveSources`.
- `NamesAreLexical`: `Spec => []ScopeIsLexical`.

The invariant is `ShapeInv`, on top of `IInv`.  `DepthInv` counts
the visits on the stack that have a scope (`Scoped`) and those that have gone a
level down (`Deeper`); a visit that an error ends leaves its level behind, which
is why the depth is only bounded then.  `TailInv` says of each visit and the one
it is in which may have the value of the function (`Link`), that a visit keeps
the source it found, that of its parent if it is a tail (`Spine`), and what the
top finds on the stack of sources (`TopSource`).  `ScopeInv` aligns the scopes
with the visits: there is a map `m` from visits to scopes (`Aligned`), and the
names of a scope are those that its visit has declared so far.  `BoundInv` says
that no name has an empty id, which is how `get` tells that it has found none.

`TypesProofs`, for every set of units over any names of types, with their
functions in any order and bodies of any size (`UnitsAssumption`,
`BoundsAssumption`), and with the sources that `Names` leaves over:

- `TypeCorrect`: `Spec => []TypeOK`.
- `AskedVarsAreKnown`: `Spec => []InferredVarsAreKnown`.  `infer_var` expects a
  node for each variable that it is asked for, and so never panics; the only
  panic of type checking is a later function that is named as a value.

The ids that are asked for are noted long before they get a node: that of a
block when its visit begins, its node when it ends; that of a later function
when it is called.  So what is asked for is, at each moment, a variable of the
graph, the id of an item from the current one on (`Later`), or the id of a block
on the stack that has a value (`Pending`): this is `AskedInv`.  It needs

- `ScopeInv`: what ItemTypeIdentifier establishes before a later stage starts,
  that every item is `Identified` and that a name of a type means a primitive
  type or an alias;
- `ItemVarsInv`: which items have a node, by the stage and the item visited;
- `VisitsInv`: the stack of visits is that of one function (`Stacked`); each
  visit but the top one awaits a child, has as many as its node needs, and what
  it has declared is in the graph (`Fits`).

The stack changes by `PushStack`, `PopStack`, `LeaveStack` or `SetTop`, whose
lemmas say what becomes of `Pending`; the graph only grows (`StackGrows`,
`WalkGrows`).  A step of ExprTypographer is then a `LeafStep`, a `PushStep` or an
`EndStep`.  An edge that joins a node the graph does not have, which `TypeOK`
excludes, would be an index out of bounds in the code.

`TypesSearchProofs`, for the same units:

- `ReturnedTypesHold`: `Spec => []ReturnTypesHold`.
- `DeclaredTypesHold`: `Spec => []DeclarationsHold`.
- `EmptyReturnsAreRefused`: `Spec => []EmptyReturnsAreErrors`.
- `AcceptedUsesAgree`: `Spec => []UsesAgree`.
- `RejectedWithCause`: `Spec => []WellTypedIsAccepted`.

These are about what the search finds at the end, so that the invariant,
`SearchInv`, is about paths.  `Leads(a, b, E)` says that every set that has `a`
and is closed under `E` has `b`; paths compose (`LeadsOn`), new edges keep them
(`LeadsMore`), and `SearchEnds` shows that the search of a finite graph finds
what they lead to, by induction over the nodes it has not found.  The parts are

- `TypesInv`: what ItemTypeIdentifier has found out: an alias has the type of
  what it names, and nothing but the return type that a function leaves out is
  `()`, since no name in a text is (`TextNames`);
- `AliasInv`: the node of a type leads to a type that it is (`Means`), by
  however many aliases;
- `InfoInv`: something is known of each variable that is asked for (`Informed`),
  unless it is a block or an if with a value that is still visited (`Awaited`);
- `WalkInv`: what this needs of the visits (`Founded`): the children that they
  have left are informed, and are expressions where expressions are taken;
- `ClaimsInv`: from what the text makes a claim about, the edges lead to the
  type that is claimed.  The one claim that the edges do not support at once is
  that of a function's value, whose edge comes when the function ends: until then
  the block of the function (`Body`) stands for it, on the stack or left to the
  function.  A return without a value leads one variable to two types
  (`UnitAndMore`);
- `ResultsInv`, `ErrorsInv`: a result is the one type that is found
  (`FoundFor`), which the edge that is added with it does not change
  (`LeadsSame`); a conflict has two, and only calls can leave none.

A step of ExprTypographer keeps `SearchInv` if it accounts for what it adds
(`SearchStep`: `ClaimsGrow`, `InfoGrows`, `BodyAccounted`); leaves, pushes and
ends have a lemma each (`LeafSearch`, `PushSearch`, `EndSearch`).

`CompileProofs`, for every set of units, with functions of any size, in any order
and with any number of conditionals (`UnitsAssumption`, `BoundsAssumption`), and
with the sources that `Names` leaves over:

- `VisitsAreInOrder`: `Spec => []IInv`.
- `GeneratorTypes`: `Spec => []TypeOK`.
- `ValuesAreTheirs`: `Spec => []ValuesAreOfTheirPart`.
- `EndedBlocksAreLeft`: `Spec => EndedBlocksStay`.

The last two are about what the generator can handle (`Handled`) and neither is
inductive: that a value is there, and that the block at hand has no end yet, is
owed to the visits below the top of the stack.  `IInv` has been checked over all
the states of run `Compile`.  Its parts are

- `TypeInv`, which is stronger than `TypeOK`: `ir_code` holds no function, and
  every instruction is one of `InstrSet`;
- `VisitsInv`: a visit is within a function, the builder is at a basic block of it,
  and the variables in scope (`Visible`) have slots;
- `ShapeInv`: each visit has as many values and basic blocks as the part that it
  is at needs (`Local`), fits the visit that it is in (`Linked`), and a block
  whose value is the function's is in nothing but such blocks (`Tails`);
- `StackInv`: `base`, which tells where the values of a part begin, grows with
  the visits and is never above the stack (`Bases`); after a part that has a
  value (`Valued`: a source is not enough, its type must not be `()`) one is left
  above it, unless the part was a `return`
  (`Left`), which only blocks and the function may then find; and if no
  statement has left its value behind there is nothing but that value (`Exact`),
  so that after a `return` `FnEnd` finds the stack empty.  The type of a value
  must be known too (`DataInv`): a call leaves nothing if its function has no
  value, which is why a handled call where a value is needed has one (`Noted`);
- `OpenInv`: the builder's block is `Open`, unless the function has been
  returned from and only ends of blocks are to come (`Returned`); the basic
  blocks that visits have made and the builder has not come to (`Pending`) are
  empty, differ from one another and from those of other visits.  Without this,
  `br` and `phi` could go to a block that has ended.

A step changes the stack of visits by `Tops`, `Pushes` or `Ends`, each of which
has a lemma per part of `IInv`; what it has to show of the value and of the code
is `StackStep` and `TopCode`, `PushCode`, or `EndStack` and `EndCode`.

`VerifyProofs`, for the same units:

- `GraphsAreSound`: `Spec => []VerifyInv`.
- `FailuresAreCaused`: `Spec => []FailuresHaveACause`.  No `expect` of the
  generator fails and LLVM refuses no function, unless one of the forms of
  `Handled` occurs.

`LLVMVerifyFunction` sees a function that is done, and asks of every value
whether it is defined on each way to its use: `Known` searches the graph of the
basic blocks from the entry, around the block that defines the value.  While
the function is written this graph is not yet there, and more edges make more
ways.  `VerifyInv` therefore adds to `IInv` that there are, for what has been
written so far, sets `D` and `H` (`GraphInv`):

- `D[b]` are blocks that each way to `b` comes through (`Dominators`).  It need
  not be all of them, only closed under the edges: an edge from `p` to `b`
  demands `D[b] \subseteq D[p] \cup {b}`.  A block gets its set when it is
  appended, that of the builder's block and itself (`Widens`), and keeps it.
  `DominatorsBlock` leads back to the search: `Reached(d)` has no block `b` with
  `d \in D[b]`, by induction over the blocks that the search has not found;
- `H[k]` is the home of the visit `k`: the blocks whose values it may use, of its
  variables and of the operands that it holds.  Homes grow towards the top of
  the stack and are within `D` of the builder's block (`Homes`).  The blocks that
  a visit still comes to have its home as their set (`Stands`), which is why a
  variable declared in a branch is known in the branch and one declared before
  the `if` in both and after;
- every instruction written is `Sound` by `D`: `Typed`, its operands `KnownAt` its
  place, and a phi as `PhiKnown` says: one value for each of the `Sources` of its
  block, known at the end of that source.  Before the phi of an `if` is written
  the visit says which sources there will be (`IfStands`, `IfExprStands`): for an
  `if` block the blocks where its branches began, which are those where they end
  as no conditional is in them (`NoNest`, from `nested_branch`);
- types are passed down the stack: what a visit may leave (`Gives`) is what the one
  below `Takes` (`Linking`), and the value that was left has that type
  (`TopValue`).  The notes `misused_call`, `unequal_branches` and
  `bool_inequality` are where checking, or the generator, does not see to it;
- every block that has not ended is the builder's or one that a visit still
  comes to (`OpenAre`), so that at the end of the function each has ended, once
  (`Ending`);
- a variable in scope has a slot of its type, and no two visits one of the same id
  (`Named`); the ids of functions are those of functions (`FnRefs`).

A step is again one that changes, begins or ends the visit on top (`TopG`,
`PushG`, `EndG`), and what it adds to the code is an `AddsSound`; each handler has
a lemma, named for it.  `VerifiedHere` has `Verified` for the function that is
done.  The parts of `VerifyInv` were first checked on all the states of run
`Compile`, with `D` and `H` as history variables.

Only model-checked: liveness (`EventuallyEOF`, `EventuallyParsed`), which the
proof system does not reach, and `CodeMeansTree`, which needs the meaning of
trees of any size: `CompiledCode` defines it by RECURSIVE operators, and no
backend takes them.  Every other property that a passing run checks is a
theorem.

## Not modelled

- Widths: `u32` of lines and columns and `u16` of the indices of an id need
  inputs that no bounded run has; the models count in `Nat`.
- Spans, texts of literals and messages: data that decides nothing.
- `lint/` and `parse/parsers/types/{array,named}.rs`: not compiled.
- `llvm/` besides what `Compile` calls: foreign calls without logic.
  `derive_integration_tests`: build time.
- Optimization and output (`compile/module_provider.rs`, `llvm/target.rs`,
  `llvm/pass_manager.rs`): a fixed order of foreign calls.
- `visit_assignment` of `ExprTypographer` and `ModuleCompiler`: no assignment
  passes `Names`, as `ExprErrors` says: the visitor looks at the id of the
  variable before `visit_var_ref` has set it (`expr_namer.rs` lines 286 and 303),
  although `docs/syntax.md` has mutable variables.
- Functions as values in `Compile`: `llvm_type_of` gives a `let` of one a
  function type, which LLVM refuses for a slot.
- The names of arguments in the type of a function: no step of `Types` compares
  them.
- The stages of the pipeline before the types: each runner calls the next on
  success, which every module assumes of its inputs.

## Plan

1. Done: `BlockStructure`, `Tokenizer`, `Parser`, `Names`, `Types` with their
   proofs, `Compile` with its proofs, the verification of its code included, and
   `CompiledCode`.
2. An abstract specification of `Types`: the unification of the types that a
   text equates, which the search refines where no call is involved.
3. `Pipeline`: the stages and their errors, composing the modules' verdicts.
4. `CodeMeansTree` for trees of any size, with the trees of `CompiledCode` as
   sequences of their nodes and recursive functions over these.

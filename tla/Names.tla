------------------------------- MODULE Names --------------------------------
(***************************************************************************)
(* The naming passes: ItemVarIdentifier, then ExpressionVarIdentifier      *)
(* (src/src/identify/names/), over one ScopeBuilder (src/src/identify/     *)
(* scope_builder.rs), giving a ScopedId (src/src/ast/index.rs) to every    *)
(* function, parameter, type alias, block and variable.                    *)
(*                                                                         *)
(* The visitors walk a tree.  The items of the unit are fixed at the start *)
(* since both passes read them; the body of a function is read only once,  *)
(* so that each step chooses the node that the visitor finds next.  The    *)
(* variable visits is the stack of the visitor's calls.                    *)
(***************************************************************************)
EXTENDS Naturals, SequencesExt

CONSTANTS
    Idents,         \* names that the text uses
    Units,          \* the sequences of items to identify
    MaxStmts,       \* bound: statements of a unit, without the simple ones at
                    \* the end of a block
    MaxErrors,      \* bound: errors before the last erroneous expression
    MaxBranches     \* bound: conditionals of one if block

VARIABLES
    unit,           \* the items
    pass,           \* "items", "expressions" or "done"
    item,           \* the item that is visited
    ids,            \* per item: its id and those of its parameters
    scopes,         \* NameScopeBuilder::scopes, from names to ids
    current_id,
    lvalues,        \* OriginManager::lvalues, None as the empty id
    visits,
    errors,
    stmts,          \* bounded by MaxStmts: such statements visited
    given           \* history: the ids given to nodes

builder == <<scopes, current_id, lvalues>>
vars == <<unit, pass, item, ids, builder, visits, errors, stmts, given>>

(* ScopedId: the indices.  Two ids matter as constants. *)
Default == <<0>>
FirstId == <<0, 0>>
None == <<>>

(* A fault: the id before it.                                                *)
IncrementDown(id) == [id EXCEPT ![Len(id)] = @ - 1]

Increment(id) == [id EXCEPT ![Len(id)] = @ + 1]
Push(id) == Append(id, 0)
Pop(id) == Front(id)

(* An item.  valued is has_explicit_return_type(); a Typedef has no           *)
(* parameters.                                                               *)
Item == {i \in [kind : {"Fn", "Typedef"}, name : Idents, params : Seq(Idents),
                valued : BOOLEAN] :
            i.kind = "Typedef" => i.params = <<>>}

ASSUME UnitsAssumption == Units \subseteq Seq(Item)
ASSUME BoundsAssumption ==
    /\ MaxStmts \in Nat  /\ MaxErrors \in Nat
    /\ MaxBranches \in Nat

(* Keys of a scope: a name, or "function::parameter". *)
Keys == {<<n>> : n \in Idents} \cup (Idents \X Idents)

Errors == {"FnDeclared", "ParamDeclared", "TypedefDeclared", "VarDeclared",
           "UnknownRef", "UnknownFn", "UnknownAssign", "EmptyBlock", "NoElse"}

(* A call of the visitor. *)
Visit == [node : {"params", "fn", "block", "if"},
          phase : {"start", "stmts", "last"},
          id : Seq(Nat),
          source : Seq(Nat),    \* what set_source was called with, or None
          left : Nat,           \* params named, conditionals to visit, or the
                                \* sources that were there before a function
          else : BOOLEAN,       \* an else is to be visited
          names : SUBSET Idents, \* history: declared in this block
          tail : BOOLEAN]       \* history: its value is the function's

NewVisit(node) == [node |-> node, phase |-> "start", id |-> None, source |-> None,
                   left |-> 0, else |-> FALSE, names |-> {}, tail |-> FALSE]

TypeOK ==
    /\ unit \in Units
    /\ pass \in {"items", "expressions", "done"}
    /\ item \in Nat
    /\ DOMAIN ids = DOMAIN unit
    /\ \A i \in DOMAIN ids : ids[i].id \in Seq(Nat) /\ ids[i].params \in Seq(Seq(Nat))
    /\ \A i \in DOMAIN scopes : /\ DOMAIN scopes[i] \subseteq Keys
                                /\ \A k \in DOMAIN scopes[i] : scopes[i][k] \in Seq(Nat)
    /\ current_id \in Seq(Nat)
    /\ lvalues \in Seq(Seq(Nat))
    /\ visits \in Seq(Visit)
    /\ errors \subseteq Errors
    /\ stmts \in 0..MaxStmts
    /\ given \in Seq(Seq(Nat))

-----------------------------------------------------------------------------
(* ScopeBuilder. *)

NewScope == Append(scopes, <<>>)

(* A fault: the enclosing scopes are not searched.                           *)
DefinesInTop(key) == {i \in {Len(scopes)} : key \in DOMAIN scopes[i]}

Defines(key) == {i \in DOMAIN scopes : key \in DOMAIN scopes[i]}

(* get: the innermost scope that has the key. *)
Get(key) ==
    IF Defines(key) = {} THEN None
    ELSE scopes[CHOOSE i \in Defines(key) : \A j \in Defines(key) : j <= i][key]

(* insert: the scope with the key for the id. *)
Bind(scope, key, id) == [k \in DOMAIN scope \cup {key} |-> IF k = key THEN id ELSE scope[k]]

(* The scopes ss with the key defined in scope i. *)
Define(ss, i, key, id) == [ss EXCEPT ![i] = Bind(@, key, id)]

DefineLocal(ss, key, id) == Define(ss, Len(ss), key, id)
DefineGlobal(ss, key, id) == Define(ss, 1, key, id)

(* OriginManager. *)

HasSource == lvalues # <<>> /\ Last(lvalues) # None
PopSource == IF lvalues = <<>> THEN lvalues ELSE Front(lvalues)

Report(kind) == errors' = errors \cup {kind}

Give(id) == given' = Append(given, id)

top == visits[Len(visits)]
Under(v) == [visits EXCEPT ![Len(visits)] = v]

-----------------------------------------------------------------------------
(* ItemVarIdentifier. *)

Init ==
    /\ unit \in Units
    /\ pass = "items"
    /\ item = 1
    /\ ids = [i \in DOMAIN unit |->
                 [id |-> Default, params |-> [p \in DOMAIN unit[i].params |-> Default]]]
    /\ scopes = << <<>> >>
    /\ current_id = FirstId
    /\ lvalues = <<>>
    /\ visits = <<>>
    /\ errors = {}
    /\ stmts = 0
    /\ given = <<>>

(* The pass p comes to the next item of the kind. *)
AtItem(p, kind) ==
    /\ pass = p
    /\ visits = <<>>
    /\ item \in DOMAIN unit
    /\ unit[item].kind = kind

ItemFn ==
    /\ AtItem("items", "Fn")
    /\ LET name == unit[item].name
       IN IF Get(<<name>>) # None
          THEN /\ Report("FnDeclared")
               /\ item' = item + 1
               /\ UNCHANGED <<ids, scopes, current_id, visits, given>>
          ELSE /\ scopes' = Append(DefineLocal(scopes, <<name>>, current_id), <<>>)
               /\ ids' = [ids EXCEPT ![item].id = current_id]
               /\ Give(current_id)
               /\ current_id' = Increment(Push(current_id))
               /\ visits' = <<NewVisit("params")>>
               /\ UNCHANGED <<item, errors>>
    /\ UNCHANGED <<unit, pass, lvalues, stmts>>

(* A fault: the loop over the parameters ends one too early.                 *)
ParamLeftButLast == top.left + 1 < Len(unit[item].params)

ParamLeft == top.left < Len(unit[item].params)

(* One turn of the loop over the parameters.  A parameter that is known      *)
(* already ends the visit where it is.                                       *)
ItemParam ==
    /\ pass = "items"
    /\ visits # <<>>
    /\ ParamLeft
    /\ LET fn == unit[item].name
           p == top.left + 1
           name == unit[item].params[p]
       IN IF Get(<<name>>) # None
          THEN /\ Report("ParamDeclared")
               /\ item' = item + 1
               /\ visits' = <<>>
               /\ UNCHANGED <<ids, scopes, current_id, given>>
          ELSE /\ scopes' = DefineGlobal(DefineLocal(scopes, <<name>>, current_id),
                                         <<fn, name>>, current_id)
               /\ ids' = [ids EXCEPT ![item].params[p] = current_id]
               /\ Give(current_id)
               /\ current_id' = Increment(current_id)
               /\ visits' = Under([top EXCEPT !.left = p])
               /\ UNCHANGED <<item, errors>>
    /\ UNCHANGED <<unit, pass, lvalues, stmts>>

ItemFnEnd ==
    /\ pass = "items"
    /\ visits # <<>>
    /\ ~ParamLeft
    /\ scopes' = Front(scopes)
    /\ current_id' = Increment(Pop(current_id))
    /\ visits' = <<>>
    /\ item' = item + 1
    /\ UNCHANGED <<unit, pass, ids, lvalues, errors, stmts, given>>

ItemTypedef ==
    /\ AtItem("items", "Typedef")
    /\ LET name == unit[item].name
       IN IF Get(<<name>>) # None
          THEN /\ Report("TypedefDeclared")
               /\ UNCHANGED <<ids, scopes, current_id, given>>
          ELSE /\ ids' = [ids EXCEPT ![item].id = current_id]
               /\ scopes' = DefineGlobal(scopes, <<name>>, current_id)
               /\ Give(current_id)
               /\ current_id' = Increment(current_id)
               /\ UNCHANGED errors
    /\ item' = item + 1
    /\ UNCHANGED <<unit, pass, lvalues, visits, stmts>>

(* The first visitor ends and the second starts, over the same builder. *)
NextPass ==
    /\ pass = "items"
    /\ item = Len(unit) + 1
    /\ pass' = "expressions"
    /\ item' = 1
    /\ scopes' = NewScope
    /\ current_id' = FirstId
    /\ UNCHANGED <<unit, ids, lvalues, visits, errors, stmts, given>>

-----------------------------------------------------------------------------
(* ExpressionVarIdentifier. *)

(* How many parameters, from the first, have an id. *)
Named(i) ==
    Cardinality({p \in DOMAIN ids[i].params :
                    \A q \in 1..p : ids[i].params[q] # Default})

(* The scope of the first n parameters: they have ids, so that their names   *)
(* differ.                                                                   *)
ParamScope(i, n) ==
    [key \in {<<unit[i].params[p]>> : p \in 1..n} |->
        ids[i].params[CHOOSE p \in 1..n : <<unit[i].params[p]>> = key]]

(* A function without an id is skipped; one whose parameters have no ids is  *)
(* left at the first of these.                                               *)
FnBegin ==
    /\ AtItem("expressions", "Fn")
    /\ LET id == ids[item].id
       IN IF id = Default
          THEN /\ item' = item + 1
               /\ UNCHANGED <<scopes, current_id, lvalues, visits>>
          ELSE /\ scopes' = Append(scopes, ParamScope(item, Named(item)))
               /\ current_id' = Push(id)
               /\ IF Named(item) < Len(unit[item].params)
                  THEN /\ item' = item + 1
                       /\ UNCHANGED <<lvalues, visits>>
                  ELSE /\ lvalues' = IF unit[item].valued THEN Append(lvalues, id) ELSE lvalues
                       /\ visits' = <<[NewVisit("fn") EXCEPT !.id = id, !.left = Len(lvalues)],
                                      [NewVisit("block") EXCEPT !.tail = unit[item].valued]>>
                       /\ UNCHANGED item
    /\ UNCHANGED <<unit, pass, ids, errors, stmts, given>>

(* A fault: the scope of the parameters is kept.                             *)
FnEndKeepsScope ==
    /\ pass = "expressions"
    /\ Len(visits) = 1
    /\ lvalues' = PopSource
    /\ visits' = <<>>
    /\ item' = item + 1
    /\ UNCHANGED <<unit, pass, ids, scopes, current_id, errors, stmts, given>>

FnEnd ==
    /\ pass = "expressions"
    /\ Len(visits) = 1
    /\ lvalues' = PopSource
    /\ scopes' = Front(scopes)
    /\ visits' = <<>>
    /\ item' = item + 1
    /\ UNCHANGED <<unit, pass, ids, current_id, errors, stmts, given>>

SkipTypedef ==
    /\ AtItem("expressions", "Typedef")
    /\ item' = item + 1
    /\ UNCHANGED <<unit, pass, ids, builder, visits, errors, stmts, given>>

UnitEnd ==
    /\ pass = "expressions"
    /\ visits = <<>>
    /\ item = Len(unit) + 1
    /\ pass' = "done"
    /\ scopes' = Front(scopes)
    /\ current_id' = Increment(current_id)
    /\ UNCHANGED <<unit, item, ids, lvalues, visits, errors, stmts, given>>

(* The visitor is at a node in the phase of it. *)
AtNode(node, phase) ==
    /\ pass = "expressions"
    /\ visits # <<>>
    /\ top.node = node
    /\ top.phase = phase

(* visit_block up to its statements.  An empty block that should have a      *)
(* value is left as it is.                                                   *)
BlockBegin(empty) ==
    /\ AtNode("block", "start")
    /\ Give(current_id)
    /\ current_id' = Push(current_id)
    /\ scopes' = NewScope
    /\ IF HasSource /\ empty
       THEN /\ Report("EmptyBlock")
            /\ lvalues' = PopSource
            /\ visits' = Front(visits)
       ELSE /\ visits' = Under([top EXCEPT
                             !.phase = IF empty THEN "last" ELSE "stmts",
                             !.id = current_id,
                             !.source = IF HasSource THEN Last(lvalues) ELSE None])
            /\ lvalues' = IF HasSource THEN Append(PopSource, None) ELSE lvalues
            /\ UNCHANGED errors
    /\ UNCHANGED <<unit, pass, item, ids, stmts>>

(* A fault: the id of the block is given again.                              *)
BlockEndSameId ==
    /\ AtNode("block", "last")
    /\ current_id' = Pop(current_id)
    /\ scopes' = Front(scopes)
    /\ visits' = Front(visits)
    /\ UNCHANGED <<unit, pass, item, ids, lvalues, errors, stmts, given>>

BlockEnd ==
    /\ AtNode("block", "last")
    /\ current_id' = Increment(Pop(current_id))
    /\ scopes' = Front(scopes)
    /\ visits' = Front(visits)
    /\ UNCHANGED <<unit, pass, item, ids, lvalues, errors, stmts, given>>

(* A fault: every statement has the block as its source.                     *)
SourcesAtEach(last) ==
    IF top.source # None THEN Append(PopSource, top.id) ELSE lvalues

(* Before the last statement of a block that has a source, begin_block is    *)
(* undone and the block becomes the source.                                  *)
SourcesAt(last) ==
    IF last /\ top.source # None THEN Append(PopSource, top.id) ELSE lvalues

(* The visitor of a block goes to a statement.                               *)
AtStmt(last) ==
    /\ AtNode("block", "stmts")
    /\ lvalues' = SourcesAt(last)
    /\ UNCHANGED <<unit, pass, item, ids>>

Simple(last) ==
    /\ AtStmt(last)
    /\ ~last => stmts < MaxStmts
    /\ stmts' = IF last THEN stmts ELSE stmts + 1

After(last) == [top EXCEPT !.phase = IF last THEN "last" ELSE "stmts"]

(* An expression, by the one name that it uses: those of larger ones are     *)
(* visited one after the other in the same way.                              *)
Exprs == {<<"literal", "-">>} \cup ({"ref", "call", "assign"} \X Idents)

(* The id of an identifier that no visitor has reached yet. *)
IdentId == Default

(* visit_assignment looks at the id of its lvalue before it visits it. *)
ExprErrors(expr) ==
    LET name == expr[2]
        unknown == Get(<<name>>) = None
    IN CASE expr[1] = "literal" -> {}
         [] expr[1] = "ref"     -> IF unknown THEN {"UnknownRef"} ELSE {}
         [] expr[1] = "call"    -> IF unknown THEN {"UnknownFn"} ELSE {}
         [] expr[1] = "assign"  ->
              (IF IdentId = Default THEN {"UnknownAssign"} ELSE {})
                  \cup (IF unknown THEN {"UnknownRef"} ELSE {})

(* The errors of expr are reported, if the bound allows some.                *)
Check(expr) ==
    /\ ExprErrors(expr) # {} => Cardinality(errors) < MaxErrors
    /\ errors' = errors \cup ExprErrors(expr)

(* An expression or a return: the sources that a return or an assignment     *)
(* adds are gone when it ends.                                               *)
Evaluate(last, expr) ==
    /\ Simple(last)
    /\ Check(expr)
    /\ visits' = Under(After(last))
    /\ UNCHANGED <<scopes, current_id, given>>

Declare(last, name, expr) ==
    /\ Simple(last)
    /\ IF Get(<<name>>) # None
       THEN /\ Report("VarDeclared")
            /\ visits' = Under(After(last))
            /\ UNCHANGED <<scopes, current_id, given>>
       ELSE /\ Check(expr)
            /\ scopes' = DefineLocal(scopes, <<name>>, current_id)
            /\ Give(current_id)
            /\ current_id' = Increment(current_id)
            /\ visits' = Under([After(last) EXCEPT !.names = @ \cup {name}])

(* A do block or an if block is visited next. *)
Nest(last, node) ==
    /\ AtStmt(last)
    /\ stmts < MaxStmts
    /\ stmts' = stmts + 1
    /\ visits' = Append(Under(After(last)),
                        [NewVisit(node) EXCEPT !.tail = last /\ top.tail])
    /\ UNCHANGED <<scopes, current_id, errors, given>>

(* visit_if_block up to its branches, of which the last may be an else. *)
IfBegin(branches, else) ==
    /\ AtNode("if", "start")
    /\ Give(current_id)
    /\ current_id' = Push(current_id)
    /\ IF HasSource /\ ~else
       THEN /\ Report("NoElse")
            /\ visits' = Front(visits)
            /\ UNCHANGED lvalues
       ELSE /\ visits' = Under([top EXCEPT
                             !.phase = "stmts",
                             !.id = current_id,
                             !.source = IF HasSource THEN Last(lvalues) ELSE None,
                             !.left = branches,
                             !.else = else])
            /\ lvalues' = IF HasSource THEN PopSource ELSE lvalues
            /\ UNCHANGED errors
    /\ UNCHANGED <<unit, pass, item, ids, scopes, stmts>>

(* The block of a conditional or of the else.  *)
IfBlock(v) ==
    /\ lvalues' = IF top.source # None THEN Append(lvalues, top.id) ELSE lvalues
    /\ visits' = Append(Under(v), [NewVisit("block") EXCEPT !.tail = top.tail])
    /\ UNCHANGED <<unit, pass, item, ids, scopes, current_id, stmts, given>>

IfBranch(expr) ==
    /\ AtNode("if", "stmts")
    /\ top.left > 0
    /\ Check(expr)
    /\ IfBlock([top EXCEPT !.left = @ - 1])

IfElse ==
    /\ AtNode("if", "stmts")
    /\ top.left = 0 /\ top.else
    /\ UNCHANGED errors
    /\ IfBlock([top EXCEPT !.else = FALSE])

IfEnd ==
    /\ AtNode("if", "stmts")
    /\ top.left = 0 /\ ~top.else
    /\ current_id' = Increment(Pop(current_id))
    /\ visits' = Front(visits)
    /\ UNCHANGED <<unit, pass, item, ids, scopes, lvalues, errors, stmts, given>>

Done == pass = "done" /\ UNCHANGED vars

Next ==
    \/ ItemFn \/ ItemParam \/ ItemFnEnd \/ ItemTypedef \/ NextPass
    \/ FnBegin \/ FnEnd \/ SkipTypedef \/ UnitEnd
    \/ \E empty \in BOOLEAN : BlockBegin(empty)
    \/ BlockEnd
    \/ \E last \in BOOLEAN, expr \in Exprs : Evaluate(last, expr)
    \/ \E last \in BOOLEAN, name \in Idents, expr \in Exprs : Declare(last, name, expr)
    \/ \E last \in BOOLEAN, node \in {"block", "if"} : Nest(last, node)
    \/ \E branches \in 1..MaxBranches, else \in BOOLEAN : IfBegin(branches, else)
    \/ \E expr \in Exprs : IfBranch(expr)
    \/ IfElse
    \/ IfEnd
    \/ Done

Spec == Init /\ [][Next]_vars

-----------------------------------------------------------------------------
(* Properties. *)

(* Every node gets an id of its own, in both passes and after every error,   *)
(* although the visitors leave nodes without popping what they pushed: the   *)
(* maps from ids to types and values rely on it.                             *)
IdsAreUnique == IsInjective(given)

Visits(node) == {i \in DOMAIN visits : visits[i].node = node /\ visits[i].phase # "start"}

FnVisits == {i \in DOMAIN visits : visits[i].node \in {"fn", "params"}}

(* The scopes and the depth of the current id follow the nodes that are      *)
(* visited: after an error they may be too deep, but they are never too      *)
(* shallow, so that what an enclosing node needs is still there.             *)
DepthsFollowVisits ==
    LET passes == IF pass = "expressions" THEN 2 ELSE 1
        expected == passes + Cardinality(FnVisits) + Cardinality(Visits("block"))
        depth == 2 + Cardinality(FnVisits) + Cardinality(Visits("block"))
                   + Cardinality(Visits("if"))
    IN /\ Len(scopes) >= expected
       /\ visits # <<>> => Len(current_id) >= depth
       /\ errors = {} => /\ Len(scopes) = expected
                         /\ visits # <<>> => Len(current_id) = depth

ItemNames == {unit[i].name : i \in DOMAIN unit}

ParamNames(i) == {unit[i].params[p] : p \in DOMAIN unit[i].params}

OpenNames == UNION {visits[i].names : i \in DOMAIN visits}

(* While a function is visited in a unit without errors, the names that can  *)
(* be used are those of the items, of its parameters and of the variables    *)
(* declared before in the blocks that are open: nothing of a block or of a   *)
(* function that has ended, and nothing declared later.                      *)
ScopeIsLexical ==
    (pass = "expressions" /\ visits # <<>> /\ errors = {}) =>
        \A name \in Idents :
            Get(<<name>>) # None
                <=> name \in ItemNames \cup ParamNames(item) \cup OpenNames

(* In a function whose visit began with no source left over, a block or an   *)
(* if has a source exactly if its value is that of the function, and the     *)
(* source is the node that it is in.                                         *)
TailsHaveSources ==
    (pass = "expressions" /\ visits # <<>> /\ visits[1].left = 0 /\ errors = {}) =>
        \A i \in 2..Len(visits) :
            visits[i].phase # "start" =>
                visits[i].source = IF visits[i].tail THEN visits[i - 1].id ELSE None

(* Without an error no item and no parameter is left without an id.          *)
ValidItemsAreNamed ==
    (pass # "items" /\ errors = {}) =>
        \A i \in DOMAIN ids : /\ ids[i].id # Default
                              /\ \A p \in DOMAIN ids[i].params : ids[i].params[p] # Default

(* "We know that if the block visiting worked the block will pop the source":  *)
(* only a function with a return type is asked for a value.                  *)
OnlyValuedFnsNeedValues ==
    [][(errors' \ errors) \cap {"EmptyBlock", "NoElse"} # {} => unit[item].valued]_vars
=============================================================================

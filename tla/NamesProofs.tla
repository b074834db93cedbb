---------------------------- MODULE NamesProofs -----------------------------
(***************************************************************************)
(* For every unit over any set of names, with any number of statements,    *)
(* errors and branches: the naming passes stay within their types, no two  *)
(* nodes get the same id, and a name finds what is declared before it in   *)
(* an open block.                                                          *)
(***************************************************************************)
EXTENDS Names, StackFacts

Id == Seq(Nat)

Scope == UNION {[D -> Id] : D \in SUBSET Keys}

TreeInv ==
    /\ scopes \in Seq(Scope)
    /\ ids \in [DOMAIN unit -> [id : Id, params : Seq(Id)]]
    /\ \A i \in DOMAIN unit : DOMAIN ids[i].params = DOMAIN unit[i].params

(* The id a is a beginning of b; or it is smaller than b where they part.    *)
Begins(a, b) == Len(a) < Len(b) /\ \A k \in 1..Len(a) : a[k] = b[k]

PartsBelow(a, b) ==
    \E n \in 1..Len(a) : /\ n <= Len(b)
                         /\ \A k \in 1..(n - 1) : a[k] = b[k]
                         /\ a[n] < b[n]

(* The order in which ids are given. *)
Precedes(a, b) == Begins(a, b) \/ PartsBelow(a, b)

(* An id that the first visitor gives, of an item or a parameter. *)
ItemId(a) == Len(a) >= 2 /\ \A k \in 3..Len(a) : a[k] >= 1

(* An id that the second visitor gives in the function with the id f. *)
BodyId(a, f) == Len(a) > Len(f) /\ a[Len(f) + 1] = 0 /\ \A k \in 1..Len(f) : a[k] = f[k]

(* Items that have an id have one that was given, and each its own.          *)
ItemsInv ==
    /\ \A i \in DOMAIN unit :
          ids[i].id # Default =>
              /\ ItemId(ids[i].id)
              /\ \E k \in DOMAIN given : given[k] = ids[i].id
              /\ \A j \in DOMAIN unit : ids[j].id = ids[i].id => j = i

(* The first visitor: it has given only ids before its current one.          *)
FirstPassInv ==
    pass = "items" =>
        /\ ItemId(current_id)
        /\ \A k \in DOMAIN given : ItemId(given[k]) /\ Precedes(given[k], current_id)
        /\ visits # <<>> => item \in DOMAIN unit /\ Len(visits) = 1 /\ Len(current_id) >= 3

(* The second visitor has come to the body of the function i. *)
Reached(i) ==
    /\ i \in DOMAIN unit
    /\ ids[i].id # Default
    /\ pass = "expressions" => i < item \/ (i = item /\ visits # <<>>)

(* Each id that has been given is of an item or of the body of a function.   *)
OwnersInv ==
    \A k \in DOMAIN given :
        \/ ItemId(given[k])
        \/ \E i \in DOMAIN unit : Reached(i) /\ BodyId(given[k], ids[i].id)

(* The visits of a function: all but the last one have begun.                *)
Nested(vs) ==
    /\ vs[1].node = "fn"
    /\ \A i \in 2..Len(vs) : /\ vs[i].node \in {"block", "if"}
                             /\ i < Len(vs) => vs[i].phase # "start"

Begun(vs) == IF vs[Len(vs)].phase = "start" THEN Len(vs) - 1 ELSE Len(vs)

(* Within the body of a function the current id is below that of the         *)
(* function, deep enough for the visits that will end, and past every id     *)
(* given in this function.                                                   *)
SecondPassInv ==
    pass = "expressions" /\ visits # <<>> =>
        /\ Reached(item)
        /\ Nested(visits)
        /\ Len(visits) >= 2 =>
              /\ BodyId(current_id, ids[item].id)
              /\ Len(current_id) >= Len(ids[item].id) + Begun(visits)
              /\ \A k \in DOMAIN given :
                    BodyId(given[k], ids[item].id) => Precedes(given[k], current_id)

IInv ==
    /\ TypeOK /\ IdsAreUnique /\ TreeInv /\ Len(current_id) >= 2
    /\ ItemsInv /\ FirstPassInv /\ OwnersInv /\ SecondPassInv

-----------------------------------------------------------------------------
(* The operations on ids. *)

LEMMA IncrementProperties ==
    ASSUME NEW a \in Id, Len(a) >= 1
    PROVE  /\ Increment(a) \in Id
           /\ Len(Increment(a)) = Len(a)
           /\ \A k \in 1..(Len(a) - 1) : Increment(a)[k] = a[k]
           /\ Increment(a)[Len(a)] = a[Len(a)] + 1
<1>1. Len(a) \in 1..Len(a) /\ a[Len(a)] + 1 \in Nat
  BY LenProperties, ElementOfSeq DEF Id
<1>2. Increment(a) = [a EXCEPT ![Len(a)] = a[Len(a)] + 1]
  BY DEF Increment
<1> QED
  BY <1>1, <1>2, ExceptSeq DEF Id

LEMMA PushProperties ==
    ASSUME NEW a \in Id
    PROVE  /\ Push(a) \in Id
           /\ Len(Push(a)) = Len(a) + 1
           /\ \A k \in 1..Len(a) : Push(a)[k] = a[k]
           /\ Push(a)[Len(a) + 1] = 0
BY AppendProperties DEF Id, Push

LEMMA FrontProperties ==
    ASSUME NEW S, NEW s \in Seq(S)
    PROVE  /\ Front(s) \in Seq(S)
           /\ Len(s) >= 1 => Len(Front(s)) = Len(s) - 1
           /\ \A k \in 1..(Len(s) - 1) : Front(s)[k] = s[k]
<1>1. Len(s) \in Nat /\ \A i \in 1..(Len(s) - 1) : s[i] \in S
  BY LenProperties, ElementOfSeq
<1>2. Len(s) - 1 \in Int /\ 1 \in Int
  BY <1>1
<1>3. /\ SubSeq(s, 1, Len(s) - 1) \in Seq(S)
      /\ Len(SubSeq(s, 1, Len(s) - 1)) = IF 1 <= Len(s) - 1 THEN (Len(s) - 1) - 1 + 1 ELSE 0
      /\ \A i \in 1..(Len(s) - 1 - 1 + 1) : SubSeq(s, 1, Len(s) - 1)[i] = s[1 + i - 1]
  BY <1>1, <1>2, SubSeqProperties
<1>4. ASSUME NEW k \in 1..(Len(s) - 1)
      PROVE  Front(s)[k] = s[k]
  <2>1. k \in 1..(Len(s) - 1 - 1 + 1) /\ 1 + k - 1 = k
    BY <1>1
  <2> QED
    BY <1>3, <2>1 DEF Front
<1>5. ASSUME Len(s) >= 1
      PROVE  Len(Front(s)) = Len(s) - 1
  <2> DEFINE n == Len(SubSeq(s, 1, Len(s) - 1))
             m == Len(s)
  <2>1. n = IF 1 <= m - 1 THEN (m - 1) - 1 + 1 ELSE 0
    BY <1>3
  <2>2. m \in Nat /\ m >= 1
    BY <1>1, <1>5
  <2> HIDE DEF n, m
  <2>3. n = m - 1
    BY <2>1, <2>2
  <2> QED
    BY <2>3 DEF n, m, Front
<1> QED
  BY <1>3, <1>4, <1>5 DEF Front

LEMMA PopProperties ==
    ASSUME NEW a \in Id, Len(a) >= 1
    PROVE  /\ Pop(a) \in Id
           /\ Len(Pop(a)) = Len(a) - 1
           /\ \A k \in 1..(Len(a) - 1) : Pop(a)[k] = a[k]
BY FrontProperties DEF Id, Pop

(* The id after that of a node, when the visit of the node ends. *)
LEMMA LeaveProperties ==
    ASSUME NEW a \in Id, Len(a) >= 2
    PROVE  /\ Increment(Pop(a)) \in Id
           /\ Len(Increment(Pop(a))) = Len(a) - 1
           /\ \A k \in 1..(Len(a) - 2) : Increment(Pop(a))[k] = a[k]
           /\ Increment(Pop(a))[Len(a) - 1] = a[Len(a) - 1] + 1
<1>1. Len(a) \in Nat
  BY LenProperties DEF Id
<1> DEFINE p == Pop(a)
<1>2. /\ p \in Id
      /\ Len(p) = Len(a) - 1
      /\ \A k \in 1..(Len(a) - 1) : p[k] = a[k]
  BY <1>1, PopProperties
<1> HIDE DEF p
<1>3. /\ Increment(p) \in Id
      /\ Len(Increment(p)) = Len(p)
      /\ \A k \in 1..(Len(p) - 1) : Increment(p)[k] = p[k]
      /\ Increment(p)[Len(p)] = p[Len(p)] + 1
  <2>1. Len(p) >= 1
    BY <1>1, <1>2
  <2> QED
    BY <1>2, <2>1, IncrementProperties, Zenon
<1>4. /\ Increment(p) \in Id
      /\ Len(Increment(p)) = Len(a) - 1
      /\ \A k \in 1..(Len(a) - 2) : Increment(p)[k] = a[k]
      /\ Increment(p)[Len(a) - 1] = a[Len(a) - 1] + 1
  BY <1>1, <1>2, <1>3
<1> QED
  BY <1>4, Zenon DEF p

(* What precedes another is not the same. *)
LEMMA PrecedesDiffers ==
    ASSUME NEW a \in Id, NEW b \in Id, Precedes(a, b)
    PROVE  a # b
<1>1. Len(a) \in Nat /\ Len(b) \in Nat
  BY LenProperties DEF Id
<1>2. CASE Begins(a, b)
  BY <1>1, <1>2 DEF Begins
<1>3. CASE PartsBelow(a, b)
  <2>1. PICK n \in 1..Len(a) : n <= Len(b) /\ a[n] < b[n]
    BY <1>3 DEF PartsBelow
  <2>2. a[n] \in Nat /\ b[n] \in Nat
    BY <1>1, <2>1, ElementOfSeq DEF Id
  <2> QED
    BY <2>1, <2>2
<1> QED
  BY <1>2, <1>3 DEF Precedes

(* Each operation on the current id takes it past itself, and past all that  *)
(* it was past.                                                              *)
LEMMA PushAdvances ==
    ASSUME NEW a \in Id
    PROVE  /\ Precedes(a, Push(a))
           /\ \A b \in Id : Precedes(b, a) => Precedes(b, Push(a))
<1>1. Len(a) \in Nat
  BY LenProperties DEF Id
<1>2. Begins(a, Push(a))
  BY <1>1, PushProperties DEF Begins
<1>3. ASSUME NEW b \in Id, Begins(b, a)
      PROVE  Begins(b, Push(a))
  <2>1. Len(b) \in Nat
    BY LenProperties DEF Id
  <2> QED
    BY <1>1, <1>3, <2>1, PushProperties DEF Begins
<1>4. ASSUME NEW b \in Id, PartsBelow(b, a)
      PROVE  PartsBelow(b, Push(a))
  <2>1. Len(b) \in Nat
    BY LenProperties DEF Id
  <2>2. PICK n \in 1..Len(b) : /\ n <= Len(a)
                               /\ \A k \in 1..(n - 1) : b[k] = a[k]
                               /\ b[n] < a[n]
    BY <1>4 DEF PartsBelow
  <2>3. n <= Len(Push(a)) /\ \A k \in 1..n : Push(a)[k] = a[k]
    BY <1>1, <2>1, <2>2, PushProperties
  <2> QED
    BY <2>1, <2>2, <2>3 DEF PartsBelow
<1> QED
  BY <1>2, <1>3, <1>4 DEF Precedes

LEMMA IncrementAdvances ==
    ASSUME NEW a \in Id, Len(a) >= 1
    PROVE  /\ Precedes(a, Increment(a))
           /\ \A b \in Id : Precedes(b, a) => Precedes(b, Increment(a))
<1>1. Len(a) \in Nat /\ a[Len(a)] \in Nat
  BY LenProperties, ElementOfSeq DEF Id
<1>2. PartsBelow(a, Increment(a))
  BY <1>1, IncrementProperties DEF PartsBelow
<1>3. ASSUME NEW b \in Id, Begins(b, a)
      PROVE  Begins(b, Increment(a))
  <2>1. Len(b) \in Nat
    BY LenProperties DEF Id
  <2> QED
    BY <1>1, <1>3, <2>1, IncrementProperties DEF Begins
<1>4. ASSUME NEW b \in Id, PartsBelow(b, a)
      PROVE  PartsBelow(b, Increment(a))
  <2>1. Len(b) \in Nat
    BY LenProperties DEF Id
  <2>2. PICK n \in 1..Len(b) : /\ n <= Len(a)
                               /\ \A k \in 1..(n - 1) : b[k] = a[k]
                               /\ b[n] < a[n]
    BY <1>4 DEF PartsBelow
  <2>3. b[n] \in Nat /\ a[n] \in Nat
    <3>1. n \in 1..Len(a) /\ n \in 1..Len(b)
      BY <1>1, <2>1, <2>2
    <3>2. a \in Seq(Nat) /\ b \in Seq(Nat)
      BY DEF Id
    <3> QED
      BY <3>1, <3>2, ElementOfSeq
  <2>4. n <= Len(Increment(a))
    BY <2>2, IncrementProperties
  <2>5. \A k \in 1..(n - 1) : Increment(a)[k] = a[k]
    BY <1>1, <2>1, <2>2, IncrementProperties
  <2>6. b[n] < Increment(a)[n]
    <3>1. CASE n = Len(a)
      BY <3>1, <2>2, <2>3, IncrementProperties
    <3>2. CASE n < Len(a)
      BY <3>2, <1>1, <2>1, <2>2, <2>3, IncrementProperties
    <3> QED
      BY <3>1, <3>2, <1>1, <2>1, <2>2
  <2> QED
    BY <2>1, <2>2, <2>4, <2>5, <2>6 DEF PartsBelow
<1> QED
  BY <1>2, <1>3, <1>4 DEF Precedes

LEMMA LeaveAdvances ==
    ASSUME NEW a \in Id, Len(a) >= 2
    PROVE  \A b \in Id : Precedes(b, a) => Precedes(b, Increment(Pop(a)))
<1> DEFINE c == Increment(Pop(a))
<1>1. Len(a) \in Nat /\ a[Len(a) - 1] \in Nat
  BY LenProperties, ElementOfSeq DEF Id
<1>2. /\ Len(c) = Len(a) - 1
      /\ \A k \in 1..(Len(a) - 2) : c[k] = a[k]
      /\ c[Len(a) - 1] = a[Len(a) - 1] + 1
  BY LeaveProperties
<1> HIDE DEF c
<1>3. ASSUME NEW b \in Id, Begins(b, a)
      PROVE  Precedes(b, c)
  <2>1. Len(b) \in Nat
    BY LenProperties DEF Id
  <2>2. CASE Len(b) < Len(a) - 1
    <3>1. Begins(b, c)
      BY <1>1, <1>2, <1>3, <2>1, <2>2 DEF Begins
    <3> QED
      BY <3>1 DEF Precedes
  <2>3. CASE Len(b) = Len(a) - 1
    <3>1. b[Len(b)] < c[Len(b)]
      BY <1>1, <1>2, <1>3, <2>1, <2>3 DEF Begins
    <3>2. \A k \in 1..(Len(b) - 1) : b[k] = c[k]
      BY <1>1, <1>2, <1>3, <2>1, <2>3 DEF Begins
    <3>3. PartsBelow(b, c)
      BY <1>1, <1>2, <2>1, <2>3, <3>1, <3>2 DEF PartsBelow
    <3> QED
      BY <3>3 DEF Precedes
  <2> QED
    BY <1>1, <1>3, <2>1, <2>2, <2>3 DEF Begins
<1>4. ASSUME NEW b \in Id, PartsBelow(b, a)
      PROVE  Precedes(b, c)
  <2>1. Len(b) \in Nat
    BY LenProperties DEF Id
  <2>2. PICK n \in 1..Len(b) : /\ n <= Len(a)
                               /\ \A k \in 1..(n - 1) : b[k] = a[k]
                               /\ b[n] < a[n]
    BY <1>4 DEF PartsBelow
  <2>3. b[n] \in Nat /\ a[n] \in Nat
    <3>1. n \in 1..Len(a) /\ n \in 1..Len(b)
      BY <1>1, <2>1, <2>2
    <3>2. a \in Seq(Nat) /\ b \in Seq(Nat)
      BY DEF Id
    <3> QED
      BY <3>1, <3>2, ElementOfSeq
  <2>4. CASE n < Len(a) - 1
    <3>1. b[n] < c[n] /\ n <= Len(c) /\ \A k \in 1..(n - 1) : b[k] = c[k]
      BY <1>1, <1>2, <2>1, <2>2, <2>4
    <3> QED
      BY <3>1 DEF PartsBelow, Precedes
  <2>5. CASE n >= Len(a) - 1
    <3> DEFINE m == Len(a) - 1
    <3>1. m \in 1..Len(b) /\ m <= Len(c)
      BY <1>1, <1>2, <2>1, <2>2, <2>5
    <3>2. b[m] <= a[m]
      BY <1>1, <2>1, <2>2, <2>3, <2>5
    <3>3. b[m] < c[m]
      <4>1. b[m] \in Nat
        BY <3>1, ElementOfSeq DEF Id
      <4> QED
        BY <1>1, <1>2, <3>2, <4>1
    <3>4. \A k \in 1..(m - 1) : b[k] = c[k]
      BY <1>1, <1>2, <2>1, <2>2, <2>5
    <3> QED
      BY <3>1, <3>3, <3>4 DEF PartsBelow, Precedes
  <2> QED
    BY <1>1, <2>1, <2>2, <2>4, <2>5
<1> QED
  BY <1>3, <1>4 DEF Precedes, c

(* What the second visitor gives is not what the first gave, and tells the   *)
(* function that it belongs to.                                              *)
LEMMA BodyIsNoItem ==
    ASSUME NEW a \in Id, NEW f \in Id, ItemId(f), BodyId(a, f)
    PROVE  ~ItemId(a)
<1>1. Len(a) \in Nat /\ Len(f) \in Nat
  BY LenProperties DEF Id
<1>2. Len(f) + 1 \in 3..Len(a) /\ a[Len(f) + 1] = 0
  BY <1>1 DEF ItemId, BodyId
<1> QED
  BY <1>2 DEF ItemId

LEMMA BodiesDiffer ==
    ASSUME NEW a \in Id, NEW f \in Id, NEW g \in Id,
           ItemId(f), ItemId(g), BodyId(a, f), BodyId(a, g)
    PROVE  f = g
<1>1. Len(a) \in Nat /\ Len(f) \in Nat /\ Len(g) \in Nat
  BY LenProperties DEF Id
<1>2. ASSUME NEW x \in Id, NEW y \in Id, ItemId(x), ItemId(y), BodyId(a, x), BodyId(a, y)
      PROVE  ~(Len(x) < Len(y))
  <2>1. Len(x) \in Nat /\ Len(y) \in Nat
    BY LenProperties DEF Id
  <2> SUFFICES ASSUME Len(x) < Len(y) PROVE FALSE
    OBVIOUS
  <2>2. Len(x) + 1 \in 3..Len(y) /\ Len(x) + 1 \in 1..Len(y)
    BY <1>2, <2>1 DEF ItemId
  <2>3. y[Len(x) + 1] = 0
    BY <1>2, <2>2 DEF BodyId
  <2>4. y[Len(x) + 1] >= 1
    BY <1>2, <2>2 DEF ItemId
  <2> QED
    BY <2>3, <2>4
<1>3. Len(f) = Len(g)
  BY <1>1, <1>2
<1>4. \A k \in 1..Len(f) : f[k] = g[k]
  BY <1>3 DEF BodyId
<1> QED
  BY <1>3, <1>4, SeqEqual DEF Id

(* An id that was not given before. *)
LEMMA FreshKeepsInjective ==
    ASSUME NEW s \in Seq(Id), NEW x \in Id, IsInjective(s), \A k \in DOMAIN s : s[k] # x
    PROVE  /\ IsInjective(Append(s, x))
           /\ Append(s, x) \in Seq(Id)
           /\ DOMAIN Append(s, x) = DOMAIN s \cup {Len(s) + 1}
           /\ \A k \in DOMAIN s : Append(s, x)[k] = s[k]
           /\ Append(s, x)[Len(s) + 1] = x
<1> DEFINE t == Append(s, x)
<1>1. Len(s) \in Nat /\ DOMAIN s = 1..Len(s)
  BY LenProperties
<1>2. /\ t \in Seq(Id)
      /\ Len(t) = Len(s) + 1
      /\ \A k \in 1..Len(s) : t[k] = s[k]
      /\ t[Len(s) + 1] = x
  BY <1>1, AppendProperties
<1>3. DOMAIN t = 1..(Len(s) + 1)
  BY <1>2, LenProperties
<1> HIDE DEF t
<1>4. DOMAIN t = DOMAIN s \cup {Len(s) + 1}
  BY <1>1, <1>3
<1>5. ASSUME NEW a \in DOMAIN t, NEW b \in DOMAIN t, t[a] = t[b]
      PROVE  a = b
  <2>1. CASE a \in DOMAIN s /\ b \in DOMAIN s
    BY <1>1, <1>2, <1>5, <2>1 DEF IsInjective
  <2>2. CASE a \in DOMAIN s /\ b = Len(s) + 1
    BY <1>1, <1>2, <1>5, <2>2
  <2>3. CASE a = Len(s) + 1 /\ b \in DOMAIN s
    BY <1>1, <1>2, <1>5, <2>3
  <2> QED
    BY <1>4, <2>1, <2>2, <2>3
<1>6. IsInjective(t)
  BY <1>5 DEF IsInjective
<1>7. /\ IsInjective(t)
      /\ t \in Seq(Id)
      /\ DOMAIN t = DOMAIN s \cup {Len(s) + 1}
      /\ \A k \in DOMAIN s : t[k] = s[k]
      /\ t[Len(s) + 1] = x
  BY <1>1, <1>2, <1>4, <1>6
<1> QED
  BY <1>7, Zenon DEF t

(* Defining a name keeps the scopes well formed. *)
LEMMA DefineProperties ==
    ASSUME NEW ss \in Seq(Scope), NEW i \in Nat, NEW key \in Keys, NEW id \in Id
    PROVE  Define(ss, i, key, id) \in Seq(Scope)
<1>1. ASSUME NEW s \in Scope
      PROVE  Bind(s, key, id) \in Scope
  <2>1. PICK D \in SUBSET Keys : s \in [D -> Id]
    BY <1>1 DEF Scope
  <2>2. Bind(s, key, id) \in [D \cup {key} -> Id]
    BY <2>1 DEF Bind
  <2>3. D \cup {key} \in SUBSET Keys
    BY <2>1
  <2> QED
    BY <2>2, <2>3 DEF Scope
<1>2. Len(ss) \in Nat /\ DOMAIN ss = 1..Len(ss)
  BY LenProperties
<1>3. CASE i \in 1..Len(ss)
  <2>1. Bind(ss[i], key, id) \in Scope
    BY <1>1, <1>3, ElementOfSeq
  <2>2. Define(ss, i, key, id) = [ss EXCEPT ![i] = Bind(ss[i], key, id)]
    BY DEF Define
  <2> QED
    BY <1>3, <2>1, <2>2, ExceptSeq
<1>4. CASE i \notin 1..Len(ss)
  <2>1. Define(ss, i, key, id) = ss
    <3>1. Define(ss, i, key, id) = [x \in DOMAIN ss |-> ss[x]]
      BY <1>2, <1>4 DEF Define
    <3>2. ss = [x \in DOMAIN ss |-> ss[x]]
      BY SeqDef
    <3> QED
      BY <3>1, <3>2
  <2> QED
    BY <2>1
<1> QED
  BY <1>3, <1>4

LEMMA VisitTypes ==
    ASSUME NEW node \in {"params", "fn", "block", "if"}
    PROVE  NewVisit(node) \in Visit
<1>1. None \in Seq(Nat)
  BY DEF None
<1>2. FALSE \in BOOLEAN /\ 0 \in Nat /\ {} \in SUBSET Idents
  OBVIOUS
<1> QED
  BY <1>1, <1>2, Zenon DEF NewVisit, Visit

LEMMA ScopeTypes ==
    ASSUME NEW ss \in Seq(Scope)
    PROVE  \A i \in DOMAIN ss : /\ DOMAIN ss[i] \subseteq Keys
                                /\ \A k \in DOMAIN ss[i] : ss[i][k] \in Seq(Nat)
<1> SUFFICES ASSUME NEW i \in DOMAIN ss
             PROVE  /\ DOMAIN ss[i] \subseteq Keys
                    /\ \A k \in DOMAIN ss[i] : ss[i][k] \in Seq(Nat)
  OBVIOUS
<1>1. ss[i] \in Scope
  BY LenProperties, ElementOfSeq
<1>2. PICK D \in SUBSET Keys : ss[i] \in [D -> Id]
  BY <1>1 DEF Scope
<1> QED
  BY <1>2 DEF Id

(* A scope begins, or ends. *)
LEMMA NewScopeTypes ==
    ASSUME NEW ss \in Seq(Scope)
    PROVE  Append(ss, <<>>) \in Seq(Scope) /\ Front(ss) \in Seq(Scope)
<1>1. <<>> \in [{} -> Id]
  OBVIOUS
<1>2. <<>> \in Scope
  BY <1>1 DEF Scope
<1> QED
  BY <1>2, AppendProperties, FrontProperties

LEMMA SourceTypes ==
    ASSUME lvalues \in Seq(Id)
    PROVE  /\ None \in Id
           /\ PopSource \in Seq(Id)
           /\ HasSource => Last(lvalues) \in Id
           /\ \A id \in Id : Append(lvalues, id) \in Seq(Id) /\ Append(PopSource, id) \in Seq(Id)
<1>1. None \in Id
  BY DEF None, Id
<1>2. PopSource \in Seq(Id)
  BY FrontProperties DEF PopSource
<1>3. ASSUME HasSource
      PROVE  Last(lvalues) \in Id
  <2>1. Len(lvalues) \in 1..Len(lvalues)
    BY <1>3, EmptySeq, LenProperties DEF HasSource
  <2> QED
    BY <2>1, ElementOfSeq DEF Last
<1> QED
  BY <1>1, <1>2, <1>3, AppendProperties

(* The fields of a visit that its node sets. *)
LEMMA VisitChanges ==
    ASSUME NEW v \in Visit, NEW p \in {"start", "stmts", "last"}, NEW i \in Id, NEW src \in Id,
           NEW n \in Nat, NEW e \in BOOLEAN
    PROVE  /\ [v EXCEPT !.phase = p, !.id = i, !.source = src] \in Visit
           /\ [v EXCEPT !.phase = p, !.id = i, !.source = src, !.left = n, !.else = e] \in Visit
BY DEF Visit, Id

-----------------------------------------------------------------------------
(* Giving ids. *)

(* In the body of a function no node has got the current id before: neither  *)
(* an item or a parameter, nor a node of another function or of this one.    *)
LEMMA CurrentIsFresh ==
    ASSUME IInv, pass = "expressions", Len(visits) >= 2
    PROVE  \A k \in DOMAIN given : given[k] # current_id
<1> SUFFICES ASSUME NEW k \in DOMAIN given, given[k] = current_id
             PROVE  FALSE
  OBVIOUS
<1>1. /\ current_id \in Id
      /\ visits # <<>>
  BY DEF IInv, TypeOK, Id
<1>2. /\ item \in DOMAIN unit
      /\ ids[item].id # Default
      /\ BodyId(current_id, ids[item].id)
      /\ BodyId(given[k], ids[item].id) => Precedes(given[k], current_id)
  BY <1>1 DEF IInv, SecondPassInv, Reached
<1>3. ASSUME NEW i \in DOMAIN unit, ids[i].id # Default
      PROVE  ids[i].id \in Id /\ ItemId(ids[i].id)
  BY <1>3 DEF IInv, TreeInv, ItemsInv
<1>4. ~ItemId(given[k])
  BY <1>1, <1>2, <1>3, BodyIsNoItem
<1>5. PICK i \in DOMAIN unit : ids[i].id # Default /\ BodyId(given[k], ids[i].id)
  BY <1>4 DEF IInv, OwnersInv, Reached
<1>6. Precedes(given[k], current_id)
  BY <1>2
<1> QED
  BY <1>1, <1>6, PrecedesDiffers

(* Giving the current id: nothing that was given gets lost.                  *)
LEMMA GivenGrows ==
    ASSUME IInv, UNCHANGED <<unit, ids>>,
           \/ UNCHANGED given
           \/ Give(current_id) /\ \A k \in DOMAIN given : given[k] # current_id
    PROVE  /\ given' \in Seq(Id)
           /\ IdsAreUnique'
           /\ ItemsInv'
           /\ \A k \in DOMAIN given' :
                 \/ k \in DOMAIN given /\ given'[k] = given[k]
                 \/ ~UNCHANGED given /\ given'[k] = current_id
<1>1. given \in Seq(Id) /\ current_id \in Id /\ IsInjective(given)
  BY DEF IInv, TypeOK, IdsAreUnique, Id
<1>2. CASE UNCHANGED given
  BY <1>1, <1>2 DEF IInv, ItemsInv, IdsAreUnique
<1>3. CASE Give(current_id) /\ \A k \in DOMAIN given : given[k] # current_id
  <2>1. /\ IsInjective(given')
        /\ given' \in Seq(Id)
        /\ DOMAIN given' = DOMAIN given \cup {Len(given) + 1}
        /\ \A k \in DOMAIN given : given'[k] = given[k]
        /\ given'[Len(given) + 1] = current_id
    <3>1. given' = Append(given, current_id) /\ \A k \in DOMAIN given : given[k] # current_id
      BY <1>3 DEF Give
    <3> QED
      BY <1>1, <3>1, FreshKeepsInjective
  <2>2. ItemsInv'
    BY <2>1 DEF IInv, ItemsInv
  <2>3. given' # given
    BY <1>1, <2>1, LenProperties
  <2> QED
    BY <2>1, <2>2, <2>3 DEF IdsAreUnique
<1> QED
  BY <1>2, <1>3

(* A step within the body of a function: the current id only goes on, stays  *)
(* in the body and deep enough, and is the only one that may be given.       *)
StaysInBody ==
    /\ UNCHANGED <<unit, pass, item, ids>>
    /\ scopes' \in Seq(Scope) /\ lvalues' \in Seq(Id) /\ errors' \subseteq Errors
    /\ stmts' \in 0..MaxStmts
    /\ current_id' \in Id /\ Len(current_id') >= 2
    /\ visits' \in Seq(Visit) /\ visits' # <<>> /\ Nested(visits')
    /\ Len(visits') >= 2 =>
          /\ BodyId(current_id', ids[item].id)
          /\ Len(current_id') >= Len(ids[item].id) + Begun(visits')
    /\ \A b \in Id : Precedes(b, current_id) => Precedes(b, current_id')
    /\ UNCHANGED given \/ (Give(current_id) /\ Precedes(current_id, current_id'))

(* The types after a step. *)
LEMMA TypesAfter ==
    ASSUME unit' \in Units, pass' \in {"items", "expressions", "done"}, item' \in Nat,
           ids' \in [DOMAIN unit' -> [id : Id, params : Seq(Id)]],
           \A i \in DOMAIN unit' : DOMAIN ids'[i].params = DOMAIN unit'[i].params,
           scopes' \in Seq(Scope), current_id' \in Id, lvalues' \in Seq(Id),
           visits' \in Seq(Visit), errors' \subseteq Errors, stmts' \in 0..MaxStmts,
           given' \in Seq(Id)
    PROVE  TypeOK' /\ TreeInv'
<1>1. TreeInv'
  BY DEF TreeInv
<1>2. /\ DOMAIN ids' = DOMAIN unit'
      /\ \A i \in DOMAIN ids' : ids'[i].id \in Id /\ ids'[i].params \in Seq(Id)
  OBVIOUS
<1>3. \A i \in DOMAIN scopes' : /\ DOMAIN scopes'[i] \subseteq Keys
                               /\ \A k \in DOMAIN scopes'[i] : scopes'[i][k] \in Seq(Nat)
  BY ScopeTypes
<1>4. TypeOK'
  BY <1>2, <1>3, Zenon DEF TypeOK, Id
<1> QED
  BY <1>1, <1>4

LEMMA BodyStep ==
    ASSUME IInv, pass = "expressions", Len(visits) >= 2, StaysInBody
    PROVE  IInv'
<1> USE DEF StaysInBody
<1>1. \A k \in DOMAIN given : given[k] # current_id
  BY CurrentIsFresh
<1>2. /\ given' \in Seq(Id)
      /\ IdsAreUnique'
      /\ ItemsInv'
      /\ \A k \in DOMAIN given' :
            \/ k \in DOMAIN given /\ given'[k] = given[k]
            \/ ~UNCHANGED given /\ given'[k] = current_id
  BY <1>1, GivenGrows
<1>3. /\ visits # <<>> /\ Reached(item)
      /\ BodyId(current_id, ids[item].id)
      /\ \A k \in DOMAIN given :
            BodyId(given[k], ids[item].id) => Precedes(given[k], current_id)
  BY DEF IInv, SecondPassInv
<1>4. \A i : Reached(i)' <=> Reached(i)
  BY <1>3 DEF Reached
<1>5. OwnersInv'
  BY <1>2, <1>3, <1>4 DEF IInv, OwnersInv, Reached
<1>6. FirstPassInv'
  BY DEF FirstPassInv
<1>7. ASSUME NEW k \in DOMAIN given', BodyId(given'[k], ids[item].id)
      PROVE  Precedes(given'[k], current_id')
  <2>1. CASE k \in DOMAIN given /\ given'[k] = given[k]
    <3>1. given[k] \in Id
      BY <2>1, ElementOfSeq, LenProperties DEF IInv, TypeOK, Id
    <3> QED
      BY <1>3, <1>7, <2>1, <3>1
  <2>2. CASE ~UNCHANGED given /\ given'[k] = current_id
    BY <2>2
  <2> QED
    BY <1>2, <2>1, <2>2
<1>8. SecondPassInv'
  BY <1>3, <1>4, <1>7 DEF SecondPassInv
<1>9. TypeOK' /\ TreeInv'
  <2>1. /\ unit \in Units /\ item \in Nat
        /\ ids \in [DOMAIN unit -> [id : Id, params : Seq(Id)]]
        /\ \A i \in DOMAIN unit : DOMAIN ids[i].params = DOMAIN unit[i].params
    BY DEF IInv, TypeOK, TreeInv
  <2> QED
    BY <1>2, <2>1, TypesAfter
<1> QED
  BY <1>2, <1>5, <1>6, <1>8, <1>9 DEF IInv

-----------------------------------------------------------------------------
(* The visits of a function. *)

LEMMA InBody ==
    ASSUME IInv, pass = "expressions", visits # <<>>, top.node \in {"block", "if"}
    PROVE  /\ Len(visits) \in Nat /\ Len(visits) >= 2
           /\ visits \in Seq(Visit) /\ top \in Visit /\ Nested(visits)
           /\ item \in DOMAIN unit
           /\ current_id \in Id
           /\ ids[item].id \in Id /\ Len(ids[item].id) \in Nat /\ Len(ids[item].id) >= 2
           /\ BodyId(current_id, ids[item].id)
           /\ Len(current_id) >= Len(ids[item].id) + Begun(visits)
<1>1. /\ visits \in Seq(Visit) /\ Nested(visits)
      /\ item \in DOMAIN unit /\ ids[item].id # Default
      /\ current_id \in Id
      /\ Len(visits) >= 2 => /\ BodyId(current_id, ids[item].id)
                             /\ Len(current_id) >= Len(ids[item].id) + Begun(visits)
  BY DEF IInv, TypeOK, Id, SecondPassInv, Reached
<1>2. ids[item].id \in Id /\ ItemId(ids[item].id)
  BY <1>1 DEF IInv, TreeInv, ItemsInv
<1>3. Len(visits) \in Nat /\ Len(visits) >= 1
  BY <1>1, EmptySeq, LenProperties
<1>4. top \in Visit
  BY <1>1, <1>3, ElementOfSeq DEF top
<1>5. Len(visits) # 1
  BY <1>1 DEF Nested, top
<1>6. Len(ids[item].id) \in Nat /\ Len(ids[item].id) >= 2
  BY <1>2, LenProperties DEF Id, ItemId
<1>7. Len(visits) >= 2
  BY <1>3, <1>5
<1> QED
  BY <1>1, <1>2, <1>3, <1>4, <1>6, <1>7, Zenon

(* The visit on top changes. *)
LEMMA UnderTypes ==
    ASSUME visits \in Seq(Visit), Len(visits) >= 1, NEW v \in Visit
    PROVE  Under(v) \in Seq(Visit) /\ Len(Under(v)) = Len(visits)
<1>1. Len(visits) \in 1..Len(visits)
  BY LenProperties
<1> QED
  BY <1>1, ExceptSeq DEF Under

LEMMA UnderNested ==
    ASSUME visits \in Seq(Visit), Len(visits) >= 2, Nested(visits),
           NEW v \in Visit, v.node = top.node
    PROVE  /\ Under(v) \in Seq(Visit)
           /\ Under(v) # <<>>
           /\ Len(Under(v)) = Len(visits)
           /\ Nested(Under(v))
           /\ Under(v)[Len(visits)] = v
<1>1. Len(visits) \in Nat /\ Len(visits) \in 1..Len(visits)
  BY LenProperties
<1>2. /\ Under(v) \in Seq(Visit)
      /\ Len(Under(v)) = Len(visits)
      /\ \A j \in 1..Len(visits) : Under(v)[j] = IF j = Len(visits) THEN v ELSE visits[j]
  BY <1>1, ExceptSeq DEF Under
<1>3. Under(v) # <<>>
  BY <1>1, <1>2, EmptySeq
<1>4. Nested(Under(v))
  BY <1>1, <1>2 DEF Nested, top
<1> QED
  BY <1>1, <1>2, <1>3, <1>4

(* The visit on top ends. *)
LEMMA FrontNested ==
    ASSUME visits \in Seq(Visit), Len(visits) >= 2, Nested(visits)
    PROVE  /\ Front(visits) \in Seq(Visit)
           /\ Front(visits) # <<>>
           /\ Len(Front(visits)) = Len(visits) - 1
           /\ Nested(Front(visits))
           /\ Len(visits) >= 3 => Begun(Front(visits)) = Len(visits) - 1
<1>1. Len(visits) \in Nat
  BY LenProperties
<1>2. /\ Front(visits) \in Seq(Visit)
      /\ Len(Front(visits)) = Len(visits) - 1
      /\ \A j \in 1..(Len(visits) - 1) : Front(visits)[j] = visits[j]
  BY <1>1, FrontProperties
<1>3. Front(visits) # <<>>
  BY <1>1, <1>2, EmptySeq
<1>4. Nested(Front(visits))
  BY <1>1, <1>2 DEF Nested
<1>5. ASSUME Len(visits) >= 3
      PROVE  Begun(Front(visits)) = Len(visits) - 1
  <2>1. Front(visits)[Len(visits) - 1].phase # "start"
    BY <1>1, <1>2, <1>5 DEF Nested
  <2> QED
    BY <1>2, <2>1 DEF Begun
<1> QED
  BY <1>2, <1>3, <1>4, <1>5

(* The visit of a node within the one on top begins. *)
LEMMA AppendNested ==
    ASSUME NEW vs \in Seq(Visit), Len(vs) >= 2, Nested(vs), vs[Len(vs)].phase # "start",
           NEW v \in Visit, v.node \in {"block", "if"}, v.phase = "start"
    PROVE  /\ Append(vs, v) \in Seq(Visit)
           /\ Append(vs, v) # <<>>
           /\ Len(Append(vs, v)) = Len(vs) + 1
           /\ Nested(Append(vs, v))
           /\ Begun(Append(vs, v)) = Len(vs)
<1>1. Len(vs) \in Nat
  BY LenProperties
<1> DEFINE a == Append(vs, v)
<1>2. /\ a \in Seq(Visit)
      /\ a # <<>>
      /\ Len(a) = Len(vs) + 1
      /\ \A j \in 1..Len(vs) : a[j] = vs[j]
      /\ a[Len(vs) + 1] = v
  BY <1>1, AppendProperties
<1> HIDE DEF a
<1>3. Nested(a)
  BY <1>1, <1>2 DEF Nested
<1>4. Begun(a) = Len(vs)
  BY <1>1, <1>2 DEF Begun
<1>5. a \in Seq(Visit) /\ a # <<>> /\ Len(a) = Len(vs) + 1 /\ Nested(a) /\ Begun(a) = Len(vs)
  BY <1>2, <1>3, <1>4
<1> QED
  BY <1>5, Zenon DEF a

(* The current id within the body of a function with the id f, one level     *)
(* down, after a node, and after a node whose visit ends.                    *)
LEMMA PushInBody ==
    ASSUME NEW a \in Id, NEW f \in Id, BodyId(a, f)
    PROVE  BodyId(Push(a), f)
<1>1. Len(a) \in Nat /\ Len(f) \in Nat
  BY LenProperties DEF Id
<1> QED
  BY <1>1, PushProperties DEF BodyId

LEMMA IncrementInBody ==
    ASSUME NEW a \in Id, NEW f \in Id, BodyId(a, f), Len(a) >= Len(f) + 2
    PROVE  BodyId(Increment(a), f)
<1>1. Len(a) \in Nat /\ Len(f) \in Nat /\ Len(a) >= 1
  BY LenProperties DEF Id
<1> DEFINE c == Increment(a)
<1>2. Len(c) = Len(a) /\ \A k \in 1..(Len(a) - 1) : c[k] = a[k]
  BY <1>1, IncrementProperties
<1> HIDE DEF c
<1>3. BodyId(c, f)
  BY <1>1, <1>2 DEF BodyId
<1> QED
  BY <1>3 DEF c

LEMMA LeaveInBody ==
    ASSUME NEW a \in Id, NEW f \in Id, BodyId(a, f), Len(a) >= Len(f) + 3
    PROVE  BodyId(Increment(Pop(a)), f)
<1>1. Len(a) \in Nat /\ Len(f) \in Nat /\ Len(a) >= 2
  BY LenProperties DEF Id
<1> DEFINE c == Increment(Pop(a))
<1>2. /\ Len(c) = Len(a) - 1
      /\ \A k \in 1..(Len(a) - 2) : c[k] = a[k]
  BY <1>1, LeaveProperties
<1> HIDE DEF c
<1>3. BodyId(c, f)
  BY <1>1, <1>2 DEF BodyId
<1> QED
  BY <1>3 DEF c

-----------------------------------------------------------------------------
(* The steps within the body of a function. *)

LEMMA BlockBeginStep ==
    ASSUME IInv, NEW empty \in BOOLEAN, BlockBegin(empty)
    PROVE  IInv'
<1>1. /\ pass = "expressions" /\ visits # <<>> /\ top.node = "block" /\ top.phase = "start"
      /\ Give(current_id) /\ current_id' = Push(current_id) /\ scopes' = NewScope
      /\ UNCHANGED <<unit, pass, item, ids, stmts>>
  BY DEF BlockBegin, AtNode
<1> DEFINE f == ids[item].id
           v == [top EXCEPT !.phase = IF empty THEN "last" ELSE "stmts",
                            !.id = current_id,
                            !.source = IF HasSource THEN Last(lvalues) ELSE None]
<1>2. /\ Len(visits) \in Nat /\ Len(visits) >= 2
      /\ visits \in Seq(Visit) /\ top \in Visit /\ Nested(visits)
      /\ current_id \in Id
      /\ f \in Id /\ Len(f) \in Nat /\ Len(f) >= 2
      /\ BodyId(current_id, f)
      /\ Len(current_id) >= Len(f) + Begun(visits)
  BY <1>1, InBody
<1>3. Begun(visits) = Len(visits) - 1
  BY <1>1 DEF Begun, top
<1>4. /\ current_id' \in Id /\ Len(current_id) \in Nat /\ Len(current_id) >= 2
      /\ Len(current_id') = Len(current_id) + 1
      /\ BodyId(current_id', f)
      /\ Precedes(current_id, current_id')
      /\ \A b \in Id : Precedes(b, current_id) => Precedes(b, current_id')
  BY <1>1, <1>2, PushProperties, PushInBody, PushAdvances, LenProperties DEF IInv, Id
<1>5. /\ scopes' \in Seq(Scope) /\ lvalues \in Seq(Id)
      /\ stmts' \in 0..MaxStmts /\ errors \subseteq Errors
  BY <1>1, NewScopeTypes DEF IInv, TypeOK, TreeInv, NewScope, Id
<1>6. /\ v \in Visit /\ v.node = top.node /\ v.phase # "start"
  <2>1. (IF HasSource THEN Last(lvalues) ELSE None) \in Id
    BY <1>5, SourceTypes
  <2>2. (IF empty THEN "last" ELSE "stmts") \in {"start", "stmts", "last"}
    OBVIOUS
  <2>3. v \in Visit
    BY <1>2, <2>1, <2>2, VisitChanges, Zenon
  <2> QED
    BY <1>2, <2>3 DEF Visit
<1> HIDE DEF v, f
<1>7. CASE HasSource /\ empty
  <2>1. /\ visits' = Front(visits) /\ lvalues' = PopSource
        /\ errors' = errors \cup {"EmptyBlock"}
    BY <1>7 DEF BlockBegin, Report
  <2>2. /\ visits' \in Seq(Visit) /\ visits' # <<>> /\ Nested(visits')
        /\ Len(visits') = Len(visits) - 1
        /\ Len(visits) >= 3 => Begun(visits') = Len(visits) - 1
    BY <1>2, <2>1, FrontNested
  <2>3. errors' \subseteq Errors /\ lvalues' \in Seq(Id)
    BY <1>5, <2>1, SourceTypes DEF Errors
  <2>4. Len(visits') >= 2 => Len(current_id') >= Len(f) + Begun(visits')
    BY <1>2, <1>3, <1>4, <2>2
  <2>5. Len(current_id') >= 2
    BY <1>4
  <2>6. StaysInBody
    BY <1>1, <1>2, <1>4, <1>5, <2>2, <2>3, <2>4, <2>5 DEF StaysInBody, f
  <2> QED
    BY <1>1, <1>2, <2>6, BodyStep
<1>8. CASE ~(HasSource /\ empty)
  <2>1. /\ visits' = Under(v)
        /\ lvalues' = IF HasSource THEN Append(PopSource, None) ELSE lvalues
        /\ errors' = errors
    BY <1>8 DEF BlockBegin, v
  <2>2. /\ visits' \in Seq(Visit) /\ visits' # <<>> /\ Nested(visits')
        /\ Len(visits') = Len(visits) /\ visits'[Len(visits)] = v
    BY <1>2, <1>6, <2>1, UnderNested
  <2>3. Begun(visits') = Len(visits)
    BY <1>6, <2>2 DEF Begun
  <2>4. errors' \subseteq Errors /\ lvalues' \in Seq(Id)
    BY <1>5, <2>1, SourceTypes
  <2>5. Len(current_id') >= Len(f) + Begun(visits')
    BY <1>2, <1>3, <1>4, <2>3
  <2>6. Len(current_id') >= 2
    BY <1>4
  <2>7. StaysInBody
    BY <1>1, <1>2, <1>4, <1>5, <2>2, <2>4, <2>5, <2>6 DEF StaysInBody, f
  <2> QED
    BY <1>1, <1>2, <2>7, BodyStep
<1> QED
  BY <1>7, <1>8

(* A node of a body is left, or visited further, or a node within it is      *)
(* visited.  What the three kinds of steps have in common: the builder and   *)
(* the errors stay within their types.                                       *)
InNode ==
    /\ pass = "expressions" /\ visits # <<>>
    /\ top.node \in {"block", "if"} /\ top.phase # "start"
    /\ UNCHANGED <<unit, pass, item, ids>>
    /\ scopes' \in Seq(Scope) /\ lvalues' \in Seq(Id) /\ errors' \subseteq Errors
    /\ stmts' \in 0..MaxStmts

LEMMA LeaveStep ==
    ASSUME IInv, InNode, UNCHANGED given,
           current_id' = Increment(Pop(current_id)), visits' = Front(visits)
    PROVE  IInv'
<1> DEFINE f == ids[item].id
<1>1. /\ pass = "expressions" /\ visits # <<>> /\ top.node \in {"block", "if"}
      /\ top.phase # "start"
  BY DEF InNode
<1>2. /\ Len(visits) \in Nat /\ Len(visits) >= 2
      /\ visits \in Seq(Visit) /\ Nested(visits)
      /\ current_id \in Id /\ Len(current_id) \in Nat
      /\ f \in Id /\ Len(f) \in Nat /\ Len(f) >= 2
      /\ BodyId(current_id, f)
      /\ Len(current_id) >= Len(f) + Begun(visits)
  BY <1>1, InBody, LenProperties DEF Id
<1> HIDE DEF f
<1>3. Begun(visits) = Len(visits)
  BY <1>1 DEF Begun, top
<1>4. Len(current_id) >= 4
  BY <1>2, <1>3
<1>5. /\ current_id' \in Id
      /\ Len(current_id') = Len(current_id) - 1
      /\ \A b \in Id : Precedes(b, current_id) => Precedes(b, current_id')
  BY <1>2, <1>4, LeaveProperties, LeaveAdvances
<1>6. /\ visits' \in Seq(Visit) /\ visits' # <<>> /\ Nested(visits')
      /\ Len(visits') = Len(visits) - 1
      /\ Len(visits) >= 3 => Begun(visits') = Len(visits) - 1
  BY <1>2, FrontNested
<1>7. ASSUME Len(visits') >= 2
      PROVE  BodyId(current_id', f) /\ Len(current_id') >= Len(f) + Begun(visits')
  <2>1. Len(visits) >= 3
    BY <1>2, <1>6, <1>7
  <2>2. Len(current_id) >= Len(f) + 3
    BY <1>2, <1>3, <2>1
  <2>3. BodyId(current_id', f)
    BY <1>2, <2>2, LeaveInBody
  <2>4. Len(current_id') >= Len(f) + Begun(visits')
    BY <1>2, <1>3, <1>5, <1>6, <2>1
  <2> QED
    BY <2>3, <2>4
<1>8. Len(current_id') >= 2
  BY <1>2, <1>4, <1>5
<1>9. StaysInBody
  BY <1>5, <1>6, <1>7, <1>8 DEF StaysInBody, InNode, f
<1> QED
  BY <1>1, <1>2, <1>9, BodyStep

LEMMA StayStep ==
    ASSUME IInv, InNode, NEW v \in Visit, v.node = top.node, v.phase # "start",
           visits' = Under(v),
           \/ UNCHANGED <<current_id, given>>
           \/ current_id' = Increment(current_id) /\ Give(current_id)
    PROVE  IInv'
<1> DEFINE f == ids[item].id
<1>1. /\ pass = "expressions" /\ visits # <<>> /\ top.node \in {"block", "if"}
      /\ top.phase # "start"
  BY DEF InNode
<1>2. /\ Len(visits) \in Nat /\ Len(visits) >= 2
      /\ visits \in Seq(Visit) /\ Nested(visits)
      /\ current_id \in Id /\ Len(current_id) \in Nat
      /\ f \in Id /\ Len(f) \in Nat /\ Len(f) >= 2
      /\ BodyId(current_id, f)
      /\ Len(current_id) >= Len(f) + Begun(visits)
  BY <1>1, InBody, LenProperties DEF Id
<1> HIDE DEF f
<1>3. Begun(visits) = Len(visits)
  BY <1>1 DEF Begun, top
<1>4. Len(current_id) >= Len(f) + 2
  BY <1>2, <1>3
<1>5. /\ visits' \in Seq(Visit) /\ visits' # <<>> /\ Nested(visits')
      /\ Len(visits') = Len(visits) /\ visits'[Len(visits)] = v
  BY <1>2, UnderNested
<1>6. Begun(visits') = Len(visits)
  BY <1>5 DEF Begun
<1>7. /\ current_id' \in Id
      /\ Len(current_id') = Len(current_id)
      /\ BodyId(current_id', f)
      /\ \A b \in Id : Precedes(b, current_id) => Precedes(b, current_id')
      /\ UNCHANGED given \/ (Give(current_id) /\ Precedes(current_id, current_id'))
  <2>1. CASE UNCHANGED <<current_id, given>>
    BY <1>2, <2>1
  <2>2. CASE current_id' = Increment(current_id) /\ Give(current_id)
    <3>1. Len(current_id) >= 1
      BY <1>2, <1>4
    <3> QED
      BY <1>2, <1>4, <2>2, <3>1, IncrementProperties, IncrementInBody, IncrementAdvances
  <2> QED
    BY <2>1, <2>2
<1>8. Len(current_id') >= 2 /\ Len(current_id') >= Len(f) + Begun(visits')
  BY <1>2, <1>3, <1>4, <1>6, <1>7
<1>9. StaysInBody
  BY <1>5, <1>7, <1>8 DEF StaysInBody, InNode, f
<1> QED
  BY <1>1, <1>2, <1>9, BodyStep

LEMMA EnterStep ==
    ASSUME IInv, InNode, NEW v \in Visit, v.node = top.node, v.phase # "start",
           NEW w \in Visit, w.node \in {"block", "if"}, w.phase = "start",
           visits' = Append(Under(v), w), UNCHANGED <<current_id, given>>
    PROVE  IInv'
<1> DEFINE f == ids[item].id
           u == Under(v)
<1>1. /\ pass = "expressions" /\ visits # <<>> /\ top.node \in {"block", "if"}
      /\ top.phase # "start"
  BY DEF InNode
<1>2. /\ Len(visits) \in Nat /\ Len(visits) >= 2
      /\ visits \in Seq(Visit) /\ Nested(visits)
      /\ current_id \in Id /\ Len(current_id) \in Nat
      /\ f \in Id /\ Len(f) \in Nat /\ Len(f) >= 2
      /\ BodyId(current_id, f)
      /\ Len(current_id) >= Len(f) + Begun(visits)
  BY <1>1, InBody, LenProperties DEF Id
<1>3. Begun(visits) = Len(visits)
  BY <1>1 DEF Begun, top
<1>4. /\ u \in Seq(Visit) /\ Nested(u)
      /\ Len(u) = Len(visits) /\ u[Len(visits)] = v
  BY <1>2, UnderNested
<1>5. visits' = Append(u, w)
  OBVIOUS
<1> HIDE DEF f, u
<1>6. /\ visits' \in Seq(Visit) /\ visits' # <<>> /\ Nested(visits')
      /\ Begun(visits') = Len(visits)
  <2>1. Len(u) >= 2 /\ u[Len(u)].phase # "start"
    BY <1>2, <1>4
  <2> QED
    BY <1>4, <1>5, <2>1, AppendNested
<1>7. Len(current_id') >= 2 /\ Len(current_id') >= Len(f) + Begun(visits')
  BY <1>2, <1>3, <1>6
<1>8. StaysInBody
  BY <1>2, <1>6, <1>7 DEF StaysInBody, InNode, f
<1> QED
  BY <1>1, <1>2, <1>8, BodyStep

(* What the builder and the errors are before a step. *)
LEMMA BuilderTypes ==
    ASSUME IInv
    PROVE  /\ scopes \in Seq(Scope) /\ Front(scopes) \in Seq(Scope)
           /\ lvalues \in Seq(Id) /\ errors \subseteq Errors /\ stmts \in 0..MaxStmts
           /\ current_id \in Id /\ visits \in Seq(Visit)
BY NewScopeTypes DEF IInv, TypeOK, TreeInv, Id

LEMMA ErrorTypes ==
    ASSUME NEW expr \in Exprs
    PROVE  ExprErrors(expr) \subseteq Errors
<1>1. CASE expr[1] = "literal"
  BY <1>1 DEF ExprErrors
<1>2. CASE expr[1] = "ref"
  BY <1>2 DEF ExprErrors, Errors
<1>3. CASE expr[1] = "call"
  BY <1>3 DEF ExprErrors, Errors
<1>4. CASE expr[1] = "assign"
  BY <1>4 DEF ExprErrors, Errors
<1>5. expr[1] \in {"literal", "ref", "call", "assign"}
  BY DEF Exprs
<1> QED
  BY <1>1, <1>2, <1>3, <1>4, <1>5

(* The visitor at a statement. *)
LEMMA AtStmtTypes ==
    ASSUME IInv, NEW last \in BOOLEAN, AtStmt(last)
    PROVE  /\ pass = "expressions" /\ visits # <<>>
           /\ top \in Visit /\ top.node = "block" /\ top.phase = "stmts"
           /\ UNCHANGED <<unit, pass, item, ids>>
           /\ lvalues' \in Seq(Id)
           /\ After(last) \in Visit
           /\ After(last).node = "block"
           /\ After(last).phase \in {"stmts", "last"}
<1>1. /\ pass = "expressions" /\ visits # <<>> /\ top.node = "block" /\ top.phase = "stmts"
      /\ UNCHANGED <<unit, pass, item, ids>>
      /\ lvalues' = SourcesAt(last)
  BY DEF AtStmt, AtNode
<1>2. top \in Visit
  BY <1>1, InBody
<1>3. lvalues' \in Seq(Id)
  <2>1. lvalues \in Seq(Id) /\ top.id \in Id
    BY <1>2, BuilderTypes DEF Visit, Id
  <2> QED
    BY <1>1, <2>1, SourceTypes DEF SourcesAt
<1>4. /\ After(last) \in Visit
      /\ After(last).node = "block"
      /\ After(last).phase \in {"stmts", "last"}
  <2>1. (IF last THEN "last" ELSE "stmts") \in {"start", "stmts", "last"}
    OBVIOUS
  <2> QED
    BY <1>1, <1>2, <2>1 DEF After, Visit
<1> QED
  BY <1>1, <1>2, <1>3, <1>4

LEMMA BlockEndStep ==
    ASSUME IInv, BlockEnd
    PROVE  IInv'
<1>1. InNode
  BY BuilderTypes DEF BlockEnd, AtNode, InNode
<1> QED
  BY <1>1, LeaveStep DEF BlockEnd

LEMMA IfEndStep ==
    ASSUME IInv, IfEnd
    PROVE  IInv'
<1>1. InNode
  BY BuilderTypes DEF IfEnd, AtNode, InNode
<1> QED
  BY <1>1, LeaveStep DEF IfEnd

LEMMA SimpleTypes ==
    ASSUME IInv, NEW last \in BOOLEAN, Simple(last)
    PROVE  AtStmt(last) /\ stmts' \in 0..MaxStmts
<1>1. stmts \in 0..MaxStmts /\ MaxStmts \in Nat
  BY BuilderTypes, BoundsAssumption
<1>2. /\ AtStmt(last) /\ (~last => stmts < MaxStmts)
      /\ stmts' = IF last THEN stmts ELSE stmts + 1
  BY DEF Simple
<1>3. CASE last
  BY <1>1, <1>2, <1>3
<1>4. CASE ~last
  BY <1>1, <1>2, <1>4
<1> QED
  BY <1>2, <1>3, <1>4

LEMMA EvaluateStep ==
    ASSUME IInv, NEW last \in BOOLEAN, NEW expr \in Exprs, Evaluate(last, expr)
    PROVE  IInv'
<1>1. /\ Simple(last)
      /\ errors' = errors \cup ExprErrors(expr)
      /\ visits' = Under(After(last))
      /\ UNCHANGED <<scopes, current_id, given>>
  BY DEF Evaluate, Check
<1>2. AtStmt(last) /\ stmts' \in 0..MaxStmts
  BY <1>1, SimpleTypes
<1>3. /\ scopes' \in Seq(Scope) /\ errors' \subseteq Errors
  BY <1>1, BuilderTypes, ErrorTypes
<1>4. InNode
  BY <1>2, <1>3, AtStmtTypes DEF InNode
<1>5. After(last) \in Visit /\ After(last).node = top.node /\ After(last).phase # "start"
  BY <1>2, AtStmtTypes
<1> QED
  BY <1>1, <1>4, <1>5, StayStep

LEMMA DeclareStep ==
    ASSUME IInv, NEW last \in BOOLEAN, NEW name \in Idents, NEW expr \in Exprs,
           Declare(last, name, expr)
    PROVE  IInv'
<1>1. Simple(last)
  BY DEF Declare
<1>2. AtStmt(last) /\ stmts' \in 0..MaxStmts
  BY <1>1, SimpleTypes
<1>3. After(last) \in Visit /\ After(last).node = top.node /\ After(last).phase # "start"
  BY <1>2, AtStmtTypes
<1>4. CASE Get(<<name>>) # None
  <2>1. /\ errors' = errors \cup {"VarDeclared"}
        /\ visits' = Under(After(last))
        /\ UNCHANGED <<scopes, current_id, given>>
    BY <1>4 DEF Declare, Report
  <2>2. /\ scopes' \in Seq(Scope) /\ errors' \subseteq Errors
    BY <2>1, BuilderTypes DEF Errors
  <2>3. InNode
    BY <1>2, <2>2, AtStmtTypes DEF InNode
  <2> QED
    BY <1>3, <2>1, <2>3, StayStep
<1>5. CASE Get(<<name>>) = None
  <2> DEFINE v == [After(last) EXCEPT !.names = @ \cup {name}]
  <2>1. /\ errors' = errors \cup ExprErrors(expr)
        /\ scopes' = Define(scopes, Len(scopes), <<name>>, current_id)
        /\ Give(current_id)
        /\ current_id' = Increment(current_id)
        /\ visits' = Under(v)
    BY <1>5 DEF Declare, Check, DefineLocal
  <2>2. <<name>> \in Keys
    BY DEF Keys
  <2>3. /\ scopes' \in Seq(Scope) /\ errors' \subseteq Errors
    BY <2>1, <2>2, BuilderTypes, DefineProperties, ErrorTypes, LenProperties
  <2>4. InNode
    BY <1>2, <2>3, AtStmtTypes DEF InNode
  <2>5. v \in Visit /\ v.node = top.node /\ v.phase # "start"
    BY <1>3 DEF Visit
  <2> HIDE DEF v
  <2> QED
    BY <2>1, <2>4, <2>5, StayStep
<1> QED
  BY <1>4, <1>5

(* The visit of a new node, within a value of the function or not. *)
LEMMA NewTail ==
    ASSUME NEW node \in {"block", "if"}, NEW tail \in BOOLEAN
    PROVE  /\ [NewVisit(node) EXCEPT !.tail = tail] \in Visit
           /\ [NewVisit(node) EXCEPT !.tail = tail].node = node
           /\ [NewVisit(node) EXCEPT !.tail = tail].phase = "start"
<1>1. NewVisit(node) \in Visit
  BY VisitTypes
<1>2. NewVisit(node).node = node /\ NewVisit(node).phase = "start"
  BY DEF NewVisit
<1> DEFINE v == NewVisit(node)
<1> HIDE DEF v
<1>3. /\ [v EXCEPT !.tail = tail] \in Visit
      /\ [v EXCEPT !.tail = tail].node = node
      /\ [v EXCEPT !.tail = tail].phase = "start"
  BY <1>1, <1>2 DEF Visit, v
<1> QED
  BY <1>3 DEF v

LEMMA NestStep ==
    ASSUME IInv, NEW last \in BOOLEAN, NEW node \in {"block", "if"}, Nest(last, node)
    PROVE  IInv'
<1> DEFINE w == [NewVisit(node) EXCEPT !.tail = last /\ top.tail]
<1>1. /\ AtStmt(last) /\ stmts < MaxStmts /\ stmts' = stmts + 1
      /\ visits' = Append(Under(After(last)), w)
      /\ UNCHANGED <<scopes, current_id, errors, given>>
  BY DEF Nest
<1>2. stmts' \in 0..MaxStmts /\ scopes' \in Seq(Scope) /\ errors' \subseteq Errors
  BY <1>1, BuilderTypes, BoundsAssumption
<1>3. InNode
  BY <1>1, <1>2, AtStmtTypes DEF InNode
<1>4. After(last) \in Visit /\ After(last).node = top.node /\ After(last).phase # "start"
  BY <1>1, AtStmtTypes
<1>5. (last /\ top.tail) \in BOOLEAN
  OBVIOUS
<1>6. w \in Visit /\ w.node = node /\ w.phase = "start"
  BY <1>5, NewTail
<1> HIDE DEF w
<1> QED
  BY <1>1, <1>3, <1>4, <1>6, EnterStep

LEMMA IfBlockStep ==
    ASSUME IInv, AtNode("if", "stmts"), NEW v \in Visit, v.node = "if", v.phase = "stmts",
           IfBlock(v), errors' \subseteq Errors
    PROVE  IInv'
<1> DEFINE w == [NewVisit("block") EXCEPT !.tail = top.tail]
<1>1. /\ pass = "expressions" /\ visits # <<>> /\ top.node = "if" /\ top.phase = "stmts"
      /\ lvalues' = IF top.source # None THEN Append(lvalues, top.id) ELSE lvalues
      /\ visits' = Append(Under(v), w)
      /\ UNCHANGED <<unit, pass, item, ids, scopes, current_id, stmts, given>>
  BY DEF AtNode, IfBlock
<1>2. top \in Visit
  BY <1>1, InBody
<1>3. top.id \in Id /\ top.tail \in BOOLEAN
  BY <1>2 DEF Visit, Id
<1>4. lvalues' \in Seq(Id)
  BY <1>1, <1>3, BuilderTypes, SourceTypes
<1>5. InNode
  BY <1>1, <1>4, BuilderTypes DEF InNode
<1>6. w \in Visit /\ w.node = "block" /\ w.phase = "start"
  BY <1>3, NewTail
<1> HIDE DEF w
<1> QED
  BY <1>1, <1>5, <1>6, EnterStep

LEMMA IfBranchStep ==
    ASSUME IInv, NEW expr \in Exprs, IfBranch(expr)
    PROVE  IInv'
<1> DEFINE v == [top EXCEPT !.left = @ - 1]
<1>1. AtNode("if", "stmts") /\ top.left > 0 /\ errors' = errors \cup ExprErrors(expr) /\ IfBlock(v)
  BY DEF IfBranch, Check
<1>2. top \in Visit /\ top.node = "if" /\ top.phase = "stmts"
  BY <1>1, InBody DEF AtNode
<1>3. v \in Visit /\ v.node = "if" /\ v.phase = "stmts"
  <2>1. top.left - 1 \in Nat
    BY <1>1, <1>2 DEF Visit
  <2> QED
    BY <1>2, <2>1 DEF Visit
<1>4. errors' \subseteq Errors
  BY <1>1, BuilderTypes, ErrorTypes
<1> HIDE DEF v
<1> QED
  BY <1>1, <1>3, <1>4, IfBlockStep

LEMMA IfElseStep ==
    ASSUME IInv, IfElse
    PROVE  IInv'
<1> DEFINE v == [top EXCEPT !.else = FALSE]
<1>1. AtNode("if", "stmts") /\ UNCHANGED errors /\ IfBlock(v)
  BY DEF IfElse
<1>2. top \in Visit /\ top.node = "if" /\ top.phase = "stmts"
  BY <1>1, InBody DEF AtNode
<1>3. v \in Visit /\ v.node = "if" /\ v.phase = "stmts"
  BY <1>2 DEF Visit
<1>4. errors' \subseteq Errors
  BY <1>1, BuilderTypes
<1> HIDE DEF v
<1> QED
  BY <1>1, <1>3, <1>4, IfBlockStep

LEMMA IfBeginStep ==
    ASSUME IInv, NEW branches \in 1..MaxBranches, NEW else \in BOOLEAN,
           IfBegin(branches, else)
    PROVE  IInv'
<1>1. /\ pass = "expressions" /\ visits # <<>> /\ top.node = "if" /\ top.phase = "start"
      /\ Give(current_id) /\ current_id' = Push(current_id)
      /\ UNCHANGED <<unit, pass, item, ids, scopes, stmts>>
  BY DEF IfBegin, AtNode
<1> DEFINE f == ids[item].id
           v == [top EXCEPT !.phase = "stmts",
                            !.id = current_id,
                            !.source = IF HasSource THEN Last(lvalues) ELSE None,
                            !.left = branches,
                            !.else = else]
<1>2. /\ Len(visits) \in Nat /\ Len(visits) >= 2
      /\ visits \in Seq(Visit) /\ top \in Visit /\ Nested(visits)
      /\ current_id \in Id
      /\ f \in Id /\ Len(f) \in Nat /\ Len(f) >= 2
      /\ BodyId(current_id, f)
      /\ Len(current_id) >= Len(f) + Begun(visits)
  BY <1>1, InBody
<1>3. Begun(visits) = Len(visits) - 1
  BY <1>1 DEF Begun, top
<1>4. /\ current_id' \in Id /\ Len(current_id) \in Nat /\ Len(current_id) >= 2
      /\ Len(current_id') = Len(current_id) + 1
      /\ BodyId(current_id', f)
      /\ Precedes(current_id, current_id')
      /\ \A b \in Id : Precedes(b, current_id) => Precedes(b, current_id')
  BY <1>1, <1>2, PushProperties, PushInBody, PushAdvances, LenProperties DEF IInv, Id
<1>5. /\ scopes' \in Seq(Scope) /\ lvalues \in Seq(Id)
      /\ stmts' \in 0..MaxStmts /\ errors \subseteq Errors
  BY <1>1, BuilderTypes
<1>6. /\ v \in Visit /\ v.node = top.node /\ v.phase # "start"
  <2>1. (IF HasSource THEN Last(lvalues) ELSE None) \in Id
    BY <1>5, SourceTypes
  <2>2. "stmts" \in {"start", "stmts", "last"} /\ branches \in Nat
    OBVIOUS
  <2>3. v \in Visit
    BY <1>2, <2>1, <2>2, VisitChanges, Zenon
  <2> QED
    BY <1>2, <2>3 DEF Visit
<1> HIDE DEF v, f
<1>7. CASE HasSource /\ ~else
  <2>1. /\ visits' = Front(visits) /\ UNCHANGED lvalues
        /\ errors' = errors \cup {"NoElse"}
    BY <1>7 DEF IfBegin, Report
  <2>2. /\ visits' \in Seq(Visit) /\ visits' # <<>> /\ Nested(visits')
        /\ Len(visits') = Len(visits) - 1
        /\ Len(visits) >= 3 => Begun(visits') = Len(visits) - 1
    BY <1>2, <2>1, FrontNested
  <2>3. errors' \subseteq Errors /\ lvalues' \in Seq(Id)
    BY <1>5, <2>1 DEF Errors
  <2>4. Len(visits') >= 2 => Len(current_id') >= Len(f) + Begun(visits')
    BY <1>2, <1>3, <1>4, <2>2
  <2>5. Len(current_id') >= 2
    BY <1>4
  <2>6. StaysInBody
    BY <1>1, <1>2, <1>4, <1>5, <2>2, <2>3, <2>4, <2>5 DEF StaysInBody, f
  <2> QED
    BY <1>1, <1>2, <2>6, BodyStep
<1>8. CASE ~(HasSource /\ ~else)
  <2>1. /\ visits' = Under(v)
        /\ lvalues' = IF HasSource THEN PopSource ELSE lvalues
        /\ errors' = errors
    BY <1>8 DEF IfBegin, v
  <2>2. /\ visits' \in Seq(Visit) /\ visits' # <<>> /\ Nested(visits')
        /\ Len(visits') = Len(visits) /\ visits'[Len(visits)] = v
    BY <1>2, <1>6, <2>1, UnderNested
  <2>3. Begun(visits') = Len(visits)
    BY <1>6, <2>2 DEF Begun
  <2>4. errors' \subseteq Errors /\ lvalues' \in Seq(Id)
    BY <1>5, <2>1, SourceTypes
  <2>5. Len(current_id') >= Len(f) + Begun(visits')
    BY <1>2, <1>3, <1>4, <2>3
  <2>6. Len(current_id') >= 2
    BY <1>4
  <2>7. StaysInBody
    BY <1>1, <1>2, <1>4, <1>5, <2>2, <2>4, <2>5, <2>6 DEF StaysInBody, f
  <2> QED
    BY <1>1, <1>2, <2>7, BodyStep
<1> QED
  BY <1>7, <1>8

-----------------------------------------------------------------------------
(* The second visitor, between the bodies of functions. *)

(* The items and what is known of them. *)
LEMMA UnitTypes ==
    ASSUME unit \in Units
    PROVE  /\ unit \in Seq(Item) /\ Len(unit) \in Nat
           /\ DOMAIN unit = 1..Len(unit) /\ DOMAIN unit \subseteq Nat
           /\ \A i \in DOMAIN unit : /\ unit[i].name \in Idents
                                     /\ unit[i].params \in Seq(Idents)
                                     /\ unit[i].valued \in BOOLEAN
                                     /\ unit[i].kind = "Typedef" => unit[i].params = <<>>
<1>1. unit \in Seq(Item)
  BY UnitsAssumption
<1>2. Len(unit) \in Nat /\ DOMAIN unit = 1..Len(unit)
  BY <1>1, LenProperties
<1>3. \A i \in DOMAIN unit : unit[i] \in Item
  BY <1>1, <1>2, ElementOfSeq
<1> QED
  BY <1>1, <1>2, <1>3 DEF Item

(* A step that gives no id and leaves no function with a body that is not    *)
(* reached: it goes from an item to the next, or to the end.                 *)
BetweenBodies ==
    /\ UNCHANGED <<unit, ids, errors, stmts, given>>
    /\ pass = "expressions" /\ pass' \in {"expressions", "done"}
    /\ item \in Nat /\ item' \in Nat /\ item <= item'
    /\ visits # <<>> => item < item' \/ pass' = "done"
    /\ scopes' \in Seq(Scope) /\ lvalues' \in Seq(Id)
    /\ current_id' \in Id /\ Len(current_id') >= 2
    /\ visits' = <<>>

LEMMA BetweenStep ==
    ASSUME IInv, BetweenBodies
    PROVE  IInv'
<1> USE DEF BetweenBodies
<1>1. TypeOK' /\ TreeInv'
  <2>1. /\ unit \in Units /\ stmts \in 0..MaxStmts /\ errors \subseteq Errors
        /\ given \in Seq(Id)
        /\ ids \in [DOMAIN unit -> [id : Id, params : Seq(Id)]]
        /\ \A i \in DOMAIN unit : DOMAIN ids[i].params = DOMAIN unit[i].params
    BY DEF IInv, TypeOK, TreeInv, Id
  <2>2. <<>> \in Seq(Visit)
    OBVIOUS
  <2> QED
    BY <2>1, <2>2, TypesAfter
<1>2. ItemsInv' /\ IdsAreUnique'
  BY DEF IInv, ItemsInv, IdsAreUnique
<1>3. FirstPassInv' /\ SecondPassInv'
  BY DEF FirstPassInv, SecondPassInv
<1>4. ASSUME NEW i, Reached(i)
      PROVE  Reached(i)'
  <2>1. i \in Nat
    BY <1>4, UnitTypes DEF IInv, TypeOK, Reached
  <2> QED
    BY <1>4, <2>1 DEF Reached
<1>5. OwnersInv'
  BY <1>4 DEF IInv, OwnersInv
<1> QED
  BY <1>1, <1>2, <1>3, <1>5 DEF IInv

LEMMA FnEndStep ==
    ASSUME IInv, FnEnd
    PROVE  IInv'
<1>1. /\ pass = "expressions" /\ Len(visits) = 1
      /\ lvalues' = PopSource /\ scopes' = Front(scopes) /\ visits' = <<>>
      /\ item' = item + 1
      /\ UNCHANGED <<unit, pass, ids, current_id, errors, stmts, given>>
  BY DEF FnEnd
<1>2. lvalues' \in Seq(Id) /\ scopes' \in Seq(Scope) /\ current_id' \in Id
  BY <1>1, BuilderTypes, SourceTypes
<1>3. item \in Nat /\ item' \in Nat /\ item < item' /\ Len(current_id') >= 2
  BY <1>1 DEF IInv, TypeOK
<1>4. BetweenBodies
  BY <1>1, <1>2, <1>3 DEF BetweenBodies
<1> QED
  BY <1>4, BetweenStep

LEMMA SkipTypedefStep ==
    ASSUME IInv, SkipTypedef
    PROVE  IInv'
<1>1. /\ pass = "expressions" /\ visits = <<>> /\ item' = item + 1
      /\ UNCHANGED <<unit, pass, ids, scopes, current_id, lvalues, visits, errors, stmts, given>>
  BY DEF SkipTypedef, AtItem, builder
<1>2. lvalues' \in Seq(Id) /\ scopes' \in Seq(Scope) /\ current_id' \in Id
  BY <1>1, BuilderTypes
<1>3. item \in Nat /\ item' \in Nat /\ item < item' /\ Len(current_id') >= 2
  BY <1>1 DEF IInv, TypeOK
<1>4. BetweenBodies
  BY <1>1, <1>2, <1>3 DEF BetweenBodies
<1> QED
  BY <1>4, BetweenStep

LEMMA UnitEndStep ==
    ASSUME IInv, UnitEnd
    PROVE  IInv'
<1>1. /\ pass = "expressions" /\ pass' = "done" /\ visits = <<>>
      /\ scopes' = Front(scopes) /\ current_id' = Increment(current_id)
      /\ UNCHANGED <<unit, item, ids, lvalues, visits, errors, stmts, given>>
  BY DEF UnitEnd
<1>2. lvalues' \in Seq(Id) /\ scopes' \in Seq(Scope) /\ current_id \in Id
  BY <1>1, BuilderTypes
<1>3. Len(current_id) \in Nat /\ Len(current_id) >= 2 /\ item \in Nat
  BY <1>2, LenProperties DEF IInv, TypeOK, Id
<1>4. current_id' \in Id /\ Len(current_id') >= 2
  BY <1>1, <1>2, <1>3, IncrementProperties
<1>5. BetweenBodies
  BY <1>1, <1>2, <1>3, <1>4 DEF BetweenBodies
<1> QED
  BY <1>5, BetweenStep

(* The parameters of a function that have ids, and their scope. *)
LEMMA ParamTypes ==
    ASSUME IInv, NEW i \in DOMAIN unit
    PROVE  ParamScope(i, Named(i)) \in Scope
<1> DEFINE n == Named(i)
           named == {p \in DOMAIN ids[i].params : \A q \in 1..p : ids[i].params[q] # Default}
           D == {<<unit[i].params[p]>> : p \in 1..n}
<1>1. /\ unit[i].params \in Seq(Idents) /\ ids[i].params \in Seq(Id)
      /\ DOMAIN ids[i].params = DOMAIN unit[i].params
  BY UnitTypes DEF IInv, TypeOK, TreeInv
<1>2. /\ Len(ids[i].params) \in Nat
      /\ DOMAIN ids[i].params = 1..Len(ids[i].params)
      /\ Len(unit[i].params) = Len(ids[i].params)
  <2>1. /\ Len(ids[i].params) \in Nat /\ DOMAIN ids[i].params = 1..Len(ids[i].params)
        /\ Len(unit[i].params) \in Nat /\ DOMAIN unit[i].params = 1..Len(unit[i].params)
    BY <1>1, LenProperties
  <2>2. 1..Len(ids[i].params) = 1..Len(unit[i].params)
    BY <1>1, <2>1
  <2>3. ASSUME NEW a \in Nat, NEW b \in Nat, 1..a = 1..b
        PROVE  a = b
    <3>1. a >= 1 => a \in 1..b
      BY <2>3
    <3>2. b >= 1 => b \in 1..a
      BY <2>3
    <3> QED
      BY <3>1, <3>2
  <2> QED
    BY <2>1, <2>2, <2>3
<1>3. n \in Nat /\ n <= Len(ids[i].params)
  <2>1. named \subseteq 1..Len(ids[i].params)
    BY <1>2
  <2>2. /\ IsFiniteSet(1..Len(ids[i].params))
        /\ Cardinality(1..Len(ids[i].params)) = Len(ids[i].params)
    BY <1>2, FS_Interval
  <2>3. IsFiniteSet(named) /\ Cardinality(named) <= Len(ids[i].params)
    BY <2>1, <2>2, FS_Subset
  <2>4. Cardinality(named) \in Nat
    BY <2>3, FS_CardinalityType
  <2> QED
    BY <2>3, <2>4 DEF Named
<1> HIDE DEF n, named
<1>4. \A p \in 1..n : unit[i].params[p] \in Idents /\ ids[i].params[p] \in Id
  BY <1>1, <1>2, <1>3, ElementOfSeq
<1>5. D \in SUBSET Keys
  BY <1>4 DEF Keys
<1>6. ASSUME NEW key \in D
      PROVE  ids[i].params[CHOOSE p \in 1..n : <<unit[i].params[p]>> = key] \in Id
  <2>1. (CHOOSE p \in 1..n : <<unit[i].params[p]>> = key) \in 1..n
    BY <1>6
  <2> QED
    BY <1>4, <2>1
<1>7. ParamScope(i, n) \in [D -> Id]
  BY <1>6 DEF ParamScope
<1>8. ParamScope(i, n) \in Scope
  BY <1>5, <1>7 DEF Scope
<1> QED
  BY <1>8 DEF n

(* When the visitor comes to the body of a function, no id of this body has  *)
(* been given.                                                               *)
LEMMA BodyIsNew ==
    ASSUME IInv, pass = "expressions", visits = <<>>,
           item \in DOMAIN unit, ids[item].id # Default
    PROVE  \A k \in DOMAIN given : ~BodyId(given[k], ids[item].id)
<1> SUFFICES ASSUME NEW k \in DOMAIN given, BodyId(given[k], ids[item].id)
             PROVE  FALSE
  OBVIOUS
<1>1. given[k] \in Id
  BY ElementOfSeq, LenProperties DEF IInv, TypeOK, Id
<1>2. ASSUME NEW i \in DOMAIN unit, ids[i].id # Default
      PROVE  ids[i].id \in Id /\ ItemId(ids[i].id)
  BY <1>2 DEF IInv, TreeInv, ItemsInv
<1>3. ~ItemId(given[k])
  BY <1>1, <1>2, BodyIsNoItem
<1>4. PICK i \in DOMAIN unit : Reached(i) /\ BodyId(given[k], ids[i].id)
  BY <1>3 DEF IInv, OwnersInv, Reached
<1>5. ids[i].id # Default /\ i < item
  BY <1>4 DEF Reached
<1>6. ids[i].id = ids[item].id
  BY <1>1, <1>2, <1>4, <1>5, BodiesDiffer
<1>7. i = item
  BY <1>5, <1>6 DEF IInv, ItemsInv
<1> QED
  BY <1>5, <1>7 DEF IInv, TypeOK

LEMMA FnBeginStep ==
    ASSUME IInv, FnBegin
    PROVE  IInv'
<1>1. /\ pass = "expressions" /\ visits = <<>> /\ item \in DOMAIN unit
      /\ UNCHANGED <<unit, pass, ids, errors, stmts, given>>
  BY DEF FnBegin, AtItem
<1> DEFINE f == ids[item].id
<1>2. /\ item \in Nat /\ f \in Id /\ f = ids[item].id
      /\ scopes \in Seq(Scope) /\ lvalues \in Seq(Id) /\ errors \subseteq Errors
      /\ stmts \in 0..MaxStmts /\ current_id \in Id /\ Len(current_id) >= 2
  BY <1>1, BuilderTypes DEF IInv, TypeOK, TreeInv
<1>3. CASE f = Default
  <2>1. item' = item + 1 /\ UNCHANGED <<scopes, current_id, lvalues, visits>>
    BY <1>3 DEF FnBegin
  <2>2. BetweenBodies
    BY <1>1, <1>2, <2>1 DEF BetweenBodies
  <2> QED
    BY <2>2, BetweenStep
<1>4. CASE f # Default
  <2>1. ItemId(f) /\ Len(f) \in Nat /\ Len(f) >= 2
    BY <1>1, <1>2, <1>4, LenProperties DEF IInv, ItemsInv, ItemId, Id
  <2>2. scopes' = Append(scopes, ParamScope(item, Named(item))) /\ current_id' = Push(f)
    BY <1>4 DEF FnBegin
  <2>3. scopes' \in Seq(Scope)
    BY <1>1, <1>2, <2>2, ParamTypes, AppendProperties
  <2>4. /\ current_id' \in Id /\ Len(current_id') = Len(f) + 1
        /\ BodyId(current_id', f)
    <3>1. /\ Push(f) \in Id
          /\ Len(Push(f)) = Len(f) + 1
          /\ \A k \in 1..Len(f) : Push(f)[k] = f[k]
          /\ Push(f)[Len(f) + 1] = 0
      BY <1>2, PushProperties
    <3>2. Len(Push(f)) > Len(f)
      BY <2>1, <3>1
    <3> QED
      BY <2>2, <3>1, <3>2 DEF BodyId
  <2>5. Len(current_id') >= 2
    BY <2>1, <2>4
  <2>6. CASE Named(item) < Len(unit[item].params)
    <3>1. item' = item + 1 /\ UNCHANGED <<lvalues, visits>>
      BY <1>4, <2>6 DEF FnBegin
    <3>2. BetweenBodies
      BY <1>1, <1>2, <2>3, <2>4, <2>5, <3>1 DEF BetweenBodies
    <3> QED
      BY <3>2, BetweenStep
  <2>7. CASE ~(Named(item) < Len(unit[item].params))
    <3> DEFINE v == [NewVisit("fn") EXCEPT !.id = f, !.left = Len(lvalues)]
               w == [NewVisit("block") EXCEPT !.tail = unit[item].valued]
    <3>1. /\ lvalues' = IF unit[item].valued THEN Append(lvalues, f) ELSE lvalues
          /\ visits' = <<v, w>> /\ UNCHANGED item
      BY <1>4, <2>7 DEF FnBegin
    <3>2. v \in Visit /\ v.node = "fn"
      <4>1. NewVisit("fn") \in Visit /\ NewVisit("fn").node = "fn" /\ Len(lvalues) \in Nat
        BY <1>2, VisitTypes, LenProperties DEF NewVisit
      <4> QED
        BY <1>2, <4>1 DEF Visit, Id
    <3>3. w \in Visit /\ w.node = "block" /\ w.phase = "start"
      <4>1. unit[item].valued \in BOOLEAN
        BY <1>1, UnitTypes DEF IInv, TypeOK
      <4> QED
        BY <4>1, NewTail
    <3> HIDE DEF v, w
    <3>4. /\ visits' \in Seq(Visit) /\ visits' # <<>> /\ Len(visits') = 2
          /\ visits'[1] = v /\ visits'[2] = w
      BY <3>1, <3>2, <3>3
    <3>5. Nested(visits') /\ Begun(visits') = 1
      BY <3>2, <3>3, <3>4 DEF Nested, Begun
    <3>6. lvalues' \in Seq(Id)
      BY <1>2, <3>1, SourceTypes
    <3>7. TypeOK' /\ TreeInv'
      <4>1. /\ unit \in Units /\ given \in Seq(Id)
            /\ ids \in [DOMAIN unit -> [id : Id, params : Seq(Id)]]
            /\ \A i \in DOMAIN unit : DOMAIN ids[i].params = DOMAIN unit[i].params
        BY DEF IInv, TypeOK, TreeInv, Id
      <4> QED
        BY <1>1, <1>2, <2>3, <2>4, <3>1, <3>4, <3>6, <4>1, TypesAfter
    <3>8. ItemsInv' /\ IdsAreUnique' /\ FirstPassInv'
      BY <1>1 DEF IInv, ItemsInv, IdsAreUnique, FirstPassInv
    <3>9. ASSUME NEW i, Reached(i)
          PROVE  Reached(i)'
      BY <1>1, <3>1, <3>4, <3>9 DEF Reached
    <3>10. OwnersInv'
      BY <1>1, <3>9 DEF IInv, OwnersInv
    <3>11. Reached(item)'
      BY <1>1, <1>4, <3>1, <3>4 DEF Reached
    <3>12. Len(current_id') >= Len(f) + Begun(visits')
      BY <2>1, <2>4, <3>5
    <3>13. \A k \in DOMAIN given : ~BodyId(given[k], f)
      BY <1>1, <1>4, BodyIsNew
    <3>14. SecondPassInv'
      BY <1>1, <2>4, <3>1, <3>5, <3>11, <3>12, <3>13 DEF SecondPassInv
    <3> QED
      BY <2>5, <3>7, <3>8, <3>10, <3>14 DEF IInv
  <2> QED
    BY <2>6, <2>7
<1> QED
  BY <1>3, <1>4

-----------------------------------------------------------------------------
(* The first visitor. *)

(* A step of the first visitor: the current id only goes on, and is the only *)
(* one that may be given, to the item or to one of its parameters.           *)
VisitsItems ==
    /\ UNCHANGED <<unit, pass, lvalues, stmts>> /\ pass = "items"
    /\ item' \in Nat
    /\ scopes' \in Seq(Scope) /\ errors' \subseteq Errors
    /\ ids' \in [DOMAIN unit -> [id : Id, params : Seq(Id)]]
    /\ \A i \in DOMAIN unit : DOMAIN ids'[i].params = DOMAIN unit[i].params
    /\ \A i \in DOMAIN unit :
          \/ ids'[i].id = ids[i].id
          \/ Give(current_id) /\ i = item /\ ids'[i].id = current_id
    /\ current_id' \in Id /\ Len(current_id') >= 2 /\ ItemId(current_id')
    /\ \A b \in Id : Precedes(b, current_id) => Precedes(b, current_id')
    /\ UNCHANGED given \/ (Give(current_id) /\ Precedes(current_id, current_id'))
    /\ visits' \in Seq(Visit)
    /\ visits' # <<>> => item' \in DOMAIN unit /\ Len(visits') = 1 /\ Len(current_id') >= 3

LEMMA FirstStep ==
    ASSUME IInv, VisitsItems
    PROVE  IInv'
<1> USE DEF VisitsItems
<1>1. /\ given \in Seq(Id) /\ current_id \in Id /\ IsInjective(given) /\ ItemId(current_id)
      /\ \A k \in DOMAIN given : /\ given[k] \in Id /\ ItemId(given[k])
                                 /\ Precedes(given[k], current_id)
      /\ DOMAIN given \subseteq Nat /\ Len(given) \in Nat
  <2>1. /\ given \in Seq(Id) /\ current_id \in Id /\ IsInjective(given) /\ ItemId(current_id)
        /\ \A k \in DOMAIN given : ItemId(given[k]) /\ Precedes(given[k], current_id)
    BY DEF IInv, TypeOK, IdsAreUnique, FirstPassInv, Id
  <2> QED
    BY <2>1, ElementOfSeq, LenProperties
<1>2. \A k \in DOMAIN given : given[k] # current_id
  BY <1>1, PrecedesDiffers
<1>3. /\ given' \in Seq(Id)
      /\ IsInjective(given')
      /\ \A k \in DOMAIN given : k \in DOMAIN given' /\ given'[k] = given[k]
      /\ \A k \in DOMAIN given' :
            \/ k \in DOMAIN given /\ given'[k] = given[k]
            \/ Give(current_id) /\ given'[k] = current_id
      /\ Give(current_id) => \E k \in DOMAIN given' : given'[k] = current_id
  <2>1. CASE UNCHANGED given
    <3>1. ~Give(current_id)
      BY <1>1, <2>1, AppendProperties DEF Give
    <3> QED
      BY <1>1, <2>1, <3>1
  <2>2. CASE Give(current_id)
    BY <1>1, <1>2, <2>2, FreshKeepsInjective DEF Give
  <2> QED
    BY <2>1, <2>2
<1>4. TypeOK' /\ TreeInv'
  <2>1. unit \in Units /\ lvalues \in Seq(Id) /\ stmts \in 0..MaxStmts
    BY DEF IInv, TypeOK, Id
  <2> QED
    BY <1>3, <2>1, TypesAfter
<1>5. ASSUME NEW i \in DOMAIN unit, ids'[i].id # Default
      PROVE  /\ ItemId(ids'[i].id)
             /\ \E k \in DOMAIN given' : given'[k] = ids'[i].id
             /\ \A j \in DOMAIN unit : ids'[j].id = ids'[i].id => j = i
  <2>1. current_id # Default
    <3>1. Len(Default) = 1
      BY DEF Default
    <3>2. Len(current_id) \in Nat /\ Len(current_id) >= 2
      BY <1>1, LenProperties DEF ItemId, Id
    <3> HIDE DEF VisitsItems
    <3>3. Len(current_id) # 1
      BY <3>2
    <3> QED
      BY <3>1, <3>3, Zenon
  <2>2. \A j \in DOMAIN unit : ids[j].id # current_id
    BY <1>2, <2>1 DEF IInv, ItemsInv
  <2>3. CASE ids'[i].id = ids[i].id
    <3>1. /\ ItemId(ids[i].id)
          /\ \E k \in DOMAIN given : given[k] = ids[i].id
          /\ \A j \in DOMAIN unit : ids[j].id = ids[i].id => j = i
      BY <1>5, <2>3 DEF IInv, ItemsInv
    <3> QED
      BY <1>3, <2>2, <2>3, <3>1
  <2>4. CASE Give(current_id) /\ i = item /\ ids'[i].id = current_id
    BY <1>1, <1>3, <2>2, <2>4
  <2> QED
    BY <2>3, <2>4
<1>6. ItemsInv'
  BY <1>5 DEF ItemsInv
<1>7. ASSUME NEW k \in DOMAIN given'
      PROVE  ItemId(given'[k]) /\ Precedes(given'[k], current_id')
  <2>1. CASE k \in DOMAIN given /\ given'[k] = given[k]
    BY <1>1, <2>1
  <2>2. CASE Give(current_id) /\ given'[k] = current_id
    <3>1. ~UNCHANGED given
      BY <1>1, <2>2, AppendProperties DEF Give
    <3> QED
      BY <1>1, <2>2, <3>1
  <2> QED
    BY <1>3, <2>1, <2>2
<1>8. FirstPassInv' /\ OwnersInv' /\ SecondPassInv'
  BY <1>7 DEF FirstPassInv, OwnersInv, SecondPassInv
<1> QED
  BY <1>3, <1>4, <1>6, <1>8 DEF IInv, IdsAreUnique

(* The operations keep the current id an id that the first visitor may give. *)
LEMMA ItemIdGrows ==
    ASSUME NEW a \in Id, ItemId(a)
    PROVE  /\ Increment(a) \in Id /\ ItemId(Increment(a)) /\ Len(Increment(a)) = Len(a)
           /\ Increment(Push(a)) \in Id /\ ItemId(Increment(Push(a)))
           /\ Len(Increment(Push(a))) = Len(a) + 1
           /\ Len(a) >= 3 => /\ Increment(Pop(a)) \in Id /\ ItemId(Increment(Pop(a)))
                             /\ Len(Increment(Pop(a))) = Len(a) - 1
<1>1. Len(a) \in Nat /\ Len(a) >= 2 /\ \A k \in 1..Len(a) : a[k] \in Nat
  BY LenProperties, ElementOfSeq DEF Id, ItemId
<1>2. ASSUME NEW b \in Id, Len(b) \in Nat, Len(b) >= 2,
             \A k \in 3..(Len(b) - 1) : b[k] >= 1, \A k \in 1..Len(b) : b[k] \in Nat
      PROVE  Increment(b) \in Id /\ ItemId(Increment(b)) /\ Len(Increment(b)) = Len(b)
  <2> DEFINE c == Increment(b)
  <2>1. /\ c \in Id /\ Len(c) = Len(b)
        /\ \A k \in 1..(Len(b) - 1) : c[k] = b[k]
        /\ c[Len(b)] = b[Len(b)] + 1
    BY <1>2, IncrementProperties
  <2> HIDE DEF c
  <2>2. \A k \in 3..Len(c) : c[k] >= 1
    BY <1>2, <2>1
  <2>3. Len(c) >= 2
    BY <1>2, <2>1
  <2>4. c \in Id /\ ItemId(c) /\ Len(c) = Len(b)
    BY <2>1, <2>2, <2>3 DEF ItemId
  <2> QED
    BY <2>4 DEF c
<1>3. Increment(a) \in Id /\ ItemId(Increment(a)) /\ Len(Increment(a)) = Len(a)
  BY <1>1, <1>2 DEF ItemId
<1>4. /\ Increment(Push(a)) \in Id /\ ItemId(Increment(Push(a)))
      /\ Len(Increment(Push(a))) = Len(a) + 1
  <2> DEFINE b == Push(a)
  <2>1. /\ b \in Id /\ Len(b) = Len(a) + 1
        /\ \A k \in 1..Len(a) : b[k] = a[k]
        /\ b[Len(a) + 1] = 0
    BY PushProperties
  <2> HIDE DEF b
  <2>2. /\ Len(b) \in Nat /\ Len(b) >= 2
        /\ \A k \in 3..(Len(b) - 1) : b[k] >= 1
        /\ \A k \in 1..Len(b) : b[k] \in Nat
    BY <1>1, <2>1 DEF ItemId
  <2>3. Increment(b) \in Id /\ ItemId(Increment(b)) /\ Len(Increment(b)) = Len(b)
    BY <1>2, <2>1, <2>2
  <2> QED
    BY <2>1, <2>3 DEF b
<1>5. ASSUME Len(a) >= 3
      PROVE  /\ Increment(Pop(a)) \in Id /\ ItemId(Increment(Pop(a)))
             /\ Len(Increment(Pop(a))) = Len(a) - 1
  <2> DEFINE b == Pop(a)
  <2>1. /\ b \in Id /\ Len(b) = Len(a) - 1
        /\ \A k \in 1..(Len(a) - 1) : b[k] = a[k]
    BY <1>1, <1>5, PopProperties
  <2> HIDE DEF b
  <2>2. /\ Len(b) \in Nat /\ Len(b) >= 2
        /\ \A k \in 3..(Len(b) - 1) : b[k] >= 1
        /\ \A k \in 1..Len(b) : b[k] \in Nat
    BY <1>1, <1>5, <2>1 DEF ItemId
  <2>3. Increment(b) \in Id /\ ItemId(Increment(b)) /\ Len(Increment(b)) = Len(b)
    BY <1>2, <2>1, <2>2
  <2> QED
    BY <2>1, <2>3 DEF b
<1> QED
  BY <1>3, <1>4, <1>5

(* What the first visitor finds before a step. *)
LEMMA ItemTypes ==
    ASSUME IInv, pass = "items"
    PROVE  /\ item \in Nat /\ item + 1 \in Nat
           /\ ids \in [DOMAIN unit -> [id : Id, params : Seq(Id)]]
           /\ \A i \in DOMAIN unit : DOMAIN ids[i].params = DOMAIN unit[i].params
           /\ scopes \in Seq(Scope) /\ Front(scopes) \in Seq(Scope) /\ errors \subseteq Errors
           /\ current_id \in Id /\ ItemId(current_id)
           /\ Len(current_id) \in Nat /\ Len(current_id) >= 2
           /\ visits \in Seq(Visit)
           /\ visits # <<>> => item \in DOMAIN unit /\ Len(visits) = 1 /\ Len(current_id) >= 3
BY BuilderTypes, LenProperties DEF IInv, TypeOK, TreeInv, FirstPassInv, Id

(* An item that the first visitor does not name. *)
LEMMA UnnamedStep ==
    ASSUME IInv, pass = "items", UNCHANGED <<unit, pass, lvalues, stmts, ids, scopes, current_id, given>>,
           item' = item + 1, errors' \subseteq Errors, visits' = <<>>
    PROVE  IInv'
<1>1. <<>> \in Seq(Visit)
  OBVIOUS
<1>2. VisitsItems
  BY <1>1, ItemTypes DEF VisitsItems
<1> QED
  BY <1>2, FirstStep

LEMMA ItemFnStep ==
    ASSUME IInv, ItemFn
    PROVE  IInv'
<1> DEFINE name == unit[item].name
<1>1. /\ pass = "items" /\ visits = <<>> /\ item \in DOMAIN unit
      /\ UNCHANGED <<unit, pass, lvalues, stmts>>
  BY DEF ItemFn, AtItem
<1>2. CASE Get(<<name>>) # None
  <2>1. /\ errors' = errors \cup {"FnDeclared"} /\ item' = item + 1
        /\ UNCHANGED <<ids, scopes, current_id, visits, given>>
    BY <1>2 DEF ItemFn, Report
  <2>2. errors' \subseteq Errors
    BY <1>1, <2>1, ItemTypes DEF Errors
  <2> QED
    BY <1>1, <2>1, <2>2, UnnamedStep
<1>3. CASE Get(<<name>>) = None
  <2>1. /\ scopes' = Append(Define(scopes, Len(scopes), <<name>>, current_id), <<>>)
        /\ ids' = [ids EXCEPT ![item].id = current_id]
        /\ Give(current_id)
        /\ current_id' = Increment(Push(current_id))
        /\ visits' = <<NewVisit("params")>>
        /\ UNCHANGED <<item, errors>>
    BY <1>3 DEF ItemFn, DefineLocal
  <2>2. scopes' \in Seq(Scope)
    <3>1. <<name>> \in Keys
      BY <1>1, UnitTypes DEF Keys, IInv, TypeOK
    <3> HIDE DEF name
    <3>2. Define(scopes, Len(scopes), <<name>>, current_id) \in Seq(Scope)
      BY <1>1, <3>1, ItemTypes, DefineProperties, LenProperties
    <3> QED
      BY <2>1, <3>2, NewScopeTypes
  <2>3. /\ ids' \in [DOMAIN unit -> [id : Id, params : Seq(Id)]]
        /\ \A i \in DOMAIN unit : DOMAIN ids'[i].params = DOMAIN unit[i].params
        /\ \A i \in DOMAIN unit : \/ ids'[i].id = ids[i].id
                                  \/ i = item /\ ids'[i].id = current_id
    BY <1>1, <2>1, ItemTypes
  <2>4. /\ current_id' \in Id /\ ItemId(current_id') /\ Len(current_id') = Len(current_id) + 1
    BY <1>1, <2>1, ItemTypes, ItemIdGrows
  <2>5. /\ \A b \in Id : Precedes(b, current_id) => Precedes(b, current_id')
        /\ Precedes(current_id, current_id')
    <3>1. Push(current_id) \in Id /\ Len(Push(current_id)) >= 1
      BY <1>1, ItemTypes, PushProperties
    <3> QED
      BY <1>1, <2>1, <3>1, ItemTypes, PushAdvances, IncrementAdvances
  <2>6. visits' \in Seq(Visit) /\ Len(visits') = 1
    BY <2>1, VisitTypes
  <2>7. item' \in Nat /\ errors' \subseteq Errors /\ item' \in DOMAIN unit
        /\ Len(current_id') >= 2 /\ Len(current_id') >= 3
    BY <1>1, <2>1, <2>4, ItemTypes
  <2>8. VisitsItems
    BY <1>1, <2>1, <2>2, <2>3, <2>4, <2>5, <2>6, <2>7 DEF VisitsItems
  <2> QED
    BY <2>8, FirstStep
<1> QED
  BY <1>2, <1>3

LEMMA ItemParamStep ==
    ASSUME IInv, ItemParam
    PROVE  IInv'
<1> DEFINE fn == unit[item].name
           p == top.left + 1
           name == unit[item].params[p]
<1>1. /\ pass = "items" /\ visits # <<>> /\ top.left < Len(unit[item].params)
      /\ UNCHANGED <<unit, pass, lvalues, stmts>>
  BY DEF ItemParam, ParamLeft
<1>2. /\ item \in DOMAIN unit /\ item \in Nat /\ Len(visits) = 1
      /\ visits \in Seq(Visit) /\ Len(current_id) >= 3
      /\ current_id \in Id /\ Len(current_id) \in Nat /\ Len(current_id) >= 2
  BY <1>1, ItemTypes
<1>3. top \in Visit
  <2>1. Len(visits) \in 1..Len(visits)
    BY <1>2
  <2> QED
    BY <1>2, <2>1, ElementOfSeq DEF top
<1>4. /\ unit[item].params \in Seq(Idents) /\ fn \in Idents
      /\ Len(unit[item].params) \in Nat
      /\ DOMAIN unit[item].params = 1..Len(unit[item].params)
  BY <1>2, UnitTypes, LenProperties DEF IInv, TypeOK
<1>5. p \in 1..Len(unit[item].params) /\ name \in Idents
  <2>1. top.left \in Nat
    BY <1>3 DEF Visit
  <2>2. p \in 1..Len(unit[item].params)
    BY <1>1, <1>4, <2>1
  <2> QED
    BY <1>4, <2>2, ElementOfSeq
<1>6. CASE Get(<<name>>) # None
  <2>1. /\ errors' = errors \cup {"ParamDeclared"} /\ item' = item + 1 /\ visits' = <<>>
        /\ UNCHANGED <<ids, scopes, current_id, given>>
    BY <1>6 DEF ItemParam, Report
  <2>2. errors' \subseteq Errors
    BY <1>1, <2>1, ItemTypes DEF Errors
  <2> QED
    BY <1>1, <2>1, <2>2, UnnamedStep
<1>7. CASE Get(<<name>>) = None
  <2> DEFINE v == [top EXCEPT !.left = p]
  <2>1. /\ scopes' = Define(Define(scopes, Len(scopes), <<name>>, current_id),
                            1, <<fn, name>>, current_id)
        /\ ids' = [ids EXCEPT ![item].params[p] = current_id]
        /\ Give(current_id)
        /\ current_id' = Increment(current_id)
        /\ visits' = Under(v)
        /\ UNCHANGED <<item, errors>>
    BY <1>7 DEF ItemParam, DefineLocal, DefineGlobal
  <2>2. scopes' \in Seq(Scope)
    <3>1. <<name>> \in Keys /\ <<fn, name>> \in Keys
      BY <1>4, <1>5 DEF Keys
    <3> HIDE DEF name, fn, v
    <3>2. Define(scopes, Len(scopes), <<name>>, current_id) \in Seq(Scope)
      BY <1>1, <3>1, ItemTypes, DefineProperties, LenProperties
    <3> QED
      BY <1>2, <2>1, <3>1, <3>2, DefineProperties
  <2>3. /\ ids' \in [DOMAIN unit -> [id : Id, params : Seq(Id)]]
        /\ \A i \in DOMAIN unit : DOMAIN ids'[i].params = DOMAIN unit[i].params
        /\ \A i \in DOMAIN unit : ids'[i].id = ids[i].id
    <3> DEFINE ps == [ids[item].params EXCEPT ![p] = current_id]
    <3>1. /\ ids \in [DOMAIN unit -> [id : Id, params : Seq(Id)]]
          /\ \A i \in DOMAIN unit : DOMAIN ids[i].params = DOMAIN unit[i].params
      BY <1>1, ItemTypes
    <3>2. ids[item].params \in Seq(Id) /\ DOMAIN ids[item].params = DOMAIN unit[item].params
      BY <1>2, <3>1
    <3>3. p \in 1..Len(ids[item].params)
      BY <1>4, <1>5, <3>2, LenProperties
    <3>4. ps \in Seq(Id) /\ DOMAIN ps = DOMAIN unit[item].params
      BY <1>2, <3>2, <3>3, ExceptSeq
    <3>5. ids' = [ids EXCEPT ![item] = [@ EXCEPT !.params = ps]]
      BY <2>1
    <3> HIDE DEF ps, p
    <3> QED
      BY <1>2, <3>1, <3>4, <3>5
  <2>4. current_id' \in Id /\ ItemId(current_id') /\ Len(current_id') = Len(current_id)
    BY <1>1, <2>1, ItemTypes, ItemIdGrows
  <2>5. /\ \A b \in Id : Precedes(b, current_id) => Precedes(b, current_id')
        /\ Precedes(current_id, current_id')
    <3>1. Len(current_id) >= 1
      BY <1>2
    <3> QED
      BY <1>2, <2>1, <3>1, IncrementAdvances
  <2>6. visits' \in Seq(Visit) /\ Len(visits') = 1
    <3>1. p \in Nat
      BY <1>4, <1>5
    <3> HIDE DEF p
    <3>2. v \in Visit
      BY <1>3, <3>1 DEF Visit
    <3> HIDE DEF v
    <3>3. Under(v) \in Seq(Visit) /\ Len(Under(v)) = Len(visits)
      BY <1>2, <3>2, UnderTypes
    <3> QED
      BY <1>2, <2>1, <3>3
  <2>7. item' \in Nat /\ errors' \subseteq Errors /\ item' \in DOMAIN unit
        /\ Len(current_id') >= 2 /\ Len(current_id') >= 3
    BY <1>1, <1>2, <2>1, <2>4, ItemTypes
  <2>8. VisitsItems
    BY <1>1, <2>1, <2>2, <2>3, <2>4, <2>5, <2>6, <2>7 DEF VisitsItems
  <2> QED
    BY <2>8, FirstStep
<1> QED
  BY <1>6, <1>7

LEMMA ItemFnEndStep ==
    ASSUME IInv, ItemFnEnd
    PROVE  IInv'
<1>1. /\ pass = "items" /\ visits # <<>>
      /\ scopes' = Front(scopes)
      /\ current_id' = Increment(Pop(current_id))
      /\ visits' = <<>> /\ item' = item + 1
      /\ UNCHANGED <<unit, pass, ids, lvalues, errors, stmts, given>>
  BY DEF ItemFnEnd
<1>2. /\ current_id' \in Id /\ ItemId(current_id')
      /\ \A b \in Id : Precedes(b, current_id) => Precedes(b, current_id')
  BY <1>1, ItemTypes, ItemIdGrows, LeaveAdvances
<1>3. Len(current_id') >= 2 /\ <<>> \in Seq(Visit)
  BY <1>2 DEF ItemId
<1>4. VisitsItems
  BY <1>1, <1>2, <1>3, ItemTypes DEF VisitsItems
<1> QED
  BY <1>4, FirstStep

LEMMA ItemTypedefStep ==
    ASSUME IInv, ItemTypedef
    PROVE  IInv'
<1> DEFINE name == unit[item].name
<1>1. /\ pass = "items" /\ visits = <<>> /\ item \in DOMAIN unit /\ item' = item + 1
      /\ UNCHANGED <<unit, pass, lvalues, stmts, visits>>
  BY DEF ItemTypedef, AtItem
<1>2. CASE Get(<<name>>) # None
  <2>1. /\ errors' = errors \cup {"TypedefDeclared"}
        /\ UNCHANGED <<ids, scopes, current_id, given>>
    BY <1>2 DEF ItemTypedef, Report
  <2>2. errors' \subseteq Errors
    BY <1>1, <2>1, ItemTypes DEF Errors
  <2> QED
    BY <1>1, <2>1, <2>2, UnnamedStep
<1>3. CASE Get(<<name>>) = None
  <2>1. /\ ids' = [ids EXCEPT ![item].id = current_id]
        /\ scopes' = Define(scopes, 1, <<name>>, current_id)
        /\ Give(current_id)
        /\ current_id' = Increment(current_id)
        /\ UNCHANGED errors
    BY <1>3 DEF ItemTypedef, DefineGlobal
  <2>2. scopes' \in Seq(Scope)
    <3>1. <<name>> \in Keys
      BY <1>1, UnitTypes DEF Keys, IInv, TypeOK
    <3> HIDE DEF name
    <3> QED
      BY <1>1, <2>1, <3>1, ItemTypes, DefineProperties
  <2>3. /\ ids' \in [DOMAIN unit -> [id : Id, params : Seq(Id)]]
        /\ \A i \in DOMAIN unit : DOMAIN ids'[i].params = DOMAIN unit[i].params
        /\ \A i \in DOMAIN unit : \/ ids'[i].id = ids[i].id
                                  \/ i = item /\ ids'[i].id = current_id
    BY <1>1, <2>1, ItemTypes
  <2>4. current_id' \in Id /\ ItemId(current_id') /\ Len(current_id') = Len(current_id)
    BY <1>1, <2>1, ItemTypes, ItemIdGrows
  <2>5. /\ \A b \in Id : Precedes(b, current_id) => Precedes(b, current_id')
        /\ Precedes(current_id, current_id')
    <3>1. Len(current_id) >= 1
      BY <1>1, ItemTypes
    <3> QED
      BY <1>1, <2>1, <3>1, ItemTypes, IncrementAdvances
  <2>6. item' \in Nat /\ errors' \subseteq Errors /\ Len(current_id') >= 2 /\ <<>> \in Seq(Visit)
    BY <1>1, <2>1, <2>4, ItemTypes
  <2>7. VisitsItems
    BY <1>1, <2>1, <2>2, <2>3, <2>4, <2>5, <2>6 DEF VisitsItems
  <2> QED
    BY <2>7, FirstStep
<1> QED
  BY <1>2, <1>3

(* The second visitor begins with the ids of the first one. *)
LEMMA NextPassStep ==
    ASSUME IInv, NextPass
    PROVE  IInv'
<1>1. /\ pass = "items" /\ item = Len(unit) + 1 /\ pass' = "expressions" /\ item' = 1
      /\ scopes' = Append(scopes, <<>>) /\ current_id' = FirstId
      /\ UNCHANGED <<unit, ids, lvalues, visits, errors, stmts, given>>
  BY DEF NextPass, NewScope
<1>2. visits = <<>>
  <2>1. item \notin DOMAIN unit
    BY <1>1, UnitTypes DEF IInv, TypeOK
  <2> QED
    BY <1>1, <2>1, ItemTypes
<1>3. current_id' \in Id /\ Len(current_id') >= 2
  BY <1>1 DEF FirstId, Id
<1>4. scopes' \in Seq(Scope)
  BY <1>1, ItemTypes, NewScopeTypes
<1>5. TypeOK' /\ TreeInv'
  <2>1. /\ unit \in Units /\ given \in Seq(Id) /\ lvalues \in Seq(Id) /\ visits \in Seq(Visit)
        /\ errors \subseteq Errors /\ stmts \in 0..MaxStmts
        /\ ids \in [DOMAIN unit -> [id : Id, params : Seq(Id)]]
        /\ \A i \in DOMAIN unit : DOMAIN ids[i].params = DOMAIN unit[i].params
    BY DEF IInv, TypeOK, TreeInv, Id
  <2> QED
    BY <1>1, <1>3, <1>4, <2>1, TypesAfter
<1>6. ItemsInv' /\ IdsAreUnique'
  BY <1>1 DEF IInv, ItemsInv, IdsAreUnique
<1>7. FirstPassInv' /\ SecondPassInv'
  BY <1>1, <1>2 DEF FirstPassInv, SecondPassInv
<1>8. OwnersInv'
  BY <1>1 DEF IInv, FirstPassInv, OwnersInv
<1> QED
  BY <1>3, <1>5, <1>6, <1>7, <1>8 DEF IInv

-----------------------------------------------------------------------------
(* The invariant holds at the start, and every step keeps it. *)

LEMMA InitInv == Init => IInv
<1> SUFFICES ASSUME Init PROVE IInv
  OBVIOUS
<1> USE DEF Init
<1>1. Default \in Id /\ FirstId \in Id /\ Len(FirstId) = 2
  BY DEF Default, FirstId, Id
<1>2. /\ unit \in Seq(Item)
      /\ \A i \in DOMAIN unit : unit[i].params \in Seq(Idents)
  BY UnitTypes
<1>3. ASSUME NEW i \in DOMAIN unit
      PROVE  /\ [p \in DOMAIN unit[i].params |-> Default] \in Seq(Id)
             /\ DOMAIN [p \in DOMAIN unit[i].params |-> Default] = DOMAIN unit[i].params
  <2>1. /\ Len(unit[i].params) \in Nat
        /\ DOMAIN unit[i].params = 1..Len(unit[i].params)
    BY <1>2, LenProperties
  <2> QED
    BY <1>1, <2>1, IsASeq
<1>4. /\ ids \in [DOMAIN unit -> [id : Id, params : Seq(Id)]]
      /\ \A i \in DOMAIN unit : DOMAIN ids[i].params = DOMAIN unit[i].params
      /\ \A i \in DOMAIN unit : ids[i].id = Default
  BY <1>1, <1>3
<1>5. scopes \in Seq(Scope)
  <2>1. <<>> \in [{} -> Id]
    OBVIOUS
  <2>2. <<>> \in Scope
    BY <2>1 DEF Scope
  <2> QED
    BY <2>2
<1>6. TypeOK /\ TreeInv
  <2>1. TreeInv
    BY <1>4, <1>5 DEF TreeInv
  <2>2. /\ DOMAIN ids = DOMAIN unit
        /\ \A i \in DOMAIN ids : ids[i].id \in Id /\ ids[i].params \in Seq(Id)
    BY <1>4
  <2>3. \A i \in DOMAIN scopes : /\ DOMAIN scopes[i] \subseteq Keys
                                /\ \A k \in DOMAIN scopes[i] : scopes[i][k] \in Seq(Nat)
    BY <1>5, ScopeTypes
  <2>4. /\ pass \in {"items", "expressions", "done"} /\ item \in Nat
        /\ current_id \in Id /\ lvalues \in Seq(Id) /\ visits \in Seq(Visit)
        /\ errors \subseteq Errors /\ stmts \in 0..MaxStmts /\ given \in Seq(Id)
    BY <1>1, BoundsAssumption
  <2>5. TypeOK
    BY <2>2, <2>3, <2>4 DEF TypeOK, Id
  <2> QED
    BY <2>1, <2>5
<1>7. IdsAreUnique
  BY DEF IdsAreUnique, IsInjective
<1>8. ItemsInv /\ OwnersInv /\ SecondPassInv
  BY <1>4 DEF ItemsInv, OwnersInv, SecondPassInv
<1>9. FirstPassInv
  BY <1>1 DEF FirstPassInv, ItemId
<1>10. Len(current_id) >= 2
  BY <1>1
<1> QED
  BY <1>6, <1>7, <1>8, <1>9, <1>10 DEF IInv

LEMMA StutterStep ==
    ASSUME IInv, UNCHANGED vars
    PROVE  IInv'
BY DEF vars, builder, IInv, TypeOK, IdsAreUnique, TreeInv, ItemsInv, FirstPassInv, OwnersInv,
       SecondPassInv, Reached

LEMMA NextInv == IInv /\ [Next]_vars => IInv'
<1> SUFFICES ASSUME IInv, [Next]_vars PROVE IInv'
  OBVIOUS
<1>1. CASE ItemFn
  BY <1>1, ItemFnStep
<1>2. CASE ItemParam
  BY <1>2, ItemParamStep
<1>3. CASE ItemFnEnd
  BY <1>3, ItemFnEndStep
<1>4. CASE ItemTypedef
  BY <1>4, ItemTypedefStep
<1>5. CASE NextPass
  BY <1>5, NextPassStep
<1>6. CASE FnBegin
  BY <1>6, FnBeginStep
<1>7. CASE FnEnd
  BY <1>7, FnEndStep
<1>8. CASE SkipTypedef
  BY <1>8, SkipTypedefStep
<1>9. CASE UnitEnd
  BY <1>9, UnitEndStep
<1>10. CASE \E empty \in BOOLEAN : BlockBegin(empty)
  BY <1>10, BlockBeginStep
<1>11. CASE BlockEnd
  BY <1>11, BlockEndStep
<1>12. CASE \E last \in BOOLEAN, expr \in Exprs : Evaluate(last, expr)
  BY <1>12, EvaluateStep
<1>13. CASE \E last \in BOOLEAN, name \in Idents, expr \in Exprs : Declare(last, name, expr)
  BY <1>13, DeclareStep
<1>14. CASE \E last \in BOOLEAN, node \in {"block", "if"} : Nest(last, node)
  BY <1>14, NestStep
<1>15. CASE \E branches \in 1..MaxBranches, else \in BOOLEAN : IfBegin(branches, else)
  BY <1>15, IfBeginStep
<1>16. CASE \E expr \in Exprs : IfBranch(expr)
  BY <1>16, IfBranchStep
<1>17. CASE IfElse
  BY <1>17, IfElseStep
<1>18. CASE IfEnd
  BY <1>18, IfEndStep
<1>19. CASE Done \/ UNCHANGED vars
  BY <1>19, StutterStep DEF Done
<1> QED
  BY <1>1, <1>2, <1>3, <1>4, <1>5, <1>6, <1>7, <1>8, <1>9, <1>10, <1>11, <1>12, <1>13,
     <1>14, <1>15, <1>16, <1>17, <1>18, <1>19, Zenon DEF Next

(* The visitors stay within their types: no id, scope, source or visit is    *)
(* ever anything else, whatever errors were reported before.                 *)
THEOREM TypeCorrect == Spec => []TypeOK
<1>1. IInv => TypeOK
  BY DEF IInv
<1> QED
  BY <1>1, InitInv, NextInv, PTL DEF Spec

(* No two nodes of a unit get the same id, in both passes and after every    *)
(* error, although a visitor that leaves a node early does not pop what it   *)
(* pushed.                                                                   *)
THEOREM NodesHaveOwnIds == Spec => []IdsAreUnique
<1>1. IInv => IdsAreUnique
  BY DEF IInv
<1> QED
  BY <1>1, InitInv, NextInv, PTL DEF Spec

-----------------------------------------------------------------------------
(* The first visitor names everything, or reports an error. *)

(* The item i and its first n parameters have ids. *)
HasIds(i, n) ==
    /\ ids[i].id # Default
    /\ \A p \in DOMAIN ids[i].params : p <= n => ids[i].params[p] # Default

(* Without an error the items that the first visitor has left have their     *)
(* ids, and so have the parameters that it has come to.                      *)
NamedInv ==
    errors = {} =>
        /\ \A i \in DOMAIN unit : pass # "items" \/ i < item
                                    => HasIds(i, Len(unit[i].params))
        /\ pass = "items" /\ visits # <<>> => HasIds(item, top.left)

(* The steps that name nothing: of the second visitor, or with an error.     *)
LEMMA NamesNothing ==
    ASSUME NamedInv,
           \/ errors' # {}
           \/ /\ errors \subseteq errors' /\ pass # "items" /\ pass' # "items"
              /\ UNCHANGED <<unit, ids>>
    PROVE  NamedInv'
BY DEF NamedInv, HasIds

LEMMA CurrentIdIsNoDefault ==
    ASSUME NEW a \in Id, ItemId(a)
    PROVE  a # Default
<1>1. Len(Default) = 1
  BY DEF Default
<1>2. Len(a) # 1
  BY LenProperties DEF ItemId, Id
<1> QED
  BY <1>1, <1>2, Zenon

LEMMA ItemFnNames ==
    ASSUME IInv, NamedInv, ItemFn
    PROVE  NamedInv'
<1> DEFINE name == unit[item].name
<1>1. /\ pass = "items" /\ visits = <<>> /\ item \in DOMAIN unit
      /\ UNCHANGED <<unit, pass>>
  BY DEF ItemFn, AtItem
<1>2. CASE Get(<<name>>) # None
  BY <1>2, NamesNothing DEF ItemFn, Report
<1>3. CASE Get(<<name>>) = None
  <2>1. /\ ids' = [ids EXCEPT ![item].id = current_id]
        /\ visits' = <<NewVisit("params")>>
        /\ UNCHANGED <<item, errors>>
    BY <1>3 DEF ItemFn
  <2>2. ids \in [DOMAIN unit -> [id : Id, params : Seq(Id)]] /\ current_id # Default
    BY <1>1, ItemTypes, CurrentIdIsNoDefault
  <2>3. top'.left = 0
    BY <2>1 DEF top, NewVisit
  <2>4. DOMAIN ids[item].params \subseteq 1..Len(ids[item].params) /\ Len(ids[item].params) \in Nat
    BY <1>1, <2>2, LenProperties
  <2>5. HasIds(item, top.left)'
    BY <1>1, <2>1, <2>2, <2>3, <2>4 DEF HasIds
  <2>6. \A i \in DOMAIN unit : i # item => ids'[i] = ids[i]
    BY <2>1, <2>2
  <2>7. item \in Nat
    BY <1>1, ItemTypes
  <2> QED
    BY <1>1, <2>1, <2>5, <2>6, <2>7 DEF NamedInv, HasIds
<1> QED
  BY <1>2, <1>3

LEMMA ItemParamNames ==
    ASSUME IInv, NamedInv, ItemParam
    PROVE  NamedInv'
<1> DEFINE p == top.left + 1
           name == unit[item].params[p]
           v == [top EXCEPT !.left = p]
<1>1. pass = "items" /\ visits # <<>> /\ UNCHANGED <<unit, pass>>
  BY DEF ItemParam
<1>2. CASE Get(<<name>>) # None
  BY <1>2, NamesNothing DEF ItemParam, Report
<1>3. CASE Get(<<name>>) = None
  <2>1. /\ ids' = [ids EXCEPT ![item].params[p] = current_id]
        /\ visits' = Under(v)
        /\ UNCHANGED <<item, errors>>
    BY <1>3 DEF ItemParam
  <2>2. /\ item \in DOMAIN unit /\ item \in Nat /\ Len(visits) = 1 /\ visits \in Seq(Visit)
        /\ ids \in [DOMAIN unit -> [id : Id, params : Seq(Id)]] /\ current_id # Default
    BY <1>1, ItemTypes, CurrentIdIsNoDefault
  <2>3. top.left \in Nat /\ v.left = p /\ v \in Visit
    <3>1. Len(visits) \in 1..Len(visits)
      BY <2>2
    <3>2. top \in Visit
      BY <2>2, <3>1, ElementOfSeq DEF top
    <3>3. top.left \in Nat /\ p \in Nat
      BY <3>2 DEF Visit
    <3> HIDE DEF p
    <3>4. v.left = p /\ v \in Visit
      BY <3>2, <3>3 DEF Visit
    <3> QED
      BY <3>3, <3>4
  <2> HIDE DEF v
  <2>4. top'.left = p
    <3>1. Len(visits') = Len(visits)
      BY <2>1, <2>2, <2>3, UnderTypes
    <3>2. visits'[Len(visits)] = v
      <4>1. Len(visits) \in DOMAIN visits
        BY <2>2, LenProperties
      <4> QED
        BY <2>1, <4>1 DEF Under
    <3> QED
      BY <2>3, <3>1, <3>2 DEF top
  <2>5. /\ ids'[item].id = ids[item].id
        /\ ids'[item].params = [ids[item].params EXCEPT ![p] = current_id]
        /\ \A i \in DOMAIN unit : i # item => ids'[i] = ids[i]
    BY <2>1, <2>2
  <2>6. DOMAIN ids[item].params \subseteq Nat
    BY <2>2, LenProperties
  <2> HIDE DEF p
  <2>7. p = top.left + 1
    BY DEF p
  <2>8. ASSUME HasIds(item, top.left)
        PROVE  HasIds(item, top.left)'
    BY <2>1, <2>2, <2>3, <2>4, <2>5, <2>6, <2>7, <2>8 DEF HasIds
  <2>9. \A i \in DOMAIN unit : i < item => i # item
    BY <2>2
  <2>10. ASSUME errors = {}
         PROVE  HasIds(item, top.left)' /\ \A i \in DOMAIN unit : i < item => HasIds(i, Len(unit[i].params))'
    BY <1>1, <2>1, <2>5, <2>8, <2>9, <2>10 DEF NamedInv, HasIds
  <2> QED
    BY <1>1, <2>1, <2>10 DEF NamedInv
<1> QED
  BY <1>2, <1>3

LEMMA ItemFnEndNames ==
    ASSUME IInv, NamedInv, ItemFnEnd
    PROVE  NamedInv'
<1>1. /\ pass = "items" /\ visits # <<>> /\ ~(top.left < Len(unit[item].params))
      /\ visits' = <<>> /\ item' = item + 1
      /\ UNCHANGED <<unit, pass, ids, errors>>
  BY DEF ItemFnEnd, ParamLeft
<1>2. /\ item \in DOMAIN unit /\ item \in Nat /\ Len(visits) = 1 /\ visits \in Seq(Visit)
      /\ ids[item].params \in Seq(Id) /\ unit[item].params \in Seq(Idents)
      /\ DOMAIN unit \subseteq Nat
  BY <1>1, ItemTypes, UnitTypes DEF IInv, TypeOK
<1>3. top.left \in Nat
  <2>1. Len(visits) \in 1..Len(visits)
    BY <1>2
  <2>2. top \in Visit
    BY <1>2, <2>1, ElementOfSeq DEF top
  <2> QED
    BY <2>2 DEF Visit
<1>4. DOMAIN ids[item].params \subseteq Nat /\ Len(unit[item].params) \in Nat
  BY <1>2, LenProperties
<1>5. ASSUME HasIds(item, top.left)
      PROVE  HasIds(item, Len(unit[item].params))
  BY <1>1, <1>3, <1>4, <1>5 DEF HasIds
<1>6. \A i \in DOMAIN unit : i < item + 1 => i < item \/ i = item
  BY <1>2
<1>7. ASSUME errors = {}, NEW i \in DOMAIN unit, i < item + 1
      PROVE  HasIds(i, Len(unit[i].params))
  BY <1>1, <1>5, <1>6, <1>7 DEF NamedInv
<1> QED
  BY <1>1, <1>7 DEF NamedInv, HasIds

LEMMA ItemTypedefNames ==
    ASSUME IInv, NamedInv, ItemTypedef
    PROVE  NamedInv'
<1> DEFINE name == unit[item].name
<1>1. /\ pass = "items" /\ visits = <<>> /\ item \in DOMAIN unit /\ item' = item + 1
      /\ unit[item].kind = "Typedef"
      /\ UNCHANGED <<unit, pass, visits>>
  BY DEF ItemTypedef, AtItem
<1>2. CASE Get(<<name>>) # None
  BY <1>2, NamesNothing DEF ItemTypedef, Report
<1>3. CASE Get(<<name>>) = None
  <2>1. /\ ids' = [ids EXCEPT ![item].id = current_id]
        /\ UNCHANGED errors
    BY <1>3 DEF ItemTypedef
  <2>2. /\ ids \in [DOMAIN unit -> [id : Id, params : Seq(Id)]] /\ current_id # Default
        /\ DOMAIN ids[item].params = DOMAIN unit[item].params
        /\ item \in Nat
    BY <1>1, ItemTypes, CurrentIdIsNoDefault
  <2>3. unit[item].params = <<>> /\ DOMAIN unit \subseteq Nat
    BY <1>1, UnitTypes DEF IInv, TypeOK
  <2>4. DOMAIN ids[item].params = {}
    BY <2>2, <2>3
  <2>5. /\ ids'[item].id = current_id /\ ids'[item].params = ids[item].params
        /\ \A i \in DOMAIN unit : i # item => ids'[i] = ids[i]
    BY <1>1, <2>1, <2>2
  <2>6. ASSUME NEW i \in DOMAIN unit, i = item
        PROVE  HasIds(i, Len(unit[i].params))'
    BY <1>1, <2>2, <2>4, <2>5, <2>6 DEF HasIds
  <2>7. \A i \in DOMAIN unit : i < item + 1 => i < item \/ i = item
    BY <2>2, <2>3
  <2>8. ASSUME errors = {}, NEW i \in DOMAIN unit, i < item
        PROVE  HasIds(i, Len(unit[i].params))'
    <3>1. HasIds(i, Len(unit[i].params)) /\ i # item
      BY <1>1, <2>2, <2>3, <2>8 DEF NamedInv
    <3> QED
      BY <1>1, <2>5, <3>1 DEF HasIds
  <2>9. ASSUME errors = {}, NEW i \in DOMAIN unit, i < item + 1
        PROVE  HasIds(i, Len(unit[i].params))'
    BY <2>6, <2>7, <2>8, <2>9
  <2> QED
    BY <1>1, <2>1, <2>9 DEF NamedInv
<1> QED
  BY <1>2, <1>3

LEMMA InitNames == Init => NamedInv
BY UnitTypes DEF Init, NamedInv

(* The invariant that items have ids is kept by every step that keeps IInv.  *)
LEMMA NextNames == IInv /\ NamedInv /\ [Next]_vars => NamedInv'
<1> SUFFICES ASSUME IInv, NamedInv, [Next]_vars PROVE NamedInv'
  OBVIOUS
<1>1. CASE ItemFn
  BY <1>1, ItemFnNames
<1>2. CASE ItemParam
  BY <1>2, ItemParamNames
<1>3. CASE ItemFnEnd
  BY <1>3, ItemFnEndNames
<1>4. CASE ItemTypedef
  BY <1>4, ItemTypedefNames
<1>5. CASE NextPass
  <2>1. /\ pass = "items" /\ item = Len(unit) + 1 /\ pass' = "expressions"
        /\ UNCHANGED <<unit, ids, errors>>
    BY <1>5 DEF NextPass
  <2>2. \A i \in DOMAIN unit : i < item
    BY <2>1, UnitTypes DEF IInv, TypeOK
  <2> QED
    BY <2>1, <2>2 DEF NamedInv, HasIds
<1>6. CASE FnBegin
  BY <1>6, NamesNothing DEF FnBegin, AtItem
<1>7. CASE FnEnd \/ SkipTypedef \/ UnitEnd
  BY <1>7, NamesNothing DEF FnEnd, SkipTypedef, UnitEnd, AtItem
<1>8. CASE \E empty \in BOOLEAN : BlockBegin(empty)
  <2>1. PICK empty \in BOOLEAN : BlockBegin(empty)
    BY <1>8
  <2>2. /\ pass = "expressions" /\ UNCHANGED <<unit, pass, ids>>
        /\ errors \subseteq errors'
    BY <2>1 DEF BlockBegin, AtNode, Report
  <2> QED
    BY <2>2, NamesNothing
<1>9. CASE \E last \in BOOLEAN, expr \in Exprs : Evaluate(last, expr)
  BY <1>9, NamesNothing DEF Evaluate, Simple, AtStmt, AtNode, Check
<1>10. CASE \E last \in BOOLEAN, name \in Idents, expr \in Exprs : Declare(last, name, expr)
  <2>1. PICK last \in BOOLEAN, name \in Idents, expr \in Exprs : Declare(last, name, expr)
    BY <1>10
  <2>2. /\ pass = "expressions" /\ UNCHANGED <<unit, pass, ids>>
        /\ errors \subseteq errors'
    BY <2>1 DEF Declare, Simple, AtStmt, AtNode, Check, Report
  <2> QED
    BY <2>2, NamesNothing
<1>11. CASE \E last \in BOOLEAN, node \in {"block", "if"} : Nest(last, node)
  BY <1>11, NamesNothing DEF Nest, AtStmt, AtNode
<1>12. CASE \E branches \in 1..MaxBranches, else \in BOOLEAN : IfBegin(branches, else)
  <2>1. PICK branches \in 1..MaxBranches, else \in BOOLEAN : IfBegin(branches, else)
    BY <1>12
  <2>2. /\ pass = "expressions" /\ UNCHANGED <<unit, pass, ids>>
        /\ errors \subseteq errors'
    BY <2>1 DEF IfBegin, AtNode, Report
  <2> QED
    BY <2>2, NamesNothing
<1>13. CASE \E expr \in Exprs : IfBranch(expr)
  BY <1>13, NamesNothing DEF IfBranch, IfBlock, AtNode, Check
<1>14. CASE IfElse
  BY <1>14, NamesNothing DEF IfElse, IfBlock, AtNode
<1>15. CASE BlockEnd \/ IfEnd
  BY <1>15, NamesNothing DEF BlockEnd, IfEnd, AtNode
<1>16. CASE Done \/ UNCHANGED vars
  BY <1>16 DEF Done, vars, builder, NamedInv, HasIds, top
<1> QED
  BY <1>1, <1>2, <1>3, <1>4, <1>5, <1>6, <1>7, <1>8, <1>9, <1>10, <1>11, <1>12, <1>13,
     <1>14, <1>15, <1>16, Zenon DEF Next

(* A unit that the first visitor reported no error of has an id for each     *)
(* item and each parameter: what the second visitor and the later passes     *)
(* find by these ids is there.                                               *)
THEOREM ValidUnitsAreNamed == Spec => []ValidItemsAreNamed
<1>1. IInv /\ NamedInv => ValidItemsAreNamed
  <2> SUFFICES ASSUME IInv, NamedInv, pass # "items", errors = {},
                      NEW i \in DOMAIN ids
               PROVE  /\ ids[i].id # Default
                      /\ \A p \in DOMAIN ids[i].params : ids[i].params[p] # Default
    BY DEF ValidItemsAreNamed
  <2>1. i \in DOMAIN unit
    BY DEF IInv, TypeOK
  <2>2. HasIds(i, Len(unit[i].params))
    BY <2>1 DEF NamedInv
  <2>3. DOMAIN ids[i].params = 1..Len(unit[i].params) /\ Len(unit[i].params) \in Nat
    BY <2>1, UnitTypes, LenProperties DEF IInv, TypeOK, TreeInv
  <2> QED
    BY <2>2, <2>3 DEF HasIds
<1> QED
  BY <1>1, InitInv, NextInv, InitNames, NextNames, PTL DEF Spec

-----------------------------------------------------------------------------
(* The scopes, the current id and the sources follow the visits that are     *)
(* open.  The invariant is ShapeInv, on top of the types and ids above.      *)

(* The visits that have a scope, and those whose ids are a level deeper. *)
Scoped == {v \in Visit : v.node \in {"fn", "params"} \/ (v.node = "block" /\ v.phase # "start")}
Deeper == {v \in Visit : v.node \in {"fn", "params"} \/ v.phase # "start"}

CountIn(vs, P) == Cardinality({i \in DOMAIN vs : vs[i] \in P})

(* DepthsFollowVisits, and what it is between two functions. *)
ScopeDepth == Len(scopes) - CountIn(visits, Scoped) - (IF pass = "expressions" THEN 2 ELSE 1)
IdDepth == Len(current_id) - CountIn(visits, Deeper) - 2

DepthInv ==
    /\ ScopeDepth >= 0
    /\ errors = {} => ScopeDepth = 0
    /\ pass = "items" \/ visits # <<>> => IdDepth >= 0 /\ (errors = {} => IdDepth = 0)
    /\ errors = {} => \A i \in DOMAIN unit : ids[i].id # Default => Len(ids[i].id) = 2
    /\ pass = "items" => \A i \in DOMAIN visits : visits[i].node = "params"
    /\ pass = "done" => visits = <<>>

(* The sources of a function that began with none: a block or an if whose   *)
(* value is that of the function finds the node p that it is in, and any     *)
(* other finds no source.                                                    *)
Sourced(lv) == lv # <<>> /\ Last(lv) # None

TopSource(p, v, lv) ==
    /\ ~v.tail => ~Sourced(lv)
    /\ v.tail /\ v.phase = "start" => Sourced(lv) /\ Last(lv) = p.id
    /\ v.tail /\ v.phase = "stmts" /\ v.node = "block" => ~Sourced(lv)

(* The value of v, in p, is that of the function only if that of p is, and   *)
(* in a block only at its end.                                               *)
Link(p, v) ==
    /\ v.tail => p.tail /\ (p.node = "block" => p.phase = "last")
    /\ p.tail /\ p.node = "if" => v.tail

Spine(vs) ==
    /\ \A i \in 1..Len(vs) : i < Len(vs) \/ vs[i].phase # "start" => vs[i].id # None
    /\ \A i \in 3..Len(vs) : Link(vs[i - 1], vs[i])
    /\ \A i \in 2..Len(vs) :
          vs[i].phase # "start" => vs[i].source = IF vs[i].tail THEN vs[i - 1].id ELSE None

TailInv ==
    pass = "expressions" /\ visits # <<>> /\ visits[1].left = 0 /\ errors = {} =>
        /\ Spine(visits)
        /\ Len(visits) >= 2 =>
              TopSource(visits[Len(visits) - 1], visits[Len(visits)], lvalues)

(* Whatever has an id has one that is not empty. *)
BoundInv ==
    /\ \A i \in DOMAIN scopes : \A k \in DOMAIN scopes[i] : scopes[i][k] # None
    /\ \A i \in DOMAIN unit : \A p \in DOMAIN ids[i].params : ids[i].params[p] # None

(* The names of a scope: its keys but those of parameters of functions. *)
Singles(scope) == {n \in Idents : <<n>> \in DOMAIN scope}

(* m says which scope was on top when a visit was: a visit that has a scope  *)
(* has put it there, with the names declared so far, and no other visit has  *)
(* any.                                                                      *)
Aligned(ss, vs, m) ==
    /\ m \in Seq(Nat) /\ Len(m) = Len(vs)
    /\ m[1] = 3 /\ m[Len(vs)] = Len(ss)
    /\ \A i, j \in 1..Len(vs) : i <= j => m[i] <= m[j]
    /\ vs[1].names = {}
    /\ \A i \in 2..Len(vs) :
          IF vs[i] \in Scoped
          THEN m[i] = m[i - 1] + 1 /\ Singles(ss[m[i]]) = vs[i].names
          ELSE m[i] = m[i - 1] /\ vs[i].names = {}
    /\ \A s \in 4..Len(ss) : \E i \in 2..Len(vs) : vs[i] \in Scoped /\ m[i] = s

ItemNamesTo(n) == {unit[i].name : i \in 1..n}

ScopeInv ==
    errors = {} =>
        /\ item \in 1..(Len(unit) + 1)
        /\ pass = "items" =>
              /\ Len(scopes) = 1 + Len(visits)
              /\ Singles(scopes[1]) = ItemNamesTo(IF visits = <<>> THEN item - 1 ELSE item)
        /\ pass = "expressions" =>
              /\ Len(scopes) >= 2
              /\ Singles(scopes[1]) = ItemNames
              /\ Singles(scopes[2]) = {}
              /\ visits = <<>> => Len(scopes) = 2
              /\ visits # <<>> => /\ Len(scopes) >= 3
                                  /\ Singles(scopes[3]) = ParamNames(item)
                                  /\ \E m : Aligned(scopes, visits, m)

ShapeInv == DepthInv /\ TailInv /\ BoundInv /\ ScopeInv

-----------------------------------------------------------------------------
(* The stack of visits: every step replaces the one on top, ends it or       *)
(* begins one on top of it.                                                  *)

LEMMA StackOfVisits ==
    ASSUME visits \in Seq(Visit), visits # <<>>
    PROVE  /\ Front(visits) \in Seq(Visit) /\ Len(Front(visits)) = Len(visits) - 1
           /\ top \in Visit /\ Len(visits) \in Nat \ {0}
           /\ visits = Append(Front(visits), top)
           /\ \A v \in Visit : Under(v) = Append(Front(visits), v)
<1>1. /\ Len(visits) \in Nat \ {0} /\ top \in Visit
      /\ Front(visits) \in Seq(Visit) /\ Len(Front(visits)) = Len(visits) - 1
  BY FrontItems DEF top
<1>2. \A v \in Visit : Under(v) = Append(Front(visits), v)
  BY ReplaceLast DEF Under
<1>3. Under(top) = visits
  BY <1>1, SeqDef DEF Under, top
<1> QED
  BY <1>1, <1>2, <1>3

LEMMA CountTop ==
    ASSUME NEW f \in Seq(Visit), NEW v \in Visit, NEW P
    PROVE  /\ CountIn(f, P) \in Nat
           /\ CountIn(Append(f, v), P) = CountIn(f, P) + (IF v \in P THEN 1 ELSE 0)
<1>1. PICK k \in Nat : k = Len(f)
  BY LenProperties
<1>2. PICK e : e = Append(f, v)
  OBVIOUS
<1> DEFINE A == {i \in DOMAIN f : f[i] \in P}
<1>3. DOMAIN f = 1..k /\ DOMAIN e = 1..(k + 1) /\ e[k + 1] = v
      /\ \A i \in 1..k : e[i] = f[i]
  BY <1>1, <1>2, AppendItem, LenProperties
<1>4. IsFiniteSet(A) /\ k + 1 \notin A
  <2>1. IsFiniteSet(1..k)
    BY FS_Interval
  <2> QED
    BY <1>3, <2>1, FS_Subset, A \in SUBSET (1..k)
<1>5. {i \in DOMAIN e : e[i] \in P} = IF v \in P THEN A \cup {k + 1} ELSE A
  <2>1. 1..(k + 1) = (1..k) \cup {k + 1}
    OBVIOUS
  <2> QED
    BY <1>3, <2>1
<1> HIDE DEF A
<1>6. Cardinality(A) \in Nat /\ Cardinality(A \cup {k + 1}) = Cardinality(A) + 1
  BY <1>4, FS_CardinalityType, FS_AddElement
<1>7. CountIn(f, P) = Cardinality(A)
  BY DEF CountIn, A
<1>8. CountIn(e, P) = IF v \in P THEN Cardinality(A \cup {k + 1}) ELSE Cardinality(A)
  BY <1>5 DEF CountIn
<1> QED
  BY <1>2, <1>6, <1>7, <1>8

LEMMA CountNone ==
    ASSUME NEW P
    PROVE  CountIn(<<>>, P) = 0
<1>1. {i \in DOMAIN <<>> : <<>>[i] \in P} = {}
  OBVIOUS
<1> QED
  BY <1>1, FS_EmptySet DEF CountIn

(* The property counts the visits of each node on their own. *)
LEMMA CountsAreSums ==
    ASSUME visits \in Seq(Visit)
    PROVE  /\ CountIn(visits, Scoped) = Cardinality(FnVisits) + Cardinality(Visits("block"))
           /\ CountIn(visits, Deeper) = Cardinality(FnVisits) + Cardinality(Visits("block"))
                                          + Cardinality(Visits("if"))
<1> DEFINE D == DOMAIN visits
           A == FnVisits
           B == Visits("block")
           C == Visits("if")
<1>1. \A i \in D : visits[i] \in Visit /\ visits[i].node \in {"params", "fn", "block", "if"}
  <2>1. \A i \in D : visits[i] \in Visit
    BY LenProperties, ElementOfSeq
  <2>2. \A v \in Visit : v.node \in {"params", "fn", "block", "if"}
    BY DEF Visit
  <2> QED
    BY <2>1, <2>2
<1>2. IsFiniteSet(D)
  BY LenProperties, FS_Interval
<1>3. A \in SUBSET D /\ B \in SUBSET D /\ C \in SUBSET D
  BY DEF FnVisits, Visits
<1>4. IsFiniteSet(A) /\ IsFiniteSet(B) /\ IsFiniteSet(C) /\ IsFiniteSet(A \cup B)
  BY <1>2, <1>3, FS_Subset, FS_Union
<1>5. A \cap B = {} /\ (A \cup B) \cap C = {}
  BY DEF FnVisits, Visits
<1>6. {i \in D : visits[i] \in Scoped} = A \cup B
  BY <1>1 DEF FnVisits, Visits, Scoped
<1>7. {i \in D : visits[i] \in Deeper} = (A \cup B) \cup C
  BY <1>1 DEF FnVisits, Visits, Deeper
<1> HIDE DEF A, B, C
<1>0. /\ Cardinality(A) \in Nat /\ Cardinality(B) \in Nat /\ Cardinality(C) \in Nat
      /\ Cardinality(A \cup B) \in Nat
  BY <1>4, FS_CardinalityType
<1>8. Cardinality(A \cup B) = Cardinality(A) + Cardinality(B)
  <2>1. Cardinality(A \cup B) = Cardinality(A) + Cardinality(B) - Cardinality(A \cap B)
    BY <1>4, FS_Union
  <2>2. Cardinality(A \cap B) = 0
    BY <1>5, FS_EmptySet
  <2> QED
    BY <1>0, <2>1, <2>2
<1>9. Cardinality((A \cup B) \cup C) = Cardinality(A \cup B) + Cardinality(C)
  <2>1. Cardinality((A \cup B) \cup C)
            = Cardinality(A \cup B) + Cardinality(C) - Cardinality((A \cup B) \cap C)
    BY <1>4, FS_Union
  <2>2. Cardinality((A \cup B) \cap C) = 0
    BY <1>5, FS_EmptySet
  <2> QED
    BY <1>0, <2>1, <2>2
<1> QED
  BY <1>6, <1>7, <1>8, <1>9 DEF CountIn, A, B, C

(* The ids of the visits, and their sources. *)
LEMMA SpineUp ==
    ASSUME NEW f \in Seq(Visit), f # <<>>, NEW t \in Visit, Spine(Append(f, t))
    PROVE  /\ Spine(f)
           /\ f[Len(f)].id # None
           /\ Len(f) >= 2 => Link(f[Len(f)], t)
           /\ t.phase # "start" => /\ t.id # None
                                   /\ t.source = IF t.tail THEN f[Len(f)].id ELSE None
<1>1. PICK k \in Nat \ {0} : k = Len(f)
  BY FrontItems
<1>2. PICK e : e = Append(f, t)
  OBVIOUS
<1>3. Len(e) = k + 1 /\ e[k + 1] = t /\ \A i \in 1..k : e[i] = f[i]
  BY <1>1, <1>2, AppendItem
<1>4. \A i \in 1..k : f[i].id # None
  BY <1>2, <1>3 DEF Spine
<1>5. \A i \in 3..k : Link(f[i - 1], f[i])
  <2> SUFFICES ASSUME NEW i \in 3..k PROVE Link(f[i - 1], f[i])
    OBVIOUS
  <2>1. i \in 3..Len(e) /\ e[i - 1] = f[i - 1] /\ e[i] = f[i]
    BY <1>3
  <2> QED
    BY <1>2, <2>1 DEF Spine
<1>6. \A i \in 2..k :
        f[i].phase # "start" => f[i].source = IF f[i].tail THEN f[i - 1].id ELSE None
  <2> SUFFICES ASSUME NEW i \in 2..k, f[i].phase # "start"
               PROVE  f[i].source = IF f[i].tail THEN f[i - 1].id ELSE None
    OBVIOUS
  <2>1. i \in 2..Len(e) /\ e[i - 1] = f[i - 1] /\ e[i] = f[i]
    BY <1>3
  <2> QED
    BY <1>2, <2>1 DEF Spine
<1>7. k >= 2 => Link(f[k], t)
  <2> SUFFICES ASSUME k >= 2 PROVE Link(f[k], t)
    OBVIOUS
  <2>1. k + 1 \in 3..Len(e) /\ (k + 1) - 1 = k /\ e[k] = f[k]
    BY <1>3
  <2> QED
    BY <1>2, <1>3, <2>1 DEF Spine
<1>8. t.phase # "start" => t.id # None /\ t.source = IF t.tail THEN f[k].id ELSE None
  <2>1. k + 1 \in 2..Len(e) /\ k + 1 \in 1..Len(e) /\ (k + 1) - 1 = k /\ e[k] = f[k]
    BY <1>3
  <2> QED
    BY <1>2, <1>3, <2>1 DEF Spine
<1>9. Spine(f)
  BY <1>1, <1>4, <1>5, <1>6 DEF Spine
<1> QED
  BY <1>1, <1>4, <1>7, <1>8, <1>9

LEMMA SpineDown ==
    ASSUME NEW f \in Seq(Visit), f # <<>>, NEW v \in Visit, Spine(f),
           f[Len(f)].id # None, Len(f) >= 2 => Link(f[Len(f)], v),
           v.phase # "start" => /\ v.id # None
                                /\ v.source = IF v.tail THEN f[Len(f)].id ELSE None
    PROVE  Spine(Append(f, v))
<1>1. PICK k \in Nat \ {0} : k = Len(f)
  BY FrontItems
<1>2. PICK e : e = Append(f, v)
  OBVIOUS
<1>3. Len(e) = k + 1 /\ e[k + 1] = v /\ \A i \in 1..k : e[i] = f[i]
  BY <1>1, <1>2, AppendItem
<1>4. \A i \in 1..Len(e) : i < Len(e) \/ e[i].phase # "start" => e[i].id # None
  <2> SUFFICES ASSUME NEW i \in 1..Len(e), i < Len(e) \/ e[i].phase # "start"
               PROVE  e[i].id # None
    OBVIOUS
  <2>1. CASE i = k + 1
    BY <1>3, <2>1
  <2>2. CASE i = k
    BY <1>1, <1>3, <2>2
  <2>3. CASE i < k
    <3>1. i \in 1..Len(f) /\ e[i] = f[i]
      BY <1>1, <1>3, <2>3
    <3> QED
      BY <1>1, <2>3, <3>1 DEF Spine
  <2> QED
    BY <1>3, <2>1, <2>2, <2>3
<1>5. ASSUME NEW i \in 3..Len(e)
      PROVE  Link(e[i - 1], e[i])
  <2>1. CASE i = k + 1
    <3>1. e[i - 1] = f[k] /\ e[i] = v /\ k >= 2
      BY <1>3, <2>1
    <3> QED
      BY <1>1, <3>1
  <2>2. CASE i # k + 1
    <3>1. e[i - 1] = f[i - 1] /\ e[i] = f[i] /\ i \in 3..Len(f)
      BY <1>1, <1>3, <2>2
    <3> QED
      BY <3>1 DEF Spine
  <2> QED
    BY <2>1, <2>2
<1>6. ASSUME NEW i \in 2..Len(e), e[i].phase # "start"
      PROVE  e[i].source = IF e[i].tail THEN e[i - 1].id ELSE None
  <2>1. CASE i = k + 1
    <3>1. e[i - 1] = f[k] /\ e[i] = v
      BY <1>3, <2>1
    <3> QED
      BY <1>1, <1>6, <3>1
  <2>2. CASE i # k + 1
    <3>1. e[i - 1] = f[i - 1] /\ e[i] = f[i] /\ i \in 2..Len(f)
      BY <1>1, <1>3, <2>2
    <3> QED
      BY <1>6, <3>1 DEF Spine
  <2> QED
    BY <2>1, <2>2
<1>7. Spine(e)
  BY <1>4, <1>5, <1>6 DEF Spine
<1> QED
  BY <1>2, <1>7

(* The scopes of the visits. *)
LEMMA AlignedUp ==
    ASSUME NEW ss \in Seq(Scope), NEW f \in Seq(Visit), f # <<>>, NEW t \in Visit,
           NEW m, Aligned(ss, Append(f, t), m)
    PROVE  IF t \in Scoped
           THEN /\ Len(ss) >= 4 /\ Singles(ss[Len(ss)]) = t.names
                /\ Aligned(Front(ss), f, Front(m))
           ELSE t.names = {} /\ Aligned(ss, f, Front(m))
<1>1. PICK k \in Nat \ {0} : k = Len(f)
  BY FrontItems
<1>2. PICK e : e = Append(f, t)
  OBVIOUS
<1>3. Len(e) = k + 1 /\ e[k + 1] = t /\ \A i \in 1..k : e[i] = f[i]
  BY <1>1, <1>2, AppendItem
<1>4. Aligned(ss, e, m)
  BY <1>2
<1>5. PICK n \in Nat : n = Len(ss)
  BY LenProperties
<1>6. /\ m \in Seq(Nat) /\ Len(m) = k + 1 /\ m # <<>>
      /\ m[1] = 3 /\ m[k + 1] = n
      /\ \A i, j \in 1..(k + 1) : i <= j => m[i] <= m[j]
      /\ e[1].names = {}
      /\ \A i \in 1..(k + 1) : m[i] \in Nat
  <2>1. /\ m \in Seq(Nat) /\ Len(m) = k + 1
        /\ m[1] = 3 /\ m[k + 1] = n
        /\ \A i, j \in 1..(k + 1) : i <= j => m[i] <= m[j]
        /\ e[1].names = {}
    BY <1>3, <1>4, <1>5 DEF Aligned
  <2>2. m # <<>>
    BY <2>1
  <2> QED
    BY <2>1, <2>2, ElementOfSeq
<1>7. PICK g : g = Front(m)
  OBVIOUS
<1>8. g \in Seq(Nat) /\ Len(g) = k /\ \A i \in 1..k : g[i] = m[i]
  <2>1. Front(m) \in Seq(Nat) /\ Len(Front(m)) = Len(m) - 1
        /\ \A i \in 1..(Len(m) - 1) : Front(m)[i] = m[i]
    BY <1>6, FrontItems
  <2>2. Len(m) - 1 = k
    BY <1>6
  <2> QED
    BY <1>7, <2>1, <2>2
<1>9. \A i \in 2..(k + 1) :
        IF e[i] \in Scoped
        THEN m[i] = m[i - 1] + 1 /\ Singles(ss[m[i]]) = e[i].names
        ELSE m[i] = m[i - 1] /\ e[i].names = {}
  BY <1>3, <1>4 DEF Aligned
<1>10. \A s \in 4..n : \E i \in 2..(k + 1) : e[i] \in Scoped /\ m[i] = s
  BY <1>3, <1>4, <1>5 DEF Aligned
<1>11. g[1] = 3 /\ f[1].names = {} /\ \A i, j \in 1..k : i <= j => g[i] <= g[j]
  BY <1>3, <1>6, <1>8
<1>12. CASE t \in Scoped
  <2>1. n = m[k] + 1 /\ Singles(ss[n]) = t.names
    BY <1>3, <1>6, <1>9, <1>12
  <2>2. m[k] >= 3 /\ \A i \in 1..k : m[i] <= n - 1
    BY <1>6, <2>1
  <2>3. PICK r : r = Front(ss)
    OBVIOUS
  <2>4. ss # <<>> /\ n >= 4
    <3>1. n >= 4
      BY <1>1, <1>6, <2>1, <2>2
    <3>2. Len(<<>>) = 0
      OBVIOUS
    <3> QED
      BY <1>5, <3>1, <3>2
  <2>5. r \in Seq(Scope) /\ Len(r) = n - 1 /\ \A i \in 1..(n - 1) : r[i] = ss[i]
    BY <1>5, <2>3, <2>4, FrontItems
  <2>6. \A i \in 2..k :
          IF f[i] \in Scoped
          THEN g[i] = g[i - 1] + 1 /\ Singles(r[g[i]]) = f[i].names
          ELSE g[i] = g[i - 1] /\ f[i].names = {}
    <3> SUFFICES ASSUME NEW i \in 2..k
                 PROVE  IF f[i] \in Scoped
                        THEN g[i] = g[i - 1] + 1 /\ Singles(r[g[i]]) = f[i].names
                        ELSE g[i] = g[i - 1] /\ f[i].names = {}
      OBVIOUS
    <3>1. i \in 2..(k + 1) /\ e[i] = f[i] /\ g[i] = m[i] /\ g[i - 1] = m[i - 1]
          /\ 1 <= i /\ i \in 1..k
      BY <1>3, <1>8
    <3>2. m[i] \in 1..(n - 1)
      <4>1. m[1] <= m[i] /\ m[i] <= n - 1 /\ m[i] \in Nat
        BY <1>6, <2>2, <3>1
      <4> QED
        BY <1>6, <4>1
    <3>3. r[m[i]] = ss[m[i]]
      BY <2>5, <3>2
    <3> QED
      BY <1>9, <3>1, <3>3
  <2>7. \A s \in 4..(n - 1) : \E i \in 2..k : f[i] \in Scoped /\ g[i] = s
    <3> SUFFICES ASSUME NEW s \in 4..(n - 1) PROVE \E i \in 2..k : f[i] \in Scoped /\ g[i] = s
      OBVIOUS
    <3>1. PICK i \in 2..(k + 1) : e[i] \in Scoped /\ m[i] = s
      BY <1>10
    <3>2. i # k + 1
      BY <1>6, <3>1
    <3>3. i \in 2..k /\ e[i] = f[i] /\ g[i] = m[i]
      BY <1>3, <1>8, <3>2
    <3> QED
      BY <3>1, <3>3
  <2>8. g[k] = n - 1
    BY <1>6, <1>8, <2>1
  <2>9. Aligned(r, f, g)
    BY <1>1, <1>8, <1>11, <2>5, <2>6, <2>7, <2>8 DEF Aligned
  <2> QED
    BY <1>5, <1>7, <1>12, <2>1, <2>3, <2>4, <2>9
<1>13. CASE t \notin Scoped
  <2>1. n = m[k] /\ t.names = {}
    BY <1>3, <1>6, <1>9, <1>13
  <2>2. \A i \in 2..k :
          IF f[i] \in Scoped
          THEN g[i] = g[i - 1] + 1 /\ Singles(ss[g[i]]) = f[i].names
          ELSE g[i] = g[i - 1] /\ f[i].names = {}
    <3> SUFFICES ASSUME NEW i \in 2..k
                 PROVE  IF f[i] \in Scoped
                        THEN g[i] = g[i - 1] + 1 /\ Singles(ss[g[i]]) = f[i].names
                        ELSE g[i] = g[i - 1] /\ f[i].names = {}
      OBVIOUS
    <3>1. i \in 2..(k + 1) /\ e[i] = f[i] /\ g[i] = m[i] /\ g[i - 1] = m[i - 1]
      BY <1>3, <1>8
    <3> QED
      BY <1>9, <3>1
  <2>3. \A s \in 4..n : \E i \in 2..k : f[i] \in Scoped /\ g[i] = s
    <3> SUFFICES ASSUME NEW s \in 4..n PROVE \E i \in 2..k : f[i] \in Scoped /\ g[i] = s
      OBVIOUS
    <3>1. PICK i \in 2..(k + 1) : e[i] \in Scoped /\ m[i] = s
      BY <1>10
    <3>2. i # k + 1
      BY <1>3, <1>13, <3>1
    <3>3. i \in 2..k /\ e[i] = f[i] /\ g[i] = m[i]
      BY <1>3, <1>8, <3>2
    <3> QED
      BY <3>1, <3>3
  <2>4. g[k] = n
    BY <1>6, <1>8, <2>1
  <2>5. Aligned(ss, f, g)
    BY <1>1, <1>5, <1>8, <1>11, <2>2, <2>3, <2>4 DEF Aligned
  <2> QED
    BY <1>7, <1>13, <2>1, <2>5
<1> QED
  BY <1>12, <1>13

LEMMA AlignedDown ==
    ASSUME NEW ss \in Seq(Scope), NEW f \in Seq(Visit), f # <<>>, NEW v \in Visit,
           NEW m, Aligned(ss, f, m)
    PROVE  /\ v \notin Scoped /\ v.names = {}
                => Aligned(ss, Append(f, v), Append(m, Len(ss)))
           /\ \A sc \in Scope :
                 v \in Scoped /\ Singles(sc) = v.names
                    => Aligned(Append(ss, sc), Append(f, v), Append(m, Len(ss) + 1))
<1>1. PICK k \in Nat \ {0} : k = Len(f)
  BY FrontItems
<1>2. PICK e : e = Append(f, v)
  OBVIOUS
<1>3. Len(e) = k + 1 /\ e[k + 1] = v /\ \A i \in 1..k : e[i] = f[i]
  BY <1>1, <1>2, AppendItem
<1>4. PICK n \in Nat : n = Len(ss)
  BY LenProperties
<1>5. /\ m \in Seq(Nat) /\ Len(m) = k
      /\ m[1] = 3 /\ m[k] = n
      /\ \A i, j \in 1..k : i <= j => m[i] <= m[j]
      /\ f[1].names = {}
      /\ \A i \in 1..k : m[i] \in Nat
      /\ \A i \in 2..k :
            IF f[i] \in Scoped
            THEN m[i] = m[i - 1] + 1 /\ Singles(ss[m[i]]) = f[i].names
            ELSE m[i] = m[i - 1] /\ f[i].names = {}
      /\ \A s \in 4..n : \E i \in 2..k : f[i] \in Scoped /\ m[i] = s
  BY <1>1, <1>4, ElementOfSeq DEF Aligned
<1>6. \A i \in 1..k : m[i] <= n /\ m[i] >= 3
  BY <1>5
<1>7. ASSUME NEW b \in {n, n + 1}, NEW g, g = Append(m, b)
      PROVE  /\ g \in Seq(Nat) /\ Len(g) = k + 1 /\ g[1] = 3 /\ g[k + 1] = b
             /\ \A i \in 1..k : g[i] = m[i]
             /\ \A i, j \in 1..(k + 1) : i <= j => g[i] <= g[j]
             /\ e[1].names = {}
  <2>1. /\ g \in Seq(Nat) /\ Len(g) = k + 1 /\ g[k + 1] = b
        /\ \A i \in 1..k : g[i] = m[i]
    BY <1>5, <1>7, AppendItem
  <2>2. ASSUME NEW i \in 1..(k + 1), NEW j \in 1..(k + 1), i <= j
        PROVE  g[i] <= g[j]
    <3>1. CASE j = k + 1
      <4>1. CASE i = k + 1
        BY <1>7, <2>1, <3>1, <4>1
      <4>2. CASE i # k + 1
        <5>1. i \in 1..k
          BY <4>2
        <5>2. g[i] = m[i] /\ m[i] <= n /\ m[i] \in Nat /\ g[j] = b
          BY <1>5, <1>6, <2>1, <3>1, <5>1
        <5> QED
          BY <1>7, <5>2
      <4> QED
        BY <4>1, <4>2
    <3>2. CASE j # k + 1
      <4>1. i \in 1..k /\ j \in 1..k
        BY <2>2, <3>2
      <4> QED
        BY <1>5, <2>1, <2>2, <4>1
    <3> QED
      BY <3>1, <3>2
  <2>3. 1 \in 1..k
    OBVIOUS
  <2>4. g[1] = 3 /\ e[1].names = {}
    BY <1>3, <1>5, <2>1, <2>3
  <2> QED
    BY <2>1, <2>2, <2>4
<1>8. ASSUME v \notin Scoped, v.names = {}
      PROVE  Aligned(ss, Append(f, v), Append(m, Len(ss)))
  <2>1. PICK g : g = Append(m, n)
    OBVIOUS
  <2>2. /\ g \in Seq(Nat) /\ Len(g) = k + 1 /\ g[1] = 3 /\ g[k + 1] = n
        /\ \A i \in 1..k : g[i] = m[i]
        /\ \A i, j \in 1..(k + 1) : i <= j => g[i] <= g[j]
        /\ e[1].names = {}
    BY <1>7, <2>1
  <2>3. \A i \in 2..(k + 1) :
          IF e[i] \in Scoped
          THEN g[i] = g[i - 1] + 1 /\ Singles(ss[g[i]]) = e[i].names
          ELSE g[i] = g[i - 1] /\ e[i].names = {}
    <3> SUFFICES ASSUME NEW i \in 2..(k + 1)
                 PROVE  IF e[i] \in Scoped
                        THEN g[i] = g[i - 1] + 1 /\ Singles(ss[g[i]]) = e[i].names
                        ELSE g[i] = g[i - 1] /\ e[i].names = {}
      OBVIOUS
    <3>1. CASE i = k + 1
      <4>1. e[i] = v /\ g[i] = n /\ i - 1 = k /\ g[k] = n
        BY <1>3, <1>5, <2>2, <3>1
      <4> QED
        BY <1>8, <4>1
    <3>2. CASE i # k + 1
      <4>1. i \in 2..k /\ i \in 1..k /\ i - 1 \in 1..k
        BY <3>2
      <4>2. e[i] = f[i] /\ g[i] = m[i] /\ g[i - 1] = m[i - 1]
        BY <1>3, <2>2, <4>1
      <4>3. IF f[i] \in Scoped
            THEN m[i] = m[i - 1] + 1 /\ Singles(ss[m[i]]) = f[i].names
            ELSE m[i] = m[i - 1] /\ f[i].names = {}
        BY <1>5, <4>1
      <4> QED
        BY <4>2, <4>3
    <3> QED
      BY <3>1, <3>2
  <2>4. \A s \in 4..n : \E i \in 2..(k + 1) : e[i] \in Scoped /\ g[i] = s
    <3> SUFFICES ASSUME NEW s \in 4..n PROVE \E i \in 2..(k + 1) : e[i] \in Scoped /\ g[i] = s
      OBVIOUS
    <3>1. PICK i \in 2..k : f[i] \in Scoped /\ m[i] = s
      BY <1>5
    <3>2. i \in 2..(k + 1) /\ e[i] = f[i] /\ g[i] = m[i]
      BY <1>3, <2>2
    <3> QED
      BY <3>1, <3>2
  <2>5. Aligned(ss, e, g)
    BY <1>3, <1>4, <2>2, <2>3, <2>4 DEF Aligned
  <2> QED
    BY <1>2, <1>4, <2>1, <2>5
<1>9. ASSUME NEW sc \in Scope, v \in Scoped, Singles(sc) = v.names
      PROVE  Aligned(Append(ss, sc), Append(f, v), Append(m, Len(ss) + 1))
  <2>1. PICK g : g = Append(m, n + 1)
    OBVIOUS
  <2>2. /\ g \in Seq(Nat) /\ Len(g) = k + 1 /\ g[1] = 3 /\ g[k + 1] = n + 1
        /\ \A i \in 1..k : g[i] = m[i]
        /\ \A i, j \in 1..(k + 1) : i <= j => g[i] <= g[j]
        /\ e[1].names = {}
    BY <1>7, <2>1
  <2>3. PICK r : r = Append(ss, sc)
    OBVIOUS
  <2>4. Len(r) = n + 1 /\ r[n + 1] = sc /\ \A i \in 1..n : r[i] = ss[i]
    BY <1>4, <2>3, AppendItem
  <2>5. \A i \in 2..(k + 1) :
          IF e[i] \in Scoped
          THEN g[i] = g[i - 1] + 1 /\ Singles(r[g[i]]) = e[i].names
          ELSE g[i] = g[i - 1] /\ e[i].names = {}
    <3> SUFFICES ASSUME NEW i \in 2..(k + 1)
                 PROVE  IF e[i] \in Scoped
                        THEN g[i] = g[i - 1] + 1 /\ Singles(r[g[i]]) = e[i].names
                        ELSE g[i] = g[i - 1] /\ e[i].names = {}
      OBVIOUS
    <3>1. CASE i = k + 1
      <4>1. e[i] = v /\ g[i] = n + 1 /\ i - 1 = k /\ g[k] = n
        BY <1>3, <1>5, <2>2, <3>1
      <4> QED
        BY <1>9, <2>4, <4>1
    <3>2. CASE i # k + 1
      <4>1. i \in 2..k /\ i \in 1..k /\ i - 1 \in 1..k
        BY <3>2
      <4>2. e[i] = f[i] /\ g[i] = m[i] /\ g[i - 1] = m[i - 1]
        BY <1>3, <2>2, <4>1
      <4>3. m[i] \in 1..n
        BY <1>5, <1>6, <4>1
      <4>4. r[m[i]] = ss[m[i]]
        BY <2>4, <4>3
      <4>5. IF f[i] \in Scoped
            THEN m[i] = m[i - 1] + 1 /\ Singles(ss[m[i]]) = f[i].names
            ELSE m[i] = m[i - 1] /\ f[i].names = {}
        BY <1>5, <4>1
      <4> QED
        BY <4>2, <4>4, <4>5
    <3> QED
      BY <3>1, <3>2
  <2>6. \A s \in 4..(n + 1) : \E i \in 2..(k + 1) : e[i] \in Scoped /\ g[i] = s
    <3> SUFFICES ASSUME NEW s \in 4..(n + 1)
                 PROVE  \E i \in 2..(k + 1) : e[i] \in Scoped /\ g[i] = s
      OBVIOUS
    <3>1. CASE s = n + 1
      <4>1. k + 1 \in 2..(k + 1)
        OBVIOUS
      <4> QED
        BY <1>3, <1>9, <2>2, <3>1, <4>1
    <3>2. CASE s # n + 1
      <4>1. s \in 4..n
        BY <3>2
      <4>2. PICK i \in 2..k : f[i] \in Scoped /\ m[i] = s
        BY <1>5, <4>1
      <4>3. i \in 2..(k + 1) /\ e[i] = f[i] /\ g[i] = m[i]
        BY <1>3, <2>2
      <4> QED
        BY <4>2, <4>3
    <3> QED
      BY <3>1, <3>2
  <2>7. Aligned(r, e, g)
    BY <1>3, <2>2, <2>4, <2>5, <2>6 DEF Aligned
  <2> QED
    BY <1>2, <1>4, <2>1, <2>3, <2>7
<1> QED
  BY <1>8, <1>9

-----------------------------------------------------------------------------
(* What the steps within the body of a function have in common. *)

LEMMA InnerTypes ==
    ASSUME IInv, pass = "expressions", visits # <<>>, top.node \in {"block", "if"},
           NEW f, f = Front(visits)
    PROVE  /\ f \in Seq(Visit) /\ f # <<>> /\ Len(f) \in Nat \ {0} /\ top \in Visit
           /\ Len(f) + 1 = Len(visits)
           /\ visits \in Seq(Visit) /\ visits = Append(f, top)
           /\ \A v \in Visit : Under(v) = Append(f, v)
           /\ \A v : Append(f, v)[1] = visits[1]
           /\ Len(f) >= 2 => f[Len(f)].phase # "start" /\ f[Len(f)].node \in {"block", "if"}
           /\ current_id \in Id /\ Len(current_id) \in Nat /\ Len(current_id) >= 2
           /\ current_id # None
           /\ scopes \in Seq(Scope) /\ Len(scopes) \in Nat
           /\ lvalues \in Seq(Id) /\ item \in DOMAIN unit
<1>1. /\ Len(visits) \in Nat /\ Len(visits) >= 2 /\ visits \in Seq(Visit)
      /\ top \in Visit /\ Nested(visits) /\ item \in DOMAIN unit
  BY InBody
<1>2. /\ f \in Seq(Visit) /\ Len(f) = Len(visits) - 1
      /\ visits = Append(f, top)
      /\ \A v \in Visit : Under(v) = Append(f, v)
  BY <1>1, StackOfVisits
<1>3. PICK k \in Nat \ {0} : k = Len(f)
  BY <1>1, <1>2
<1>4. f # <<>> /\ k + 1 = Len(visits) /\ \A i \in 1..k : f[i] = visits[i]
  <2>1. \A i \in 1..Len(f) : Append(f, top)[i] = f[i]
    BY <1>1, <1>2, AppendItem
  <2>2. k + 1 = Len(visits)
    <3>1. PICK n \in Nat : n = Len(visits)
      BY <1>1
    <3>2. k = n - 1
      BY <1>2, <1>3, <3>1
    <3> QED
      BY <3>1, <3>2
  <2>3. f # <<>>
    BY <1>3
  <2> QED
    BY <1>2, <1>3, <2>1, <2>2, <2>3
<1>5. ASSUME NEW v
      PROVE  Append(f, v)[1] = visits[1]
  <2>1. f \in Seq(Visit \cup {v}) /\ v \in Visit \cup {v}
    BY <1>2, SeqDef
  <2>2. \A i \in 1..Len(f) : Append(f, v)[i] = f[i]
    BY <2>1, AppendItem
  <2>3. 1 \in 1..k
    OBVIOUS
  <2> QED
    BY <1>3, <1>4, <2>2, <2>3
<1>6. k >= 2 => f[k].phase # "start" /\ f[k].node \in {"block", "if"}
  <2> SUFFICES ASSUME k >= 2 PROVE f[k].phase # "start" /\ f[k].node \in {"block", "if"}
    OBVIOUS
  <2>1. k \in 2..Len(visits) /\ k < Len(visits) /\ f[k] = visits[k]
    BY <1>4
  <2> QED
    BY <1>1, <2>1 DEF Nested
<1>7. /\ current_id \in Id /\ scopes \in Seq(Scope) /\ lvalues \in Seq(Id)
      /\ Len(current_id) \in Nat /\ Len(scopes) \in Nat /\ Len(current_id) >= 2
  BY BuilderTypes, LenProperties DEF Id, IInv
<1>8. current_id # None
  <2>1. Len(None) = 0
    BY DEF None
  <2> QED
    BY <1>7, <2>1
<1> QED
  BY <1>1, <1>2, <1>3, <1>4, <1>5, <1>6, <1>7, <1>8

(* The depths follow the visits if the scopes and the current id do. *)
LEMMA DepthKept ==
    ASSUME DepthInv, pass = "expressions", visits # <<>>, UNCHANGED <<unit, pass, ids>>,
           errors \subseteq errors',
           CountIn(visits, Scoped) \in Nat, CountIn(visits, Deeper) \in Nat,
           Len(scopes) \in Nat, Len(scopes') \in Nat,
           Len(current_id) \in Nat, Len(current_id') \in Nat,
           NEW ds \in Int, CountIn(visits', Scoped) = CountIn(visits, Scoped) + ds,
           NEW dd \in Int, CountIn(visits', Deeper) = CountIn(visits, Deeper) + dd,
           Len(scopes') >= Len(scopes) + ds,
           Len(current_id') >= Len(current_id) + dd,
           errors' = {} => Len(scopes') = Len(scopes) + ds
                           /\ Len(current_id') = Len(current_id) + dd
    PROVE  DepthInv'
<1>1. errors' = {} => errors = {}
  OBVIOUS
<1>2. PICK s \in Nat, d \in Nat : s = CountIn(visits, Scoped) /\ d = CountIn(visits, Deeper)
  OBVIOUS
<1>3. PICK ls \in Nat, lc \in Nat : ls = Len(scopes) /\ lc = Len(current_id)
  OBVIOUS
<1>4. PICK ns \in Nat, nc \in Nat : ns = Len(scopes') /\ nc = Len(current_id')
  OBVIOUS
<1>5. /\ ls - s - 2 >= 0 /\ lc - d - 2 >= 0
      /\ errors = {} => ls - s - 2 = 0 /\ lc - d - 2 = 0
  BY <1>2, <1>3 DEF DepthInv, ScopeDepth, IdDepth
<1>6. /\ ScopeDepth' = ns - (s + ds) - 2
      /\ IdDepth' = nc - (d + dd) - 2
  BY <1>2, <1>4 DEF ScopeDepth, IdDepth
<1>7. ns >= ls + ds /\ nc >= lc + dd /\ (errors' = {} => ns = ls + ds /\ nc = lc + dd)
  BY <1>3, <1>4
<1>8. ScopeDepth' >= 0 /\ IdDepth' >= 0
  BY <1>5, <1>6, <1>7
<1>9. errors' = {} => ScopeDepth' = 0 /\ IdDepth' = 0
  BY <1>1, <1>5, <1>6, <1>7
<1>10. errors' = {} => \A i \in DOMAIN unit' : ids'[i].id # Default => Len(ids'[i].id) = 2
  BY <1>1 DEF DepthInv
<1> QED
  BY <1>8, <1>9, <1>10 DEF DepthInv

(* Nothing but the depths matters once there is an error. *)
LEMMA AfterError ==
    ASSUME errors' # {}, DepthInv', BoundInv'
    PROVE  ShapeInv'
BY DEF ShapeInv, TailInv, ScopeInv

(* The names of a scope, and that it binds no name to nothing. *)
Binds(scope) == \A k \in DOMAIN scope : scope[k] # None

LEMMA BoundKept ==
    ASSUME BoundInv, UNCHANGED <<unit, ids>>,
           \/ UNCHANGED scopes
           \/ scopes \in Seq(Scope) /\ scopes # <<>> /\ scopes' = Front(scopes)
           \/ scopes \in Seq(Scope) /\ \E sc \in Scope : Binds(sc) /\ scopes' = Append(scopes, sc)
           \/ scopes \in Seq(Scope) /\ scopes # <<>>
              /\ \E sc \in Scope : Binds(sc) /\ scopes' = Append(Front(scopes), sc)
    PROVE  BoundInv'
<1>1. \A i \in DOMAIN scopes : Binds(scopes[i])
  BY DEF BoundInv, Binds
<1>2. ASSUME NEW ss \in Seq(Scope), NEW sc \in Scope, Binds(sc),
             \A i \in DOMAIN ss : Binds(ss[i]), NEW r, r = Append(ss, sc)
      PROVE  \A i \in DOMAIN r : Binds(r[i])
  <2>1. PICK n \in Nat : n = Len(ss) /\ DOMAIN ss = 1..n
    BY LenProperties
  <2>2. DOMAIN r = 1..(n + 1) /\ r[n + 1] = sc /\ \A i \in 1..n : r[i] = ss[i]
    BY <1>2, <2>1, AppendItem, LenProperties
  <2>3. \A i \in 1..(n + 1) : i \in 1..n \/ i = n + 1
    OBVIOUS
  <2> QED
    BY <1>2, <2>1, <2>2, <2>3
<1>3. ASSUME scopes \in Seq(Scope), scopes # <<>>, NEW r, r = Front(scopes)
      PROVE  r \in Seq(Scope) /\ \A i \in DOMAIN r : Binds(r[i])
  <2>1. PICK n \in Nat \ {0} : n = Len(scopes) /\ DOMAIN scopes = 1..n
    BY <1>3, FrontItems, LenProperties
  <2>2. r \in Seq(Scope) /\ Len(r) = n - 1 /\ \A i \in 1..(n - 1) : r[i] = scopes[i]
    BY <1>3, <2>1, FrontItems
  <2>3. DOMAIN r = 1..(n - 1) /\ \A i \in 1..(n - 1) : i \in 1..n
    BY <2>2, LenProperties
  <2> QED
    BY <1>1, <2>1, <2>2, <2>3
<1>4. \A i \in DOMAIN scopes' : Binds(scopes'[i])
  <2>1. CASE UNCHANGED scopes
    BY <1>1, <2>1
  <2>2. CASE scopes \in Seq(Scope) /\ scopes # <<>> /\ scopes' = Front(scopes)
    BY <1>3, <2>2
  <2>3. CASE scopes \in Seq(Scope) /\ \E sc \in Scope : Binds(sc) /\ scopes' = Append(scopes, sc)
    BY <1>1, <1>2, <2>3
  <2>4. CASE scopes \in Seq(Scope) /\ scopes # <<>>
              /\ \E sc \in Scope : Binds(sc) /\ scopes' = Append(Front(scopes), sc)
    <3>1. PICK g : g = Front(scopes)
      OBVIOUS
    <3>2. g \in Seq(Scope) /\ \A i \in DOMAIN g : Binds(g[i])
      BY <1>3, <2>4, <3>1
    <3> QED
      BY <1>2, <2>4, <3>1, <3>2
  <2> QED
    BY <2>1, <2>2, <2>3, <2>4
<1> QED
  BY <1>4 DEF BoundInv, Binds

(* A step without an error keeps the sources if it keeps those of the visits *)
(* that it leaves.                                                           *)
LEMMA TailKept ==
    ASSUME TailInv, pass = "expressions", visits # <<>>, errors \subseteq errors',
           visits'[1] = visits[1],
           (errors' = {} /\ Spine(visits)
              /\ (Len(visits) >= 2 =>
                    TopSource(visits[Len(visits) - 1], visits[Len(visits)], lvalues)))
              => /\ Spine(visits')
                 /\ Len(visits') >= 2 =>
                      TopSource(visits'[Len(visits') - 1], visits'[Len(visits')], lvalues')
    PROVE  TailInv'
BY DEF TailInv

(* The same for the scopes: those of the function stay below the visits.     *)
LEMMA ScopeKept ==
    ASSUME ScopeInv, pass = "expressions", visits # <<>>, UNCHANGED <<unit, pass, item>>,
           errors \subseteq errors', visits' # <<>>,
           \A m : errors' = {} /\ Aligned(scopes, visits, m) =>
              /\ Len(scopes') >= 3
              /\ \A i \in 1..3 : scopes'[i] = scopes[i]
              /\ \E g : Aligned(scopes', visits', g)
    PROVE  ScopeInv'
<1> SUFFICES ASSUME errors' = {} PROVE ScopeInv'
  BY DEF ScopeInv
<1>1. errors = {}
  OBVIOUS
<1>2. /\ item \in 1..(Len(unit) + 1)
      /\ Singles(scopes[1]) = ItemNames /\ Singles(scopes[2]) = {}
      /\ Singles(scopes[3]) = ParamNames(item)
      /\ \E m : Aligned(scopes, visits, m)
  BY <1>1 DEF ScopeInv
<1>3. /\ Len(scopes') >= 3 /\ \E g : Aligned(scopes', visits', g)
      /\ \A i \in 1..3 : scopes'[i] = scopes[i]
  BY <1>2
<1>5. /\ scopes'[1] = scopes[1] /\ scopes'[2] = scopes[2] /\ scopes'[3] = scopes[3]
  BY <1>3
<1>6. ItemNames' = ItemNames /\ ParamNames(item)' = ParamNames(item)
  BY DEF ItemNames, ParamNames
<1>7. Len(scopes') \in Nat => Len(scopes') >= 2
  BY <1>3
<1> QED
  BY <1>2, <1>3, <1>5, <1>6, <1>7 DEF ScopeInv
LEMMA IdLengths ==
    ASSUME NEW a \in Id, Len(a) >= 2
    PROVE  /\ Len(Push(a)) = Len(a) + 1 /\ Len(Increment(a)) = Len(a)
           /\ Len(Increment(Pop(a))) = Len(a) - 1
<1>1. PICK k \in Nat : k = Len(a)
  BY LenProperties DEF Id
<1>2. Len(Push(a)) = Len(a) + 1
  BY PushProperties
<1>3. Len(Increment(a)) = Len(a)
  BY <1>1, IncrementProperties
<1>4. PICK p : p = Pop(a)
  OBVIOUS
<1>5. p \in Id /\ Len(p) = k - 1
  BY <1>1, <1>4, PopProperties
<1>6. Len(Increment(p)) = k - 1
  BY <1>1, <1>5, IncrementProperties
<1> QED
  BY <1>1, <1>2, <1>3, <1>4, <1>6

LEMMA LastAppended ==
    ASSUME NEW S, NEW s \in Seq(S), NEW e \in S
    PROVE  Append(s, e) # <<>> /\ Last(Append(s, e)) = e
BY AppendItem DEF Last

(* The node on top and the one that it is in. *)
LEMMA TopTwo ==
    ASSUME NEW f \in Seq(Visit), f # <<>>, NEW v \in Visit, NEW e, e = Append(f, v), NEW lv
    PROVE  (Len(e) >= 2 => TopSource(e[Len(e) - 1], e[Len(e)], lv))
              <=> TopSource(f[Len(f)], v, lv)
<1>1. PICK k \in Nat \ {0} : k = Len(f)
  BY FrontItems
<1>2. Len(e) = k + 1 /\ e[k + 1] = v /\ e[k] = f[k]
  BY <1>1, AppendItem
<1>3. (k + 1) - 1 = k /\ k + 1 >= 2
  OBVIOUS
<1> QED
  BY <1>1, <1>2, <1>3

LEMMA AlignedDeep ==
    ASSUME NEW ss \in Seq(Scope), NEW vs \in Seq(Visit), vs # <<>>, NEW m, Aligned(ss, vs, m)
    PROVE  Len(ss) >= 3
<1>1. PICK k \in Nat \ {0} : k = Len(vs)
  BY FrontItems
<1>2. 1 \in 1..k /\ k \in 1..k /\ 1 <= k
  OBVIOUS
<1>3. \A i, j \in 1..k : i <= j => m[i] <= m[j]
  BY <1>1 DEF Aligned
<1>4. m[1] <= m[k]
  BY <1>2, <1>3
<1>5. m[1] = 3 /\ m[k] = Len(ss)
  BY <1>1 DEF Aligned
<1> QED
  BY <1>4, <1>5

LEMMA BlockBeginShape ==
    ASSUME IInv, ShapeInv, NEW empty \in BOOLEAN, BlockBegin(empty)
    PROVE  ShapeInv'
<1> DEFINE v == [top EXCEPT !.phase = IF empty THEN "last" ELSE "stmts",
                            !.id = current_id,
                            !.source = IF HasSource THEN Last(lvalues) ELSE None]
<1>1. /\ pass = "expressions" /\ visits # <<>> /\ top.node = "block" /\ top.phase = "start"
      /\ current_id' = Push(current_id) /\ scopes' = Append(scopes, <<>>)
      /\ UNCHANGED <<unit, pass, item, ids>>
  BY DEF BlockBegin, AtNode, NewScope
<1>2. PICK f : f = Front(visits)
  OBVIOUS
<1>3. /\ f \in Seq(Visit) /\ f # <<>> /\ Len(f) \in Nat \ {0} /\ top \in Visit
      /\ Len(f) + 1 = Len(visits)
      /\ visits \in Seq(Visit) /\ visits = Append(f, top)
      /\ \A u \in Visit : Under(u) = Append(f, u)
      /\ \A u : Append(f, u)[1] = visits[1]
      /\ current_id \in Id /\ Len(current_id) \in Nat /\ Len(current_id) >= 2
      /\ current_id # None
      /\ scopes \in Seq(Scope) /\ Len(scopes) \in Nat /\ lvalues \in Seq(Id)
  BY <1>1, <1>2, InnerTypes
<1>4. <<>> \in Scope /\ Binds(<<>>) /\ Singles(<<>>) = {}
  <2>1. <<>> \in [{} -> Id]
    OBVIOUS
  <2> QED
    BY <2>1 DEF Scope, Binds, Singles
<1>5. Len(scopes') = Len(scopes) + 1 /\ \A i \in 1..Len(scopes) : scopes'[i] = scopes[i]
  BY <1>1, <1>3, <1>4, AppendItem
<1>6. Len(current_id') = Len(current_id) + 1
  BY <1>1, <1>3, IdLengths
<1>7. BoundInv'
  BY <1>1, <1>3, <1>4, BoundKept DEF ShapeInv
<1>8. top \notin Scoped /\ top \notin Deeper
  BY <1>1 DEF Scoped, Deeper
<1>9. /\ CountIn(f, Scoped) \in Nat /\ CountIn(f, Deeper) \in Nat
      /\ CountIn(visits, Scoped) = CountIn(f, Scoped)
      /\ CountIn(visits, Deeper) = CountIn(f, Deeper)
      /\ \A u \in Visit : u \in Scoped /\ u \in Deeper =>
            /\ CountIn(Append(f, u), Scoped) = CountIn(f, Scoped) + 1
            /\ CountIn(Append(f, u), Deeper) = CountIn(f, Deeper) + 1
  BY <1>3, <1>8, CountTop
<1>10. v \in Visit /\ v.node = "block" /\ v.phase \in {"stmts", "last"} /\ v.id = current_id
       /\ v.source = (IF HasSource THEN Last(lvalues) ELSE None)
       /\ v.tail = top.tail /\ v.names = top.names
  <2>1. (IF HasSource THEN Last(lvalues) ELSE None) \in Id
    BY <1>3, SourceTypes
  <2>2. PICK src \in Id : src = IF HasSource THEN Last(lvalues) ELSE None
    BY <2>1
  <2>3. PICK ph \in {"stmts", "last"} : ph = IF empty THEN "last" ELSE "stmts"
    OBVIOUS
  <2>4. v = [top EXCEPT !.phase = ph, !.id = current_id, !.source = src]
    BY <2>2, <2>3
  <2> HIDE DEF v
  <2>5. v \in Visit
    BY <1>3, <2>3, <2>4, VisitChanges
  <2> QED
    BY <1>1, <1>3, <2>2, <2>3, <2>4, <2>5 DEF Visit
<1>11. v \in Scoped /\ v \in Deeper
  BY <1>10 DEF Scoped, Deeper
<1> HIDE DEF v
<1>12. CASE HasSource /\ empty
  <2>1. visits' = f /\ errors' = errors \cup {"EmptyBlock"}
    BY <1>2, <1>12 DEF BlockBegin, Report
  <2>2. DepthInv'
    <3>1. /\ CountIn(visits', Scoped) = CountIn(visits, Scoped) + 0
          /\ CountIn(visits', Deeper) = CountIn(visits, Deeper) + 0
      BY <1>9, <2>1
    <3>2. /\ CountIn(visits, Scoped) \in Nat /\ CountIn(visits, Deeper) \in Nat
          /\ Len(scopes') \in Nat /\ Len(current_id') \in Nat
          /\ Len(scopes') >= Len(scopes) + 0 /\ Len(current_id') >= Len(current_id) + 0
          /\ errors' # {}
      BY <1>3, <1>5, <1>6, <1>9, <2>1
    <3>3. errors \subseteq errors'
      BY <2>1
    <3> QED
      BY <1>1, <1>3, <3>1, <3>2, <3>3, DepthKept DEF ShapeInv
  <2> QED
    BY <1>7, <2>1, <2>2, AfterError
<1>13. CASE ~(HasSource /\ empty)
  <2>1. /\ visits' = Append(f, v) /\ errors' = errors
        /\ lvalues' = IF HasSource THEN Append(PopSource, None) ELSE lvalues
    BY <1>3, <1>10, <1>13 DEF BlockBegin, v
  <2>2. DepthInv'
    <3>1. /\ CountIn(visits', Scoped) = CountIn(visits, Scoped) + 1
          /\ CountIn(visits', Deeper) = CountIn(visits, Deeper) + 1
      BY <1>9, <1>10, <1>11, <2>1
    <3>2. /\ CountIn(visits, Scoped) \in Nat /\ CountIn(visits, Deeper) \in Nat
          /\ Len(scopes') \in Nat /\ Len(current_id') \in Nat
          /\ Len(scopes') = Len(scopes) + 1 /\ Len(current_id') = Len(current_id) + 1
          /\ Len(scopes') >= Len(scopes) + 1 /\ Len(current_id') >= Len(current_id) + 1
      BY <1>3, <1>5, <1>6, <1>9
    <3> QED
      BY <1>1, <1>3, <2>1, <3>1, <3>2, DepthKept DEF ShapeInv
  <2>3. TailInv'
    <3>1. ASSUME Spine(visits),
                 Len(visits) >= 2 =>
                    TopSource(visits[Len(visits) - 1], visits[Len(visits)], lvalues)
          PROVE  /\ Spine(visits')
                 /\ Len(visits') >= 2 =>
                      TopSource(visits'[Len(visits') - 1], visits'[Len(visits')], lvalues')
      <4> DEFINE p == f[Len(f)]
      <4>1. TopSource(p, top, lvalues)
        BY <1>3, <3>1, TopTwo
      <4>2. Spine(f) /\ p.id # None /\ (Len(f) >= 2 => Link(p, top))
        BY <1>3, <3>1, SpineUp
      <4>3. HasSource = Sourced(lvalues)
        BY DEF HasSource, Sourced
      <4>4. v.source = IF v.tail THEN p.id ELSE None
        BY <1>1, <1>10, <4>1, <4>3 DEF TopSource
      <4>5. Len(f) >= 2 => Link(p, v)
        BY <1>1, <1>10, <4>2 DEF Link
      <4>6. Spine(visits')
        BY <1>3, <1>10, <2>1, <4>2, <4>4, <4>5, SpineDown
      <4>7. ~Sourced(lvalues')
        <5>1. CASE HasSource
          <6>1. PopSource \in Seq(Id) /\ None \in Id
            BY <1>3, SourceTypes
          <6> QED
            BY <2>1, <5>1, <6>1, LastAppended DEF Sourced
        <5>2. CASE ~HasSource
          BY <2>1, <4>3, <5>2
        <5> QED
          BY <5>1, <5>2
      <4>8. TopSource(p, v, lvalues')
        BY <1>10, <4>7 DEF TopSource
      <4> QED
        BY <1>3, <1>10, <2>1, <4>6, <4>8, TopTwo
    <3> QED
      BY <1>1, <1>3, <2>1, <3>1, TailKept DEF ShapeInv
  <2>4. ScopeInv'
    <3>1. ASSUME NEW m, Aligned(scopes, visits, m)
          PROVE  /\ Len(scopes') >= 3
                 /\ \A i \in 1..3 : scopes'[i] = scopes[i]
                 /\ \E g : Aligned(scopes', visits', g)
      <4>1. top.names = {} /\ Aligned(scopes, f, Front(m))
        BY <1>3, <1>8, <3>1, AlignedUp
      <4>2. Aligned(scopes', visits', Append(Front(m), Len(scopes) + 1))
        BY <1>1, <1>3, <1>4, <1>10, <1>11, <2>1, <4>1, AlignedDown
      <4>3. Len(scopes) >= 3
        BY <1>1, <1>3, <3>1, AlignedDeep
      <4> QED
        BY <1>3, <1>5, <4>2, <4>3
    <3>2. visits' # <<>>
      <4>1. Append(f, v) # <<>>
        BY <1>3, <1>10, AppendItem
      <4> QED
        BY <2>1, <4>1
    <3> QED
      BY <1>1, <2>1, <3>1, <3>2, ScopeKept DEF ShapeInv
  <2> QED
    BY <1>7, <2>2, <2>3, <2>4 DEF ShapeInv
<1> QED
  BY <1>12, <1>13

(* Changing the node on top, but not whether it has a scope or its names. *)
LEMMA AlignedStay ==
    ASSUME NEW ss \in Seq(Scope), NEW f \in Seq(Visit), f # <<>>, NEW t \in Visit,
           NEW v \in Visit, v \in Scoped <=> t \in Scoped, v.names = t.names,
           NEW m, Aligned(ss, Append(f, t), m)
    PROVE  \E g : Aligned(ss, Append(f, v), g)
<1>1. CASE t \in Scoped
  <2>1. /\ Len(ss) >= 4 /\ Singles(ss[Len(ss)]) = t.names
        /\ Aligned(Front(ss), f, Front(m))
    BY <1>1, AlignedUp
  <2>2. ss # <<>>
    <3>1. Len(<<>>) = 0
      OBVIOUS
    <3> QED
      BY <2>1, <3>1
  <2>3. /\ Front(ss) \in Seq(Scope) /\ ss[Len(ss)] \in Scope
        /\ [ss EXCEPT ![Len(ss)] = ss[Len(ss)]] = Append(Front(ss), ss[Len(ss)])
    BY <2>2, FrontItems, ReplaceLast
  <2>4. [ss EXCEPT ![Len(ss)] = ss[Len(ss)]] = ss
    OBVIOUS
  <2>5. Append(Front(ss), ss[Len(ss)]) = ss
    BY <2>3, <2>4
  <2>6. Aligned(Append(Front(ss), ss[Len(ss)]), Append(f, v),
                Append(Front(m), Len(Front(ss)) + 1))
    BY <1>1, <2>1, <2>3, AlignedDown
  <2> QED
    BY <2>5, <2>6
<1>2. CASE t \notin Scoped
  <2>1. t.names = {} /\ Aligned(ss, f, Front(m))
    BY <1>2, AlignedUp
  <2>2. Aligned(ss, Append(f, v), Append(Front(m), Len(ss)))
    BY <1>2, <2>1, AlignedDown
  <2> QED
    BY <2>2
<1> QED
  BY <1>1, <1>2

(* The sources for the node that contains the one that ends. *)
LEMMA SourceUp ==
    ASSUME NEW f \in Seq(Visit), Len(f) >= 2, f[Len(f)].phase # "start", NEW t \in Visit,
           Spine(Append(f, t)), NEW lv, TopSource(f[Len(f)], t, lv)
    PROVE  TopSource(f[Len(f) - 1], f[Len(f)], lv)
<1>1. f # <<>>
  <2>1. Len(<<>>) = 0
    OBVIOUS
  <2> QED
    BY <2>1
<1>2. Link(f[Len(f)], t)
  BY <1>1, SpineUp
<1> QED
  BY <1>2 DEF Link, TopSource

(* A node that has begun ends. *)
LEMMA LeaveShape ==
    ASSUME IInv, ShapeInv, pass = "expressions", visits # <<>>,
           top.node \in {"block", "if"}, top.phase # "start",
           UNCHANGED <<unit, pass, item, ids, lvalues, errors>>,
           current_id' = Increment(Pop(current_id)), visits' = Front(visits),
           scopes' = IF top \in Scoped THEN Front(scopes) ELSE scopes
    PROVE  ShapeInv'
<1>2. PICK f : f = Front(visits)
  OBVIOUS
<1>3. /\ f \in Seq(Visit) /\ f # <<>> /\ Len(f) \in Nat \ {0} /\ top \in Visit
      /\ Len(f) + 1 = Len(visits)
      /\ visits \in Seq(Visit) /\ visits = Append(f, top)
      /\ \A u : Append(f, u)[1] = visits[1]
      /\ Len(f) >= 2 => f[Len(f)].phase # "start" /\ f[Len(f)].node \in {"block", "if"}
      /\ current_id \in Id /\ Len(current_id) \in Nat /\ Len(current_id) >= 2
      /\ scopes \in Seq(Scope) /\ Len(scopes) \in Nat /\ lvalues \in Seq(Id)
  BY <1>2, InnerTypes
<1>4. Len(current_id') = Len(current_id) - 1
  BY <1>3, IdLengths
<1>5. top \in Deeper
  BY <1>3 DEF Deeper
<1>6. /\ CountIn(f, Scoped) \in Nat /\ CountIn(f, Deeper) \in Nat
      /\ CountIn(visits, Scoped) = CountIn(f, Scoped) + (IF top \in Scoped THEN 1 ELSE 0)
      /\ CountIn(visits, Deeper) = CountIn(f, Deeper) + 1
  BY <1>3, <1>5, CountTop
<1>7. Len(scopes) >= 2 /\ scopes # <<>>
  <2>1. PICK n \in Nat, c \in Nat : n = Len(scopes) /\ c = CountIn(visits, Scoped)
    BY <1>3, <1>6
  <2>2. n - c - 2 >= 0
    BY <2>1 DEF ShapeInv, DepthInv, ScopeDepth
  <2>3. Len(<<>>) = 0
    OBVIOUS
  <2> QED
    BY <2>1, <2>2, <2>3
<1>8. /\ Front(scopes) \in Seq(Scope) /\ Len(Front(scopes)) = Len(scopes) - 1
      /\ \A i \in 1..(Len(scopes) - 1) : Front(scopes)[i] = scopes[i]
  BY <1>3, <1>7, FrontItems
<1>9. BoundInv'
  BY <1>3, <1>7, BoundKept DEF ShapeInv
<1>10. DepthInv'
  <2>1. PICK ds \in {-1, 0} : ds = IF top \in Scoped THEN -1 ELSE 0
    OBVIOUS
  <2>2. Len(scopes') = Len(scopes) + ds
    BY <1>3, <1>8, <2>1
  <2>3. CountIn(f, Scoped) = CountIn(visits, Scoped) + ds
    BY <1>6, <2>1
  <2>4. CountIn(f, Deeper) = CountIn(visits, Deeper) + (-1)
    BY <1>6
  <2>5. /\ CountIn(visits', Scoped) = CountIn(visits, Scoped) + ds
        /\ CountIn(visits', Deeper) = CountIn(visits, Deeper) + (-1)
    BY <1>2, <2>3, <2>4
  <2>6. /\ CountIn(visits, Scoped) \in Nat /\ CountIn(visits, Deeper) \in Nat
        /\ Len(scopes') \in Nat /\ Len(current_id') \in Nat
        /\ Len(scopes') >= Len(scopes) + ds
        /\ Len(current_id') >= Len(current_id) + (-1)
        /\ Len(current_id') = Len(current_id) + (-1)
    BY <1>3, <1>4, <1>6, <1>7, <2>1, <2>2
  <2> QED
    BY <1>3, <2>1, <2>2, <2>5, <2>6, DepthKept DEF ShapeInv
<1>11. visits'[1] = visits[1] /\ visits' # <<>>
  <2>1. 1 \in 1..Len(f) /\ \A i \in 1..Len(f) : Append(f, top)[i] = f[i]
    BY <1>3, AppendItem
  <2> QED
    BY <1>2, <1>3, <2>1
<1>12. TailInv'
  <2>1. ASSUME Spine(visits),
               Len(visits) >= 2 =>
                  TopSource(visits[Len(visits) - 1], visits[Len(visits)], lvalues)
        PROVE  /\ Spine(visits')
               /\ Len(visits') >= 2 =>
                    TopSource(visits'[Len(visits') - 1], visits'[Len(visits')], lvalues')
    <3>1. TopSource(f[Len(f)], top, lvalues)
      BY <1>3, <2>1, TopTwo
    <3>2. Spine(f)
      BY <1>3, <2>1, SpineUp
    <3>3. Len(f) >= 2 => TopSource(f[Len(f) - 1], f[Len(f)], lvalues)
      BY <1>3, <2>1, <3>1, SourceUp
    <3> QED
      BY <1>2, <3>2, <3>3
  <2> QED
    BY <1>3, <1>11, <2>1, TailKept DEF ShapeInv
<1>13. ScopeInv'
  <2>1. ASSUME NEW m, Aligned(scopes, visits, m)
        PROVE  /\ Len(scopes') >= 3
               /\ \A i \in 1..3 : scopes'[i] = scopes[i]
               /\ \E g : Aligned(scopes', visits', g)
    <3>1. IF top \in Scoped THEN Len(scopes) >= 4 /\ Aligned(Front(scopes), f, Front(m))
                            ELSE Aligned(scopes, f, Front(m))
      BY <1>3, <2>1, AlignedUp
    <3>2. Len(scopes) >= 3
      BY <1>3, <2>1, AlignedDeep
    <3>3. CASE top \in Scoped
      <4>1. \A i \in 1..3 : i \in 1..(Len(scopes) - 1)
        BY <1>3, <3>1, <3>3
      <4> QED
        BY <1>2, <1>3, <1>8, <3>1, <3>3, <4>1
    <3>4. CASE top \notin Scoped
      BY <1>2, <3>1, <3>2, <3>4
    <3> QED
      BY <3>3, <3>4
  <2> QED
    BY <1>11, <2>1, ScopeKept DEF ShapeInv
<1> QED
  BY <1>9, <1>10, <1>12, <1>13 DEF ShapeInv

LEMMA BlockEndShape ==
    ASSUME IInv, ShapeInv, BlockEnd
    PROVE  ShapeInv'
<1>1. pass = "expressions" /\ visits # <<>> /\ top.node = "block" /\ top.phase = "last"
  BY DEF BlockEnd, AtNode
<1>2. top \in Visit
  BY <1>1, InBody
<1>3. top \in Scoped
  BY <1>1, <1>2 DEF Scoped
<1> QED
  BY <1>1, <1>3, LeaveShape DEF BlockEnd

LEMMA IfEndShape ==
    ASSUME IInv, ShapeInv, IfEnd
    PROVE  ShapeInv'
<1>1. pass = "expressions" /\ visits # <<>> /\ top.node = "if" /\ top.phase = "stmts"
  BY DEF IfEnd, AtNode
<1>2. top \notin Scoped
  BY <1>1 DEF Scoped
<1> QED
  BY <1>1, <1>2, LeaveShape DEF IfEnd

LEMMA DepthStays ==
    ASSUME DepthInv, pass = "expressions", visits # <<>>, UNCHANGED <<unit, pass, ids>>,
           errors \subseteq errors',
           CountIn(visits, Scoped) \in Nat, CountIn(visits, Deeper) \in Nat,
           Len(scopes) \in Nat, Len(current_id) \in Nat,
           CountIn(visits', Scoped) = CountIn(visits, Scoped),
           CountIn(visits', Deeper) = CountIn(visits, Deeper),
           Len(scopes') = Len(scopes), Len(current_id') = Len(current_id)
    PROVE  DepthInv'
<1>1. /\ CountIn(visits', Scoped) = CountIn(visits, Scoped) + 0
      /\ CountIn(visits', Deeper) = CountIn(visits, Deeper) + 0
      /\ Len(scopes') = Len(scopes) + 0 /\ Len(current_id') = Len(current_id) + 0
      /\ Len(scopes') >= Len(scopes) + 0 /\ Len(current_id') >= Len(current_id) + 0
      /\ Len(scopes') \in Nat /\ Len(current_id') \in Nat /\ 0 \in Int
  OBVIOUS
<1> QED
  BY <1>1, DepthKept

LEMMA FrontAndLast ==
    ASSUME NEW S, NEW ss \in Seq(S), ss # <<>>
    PROVE  ss = Append(Front(ss), ss[Len(ss)])
<1>1. ss[Len(ss)] \in S
  BY FrontItems
<1>2. [ss EXCEPT ![Len(ss)] = ss[Len(ss)]] = Append(Front(ss), ss[Len(ss)])
  BY <1>1, ReplaceLast
<1>3. [ss EXCEPT ![Len(ss)] = ss[Len(ss)]] = ss
  BY SeqDef
<1> QED
  BY <1>2, <1>3

(* A scope with one more key. *)
LEMMA BindScope ==
    ASSUME NEW sc \in Scope, NEW id \in Id, id # None, Binds(sc), NEW key \in Keys
    PROVE  /\ Bind(sc, key, id) \in Scope /\ Binds(Bind(sc, key, id))
           /\ DOMAIN Bind(sc, key, id) = DOMAIN sc \cup {key}
<1>1. PICK D \in SUBSET Keys : sc \in [D -> Id]
  BY DEF Scope
<1>2. PICK b : b = Bind(sc, key, id)
  OBVIOUS
<1>3. b = [k \in D \cup {key} |-> IF k = key THEN id ELSE sc[k]]
  BY <1>1, <1>2 DEF Bind
<1>4. D \cup {key} \in SUBSET Keys /\ b \in [D \cup {key} -> Id]
  BY <1>1, <1>3
<1>5. b \in Scope
  BY <1>4 DEF Scope
<1>6. Binds(b)
  BY <1>1, <1>3 DEF Binds
<1> QED
  BY <1>1, <1>2, <1>3, <1>5, <1>6

(* The name that a key adds to the names of a scope, if any. *)
KeyNames(key) == {n \in Idents : <<n>> = key}

LEMMA KeyNamesAre ==
    ASSUME NEW name \in Idents
    PROVE  /\ <<name>> \in Keys /\ KeyNames(<<name>>) = {name}
           /\ \A fn \in Idents : <<fn, name>> \in Keys /\ KeyNames(<<fn, name>>) = {}
<1>1. \A n \in Idents : <<n>> = <<name>> <=> n = name
  OBVIOUS
<1>2. \A n \in Idents, fn \in Idents : <<n>> # <<fn, name>>
  OBVIOUS
<1> QED
  BY <1>1, <1>2 DEF Keys, KeyNames

LEMMA BindProperties ==
    ASSUME NEW sc \in Scope, NEW id \in Id, id # None, Binds(sc), NEW key \in Keys
    PROVE  /\ Bind(sc, key, id) \in Scope /\ Binds(Bind(sc, key, id))
           /\ Singles(Bind(sc, key, id)) = Singles(sc) \cup KeyNames(key)
<1>1. PICK b : b = Bind(sc, key, id)
  OBVIOUS
<1>2. b \in Scope /\ Binds(b) /\ DOMAIN b = DOMAIN sc \cup {key}
  BY <1>1, BindScope
<1>3. Singles(b) = Singles(sc) \cup KeyNames(key)
  BY <1>2 DEF Singles, KeyNames
<1> QED
  BY <1>1, <1>2, <1>3

(* DefineLocal changes the scope on top. *)
LEMMA DefineLocalIs ==
    ASSUME NEW ss \in Seq(Scope), ss # <<>>, NEW key \in Keys, NEW id \in Id
    PROVE  DefineLocal(ss, key, id) = Append(Front(ss), Bind(ss[Len(ss)], key, id))
<1>1. PICK b : b = Bind(ss[Len(ss)], key, id)
  OBVIOUS
<1>2. DefineLocal(ss, key, id) = [ss EXCEPT ![Len(ss)] = b]
  BY <1>1 DEF DefineLocal, Define
<1>3. ss \in Seq(Scope \cup {b}) /\ b \in Scope \cup {b}
  BY SeqDef
<1>4. [ss EXCEPT ![Len(ss)] = b] = Append(Front(ss), b)
  BY <1>3, ReplaceLast
<1> QED
  BY <1>1, <1>2, <1>4

(* The visitor of a block has visited a statement that is no node, and has   *)
(* declared the names that its scope has got.                                *)
LEMMA StayShape ==
    ASSUME IInv, ShapeInv, pass = "expressions", visits # <<>>,
           top.node = "block", top.phase # "start",
           UNCHANGED <<unit, pass, item, ids>>, errors \subseteq errors',
           NEW v \in Visit, v.node = "block", v.phase # "start",
           v.id = top.id, v.source = top.source, v.tail = top.tail,
           visits' = Under(v),
           \A p : TopSource(p, top, lvalues) /\ top.id # None /\ p.id # None
                    /\ top.source = (IF top.tail THEN p.id ELSE None)
                       => TopSource(p, v, lvalues'),
           \/ v.names = top.names /\ UNCHANGED <<scopes, current_id>>
           \/ \E name \in Idents :
                 /\ v.names = top.names \cup {name}
                 /\ scopes' = DefineLocal(scopes, <<name>>, current_id)
                 /\ current_id' = Increment(current_id)
    PROVE  ShapeInv'
<1>2. PICK f : f = Front(visits)
  OBVIOUS
<1>3. /\ f \in Seq(Visit) /\ f # <<>> /\ Len(f) \in Nat \ {0} /\ top \in Visit
      /\ Len(f) + 1 = Len(visits)
      /\ visits \in Seq(Visit) /\ visits = Append(f, top)
      /\ visits' = Append(f, v)
      /\ \A u : Append(f, u)[1] = visits[1]
      /\ current_id \in Id /\ Len(current_id) \in Nat /\ Len(current_id) >= 2
      /\ current_id # None
      /\ scopes \in Seq(Scope) /\ Len(scopes) \in Nat /\ lvalues \in Seq(Id)
  BY <1>2, InnerTypes
<1>5. top \in Deeper /\ top \in Scoped /\ v \in Deeper /\ v \in Scoped
  BY <1>3 DEF Deeper, Scoped
<1>6. /\ CountIn(f, Scoped) \in Nat /\ CountIn(f, Deeper) \in Nat
      /\ CountIn(visits, Scoped) = CountIn(f, Scoped) + 1
      /\ CountIn(visits, Deeper) = CountIn(f, Deeper) + 1
      /\ CountIn(visits', Scoped) = CountIn(f, Scoped) + 1
      /\ CountIn(visits', Deeper) = CountIn(f, Deeper) + 1
  BY <1>3, <1>5, CountTop
<1>7. Len(scopes) >= 2 /\ scopes # <<>>
  <2>1. PICK n \in Nat, c \in Nat : n = Len(scopes) /\ c = CountIn(visits, Scoped)
    BY <1>3, <1>6
  <2>2. n - c - 2 >= 0
    BY <2>1 DEF ShapeInv, DepthInv, ScopeDepth
  <2>3. Len(<<>>) = 0
    OBVIOUS
  <2> QED
    BY <2>1, <2>2, <2>3
<1>8. PICK l : l = scopes[Len(scopes)]
  OBVIOUS
<1>9. /\ Front(scopes) \in Seq(Scope) /\ Len(Front(scopes)) = Len(scopes) - 1
      /\ \A i \in 1..(Len(scopes) - 1) : Front(scopes)[i] = scopes[i]
      /\ l \in Scope
      /\ scopes = Append(Front(scopes), l)
  <2>1. l \in Scope
    BY <1>3, <1>7, <1>8, FrontItems
  <2>2. scopes = Append(Front(scopes), l)
    BY <1>3, <1>7, <1>8, FrontAndLast
  <2> QED
    BY <1>3, <1>7, <2>1, <2>2, FrontItems
<1>10. Binds(l)
  <2>1. Len(scopes) \in DOMAIN scopes
    BY <1>3, <1>7, LenProperties
  <2> QED
    BY <1>8, <2>1 DEF ShapeInv, BoundInv, Binds
<1>11. /\ Len(current_id') = Len(current_id)
       /\ \E sc \in Scope : /\ Binds(sc) /\ scopes' = Append(Front(scopes), sc)
                            /\ Singles(l) = top.names => Singles(sc) = v.names
  <2>1. CASE v.names = top.names /\ UNCHANGED <<scopes, current_id>>
    BY <1>9, <1>10, <2>1
  <2>2. ASSUME NEW name \in Idents,
               v.names = top.names \cup {name},
               scopes' = DefineLocal(scopes, <<name>>, current_id),
               current_id' = Increment(current_id)
        PROVE  <1>11!1 /\ <1>11!2
    <3>0. PICK key \in Keys : key = <<name>>
      BY KeyNamesAre
    <3>4. KeyNames(key) = {name}
      BY <3>0, KeyNamesAre
    <3>1. scopes' = Append(Front(scopes), Bind(l, key, current_id))
      <4>1. scopes' = DefineLocal(scopes, key, current_id)
        BY <2>2, <3>0
      <4> QED
        BY <1>3, <1>7, <1>8, <4>1, DefineLocalIs
    <3>2. /\ Bind(l, key, current_id) \in Scope
          /\ Binds(Bind(l, key, current_id))
          /\ Singles(Bind(l, key, current_id)) = Singles(l) \cup {name}
      BY <1>3, <1>9, <1>10, <3>4, BindProperties
    <3>3. Len(current_id') = Len(current_id)
      BY <1>3, <2>2, IdLengths
    <3> QED
      BY <2>2, <3>1, <3>2, <3>3
  <2> QED
    BY <2>1, <2>2
<1>12. PICK sc \in Scope : /\ Binds(sc) /\ scopes' = Append(Front(scopes), sc)
                           /\ Singles(l) = top.names => Singles(sc) = v.names
  BY <1>11
<1>13. Len(scopes') = Len(scopes) /\ \A i \in 1..(Len(scopes) - 1) : scopes'[i] = scopes[i]
  <2>1. /\ Len(Append(Front(scopes), sc)) = Len(Front(scopes)) + 1
        /\ \A i \in 1..Len(Front(scopes)) : Append(Front(scopes), sc)[i] = Front(scopes)[i]
    BY <1>9, AppendItem
  <2> QED
    BY <1>3, <1>9, <1>12, <2>1
<1>14. BoundInv'
  BY <1>3, <1>7, <1>12, BoundKept DEF ShapeInv
<1>15. DepthInv'
  <2>1. /\ CountIn(visits', Scoped) = CountIn(visits, Scoped)
        /\ CountIn(visits', Deeper) = CountIn(visits, Deeper)
        /\ CountIn(visits, Scoped) \in Nat /\ CountIn(visits, Deeper) \in Nat
        /\ Len(scopes') = Len(scopes) /\ Len(current_id') = Len(current_id)
    BY <1>3, <1>6, <1>11, <1>13
  <2>2. DepthInv /\ Len(scopes) \in Nat /\ Len(current_id) \in Nat
    BY <1>3 DEF ShapeInv
  <2> QED
    BY <2>1, <2>2, DepthStays
<1>16. visits'[1] = visits[1] /\ visits' # <<>>
  <2>1. Append(f, v) # <<>>
    BY <1>3, LastAppended
  <2> QED
    BY <1>3, <2>1
<1>17. TailInv'
  <2>1. ASSUME Spine(visits),
               Len(visits) >= 2 =>
                  TopSource(visits[Len(visits) - 1], visits[Len(visits)], lvalues)
        PROVE  /\ Spine(visits')
               /\ Len(visits') >= 2 =>
                    TopSource(visits'[Len(visits') - 1], visits'[Len(visits')], lvalues')
    <3> DEFINE p == f[Len(f)]
    <3>1. TopSource(p, top, lvalues)
      BY <1>3, <2>1, TopTwo
    <3>2. /\ Spine(f) /\ p.id # None /\ (Len(f) >= 2 => Link(p, top))
          /\ top.id # None /\ top.source = IF top.tail THEN p.id ELSE None
      BY <1>3, <2>1, SpineUp
    <3>3. Len(f) >= 2 => Link(p, v)
      BY <3>2 DEF Link
    <3>4. Spine(visits')
      BY <1>3, <3>2, <3>3, SpineDown
    <3>5. TopSource(p, v, lvalues')
      BY <3>1, <3>2
    <3> QED
      BY <1>3, <3>4, <3>5, TopTwo
  <2> QED
    BY <1>3, <1>16, <2>1, TailKept DEF ShapeInv
<1>18. ScopeInv'
  <2>1. ASSUME NEW m, Aligned(scopes, visits, m)
        PROVE  /\ Len(scopes') >= 3
               /\ \A i \in 1..3 : scopes'[i] = scopes[i]
               /\ \E g : Aligned(scopes', visits', g)
    <3>1. /\ Len(scopes) >= 4 /\ Aligned(Front(scopes), f, Front(m))
          /\ Singles(l) = top.names
      BY <1>3, <1>5, <1>8, <2>1, AlignedUp
    <3>2. \A i \in 1..3 : i \in 1..(Len(scopes) - 1)
      BY <1>3, <3>1
    <3>3. Aligned(scopes', visits', Append(Front(m), Len(Front(scopes)) + 1))
      BY <1>3, <1>5, <1>9, <1>12, <3>1, AlignedDown
    <3>4. Len(scopes') >= 3
      BY <1>3, <1>13, <3>1
    <3> QED
      BY <1>13, <3>2, <3>3, <3>4
  <2> QED
    BY <1>3, <1>16, <2>1, ScopeKept DEF ShapeInv
<1> QED
  BY <1>14, <1>15, <1>17, <1>18 DEF ShapeInv

(* The sources after the ones for a statement. *)
LEMMA StmtSources ==
    ASSUME IInv, NEW last \in BOOLEAN, AtStmt(last), top.id # None, NEW p, p.id # None,
           TopSource(p, top, lvalues), top.source = IF top.tail THEN p.id ELSE None
    PROVE  IF last /\ top.tail THEN Sourced(lvalues') /\ Last(lvalues') = top.id
                               ELSE lvalues' = lvalues /\ ~Sourced(lvalues')
<1>1. top.phase = "stmts" /\ top.node = "block" /\ lvalues' = SourcesAt(last) /\ top \in Visit
  BY AtStmtTypes DEF AtStmt
<1>2. lvalues \in Seq(Id)
  BY BuilderTypes
<1>3. CASE last /\ top.tail
  <2>1. lvalues' = Append(PopSource, top.id)
    BY <1>1, <1>3 DEF SourcesAt
  <2>2. top.id \in Id /\ PopSource \in Seq(Id)
    BY <1>1, <1>2, SourceTypes DEF Visit, Id
  <2> QED
    BY <1>3, <2>1, <2>2, LastAppended DEF Sourced
<1>4. CASE ~(last /\ top.tail)
  <2>1. lvalues' = lvalues
    BY <1>1, <1>4 DEF SourcesAt
  <2>2. ~Sourced(lvalues)
    BY <1>1, <1>4 DEF TopSource
  <2> QED
    BY <1>4, <2>1, <2>2
<1> QED
  BY <1>3, <1>4

LEMMA AfterIs ==
    ASSUME IInv, NEW last \in BOOLEAN, AtStmt(last)
    PROVE  /\ After(last).id = top.id /\ After(last).source = top.source
           /\ After(last).tail = top.tail /\ After(last).names = top.names
           /\ After(last).phase = IF last THEN "last" ELSE "stmts"
<1>1. top \in Visit
  BY AtStmtTypes
<1>2. PICK ph \in {"last", "stmts"} : ph = IF last THEN "last" ELSE "stmts"
  OBVIOUS
<1>3. After(last) = [top EXCEPT !.phase = ph]
  BY <1>2 DEF After
<1>4. [top EXCEPT !.phase = ph].phase = ph
  BY <1>1 DEF Visit
<1> QED
  BY <1>2, <1>3, <1>4

(* What a statement of a block that is no node leaves. *)
LEMMA StmtStays ==
    ASSUME IInv, NEW last \in BOOLEAN, AtStmt(last),
           NEW v, v.id = top.id, v.source = top.source, v.tail = top.tail,
           v.phase = IF last THEN "last" ELSE "stmts"
    PROVE  \A p : TopSource(p, top, lvalues) /\ top.id # None /\ p.id # None
                    /\ top.source = (IF top.tail THEN p.id ELSE None)
                       => TopSource(p, v, lvalues')
<1> SUFFICES ASSUME NEW p, TopSource(p, top, lvalues), top.id # None, p.id # None,
                    top.source = IF top.tail THEN p.id ELSE None
             PROVE  TopSource(p, v, lvalues')
  OBVIOUS
<1>1. IF last /\ top.tail THEN Sourced(lvalues') /\ Last(lvalues') = top.id
                          ELSE lvalues' = lvalues /\ ~Sourced(lvalues')
  BY StmtSources
<1> QED
  BY <1>1 DEF TopSource

LEMMA EvaluateShape ==
    ASSUME IInv, ShapeInv, NEW last \in BOOLEAN, NEW expr \in Exprs, Evaluate(last, expr)
    PROVE  ShapeInv'
<1>1. /\ AtStmt(last) /\ visits' = Under(After(last)) /\ UNCHANGED <<scopes, current_id>>
      /\ errors \subseteq errors'
  BY SimpleTypes DEF Evaluate, Check
<1>2. /\ pass = "expressions" /\ visits # <<>> /\ top.node = "block" /\ top.phase = "stmts"
      /\ UNCHANGED <<unit, pass, item, ids>>
      /\ After(last) \in Visit /\ After(last).node = "block"
      /\ After(last).phase \in {"stmts", "last"}
  BY <1>1, AtStmtTypes
<1>3. PICK v \in Visit : v = After(last)
  BY <1>2
<1>4. /\ v.id = top.id /\ v.source = top.source /\ v.tail = top.tail /\ v.names = top.names
      /\ v.phase = IF last THEN "last" ELSE "stmts"
  BY <1>1, <1>3, AfterIs
<1>5. \A p : TopSource(p, top, lvalues) /\ top.id # None /\ p.id # None
               /\ top.source = (IF top.tail THEN p.id ELSE None)
                  => TopSource(p, v, lvalues')
  BY <1>1, <1>4, StmtStays
<1>6. /\ visits' = Under(v) /\ v.node = "block" /\ v.phase # "start" /\ top.phase # "start"
  BY <1>1, <1>2, <1>3
<1> QED
  BY <1>1, <1>2, <1>4, <1>5, <1>6, StayShape

LEMMA DeclareShape ==
    ASSUME IInv, ShapeInv, NEW last \in BOOLEAN, NEW name \in Idents, NEW expr \in Exprs,
           Declare(last, name, expr)
    PROVE  ShapeInv'
<1>1. /\ AtStmt(last) /\ errors \subseteq errors'
      /\ \/ visits' = Under(After(last)) /\ UNCHANGED <<scopes, current_id>>
         \/ /\ visits' = Under([After(last) EXCEPT !.names = @ \cup {name}])
            /\ scopes' = DefineLocal(scopes, <<name>>, current_id)
            /\ current_id' = Increment(current_id)
  BY SimpleTypes DEF Declare, Check, Report
<1>2. /\ pass = "expressions" /\ visits # <<>> /\ top.node = "block" /\ top.phase = "stmts"
      /\ UNCHANGED <<unit, pass, item, ids>>
      /\ After(last) \in Visit /\ After(last).node = "block"
      /\ After(last).phase \in {"stmts", "last"}
  BY <1>1, AtStmtTypes
<1>3. PICK w \in Visit : w = After(last)
  BY <1>2
<1>4. /\ w.id = top.id /\ w.source = top.source /\ w.tail = top.tail /\ w.names = top.names
      /\ w.phase = IF last THEN "last" ELSE "stmts"
  BY <1>1, <1>3, AfterIs
<1>5. \E v \in Visit :
         /\ visits' = Under(v) /\ v.node = "block" /\ v.phase = w.phase
         /\ v.id = w.id /\ v.source = w.source /\ v.tail = w.tail
         /\ \/ v.names = top.names /\ UNCHANGED <<scopes, current_id>>
            \/ /\ v.names = top.names \cup {name}
               /\ scopes' = DefineLocal(scopes, <<name>>, current_id)
               /\ current_id' = Increment(current_id)
  <2>1. CASE visits' = Under(w) /\ UNCHANGED <<scopes, current_id>>
    BY <1>2, <1>3, <1>4, <2>1
  <2>2. CASE /\ visits' = Under([w EXCEPT !.names = @ \cup {name}])
             /\ scopes' = DefineLocal(scopes, <<name>>, current_id)
             /\ current_id' = Increment(current_id)
    <3>1. PICK v : v = [w EXCEPT !.names = @ \cup {name}]
      OBVIOUS
    <3>2. /\ v \in Visit /\ v.node = w.node /\ v.phase = w.phase
          /\ v.id = w.id /\ v.source = w.source /\ v.tail = w.tail
          /\ v.names = w.names \cup {name}
      BY <3>1 DEF Visit
    <3> QED
      BY <1>2, <1>3, <1>4, <2>2, <3>1, <3>2
  <2> QED
    BY <1>1, <1>3, <2>1, <2>2
<1>6. PICK v \in Visit :
         /\ visits' = Under(v) /\ v.node = "block" /\ v.phase = w.phase
         /\ v.id = w.id /\ v.source = w.source /\ v.tail = w.tail
         /\ \/ v.names = top.names /\ UNCHANGED <<scopes, current_id>>
            \/ /\ v.names = top.names \cup {name}
               /\ scopes' = DefineLocal(scopes, <<name>>, current_id)
               /\ current_id' = Increment(current_id)
  BY <1>5
<1>7. /\ v.id = top.id /\ v.source = top.source /\ v.tail = top.tail
      /\ v.phase = IF last THEN "last" ELSE "stmts"
      /\ v.phase # "start" /\ top.phase # "start"
  BY <1>2, <1>3, <1>4, <1>6
<1>8. \A p : TopSource(p, top, lvalues) /\ top.id # None /\ p.id # None
               /\ top.source = (IF top.tail THEN p.id ELSE None)
                  => TopSource(p, v, lvalues')
  BY <1>1, <1>7, StmtStays
<1> QED
  BY <1>1, <1>2, <1>6, <1>7, <1>8, StayShape

(* The visitor goes on to a node w in the one on top, which becomes v. *)
LEMMA EnterShape ==
    ASSUME IInv, ShapeInv, pass = "expressions", visits # <<>>,
           top.node \in {"block", "if"}, top.phase # "start",
           UNCHANGED <<unit, pass, item, ids, scopes, current_id>>, errors \subseteq errors',
           NEW v \in Visit, v.node = top.node, v.phase # "start", v.names = top.names,
           v.id = top.id, v.source = top.source, v.tail = top.tail,
           NEW w \in Visit, w.node \in {"block", "if"}, w.phase = "start", w.names = {},
           visits' = Append(Under(v), w),
           \A p : TopSource(p, top, lvalues) /\ top.id # None /\ p.id # None
                    /\ top.source = (IF top.tail THEN p.id ELSE None)
                       => Link(v, w) /\ TopSource(v, w, lvalues')
    PROVE  ShapeInv'
<1>2. PICK f : f = Front(visits)
  OBVIOUS
<1>3. /\ f \in Seq(Visit) /\ f # <<>> /\ Len(f) \in Nat \ {0} /\ top \in Visit
      /\ Len(f) + 1 = Len(visits)
      /\ visits \in Seq(Visit) /\ visits = Append(f, top)
      /\ visits' = Append(Append(f, v), w)
      /\ \A u : Append(f, u)[1] = visits[1]
      /\ current_id \in Id /\ Len(current_id) \in Nat /\ Len(current_id) >= 2
      /\ scopes \in Seq(Scope) /\ Len(scopes) \in Nat /\ lvalues \in Seq(Id)
  BY <1>2, InnerTypes
<1>4. PICK e : e = Append(f, v)
  OBVIOUS
<1>5. /\ e \in Seq(Visit) /\ e # <<>> /\ e[Len(e)] = v /\ Len(e) >= 2
      /\ Append(e, w) # <<>> /\ Append(e, w)[1] = visits[1]
  <2>1. /\ e \in Seq(Visit) /\ e # <<>> /\ Len(e) = Len(f) + 1 /\ e[Len(f) + 1] = v
    BY <1>3, <1>4, AppendItem
  <2>2. /\ Append(e, w) # <<>> /\ \A i \in 1..Len(e) : Append(e, w)[i] = e[i]
    BY <2>1, AppendItem
  <2>3. 1 \in 1..Len(e) /\ Len(e) >= 2
    BY <1>3, <2>1
  <2> QED
    BY <1>3, <1>4, <2>1, <2>2, <2>3
<1>6. visits' = Append(e, w) /\ visits'[1] = visits[1] /\ visits' # <<>>
  BY <1>3, <1>4, <1>5
<1>7. /\ v \in Deeper /\ top \in Deeper /\ w \notin Deeper
      /\ w \notin Scoped /\ (v \in Scoped <=> top \in Scoped)
  BY <1>3 DEF Deeper, Scoped
<1>8. PICK s \in {0, 1} : s = IF top \in Scoped THEN 1 ELSE 0
  OBVIOUS
<1>9. /\ CountIn(f, Scoped) \in Nat /\ CountIn(f, Deeper) \in Nat
      /\ CountIn(visits, Scoped) = CountIn(f, Scoped) + s
      /\ CountIn(visits, Deeper) = CountIn(f, Deeper) + 1
      /\ CountIn(e, Scoped) = CountIn(f, Scoped) + s
      /\ CountIn(e, Deeper) = CountIn(f, Deeper) + 1
  BY <1>3, <1>4, <1>7, <1>8, CountTop
<1>10. /\ CountIn(Append(e, w), Scoped) = CountIn(e, Scoped) + 0
       /\ CountIn(Append(e, w), Deeper) = CountIn(e, Deeper) + 0
  BY <1>5, <1>7, CountTop
<1>11. DepthInv'
  <2>1. /\ CountIn(visits', Scoped) = CountIn(visits, Scoped)
        /\ CountIn(visits', Deeper) = CountIn(visits, Deeper)
    BY <1>6, <1>9, <1>10
  <2>2. /\ CountIn(visits, Scoped) \in Nat /\ CountIn(visits, Deeper) \in Nat
    BY <1>3, <1>9
  <2>3. DepthInv /\ Len(scopes) \in Nat /\ Len(current_id) \in Nat
    BY <1>3 DEF ShapeInv
  <2> QED
    BY <2>1, <2>2, <2>3, DepthStays
<1>12. BoundInv'
  BY BoundKept DEF ShapeInv
<1>13. TailInv'
  <2>1. ASSUME Spine(visits),
               Len(visits) >= 2 =>
                  TopSource(visits[Len(visits) - 1], visits[Len(visits)], lvalues)
        PROVE  /\ Spine(visits')
               /\ Len(visits') >= 2 =>
                    TopSource(visits'[Len(visits') - 1], visits'[Len(visits')], lvalues')
    <3> DEFINE p == f[Len(f)]
    <3>1. TopSource(p, top, lvalues)
      BY <1>3, <2>1, TopTwo
    <3>2. /\ Spine(f) /\ p.id # None /\ (Len(f) >= 2 => Link(p, top))
          /\ top.id # None /\ top.source = IF top.tail THEN p.id ELSE None
      BY <1>3, <2>1, SpineUp
    <3>3. Len(f) >= 2 => Link(p, v)
      BY <3>2 DEF Link
    <3>4. Spine(e)
      BY <1>3, <1>4, <3>2, <3>3, SpineDown
    <3>5. Link(v, w) /\ TopSource(v, w, lvalues')
      BY <3>1, <3>2
    <3>6. Spine(visits')
      BY <1>5, <1>6, <3>2, <3>4, <3>5, SpineDown
    <3> QED
      BY <1>5, <1>6, <3>5, <3>6, TopTwo
  <2> QED
    BY <1>6, <2>1, TailKept DEF ShapeInv
<1>14. ScopeInv'
  <2>1. ASSUME NEW m, Aligned(scopes, visits, m)
        PROVE  /\ Len(scopes') >= 3
               /\ \A i \in 1..3 : scopes'[i] = scopes[i]
               /\ \E g : Aligned(scopes', visits', g)
    <3>1. PICK g : Aligned(scopes, e, g)
      BY <1>3, <1>4, <1>7, <2>1, AlignedStay
    <3>2. Aligned(scopes, Append(e, w), Append(g, Len(scopes)))
      BY <1>3, <1>5, <1>7, <3>1, AlignedDown
    <3>3. Len(scopes) >= 3
      BY <1>3, <2>1, AlignedDeep
    <3> QED
      BY <1>6, <3>2, <3>3
  <2> QED
    BY <1>6, <2>1, ScopeKept DEF ShapeInv
<1> QED
  BY <1>11, <1>12, <1>13, <1>14 DEF ShapeInv

LEMMA NewTailNames ==
    ASSUME NEW node \in {"block", "if"}, NEW tail \in BOOLEAN
    PROVE  /\ [NewVisit(node) EXCEPT !.tail = tail].tail = tail
           /\ [NewVisit(node) EXCEPT !.tail = tail].names = {}
BY DEF NewVisit

LEMMA NestShape ==
    ASSUME IInv, ShapeInv, NEW last \in BOOLEAN, NEW node \in {"block", "if"}, Nest(last, node)
    PROVE  ShapeInv'
<1>1. /\ AtStmt(last) /\ UNCHANGED <<scopes, current_id, errors>>
      /\ visits' = Append(Under(After(last)), [NewVisit(node) EXCEPT !.tail = last /\ top.tail])
  BY DEF Nest
<1>2. /\ pass = "expressions" /\ visits # <<>> /\ top.node = "block" /\ top.phase = "stmts"
      /\ UNCHANGED <<unit, pass, item, ids>>
      /\ top \in Visit
      /\ After(last) \in Visit /\ After(last).node = "block"
      /\ After(last).phase \in {"stmts", "last"}
  BY <1>1, AtStmtTypes
<1>3. PICK v \in Visit : v = After(last)
  BY <1>2
<1>4. /\ v.id = top.id /\ v.source = top.source /\ v.tail = top.tail /\ v.names = top.names
      /\ v.phase = IF last THEN "last" ELSE "stmts"
  BY <1>1, <1>3, AfterIs
<1>5. PICK tail \in BOOLEAN : tail = (last /\ top.tail)
  OBVIOUS
<1>6. PICK w : w = [NewVisit(node) EXCEPT !.tail = tail]
  OBVIOUS
<1>7. w \in Visit /\ w.node = node /\ w.phase = "start" /\ w.tail = tail /\ w.names = {}
  BY <1>6, NewTail, NewTailNames
<1>8. \A p : TopSource(p, top, lvalues) /\ top.id # None /\ p.id # None
               /\ top.source = (IF top.tail THEN p.id ELSE None)
                  => Link(v, w) /\ TopSource(v, w, lvalues')
  <2> SUFFICES ASSUME NEW p, TopSource(p, top, lvalues), top.id # None, p.id # None,
                      top.source = IF top.tail THEN p.id ELSE None
               PROVE  Link(v, w) /\ TopSource(v, w, lvalues')
    OBVIOUS
  <2>1. IF last /\ top.tail THEN Sourced(lvalues') /\ Last(lvalues') = top.id
                            ELSE lvalues' = lvalues /\ ~Sourced(lvalues')
    BY <1>1, StmtSources
  <2>2. w.tail <=> last /\ top.tail
    BY <1>5, <1>7
  <2>3. Link(v, w)
    BY <1>2, <1>3, <1>4, <2>2 DEF Link
  <2>4. TopSource(v, w, lvalues')
    BY <1>4, <1>7, <2>1, <2>2 DEF TopSource
  <2> QED
    BY <2>3, <2>4
<1>9. /\ visits' = Append(Under(v), w) /\ v.node = top.node /\ v.phase # "start"
      /\ top.node \in {"block", "if"} /\ top.phase # "start" /\ w.node \in {"block", "if"}
      /\ errors \subseteq errors'
  BY <1>1, <1>2, <1>3, <1>5, <1>6, <1>7
<1> QED
  BY <1>1, <1>2, <1>4, <1>7, <1>8, <1>9, EnterShape

LEMMA IfBlockShape ==
    ASSUME IInv, ShapeInv, AtNode("if", "stmts"), errors \subseteq errors',
           NEW v \in Visit, v.node = "if", v.phase = "stmts", v.names = top.names,
           v.id = top.id, v.source = top.source, v.tail = top.tail, IfBlock(v)
    PROVE  ShapeInv'
<1>1. /\ pass = "expressions" /\ visits # <<>> /\ top.node = "if" /\ top.phase = "stmts"
      /\ UNCHANGED <<unit, pass, item, ids, scopes, current_id>>
      /\ lvalues' = IF top.source # None THEN Append(lvalues, top.id) ELSE lvalues
      /\ visits' = Append(Under(v), [NewVisit("block") EXCEPT !.tail = top.tail])
  BY DEF AtNode, IfBlock
<1>2. top \in Visit /\ lvalues \in Seq(Id) /\ top.tail \in BOOLEAN /\ top.id \in Id
  <2>1. top \in Visit
    BY <1>1, InBody
  <2> QED
    BY <2>1, BuilderTypes DEF Visit, Id
<1>3. PICK w : w = [NewVisit("block") EXCEPT !.tail = top.tail]
  OBVIOUS
<1>4. w \in Visit /\ w.node = "block" /\ w.phase = "start" /\ w.tail = top.tail /\ w.names = {}
  BY <1>2, <1>3, NewTail, NewTailNames
<1>5. \A p : TopSource(p, top, lvalues) /\ top.id # None /\ p.id # None
               /\ top.source = (IF top.tail THEN p.id ELSE None)
                  => Link(v, w) /\ TopSource(v, w, lvalues')
  <2> SUFFICES ASSUME NEW p, TopSource(p, top, lvalues), top.id # None, p.id # None,
                      top.source = IF top.tail THEN p.id ELSE None
               PROVE  Link(v, w) /\ TopSource(v, w, lvalues')
    OBVIOUS
  <2>1. Link(v, w)
    BY <1>4 DEF Link
  <2>2. CASE top.tail
    <3>1. lvalues' = Append(lvalues, top.id)
      BY <1>1, <2>2
    <3>2. Sourced(lvalues') /\ Last(lvalues') = top.id
      BY <1>2, <3>1, LastAppended DEF Sourced
    <3> QED
      BY <1>4, <2>1, <2>2, <3>2 DEF TopSource
  <2>3. CASE ~top.tail
    <3>1. lvalues' = lvalues /\ ~Sourced(lvalues)
      BY <1>1, <2>3 DEF TopSource
    <3> QED
      BY <1>4, <2>1, <2>3, <3>1 DEF TopSource
  <2> QED
    BY <2>2, <2>3
<1>6. /\ visits' = Append(Under(v), w) /\ v.node = top.node /\ v.phase # "start"
      /\ top.node \in {"block", "if"} /\ top.phase # "start" /\ w.node \in {"block", "if"}
  BY <1>1, <1>3, <1>4
<1> QED
  BY <1>1, <1>4, <1>5, <1>6, EnterShape

LEMMA IfBranchShape ==
    ASSUME IInv, ShapeInv, NEW expr \in Exprs, IfBranch(expr)
    PROVE  ShapeInv'
<1>1. /\ AtNode("if", "stmts") /\ top.left > 0 /\ errors \subseteq errors'
      /\ IfBlock([top EXCEPT !.left = @ - 1])
  BY DEF IfBranch, Check
<1>2. pass = "expressions" /\ visits # <<>> /\ top.node = "if" /\ top.phase = "stmts"
  BY <1>1 DEF AtNode
<1>3. top \in Visit
  BY <1>2, InBody
<1>4. top.left \in Nat /\ top.left - 1 \in Nat
  BY <1>1, <1>3 DEF Visit
<1>5. PICK l \in Nat : l = top.left - 1
  BY <1>4
<1>6. PICK v : v = [top EXCEPT !.left = l]
  OBVIOUS
<1>7. /\ v \in Visit /\ v.node = top.node /\ v.phase = top.phase /\ v.names = top.names
      /\ v.id = top.id /\ v.source = top.source /\ v.tail = top.tail
  BY <1>3, <1>6 DEF Visit
<1>8. IfBlock(v)
  BY <1>1, <1>5, <1>6
<1> QED
  BY <1>1, <1>2, <1>7, <1>8, IfBlockShape

LEMMA IfElseShape ==
    ASSUME IInv, ShapeInv, IfElse
    PROVE  ShapeInv'
<1>1. /\ AtNode("if", "stmts") /\ errors \subseteq errors'
      /\ IfBlock([top EXCEPT !.else = FALSE])
  BY DEF IfElse
<1>2. pass = "expressions" /\ visits # <<>> /\ top.node = "if" /\ top.phase = "stmts"
  BY <1>1 DEF AtNode
<1>3. top \in Visit
  BY <1>2, InBody
<1>6. PICK v : v = [top EXCEPT !.else = FALSE]
  OBVIOUS
<1>7. /\ v \in Visit /\ v.node = top.node /\ v.phase = top.phase /\ v.names = top.names
      /\ v.id = top.id /\ v.source = top.source /\ v.tail = top.tail
  BY <1>3, <1>6 DEF Visit
<1>8. IfBlock(v)
  BY <1>1, <1>6
<1> QED
  BY <1>1, <1>2, <1>7, <1>8, IfBlockShape

LEMMA IfBeginShape ==
    ASSUME IInv, ShapeInv, NEW branches \in 1..MaxBranches, NEW else \in BOOLEAN,
           IfBegin(branches, else)
    PROVE  ShapeInv'
<1> DEFINE v == [top EXCEPT !.phase = "stmts", !.id = current_id,
                            !.source = IF HasSource THEN Last(lvalues) ELSE None,
                            !.left = branches, !.else = else]
<1>1. /\ pass = "expressions" /\ visits # <<>> /\ top.node = "if" /\ top.phase = "start"
      /\ current_id' = Push(current_id)
      /\ UNCHANGED <<unit, pass, item, ids, scopes>>
  BY DEF IfBegin, AtNode
<1>2. PICK f : f = Front(visits)
  OBVIOUS
<1>3. /\ f \in Seq(Visit) /\ f # <<>> /\ Len(f) \in Nat \ {0} /\ top \in Visit
      /\ Len(f) + 1 = Len(visits)
      /\ visits \in Seq(Visit) /\ visits = Append(f, top)
      /\ \A u \in Visit : Under(u) = Append(f, u)
      /\ \A u : Append(f, u)[1] = visits[1]
      /\ current_id \in Id /\ Len(current_id) \in Nat /\ Len(current_id) >= 2
      /\ current_id # None
      /\ scopes \in Seq(Scope) /\ Len(scopes) \in Nat /\ lvalues \in Seq(Id)
  BY <1>1, <1>2, InnerTypes
<1>6. Len(current_id') = Len(current_id) + 1
  BY <1>1, <1>3, IdLengths
<1>7. BoundInv'
  BY <1>1, BoundKept DEF ShapeInv
<1>8. top \notin Scoped /\ top \notin Deeper
  BY <1>1 DEF Scoped, Deeper
<1>10. v \in Visit /\ v.node = "if" /\ v.phase = "stmts" /\ v.id = current_id
       /\ v.source = (IF HasSource THEN Last(lvalues) ELSE None)
       /\ v.tail = top.tail /\ v.names = top.names
  <2>1. (IF HasSource THEN Last(lvalues) ELSE None) \in Id
    BY <1>3, SourceTypes
  <2>2. PICK src \in Id : src = IF HasSource THEN Last(lvalues) ELSE None
    BY <2>1
  <2>3. branches \in Nat
    BY BoundsAssumption
  <2>4. v = [top EXCEPT !.phase = "stmts", !.id = current_id, !.source = src,
                        !.left = branches, !.else = else]
    BY <2>2
  <2> HIDE DEF v
  <2>5. v \in Visit
    BY <1>3, <2>3, <2>4, VisitChanges
  <2> QED
    BY <1>1, <1>3, <2>2, <2>4, <2>5 DEF Visit
<1>11. v \notin Scoped /\ v \in Deeper
  BY <1>10 DEF Scoped, Deeper
<1> HIDE DEF v
<1>9. /\ CountIn(f, Scoped) \in Nat /\ CountIn(f, Deeper) \in Nat
      /\ CountIn(visits, Scoped) = CountIn(f, Scoped)
      /\ CountIn(visits, Deeper) = CountIn(f, Deeper)
      /\ CountIn(Append(f, v), Scoped) = CountIn(f, Scoped)
      /\ CountIn(Append(f, v), Deeper) = CountIn(f, Deeper) + 1
  BY <1>3, <1>8, <1>10, <1>11, CountTop
<1>12. CASE HasSource /\ ~else
  <2>1. visits' = f /\ errors' = errors \cup {"NoElse"}
    BY <1>2, <1>12 DEF IfBegin, Report
  <2>2. DepthInv'
    <3>1. /\ CountIn(visits', Scoped) = CountIn(visits, Scoped) + 0
          /\ CountIn(visits', Deeper) = CountIn(visits, Deeper) + 0
      BY <1>9, <2>1
    <3>2. /\ CountIn(visits, Scoped) \in Nat /\ CountIn(visits, Deeper) \in Nat
          /\ Len(scopes') \in Nat /\ Len(current_id') \in Nat
          /\ Len(scopes') >= Len(scopes) + 0 /\ Len(current_id') >= Len(current_id) + 0
          /\ errors' # {}
      BY <1>1, <1>3, <1>6, <1>9, <2>1
    <3>3. errors \subseteq errors'
      BY <2>1
    <3>4. DepthInv /\ Len(scopes) \in Nat /\ Len(current_id) \in Nat
      BY <1>3 DEF ShapeInv
    <3>5. pass = "expressions" /\ visits # <<>> /\ UNCHANGED <<unit, pass, ids>>
      BY <1>1
    <3> QED
      BY <3>1, <3>2, <3>3, <3>4, <3>5, DepthKept
  <2> QED
    BY <1>7, <2>1, <2>2, AfterError
<1>13. CASE ~(HasSource /\ ~else)
  <2>1. /\ visits' = Append(f, v) /\ errors' = errors
        /\ lvalues' = IF HasSource THEN PopSource ELSE lvalues
    BY <1>3, <1>10, <1>13 DEF IfBegin, v
  <2>2. DepthInv'
    <3>1. /\ CountIn(visits', Scoped) = CountIn(visits, Scoped) + 0
          /\ CountIn(visits', Deeper) = CountIn(visits, Deeper) + 1
      BY <1>9, <2>1
    <3>2. /\ CountIn(visits, Scoped) \in Nat /\ CountIn(visits, Deeper) \in Nat
          /\ Len(scopes') \in Nat /\ Len(current_id') \in Nat
          /\ Len(scopes') = Len(scopes) + 0 /\ Len(current_id') = Len(current_id) + 1
          /\ Len(scopes') >= Len(scopes) + 0 /\ Len(current_id') >= Len(current_id) + 1
      BY <1>1, <1>3, <1>6, <1>9
    <3>4. DepthInv /\ Len(scopes) \in Nat /\ Len(current_id) \in Nat
      BY <1>3 DEF ShapeInv
    <3>5. /\ pass = "expressions" /\ visits # <<>> /\ UNCHANGED <<unit, pass, ids>>
          /\ errors \subseteq errors'
      BY <1>1, <2>1
    <3> QED
      BY <3>1, <3>2, <3>4, <3>5, DepthKept
  <2>3. TailInv'
    <3>1. ASSUME Spine(visits),
                 Len(visits) >= 2 =>
                    TopSource(visits[Len(visits) - 1], visits[Len(visits)], lvalues)
          PROVE  /\ Spine(visits')
                 /\ Len(visits') >= 2 =>
                      TopSource(visits'[Len(visits') - 1], visits'[Len(visits')], lvalues')
      <4> DEFINE p == f[Len(f)]
      <4>1. TopSource(p, top, lvalues)
        BY <1>3, <3>1, TopTwo
      <4>2. Spine(f) /\ p.id # None /\ (Len(f) >= 2 => Link(p, top))
        BY <1>3, <3>1, SpineUp
      <4>3. HasSource = Sourced(lvalues)
        BY DEF HasSource, Sourced
      <4>4. v.source = IF v.tail THEN p.id ELSE None
        BY <1>1, <1>10, <4>1, <4>3 DEF TopSource
      <4>5. Len(f) >= 2 => Link(p, v)
        BY <1>1, <1>10, <4>2 DEF Link
      <4>6. Spine(visits')
        BY <1>3, <1>10, <2>1, <4>2, <4>4, <4>5, SpineDown
      <4>7. TopSource(p, v, lvalues')
        BY <1>10, <2>1, <4>1, <4>3 DEF TopSource
      <4> QED
        BY <1>3, <1>10, <2>1, <4>6, <4>7, TopTwo
    <3> QED
      BY <1>1, <1>3, <2>1, <3>1, TailKept DEF ShapeInv
  <2>4. ScopeInv'
    <3>1. ASSUME NEW m, Aligned(scopes, visits, m)
          PROVE  /\ Len(scopes') >= 3
                 /\ \A i \in 1..3 : scopes'[i] = scopes[i]
                 /\ \E g : Aligned(scopes', visits', g)
      <4>1. top.names = {} /\ Aligned(scopes, f, Front(m))
        BY <1>3, <1>8, <3>1, AlignedUp
      <4>2. Aligned(scopes', visits', Append(Front(m), Len(scopes)))
        BY <1>1, <1>3, <1>10, <1>11, <2>1, <4>1, AlignedDown
      <4>3. Len(scopes) >= 3
        BY <1>1, <1>3, <3>1, AlignedDeep
      <4> QED
        BY <1>1, <4>2, <4>3
    <3>2. visits' # <<>>
      BY <1>3, <1>10, <2>1, LastAppended
    <3> QED
      BY <1>1, <2>1, <3>1, <3>2, ScopeKept DEF ShapeInv
  <2> QED
    BY <1>7, <2>2, <2>3, <2>4 DEF ShapeInv
<1> QED
  BY <1>12, <1>13

-----------------------------------------------------------------------------
(* The steps of the first visitor. *)

LEMMA CountOne ==
    ASSUME NEW vs \in Seq(Visit), Len(vs) = 1, NEW P
    PROVE  CountIn(vs, P) = IF vs[1] \in P THEN 1 ELSE 0
<1>1. DOMAIN vs = {1}
  BY LenProperties
<1>2. CASE vs[1] \in P
  <2>1. {i \in DOMAIN vs : vs[i] \in P} = {1}
    BY <1>1, <1>2
  <2>2. Cardinality({1}) = 1
    BY FS_Singleton
  <2> QED
    BY <1>2, <2>1, <2>2 DEF CountIn
<1>3. CASE vs[1] \notin P
  <2>1. {i \in DOMAIN vs : vs[i] \in P} = {}
    BY <1>1, <1>3
  <2>2. Cardinality({}) = 0
    BY FS_EmptySet
  <2> QED
    BY <1>3, <2>1, <2>2 DEF CountIn
<1> QED
  BY <1>2, <1>3

(* The visit of a function by the first visitor. *)
ParamsVisit(vs) == vs = <<>> \/ (Len(vs) = 1 /\ vs[1].node = "params")

LEMMA CountParams ==
    ASSUME NEW vs \in Seq(Visit), ParamsVisit(vs)
    PROVE  /\ CountIn(vs, Scoped) = Len(vs) /\ CountIn(vs, Deeper) = Len(vs)
           /\ Len(vs) \in {0, 1} /\ (vs = <<>> <=> Len(vs) = 0)
           /\ \A i \in DOMAIN vs : vs[i].node = "params"
<1>1. CASE vs = <<>>
  <2>1. Len(vs) = 0 /\ DOMAIN vs = {}
    BY <1>1
  <2> QED
    BY <1>1, <2>1, CountNone
<1>2. CASE Len(vs) = 1 /\ vs[1].node = "params"
  <2>1. DOMAIN vs = {1} /\ vs[1] \in Visit
    BY <1>2, LenProperties, ElementOfSeq
  <2>2. vs[1] \in Scoped /\ vs[1] \in Deeper
    BY <1>2, <2>1 DEF Scoped, Deeper
  <2>3. CountIn(vs, Scoped) = 1 /\ CountIn(vs, Deeper) = 1
    BY <1>2, <2>2, CountOne
  <2>4. PICK n \in Nat \ {0} : n = Len(vs)
    BY <1>2
  <2>5. vs # <<>>
    BY <2>4
  <2> QED
    BY <1>2, <2>1, <2>3, <2>5
<1> QED
  BY <1>1, <1>2 DEF ParamsVisit

LEMMA FirstDepthKept ==
    ASSUME DepthInv, pass = "items", UNCHANGED <<unit, pass>>, errors \subseteq errors',
           visits \in Seq(Visit), ParamsVisit(visits),
           visits' \in Seq(Visit), ParamsVisit(visits'),
           Len(scopes) \in Nat, Len(current_id) \in Nat,
           Len(scopes') \in Nat, Len(current_id') \in Nat,
           Len(scopes') >= Len(scopes) + Len(visits') - Len(visits),
           Len(current_id') >= Len(current_id) + Len(visits') - Len(visits),
           errors' = {} =>
              /\ Len(scopes') = Len(scopes) + Len(visits') - Len(visits)
              /\ Len(current_id') = Len(current_id) + Len(visits') - Len(visits)
              /\ \A i \in DOMAIN unit : \/ ids'[i].id = ids[i].id
                                        \/ visits = <<>> /\ ids'[i].id = current_id
    PROVE  DepthInv'
<1>1. PICK a \in {0, 1}, b \in {0, 1} : a = Len(visits) /\ b = Len(visits')
  BY CountParams
<1>2. PICK ls \in Nat, lc \in Nat : ls = Len(scopes) /\ lc = Len(current_id)
  OBVIOUS
<1>3. PICK ns \in Nat, nc \in Nat : ns = Len(scopes') /\ nc = Len(current_id')
  OBVIOUS
<1>4. /\ CountIn(visits, Scoped) = a /\ CountIn(visits, Deeper) = a
      /\ visits = <<>> => a = 0
  BY <1>1, CountParams
<1>5. /\ CountIn(visits', Scoped) = b /\ CountIn(visits', Deeper) = b
      /\ \A i \in DOMAIN visits' : visits'[i].node = "params"
  BY <1>1, CountParams
<1>6. /\ ls - a - 1 >= 0 /\ lc - a - 2 >= 0
      /\ errors = {} => ls - a - 1 = 0 /\ lc - a - 2 = 0
  BY <1>2, <1>4 DEF DepthInv, ScopeDepth, IdDepth
<1>7. ScopeDepth' = ns - b - 1 /\ IdDepth' = nc - b - 2
  BY <1>3, <1>5 DEF ScopeDepth, IdDepth
<1>8. /\ ns >= ls + b - a /\ nc >= lc + b - a
      /\ errors' = {} => ns = ls + b - a /\ nc = lc + b - a
  BY <1>1, <1>2, <1>3
<1>9. ScopeDepth' >= 0 /\ IdDepth' >= 0 /\ (errors' = {} => ScopeDepth' = 0 /\ IdDepth' = 0)
  BY <1>6, <1>7, <1>8
<1>10. ASSUME errors' = {}, NEW i \in DOMAIN unit, ids'[i].id # Default
       PROVE  Len(ids'[i].id) = 2
  <2>1. CASE ids'[i].id = ids[i].id
    BY <1>10, <2>1 DEF DepthInv
  <2>2. CASE visits = <<>> /\ ids'[i].id = current_id
    BY <1>2, <1>4, <1>6, <1>10, <2>2
  <2> QED
    BY <1>10, <2>1, <2>2
<1> QED
  BY <1>5, <1>9, <1>10 DEF DepthInv

(* The first visitor binds names to ids only. *)
BoundScopes(ss) == ss \in Seq(Scope) /\ \A i \in 1..Len(ss) : Binds(ss[i])

LEMMA BoundScopesIs ==
    ASSUME scopes \in Seq(Scope)
    PROVE  BoundInv <=> /\ BoundScopes(scopes)
                        /\ \A i \in DOMAIN unit :
                              \A p \in DOMAIN ids[i].params : ids[i].params[p] # None
BY LenProperties DEF BoundInv, BoundScopes, Binds

Replaces(r, ss, i, b) == r = [ss EXCEPT ![i] = b]

LEMMA ReplaceScope ==
    ASSUME NEW ss, BoundScopes(ss), NEW i \in 1..Len(ss), NEW b \in Scope, Binds(b),
           NEW r, Replaces(r, ss, i, b)
    PROVE  /\ BoundScopes(r) /\ Len(r) = Len(ss)
           /\ \A j \in 1..Len(ss) : r[j] = IF j = i THEN b ELSE ss[j]
<1>1. ss \in Seq(Scope)
  BY DEF BoundScopes
<1>2. PICK n \in Nat : n = Len(ss) /\ DOMAIN ss = 1..n
  BY <1>1, LenProperties
<1>3. r \in Seq(Scope) /\ Len(r) = n
  BY <1>1, <1>2, ExceptSeq DEF Replaces
<1>4. \A j \in 1..n : r[j] = IF j = i THEN b ELSE ss[j]
  BY <1>2 DEF Replaces
<1> QED
  BY <1>2, <1>3, <1>4 DEF BoundScopes

LEMMA DefineShape ==
    ASSUME NEW ss, BoundScopes(ss), NEW i \in 1..Len(ss), NEW id \in Id, id # None,
           NEW key \in Keys
    PROVE  /\ BoundScopes(Define(ss, i, key, id)) /\ Len(Define(ss, i, key, id)) = Len(ss)
           /\ Singles(Define(ss, i, key, id)[i]) = Singles(ss[i]) \cup KeyNames(key)
           /\ \A j \in 1..Len(ss) :
                 j # i => Singles(Define(ss, i, key, id)[j]) = Singles(ss[j])
<1>1. ss \in Seq(Scope) /\ ss[i] \in Scope /\ Binds(ss[i])
  BY ElementOfSeq DEF BoundScopes
<1>2. PICK b : b = Bind(ss[i], key, id)
  OBVIOUS
<1>3. b \in Scope /\ Binds(b) /\ Singles(b) = Singles(ss[i]) \cup KeyNames(key)
  BY <1>1, <1>2, BindProperties
<1>4. PICK r : r = Define(ss, i, key, id)
  OBVIOUS
<1>5. Replaces(r, ss, i, b)
  BY <1>2, <1>4 DEF Define, Replaces
<1>6. /\ BoundScopes(r) /\ Len(r) = Len(ss)
      /\ \A j \in 1..Len(ss) : r[j] = IF j = i THEN b ELSE ss[j]
  BY <1>3, <1>5, ReplaceScope
<1>7. /\ Singles(r[i]) = Singles(ss[i]) \cup KeyNames(key)
      /\ \A j \in 1..Len(ss) : j # i => Singles(r[j]) = Singles(ss[j])
  BY <1>3, <1>6
<1> QED
  BY <1>4, <1>6, <1>7

LEMMA FirstTypes ==
    ASSUME IInv, ShapeInv, pass = "items"
    PROVE  /\ ParamsVisit(visits) /\ BoundScopes(scopes)
           /\ Len(scopes) \in Nat /\ Len(scopes) >= 1 + Len(visits)
           /\ Len(visits) \in {0, 1} /\ (visits = <<>> <=> Len(visits) = 0)
           /\ current_id # None
           /\ \A i \in DOMAIN unit : \A p \in DOMAIN ids[i].params : ids[i].params[p] # None
<1>1. /\ scopes \in Seq(Scope) /\ visits \in Seq(Visit)
      /\ Len(current_id) \in Nat /\ Len(current_id) >= 2
      /\ visits # <<>> => Len(visits) = 1
  BY ItemTypes
<1>2. ParamsVisit(visits)
  <2>1. ASSUME Len(visits) = 1
        PROVE  visits[1].node = "params"
    <3>1. 1 \in DOMAIN visits
      BY <1>1, <2>1, LenProperties
    <3> QED
      BY <3>1 DEF ShapeInv, DepthInv
  <2> QED
    BY <1>1, <2>1 DEF ParamsVisit
<1>3. /\ CountIn(visits, Scoped) = Len(visits)
      /\ Len(visits) \in {0, 1} /\ (visits = <<>> <=> Len(visits) = 0)
  BY <1>1, <1>2, CountParams
<1>4. Len(scopes) \in Nat /\ Len(scopes) >= 1 + Len(visits)
  <2>1. PICK n \in Nat : n = Len(scopes)
    BY <1>1, LenProperties
  <2>2. PICK c \in {0, 1} : c = Len(visits)
    BY <1>3
  <2>3. n - c - 1 >= 0
    BY <1>3, <2>1, <2>2 DEF ShapeInv, DepthInv, ScopeDepth
  <2> QED
    BY <2>1, <2>2, <2>3
<1>5. current_id # None
  <2>1. Len(None) = 0
    BY DEF None
  <2> QED
    BY <1>1, <2>1
<1> QED
  BY <1>1, <1>2, <1>3, <1>4, <1>5, BoundScopesIs DEF ShapeInv

(* What is left to show of a step of the first visitor.                      *)
LEMMA FirstShape ==
    ASSUME IInv, ShapeInv, pass = "items", UNCHANGED <<unit, pass>>, errors \subseteq errors',
           visits' \in Seq(Visit), ParamsVisit(visits'),
           BoundScopes(scopes'),
           \A i \in DOMAIN unit : \A p \in DOMAIN ids'[i].params : ids'[i].params[p] # None,
           Len(current_id') \in Nat,
           Len(scopes') >= Len(scopes) + Len(visits') - Len(visits),
           Len(current_id') >= Len(current_id) + Len(visits') - Len(visits),
           errors' = {} =>
              /\ Len(scopes') = Len(scopes) + Len(visits') - Len(visits)
              /\ Len(current_id') = Len(current_id) + Len(visits') - Len(visits)
              /\ \A i \in DOMAIN unit : \/ ids'[i].id = ids[i].id
                                        \/ visits = <<>> /\ ids'[i].id = current_id
              /\ item' \in 1..(Len(unit) + 1)
              /\ Singles(scopes'[1]) = ItemNamesTo(IF visits' = <<>> THEN item' - 1 ELSE item')
    PROVE  ShapeInv'
<1>1. /\ ParamsVisit(visits) /\ Len(scopes) \in Nat /\ Len(scopes) >= 1 + Len(visits)
      /\ visits \in Seq(Visit) /\ Len(current_id) \in Nat /\ Len(visits) \in {0, 1}
  BY FirstTypes, ItemTypes
<1>2. Len(scopes') \in Nat /\ scopes' \in Seq(Scope)
  BY LenProperties DEF BoundScopes
<1>3. DepthInv'
  BY <1>1, <1>2, FirstDepthKept DEF ShapeInv
<1>4. BoundInv'
  <2>1. \A i \in DOMAIN scopes' : \A k \in DOMAIN scopes'[i] : scopes'[i][k] # None
    BY <1>2, LenProperties DEF BoundScopes, Binds
  <2> QED
    BY <2>1 DEF BoundInv
<1>5. TailInv'
  BY DEF TailInv
<1>6. ScopeInv'
  <2> SUFFICES ASSUME errors' = {} PROVE ScopeInv'
    BY DEF ScopeInv
  <2>1. errors = {}
    OBVIOUS
  <2>2. Len(scopes) = 1 + Len(visits)
    BY <2>1 DEF ShapeInv, ScopeInv
  <2>3. Len(visits') \in {0, 1}
    BY CountParams
  <2>4. Len(scopes') = 1 + Len(visits')
    BY <1>1, <1>2, <2>2, <2>3
  <2>5. \A n : ItemNamesTo(n)' = ItemNamesTo(n)
    BY DEF ItemNamesTo
  <2> QED
    BY <2>4, <2>5 DEF ScopeInv
<1> QED
  BY <1>3, <1>4, <1>5, <1>6 DEF ShapeInv

LEMMA ItemNamesGrow ==
    ASSUME unit \in Units, item \in DOMAIN unit
    PROVE  ItemNamesTo(item) = ItemNamesTo(item - 1) \cup {unit[item].name}
<1>1. item \in Nat /\ item >= 1
  BY UnitTypes
<1>2. 1..item = (1..(item - 1)) \cup {item}
  BY <1>1
<1> QED
  BY <1>2 DEF ItemNamesTo

LEMMA ItemFnShape ==
    ASSUME IInv, ShapeInv, ItemFn
    PROVE  ShapeInv'
<1> DEFINE name == unit[item].name
<1>1. /\ pass = "items" /\ visits = <<>> /\ item \in DOMAIN unit
      /\ UNCHANGED <<unit, pass>>
  BY DEF ItemFn, AtItem
<1>2. /\ BoundScopes(scopes) /\ Len(scopes) \in Nat /\ Len(scopes) >= 1
      /\ visits \in Seq(Visit) /\ ParamsVisit(visits) /\ Len(visits) = 0
      /\ \A i \in DOMAIN unit : \A p \in DOMAIN ids[i].params : ids[i].params[p] # None
      /\ current_id \in Id /\ current_id # None
      /\ Len(current_id) \in Nat /\ Len(current_id) >= 2
      /\ ids \in [DOMAIN unit -> [id : Id, params : Seq(Id)]]
  BY <1>1, FirstTypes, ItemTypes
<1>3. /\ name \in Idents /\ Len(unit) \in Nat /\ item \in Nat
      /\ item \in 1..Len(unit)
  BY <1>1, UnitTypes DEF IInv, TypeOK
<1>4. CASE Get(<<name>>) # None
  <2>1. /\ errors' # {} /\ errors \subseteq errors'
        /\ UNCHANGED <<ids, scopes, current_id, visits>>
    BY <1>4 DEF ItemFn, Report
  <2> QED
    BY <1>1, <1>2, <2>1, FirstShape
<1>5. CASE Get(<<name>>) = None
  <2> HIDE DEF name
  <2>0. PICK key \in Keys : key = <<name>>
    BY <1>3, KeyNamesAre DEF name
  <2>10. KeyNames(key) = {name}
    BY <1>3, <2>0, KeyNamesAre DEF name
  <2>1. PICK ss : ss = Define(scopes, Len(scopes), key, current_id)
    OBVIOUS
  <2>2. /\ scopes' = Append(ss, <<>>)
        /\ ids' = [ids EXCEPT ![item].id = current_id]
        /\ current_id' = Increment(Push(current_id))
        /\ visits' = <<NewVisit("params")>>
        /\ UNCHANGED <<item, errors>>
    BY <1>5, <2>0, <2>1 DEF ItemFn, DefineLocal, name
  <2>3. /\ BoundScopes(ss) /\ Len(ss) = Len(scopes)
        /\ Singles(ss[1]) = IF 1 = Len(scopes) THEN Singles(scopes[1]) \cup {name}
                                               ELSE Singles(scopes[1])
    <3>0. /\ BoundScopes(scopes) /\ current_id \in Id /\ current_id # None
          /\ Len(scopes) \in Nat
      BY <1>2
    <3>1. Len(scopes) \in 1..Len(scopes) /\ 1 \in 1..Len(scopes)
      BY <1>2
    <3>2. /\ BoundScopes(ss) /\ Len(ss) = Len(scopes)
      BY <2>1, <3>0, <3>1, DefineShape
    <3>3. Singles(ss[Len(scopes)]) = Singles(scopes[Len(scopes)]) \cup KeyNames(key)
      BY <2>1, <3>0, <3>1, DefineShape
    <3>4. \A j \in 1..Len(scopes) : j # Len(scopes) => Singles(ss[j]) = Singles(scopes[j])
      BY <2>1, <3>0, <3>1, DefineShape
    <3> QED
      BY <2>10, <3>1, <3>2, <3>3, <3>4
  <2>4. /\ Len(scopes') = Len(scopes) + 1 /\ BoundScopes(scopes')
        /\ scopes'[1] = ss[1]
    <3>1. PICK r : r = Append(ss, <<>>)
      OBVIOUS
    <3>2. <<>> \in Scope /\ Binds(<<>>) /\ ss \in Seq(Scope)
      <4>1. <<>> \in [{} -> Id]
        OBVIOUS
      <4> QED
        BY <2>3, <4>1 DEF Scope, Binds, BoundScopes
    <3>3. PICK n \in Nat \ {0} : n = Len(ss)
      BY <1>2, <2>3
    <3>4. /\ r \in Seq(Scope) /\ Len(r) = n + 1 /\ \A i \in 1..n : r[i] = ss[i]
          /\ r[n + 1] = <<>>
      BY <3>1, <3>2, <3>3, AppendItem
    <3>5. \A i \in 1..(n + 1) : i \in 1..n \/ i = n + 1
      OBVIOUS
    <3>6. BoundScopes(r)
      BY <2>3, <3>2, <3>3, <3>4, <3>5 DEF BoundScopes
    <3>7. 1 \in 1..n
      OBVIOUS
    <3> QED
      BY <2>2, <2>3, <3>1, <3>3, <3>4, <3>6, <3>7
  <2>5. Len(current_id') = Len(current_id) + 1
    <3>1. ItemId(current_id)
      BY <1>1, ItemTypes
    <3> QED
      BY <1>2, <2>2, <3>1, ItemIdGrows
  <2>6. visits' \in Seq(Visit) /\ Len(visits') = 1 /\ ParamsVisit(visits') /\ visits' # <<>>
    <3>1. NewVisit("params") \in Visit /\ NewVisit("params").node = "params"
      BY VisitTypes DEF NewVisit
    <3> QED
      BY <2>2, <3>1 DEF ParamsVisit
  <2>7. \A i \in DOMAIN unit : \/ ids'[i].id = ids[i].id
                               \/ visits = <<>> /\ ids'[i].id = current_id
    BY <1>1, <1>2, <2>2
  <2>8. \A i \in DOMAIN unit : ids'[i].params = ids[i].params
    BY <1>1, <1>2, <2>2
  <2>9. errors' = {} => /\ item' \in 1..(Len(unit) + 1)
                        /\ Singles(scopes'[1]) = ItemNamesTo(item')
    <3> SUFFICES ASSUME errors = {}
                 PROVE  Singles(scopes'[1]) = ItemNamesTo(item)
      BY <1>3, <2>2
    <3>1. Len(scopes) = 1 /\ Singles(scopes[1]) = ItemNamesTo(item - 1)
      BY <1>1, <1>2 DEF ShapeInv, ScopeInv
    <3>2. Singles(ss[1]) = ItemNamesTo(item - 1) \cup {name}
      BY <2>3, <3>1
    <3> QED
      BY <1>1, <2>4, <3>2, ItemNamesGrow DEF IInv, TypeOK, name
  <2> QED
    BY <1>1, <1>2, <2>2, <2>4, <2>5, <2>6, <2>7, <2>8, <2>9, FirstShape
<1> QED
  BY <1>4, <1>5

LEMMA ItemTypedefShape ==
    ASSUME IInv, ShapeInv, ItemTypedef
    PROVE  ShapeInv'
<1> DEFINE name == unit[item].name
<1>1. /\ pass = "items" /\ visits = <<>> /\ item \in DOMAIN unit
      /\ UNCHANGED <<unit, pass, visits>> /\ item' = item + 1
  BY DEF ItemTypedef, AtItem
<1>2. /\ BoundScopes(scopes) /\ Len(scopes) \in Nat /\ Len(scopes) >= 1
      /\ visits \in Seq(Visit) /\ ParamsVisit(visits) /\ Len(visits) = 0
      /\ \A i \in DOMAIN unit : \A p \in DOMAIN ids[i].params : ids[i].params[p] # None
      /\ current_id \in Id /\ current_id # None
      /\ Len(current_id) \in Nat /\ Len(current_id) >= 2
      /\ ids \in [DOMAIN unit -> [id : Id, params : Seq(Id)]]
  BY <1>1, FirstTypes, ItemTypes
<1>3. /\ name \in Idents /\ Len(unit) \in Nat /\ item \in Nat
      /\ item \in 1..Len(unit)
  BY <1>1, UnitTypes DEF IInv, TypeOK
<1>4. CASE Get(<<name>>) # None
  <2>1. /\ errors' # {} /\ errors \subseteq errors'
        /\ UNCHANGED <<ids, scopes, current_id>>
    BY <1>4 DEF ItemTypedef, Report
  <2> QED
    BY <1>1, <1>2, <2>1, FirstShape
<1>5. CASE Get(<<name>>) = None
  <2> HIDE DEF name
  <2>0. PICK key \in Keys : key = <<name>>
    BY <1>3, KeyNamesAre DEF name
  <2>10. KeyNames(key) = {name}
    BY <1>3, <2>0, KeyNamesAre DEF name
  <2>2. /\ scopes' = Define(scopes, 1, key, current_id)
        /\ ids' = [ids EXCEPT ![item].id = current_id]
        /\ current_id' = Increment(current_id)
        /\ UNCHANGED errors
    BY <1>5, <2>0 DEF ItemTypedef, DefineGlobal, name
  <2>3. /\ BoundScopes(scopes') /\ Len(scopes') = Len(scopes)
        /\ Singles(scopes'[1]) = Singles(scopes[1]) \cup {name}
    <3>0. /\ BoundScopes(scopes) /\ current_id \in Id /\ current_id # None
          /\ Len(scopes) \in Nat
      BY <1>2
    <3>1. 1 \in 1..Len(scopes)
      BY <1>2
    <3>5. PICK first \in 1..Len(scopes) : first = 1
      BY <3>1
    <3>2. PICK r : r = Define(scopes, first, key, current_id)
      OBVIOUS
    <3>3. BoundScopes(r) /\ Len(r) = Len(scopes)
      BY <3>0, <3>2, DefineShape
    <3>4. Singles(r[first]) = Singles(scopes[first]) \cup KeyNames(key)
      BY <3>0, <3>2, DefineShape, SMTT(40)
    <3> QED
      BY <2>2, <2>10, <3>2, <3>3, <3>4, <3>5
  <2>5. Len(current_id') = Len(current_id)
    BY <1>2, <2>2, IdLengths
  <2>7. \A i \in DOMAIN unit : \/ ids'[i].id = ids[i].id
                               \/ visits = <<>> /\ ids'[i].id = current_id
    BY <1>1, <1>2, <2>2
  <2>8. \A i \in DOMAIN unit : ids'[i].params = ids[i].params
    BY <1>1, <1>2, <2>2
  <2>9. errors' = {} => /\ item' \in 1..(Len(unit) + 1)
                        /\ Singles(scopes'[1]) = ItemNamesTo(item' - 1)
    <3>1. item' \in 1..(Len(unit) + 1) /\ item' - 1 = item
      BY <1>1, <1>3
    <3> SUFFICES ASSUME errors = {}
                 PROVE  Singles(scopes'[1]) = ItemNamesTo(item)
      BY <2>2, <3>1
    <3>2. Singles(scopes[1]) = ItemNamesTo(item - 1)
      BY <1>1, <1>2 DEF ShapeInv, ScopeInv
    <3> QED
      BY <1>1, <2>3, <3>2, ItemNamesGrow DEF IInv, TypeOK, name
  <2> QED
    BY <1>1, <1>2, <2>2, <2>3, <2>5, <2>7, <2>8, <2>9, FirstShape
<1> QED
  BY <1>4, <1>5

LEMMA ItemFnEndShape ==
    ASSUME IInv, ShapeInv, ItemFnEnd
    PROVE  ShapeInv'
<1>1. /\ pass = "items" /\ visits # <<>> /\ visits' = <<>>
      /\ scopes' = Front(scopes) /\ current_id' = Increment(Pop(current_id))
      /\ UNCHANGED <<unit, pass, ids, errors>> /\ item' = item + 1
  BY DEF ItemFnEnd
<1>2. /\ BoundScopes(scopes) /\ Len(scopes) \in Nat /\ Len(scopes) >= 2
      /\ Len(visits) = 1
      /\ \A i \in DOMAIN unit : \A p \in DOMAIN ids[i].params : ids[i].params[p] # None
      /\ current_id \in Id /\ Len(current_id) \in Nat /\ Len(current_id) >= 2
      /\ item \in DOMAIN unit
  BY <1>1, FirstTypes, ItemTypes
<1>3. Len(unit) \in Nat /\ item \in Nat /\ item \in 1..Len(unit)
  BY <1>2, UnitTypes DEF IInv, TypeOK
<1>4. Len(current_id') = Len(current_id) - 1
  BY <1>1, <1>2, IdLengths
<1>5. /\ BoundScopes(scopes') /\ Len(scopes') = Len(scopes) - 1 /\ scopes'[1] = scopes[1]
  <2>1. PICK n \in Nat : n = Len(scopes) /\ n >= 2
    BY <1>2
  <2>2. scopes \in Seq(Scope) /\ scopes # <<>>
    <3>1. Len(<<>>) = 0
      OBVIOUS
    <3> QED
      BY <1>2, <3>1 DEF BoundScopes
  <2>3. PICK r : r = Front(scopes)
    OBVIOUS
  <2>4. r \in Seq(Scope) /\ Len(r) = n - 1 /\ \A i \in 1..(n - 1) : r[i] = scopes[i]
    BY <2>1, <2>2, <2>3, FrontItems
  <2>5. 1 \in 1..(n - 1) /\ \A i \in 1..(n - 1) : i \in 1..n
    BY <2>1
  <2>6. BoundScopes(r)
    BY <1>2, <2>1, <2>4, <2>5 DEF BoundScopes
  <2> QED
    BY <1>1, <2>1, <2>3, <2>4, <2>5, <2>6
<1>6. <<>> \in Seq(Visit) /\ ParamsVisit(<<>>) /\ Len(<<>>) = 0
  BY DEF ParamsVisit
<1>7. errors' = {} => /\ item' \in 1..(Len(unit) + 1)
                      /\ Singles(scopes'[1]) = ItemNamesTo(item' - 1)
  <2>1. item' \in 1..(Len(unit) + 1) /\ item' - 1 = item
    BY <1>1, <1>3
  <2>2. errors = {} => Singles(scopes[1]) = ItemNamesTo(item)
    BY <1>1 DEF ShapeInv, ScopeInv
  <2> QED
    BY <1>1, <1>5, <2>1, <2>2
<1>8. /\ Len(scopes') = Len(scopes) + Len(visits') - Len(visits)
      /\ Len(current_id') = Len(current_id) + Len(visits') - Len(visits)
      /\ Len(scopes') >= Len(scopes) + Len(visits') - Len(visits)
      /\ Len(current_id') >= Len(current_id) + Len(visits') - Len(visits)
      /\ Len(current_id') \in Nat
  BY <1>1, <1>2, <1>4, <1>5, <1>6
<1> QED
  BY <1>1, <1>2, <1>5, <1>6, <1>7, <1>8, FirstShape

LEMMA ItemParamShape ==
    ASSUME IInv, ShapeInv, ItemParam
    PROVE  ShapeInv'
<1> DEFINE fn == unit[item].name
           p == top.left + 1
           name == unit[item].params[p]
<1>1. /\ pass = "items" /\ visits # <<>> /\ top.left < Len(unit[item].params)
      /\ UNCHANGED <<unit, pass>>
  BY DEF ItemParam, ParamLeft
<1>2. /\ BoundScopes(scopes) /\ Len(scopes) \in Nat /\ Len(scopes) >= 2
      /\ visits \in Seq(Visit) /\ Len(visits) = 1
      /\ \A i \in DOMAIN unit : \A q \in DOMAIN ids[i].params : ids[i].params[q] # None
      /\ current_id \in Id /\ current_id # None /\ Len(current_id) \in Nat
      /\ Len(current_id) >= 2
      /\ item \in DOMAIN unit
      /\ ids \in [DOMAIN unit -> [id : Id, params : Seq(Id)]]
  BY <1>1, FirstTypes, ItemTypes
<1>3. top \in Visit /\ top.left \in Nat
  <2>1. Len(visits) \in 1..Len(visits)
    BY <1>2
  <2>2. top \in Visit
    BY <1>2, <2>1, ElementOfSeq DEF top
  <2> QED
    BY <2>2 DEF Visit
<1>4. /\ fn \in Idents /\ Len(unit) \in Nat /\ item \in 1..Len(unit) /\ p \in Nat
      /\ name \in Idents
  <2>1. /\ unit[item].params \in Seq(Idents) /\ fn \in Idents
        /\ Len(unit[item].params) \in Nat /\ Len(unit) \in Nat /\ item \in 1..Len(unit)
    BY <1>2, UnitTypes, LenProperties DEF IInv, TypeOK
  <2>2. p \in 1..Len(unit[item].params)
    BY <1>1, <1>3, <2>1
  <2> QED
    BY <2>1, <2>2, ElementOfSeq
<1>5. top.node = "params"
  <2>1. Len(visits) \in DOMAIN visits
    BY <1>2, LenProperties
  <2> QED
    BY <1>1, <2>1 DEF ShapeInv, DepthInv, top
<1>6. CASE Get(<<name>>) # None
  <2>1. /\ errors' # {} /\ errors \subseteq errors' /\ visits' = <<>>
        /\ UNCHANGED <<ids, scopes, current_id>>
    BY <1>6 DEF ItemParam, Report
  <2>2. <<>> \in Seq(Visit) /\ ParamsVisit(<<>>) /\ Len(<<>>) = 0
    BY DEF ParamsVisit
  <2>3. /\ Len(scopes') >= Len(scopes) + Len(visits') - Len(visits)
        /\ Len(current_id') >= Len(current_id) + Len(visits') - Len(visits)
    BY <1>2, <2>1, <2>2
  <2> QED
    BY <1>1, <1>2, <2>1, <2>2, <2>3, FirstShape
<1>7. CASE Get(<<name>>) = None
  <2> HIDE DEF name, fn, p
  <2>1. PICK k1 \in Keys, k2 \in Keys : k1 = <<name>> /\ k2 = <<fn, name>>
    BY <1>4, KeyNamesAre
  <2>2. KeyNames(k1) = {name} /\ KeyNames(k2) = {}
    BY <1>4, <2>1, KeyNamesAre
  <2>3. PICK ss : ss = Define(scopes, Len(scopes), k1, current_id)
    OBVIOUS
  <2>4. PICK v : v = [top EXCEPT !.left = p]
    OBVIOUS
  <2>5. /\ scopes' = Define(ss, 1, k2, current_id)
        /\ ids' = [ids EXCEPT ![item].params[p] = current_id]
        /\ current_id' = Increment(current_id)
        /\ visits' = Under(v)
        /\ UNCHANGED <<item, errors>>
    BY <1>7, <2>1, <2>3, <2>4 DEF ItemParam, DefineLocal, DefineGlobal, name, fn, p
  <2>6. /\ BoundScopes(scopes') /\ Len(scopes') = Len(scopes)
        /\ Singles(scopes'[1]) = Singles(scopes[1])
    <3>1. BoundScopes(scopes) /\ current_id \in Id /\ current_id # None
      BY <1>2
    <3>2. PICK n \in Nat \ {0, 1} : n = Len(scopes)
      BY <1>2
    <3>3. n \in 1..Len(scopes) /\ ss = Define(scopes, n, k1, current_id)
      BY <2>3, <3>2
    <3>4. BoundScopes(ss) /\ Len(ss) = Len(scopes)
      BY <3>1, <3>3, DefineShape
    <3>5. \A j \in 1..Len(scopes) : j # n => Singles(ss[j]) = Singles(scopes[j])
      BY <3>1, <3>3, DefineShape
    <3>6. PICK first \in 1..Len(ss) : first = 1
      BY <3>2, <3>4
    <3>7. PICK r : r = Define(ss, first, k2, current_id)
      OBVIOUS
    <3>8. BoundScopes(r) /\ Len(r) = Len(ss)
      BY <3>1, <3>4, <3>7, DefineShape
    <3>9. Singles(r[first]) = Singles(ss[first]) \cup KeyNames(k2)
      <4>1. Singles(Define(ss, first, k2, current_id)[first]) = Singles(ss[first]) \cup KeyNames(k2)
        BY <3>1, <3>4, DefineShape
      <4> QED
        BY <3>7, <4>1
    <3>10. Singles(ss[first]) = Singles(scopes[first])
      BY <3>2, <3>4, <3>5, <3>6
    <3>11. Singles(r[first]) = Singles(scopes[first])
      BY <2>2, <3>9, <3>10
    <3> QED
      BY <2>5, <3>4, <3>6, <3>7, <3>8, <3>11
  <2>7. Len(current_id') = Len(current_id)
    BY <1>2, <2>5, IdLengths
  <2>8. v \in Visit /\ v.node = "params"
    BY <1>3, <1>4, <1>5, <2>4 DEF Visit
  <2>9. visits' \in Seq(Visit) /\ Len(visits') = 1 /\ visits'[1] = v
    <3>1. Under(v) \in Seq(Visit) /\ Len(Under(v)) = Len(visits)
      BY <1>2, <2>8, UnderTypes
    <3>2. Under(v)[1] = v
      <4>1. 1 \in DOMAIN visits
        BY <1>2, LenProperties
      <4> QED
        BY <1>2, <4>1 DEF Under
    <3> QED
      BY <1>2, <2>5, <3>1, <3>2
  <2>10. ParamsVisit(visits') /\ visits' # <<>>
    <3>1. PICK n \in Nat \ {0} : n = Len(visits')
      BY <2>9
    <3>2. visits' # <<>>
      BY <3>1
    <3> QED
      BY <2>8, <2>9, <3>2 DEF ParamsVisit
  <2>11. PICK ps : ps = [ids[item].params EXCEPT ![p] = current_id]
    OBVIOUS
  <2>12. \A i \in DOMAIN unit :
            /\ ids'[i].id = ids[i].id
            /\ \A q \in DOMAIN ids'[i].params : ids'[i].params[q] # None
    <3>1. \A q \in DOMAIN ps : ps[q] # None
      BY <1>2, <2>11
    <3>2. ids' = [ids EXCEPT ![item] = [ids[item] EXCEPT !.params = ps]]
      BY <1>2, <2>5, <2>11
    <3> QED
      BY <1>2, <3>1, <3>2
  <2>13. errors' = {} => /\ item' \in 1..(Len(unit) + 1)
                         /\ Singles(scopes'[1]) = ItemNamesTo(item')
    <3>1. errors = {} => Singles(scopes[1]) = ItemNamesTo(item)
      BY <1>1 DEF ShapeInv, ScopeInv
    <3>2. item \in 1..(Len(unit) + 1)
      BY <1>4
    <3> QED
      BY <2>5, <2>6, <3>1, <3>2
  <2>14. /\ Len(scopes') = Len(scopes) + Len(visits') - Len(visits)
         /\ Len(current_id') = Len(current_id) + Len(visits') - Len(visits)
         /\ Len(scopes') >= Len(scopes) + Len(visits') - Len(visits)
         /\ Len(current_id') >= Len(current_id) + Len(visits') - Len(visits)
         /\ Len(current_id') \in Nat
    BY <1>2, <2>6, <2>7, <2>9
  <2>15. errors \subseteq errors'
    BY <2>5
  <2> QED
    BY <1>1, <1>2, <2>6, <2>9, <2>10, <2>12, <2>13, <2>14, <2>15, FirstShape
<1> QED
  BY <1>6, <1>7

-----------------------------------------------------------------------------
(* The steps between the bodies of functions. *)

LEMMA BetweenTypes ==
    ASSUME IInv, ShapeInv
    PROVE  /\ scopes \in Seq(Scope) /\ BoundScopes(scopes) /\ Len(scopes) \in Nat
           /\ Len(current_id) \in Nat /\ Len(current_id) >= 2
           /\ item \in Nat /\ Len(unit) \in Nat /\ DOMAIN unit = 1..Len(unit)
           /\ \A i \in DOMAIN unit : \A p \in DOMAIN ids[i].params : ids[i].params[p] # None
BY BuilderTypes, BoundScopesIs, UnitTypes, LenProperties DEF IInv, TypeOK, ShapeInv, Id

LEMMA ScopeAdded ==
    ASSUME NEW ss, BoundScopes(ss), NEW sc \in Scope, Binds(sc)
    PROVE  /\ BoundScopes(Append(ss, sc)) /\ Len(Append(ss, sc)) = Len(ss) + 1
           /\ \A i \in 1..Len(ss) : Append(ss, sc)[i] = ss[i]
           /\ Append(ss, sc)[Len(ss) + 1] = sc
<1>1. PICK r : r = Append(ss, sc)
  OBVIOUS
<1>2. PICK n \in Nat : n = Len(ss) /\ ss \in Seq(Scope)
  BY LenProperties DEF BoundScopes
<1>3. /\ r \in Seq(Scope) /\ Len(r) = n + 1 /\ \A i \in 1..n : r[i] = ss[i]
      /\ r[n + 1] = sc
  BY <1>1, <1>2, AppendItem
<1>4. \A i \in 1..(n + 1) : i \in 1..n \/ i = n + 1
  OBVIOUS
<1>5. BoundScopes(r)
  BY <1>2, <1>3, <1>4 DEF BoundScopes
<1> QED
  BY <1>1, <1>2, <1>3, <1>5

LEMMA ScopeRemoved ==
    ASSUME NEW ss, BoundScopes(ss), ss # <<>>
    PROVE  /\ BoundScopes(Front(ss)) /\ Len(Front(ss)) = Len(ss) - 1
           /\ \A i \in 1..(Len(ss) - 1) : Front(ss)[i] = ss[i]
<1>1. PICK r : r = Front(ss)
  OBVIOUS
<1>2. PICK n \in Nat \ {0} : n = Len(ss) /\ ss \in Seq(Scope)
  BY FrontItems DEF BoundScopes
<1>3. r \in Seq(Scope) /\ Len(r) = n - 1 /\ \A i \in 1..(n - 1) : r[i] = ss[i]
  BY <1>1, <1>2, FrontItems
<1>4. \A i \in 1..(n - 1) : i \in 1..n
  OBVIOUS
<1>5. BoundScopes(r)
  BY <1>2, <1>3, <1>4 DEF BoundScopes
<1> QED
  BY <1>1, <1>2, <1>3, <1>5

LEMMA BoundAfter ==
    ASSUME UNCHANGED <<unit, ids>>, BoundScopes(scopes'), BoundInv
    PROVE  BoundInv'
<1>1. \A i \in DOMAIN scopes' : \A k \in DOMAIN scopes'[i] : scopes'[i][k] # None
  BY LenProperties DEF BoundScopes, Binds
<1> QED
  BY <1>1 DEF BoundInv

LEMMA EmptyScope == <<>> \in Scope /\ Binds(<<>>) /\ Singles(<<>>) = {}
<1>1. <<>> \in [{} -> Id]
  OBVIOUS
<1> QED
  BY <1>1 DEF Scope, Binds, Singles

LEMMA InitShape == Init => ShapeInv
<1> SUFFICES ASSUME Init PROVE ShapeInv
  OBVIOUS
<1> USE DEF Init
<1>1. /\ Len(scopes) = 1 /\ scopes[1] = <<>> /\ DOMAIN scopes = {1}
      /\ Len(current_id) = 2 /\ Len(visits) = 0 /\ DOMAIN visits = {}
  BY DEF FirstId
<1>2. CountIn(visits, Scoped) = 0 /\ CountIn(visits, Deeper) = 0
  BY CountNone
<1>3. DepthInv
  <2>1. ScopeDepth = 0 /\ IdDepth = 0
    BY <1>1, <1>2 DEF ScopeDepth, IdDepth
  <2>2. \A i \in DOMAIN unit : ids[i].id = Default
    OBVIOUS
  <2> QED
    BY <1>1, <2>1, <2>2 DEF DepthInv
<1>4. TailInv
  BY DEF TailInv
<1>5. BoundInv
  <2>1. Default # None
    <3>1. Len(Default) = 1 /\ Len(None) # 1
      BY DEF Default, None
    <3> QED
      BY <3>1, Zenon
  <2>2. \A i \in DOMAIN unit : \A p \in DOMAIN ids[i].params : ids[i].params[p] = Default
    OBVIOUS
  <2> QED
    BY <1>1, <2>1, <2>2 DEF BoundInv
<1>6. ScopeInv
  <2>1. Singles(scopes[1]) = {}
    BY <1>1, EmptyScope
  <2>2. ItemNamesTo(item - 1) = {}
    BY DEF ItemNamesTo
  <2>3. item \in 1..(Len(unit) + 1) /\ Len(unit) \in Nat
    BY UnitTypes
  <2>4. ItemNamesTo(IF visits = <<>> THEN item - 1 ELSE item) = {}
    BY <2>2
  <2>5. Len(scopes) = 1 + Len(visits)
    BY <1>1
  <2> HIDE DEF Init
  <2>6. pass # "expressions" /\ Singles(scopes[1]) = {}
    BY <2>1 DEF Init
  <2> QED
    BY <2>3, <2>4, <2>5, <2>6 DEF ScopeInv
<1> QED
  BY <1>3, <1>4, <1>5, <1>6 DEF ShapeInv

LEMMA NextPassShape ==
    ASSUME IInv, ShapeInv, NextPass
    PROVE  ShapeInv'
<1>1. /\ pass = "items" /\ item = Len(unit) + 1 /\ pass' = "expressions" /\ item' = 1
      /\ scopes' = Append(scopes, <<>>)
      /\ UNCHANGED <<unit, ids, visits, errors>>
  BY DEF NextPass, NewScope
<1>2. visits = <<>>
  <2>1. item \notin DOMAIN unit
    BY <1>1, UnitTypes DEF IInv, TypeOK
  <2> QED
    BY <1>1, <2>1, ItemTypes
<1>3. /\ BoundScopes(scopes) /\ Len(scopes) \in Nat /\ Len(unit) \in Nat
      /\ DOMAIN unit = 1..Len(unit)
  BY BetweenTypes
<1>4. /\ BoundScopes(scopes') /\ Len(scopes') = Len(scopes) + 1
      /\ \A i \in 1..Len(scopes) : scopes'[i] = scopes[i]
      /\ scopes'[Len(scopes) + 1] = <<>>
  BY <1>1, <1>3, EmptyScope, ScopeAdded
<1>5. PICK n \in Nat : n = Len(scopes)
  BY <1>3
<1>6. CountIn(visits, Scoped) = 0 /\ CountIn(visits, Deeper) = 0
  BY <1>2, CountNone
<1>7. n - 1 >= 0 /\ (errors = {} => n - 1 = 0)
  BY <1>1, <1>5, <1>6 DEF ShapeInv, DepthInv, ScopeDepth
<1>8. CountIn(visits', Scoped) = 0
  BY <1>1, <1>6
<1>9. ScopeDepth' = n + 1 - 0 - 2
  BY <1>1, <1>4, <1>5, <1>8 DEF ScopeDepth
<1>10. DepthInv'
  <2>1. ScopeDepth' >= 0 /\ (errors' = {} => ScopeDepth' = 0)
    BY <1>1, <1>7, <1>9
  <2> QED
    BY <1>1, <1>2, <2>1 DEF ShapeInv, DepthInv
<1>11. BoundInv'
  BY <1>1, <1>4, BoundAfter DEF ShapeInv
<1>12. TailInv'
  BY <1>1, <1>2 DEF TailInv
<1>13. ScopeInv'
  <2> SUFFICES ASSUME errors' = {} PROVE ScopeInv'
    BY DEF ScopeInv
  <2>1. Singles(scopes[1]) = ItemNamesTo(Len(unit)) /\ n = 1
    <3>1. Singles(scopes[1]) = ItemNamesTo(item - 1)
      BY <1>1, <1>2 DEF ShapeInv, ScopeInv
    <3>2. item - 1 = Len(unit)
      BY <1>1, <1>3
    <3> QED
      BY <1>1, <1>7, <3>1, <3>2
  <2>2. ItemNames' = ItemNamesTo(Len(unit))
    BY <1>1, <1>3 DEF ItemNames, ItemNamesTo
  <2>3. Singles(scopes'[1]) = ItemNames' /\ Singles(scopes'[2]) = {} /\ Len(scopes') = 2
    <3>1. 1 \in 1..n /\ n + 1 = 2
      BY <2>1
    <3> QED
      BY <1>4, <1>5, <2>1, <2>2, <3>1, EmptyScope
  <2>4. item' \in 1..(Len(unit') + 1)
    BY <1>1, <1>3
  <2> QED
    BY <1>1, <1>2, <2>3, <2>4 DEF ScopeInv
<1> QED
  BY <1>10, <1>11, <1>12, <1>13 DEF ShapeInv

(* The visitor leaves an item, or the unit. *)
LEMMA LeavesItem ==
    ASSUME IInv, ShapeInv, pass = "expressions", visits' = <<>>,
           UNCHANGED <<unit, ids, errors>>, BoundScopes(scopes'),
           NEW n \in Nat, n = Len(scopes), NEW c \in Nat, c = CountIn(visits, Scoped),
           Len(scopes') \in Nat,
           \/ pass' = "expressions" /\ Len(scopes') >= n - c
           \/ pass' = "done" /\ c = 0 /\ Len(scopes') = n - 1
           ,
           errors = {} => /\ pass' = "expressions" => /\ Len(scopes') = 2 /\ n - c = 2
                                                      /\ scopes'[1] = scopes[1]
                                                      /\ scopes'[2] = scopes[2]
                          /\ item' \in 1..(Len(unit) + 1)
    PROVE  ShapeInv'
<1>1. n - c - 2 >= 0 /\ (errors = {} => n - c - 2 = 0)
  BY DEF ShapeInv, DepthInv, ScopeDepth
<1>2. CountIn(visits', Scoped) = 0
  BY CountNone
<1>3. DOMAIN visits' = {}
  OBVIOUS
<1>4. PICK k \in Nat : k = Len(scopes')
  OBVIOUS
<1>5. ScopeDepth' = k - 0 - (IF pass' = "expressions" THEN 2 ELSE 1)
  BY <1>2, <1>4 DEF ScopeDepth
<1>6. ScopeDepth' >= 0 /\ (errors' = {} => ScopeDepth' = 0)
  <2>1. CASE pass' = "expressions"
    BY <1>1, <1>4, <1>5, <2>1
  <2>2. CASE pass' = "done"
    BY <1>1, <1>4, <1>5, <2>2
  <2> QED
    BY <2>1, <2>2
<1>7. DepthInv'
  BY <1>3, <1>6 DEF ShapeInv, DepthInv
<1>8. BoundInv'
  BY BoundAfter DEF ShapeInv
<1>9. TailInv'
  BY DEF TailInv
<1>10. ScopeInv'
  <2> SUFFICES ASSUME errors' = {} PROVE ScopeInv'
    BY DEF ScopeInv
  <2>1. ItemNames' = ItemNames
    BY DEF ItemNames
  <2>2. Singles(scopes[1]) = ItemNames /\ Singles(scopes[2]) = {}
    BY DEF ShapeInv, ScopeInv
  <2> QED
    BY <2>1, <2>2 DEF ScopeInv
<1> QED
  BY <1>7, <1>8, <1>9, <1>10 DEF ShapeInv

LEMMA SkipTypedefShape ==
    ASSUME IInv, ShapeInv, SkipTypedef
    PROVE  ShapeInv'
<1>1. /\ pass = "expressions" /\ visits = <<>> /\ visits' = <<>> /\ item' = item + 1
      /\ item \in DOMAIN unit
      /\ UNCHANGED <<unit, pass, ids, scopes, errors>>
  BY DEF SkipTypedef, AtItem, builder
<1>2. /\ BoundScopes(scopes) /\ Len(scopes) \in Nat /\ Len(unit) \in Nat
      /\ DOMAIN unit = 1..Len(unit)
  BY BetweenTypes
<1>3. PICK n \in Nat : n = Len(scopes)
  BY <1>2
<1>4. CountIn(visits, Scoped) = 0
  BY <1>1, CountNone
<1>5. errors = {} => Len(scopes) = 2
  BY <1>1 DEF ShapeInv, ScopeInv
<1>6. item' \in 1..(Len(unit) + 1)
  BY <1>1, <1>2
<1>7. PICK c \in Nat : c = 0
  OBVIOUS
<1>8. /\ Len(scopes') >= n - c /\ Len(scopes') \in Nat /\ BoundScopes(scopes')
      /\ c = CountIn(visits, Scoped) /\ pass' = "expressions"
      /\ UNCHANGED <<unit, ids, errors>>
  BY <1>1, <1>2, <1>3, <1>4, <1>7
<1>9. errors = {} => /\ Len(scopes') = 2 /\ n - c = 2
                     /\ scopes'[1] = scopes[1] /\ scopes'[2] = scopes[2]
  <2>1. scopes' = scopes
    BY <1>1
  <2>2. errors = {} => n = 2
    BY <1>3, <1>5
  <2>3. errors = {} => n - c = 2
    BY <1>7, <2>2
  <2> QED
    BY <1>5, <2>1, <2>3
<1> QED
  BY <1>1, <1>3, <1>6, <1>8, <1>9, LeavesItem

LEMMA UnitEndShape ==
    ASSUME IInv, ShapeInv, UnitEnd
    PROVE  ShapeInv'
<1>1. /\ pass = "expressions" /\ pass' = "done" /\ visits = <<>> /\ visits' = <<>>
      /\ scopes' = Front(scopes) /\ item = Len(unit) + 1
      /\ UNCHANGED <<unit, item, ids, errors>>
  BY DEF UnitEnd
<1>2. /\ BoundScopes(scopes) /\ Len(scopes) \in Nat /\ Len(unit) \in Nat
      /\ DOMAIN unit = 1..Len(unit)
  BY BetweenTypes
<1>3. PICK n \in Nat : n = Len(scopes)
  BY <1>2
<1>4. CountIn(visits, Scoped) = 0
  BY <1>1, CountNone
<1>5. n - 0 - 2 >= 0
  BY <1>1, <1>3, <1>4 DEF ShapeInv, DepthInv, ScopeDepth
<1>6. scopes # <<>>
  <2>1. PICK l \in Nat \ {0} : l = Len(scopes)
    BY <1>3, <1>5
  <2> QED
    BY <2>1
<1>7. BoundScopes(scopes') /\ Len(scopes') = n - 1
  BY <1>1, <1>2, <1>3, <1>6, ScopeRemoved
<1>8. Len(scopes') \in Nat
  BY <1>3, <1>5, <1>7
<1>9. item' \in 1..(Len(unit) + 1)
  BY <1>1, <1>2
<1> QED
  BY <1>1, <1>3, <1>4, <1>7, <1>8, <1>9, LeavesItem

LEMMA FnEndShape ==
    ASSUME IInv, ShapeInv, FnEnd
    PROVE  ShapeInv'
<1>1. /\ pass = "expressions" /\ Len(visits) = 1 /\ visits' = <<>>
      /\ scopes' = Front(scopes) /\ item' = item + 1
      /\ UNCHANGED <<unit, pass, ids, errors>>
  BY DEF FnEnd
<1>2. /\ BoundScopes(scopes) /\ Len(scopes) \in Nat /\ Len(unit) \in Nat
      /\ DOMAIN unit = 1..Len(unit) /\ visits \in Seq(Visit)
  BY BetweenTypes, BuilderTypes
<1>3. visits # <<>>
  <2>1. PICK l \in Nat \ {0} : l = Len(visits)
    BY <1>1
  <2> QED
    BY <2>1
<1>4. item \in DOMAIN unit /\ visits[1].node = "fn" /\ visits[1] \in Visit
  <2>1. item \in DOMAIN unit /\ visits[1].node = "fn"
    BY <1>1, <1>3 DEF IInv, SecondPassInv, Reached, Nested
  <2>2. 1 \in 1..Len(visits)
    BY <1>1
  <2>3. visits[1] \in Visit
    BY <1>2, <2>2, ElementOfSeq
  <2> QED
    BY <2>1, <2>3
<1>5. CountIn(visits, Scoped) = 1
  <2>1. visits[1] \in Scoped
    BY <1>4 DEF Scoped
  <2> QED
    BY <1>1, <1>2, <2>1, CountOne
<1>6. PICK n \in Nat : n = Len(scopes)
  BY <1>2
<1>7. n - 1 - 2 >= 0 /\ (errors = {} => n - 1 - 2 = 0)
  BY <1>1, <1>5, <1>6 DEF ShapeInv, DepthInv, ScopeDepth
<1>8. scopes # <<>>
  <2>1. PICK l \in Nat \ {0} : l = Len(scopes)
    BY <1>6, <1>7
  <2> QED
    BY <2>1
<1>9. /\ BoundScopes(scopes') /\ Len(scopes') = n - 1
      /\ \A i \in 1..(n - 1) : scopes'[i] = scopes[i]
  BY <1>1, <1>2, <1>6, <1>8, ScopeRemoved
<1>10. Len(scopes') \in Nat /\ Len(scopes') >= n - 1
  BY <1>6, <1>7, <1>9
<1>11. item' \in 1..(Len(unit) + 1)
  BY <1>1, <1>2, <1>4
<1>12. errors = {} => /\ Len(scopes') = 2 /\ n - 1 = 2
                      /\ scopes'[1] = scopes[1] /\ scopes'[2] = scopes[2]
  <2> SUFFICES ASSUME errors = {} PROVE <1>12!2
    OBVIOUS
  <2>0. n \in Nat /\ n - 1 - 2 = 0
    BY <1>6, <1>7
  <2>1. n = 3
    BY <2>0
  <2>2. 1 \in 1..(n - 1) /\ 2 \in 1..(n - 1) /\ n - 1 = 2
    BY <2>1
  <2> QED
    BY <1>9, <2>2
<1> QED
  BY <1>1, <1>5, <1>6, <1>9, <1>10, <1>11, <1>12, LeavesItem

(* The scope of the parameters of a function has their names. *)
LEMMA ParamScopeNames ==
    ASSUME NEW i \in DOMAIN unit, NEW n \in Nat, DOMAIN unit[i].params = 1..n
    PROVE  Singles(ParamScope(i, n)) = {unit[i].params[p] : p \in 1..n} \cap Idents
<1>1. DOMAIN ParamScope(i, n) = {<<unit[i].params[p]>> : p \in 1..n}
  BY DEF ParamScope
<1>2. \A a, b : <<a>> = <<b>> => a = b
  OBVIOUS
<1>3. PICK D : D = {<<unit[i].params[p]>> : p \in 1..n}
  OBVIOUS
<1>4. \A x \in Idents : <<x>> \in D <=> \E p \in 1..n : x = unit[i].params[p]
  BY <1>2, <1>3
<1>5. Singles(ParamScope(i, n)) = {x \in Idents : <<x>> \in D}
  BY <1>1, <1>3 DEF Singles
<1> QED
  BY <1>4, <1>5

LEMMA AllNamed ==
    ASSUME IInv, NamedInv, errors = {}, pass = "expressions", NEW i \in DOMAIN unit
    PROVE  /\ Named(i) = Len(unit[i].params) /\ Len(unit[i].params) \in Nat
           /\ DOMAIN unit[i].params = 1..Len(unit[i].params)
           /\ DOMAIN ids[i].params = DOMAIN unit[i].params
<1>1. /\ Len(unit[i].params) \in Nat /\ DOMAIN unit[i].params = 1..Len(unit[i].params)
      /\ DOMAIN ids[i].params = DOMAIN unit[i].params
  BY UnitTypes, LenProperties DEF IInv, TypeOK, TreeInv
<1>2. PICK n \in Nat : n = Len(unit[i].params)
  BY <1>1
<1>3. \A p \in 1..n : ids[i].params[p] # Default
  BY <1>1, <1>2 DEF NamedInv, HasIds
<1>4. {p \in DOMAIN ids[i].params : \A q \in 1..p : ids[i].params[q] # Default} = 1..n
  BY <1>1, <1>2, <1>3
<1>5. Cardinality(1..n) = n
  BY FS_Interval
<1> QED
  BY <1>1, <1>2, <1>4, <1>5 DEF Named

LEMMA ParamScopeBinds ==
    ASSUME IInv, NEW i \in DOMAIN unit, Named(i) \in Nat,
           \A p \in DOMAIN ids[i].params : ids[i].params[p] # None,
           \A p \in 1..Named(i) : p \in DOMAIN ids[i].params
    PROVE  Binds(ParamScope(i, Named(i)))
<1>1. PICK n \in Nat : n = Named(i)
  OBVIOUS
<1>2. ASSUME NEW key \in {<<unit[i].params[p]>> : p \in 1..n}
      PROVE  ids[i].params[CHOOSE p \in 1..n : <<unit[i].params[p]>> = key] # None
  <2>1. (CHOOSE p \in 1..n : <<unit[i].params[p]>> = key) \in 1..n
    BY <1>2
  <2> QED
    BY <1>1, <2>1
<1>3. Binds(ParamScope(i, n))
  BY <1>2 DEF Binds, ParamScope
<1> QED
  BY <1>1, <1>3

(* How many parameters have an id. *)
LEMMA NamedTypes ==
    ASSUME IInv, NEW i \in DOMAIN unit
    PROVE  /\ Named(i) \in Nat
           /\ \A p \in 1..Named(i) : p \in DOMAIN ids[i].params
<1> DEFINE D == DOMAIN ids[i].params
           named == {p \in D : \A q \in 1..p : ids[i].params[q] # Default}
<1>1. ids[i].params \in Seq(Id)
  BY DEF IInv, TreeInv
<1>2. PICK l \in Nat : l = Len(ids[i].params) /\ D = 1..l
  BY <1>1, LenProperties
<1>3. named \subseteq 1..l
  BY <1>2
<1>4. IsFiniteSet(1..l) /\ Cardinality(1..l) = l
  BY FS_Interval
<1> HIDE DEF named, D
<1>5. IsFiniteSet(named) /\ Cardinality(named) <= l
  BY <1>3, <1>4, FS_Subset
<1>6. Cardinality(named) \in Nat
  BY <1>5, FS_CardinalityType
<1>7. Named(i) = Cardinality(named)
  BY DEF Named, named, D
<1>8. \A p \in 1..Cardinality(named) : p \in 1..l
  BY <1>5, <1>6
<1> QED
  BY <1>2, <1>6, <1>7, <1>8 DEF D

(* The visitor comes to a function. *)
LEMMA FnBeginShape ==
    ASSUME IInv, NamedInv, ShapeInv, FnBegin
    PROVE  ShapeInv'
<1>1. /\ pass = "expressions" /\ visits = <<>> /\ item \in DOMAIN unit
      /\ UNCHANGED <<unit, pass, ids, errors>>
  BY DEF FnBegin, AtItem
<1>2. /\ BoundScopes(scopes) /\ Len(scopes) \in Nat /\ Len(unit) \in Nat
      /\ DOMAIN unit = 1..Len(unit) /\ scopes \in Seq(Scope)
      /\ \A i \in DOMAIN unit : \A p \in DOMAIN ids[i].params : ids[i].params[p] # None
  BY BetweenTypes
<1>3. PICK n \in Nat : n = Len(scopes)
  BY <1>2
<1>4. n \in Nat
  BY <1>3
<1>5. CountIn(visits, Scoped) = 0
  BY <1>1, CountNone
<1>6. n - 2 >= 0 /\ (errors = {} => n = 2)
  <2>1. n - 0 - 2 >= 0 /\ (errors = {} => n - 0 - 2 = 0)
    BY <1>1, <1>3, <1>5 DEF ShapeInv, DepthInv, ScopeDepth
  <2> QED
    BY <1>4, <2>1
<1>7. PICK zero \in Nat : zero = 0
  OBVIOUS
<1>8. item + 1 \in 1..(Len(unit) + 1) /\ item \in 1..(Len(unit) + 1)
  BY <1>1, <1>2
<1> DEFINE id == ids[item].id
<1>9. CASE id = Default
  <2>1. item' = item + 1 /\ visits' = <<>> /\ scopes' = scopes
    BY <1>1, <1>9 DEF FnBegin
  <2>2. errors = {} => n - zero = 2
    BY <1>6, <1>7
  <2>3. errors = {} => Len(scopes') = 2
    BY <1>3, <1>6, <2>1
  <2>4. Len(scopes') \in Nat /\ Len(scopes') >= n - zero
    BY <1>3, <1>7, <2>1
  <2>5. zero = CountIn(visits, Scoped)
    BY <1>5, <1>7
  <2> QED
    BY <1>1, <1>2, <1>3, <1>8, <2>1, <2>2, <2>3, <2>4, <2>5, LeavesItem
<1>10. CASE id # Default
  <2>1. /\ scopes' = Append(scopes, ParamScope(item, Named(item))) /\ current_id' = Push(id)
    BY <1>10 DEF FnBegin
  <2>2. ParamScope(item, Named(item)) \in Scope
    BY <1>1, ParamTypes
  <2>3. /\ Named(item) \in Nat
        /\ \A p \in 1..Named(item) : p \in DOMAIN ids[item].params
    BY <1>1, NamedTypes
  <2>4. Binds(ParamScope(item, Named(item)))
    BY <1>1, <1>2, <2>3, ParamScopeBinds
  <2>5. PICK sc \in Scope : sc = ParamScope(item, Named(item)) /\ Binds(sc)
    BY <2>2, <2>4
  <2>6. /\ BoundScopes(scopes') /\ Len(scopes') = n + 1
        /\ \A i \in 1..n : scopes'[i] = scopes[i]
        /\ scopes'[n + 1] = sc
    BY <1>2, <1>3, <2>1, <2>5, ScopeAdded
  <2>7. CASE Named(item) < Len(unit[item].params)
    <3>1. item' = item + 1 /\ visits' = <<>>
      BY <1>1, <1>10, <2>7 DEF FnBegin
    <3>2. errors # {}
      <4> SUFFICES ASSUME errors = {} PROVE FALSE
        OBVIOUS
      <4>1. Named(item) = Len(unit[item].params) /\ Len(unit[item].params) \in Nat
        BY <1>1, AllNamed
      <4> QED
        BY <2>7, <4>1
    <3>3. Len(scopes') \in Nat /\ Len(scopes') >= n - zero
      BY <1>4, <1>7, <2>6
    <3>4. zero = CountIn(visits, Scoped)
      BY <1>5, <1>7
    <3> QED
      BY <1>1, <1>2, <1>3, <2>6, <3>1, <3>2, <3>3, <3>4, LeavesItem
  <2>8. CASE ~(Named(item) < Len(unit[item].params))
    <3> DEFINE left == Len(lvalues)
               valued == unit[item].valued
    <3>1. PICK v : v = [NewVisit("fn") EXCEPT !.id = id, !.left = left]
      OBVIOUS
    <3>2. PICK w : w = [NewVisit("block") EXCEPT !.tail = valued]
      OBVIOUS
    <3>3. /\ lvalues' = IF valued THEN Append(lvalues, id) ELSE lvalues
          /\ visits' = <<v, w>> /\ UNCHANGED item
      BY <1>10, <2>8, <3>1, <3>2 DEF FnBegin
    <3>4. /\ lvalues \in Seq(Id) /\ left \in Nat /\ id \in Id /\ valued \in BOOLEAN
      BY <1>1, BuilderTypes, UnitTypes, LenProperties DEF IInv, TypeOK, TreeInv
    <3> HIDE DEF left, valued
    <3>5. /\ v \in Visit /\ v.node = "fn" /\ v.phase = "start" /\ v.id = id /\ v.left = left
          /\ v.names = {}
      <4>1. NewVisit("fn") \in Visit
        BY VisitTypes
      <4>2. NewVisit("fn").node = "fn" /\ NewVisit("fn").phase = "start" /\ NewVisit("fn").names = {}
        BY DEF NewVisit
      <4> HIDE DEF id
      <4> QED
        BY <3>1, <3>4, <4>1, <4>2 DEF Visit, Id
    <3>6. /\ w \in Visit /\ w.node = "block" /\ w.phase = "start" /\ w.tail = valued
          /\ w.names = {}
      <4>1. "block" \in {"block", "if"} /\ valued \in BOOLEAN
        BY <3>4
      <4>2. /\ [NewVisit("block") EXCEPT !.tail = valued] \in Visit
            /\ [NewVisit("block") EXCEPT !.tail = valued].node = "block"
            /\ [NewVisit("block") EXCEPT !.tail = valued].phase = "start"
        BY <4>1, NewTail, Zenon
      <4>3. /\ [NewVisit("block") EXCEPT !.tail = valued].tail = valued
            /\ [NewVisit("block") EXCEPT !.tail = valued].names = {}
        BY <4>1, NewTailNames, Zenon
      <4> QED
        BY <3>2, <4>2, <4>3, Zenon
    <3>7. /\ visits' \in Seq(Visit) /\ Len(visits') = 2 /\ visits'[1] = v /\ visits'[2] = w
      BY <3>3, <3>5, <3>6
    <3>8. ItemId(id) /\ Len(id) \in Nat /\ Len(id) >= 2
      BY <1>1, <1>10, <3>4, LenProperties DEF IInv, ItemsInv, ItemId, Id
    <3>9. id # None
      <4>1. PICK k \in Nat \ {0} : k = Len(id)
        BY <3>8
      <4> QED
        BY <4>1 DEF None
    <3> HIDE DEF id
    <3>10. DepthInv'
      <4>1. CountIn(visits', Scoped) = 1 /\ CountIn(visits', Deeper) = 1
        <5>1. v \in Scoped /\ v \in Deeper
          BY <3>5 DEF Scoped, Deeper
        <5>2. w \notin Scoped /\ w \notin Deeper
          BY <3>6 DEF Scoped, Deeper
        <5>3. <<>> \in Seq(Visit) /\ Append(<<>>, v) \in Seq(Visit)
          BY <3>5
        <5>4. visits' = Append(Append(<<>>, v), w)
          BY <3>3
        <5>5. PICK e : e = Append(<<>>, v)
          OBVIOUS
        <5>6. ASSUME NEW P, v \in P, w \notin P
              PROVE  CountIn(visits', P) = 1
          <6>1. CountIn(<<>>, P) = 0
            BY CountNone
          <6>2. CountIn(Append(<<>>, v), P)
                    = CountIn(<<>>, P) + (IF v \in P THEN 1 ELSE 0)
            BY <3>5, <5>3, CountTop
          <6>3. CountIn(e, P) = 1
            BY <5>5, <5>6, <6>1, <6>2
          <6>4. e \in Seq(Visit)
            BY <5>3, <5>5
          <6>5. CountIn(Append(e, w), P) = CountIn(e, P) + (IF w \in P THEN 1 ELSE 0)
            BY <3>6, <6>4, CountTop
          <6> QED
            BY <5>4, <5>5, <5>6, <6>3, <6>5
        <5> QED
          BY <5>1, <5>2, <5>6
      <4>2. Len(current_id') = Len(id) + 1
        BY <2>1, <3>4, PushProperties
      <4>3. errors = {} => Len(id) = 2
        BY <1>1, <1>10 DEF ShapeInv, DepthInv, id
      <4>4. ScopeDepth' = n + 1 - 1 - 2
        BY <1>1, <2>6, <4>1 DEF ScopeDepth
      <4>5. ScopeDepth' >= 0 /\ (errors' = {} => ScopeDepth' = 0)
        BY <1>1, <1>4, <1>6, <4>4
      <4>6. PICK k \in Nat : k = Len(id)
        BY <3>8
      <4>7. IdDepth' = k + 1 - 1 - 2
        BY <4>1, <4>2, <4>6 DEF IdDepth
      <4>8. IdDepth' >= 0 /\ (errors' = {} => IdDepth' = 0)
        BY <1>1, <3>8, <4>3, <4>6, <4>7
      <4> QED
        BY <1>1, <4>5, <4>8 DEF ShapeInv, DepthInv
    <3>11. BoundInv'
      BY <1>1, <2>6, BoundAfter DEF ShapeInv
    <3>12. TailInv'
      <4> SUFFICES ASSUME visits'[1].left = 0
                   PROVE  Spine(visits') /\ TopSource(v, w, lvalues')
        BY <3>7 DEF TailInv
      <4>1. lvalues = <<>>
        <5>1. Len(lvalues) = 0
          BY <3>5, <3>7 DEF left
        <5> QED
          BY <3>4, <5>1, EmptySeq
      <4>2. Spine(visits')
        <5>1. \A i \in 1..2 : i < 2 \/ visits'[i].phase # "start" => visits'[i].id # None
          BY <3>5, <3>6, <3>7, <3>9
        <5>2. \A i \in 2..2 : visits'[i].phase = "start"
          BY <3>6, <3>7
        <5>3. Len(visits') = 2 /\ \A i \in 3..2 : FALSE
          BY <3>7
        <5> QED
          BY <5>1, <5>2, <5>3 DEF Spine
      <4>3. TopSource(v, w, lvalues')
        <5>1. CASE valued
          <6>1. lvalues' = <<id>>
            BY <3>3, <4>1, <5>1
          <6>2. lvalues' # <<>> /\ Last(lvalues') = id
            BY <6>1 DEF Last
          <6> QED
            BY <3>5, <3>6, <3>9, <5>1, <6>2 DEF TopSource, Sourced
        <5>2. CASE ~valued
          <6>1. lvalues' = <<>>
            BY <3>3, <4>1, <5>2
          <6> QED
            BY <3>6, <5>2, <6>1 DEF TopSource, Sourced
        <5> QED
          BY <5>1, <5>2, <3>4
      <4> QED
        BY <4>2, <4>3
    <3>13. ScopeInv'
      <4> SUFFICES ASSUME errors' = {} PROVE ScopeInv'
        BY DEF ScopeInv
      <4>1. errors = {} /\ n = 2
        BY <1>1, <1>6
      <4>2. /\ Singles(scopes[1]) = ItemNames /\ Singles(scopes[2]) = {}
        BY <1>1, <4>1 DEF ShapeInv, ScopeInv
      <4>3. ItemNames' = ItemNames /\ ParamNames(item)' = ParamNames(item)
        BY <1>1, <3>3 DEF ItemNames, ParamNames
      <4>4. /\ Len(scopes') = 3 /\ scopes'[1] = scopes[1] /\ scopes'[2] = scopes[2]
            /\ scopes'[3] = sc
        <5>1. 1 \in 1..n /\ 2 \in 1..n /\ n + 1 = 3
          BY <4>1
        <5> QED
          BY <2>6, <5>1
      <4>5. Singles(sc) = ParamNames(item)
        <5>1. /\ Named(item) = Len(unit[item].params) /\ Len(unit[item].params) \in Nat
              /\ DOMAIN unit[item].params = 1..Len(unit[item].params)
          BY <1>1, <4>1, AllNamed
        <5>2. PICK l \in Nat : l = Named(item)
          BY <5>1
        <5>3. DOMAIN unit[item].params = 1..l
          BY <5>1, <5>2
        <5>4. Singles(ParamScope(item, l)) = {unit[item].params[p] : p \in 1..l} \cap Idents
          BY <1>1, <5>3, ParamScopeNames
        <5>5. \A p \in 1..l : unit[item].params[p] \in Idents
          <6>1. unit[item].params \in Seq(Idents)
            BY <1>1, UnitTypes DEF IInv, TypeOK
          <6> QED
            BY <5>1, <5>2, <6>1, ElementOfSeq
        <5>6. Singles(ParamScope(item, l)) = {unit[item].params[p] : p \in 1..l}
          BY <5>4, <5>5
        <5> QED
          BY <2>5, <5>2, <5>3, <5>6 DEF ParamNames
      <4>6. Aligned(scopes', visits', <<3, 3>>)
        <5>0. <<3, 3>> \in Seq(Nat)
          OBVIOUS
        <5>1. PICK m \in Seq(Nat) : /\ m = <<3, 3>> /\ Len(m) = 2 /\ m[1] = 3 /\ m[2] = 3
          BY <5>0
        <5>2. \A i \in 1..2 : i = 1 \/ i = 2
          OBVIOUS
        <5>3. \A i, j \in 1..2 : m[i] <= m[j]
          <6>1. 3 <= 3
            OBVIOUS
          <6> QED
            BY <5>1, <5>2, <6>1
        <5>4. \A i \in 2..2 : i = 2
          OBVIOUS
        <5>5. w \notin Scoped
          BY <3>6 DEF Scoped
        <5>6. \A i \in 2..2 : /\ visits'[i] \notin Scoped /\ m[i] = m[i - 1]
                              /\ visits'[i].names = {}
          BY <3>6, <3>7, <5>1, <5>4, <5>5
        <5>7. Len(visits') = 2 /\ Len(scopes') = 3 /\ visits'[1].names = {}
              /\ \A s \in 4..3 : FALSE
          BY <3>5, <3>7, <4>4
        <5>8. Aligned(scopes', visits', m)
          BY <5>1, <5>3, <5>6, <5>7 DEF Aligned
        <5> QED
          BY <5>1, <5>8
      <4>7. visits' # <<>>
        BY <3>3
      <4>8. item' \in 1..(Len(unit') + 1)
        BY <1>1, <1>8, <3>3
      <4>9. /\ Singles(scopes'[1]) = ItemNames' /\ Singles(scopes'[2]) = {}
            /\ Singles(scopes'[3]) = ParamNames(item)'
            /\ Len(scopes') >= 3 /\ Len(scopes') >= 2
        BY <4>2, <4>3, <4>4, <4>5
      <4> QED
        BY <1>1, <4>6, <4>7, <4>8, <4>9 DEF ScopeInv
    <3> QED
      BY <3>10, <3>11, <3>12, <3>13 DEF ShapeInv
  <2> QED
    BY <2>7, <2>8
<1> QED
  BY <1>9, <1>10

LEMMA StutterShape ==
    ASSUME ShapeInv, UNCHANGED vars
    PROVE  ShapeInv'
<1> USE DEF vars, builder
<1>1. ScopeDepth' = ScopeDepth /\ IdDepth' = IdDepth
  BY DEF ScopeDepth, IdDepth
<1>2. DepthInv'
  BY <1>1 DEF ShapeInv, DepthInv
<1>3. TailInv'
  BY DEF ShapeInv, TailInv
<1>4. BoundInv'
  BY DEF ShapeInv, BoundInv
<1>5. ItemNames' = ItemNames /\ \A i \in DOMAIN unit : ParamNames(i)' = ParamNames(i)
  BY DEF ItemNames, ParamNames
<1>6. ParamNames(item)' = ParamNames(item)
  BY DEF ParamNames
<1>7. \A n : ItemNamesTo(n)' = ItemNamesTo(n)
  BY DEF ItemNamesTo
<1>8. ScopeInv'
  BY <1>5, <1>6, <1>7 DEF ShapeInv, ScopeInv, ItemNamesTo
<1> QED
  BY <1>2, <1>3, <1>4, <1>8 DEF ShapeInv

(* The shape of the scopes and of the visits is kept by every step that      *)
(* keeps IInv and the names of items.                                        *)
LEMMA NextShape == IInv /\ NamedInv /\ ShapeInv /\ [Next]_vars => ShapeInv'
<1> SUFFICES ASSUME IInv, NamedInv, ShapeInv, [Next]_vars PROVE ShapeInv'
  OBVIOUS
<1>1. CASE ItemFn
  BY <1>1, ItemFnShape
<1>2. CASE ItemParam
  BY <1>2, ItemParamShape
<1>3. CASE ItemFnEnd
  BY <1>3, ItemFnEndShape
<1>4. CASE ItemTypedef
  BY <1>4, ItemTypedefShape
<1>5. CASE NextPass
  BY <1>5, NextPassShape
<1>6. CASE FnBegin
  BY <1>6, FnBeginShape
<1>7. CASE FnEnd
  BY <1>7, FnEndShape
<1>8. CASE SkipTypedef
  BY <1>8, SkipTypedefShape
<1>9. CASE UnitEnd
  BY <1>9, UnitEndShape
<1>10. CASE \E empty \in BOOLEAN : BlockBegin(empty)
  BY <1>10, BlockBeginShape
<1>11. CASE BlockEnd
  BY <1>11, BlockEndShape
<1>12. CASE \E last \in BOOLEAN, expr \in Exprs : Evaluate(last, expr)
  BY <1>12, EvaluateShape
<1>13. CASE \E last \in BOOLEAN, name \in Idents, expr \in Exprs : Declare(last, name, expr)
  BY <1>13, DeclareShape
<1>14. CASE \E last \in BOOLEAN, node \in {"block", "if"} : Nest(last, node)
  BY <1>14, NestShape
<1>15. CASE \E branches \in 1..MaxBranches, else \in BOOLEAN : IfBegin(branches, else)
  BY <1>15, IfBeginShape
<1>16. CASE \E expr \in Exprs : IfBranch(expr)
  BY <1>16, IfBranchShape
<1>17. CASE IfElse
  BY <1>17, IfElseShape
<1>18. CASE IfEnd
  BY <1>18, IfEndShape
<1>19. CASE Done \/ UNCHANGED vars
  BY <1>19, StutterShape DEF Done
<1> QED
  BY <1>1, <1>2, <1>3, <1>4, <1>5, <1>6, <1>7, <1>8, <1>9, <1>10, <1>11, <1>12, <1>13,
     <1>14, <1>15, <1>16, <1>17, <1>18, <1>19, Zenon DEF Next

(* The depth of the scopes and of the current id never falls below what the  *)
(* open visits have pushed, after any number of visits that an error has cut *)
(* short, and is exactly that as long as there is no error.                  *)
THEOREM DepthsAreOfVisits == Spec => []DepthsFollowVisits
<1>1. IInv /\ ShapeInv => DepthsFollowVisits
  <2> SUFFICES ASSUME IInv, ShapeInv PROVE DepthsFollowVisits
    OBVIOUS
  <2> DEFINE a == Cardinality(FnVisits)
             b == Cardinality(Visits("block"))
             c == Cardinality(Visits("if"))
             passes == IF pass = "expressions" THEN 2 ELSE 1
  <2>1. CountIn(visits, Scoped) = a + b /\ CountIn(visits, Deeper) = a + b + c
    BY BuilderTypes, CountsAreSums
  <2>2. a \in Nat /\ b \in Nat /\ c \in Nat
    <3>1. IsFiniteSet(DOMAIN visits)
      BY BuilderTypes, LenProperties, FS_Interval
    <3>2. /\ FnVisits \subseteq DOMAIN visits /\ Visits("block") \subseteq DOMAIN visits
          /\ Visits("if") \subseteq DOMAIN visits
      BY DEF FnVisits, Visits
    <3>3. IsFiniteSet(FnVisits) /\ IsFiniteSet(Visits("block")) /\ IsFiniteSet(Visits("if"))
      BY <3>1, <3>2, FS_Subset
    <3> QED
      BY <3>3, FS_CardinalityType
  <2>3. PICK n \in Nat : n = Len(scopes)
    BY BetweenTypes
  <2>4. PICK d \in Nat : d = Len(current_id)
    BY BetweenTypes
  <2>5. pass \in {"items", "expressions", "done"}
    BY DEF IInv, TypeOK
  <2>6. passes \in Nat
    OBVIOUS
  <2> HIDE DEF a, b, c, passes
  <2>7. /\ n - (a + b) - passes >= 0
        /\ errors = {} => n - (a + b) - passes = 0
    BY <2>1, <2>3 DEF ShapeInv, DepthInv, ScopeDepth, passes
  <2>8. visits # <<>> => /\ d - (a + b + c) - 2 >= 0
                         /\ errors = {} => d - (a + b + c) - 2 = 0
    BY <2>1, <2>4, <2>5 DEF ShapeInv, DepthInv, IdDepth
  <2>9. /\ n >= passes + a + b
        /\ errors = {} => n = passes + a + b
    BY <2>2, <2>3, <2>6, <2>7
  <2>10. visits # <<>> => /\ d >= 2 + a + b + c
                          /\ errors = {} => d = 2 + a + b + c
    BY <2>2, <2>4, <2>8
  <2> QED
    BY <2>3, <2>4, <2>9, <2>10 DEF DepthsFollowVisits, a, b, c, passes
<1> QED
  BY <1>1, InitInv, NextInv, InitNames, NextNames, InitShape, NextShape, PTL DEF Spec

(* set_source and its undoing agree over any nesting of blocks and ifs: what *)
(* begins with no source left over asks exactly the last statements of what  *)
(* has a value for theirs, and names the node that needs it.                 *)
THEOREM TailsAreSourced == Spec => []TailsHaveSources
<1>1. IInv /\ ShapeInv => TailsHaveSources
  <2> SUFFICES ASSUME IInv, ShapeInv, pass = "expressions", visits # <<>>,
                      visits[1].left = 0, errors = {}, NEW i \in 2..Len(visits),
                      visits[i].phase # "start"
               PROVE  visits[i].source = IF visits[i].tail THEN visits[i - 1].id ELSE None
    BY DEF TailsHaveSources
  <2>1. Spine(visits)
    BY DEF ShapeInv, TailInv
  <2> QED
    BY <2>1 DEF Spine
<1> QED
  BY <1>1, InitInv, NextInv, InitNames, NextNames, InitShape, NextShape, PTL DEF Spec

(* A key is found exactly if some scope has it: get takes the last of these, *)
(* and nothing is bound to the empty id.                                     *)
LEMMA FoundIfDefined ==
    ASSUME IInv, ShapeInv, NEW key
    PROVE  Get(key) # None <=> \E i \in 1..Len(scopes) : key \in DOMAIN scopes[i]
<1>1. BoundScopes(scopes)
  BY BetweenTypes
<1>2. PICK n \in Nat : n = Len(scopes) /\ DOMAIN scopes = 1..n
  BY <1>1, LenProperties DEF BoundScopes
<1> DEFINE D == {i \in 1..n : key \in DOMAIN scopes[i]}
<1>3. Defines(key) = D
  BY <1>2 DEF Defines
<1>4. CASE D = {}
  BY <1>2, <1>3, <1>4 DEF Get
<1>5. CASE D # {}
  <2>1. PICK i \in D : \A j \in D : j <= i
    <3> DEFINE B == {k \in Nat : k <= n /\ n - k \in D}
    <3>1. PICK d \in D : d \in 1..n
      BY <1>5
    <3>2. n - d \in B /\ B \subseteq Nat
      <4>1. n - d \in Nat /\ n - d <= n /\ n - (n - d) = d
        BY <3>1
      <4> QED
        BY <3>1, <4>1
    <3>3. PICK k \in B : \A j \in B : k <= j
      <4> HIDE DEF B
      <4>1. B # {} /\ B \in SUBSET Nat
        BY <3>2
      <4> QED
        BY <4>1, LeastOf
    <3>4. n - k \in D
      BY <3>3
    <3>5. ASSUME NEW j \in D PROVE j <= n - k
      <4>1. j \in 1..n
        OBVIOUS
      <4>2. n - j \in Nat /\ n - j <= n /\ n - (n - j) = j
        BY <4>1
      <4>3. n - j \in B
        BY <3>5, <4>2
      <4>4. k <= n - j /\ k \in Nat
        BY <3>3, <4>3
      <4> QED
        BY <4>1, <4>4
    <3> QED
      BY <3>4, <3>5
  <2>2. PICK c : c = CHOOSE h \in D : \A j \in D : j <= h
    OBVIOUS
  <2>3. c \in D
    BY <2>1, <2>2
  <2>4. Get(key) = scopes[c][key]
    BY <1>3, <1>5, <2>2 DEF Get
  <2>5. c \in 1..Len(scopes) /\ key \in DOMAIN scopes[c]
    BY <1>2, <2>3
  <2>6. scopes[c][key] # None
    BY <1>1, <2>5 DEF BoundScopes, Binds
  <2> QED
    BY <2>4, <2>5, <2>6
<1> QED
  BY <1>4, <1>5

(* In a unit without errors a name is found exactly if it is of an item, of  *)
(* a parameter of the function, or was declared before in an open block,     *)
(* however the blocks are nested and whichever functions and blocks have     *)
(* ended: what new_scope adds is gone when its node ends.                    *)
THEOREM NamesAreLexical == Spec => []ScopeIsLexical
<1>1. IInv /\ ShapeInv => ScopeIsLexical
  <2> SUFFICES ASSUME IInv, ShapeInv, pass = "expressions", visits # <<>>, errors = {},
                      NEW name \in Idents
               PROVE  Get(<<name>>) # None
                         <=> name \in ItemNames \cup ParamNames(item) \cup OpenNames
    BY DEF ScopeIsLexical
  <2>1. /\ Singles(scopes[1]) = ItemNames /\ Singles(scopes[2]) = {}
        /\ Singles(scopes[3]) = ParamNames(item) /\ Len(scopes) >= 3
        /\ \E m : Aligned(scopes, visits, m)
    BY DEF ShapeInv, ScopeInv
  <2>2. PICK m : Aligned(scopes, visits, m)
    BY <2>1
  <2>3. PICK n \in Nat : n = Len(scopes)
    BY BetweenTypes
  <2>4. n \in Nat /\ n >= 3
    BY <2>1, <2>3
  <2>5. PICK k \in Nat \ {0} : k = Len(visits) /\ DOMAIN visits = 1..k
    BY BuilderTypes, StackOfVisits, LenProperties
  <2>6. \A i \in 1..n : <<name>> \in DOMAIN scopes[i] <=> name \in Singles(scopes[i])
    BY DEF Singles
  <2>7. Get(<<name>>) # None <=> \E i \in 1..n : name \in Singles(scopes[i])
    BY <2>3, <2>6, FoundIfDefined
  <2>8. name \in OpenNames <=> \E i \in 1..k : name \in visits[i].names
    BY <2>5 DEF OpenNames
  <2>9. ASSUME NEW s \in 4..n, name \in Singles(scopes[s])
        PROVE  name \in OpenNames
    <3>1. PICK i \in 2..k : visits[i] \in Scoped /\ m[i] = s
      BY <2>2, <2>3, <2>5 DEF Aligned
    <3>2. Singles(scopes[m[i]]) = visits[i].names
      BY <2>2, <2>5, <3>1 DEF Aligned
    <3>3. i \in 1..k
      BY <3>1
    <3> QED
      BY <2>8, <2>9, <3>1, <3>2, <3>3
  <2>10. ASSUME NEW i \in 1..k, name \in visits[i].names
         PROVE  \E s \in 1..n : name \in Singles(scopes[s])
    <3>1. i # 1 /\ i \in 2..k
      <4>1. i # 1
        BY <2>2, <2>10 DEF Aligned
      <4> QED
        BY <2>5, <4>1
    <3>2. visits[i] \in Scoped /\ Singles(scopes[m[i]]) = visits[i].names
      BY <2>2, <2>5, <2>10, <3>1 DEF Aligned
    <3>3. m[i] \in 1..n
      <4>1. /\ m \in Seq(Nat) /\ Len(m) = k /\ m[1] = 3 /\ m[k] = n
            /\ \A p, q \in 1..k : p <= q => m[p] <= m[q]
        BY <2>2, <2>3, <2>5 DEF Aligned
      <4>2. 1 \in 1..k /\ k \in 1..k /\ 1 <= i /\ i <= k
        BY <2>5
      <4>3. m[1] <= m[i] /\ m[i] <= m[k] /\ m[i] \in Nat
        BY <4>1, <4>2, ElementOfSeq
      <4> QED
        BY <2>4, <4>1, <4>3
    <3> QED
      BY <2>10, <3>2, <3>3
  <2>11. \A i \in 1..n : i = 1 \/ i = 2 \/ i = 3 \/ i \in 4..n
    BY <2>4
  <2>12. 1 \in 1..n /\ 3 \in 1..n
    BY <2>4
  <2>13. Get(<<name>>) # None => name \in ItemNames \cup ParamNames(item) \cup OpenNames
    BY <2>1, <2>7, <2>9, <2>11
  <2>14. name \in ItemNames \cup ParamNames(item) \cup OpenNames => Get(<<name>>) # None
    BY <2>1, <2>7, <2>8, <2>10, <2>12
  <2> QED
    BY <2>13, <2>14
<1> QED
  BY <1>1, InitInv, NextInv, InitNames, NextNames, InitShape, NextShape, PTL DEF Spec
=============================================================================

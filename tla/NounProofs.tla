----------------------------- MODULE NounProofs -----------------------------
(***************************************************************************)
(* Proofs about reference counts and garbage collection, for any number of *)
(* boxes and references: no noun is freed while something refers to it,    *)
(* counts are exact, a collection frees what nothing reaches and nothing   *)
(* else, and finds as many boxes marked as it marked.                      *)
(***************************************************************************)
EXTENDS Noun, FiniteSetTheorems, SequenceTheorems, TLAPS

-----------------------------------------------------------------------------

(* Counting in sequences. *)

\* The places of x in s, and how many there are.
Places(s, x) == {i \in 1 .. Len(s) : s[i] = x}
Count(s, x) == Cardinality(Places(s, x))

\* An element of a sequence has finitely many places.
LEMMA PlacesFinite ==
    ASSUME NEW X, NEW s \in Seq(X), NEW x PROVE IsFiniteSet(Places(s, x)) /\ Count(s, x) \in Nat
<1>1. Len(s) \in Int /\ 1 \in Int
  BY LenProperties
<1>2. IsFiniteSet(1 .. Len(s))
  BY <1>1, FS_Interval
<1>3. Places(s, x) \in SUBSET (1 .. Len(s))
  BY DEF Places
<1>4. IsFiniteSet(Places(s, x))
  BY <1>2, <1>3, FS_Subset
<1> QED BY <1>4, FS_CardinalityType DEF Count

\* The empty sequence has nothing.
LEMMA CountEmpty == ASSUME NEW x PROVE Count(<< >>, x) = 0
<1>1. Places(<< >>, x) = {}
  BY DEF Places
<1> QED BY <1>1, FS_EmptySet DEF Count

\* s is t with d elements put before it.
Shifts(t, s, d) == Len(s) = Len(t) + d /\ \A i \in 1 .. Len(t) : s[i + d] = t[i]

\* One element more.
LEMMA CountPush ==
    ASSUME NEW X, NEW t \in Seq(X), NEW s \in Seq(X), Shifts(t, s, 1), NEW x
    PROVE  Count(s, x) = Count(t, x) + (IF s[1] = x THEN 1 ELSE 0)
<1> DEFINE up == {i + 1 : i \in Places(t, x)}
<1>1. Len(s) = Len(t) + 1 /\ \A i \in 1 .. Len(t) : s[i + 1] = t[i]
  BY DEF Shifts
<1>2. Len(t) \in Nat
  BY LenProperties
<1>3. Places(s, x) = up \union (IF s[1] = x THEN {1} ELSE {})
  <2>1. ASSUME NEW i \in Places(s, x) PROVE i \in up \union (IF s[1] = x THEN {1} ELSE {})
    <3>1. CASE i = 1
      BY <1>1, <2>1, <3>1 DEF Places
    <3>2. CASE i # 1
      <4>1. i - 1 \in 1 .. Len(t) /\ (i - 1) + 1 = i
        BY <1>1, <1>2, <2>1, <3>2 DEF Places
      <4>2. i - 1 \in Places(t, x)
        BY <1>1, <2>1, <4>1 DEF Places
      <4> QED BY <4>1, <4>2
    <3> QED BY <3>1, <3>2
  <2>2. ASSUME NEW i \in up PROVE i \in Places(s, x)
    <3>1. PICK j \in Places(t, x) : i = j + 1
      OBVIOUS
    <3> QED BY <1>1, <1>2, <3>1 DEF Places
  <2>3. s[1] = x => 1 \in Places(s, x)
    BY <1>1, <1>2 DEF Places
  <2> QED BY <2>1, <2>2, <2>3
<1>4. IsFiniteSet(up) /\ Cardinality(up) = Count(t, x)
  <2> DEFINE f == [i \in Places(t, x) |-> i + 1]
  <2>1. f \in Bijection(Places(t, x), up)
    <3>1. f \in [Places(t, x) -> up]
      OBVIOUS
    <3>2. \A i, j \in Places(t, x) : f[i] = f[j] => i = j
      BY <1>2 DEF Places
    <3>3. \A u \in up : \E i \in Places(t, x) : f[i] = u
      OBVIOUS
    <3> QED BY <3>1, <3>2, <3>3 DEF Bijection, Injection, Surjection, IsInjective
  <2>2. ExistsBijection(Places(t, x), up)
    BY <2>1 DEF ExistsBijection
  <2> HIDE DEF up
  <2> QED BY <2>2, PlacesFinite, FS_Bijection DEF Count
<1>5. 1 \notin up
  BY <1>2 DEF Places
<1>6. Count(t, x) \in Nat
  BY PlacesFinite
<1>7. CASE s[1] = x
  <2>1. Places(s, x) = up \union {1}
    BY <1>3, <1>7
  <2>2. Count(s, x) = Cardinality(up \union {1})
    BY <2>1 DEF Count
  <2> HIDE DEF up
  <2>3. Cardinality(up \union {1}) = Cardinality(up) + 1
    BY <1>4, <1>5, FS_AddElement
  <2> QED BY <1>1, <1>4, <1>7, <2>2, <2>3
<1>8. CASE s[1] # x
  <2>1. Places(s, x) = up
    BY <1>3, <1>8
  <2>2. Count(s, x) = Cardinality(up)
    BY <2>1 DEF Count
  <2> HIDE DEF up
  <2> QED BY <1>1, <1>4, <1>6, <1>8, <2>2
<1> QED BY <1>7, <1>8

\* The same for one that loses its first element.
LEMMA CountPop ==
    ASSUME NEW X, NEW s \in Seq(X), s # << >>, NEW x
    PROVE  Count(s, x) = Count(Tail(s), x) + (IF s[1] = x THEN 1 ELSE 0)
<1> DEFINE t == Tail(s)
<1>1. t \in Seq(X) /\ Len(s) = Len(t) + 1
  OBVIOUS
<1>2. Shifts(t, s, 1)
  BY DEF Shifts
<1> HIDE DEF t
<1>3. Count(s, x) = Count(t, x) + (IF s[1] = x THEN 1 ELSE 0)
  BY <1>1, <1>2, CountPush
<1> QED BY <1>3 DEF t

\* Two elements pushed.
LEMMA CountPushTwo ==
    ASSUME NEW X, NEW t \in Seq(X), NEW s \in Seq(X), Shifts(t, s, 2), NEW x
    PROVE  Count(s, x) =
             Count(t, x) + (IF s[1] = x THEN 1 ELSE 0) + (IF s[2] = x THEN 1 ELSE 0)
<1> DEFINE u == Tail(s)
<1>1. Len(t) \in Nat /\ s # << >>
  BY LenProperties DEF Shifts
<1>2. u \in Seq(X) /\ u[1] = s[2]
  BY <1>1 DEF Shifts
<1>3. Shifts(t, u, 1)
  BY <1>1 DEF Shifts
<1>4. Count(s, x) = Count(u, x) + (IF s[1] = x THEN 1 ELSE 0)
  BY <1>1, CountPop
<1> HIDE DEF u
<1>5. Count(u, x) = Count(t, x) + (IF u[1] = x THEN 1 ELSE 0)
  BY <1>2, <1>3, CountPush
<1>6. Count(t, x) \in Nat
  BY PlacesFinite
<1> QED BY <1>2, <1>4, <1>5, <1>6

\* Three elements pushed.
LEMMA CountPushThree ==
    ASSUME NEW X, NEW t \in Seq(X), NEW s \in Seq(X), Shifts(t, s, 3), NEW x
    PROVE  Count(s, x) =
             Count(t, x) + (IF s[1] = x THEN 1 ELSE 0) + (IF s[2] = x THEN 1 ELSE 0)
                         + (IF s[3] = x THEN 1 ELSE 0)
<1> DEFINE u == Tail(s)
           v == Tail(u)
<1>1. Len(t) \in Nat /\ s # << >>
  BY LenProperties DEF Shifts
<1>2. u \in Seq(X) /\ u[1] = s[2] /\ u[2] = s[3]
  BY <1>1 DEF Shifts
<1>3. Shifts(t, u, 2)
  BY <1>1 DEF Shifts
<1>4. Count(s, x) = Count(u, x) + (IF s[1] = x THEN 1 ELSE 0)
  BY <1>1, CountPop
<1> HIDE DEF u
<1>5. Count(u, x) = Count(t, x) + (IF u[1] = x THEN 1 ELSE 0) + (IF u[2] = x THEN 1 ELSE 0)
  BY <1>2, <1>3, CountPushTwo
<1>6. Count(t, x) \in Nat
  BY PlacesFinite
<1> QED BY <1>2, <1>4, <1>5, <1>6

(* The slots of cells. *)

\* The slots of the boxes in A that hold b, k being the contents of boxes.
Held(A, k, b) == {s \in A \X {1, 2} : k[s[1]] # << >> /\ k[s[1]][s[2]] = b}
Slotted(A, k, b) == Cardinality(Held(A, k, b))

\* Finitely many boxes have finitely many slots.
LEMMA HeldFinite ==
    ASSUME NEW A, IsFiniteSet(A), NEW k, NEW b
    PROVE  IsFiniteSet(Held(A, k, b)) /\ Slotted(A, k, b) \in Nat
<1>1. IsFiniteSet({1, 2})
  <2>1. IsFiniteSet({1})
    BY FS_Singleton
  <2>2. IsFiniteSet({1} \union {2})
    BY <2>1, FS_AddElement
  <2>3. {1, 2} = {1} \union {2}
    OBVIOUS
  <2> QED BY <2>2, <2>3
<1>2. IsFiniteSet(A \X {1, 2})
  BY <1>1, FS_Product
<1>3. Held(A, k, b) \in SUBSET (A \X {1, 2})
  BY DEF Held
<1>4. IsFiniteSet(Held(A, k, b))
  BY <1>2, <1>3, FS_Subset
<1> QED BY <1>4, FS_CardinalityType DEF Slotted

\* Boxes with the same contents.
LEMMA SameSlots ==
    ASSUME NEW A, NEW k, NEW m, NEW b, \A a \in A : k[a] = m[a]
    PROVE  Slotted(A, k, b) = Slotted(A, m, b)
<1>1. Held(A, k, b) = Held(A, m, b)
  BY DEF Held
<1> QED BY <1>1 DEF Slotted

\* B has n besides what A has.
Adds(A, B, n) == \A a : a \in B <=> a \in A \/ a = n

\* A box more, that is an atom.
LEMMA AtomSlots ==
    ASSUME NEW A, NEW B, NEW n, Adds(A, B, n), NEW k, NEW b, k[n] = << >>
    PROVE  Slotted(B, k, b) = Slotted(A, k, b)
<1>1. Held(A, k, b) = Held(B, k, b)
  BY DEF Held, Adds
<1> QED BY <1>1 DEF Slotted

\* A box more, that is a cell.
LEMMA CellSlots ==
    ASSUME NEW A, NEW B, IsFiniteSet(A), NEW n, n \notin A, Adds(A, B, n),
           NEW k, NEW b, NEW h, NEW t, k[n] = <<h, t>>
    PROVE  Slotted(B, k, b) =
             Slotted(A, k, b) + (IF h = b THEN 1 ELSE 0) + (IF t = b THEN 1 ELSE 0)
<1> DEFINE S == Held(A, k, b)
           H == IF h = b THEN S \union {<<n, 1>>} ELSE S
           T == IF t = b THEN H \union {<<n, 2>>} ELSE H
<1>1. IsFiniteSet(S) /\ Cardinality(S) \in Nat
  BY HeldFinite DEF Slotted
<1>2. <<n, 1>> \notin S /\ <<n, 2>> \notin H
  BY DEF Held, Adds
<1>3. Held(B, k, b) = T
  <2>1. ASSUME NEW s \in Held(B, k, b) PROVE s \in T
    <3>1. s \in B \X {1, 2} /\ k[s[1]] # << >> /\ k[s[1]][s[2]] = b
      BY DEF Held, Adds
    <3>2. CASE s[1] \in A
      BY <3>1, <3>2 DEF Held
    <3>3. CASE s[1] = n /\ s[2] = 1
      BY <3>1, <3>3
    <3>4. CASE s[1] = n /\ s[2] = 2
      BY <3>1, <3>4
    <3> QED BY <3>1, <3>2, <3>3, <3>4 DEF Adds
  <2>2. ASSUME NEW s \in S PROVE s \in Held(B, k, b)
    BY DEF Held, Adds
  <2>3. h = b => <<n, 1>> \in Held(B, k, b)
    BY DEF Held, Adds
  <2>4. t = b => <<n, 2>> \in Held(B, k, b)
    BY DEF Held, Adds
  <2> QED BY <2>1, <2>2, <2>3, <2>4
<1> HIDE DEF S
<1>4. /\ IsFiniteSet(H) /\ Cardinality(H) \in Nat
      /\ Cardinality(H) = Cardinality(S) + (IF h = b THEN 1 ELSE 0)
  <2>1. CASE h = b
    <3>1. IsFiniteSet(S \union {<<n, 1>>}) /\ Cardinality(S \union {<<n, 1>>}) = Cardinality(S) + 1
      BY <1>1, <1>2, FS_AddElement
    <3> QED BY <1>1, <2>1, <3>1
  <2>2. CASE h # b
    BY <1>1, <2>2
  <2> QED BY <2>1, <2>2
<1> HIDE DEF H
<1>5. Cardinality(T) = Cardinality(H) + (IF t = b THEN 1 ELSE 0)
  <2>1. CASE t = b
    <3>1. Cardinality(H \union {<<n, 2>>}) = Cardinality(H) + 1
      BY <1>2, <1>4, FS_AddElement
    <3> QED BY <2>1, <3>1
  <2>2. CASE t # b
    BY <1>4, <2>2
  <2> QED BY <2>1, <2>2
<1> QED BY <1>3, <1>4, <1>5 DEF Slotted, S

-----------------------------------------------------------------------------

(* The invariant. *)

\* What is left of a recursion.
Work == {"lose", "free", "mark"} \X Nouns

NounType ==
    /\ mode \in {"run", "lose", "mark"}
    /\ use \in [Box -> Int] /\ kids \in [Box -> {<< >>} \union (Nouns \X Nouns)]
    /\ roots \in [Box -> Nat] /\ forgot \in [Box -> Nat] /\ todo \in [Box -> Nat]
    /\ stack \in Seq(Work) /\ sav \in Nat

\* The cells that hold on to what is in their slots.
Live == {a \in Box : use[a] # 0 /\ a \notin Dying}
Marked == {a \in Box : use[a] < 0}

Losses(b) == Count(stack, <<"lose", b>>)
Frees(b) == Count(stack, <<"free", b>>)
Marks(b) == Count(stack, <<"mark", b>>)
Slotting(b) == Slotted(Live, kids, b)

\* A free box has no contents.
FreeIsEmpty == \A b \in Box : use[b] = 0 => kids[b] = << >>

\* a is a cell with b in it.
Points(k, a, b) == k[a] # << >> /\ (k[a][1] = b \/ k[a][2] = b)

\* Cells are made of nouns that are there already, so among any boxes there is
\* one, the newest, that no cell among them has in it.
Acyclic ==
    \A S \in SUBSET Box : S # {} => \E b \in S : \A a \in S : ~ Points(kids, a, b)

\* A count is the number of references, and of those forgotten, or stuck; a box
\* about to be freed has its last count and no references.
Counted ==
    \A b \in Box :
        \/ /\ Frees(b) = 1 /\ use[b] = 1 /\ forgot[b] = 0
           /\ roots[b] = 0 /\ Slotting(b) = 0 /\ Losses(b) = 0
        \/ /\ Frees(b) = 0
           /\ use[b] \in {roots[b] + Slotting(b) + Losses(b) + forgot[b], Sticky}

\* In a collection, the marks of a box, and those still to come of roots and on
\* the stack, are the references to it by roots and marked cells.
Balanced(b) ==
    (IF use[b] < 0 THEN - use[b] ELSE 0) + todo[b] + Marks(b) =
        roots[b] + Slotted(Marked, kids, b)

Marking ==
    \A b \in Box :
        /\ Losses(b) = 0 /\ Frees(b) = 0 /\ Balanced(b)
        /\ roots[b] + Slotting(b) > 0 => use[b] # 0

NounInv ==
    /\ NounType /\ FreeIsEmpty /\ Acyclic
    /\ mode = "run" => stack = << >>
    /\ mode # "mark" => Counted /\ sav = 0
    /\ mode = "mark" => Marking /\ SavedIsLive

-----------------------------------------------------------------------------

(* References as counts. *)

\* The places of "free" and "lose" on the stack, and the slots of live cells,
\* are what Noun counts.
RefsSplit == \A b \in Box : Refs(b) = roots[b] + Slotting(b) + Losses(b)
DyingSplit == stack \in Seq(Work) => \A b \in Box : b \in Dying <=> Frees(b) # 0

\* References are roots, slots and losses.
LEMMA RefsIs == RefsSplit
<1> SUFFICES ASSUME NEW b \in Box PROVE Refs(b) = roots[b] + Slotting(b) + Losses(b)
  BY DEF RefsSplit
<1>1. Held(Live, kids, b) =
        {s \in Slots : /\ use[s[1]] # 0 /\ s[1] \notin Dying
                       /\ kids[s[1]] # << >> /\ kids[s[1]][s[2]] = b}
  BY DEF Held, Live, Slots
<1>2. Places(stack, <<"lose", b>>) = {i \in 1 .. Len(stack) : stack[i] = <<"lose", b>>}
  BY DEF Places
<1> QED BY <1>1, <1>2 DEF Refs, Slotting, Slotted, Losses, Count

\* What is dying is what is to be freed.
LEMMA DyingIs == DyingSplit
<1> SUFFICES ASSUME stack \in Seq(Work), NEW b \in Box PROVE b \in Dying <=> Frees(b) # 0
  BY DEF DyingSplit
<1>1. IsFiniteSet(Places(stack, <<"free", b>>))
  BY PlacesFinite
<1>2. Frees(b) # 0 <=> Places(stack, <<"free", b>>) # {}
  BY <1>1, FS_EmptySet DEF Frees, Count
<1>3. b \in Dying <=> \E i \in 1 .. Len(stack) : stack[i][1] = "free" /\ stack[i][2] = b
  BY DEF Dying
<1>4. \A i \in 1 .. Len(stack) :
         stack[i] = <<"free", b>> <=> stack[i][1] = "free" /\ stack[i][2] = b
  BY DEF Work
<1> QED BY <1>2, <1>3, <1>4 DEF Places

\* What these counts are.
LiveSplit ==
    stack \in Seq(Work) => Live = {a \in Box : use[a] # 0 /\ Frees(a) = 0}
CountTypes ==
    /\ stack \in Seq(Work) =>
         \A b \in Box : Losses(b) \in Nat /\ Frees(b) \in Nat /\ Marks(b) \in Nat
    /\ IsFiniteSet(Live) /\ IsFiniteSet(Marked)
    /\ \A b \in Box : Slotting(b) \in Nat /\ Slotted(Marked, kids, b) \in Nat

\* What is live is in use and not to be freed.
LEMMA LiveIs == LiveSplit
BY DyingIs DEF LiveSplit, DyingSplit, Live

\* The counts are numbers.
LEMMA CountTypesHold == CountTypes
<1>1. stack \in Seq(Work) =>
        \A b \in Box : Losses(b) \in Nat /\ Frees(b) \in Nat /\ Marks(b) \in Nat
  BY PlacesFinite DEF Losses, Frees, Marks
<1>2. Live \in SUBSET Box /\ Marked \in SUBSET Box
  BY DEF Live, Marked
<1>3. IsFiniteSet(Live) /\ IsFiniteSet(Marked)
  BY <1>2, NounAssumption, FS_Subset
<1>4. \A b \in Box : Slotting(b) \in Nat /\ Slotted(Marked, kids, b) \in Nat
  BY <1>3, HeldFinite DEF Slotting
<1> QED BY <1>1, <1>3, <1>4 DEF CountTypes

\* All of this, before and after a step.
LEMMA Facts ==
    /\ RefsSplit /\ DyingSplit /\ LiveSplit /\ CountTypes
    /\ RefsSplit' /\ DyingSplit' /\ LiveSplit' /\ CountTypes'
BY RefsIs, DyingIs, LiveIs, CountTypesHold, PTL

\* Emptying boxes makes no cycle.
LEMMA AcyclicShrinks ==
    ASSUME Acyclic, \A a \in Box : kids'[a] = kids[a] \/ kids'[a] = << >> PROVE Acyclic'
BY DEF Acyclic, Points

\* Entries pushed on a stack.
One(s, w, u) == s = <<w>> \o u

\* One thing left to do more.
LEMMA PushOne ==
    ASSUME NEW w \in Work, NEW u \in Seq(Work), NEW s, One(s, w, u)
    PROVE  /\ s \in Seq(Work)
           /\ \A x : Count(s, x) = Count(u, x) + (IF w = x THEN 1 ELSE 0)
<1>1. s \in Seq(Work) /\ s[1] = w
  BY DEF One
<1>2. Shifts(u, s, 1)
  BY DEF One, Shifts
<1>3. \A x : Count(s, x) = Count(u, x) + (IF s[1] = x THEN 1 ELSE 0)
  BY <1>1, <1>2, CountPush
<1> QED BY <1>1, <1>3

Two(s, w, y, u) == s = <<w, y>> \o u

\* Two things left to do more, w first.
LEMMA PushTwo ==
    ASSUME NEW w \in Work, NEW y \in Work, NEW u \in Seq(Work), NEW s, Two(s, w, y, u)
    PROVE  /\ s \in Seq(Work)
           /\ \A x : Count(s, x) = Count(u, x) + (IF w = x THEN 1 ELSE 0) + (IF y = x THEN 1 ELSE 0)
<1>1. s \in Seq(Work) /\ s[1] = w /\ s[2] = y
  BY DEF Two
<1>2. Shifts(u, s, 2)
  BY DEF Two, Shifts
<1>3. \A x : Count(s, x) = Count(u, x) + (IF s[1] = x THEN 1 ELSE 0) + (IF s[2] = x THEN 1 ELSE 0)
  BY <1>1, <1>2, CountPushTwo
<1> QED BY <1>1, <1>3

Three(s, w, y, z, u) == s = <<w, y, z>> \o u

\* Three things left to do more, w first.
LEMMA PushThree ==
    ASSUME NEW w \in Work, NEW y \in Work, NEW z \in Work, NEW u \in Seq(Work),
           NEW s, Three(s, w, y, z, u)
    PROVE  /\ s \in Seq(Work)
           /\ \A x : Count(s, x) = Count(u, x) + (IF w = x THEN 1 ELSE 0)
                                     + (IF y = x THEN 1 ELSE 0) + (IF z = x THEN 1 ELSE 0)
<1>1. s \in Seq(Work) /\ s[1] = w /\ s[2] = y /\ s[3] = z
  BY DEF Three
<1>2. Shifts(u, s, 3)
  BY DEF Three, Shifts
<1>3. \A x : Count(s, x) = Count(u, x) + (IF s[1] = x THEN 1 ELSE 0)
                             + (IF s[2] = x THEN 1 ELSE 0) + (IF s[3] = x THEN 1 ELSE 0)
  BY <1>1, <1>2, CountPushThree
<1> QED BY <1>1, <1>3

\* A stack that is not touched, or loses its first entry.
LEMMA StackSame ==
    ASSUME stack' = stack
    PROVE  \A b \in Box : Losses(b)' = Losses(b) /\ Frees(b)' = Frees(b) /\ Marks(b)' = Marks(b)
BY DEF Losses, Frees, Marks

\* With nothing left to do there is nothing to lose, free or mark.
LEMMA StackEmpty ==
    ASSUME stack = << >> PROVE \A b \in Box : Losses(b) = 0 /\ Frees(b) = 0 /\ Marks(b) = 0
BY CountEmpty DEF Losses, Frees, Marks

-----------------------------------------------------------------------------

(* The steps of a run. *)

\* The box of a new noun was free, and nothing refers to it.
LEMMA FreeBox ==
    ASSUME NounInv, mode = "run", NEW n \in Box, use[n] = 0
    PROVE  /\ roots[n] = 0 /\ forgot[n] = 0 /\ Slotting(n) = 0 /\ kids[n] = << >>
           /\ \A b \in Box : Losses(b) = 0 /\ Frees(b) = 0
           /\ Live = {a \in Box : use[a] # 0}
<1>1. \A b \in Box : Losses(b) = 0 /\ Frees(b) = 0
  BY StackEmpty DEF NounInv
<1>2. use[n] \in {roots[n] + Slotting(n) + Losses(n) + forgot[n], Sticky}
  BY <1>1 DEF NounInv, Counted
<1>3. roots[n] \in Nat /\ forgot[n] \in Nat /\ Slotting(n) \in Nat
  BY Facts DEF NounInv, NounType, CountTypes
<1>4. Losses(n) = 0 /\ Sticky # 0
  BY <1>1, NounAssumption
<1>5. 0 = roots[n] + Slotting(n) + 0 + forgot[n]
  BY <1>2, <1>4
<1>6. roots[n] = 0 /\ forgot[n] = 0 /\ Slotting(n) = 0
  <2>1. \A i, j, k \in Nat : 0 = i + j + 0 + k => i = 0 /\ k = 0 /\ j = 0
    OBVIOUS
  <2> QED BY <1>3, <1>5, <2>1
<1>7. Live = {a \in Box : use[a] # 0}
  BY <1>1, Facts DEF NounInv, NounType, LiveSplit
<1> QED BY <1>1, <1>6, <1>7 DEF NounInv, FreeIsEmpty

\* A new atom.
LEMMA AtomKeeps == ASSUME NounInv, NEW n \in Box, Atom(n) PROVE NounInv'
<1>1. /\ roots[n] = 0 /\ forgot[n] = 0 /\ Slotting(n) = 0 /\ kids[n] = << >>
      /\ \A b \in Box : Losses(b) = 0 /\ Frees(b) = 0
      /\ Live = {a \in Box : use[a] # 0}
  BY FreeBox DEF Atom
<1>2. NounType'
  BY DEF NounInv, NounType, Atom
<1>3. \A b \in Box : Losses(b)' = 0 /\ Frees(b)' = 0
  BY <1>1, StackSame DEF Atom
<1>4. Live' = Live \union {n}
  BY <1>1, <1>2, <1>3, Facts DEF NounInv, NounType, LiveSplit, Atom
<1>5. ASSUME NEW b \in Box PROVE Slotting(b)' = Slotting(b)
  <2>1. kids'[n] = << >> /\ \A a \in Live : kids[a] = kids'[a]
    BY <1>1 DEF NounInv, NounType, Atom
  <2>2. Adds(Live, Live', n)
    BY <1>4 DEF Adds
  <2>3. Slotted(Live', kids', b) = Slotted(Live, kids', b)
    BY <2>1, <2>2, AtomSlots
  <2>4. Slotted(Live, kids', b) = Slotted(Live, kids, b)
    BY <2>1, SameSlots
  <2> QED BY <2>3, <2>4 DEF Slotting
<1>6. Counted'
  <2> SUFFICES ASSUME NEW b \in Box
               PROVE  /\ Frees(b)' = 0
                      /\ use'[b] \in {roots'[b] + Slotting(b)' + Losses(b)' + forgot'[b], Sticky}
    BY DEF Counted
  <2>1. CASE b = n
    BY <1>1, <1>3, <1>5, <2>1 DEF NounInv, NounType, Atom
  <2>2. CASE b # n
    BY <1>1, <1>3, <1>5, <2>2 DEF NounInv, NounType, Counted, Atom
  <2> QED BY <2>1, <2>2
<1>7. FreeIsEmpty'
  BY DEF NounInv, NounType, FreeIsEmpty, Atom
<1>8. Acyclic'
  BY AcyclicShrinks DEF NounInv, NounType, Atom
<1> QED BY <1>2, <1>6, <1>7, <1>8 DEF NounInv, Atom

\* The references to b that <<h, t>> takes over.
Taken(h, t, b) == (IF h = b THEN 1 ELSE 0) + (IF t = b THEN 1 ELSE 0)

\* A new cell takes over a reference to its head and one to its tail.
LEMMA CellKeeps ==
    ASSUME NounInv, NEW n \in Box, NEW h \in Nouns, NEW t \in Nouns, Cell(n, h, t) PROVE NounInv'
<1>1. /\ roots[n] = 0 /\ forgot[n] = 0 /\ Slotting(n) = 0 /\ kids[n] = << >>
      /\ \A b \in Box : Losses(b) = 0 /\ Frees(b) = 0
      /\ Live = {a \in Box : use[a] # 0}
  BY FreeBox DEF Cell
<1>2. h # n /\ t # n
  BY <1>1 DEF Cell, Given
<1>3. ASSUME NEW b \in Box, b # n
      PROVE  roots'[b] = roots[b] - Taken(h, t, b) /\ roots'[b] \in Nat
  <2>1. roots[b] \in Nat
    BY DEF NounInv, NounType
  <2>2. roots'[b] = Given(h, t)[b] /\ Given(h, t)[b] >= 0
    BY <1>3 DEF Cell, Given
  <2>3. Given(h, t)[b] = roots[b] - (IF b = h THEN 1 ELSE 0) - (IF b = t THEN 1 ELSE 0)
    BY DEF Given
  <2> QED BY <2>1, <2>2, <2>3 DEF Taken
<1>4. roots' \in [Box -> Nat] /\ roots'[n] = 1
  BY <1>3 DEF Cell, Given
<1>5. NounType'
  BY <1>4 DEF NounInv, NounType, Cell
<1>6. \A b \in Box : Losses(b)' = 0 /\ Frees(b)' = 0
  BY <1>1, StackSame DEF Cell
<1>7. Live' = Live \union {n}
  BY <1>1, <1>5, <1>6, Facts DEF NounInv, NounType, LiveSplit, Cell
<1>8. kids'[n] = <<h, t>> /\ \A a \in Box : a # n => kids'[a] = kids[a]
  BY DEF NounInv, NounType, Cell
<1>9. n \notin Live
  BY <1>1 DEF Cell
<1>10. ASSUME NEW b \in Box PROVE Slotting(b)' = Slotting(b) + Taken(h, t, b)
  <2>1. \A a \in Live : kids[a] = kids'[a]
    BY <1>8, <1>9 DEF Live
  <2>2. IsFiniteSet(Live) /\ Slotting(b) \in Nat
    BY Facts DEF CountTypes
  <2>3. Adds(Live, Live', n)
    BY <1>7 DEF Adds
  <2>4. Slotted(Live', kids', b) =
          Slotted(Live, kids', b) + (IF h = b THEN 1 ELSE 0) + (IF t = b THEN 1 ELSE 0)
    BY <1>8, <1>9, <2>2, <2>3, CellSlots
  <2>5. Slotted(Live, kids', b) = Slotted(Live, kids, b)
    BY <2>1, SameSlots
  <2> QED BY <2>2, <2>4, <2>5 DEF Slotting, Taken
<1>11. Counted'
  <2> SUFFICES ASSUME NEW b \in Box
               PROVE  /\ Frees(b)' = 0
                      /\ use'[b] \in {roots'[b] + Slotting(b)' + Losses(b)' + forgot'[b], Sticky}
    BY DEF Counted
  <2>1. CASE b = n
    <3>1. Taken(h, t, b) = 0
      BY <1>2, <2>1 DEF Taken
    <3>2. use'[b] = 1 /\ forgot'[b] = 0
      BY <1>1, <2>1 DEF NounInv, NounType, Cell
    <3> QED BY <1>1, <1>4, <1>6, <1>10, <2>1, <3>1, <3>2
  <2>2. CASE b # n
    <3>1. use'[b] = use[b] /\ forgot'[b] = forgot[b]
      BY <2>2 DEF NounInv, NounType, Cell
    <3>2. roots[b] \in Nat /\ forgot[b] \in Nat /\ Slotting(b) \in Nat
      BY Facts DEF NounInv, NounType, CountTypes
    <3>3. Taken(h, t, b) \in Nat
      BY DEF Taken
    <3>4. use[b] \in {roots[b] + Slotting(b) + 0 + forgot[b], Sticky}
      BY <1>1 DEF NounInv, Counted, Cell
    <3> QED BY <1>3, <1>6, <1>10, <2>2, <3>1, <3>2, <3>3, <3>4
  <2> QED BY <2>1, <2>2
<1>12. FreeIsEmpty'
  BY <1>8 DEF NounInv, NounType, FreeIsEmpty, Cell
<1>13. Acyclic'
  <2>1. \A a \in Box : ~ Points(kids, a, n)
    <3> SUFFICES ASSUME NEW a \in Box, Points(kids, a, n) PROVE FALSE
      OBVIOUS
    <3>1. a \in Live
      BY <1>1 DEF NounInv, FreeIsEmpty, Points
    <3>2. \E i \in {1, 2} : <<a, i>> \in Held(Live, kids, n)
      BY <3>1 DEF Held, Points
    <3>3. IsFiniteSet(Held(Live, kids, n))
      BY Facts, HeldFinite DEF CountTypes
    <3> QED BY <1>1, <3>2, <3>3, FS_EmptySet DEF Slotting, Slotted
  <2>2. \A a \in Box : ~ Points(kids', a, n)
    BY <1>2, <1>8, <2>1 DEF Points
  <2> SUFFICES ASSUME NEW S \in SUBSET Box, S # {}
               PROVE  \E b \in S : \A a \in S : ~ Points(kids', a, b)
    BY DEF Acyclic
  <2>3. CASE n \in S
    BY <2>2, <2>3
  <2>4. CASE n \notin S
    <3>1. PICK b \in S : \A a \in S : ~ Points(kids, a, b)
      BY DEF NounInv, Acyclic
    <3>2. \A a \in S : ~ Points(kids', a, b)
      BY <1>8, <2>4, <3>1 DEF Points
    <3> QED BY <3>2
  <2> QED BY <2>3, <2>4
<1> QED BY <1>5, <1>11, <1>12, <1>13 DEF NounInv, Cell

\* u2_rl_gain.
LEMMA GainKeeps == ASSUME NounInv, NEW n \in Box, Gain(n) PROVE NounInv'
<1>1. NounType'
  BY DEF NounInv, NounType, Gain
<1>2. /\ \A b \in Box : b # n => use'[b] = use[b] /\ roots'[b] = roots[b]
      /\ use'[n] = (IF use[n] # Sticky THEN use[n] + 1 ELSE Sticky) /\ roots'[n] = roots[n] + 1
      /\ use' \in [Box -> Int] /\ use \in [Box -> Int]
  BY DEF NounInv, NounType, Gain
<1>3. /\ \A b \in Box : Losses(b) = 0 /\ Frees(b) = 0
      /\ \A b \in Box : Losses(b)' = 0 /\ Frees(b)' = 0
  BY StackEmpty, StackSame DEF NounInv, Gain
<1>4. ASSUME NEW b \in Box PROVE roots[b] \in Nat /\ forgot[b] \in Nat /\ Slotting(b) \in Nat
  BY Facts DEF NounInv, NounType, CountTypes
<1>5. ASSUME NEW b \in Box
      PROVE  use[b] = roots[b] + Slotting(b) + 0 + forgot[b] \/ use[b] = Sticky
  BY <1>3 DEF NounInv, Counted, Gain
<1>6. use'[n] # 0
  <2>1. use[n] >= 0
    BY <1>4, <1>5, NounAssumption
  <2> QED BY <1>2, <2>1, NounAssumption
<1>7. ASSUME NEW b \in Box PROVE Slotting(b)' = Slotting(b)
  <2>1. /\ Live = {a \in Box : use[a] # 0} /\ Live' = {a \in Box : use'[a] # 0}
        /\ kids' = kids
    BY <1>1, <1>3, Facts DEF NounInv, NounType, LiveSplit, Gain
  <2>2. CASE use[n] # 0
    <3>1. Live' = Live
      BY <1>2, <1>6, <2>1, <2>2
    <3> QED BY <2>1, <3>1 DEF Slotting
  <2>3. CASE use[n] = 0
    <3>1. Live' = Live \union {n} /\ kids[n] = << >>
      BY <1>2, <1>6, <2>1, <2>3 DEF NounInv, FreeIsEmpty
    <3>2. Adds(Live, Live', n)
      BY <3>1 DEF Adds
    <3>3. Slotted(Live', kids, b) = Slotted(Live, kids, b)
      BY <3>1, <3>2, AtomSlots
    <3> QED BY <2>1, <3>3 DEF Slotting
  <2> QED BY <2>2, <2>3
<1>8. Counted'
  <2> SUFFICES ASSUME NEW b \in Box
               PROVE  /\ Frees(b)' = 0
                      /\ use'[b] \in {roots'[b] + Slotting(b)' + Losses(b)' + forgot'[b], Sticky}
    BY DEF Counted
  <2>1. forgot'[b] = forgot[b] /\ Losses(b)' = 0 /\ Frees(b)' = 0 /\ Slotting(b)' = Slotting(b)
    BY <1>3, <1>7 DEF Gain
  <2>2. CASE b # n
    BY <1>2, <1>5, <2>1, <2>2
  <2>3. CASE b = n
    <3>1. use'[n] = (roots[n] + 1) + Slotting(n) + 0 + forgot[n] \/ use'[n] = Sticky
      BY <1>2, <1>4, <1>5
    <3>2. roots'[n] = roots[n] + 1
      BY <1>2
    <3>3. use'[n] = roots'[n] + Slotting(n) + 0 + forgot[n] \/ use'[n] = Sticky
      BY <3>1, <3>2
    <3> QED BY <2>1, <2>3, <3>3
  <2> QED BY <2>2, <2>3
<1>9. FreeIsEmpty'
  BY <1>2, <1>6 DEF NounInv, FreeIsEmpty, Gain
<1>10. Acyclic'
  BY AcyclicShrinks DEF NounInv, Gain
<1> QED BY <1>1, <1>8, <1>9, <1>10 DEF NounInv, Gain

\* A reference is forgotten: its count stays.
LEMMA ForgetKeeps == ASSUME NounInv, NEW n \in Box, Forget(n) PROVE NounInv'
<1>1. NounType'
  BY DEF NounInv, NounType, Forget
<1>2. /\ \A b \in Box : b # n => roots'[b] = roots[b] /\ forgot'[b] = forgot[b]
      /\ roots'[n] = roots[n] - 1 /\ forgot'[n] = forgot[n] + 1
  BY DEF NounInv, NounType, Forget
<1>3. ASSUME NEW b \in Box
      PROVE  /\ Losses(b) = 0 /\ Frees(b) = 0 /\ Losses(b)' = 0 /\ Frees(b)' = 0
             /\ roots[b] \in Nat /\ forgot[b] \in Nat /\ Slotting(b) \in Nat
  BY StackEmpty, StackSame, Facts DEF NounInv, NounType, CountTypes, Forget
<1>4. ASSUME NEW b \in Box
      PROVE  use[b] = roots[b] + Slotting(b) + 0 + forgot[b] \/ use[b] = Sticky
  BY <1>3 DEF NounInv, Counted, Forget
<1>5. ASSUME NEW b \in Box PROVE Slotting(b)' = Slotting(b)
  BY DEF Slotting, Live, Dying, Forget
<1>6. Counted'
  <2> SUFFICES ASSUME NEW b \in Box
               PROVE  /\ Frees(b)' = 0
                      /\ use'[b] \in {roots'[b] + Slotting(b)' + Losses(b)' + forgot'[b], Sticky}
    BY DEF Counted
  <2>1. use'[b] = use[b] /\ Losses(b)' = 0 /\ Frees(b)' = 0 /\ Slotting(b)' = Slotting(b)
    BY <1>3, <1>5 DEF Forget
  <2>2. CASE b # n
    BY <1>2, <1>4, <2>1, <2>2
  <2>3. CASE b = n
    <3>1. use[n] = (roots[n] - 1) + Slotting(n) + 0 + (forgot[n] + 1) \/ use[n] = Sticky
      BY <1>3, <1>4
    <3> QED BY <1>2, <2>1, <2>3, <3>1
  <2> QED BY <2>2, <2>3
<1> QED BY <1>1, <1>6 DEF NounInv, FreeIsEmpty, Acyclic, Forget

\* u2_rl_lose is called.
LEMMA LoseKeeps == ASSUME NounInv, NEW n \in Box, Lose(n) PROVE NounInv'
<1>1. << >> \in Seq(Work) /\ <<"lose", n>> \in Work
  BY DEF Work, Nouns
<1>2. stack = << >> /\ stack' = << <<"lose", n>> >> \o << >>
  BY DEF NounInv, Lose
<1>3. NounType'
  BY <1>1 DEF NounInv, NounType, Lose
<1>4. ASSUME NEW b \in Box
      PROVE  /\ Losses(b) = 0 /\ Frees(b) = 0 /\ Frees(b)' = 0
             /\ Losses(b)' = IF b = n THEN 1 ELSE 0
             /\ roots[b] \in Nat /\ forgot[b] \in Nat /\ Slotting(b) \in Nat
  <2>1. Losses(b) = 0 /\ Frees(b) = 0
    BY <1>2, StackEmpty
  <2>2. \A x : Count(stack', x) = 0 + (IF <<"lose", n>> = x THEN 1 ELSE 0)
    <3> DEFINE w == <<"lose", n>>
               e == << >>
    <3>1. w \in Work /\ e \in Seq(Work) /\ One(stack', w, e) /\ \A x : Count(e, x) = 0
      BY <1>1, <1>2, CountEmpty DEF One
    <3> HIDE DEF w, e
    <3>2. \A x : Count(stack', x) = 0 + (IF w = x THEN 1 ELSE 0)
      <4>1. \A x : Count(stack', x) = Count(e, x) + (IF w = x THEN 1 ELSE 0)
        BY <3>1, PushOne
      <4> QED BY <3>1, <4>1
    <3> QED BY <3>2 DEF w
  <2>3. <<"lose", n>> # <<"free", b>> /\ (<<"lose", n>> = <<"lose", b>> <=> b = n)
    OBVIOUS
  <2>4. Losses(b)' = (IF b = n THEN 1 ELSE 0) /\ Frees(b)' = 0
    BY <2>2, <2>3 DEF Losses, Frees
  <2> QED BY <2>1, <2>4, Facts DEF NounInv, NounType, CountTypes
<1>5. ASSUME NEW b \in Box
      PROVE  use[b] = roots[b] + Slotting(b) + 0 + forgot[b] \/ use[b] = Sticky
  BY <1>4 DEF NounInv, Counted, Lose
<1>6. ASSUME NEW b \in Box PROVE Slotting(b)' = Slotting(b)
  <2>1. Live' = Live
    BY <1>3, <1>4, Facts DEF NounInv, NounType, LiveSplit, Lose
  <2> QED BY <2>1 DEF Slotting, Lose
<1>7. Counted'
  <2> SUFFICES ASSUME NEW b \in Box
               PROVE  /\ Frees(b)' = 0
                      /\ use'[b] \in {roots'[b] + Slotting(b)' + Losses(b)' + forgot'[b], Sticky}
    BY DEF Counted
  <2>1. /\ use'[b] = use[b] /\ forgot'[b] = forgot[b] /\ Frees(b)' = 0 /\ Slotting(b)' = Slotting(b)
        /\ roots'[b] = IF b = n THEN roots[n] - 1 ELSE roots[b]
    BY <1>4, <1>6 DEF NounInv, NounType, Lose
  <2>2. CASE b # n
    BY <1>4, <1>5, <2>1, <2>2
  <2>3. CASE b = n
    <3>1. use[n] = (roots[n] - 1) + Slotting(n) + 1 + forgot[n] \/ use[n] = Sticky
      BY <1>4, <1>5
    <3> QED BY <1>4, <2>1, <2>3, <3>1
  <2> QED BY <2>2, <2>3
<1> QED BY <1>3, <1>7 DEF NounInv, FreeIsEmpty, Acyclic, Lose

-----------------------------------------------------------------------------

(* u2_rl_lose. *)

\* The entry at the top, and what its removal does to the counts.
LEMMA Top ==
    ASSUME NounInv, stack # << >>
    PROVE  /\ stack[1] \in Work /\ Tail(stack) \in Seq(Work)
           /\ stack[1][2] \in Nouns /\ stack[1] = <<stack[1][1], stack[1][2]>>
           /\ \A x : Count(stack, x) = Count(Tail(stack), x) + (IF stack[1] = x THEN 1 ELSE 0)
           /\ \A x : Count(Tail(stack), x) \in Nat
<1>1. stack \in Seq(Work)
  BY DEF NounInv, NounType
<1>2. stack[1] \in Work /\ Tail(stack) \in Seq(Work)
  BY <1>1
<1>3. \A x : Count(stack, x) = Count(Tail(stack), x) + (IF stack[1] = x THEN 1 ELSE 0)
  BY <1>1, CountPop
<1>4. \A x : Count(Tail(stack), x) \in Nat
  BY <1>2, PlacesFinite
<1>5. stack[1][2] \in Nouns /\ stack[1] = <<stack[1][1], stack[1][2]>>
  BY <1>2 DEF Work
<1> QED BY <1>2, <1>3, <1>4, <1>5

\* The last reference to a box is being lost.
LEMMA LastLoss ==
    ASSUME NounInv, mode = "lose", stack # << >>, NEW n \in Box, stack[1] = <<"lose", n>>
    PROVE  /\ Frees(n) = 0 /\ Losses(n) > 0 /\ n \in Nouns
           /\ use[n] # 0
           /\ use[n] \in {roots[n] + Slotting(n) + Losses(n) + forgot[n], Sticky}
           /\ use[n] = 1 => roots[n] = 0 /\ Slotting(n) = 0 /\ Losses(n) = 1 /\ forgot[n] = 0
<1>1. Losses(n) > 0 /\ Losses(n) \in Nat
  <2>1. /\ Count(stack, <<"lose", n>>) = Count(Tail(stack), <<"lose", n>>) + 1
        /\ Count(Tail(stack), <<"lose", n>>) \in Nat
    BY Top
  <2> QED BY <2>1 DEF Losses
<1>2. Frees(n) = 0 /\ use[n] \in {roots[n] + Slotting(n) + Losses(n) + forgot[n], Sticky}
  BY <1>1 DEF NounInv, Counted
<1>3. roots[n] \in Nat /\ forgot[n] \in Nat /\ Slotting(n) \in Nat
  BY Facts DEF NounInv, NounType, CountTypes
<1>4. \A i, j, k, l \in Nat : k > 0 /\ 1 = i + j + k + l => i = 0 /\ j = 0 /\ k = 1 /\ l = 0
  OBVIOUS
<1>5. \A i, j, k, l \in Nat : k > 0 => i + j + k + l # 0
  OBVIOUS
<1>6. Sticky # 1 /\ Sticky # 0
  BY NounAssumption
<1>7. use[n] # 0
  BY <1>1, <1>2, <1>3, <1>5, <1>6
<1>8. use[n] = 1 => roots[n] = 0 /\ Slotting(n) = 0 /\ Losses(n) = 1 /\ forgot[n] = 0
  BY <1>1, <1>2, <1>3, <1>4, <1>6
<1> QED BY <1>1, <1>2, <1>7, <1>8 DEF Nouns

\* What a step of u2_rl_lose that leaves roots, contents and what is forgotten
\* has to keep, when it keeps the counts.
LEMMA LosePart ==
    ASSUME NounInv, mode = "lose", stack' \in Seq(Work), use' \in [Box -> Int],
           UNCHANGED <<mode, kids, roots, forgot, todo, sav>>, Counted',
           \A b \in Box : use'[b] = 0 => use[b] = 0
    PROVE  NounInv'
BY DEF NounInv, NounType, FreeIsEmpty, Acyclic

\* What losing the last reference to n puts on the stack.
PushLast(n) ==
    stack' = (IF kids[n] = << >> THEN << <<"free", n>> >>
              ELSE << <<"lose", kids[n][1]>>, <<"free", n>>,
                      <<"lose", kids[n][2]>> >>) \o Tail(stack)

\* A box with count 1: its head is lost, it is freed, its tail is lost.
LEMMA LoseLastKeeps ==
    ASSUME NounInv, mode = "lose", stack # << >>, NEW n \in Box, stack[1] = <<"lose", n>>,
           use[n] = 1,
           PushLast(n),
           UNCHANGED <<use, mode, kids, roots, forgot, todo, sav>>
    PROVE  NounInv'
<1> DEFINE w == <<"free", n>>
           h == kids[n][1]
           t == kids[n][2]
           u == Tail(stack)
           took(b) == IF kids[n] = << >> THEN 0 ELSE Taken(h, t, b)
<1>1. /\ Frees(n) = 0 /\ n \in Nouns
      /\ roots[n] = 0 /\ Slotting(n) = 0 /\ Losses(n) = 1 /\ forgot[n] = 0
  BY LastLoss
<1>2. u \in Seq(Work) /\ w \in Work
  BY <1>1, Top DEF Work
<1>3. kids[n] # << >> => <<"lose", h>> \in Work /\ <<"lose", t>> \in Work /\ kids[n] = <<h, t>>
  BY DEF NounInv, NounType, Work
<1>4. stack' \in Seq(Work)
  <2>1. CASE kids[n] = << >>
    <3>1. One(stack', w, u)
      BY <2>1 DEF One, PushLast
    <3> HIDE DEF w, u
    <3> QED BY <1>2, <3>1, PushOne
  <2>2. CASE kids[n] # << >>
    <3> DEFINE x == <<"lose", h>>
               y == <<"lose", t>>
    <3>1. Three(stack', x, w, y, u) /\ x \in Work /\ y \in Work
      BY <1>3, <2>2 DEF Three, PushLast
    <3> HIDE DEF w, u, x, y
    <3> QED BY <1>2, <3>1, PushThree
  <2> QED BY <2>1, <2>2
<1>5. ASSUME NEW b \in Box
      PROVE  /\ Losses(b)' = Losses(b) - (IF b = n THEN 1 ELSE 0) + took(b)
             /\ Frees(b)' = Frees(b) + (IF b = n THEN 1 ELSE 0)
  <2>1. \A x : /\ Count(stack, x) = Count(u, x) + (IF <<"lose", n>> = x THEN 1 ELSE 0)
               /\ Count(u, x) \in Nat
    BY Top
  <2>2. /\ <<"lose", n>> # <<"free", b>> /\ (<<"lose", n>> = <<"lose", b>> <=> b = n)
        /\ w # <<"lose", b>> /\ (w = <<"free", b>> <=> b = n)
        /\ \A c : <<"lose", c>> # <<"free", b>> /\ (<<"lose", c>> = <<"lose", b>> <=> c = b)
    OBVIOUS
  <2>3. /\ Losses(b) = Count(u, <<"lose", b>>) + (IF b = n THEN 1 ELSE 0)
        /\ Frees(b) = Count(u, <<"free", b>>) + 0
    BY <2>1, <2>2 DEF Losses, Frees
  <2>4. CASE kids[n] = << >>
    <3>1. One(stack', w, u)
      BY <2>4 DEF One, PushLast
    <3> HIDE DEF w, u
    <3>2. \A x : Count(stack', x) = Count(u, x) + (IF w = x THEN 1 ELSE 0)
      BY <1>2, <3>1, PushOne
    <3>3. /\ Losses(b)' = Count(u, <<"lose", b>>) + 0
          /\ Frees(b)' = Count(u, <<"free", b>>) + (IF b = n THEN 1 ELSE 0)
      BY <2>2, <3>2 DEF Losses, Frees
    <3>4. took(b) = 0
      BY <2>4
    <3> QED BY <2>1, <2>3, <3>3, <3>4
  <2>5. CASE kids[n] # << >>
    <3> DEFINE x1 == <<"lose", h>>
               x2 == <<"lose", t>>
    <3>1. Three(stack', x1, w, x2, u) /\ x1 \in Work /\ x2 \in Work
      BY <1>3, <2>5 DEF Three, PushLast
    <3>2. /\ x1 # <<"free", b>> /\ (x1 = <<"lose", b>> <=> h = b)
          /\ x2 # <<"free", b>> /\ (x2 = <<"lose", b>> <=> t = b)
      BY <2>2
    <3> HIDE DEF w, u, x1, x2, h, t
    <3>3. \A x : Count(stack', x) = Count(u, x) + (IF x1 = x THEN 1 ELSE 0)
                    + (IF w = x THEN 1 ELSE 0) + (IF x2 = x THEN 1 ELSE 0)
      BY <1>2, <3>1, PushThree
    <3>4. /\ Losses(b)' = Count(u, <<"lose", b>>) + (IF h = b THEN 1 ELSE 0) + 0
                                                 + (IF t = b THEN 1 ELSE 0)
          /\ Frees(b)' = Count(u, <<"free", b>>) + 0 + (IF b = n THEN 1 ELSE 0) + 0
      BY <2>2, <3>2, <3>3 DEF Losses, Frees
    <3>5. took(b) = (IF h = b THEN 1 ELSE 0) + (IF t = b THEN 1 ELSE 0)
      BY <2>5 DEF Taken
    <3> HIDE DEF took
    <3> QED BY <2>1, <2>3, <3>4, <3>5
  <2> QED BY <2>4, <2>5
<1>6. ASSUME NEW b \in Box PROVE Slotting(b) = Slotting(b)' + took(b)
  <2> DEFINE A == Live'
  <2>1. Adds(A, Live, n) /\ n \notin A
    <3>1. Live = {a \in Box : use[a] # 0 /\ Frees(a) = 0}
      BY Facts DEF NounInv, NounType, LiveSplit
    <3>2. Live' = {a \in Box : use[a] # 0 /\ Frees(a)' = 0}
      BY <1>4, Facts DEF LiveSplit
    <3>3. \A a \in Box : a # n => Frees(a)' = Frees(a)
      BY <1>5, Facts DEF CountTypes, NounInv, NounType
    <3>4. Frees(n)' = 1
      BY <1>1, <1>5
    <3> QED BY <1>1, <3>1, <3>2, <3>3, <3>4 DEF Adds
  <2>2. IsFiniteSet(A) /\ Slotting(b)' = Slotted(A, kids, b) /\ Slotting(b)' \in Nat
    BY Facts DEF CountTypes, Slotting
  <2>3. Slotting(b) = Slotted(Live, kids, b)
    BY DEF Slotting
  <2> HIDE DEF A
  <2>4. CASE kids[n] = << >>
    <3>1. Slotted(Live, kids, b) = Slotted(A, kids, b)
      BY <2>1, <2>4, AtomSlots
    <3> QED BY <2>2, <2>3, <2>4, <3>1
  <2>5. CASE kids[n] # << >>
    <3>1. kids[n] = <<h, t>>
      BY <1>3, <2>5
    <3> HIDE DEF h, t
    <3>2. Slotted(Live, kids, b) =
            Slotted(A, kids, b) + (IF h = b THEN 1 ELSE 0) + (IF t = b THEN 1 ELSE 0)
      BY <2>1, <2>2, <3>1, CellSlots
    <3> QED BY <2>2, <2>3, <2>5, <3>2 DEF Taken
  <2> QED BY <2>4, <2>5
<1>7. Counted'
  <2> SUFFICES ASSUME NEW b \in Box
               PROVE  \/ /\ Frees(b)' = 1 /\ use'[b] = 1 /\ forgot'[b] = 0
                         /\ roots'[b] = 0 /\ Slotting(b)' = 0 /\ Losses(b)' = 0
                      \/ /\ Frees(b)' = 0
                         /\ use'[b] \in {roots'[b] + Slotting(b)' + Losses(b)' + forgot'[b], Sticky}
    BY DEF Counted
  <2>1. /\ Losses(b) \in Nat /\ Frees(b) \in Nat /\ Slotting(b) \in Nat /\ Slotting(b)' \in Nat
        /\ roots[b] \in Nat /\ forgot[b] \in Nat
    BY Facts DEF CountTypes, NounInv, NounType
  <2>2. took(b) \in Nat
    BY DEF Taken
  <2>3. Slotting(b) = Slotting(b)' + took(b)
    BY <1>6
  <2> HIDE DEF took
  <2>4. CASE b = n
    <3>1. took(b) = 0 /\ Slotting(b)' = 0
      BY <1>1, <2>1, <2>2, <2>3, <2>4
    <3> QED BY <1>1, <1>5, <2>4, <3>1
  <2>5. CASE b # n
    <3>1. Frees(b)' = Frees(b) /\ Losses(b)' = Losses(b) + took(b)
      BY <1>5, <2>1, <2>2, <2>5
    <3>2. CASE Frees(b) = 1 /\ use[b] = 1 /\ forgot[b] = 0 /\ roots[b] = 0 /\ Slotting(b) = 0
               /\ Losses(b) = 0
      <4>1. took(b) = 0 /\ Slotting(b)' = 0
        BY <2>1, <2>2, <2>3, <3>2
      <4> QED BY <3>1, <3>2, <4>1
    <3>3. CASE /\ Frees(b) = 0
               /\ use[b] \in {roots[b] + Slotting(b) + Losses(b) + forgot[b], Sticky}
      <4>1. roots[b] + Slotting(b) + Losses(b) + forgot[b] =
              roots[b] + Slotting(b)' + (Losses(b) + took(b)) + forgot[b]
        BY <2>1, <2>2, <2>3
      <4> QED BY <3>1, <3>3, <4>1
    <3> QED BY <3>2, <3>3 DEF NounInv, Counted
  <2> QED BY <2>4, <2>5
<1> QED BY <1>4, <1>7, LosePart DEF NounInv, NounType

\* A count above 1 goes down by one, unless it is stuck.
LEMMA LoseOneKeeps ==
    ASSUME NounInv, mode = "lose", stack # << >>, NEW n \in Box, stack[1] = <<"lose", n>>,
           use[n] \notin {0, 1}, stack' = Tail(stack),
           use' = IF use[n] # Sticky THEN [use EXCEPT ![n] = @ - 1] ELSE use,
           UNCHANGED <<mode, kids, roots, forgot, todo, sav>>
    PROVE  NounInv'
<1>1. stack' \in Seq(Work)
  BY Top
<1>2. /\ Frees(n) = 0 /\ Losses(n) > 0 /\ use[n] # 0
      /\ use[n] \in {roots[n] + Slotting(n) + Losses(n) + forgot[n], Sticky}
  BY LastLoss
<1>3. /\ use' \in [Box -> Int] /\ \A b \in Box : b # n => use'[b] = use[b]
      /\ use'[n] = IF use[n] # Sticky THEN use[n] - 1 ELSE Sticky
  BY DEF NounInv, NounType
<1>4. ASSUME NEW b \in Box
      PROVE  Losses(b)' = Losses(b) - (IF b = n THEN 1 ELSE 0) /\ Frees(b)' = Frees(b)
  <2>1. \A x : /\ Count(stack, x) = Count(stack', x) + (IF <<"lose", n>> = x THEN 1 ELSE 0)
               /\ Count(stack', x) \in Nat
    BY Top
  <2>2. <<"lose", n>> # <<"free", b>> /\ (<<"lose", n>> = <<"lose", b>> <=> b = n)
    OBVIOUS
  <2>3. /\ Losses(b) = Losses(b)' + (IF b = n THEN 1 ELSE 0) /\ Losses(b)' \in Nat
        /\ Frees(b) = Frees(b)' + 0 /\ Frees(b)' \in Nat
    BY <2>1, <2>2 DEF Losses, Frees
  <2> QED BY <2>3
<1>5. ASSUME NEW b \in Box
      PROVE  /\ Losses(b) \in Nat /\ Frees(b) \in Nat /\ Slotting(b) \in Nat
             /\ roots[b] \in Nat /\ forgot[b] \in Nat /\ use[b] \in Int
  BY Facts DEF CountTypes, NounInv, NounType
<1>6. use[n] = Sticky \/ use[n] > 1
  BY <1>2, <1>5
<1>7. \A b \in Box : use'[b] = 0 <=> use[b] = 0
  BY <1>2, <1>3, <1>5, <1>6, NounAssumption
<1>8. ASSUME NEW b \in Box PROVE Slotting(b)' = Slotting(b)
  <2>1. Live = {a \in Box : use[a] # 0 /\ Frees(a) = 0}
    BY Facts DEF NounInv, NounType, LiveSplit
  <2>2. Live' = {a \in Box : use'[a] # 0 /\ Frees(a)' = 0}
    BY <1>1, Facts DEF LiveSplit
  <2>3. Live' = Live
    BY <1>4, <1>7, <2>1, <2>2
  <2> QED BY <2>3 DEF Slotting
<1>9. Counted'
  <2> SUFFICES ASSUME NEW b \in Box
               PROVE  \/ /\ Frees(b)' = 1 /\ use'[b] = 1 /\ forgot'[b] = 0
                         /\ roots'[b] = 0 /\ Slotting(b)' = 0 /\ Losses(b)' = 0
                      \/ /\ Frees(b)' = 0
                         /\ use'[b] \in {roots'[b] + Slotting(b)' + Losses(b)' + forgot'[b], Sticky}
    BY DEF Counted
  <2>1. CASE b = n
    <3>2. Losses(n)' = Losses(n) - 1 /\ Frees(n)' = 0 /\ Slotting(n)' = Slotting(n)
      BY <1>2, <1>4, <1>8
    <3>3. use'[n] = roots[n] + Slotting(n) + (Losses(n) - 1) + forgot[n] \/ use'[n] = Sticky
      <4>1. CASE use[n] = Sticky
        BY <1>3, <4>1
      <4>2. CASE use[n] # Sticky
        <5>1. use[n] = roots[n] + Slotting(n) + Losses(n) + forgot[n]
          BY <1>2, <4>2
        <5>2. /\ use[n] \in Int /\ roots[n] \in Int /\ Slotting(n) \in Int
              /\ Losses(n) \in Int /\ forgot[n] \in Int
          BY <1>5
        <5> DEFINE i == roots[n]
                   j == Slotting(n)
                   k == Losses(n)
                   l == forgot[n]
                   u == use[n]
        <5> HIDE DEF i, j, k, l, u
        <5>3. u - 1 = i + j + (k - 1) + l
          <6>1. u \in Int /\ i \in Int /\ j \in Int /\ k \in Int /\ l \in Int
            BY <5>2 DEF i, j, k, l, u
          <6>2. u = i + j + k + l
            BY <5>1 DEF i, j, k, l, u
          <6> QED BY <6>1, <6>2
        <5>4. use[n] - 1 = roots[n] + Slotting(n) + (Losses(n) - 1) + forgot[n]
          BY <5>3 DEF i, j, k, l, u
        <5> QED BY <1>3, <4>2, <5>4
      <4> QED BY <4>1, <4>2
    <3> QED BY <2>1, <3>2, <3>3
  <2>2. CASE b # n
    <3>1. Losses(b)' = Losses(b) /\ Frees(b)' = Frees(b) /\ Slotting(b)' = Slotting(b)
      BY <1>4, <1>5, <1>8, <2>2
    <3> QED BY <1>3, <2>2, <3>1 DEF NounInv, Counted
  <2> QED BY <2>1, <2>2
<1> QED BY <1>1, <1>3, <1>7, <1>9, LosePart

\* An atom that needs no box is not counted.
LEMMA LoseCatKeeps ==
    ASSUME NounInv, mode = "lose", stack # << >>, stack[1] = <<"lose", Cat>>,
           stack' = Tail(stack), UNCHANGED <<use, mode, kids, roots, forgot, todo, sav>>
    PROVE  NounInv'
<1>1. stack' \in Seq(Work)
  BY Top
<1>2. ASSUME NEW b \in Box PROVE Losses(b)' = Losses(b) /\ Frees(b)' = Frees(b)
  <2>1. \A x : /\ Count(stack, x) = Count(stack', x) + (IF <<"lose", Cat>> = x THEN 1 ELSE 0)
               /\ Count(stack', x) \in Nat
    BY Top
  <2>2. <<"lose", Cat>> # <<"free", b>> /\ <<"lose", Cat>> # <<"lose", b>>
    BY NounAssumption
  <2>3. /\ Losses(b) = Losses(b)' + 0 /\ Losses(b)' \in Nat
        /\ Frees(b) = Frees(b)' + 0 /\ Frees(b)' \in Nat
    BY <2>1, <2>2 DEF Losses, Frees
  <2> QED BY <2>3
<1>3. ASSUME NEW b \in Box PROVE Slotting(b)' = Slotting(b)
  <2>1. Live = {a \in Box : use[a] # 0 /\ Frees(a) = 0}
    BY Facts DEF NounInv, NounType, LiveSplit
  <2>2. Live' = {a \in Box : use[a] # 0 /\ Frees(a)' = 0}
    BY <1>1, Facts DEF LiveSplit
  <2>3. Live' = Live
    BY <1>2, <2>1, <2>2
  <2> QED BY <2>3 DEF Slotting
<1>4. Counted'
  BY <1>2, <1>3 DEF NounInv, Counted
<1> QED BY <1>1, <1>4, LosePart DEF NounInv, NounType

\* One loss of u2_rl_lose.
LEMMA LoseStepKeeps == ASSUME NounInv, LoseStep PROVE NounInv'
<1> DEFINE n == stack[1][2]
<1>1. mode = "lose" /\ stack # << >> /\ stack[1] = <<"lose", n>>
  BY Top DEF LoseStep
<1>2. \/ /\ n \in Box /\ use[n] = 1 /\ PushLast(n) /\ UNCHANGED use
      \/ /\ n \in Box /\ use[n] \notin {0, 1}
         /\ use' = IF use[n] # Sticky THEN [use EXCEPT ![n] = @ - 1] ELSE use
         /\ stack' = Tail(stack)
      \/ n = Cat /\ stack' = Tail(stack) /\ UNCHANGED use
  BY DEF LoseStep, PushLast
<1>3. UNCHANGED <<mode, kids, roots, forgot, todo, sav>>
  BY DEF LoseStep
<1> HIDE DEF n
<1> QED BY <1>1, <1>2, <1>3, LoseLastKeeps, LoseOneKeeps, LoseCatKeeps

\* The box is freed.
LEMMA FreeKeeps ==
    ASSUME NounInv, NEW n \in Nouns, mode = "lose", stack # << >>, stack[1] = <<"free", n>>,
           FreeStep
    PROVE  NounInv'
<1>1. stack' = Tail(stack) /\ stack' \in Seq(Work)
  BY Top DEF FreeStep
<1>2. /\ use' = [use EXCEPT ![n] = 0] /\ kids' = [kids EXCEPT ![n] = << >>]
      /\ forgot' = [forgot EXCEPT ![n] = 0] /\ UNCHANGED <<mode, roots, todo, sav>>
  BY DEF FreeStep
<1>3. ASSUME NEW b \in Box
      PROVE  /\ Losses(b)' = Losses(b) /\ Frees(b) = Frees(b)' + (IF b = n THEN 1 ELSE 0)
             /\ Frees(b)' \in Nat /\ Losses(b) \in Nat
  <2>1. \A x : /\ Count(stack, x) = Count(stack', x) + (IF <<"free", n>> = x THEN 1 ELSE 0)
               /\ Count(stack', x) \in Nat
    BY <1>1, Top
  <2>2. <<"free", n>> # <<"lose", b>> /\ (<<"free", n>> = <<"free", b>> <=> b = n)
    OBVIOUS
  <2>3. /\ Losses(b) = Losses(b)' + 0 /\ Losses(b)' \in Nat
        /\ Frees(b) = Frees(b)' + (IF b = n THEN 1 ELSE 0) /\ Frees(b)' \in Nat
    BY <2>1, <2>2 DEF Losses, Frees
  <2> QED BY <2>3
<1>4. NounType'
  <2>1. use' \in [Box -> Int] /\ forgot' \in [Box -> Nat]
    <3>1. use \in [Box -> Int] /\ forgot \in [Box -> Nat] /\ 0 \in Int /\ 0 \in Nat
      BY DEF NounInv, NounType
    <3>2. use' \in [Box -> Int]
      BY <1>2, <3>1
    <3>3. forgot' \in [Box -> Nat]
      BY <1>2, <3>1
    <3> QED BY <3>2, <3>3
  <2>2. kids' \in [Box -> {<< >>} \union (Nouns \X Nouns)]
    <3> DEFINE X == {<< >>} \union (Nouns \X Nouns)
    <3>1. kids \in [Box -> X] /\ << >> \in X
      BY DEF NounInv, NounType
    <3> HIDE DEF X
    <3>2. kids' \in [Box -> X]
      BY <1>2, <3>1
    <3> QED BY <3>2 DEF X
  <2> QED BY <1>1, <1>2, <2>1, <2>2 DEF NounInv, NounType
<1>5. \A b \in Box : b # n => use'[b] = use[b] /\ kids'[b] = kids[b] /\ forgot'[b] = forgot[b]
  BY <1>2 DEF NounInv, NounType
<1>6. n \in Box => /\ use'[n] = 0 /\ kids'[n] = << >> /\ forgot'[n] = 0
                   /\ Frees(n) = 1 /\ Frees(n)' = 0
                   /\ roots[n] = 0 /\ Slotting(n) = 0 /\ Losses(n) = 0
  <2> SUFFICES ASSUME n \in Box PROVE /\ use'[n] = 0 /\ kids'[n] = << >> /\ forgot'[n] = 0
                                      /\ Frees(n) = 1 /\ Frees(n)' = 0
                                      /\ roots[n] = 0 /\ Slotting(n) = 0 /\ Losses(n) = 0
    OBVIOUS
  <2>1. Frees(n) = Frees(n)' + 1 /\ Frees(n)' \in Nat
    BY <1>3
  <2>2. Frees(n) # 0
    BY <2>1
  <2>3. Frees(n) = 1 /\ roots[n] = 0 /\ Slotting(n) = 0 /\ Losses(n) = 0
    BY <1>1, <2>2 DEF NounInv, Counted
  <2>4. use'[n] = 0 /\ kids'[n] = << >> /\ forgot'[n] = 0
    BY <1>2 DEF NounInv, NounType
  <2> QED BY <2>1, <2>3, <2>4
<1>7. ASSUME NEW b \in Box, b # n PROVE Frees(b)' = Frees(b)
  BY <1>3, <1>7
<1>8. Live' = Live
  <2>1. Live = {a \in Box : use[a] # 0 /\ Frees(a) = 0}
    BY Facts DEF NounInv, NounType, LiveSplit
  <2>2. Live' = {a \in Box : use'[a] # 0 /\ Frees(a)' = 0}
    BY <1>1, Facts DEF LiveSplit
  <2>3. ASSUME NEW a \in Box PROVE a \in Live' <=> a \in Live
    <3>1. CASE a = n
      BY <1>6, <2>1, <2>2, <3>1
    <3>2. CASE a # n
      BY <1>5, <1>7, <2>1, <2>2, <3>2
    <3> QED BY <3>1, <3>2
  <2> QED BY <2>1, <2>2, <2>3
<1>9. ASSUME NEW b \in Box PROVE Slotting(b)' = Slotting(b)
  <2>1. \A a \in Live : kids[a] = kids'[a]
    <3> SUFFICES ASSUME NEW a \in Live PROVE a \in Box /\ a # n
      BY <1>5
    <3>1. a \in Box /\ Frees(a) = 0
      BY Facts DEF NounInv, NounType, LiveSplit
    <3> QED BY <1>6, <3>1
  <2>2. Slotted(Live, kids', b) = Slotted(Live, kids, b)
    BY <2>1, SameSlots
  <2> QED BY <1>8, <2>2 DEF Slotting
<1>10. Counted'
  <2> SUFFICES ASSUME NEW b \in Box
               PROVE  \/ /\ Frees(b)' = 1 /\ use'[b] = 1 /\ forgot'[b] = 0
                         /\ roots'[b] = 0 /\ Slotting(b)' = 0 /\ Losses(b)' = 0
                      \/ /\ Frees(b)' = 0
                         /\ use'[b] \in {roots'[b] + Slotting(b)' + Losses(b)' + forgot'[b], Sticky}
    BY DEF Counted
  <2>1. CASE b = n
    <3>1. 0 = 0 + 0 + 0 + 0
      OBVIOUS
    <3> QED BY <1>2, <1>3, <1>6, <1>9, <2>1, <3>1
  <2>2. CASE b # n
    <3>1. /\ Losses(b)' = Losses(b) /\ Frees(b)' = Frees(b) /\ Slotting(b)' = Slotting(b)
          /\ use'[b] = use[b] /\ forgot'[b] = forgot[b] /\ roots'[b] = roots[b]
      BY <1>2, <1>3, <1>5, <1>7, <1>9, <2>2
    <3> QED BY <1>1, <3>1 DEF NounInv, Counted
  <2> QED BY <2>1, <2>2
<1>11. FreeIsEmpty'
  BY <1>5, <1>6 DEF NounInv, FreeIsEmpty
<1>12. Acyclic'
  BY <1>5, <1>6, AcyclicShrinks DEF NounInv
<1> QED BY <1>2, <1>4, <1>10, <1>11, <1>12 DEF NounInv

\* A box is freed when what it held is lost.
LEMMA FreeStepKeeps == ASSUME NounInv, FreeStep PROVE NounInv'
<1>1. mode = "lose" /\ stack # << >> /\ stack[1][1] = "free"
  BY DEF FreeStep
<1>2. stack[1][2] \in Nouns /\ stack[1] = <<"free", stack[1][2]>>
  BY <1>1, Top
<1>3. PICK n \in Nouns : stack[1] = <<"free", n>>
  BY <1>2
<1> QED BY <1>1, <1>3, FreeKeeps

\* u2_rl_lose returns.
LEMMA LoseDoneKeeps == ASSUME NounInv, LoseDone PROVE NounInv'
<1>1. \A b \in Box : Losses(b)' = Losses(b) /\ Frees(b)' = Frees(b) /\ Slotting(b)' = Slotting(b)
  BY DEF LoseDone, Losses, Frees, Slotting, Live, Dying
<1>2. Counted'
  BY <1>1 DEF NounInv, Counted, LoseDone
<1> QED BY <1>2 DEF NounInv, NounType, FreeIsEmpty, Acyclic, LoseDone

-----------------------------------------------------------------------------

(* u2_lo_grab. *)

\* Nothing is marked when a collection starts.
LEMMA GrabKeeps == ASSUME NounInv, Grab PROVE NounInv'
<1>1. stack = << >> /\ stack' = stack /\ mode = "run" /\ Counted /\ sav = 0
  BY DEF NounInv, Grab
<1>2. ASSUME NEW b \in Box
      PROVE  /\ Losses(b) = 0 /\ Frees(b) = 0
             /\ Losses(b)' = 0 /\ Frees(b)' = 0 /\ Marks(b)' = 0
             /\ Slotting(b)' = Slotting(b)
  BY <1>1, StackEmpty, StackSame DEF Slotting, Live, Dying, Grab
<1>3. ASSUME NEW b \in Box
      PROVE  roots[b] \in Nat /\ forgot[b] \in Nat /\ Slotting(b) \in Nat /\ use[b] \in Int
  BY Facts DEF CountTypes, NounInv, NounType
<1>4. ASSUME NEW b \in Box
      PROVE  use[b] = roots[b] + Slotting(b) + 0 + forgot[b] \/ use[b] = Sticky
  BY <1>1, <1>2 DEF Counted
<1>5. ASSUME NEW b \in Box PROVE use[b] >= 0 /\ (roots[b] + Slotting(b) > 0 => use[b] # 0)
  BY <1>3, <1>4, NounAssumption
<1>6. Marked' = {}
  BY <1>3, <1>5 DEF Marked, Grab
<1>7. ASSUME NEW b \in Box PROVE Slotted(Marked', kids', b) = 0
  <2>1. Held({}, kids', b) = {}
    BY DEF Held
  <2> QED BY <1>6, <2>1, FS_EmptySet DEF Slotted
<1>8. NounType'
  BY DEF NounInv, NounType, Grab
<1>9. ASSUME NEW b \in Box PROVE Balanced(b)'
  <2>1. todo'[b] = roots[b] /\ roots'[b] = roots[b] /\ use'[b] = use[b]
    BY DEF Grab
  <2>2. ~ (use[b] < 0)
    BY <1>3, <1>5
  <2>3. 0 + roots[b] + 0 = roots[b] + 0
    BY <1>3
  <2> QED BY <1>2, <1>7, <2>1, <2>2, <2>3 DEF Balanced
<1>10. Marking'
  BY <1>2, <1>5, <1>9 DEF Marking, Grab
<1>11. SavedIsLive'
  BY <1>1, <1>6, FS_EmptySet DEF SavedIsLive, Marked, Grab
<1> QED BY <1>1, <1>8, <1>10, <1>11 DEF NounInv, FreeIsEmpty, Acyclic, Grab

\* What a step of the marking has to keep.
LEMMA MarkPart ==
    ASSUME NounInv, mode = "mark", NounType', UNCHANGED <<mode, kids, roots>>,
           \A b \in Box : use'[b] = 0 <=> use[b] = 0,
           \A b \in Box : Losses(b)' = 0 /\ Frees(b)' = 0 /\ Balanced(b)',
           SavedIsLive'
    PROVE  NounInv'
<1>1. Live' = Live
  <2>1. Live = {a \in Box : use[a] # 0 /\ Frees(a) = 0}
    BY Facts DEF NounInv, NounType, LiveSplit
  <2>2. Live' = {a \in Box : use'[a] # 0 /\ Frees(a)' = 0}
    BY Facts DEF NounType, LiveSplit
  <2> QED BY <2>1, <2>2 DEF NounInv, Marking
<1>2. \A b \in Box : Slotting(b)' = Slotting(b)
  BY <1>1 DEF Slotting
<1>3. Marking'
  BY <1>2 DEF NounInv, Marking
<1>4. FreeIsEmpty' /\ Acyclic'
  BY DEF NounInv, FreeIsEmpty, Acyclic
<1> QED BY <1>3, <1>4 DEF NounInv

\* u2_cm_mark_noun of a root.
LEMMA MarkRootKeeps == ASSUME NounInv, NEW n \in Box, MarkRoot(n) PROVE NounInv'
<1>1. << >> \in Seq(Work) /\ <<"mark", n>> \in Work
  BY DEF Work, Nouns
<1>2. stack = << >> /\ stack' = << <<"mark", n>> >> \o << >> /\ mode = "mark"
  BY DEF MarkRoot
<1>3. NounType'
  BY <1>1 DEF NounInv, NounType, MarkRoot
<1>4. \A x : Count(stack', x) = 0 + (IF <<"mark", n>> = x THEN 1 ELSE 0)
  <2> DEFINE w == <<"mark", n>>
             e == << >>
  <2>1. w \in Work /\ e \in Seq(Work) /\ One(stack', w, e) /\ \A x : Count(e, x) = 0
    BY <1>1, <1>2, CountEmpty DEF One
  <2> HIDE DEF w, e
  <2>2. \A x : Count(stack', x) = Count(e, x) + (IF w = x THEN 1 ELSE 0)
    BY <2>1, PushOne
  <2>3. \A x : Count(stack', x) = 0 + (IF w = x THEN 1 ELSE 0)
    BY <2>1, <2>2
  <2> QED BY <2>3 DEF w
<1>5. ASSUME NEW b \in Box
      PROVE  Losses(b)' = 0 /\ Frees(b)' = 0 /\ Marks(b)' = (IF b = n THEN 1 ELSE 0) /\ Marks(b) = 0
  <2>1. /\ <<"mark", n>> # <<"free", b>> /\ <<"mark", n>> # <<"lose", b>>
        /\ <<"mark", n>> = <<"mark", b>> <=> b = n
    OBVIOUS
  <2> QED BY <1>2, <1>4, <2>1, StackEmpty DEF Losses, Frees, Marks
<1>6. ASSUME NEW b \in Box PROVE Balanced(b)'
  <2> DEFINE m == IF use[b] < 0 THEN - use[b] ELSE 0
             r == roots[b] + Slotted(Marked, kids, b)
  <2>1. m + todo[b] + 0 = r /\ m \in Int /\ todo[b] \in Nat
    BY <1>2, <1>5 DEF NounInv, NounType, Marking, Balanced
  <2>2. todo'[b] = todo[b] - (IF b = n THEN 1 ELSE 0)
    BY DEF NounInv, NounType, MarkRoot
  <2>3. roots' = roots /\ use' = use /\ kids' = kids /\ Marked' = Marked
    BY DEF MarkRoot, Marked
  <2> HIDE DEF m, r
  <2>4. m + todo'[b] + Marks(b)' = r
    BY <1>5, <2>1, <2>2
  <2> QED BY <2>3, <2>4 DEF m, r, Balanced
<1>7. SavedIsLive'
  BY <1>2 DEF NounInv, SavedIsLive, MarkRoot
<1> QED BY <1>2, <1>3, <1>5, <1>6, <1>7, MarkPart DEF MarkRoot

\* An atom that needs no box is not marked.
LEMMA MarkCat ==
    ASSUME NounInv, mode = "mark", stack # << >>, stack[1][2] = Cat, stack' = Tail(stack),
           UNCHANGED <<use, sav, mode, kids, roots, forgot, todo>>
    PROVE  NounInv'
<1>1. NounType'
  BY Top DEF NounInv, NounType
<1>2. ASSUME NEW b \in Box
      PROVE  Losses(b)' = Losses(b) /\ Frees(b)' = Frees(b) /\ Marks(b)' = Marks(b)
  <2>1. \A x : /\ Count(stack, x) = Count(stack', x) + (IF stack[1] = x THEN 1 ELSE 0)
               /\ Count(stack', x) \in Nat
    BY Top
  <2>2. stack[1] # <<"free", b>> /\ stack[1] # <<"lose", b>> /\ stack[1] # <<"mark", b>>
    BY NounAssumption
  <2>3. /\ Losses(b) = Losses(b)' + 0 /\ Losses(b)' \in Nat
        /\ Frees(b) = Frees(b)' + 0 /\ Frees(b)' \in Nat
        /\ Marks(b) = Marks(b)' + 0 /\ Marks(b)' \in Nat
    BY <2>1, <2>2 DEF Losses, Frees, Marks
  <2> QED BY <2>3
<1>3. Marked' = Marked
  BY DEF Marked
<1>4. \A b \in Box : Losses(b)' = 0 /\ Frees(b)' = 0 /\ Balanced(b)'
  BY <1>2, <1>3 DEF NounInv, Marking, Balanced
<1>5. SavedIsLive'
  BY DEF NounInv, SavedIsLive
<1> QED BY <1>1, <1>4, <1>5, MarkPart

\* In a collection a box at the top of the stack is there to be marked.
LEMMA TopIsMark ==
    ASSUME NounInv, mode = "mark", stack # << >>, NEW n \in Box, stack[1][2] = n
    PROVE  /\ stack[1] = <<"mark", n>> /\ Tail(stack) \in Seq(Work)
           /\ \A b \in Box : /\ Count(Tail(stack), <<"lose", b>>) = 0
                             /\ Count(Tail(stack), <<"free", b>>) = 0
                             /\ Count(Tail(stack), <<"mark", b>>) \in Nat
                             /\ Marks(b) = Count(Tail(stack), <<"mark", b>>)
                                                + (IF b = n THEN 1 ELSE 0)
<1>1. \A x : /\ Count(stack, x) = Count(Tail(stack), x) + (IF stack[1] = x THEN 1 ELSE 0)
             /\ Count(Tail(stack), x) \in Nat
  BY Top
<1>2. \A b \in Box : Count(stack, <<"lose", b>>) = 0 /\ Count(stack, <<"free", b>>) = 0
  BY DEF NounInv, Marking, Losses, Frees
<1>3. stack[1] # <<"lose", n>> /\ stack[1] # <<"free", n>>
  <2>1. \A x : stack[1] = x => Count(stack, x) # 0
    BY <1>1
  <2> QED BY <1>2, <2>1
<1>4. stack[1] = <<"mark", n>>
  BY <1>3, Top DEF Work
<1>5. ASSUME NEW b \in Box
      PROVE  /\ <<"mark", n>> # <<"free", b>> /\ <<"mark", n>> # <<"lose", b>>
             /\ <<"mark", n>> = <<"mark", b>> <=> b = n
  OBVIOUS
<1>6. ASSUME NEW b \in Box
      PROVE  /\ Count(stack, <<"lose", b>>) = Count(Tail(stack), <<"lose", b>>) + 0
             /\ Count(stack, <<"free", b>>) = Count(Tail(stack), <<"free", b>>) + 0
             /\ Marks(b) = Count(Tail(stack), <<"mark", b>>) + (IF b = n THEN 1 ELSE 0)
  BY <1>1, <1>4, <1>5 DEF Marks
<1> QED BY <1>1, <1>2, <1>4, <1>6, Top

\* A further mark of a box.
LEMMA MarkAgain ==
    ASSUME NounInv, mode = "mark", stack # << >>, NEW n \in Box, stack[1][2] = n, use[n] < 0,
           use' = [use EXCEPT ![n] = @ - 1], stack' = Tail(stack),
           UNCHANGED <<sav, mode, kids, roots, forgot, todo>>
    PROVE  NounInv'
<1>1. stack' \in Seq(Work)
  BY TopIsMark
<1>2. NounType'
  BY <1>1 DEF NounInv, NounType
<1>3. /\ use'[n] = use[n] - 1 /\ use'[n] < 0 /\ \A b \in Box : b # n => use'[b] = use[b]
      /\ use[n] \in Int
  BY DEF NounInv, NounType
<1>4. Marked' = Marked
  BY <1>3 DEF Marked
<1>5. \A b \in Box : use'[b] = 0 <=> use[b] = 0
  BY <1>3
<1>6. ASSUME NEW b \in Box
      PROVE  /\ Losses(b)' = 0 /\ Frees(b)' = 0
             /\ Marks(b) = Marks(b)' + (IF b = n THEN 1 ELSE 0) /\ Marks(b)' \in Nat
  BY TopIsMark DEF Losses, Frees, Marks
<1>7. ASSUME NEW b \in Box PROVE Balanced(b)'
  <2> DEFINE r == roots[b] + Slotted(Marked, kids, b)
             m == IF use[b] < 0 THEN - use[b] ELSE 0
             m1 == IF use'[b] < 0 THEN - use'[b] ELSE 0
  <2>1. m + todo[b] + Marks(b) = r /\ m \in Int /\ todo[b] \in Nat
    BY DEF NounInv, NounType, Marking, Balanced
  <2>2. m1 = m + (IF b = n THEN 1 ELSE 0)
    BY <1>3, <2>1
  <2> HIDE DEF r, m, m1
  <2>3. m1 + todo[b] + Marks(b)' = r
    <3>1. CASE b = n
      <4>1. m1 = m + 1 /\ Marks(b) = Marks(b)' + 1 /\ Marks(b)' \in Int
        BY <1>6, <2>2, <3>1
      <4>2. \A i, j, k \in Int : (i + 1) + j + k = i + j + (k + 1)
        OBVIOUS
      <4>3. (m + 1) + todo[b] + Marks(b)' = m + todo[b] + (Marks(b)' + 1)
        <5>1. todo[b] \in Int
          BY <2>1
        <5> QED BY <2>1, <4>1, <4>2, <5>1
      <4> QED BY <2>1, <4>1, <4>3
    <3>2. CASE b # n
      <4>1. m1 = m + 0 /\ Marks(b) = Marks(b)' + 0 /\ Marks(b)' \in Nat
        BY <1>6, <2>2, <3>2
      <4> QED BY <2>1, <4>1
    <3> QED BY <3>1, <3>2
  <2> QED BY <1>4, <2>3 DEF r, m1, Balanced
<1>8. SavedIsLive'
  <2>1. sav = Cardinality(Marked)
    BY DEF NounInv, SavedIsLive, Marked
  <2>2. sav' = Cardinality(Marked')
    BY <1>4, <2>1
  <2> QED BY <2>2 DEF SavedIsLive, Marked
<1> QED BY <1>2, <1>5, <1>6, <1>7, <1>8, MarkPart

\* What the first mark of n puts on the stack.
PushMarks(n) == stack' = [i \in 1 .. Len(kids[n]) |-> <<"mark", kids[n][i]>>] \o Tail(stack)

\* The first mark of a cell leaves its head and tail to mark.
LEMMA MarksPushed ==
    ASSUME NounInv, mode = "mark", stack # << >>, NEW n \in Box, stack[1][2] = n, PushMarks(n)
    PROVE  /\ stack' \in Seq(Work)
           /\ kids[n] # << >> => kids[n] = <<kids[n][1], kids[n][2]>>
           /\ \A b \in Box :
                /\ Losses(b)' = 0 /\ Frees(b)' = 0
                /\ Marks(b)' = Count(Tail(stack), <<"mark", b>>) +
                     (IF kids[n] = << >> THEN 0 ELSE Taken(kids[n][1], kids[n][2], b))
<1> DEFINE u == Tail(stack)
           h == kids[n][1]
           t == kids[n][2]
<1>1. /\ u \in Seq(Work)
      /\ \A b \in Box : /\ Count(u, <<"lose", b>>) = 0 /\ Count(u, <<"free", b>>) = 0
                         /\ Count(u, <<"mark", b>>) \in Nat
  BY TopIsMark
<1>2. CASE kids[n] = << >>
  <2>1. stack' = << >> \o u
    BY <1>2 DEF PushMarks
  <2>2. stack' = u
    <3> HIDE DEF u
    <3> QED BY <1>1, <2>1
  <2>3. \A b \in Box : Losses(b)' = 0 /\ Frees(b)' = 0 /\ Marks(b)' = Count(u, <<"mark", b>>) + 0
    <3> HIDE DEF u
    <3> SUFFICES ASSUME NEW b \in Box
                 PROVE  Losses(b)' = 0 /\ Frees(b)' = 0 /\ Marks(b)' = Count(u, <<"mark", b>>) + 0
      OBVIOUS
    <3>1. Losses(b)' = Count(u, <<"lose", b>>) /\ Frees(b)' = Count(u, <<"free", b>>)
      BY <2>2 DEF Losses, Frees
    <3>2. Marks(b)' = Count(u, <<"mark", b>>) /\ Count(u, <<"mark", b>>) \in Nat
      BY <1>1, <2>2 DEF Marks
    <3> QED BY <1>1, <3>1, <3>2
  <2> QED BY <1>1, <1>2, <2>2, <2>3
<1>3. CASE kids[n] # << >>
  <2> DEFINE x1 == <<"mark", h>>
             x2 == <<"mark", t>>
  <2>1. kids[n] \in Nouns \X Nouns
    BY <1>3 DEF NounInv, NounType
  <2>2. kids[n] = <<h, t>> /\ h \in Nouns /\ t \in Nouns
    BY <2>1
  <2>3. [i \in 1 .. Len(kids[n]) |-> <<"mark", kids[n][i]>>] = <<x1, x2>>
    <3>1. Len(kids[n]) = 2
      BY <2>2
    <3> QED BY <3>1
  <2>4. Two(stack', x1, x2, u) /\ x1 \in Work /\ x2 \in Work
    BY <2>2, <2>3 DEF Two, PushMarks, Work
  <2>5. ASSUME NEW b \in Box
        PROVE  /\ x1 # <<"free", b>> /\ x1 # <<"lose", b>> /\ (x1 = <<"mark", b>> <=> h = b)
               /\ x2 # <<"free", b>> /\ x2 # <<"lose", b>> /\ (x2 = <<"mark", b>> <=> t = b)
    OBVIOUS
  <2> HIDE DEF u, h, t, x1, x2
  <2>6. /\ stack' \in Seq(Work)
        /\ \A x : Count(stack', x) =
                   Count(u, x) + (IF x1 = x THEN 1 ELSE 0) + (IF x2 = x THEN 1 ELSE 0)
    BY <1>1, <2>4, PushTwo
  <2>7. ASSUME NEW b \in Box
        PROVE  /\ Losses(b)' = 0 /\ Frees(b)' = 0
               /\ Marks(b)' = Count(u, <<"mark", b>>) + Taken(h, t, b)
    <3>1. Losses(b)' = 0 + 0 + 0 /\ Frees(b)' = 0 + 0 + 0
      BY <1>1, <2>5, <2>6 DEF Losses, Frees
    <3>2. Marks(b)' = Count(u, <<"mark", b>>) + (IF h = b THEN 1 ELSE 0) + (IF t = b THEN 1 ELSE 0)
      BY <2>5, <2>6 DEF Marks
    <3>3. Count(u, <<"mark", b>>) \in Nat
      BY <1>1
    <3> QED BY <3>1, <3>2, <3>3 DEF Taken
  <2> QED BY <1>3, <2>2, <2>6, <2>7 DEF u, h, t
<1> QED BY <1>2, <1>3

\* The first mark of a box.
LEMMA MarkFirst ==
    ASSUME NounInv, mode = "mark", stack # << >>, NEW n \in Box, stack[1][2] = n, use[n] > 0,
           use' = [use EXCEPT ![n] = -1], sav' = sav + 1, PushMarks(n),
           UNCHANGED <<mode, kids, roots, forgot, todo>>
    PROVE  NounInv'
<1> DEFINE took(b) == IF kids[n] = << >> THEN 0 ELSE Taken(kids[n][1], kids[n][2], b)
<1>1. stack' \in Seq(Work)
  BY MarksPushed
<1>2. NounType'
  BY <1>1 DEF NounInv, NounType
<1>3. /\ use'[n] = -1 /\ \A b \in Box : b # n => use'[b] = use[b]
      /\ use[n] \in Int
  BY DEF NounInv, NounType
<1>4. n \notin Marked /\ Marked' = Marked \union {n}
  BY <1>3 DEF Marked
<1>5. \A b \in Box : use'[b] = 0 <=> use[b] = 0
  BY <1>3
<1>6. ASSUME NEW b \in Box
      PROVE  /\ Losses(b)' = 0 /\ Frees(b)' = 0
             /\ Marks(b)' = Count(Tail(stack), <<"mark", b>>) + took(b)
             /\ Marks(b) = Count(Tail(stack), <<"mark", b>>) + (IF b = n THEN 1 ELSE 0)
             /\ Count(Tail(stack), <<"mark", b>>) \in Nat
  BY TopIsMark, MarksPushed
<1>7. IsFiniteSet(Marked)
  BY Facts DEF CountTypes
<1>8. ASSUME NEW b \in Box
      PROVE  /\ Slotted(Marked', kids, b) = Slotted(Marked, kids, b) + took(b)
             /\ Slotted(Marked, kids, b) \in Nat /\ took(b) \in Nat
  <2>1. Adds(Marked, Marked', n)
    BY <1>4 DEF Adds
  <2>2. Slotted(Marked, kids, b) \in Nat
    BY Facts DEF CountTypes
  <2>3. CASE kids[n] = << >>
    <3>1. Slotted(Marked', kids, b) = Slotted(Marked, kids, b)
      BY <2>1, <2>3, AtomSlots
    <3> QED BY <2>2, <2>3, <3>1
  <2>4. CASE kids[n] # << >>
    <3> DEFINE h == kids[n][1]
               t == kids[n][2]
    <3>1. kids[n] = <<h, t>>
      BY <2>4, MarksPushed
    <3>2. took(b) = Taken(h, t, b)
      BY <2>4
    <3> HIDE DEF h, t, took
    <3>3. Slotted(Marked', kids, b) =
            Slotted(Marked, kids, b) + (IF h = b THEN 1 ELSE 0) + (IF t = b THEN 1 ELSE 0)
      BY <1>4, <1>7, <2>1, <3>1, CellSlots
    <3> QED BY <2>2, <3>2, <3>3 DEF Taken
  <2> QED BY <2>3, <2>4
<1>9. ASSUME NEW b \in Box PROVE Balanced(b)'
  <2> DEFINE k == Slotted(Marked, kids, b)
             k1 == Slotted(Marked', kids, b)
             m == IF use[b] < 0 THEN - use[b] ELSE 0
             m1 == IF use'[b] < 0 THEN - use'[b] ELSE 0
             c == Count(Tail(stack), <<"mark", b>>)
             d == took(b)
  <2>1. m + todo[b] + Marks(b) = roots[b] + k /\ m \in Int /\ todo[b] \in Nat /\ roots[b] \in Nat
    BY DEF NounInv, NounType, Marking, Balanced
  <2>2. m1 = m + (IF b = n THEN 1 ELSE 0)
    BY <1>3, <2>1
  <2>3. k1 = k + d /\ k \in Nat /\ d \in Nat
    BY <1>8
  <2>4. Marks(b)' = c + d /\ Marks(b) = c + (IF b = n THEN 1 ELSE 0) /\ c \in Nat
    BY <1>6
  <2> HIDE DEF k, k1, m, m1, c, d, took
  <2>5. m1 + todo[b] + Marks(b)' = roots[b] + k1
    <3> DEFINE i == todo[b]
               j == roots[b]
    <3>1. i \in Int /\ j \in Int /\ m \in Int /\ c \in Int /\ d \in Int /\ k \in Int
      BY <2>1, <2>3, <2>4
    <3>2. PICK e \in Int : e = IF b = n THEN 1 ELSE 0
      OBVIOUS
    <3>3. m + i + (c + e) = j + k
      BY <2>1, <2>4, <3>2
    <3> HIDE DEF i, j
    <3>4. (m + e) + i + (c + d) = j + (k + d)
      BY <3>1, <3>3
    <3>5. (m + e) + todo[b] + (c + d) = roots[b] + (k + d)
      BY <3>4 DEF i, j
    <3> QED BY <2>2, <2>3, <2>4, <3>2, <3>5
  <2> QED BY <2>5 DEF k1, m1, Balanced
<1>10. SavedIsLive'
  <2>1. sav = Cardinality(Marked)
    BY DEF NounInv, SavedIsLive, Marked
  <2>2. Cardinality(Marked \union {n}) = Cardinality(Marked) + 1
    BY <1>4, <1>7, FS_AddElement
  <2>3. sav' = Cardinality(Marked')
    BY <1>4, <2>1, <2>2
  <2> QED BY <2>3 DEF SavedIsLive, Marked
<1> QED BY <1>2, <1>5, <1>6, <1>9, <1>10, MarkPart

\* One mark of u2_rl_gc_mark_noun.
LEMMA MarkStepKeeps == ASSUME NounInv, MarkStep PROVE NounInv'
<1>1. mode = "mark" /\ stack # << >> /\ UNCHANGED <<mode, kids, roots, forgot, todo>>
  BY DEF MarkStep
<1>2. CASE stack[1][2] = Cat /\ stack' = Tail(stack) /\ UNCHANGED <<use, sav>>
  BY <1>1, <1>2, MarkCat
<1>3. ASSUME NEW n \in Box, stack[1][2] = n, use[n] < 0, use' = [use EXCEPT ![n] = @ - 1],
             stack' = Tail(stack), UNCHANGED sav
      PROVE  NounInv'
  BY <1>1, <1>3, MarkAgain
<1>4. ASSUME NEW n \in Box, stack[1][2] = n, use[n] > 0, use' = [use EXCEPT ![n] = -1],
             sav' = sav + 1, PushMarks(n)
      PROVE  NounInv'
  BY <1>1, <1>4, MarkFirst
<1> QED BY <1>2, <1>3, <1>4 DEF MarkStep, PushMarks

\* What is not marked is freed, what is marked has as many marks as references.
LEMMA SweepKeeps == ASSUME NounInv, Sweep PROVE NounInv'
<1>1. /\ stack = << >> /\ stack' = stack /\ mode = "mark" /\ mode' = "run" /\ sav' = 0
      /\ roots' = roots /\ todo' = todo /\ \A b \in Box : todo[b] = 0
  BY DEF Sweep
<1>2. ASSUME NEW b \in Box
      PROVE  /\ use'[b] = (IF use[b] < 0 THEN - use[b] ELSE 0)
             /\ kids'[b] = (IF use[b] < 0 THEN kids[b] ELSE << >>) /\ forgot'[b] = 0
             /\ use[b] \in Int
  BY DEF NounInv, NounType, Sweep
<1>3. NounType'
  <2>1. use' \in [Box -> Int] /\ forgot' \in [Box -> Nat]
    BY DEF NounInv, NounType, Sweep
  <2>2. kids' \in [Box -> {<< >>} \union (Nouns \X Nouns)]
    <3> DEFINE X == {<< >>} \union (Nouns \X Nouns)
    <3>1. kids \in [Box -> X] /\ << >> \in X
      BY DEF NounInv, NounType
    <3> HIDE DEF X
    <3>2. kids' \in [Box -> X]
      BY <3>1 DEF Sweep
    <3> QED BY <3>2 DEF X
  <2> QED BY <1>1, <2>1, <2>2 DEF NounInv, NounType
<1>4. ASSUME NEW b \in Box
      PROVE  Losses(b)' = 0 /\ Frees(b)' = 0 /\ Marks(b) = 0
  BY <1>1, StackEmpty, StackSame
<1>5. Live' = Marked
  <2>1. Live' = {a \in Box : use'[a] # 0 /\ Frees(a)' = 0}
    BY <1>3, Facts DEF NounType, LiveSplit
  <2> QED BY <1>2, <1>4, <2>1 DEF Marked
<1>6. ASSUME NEW b \in Box PROVE Slotting(b)' = Slotted(Marked, kids, b)
  <2>1. \A a \in Marked : kids'[a] = kids[a]
    BY <1>2 DEF Marked
  <2>2. Slotted(Marked, kids', b) = Slotted(Marked, kids, b)
    BY <2>1, SameSlots
  <2> QED BY <1>5, <2>2 DEF Slotting
<1>7. Counted'
  <2> SUFFICES ASSUME NEW b \in Box
               PROVE  /\ Frees(b)' = 0
                      /\ use'[b] = roots'[b] + Slotting(b)' + Losses(b)' + forgot'[b]
    BY DEF Counted
  <2> DEFINE k == Slotted(Marked, kids, b)
  <2>1. use'[b] + 0 + 0 = roots[b] + k
    BY <1>1, <1>2, <1>4 DEF NounInv, Marking, Balanced
  <2>2. k \in Nat /\ roots[b] \in Nat /\ use'[b] \in Int
    BY <1>3, Facts DEF CountTypes, NounInv, NounType
  <2>3. Slotting(b)' = k
    BY <1>6
  <2> HIDE DEF k
  <2>4. use'[b] = roots[b] + k + 0 + 0
    BY <2>1, <2>2
  <2> QED BY <1>1, <1>2, <1>4, <2>3, <2>4
<1>8. FreeIsEmpty'
  BY <1>2 DEF FreeIsEmpty
<1>9. Acyclic'
  <2>1. \A a \in Box : kids'[a] = kids[a] \/ kids'[a] = << >>
    BY <1>2
  <2> QED BY <2>1, AcyclicShrinks DEF NounInv
<1> QED BY <1>1, <1>3, <1>7, <1>8, <1>9 DEF NounInv

-----------------------------------------------------------------------------

(* The specification. *)

\* With no box in use.
LEMMA NounInit == Init => NounInv
<1> SUFFICES ASSUME Init PROVE NounInv
  OBVIOUS
<1>1. NounType
  <2>1. /\ use \in [Box -> Int] /\ roots \in [Box -> Nat]
        /\ forgot \in [Box -> Nat] /\ todo \in [Box -> Nat]
    BY DEF Init
  <2>2. kids \in [Box -> {<< >>} \union (Nouns \X Nouns)]
    BY DEF Init
  <2>3. stack \in Seq(Work) /\ sav \in Nat /\ mode \in {"run", "lose", "mark"}
    BY DEF Init
  <2> QED BY <2>1, <2>2, <2>3 DEF NounType
<1>2. \A b \in Box : use[b] = 0 /\ roots[b] = 0 /\ forgot[b] = 0 /\ kids[b] = << >>
  BY DEF Init
<1>3. \A b \in Box : Losses(b) = 0 /\ Frees(b) = 0
  BY StackEmpty DEF Init
<1>4. ASSUME NEW b \in Box PROVE Slotting(b) = 0
  <2>1. Held(Live, kids, b) = {}
    BY <1>2 DEF Held, Live
  <2> QED BY <2>1, FS_EmptySet DEF Slotting, Slotted
<1>5. Counted
  <2>1. 0 = 0 + 0 + 0 + 0
    OBVIOUS
  <2> QED BY <1>2, <1>3, <1>4, <2>1 DEF Counted
<1>6. Acyclic /\ FreeIsEmpty
  BY <1>2 DEF Acyclic, FreeIsEmpty, Points
<1> QED BY <1>1, <1>5, <1>6 DEF NounInv, Init

\* One step of any kind.
LEMMA NounNext == NounInv /\ [Next]_vars => NounInv'
<1> SUFFICES ASSUME NounInv, [Next]_vars PROVE NounInv'
  OBVIOUS
<1>1. ASSUME NEW b \in Box, Atom(b) \/ Gain(b) \/ Forget(b) \/ Lose(b) \/ MarkRoot(b)
      PROVE  NounInv'
  BY <1>1, AtomKeeps, GainKeeps, ForgetKeeps, LoseKeeps, MarkRootKeeps
<1>2. ASSUME NEW b \in Box, NEW h \in Nouns, NEW t \in Nouns, Cell(b, h, t) PROVE NounInv'
  BY <1>2, CellKeeps
<1>3. CASE LoseStep \/ FreeStep \/ LoseDone
  BY <1>3, LoseStepKeeps, FreeStepKeeps, LoseDoneKeeps
<1>4. CASE Grab \/ MarkStep \/ Sweep
  BY <1>4, GrabKeeps, MarkStepKeeps, SweepKeeps
<1>5. CASE UNCHANGED vars
  <2>1. UNCHANGED <<mode, use, kids, roots, forgot, stack, todo, sav>>
    BY <1>5 DEF vars
  <2>2. Dying' = Dying /\ Live' = Live /\ Marked' = Marked
    BY <2>1 DEF Dying, Live, Marked
  <2>3. \A b \in Box : /\ Losses(b)' = Losses(b) /\ Frees(b)' = Frees(b) /\ Marks(b)' = Marks(b)
                       /\ Slotting(b)' = Slotting(b)
    BY <2>1, <2>2 DEF Losses, Frees, Marks, Slotting
  <2>4. (Counted' <=> Counted) /\ (Marking' <=> Marking)
    BY <2>1, <2>2, <2>3 DEF Counted, Marking, Balanced
  <2> QED BY <2>1, <2>4 DEF NounInv, NounType, FreeIsEmpty, Acyclic, SavedIsLive
<1> QED BY <1>1, <1>2, <1>3, <1>4, <1>5 DEF Next

\* The invariant of reference counts (NounInv): boxes, contents and stack have
\* their types, no cell contains itself, counts are the references, and the
\* marks of a collection are the references from what is marked.
THEOREM NounInvCorrect == Spec => []NounInv
BY NounInit, NounNext, PTL DEF Spec

\* NoDangling: u2_rl_lose and u2_rl_gc_sweep free no box that a root, a cell or
\* a loss under way refers to.
THEOREM NothingDangles == Spec => []NoDangling
<1>1. NounInv => NoDangling
  <2> SUFFICES ASSUME NounInv, NEW b \in Box, Refs(b) > 0 PROVE use[b] # 0
    BY DEF NoDangling
  <2>1. /\ Losses(b) \in Nat /\ Slotting(b) \in Nat /\ roots[b] \in Nat /\ forgot[b] \in Nat
    BY Facts DEF CountTypes, NounInv, NounType
  <2>2. roots[b] + Slotting(b) + Losses(b) > 0
    BY Facts DEF RefsSplit
  <2>3. CASE mode = "mark"
    <3>1. Losses(b) = 0
      BY <2>3 DEF NounInv, Marking
    <3>2. roots[b] + Slotting(b) > 0
      BY <2>1, <2>2, <3>1
    <3> QED BY <2>3, <3>2 DEF NounInv, Marking
  <2>4. CASE mode # "mark"
    <3>1. use[b] \in {1, roots[b] + Slotting(b) + Losses(b) + forgot[b], Sticky}
      BY <2>4 DEF NounInv, Counted
    <3>2. \A i, l \in Nat : i > 0 => i + l # 0
      OBVIOUS
    <3>3. roots[b] + Slotting(b) + Losses(b) \in Nat
      BY <2>1
    <3>4. roots[b] + Slotting(b) + Losses(b) + forgot[b] # 0
      BY <2>1, <2>2, <3>2, <3>3
    <3> QED BY <3>1, <3>4, NounAssumption
  <2> QED BY <2>3, <2>4
<1> QED BY <1>1, NounInvCorrect, PTL

\* CountExact: outside a collection a count is the number of references, what
\* was forgotten included, or stuck.
THEOREM CountsAreExact == Spec => []CountExact
<1>1. NounInv => CountExact
  <2> SUFFICES ASSUME NounInv, mode # "mark", NEW b \in Box \ Dying
               PROVE  use[b] \in {Refs(b) + forgot[b], Sticky}
    BY DEF CountExact
  <2>1. Frees(b) = 0
    BY Facts DEF DyingSplit, NounInv, NounType
  <2>2. use[b] \in {roots[b] + Slotting(b) + Losses(b) + forgot[b], Sticky}
    BY <2>1 DEF NounInv, Counted
  <2>3. Refs(b) = roots[b] + Slotting(b) + Losses(b)
    BY Facts DEF RefsSplit
  <2> QED BY <2>2, <2>3
<1> QED BY <1>1, NounInvCorrect, PTL

\* SavedIsLive: u2_rl_gc_sweep finds as many boxes marked as
\* u2_rl_gc_mark_noun counted.
THEOREM MarkedAreSaved == Spec => []SavedIsLive
<1>1. NounInv => SavedIsLive
  BY DEF NounInv, SavedIsLive
<1> QED BY <1>1, NounInvCorrect, PTL

\* Every box a cell in use has in it is referred to.
LEMMA SlotCounts ==
    ASSUME NEW a \in Live, NEW b \in Box, Points(kids, a, b) PROVE Slotting(b) > 0
<1>1. \E i \in {1, 2} : <<a, i>> \in Held(Live, kids, b)
  BY DEF Held, Points
<1>2. IsFiniteSet(Held(Live, kids, b)) /\ Slotting(b) \in Nat
  BY Facts, HeldFinite DEF CountTypes
<1> QED BY <1>1, <1>2, FS_EmptySet DEF Slotting, Slotted

\* NoGarbage: with nothing forgotten and no count stuck, what is in use is what
\* the roots reach.  That nothing else is in use is what needs Acyclic: cells
\* that held one another would keep their counts without a root.
THEOREM GarbageFree == Spec => []NoGarbage
<1>1. NounInv => NoGarbage
  <2> DEFINE U == {b \in Box : use[b] # 0}
  <2> SUFFICES ASSUME NounInv, mode = "run", \A b \in Box : forgot[b] = 0 /\ use[b] < Sticky
               PROVE  Reach = U
    BY DEF NoGarbage
  <2>1. \A b \in Box : Losses(b) = 0 /\ Frees(b) = 0
    BY StackEmpty DEF NounInv
  <2>2. Live = U
    BY <2>1, Facts DEF NounInv, NounType, LiveSplit
  <2>3. ASSUME NEW b \in Box
        PROVE  use[b] = roots[b] + Slotting(b) /\ roots[b] \in Nat /\ Slotting(b) \in Nat
    <3>1. use[b] \in {roots[b] + Slotting(b) + 0 + 0, Sticky}
      BY <2>1 DEF NounInv, Counted
    <3>2. roots[b] \in Nat /\ Slotting(b) \in Nat /\ use[b] \in Int /\ use[b] # Sticky
      BY Facts, NounAssumption DEF CountTypes, NounInv, NounType
    <3> QED BY <3>1, <3>2
  <2>4. ASSUME NEW a \in Box, NEW b \in Box
        PROVE  Points(kids, a, b) <=> \E i \in 1 .. Len(kids[a]) : kids[a][i] = b
    <3>1. CASE kids[a] = << >>
      BY <3>1 DEF Points
    <3>2. CASE kids[a] # << >>
      <4>1. kids[a] \in Nouns \X Nouns
        BY <3>2 DEF NounInv, NounType
      <4>2. Len(kids[a]) = 2
        BY <4>1
      <4> QED BY <3>2, <4>2 DEF Points
    <3> QED BY <3>1, <3>2
  <2> DEFINE Closed(s) == /\ \A a \in Box : roots[a] > 0 => a \in s
                          /\ \A a \in s : \A i \in 1 .. Len(kids[a]) :
                               kids[a][i] \in Box => kids[a][i] \in s
  <2>5. ASSUME NEW b \in Reach PROVE b \in U
    <3>1. \A a \in Box : roots[a] > 0 => a \in U
      BY <2>3
    <3>2. ASSUME NEW a \in U, NEW i \in 1 .. Len(kids[a]), kids[a][i] \in Box
          PROVE  kids[a][i] \in U
      <4> DEFINE c == kids[a][i]
      <4>1. c \in Box /\ Points(kids, a, c)
        BY <2>4, <3>2
      <4>2. a \in Live
        BY <2>2
      <4> HIDE DEF c
      <4>3. Slotting(c) > 0
        BY <4>1, <4>2, SlotCounts
      <4>4. c \in U
        BY <2>3, <4>1, <4>3
      <4> QED BY <4>4 DEF c
    <3>3. U \in SUBSET Box /\ Closed(U)
      BY <3>1, <3>2
    <3> QED BY <3>3 DEF Reach
  <2>6. ASSUME NEW b \in U PROVE b \in Reach
    <3> SUFFICES ASSUME NEW s \in SUBSET Box, Closed(s), b \notin s PROVE FALSE
      BY DEF Reach
    <3> DEFINE G == U \ s
    <3>1. PICK c \in G : \A a \in G : ~ Points(kids, a, c)
      <4>1. G \in SUBSET Box /\ G # {}
        OBVIOUS
      <4> HIDE DEF G
      <4> QED BY <4>1 DEF NounInv, Acyclic
    <3>2. c \in Box /\ use[c] # 0 /\ c \notin s
      OBVIOUS
    <3>3. roots[c] = 0
      BY <2>3, <3>2
    <3>4. Slotted(Live, kids, c) # 0
      BY <2>3, <3>2, <3>3 DEF Slotting
    <3>5. Held(Live, kids, c) # {}
      BY <3>4, FS_EmptySet DEF Slotted
    <3>6. PICK a \in Live : Points(kids, a, c)
      BY <3>5 DEF Held, Points
    <3>7. a \in U /\ a \in Box
      BY <2>2
    <3>8. a \notin s
      BY <2>4, <3>2, <3>6, <3>7
    <3> QED BY <3>1, <3>6, <3>7, <3>8
  <2> HIDE DEF U
  <2> QED BY <2>5, <2>6
<1> QED BY <1>1, NounInvCorrect, PTL
=============================================================================

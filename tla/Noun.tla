-------------------------------- MODULE Noun --------------------------------
(***************************************************************************)
(* Reference counts and garbage collection of nouns (f/rail.c): atoms and  *)
(* cells in boxes of a rock rail, the references the C code holds, and     *)
(* what it forgets to lose, which u2_lo_grab is there to find.  Rail       *)
(* models where boxes lie; here a box is one that is in use or not.        *)
(*                                                                         *)
(* u2_rl_lose and u2_rl_gc_mark_noun are recursive: what is left of the    *)
(* calls under way is a stack, and nothing else runs until it is empty.    *)
(***************************************************************************)
EXTENDS Integers, Sequences, FiniteSets

CONSTANTS
    Box,        \* boxes
    Cat,        \* an atom that needs no box
    MaxRef,     \* bound: references to a noun
    MaxForget,  \* bound: references to a noun forgotten
    Sticky      \* 0x7fffffff

\* The loom is finite.  A reference takes a word, and the loom has fewer words
\* than 0x7fffffff.
ASSUME NounAssumption ==
    /\ IsFiniteSet(Box) /\ Cat \notin Box
    /\ MaxRef \in Nat /\ MaxForget \in Nat
    /\ Sticky \in Nat \ {0, 1} /\ MaxRef < Sticky

Nouns == Box \union {Cat}

VARIABLES
    mode,       \* "run", "lose" (in u2_rl_lose), "mark" (in u2_lo_grab, before
                \* u2_rl_gc_sweep)
    use,        \* use[b]: use_w; 0 when free, negative when marked
    kids,       \* kids[b]: <<head, tail>> of a cell, << >> of an atom
    roots,      \* roots[b]: references C code and the world hold
    forgot,     \* history: references to b dropped without u2_rl_lose
    stack,      \* what is left of the recursion: <<what, noun>>, next first
    todo,       \* todo[b]: roots still to be marked
    sav         \* boxes u2_rl_gc_mark_noun has counted

vars == <<mode, use, kids, roots, forgot, stack, todo, sav>>

Init ==
    /\ mode = "run" /\ stack = << >> /\ sav = 0
    /\ use = [b \in Box |-> 0] /\ kids = [b \in Box |-> << >>]
    /\ roots = use /\ forgot = use /\ todo = use

-----------------------------------------------------------------------------

Slots == Box \X {1, 2}

\* Cells whose box u2_rl_lose is about to free: what they held is lost already,
\* or on the stack.
Dying == {stack[i][2] : i \in {j \in 1 .. Len(stack) : stack[j][1] = "free"}}

\* The references to b: roots, the slots of cells, and losses not yet done.
Refs(b) ==
    roots[b]
    + Cardinality({s \in Slots : /\ use[s[1]] # 0 /\ s[1] \notin Dying
                                 /\ kids[s[1]] # << >> /\ kids[s[1]][s[2]] = b})
    + Cardinality({i \in 1 .. Len(stack) : stack[i] = <<"lose", b>>})

\* What the roots reach.
Reach ==
    {b \in Box : \A s \in SUBSET Box :
        (/\ \A a \in Box : roots[a] > 0 => a \in s
         /\ \A a \in s : \A i \in 1 .. Len(kids[a]) :
              kids[a][i] \in Box => kids[a][i] \in s) => b \in s}

\* u2_rl_slab and the other atoms: a box with count 1.
Atom(b) ==
    /\ mode = "run" /\ use[b] = 0
    /\ use' = [use EXCEPT ![b] = 1]
    /\ kids' = [kids EXCEPT ![b] = << >>]
    /\ roots' = [roots EXCEPT ![b] = 1]
    /\ UNCHANGED <<mode, forgot, stack, todo, sav>>

\* The roots of n held, less the references to h and t.
GivenOnce(h, t) == [n \in Box |-> roots[n] - (IF n \in {h, t} THEN 1 ELSE 0)]
Given(h, t) == [n \in Box |-> roots[n] - (IF n = h THEN 1 ELSE 0)
                                       - (IF n = t THEN 1 ELSE 0)]

\* u2_rl_cell takes over the references to its head and tail.
Cell(b, h, t) ==
    /\ mode = "run" /\ use[b] = 0
    /\ \A n \in Box : Given(h, t)[n] >= 0
    /\ use' = [use EXCEPT ![b] = 1]
    /\ kids' = [kids EXCEPT ![b] = <<h, t>>]
    /\ roots' = [Given(h, t) EXCEPT ![b] = 1]
    /\ UNCHANGED <<mode, forgot, stack, todo, sav>>

\* u2_rl_gain of a noun, or a part of a noun, that is held; it asserts that the
\* count is not 0.
Gain(b) ==
    /\ mode = "run" /\ b \in Reach /\ Refs(b) < MaxRef
    /\ use' = IF use[b] # Sticky THEN [use EXCEPT ![b] = @ + 1] ELSE use
    /\ roots' = [roots EXCEPT ![b] = @ + 1]
    /\ UNCHANGED <<mode, kids, forgot, stack, todo, sav>>

\* C code drops a reference and does not lose it.
Forget(b) ==
    /\ mode = "run" /\ roots[b] > 0 /\ forgot[b] < MaxForget
    /\ roots' = [roots EXCEPT ![b] = @ - 1]
    /\ forgot' = [forgot EXCEPT ![b] = @ + 1]
    /\ UNCHANGED <<mode, use, kids, stack, todo, sav>>

\* C code calls u2_rl_lose.
Lose(b) ==
    /\ mode = "run" /\ roots[b] > 0
    /\ roots' = [roots EXCEPT ![b] = @ - 1]
    /\ mode' = "lose" /\ stack' = << <<"lose", b>> >>
    /\ UNCHANGED <<use, kids, forgot, todo, sav>>

-----------------------------------------------------------------------------

\* u2_rl_lose: with count 1, lose the head, free the box, lose the tail; else
\* take one from the count, unless it is stuck.  A count of 0 is asserted against.
LoseStepSoon ==
    LET n == stack[1][2] IN
    /\ mode = "lose" /\ stack # << >> /\ stack[1][1] = "lose"
    /\ \/ /\ n \in Box /\ use[n] \in {1, 2}
          /\ stack' = (IF kids[n] = << >> THEN << <<"free", n>> >>
                       ELSE << <<"lose", kids[n][1]>>, <<"free", n>>,
                               <<"lose", kids[n][2]>> >>) \o Tail(stack)
          /\ UNCHANGED use
       \/ /\ n \in Box /\ use[n] \notin {0, 1, 2}
          /\ use' = IF use[n] # Sticky THEN [use EXCEPT ![n] = @ - 1] ELSE use
          /\ stack' = Tail(stack)
       \/ n = Cat /\ stack' = Tail(stack) /\ UNCHANGED use
    /\ UNCHANGED <<mode, kids, roots, forgot, todo, sav>>
LoseStep ==
    LET n == stack[1][2] IN
    /\ mode = "lose" /\ stack # << >> /\ stack[1][1] = "lose"
    /\ \/ /\ n \in Box /\ use[n] = 1
          /\ stack' = (IF kids[n] = << >> THEN << <<"free", n>> >>
                       ELSE << <<"lose", kids[n][1]>>, <<"free", n>>,
                               <<"lose", kids[n][2]>> >>) \o Tail(stack)
          /\ UNCHANGED use
       \/ /\ n \in Box /\ use[n] \notin {0, 1}
          /\ use' = IF use[n] # Sticky THEN [use EXCEPT ![n] = @ - 1] ELSE use
          /\ stack' = Tail(stack)
       \/ n = Cat /\ stack' = Tail(stack) /\ UNCHANGED use
    /\ UNCHANGED <<mode, kids, roots, forgot, todo, sav>>

FreeStep ==
    /\ mode = "lose" /\ stack # << >> /\ stack[1][1] = "free"
    /\ use' = [use EXCEPT ![stack[1][2]] = 0]
    /\ kids' = [kids EXCEPT ![stack[1][2]] = << >>]
    /\ forgot' = [forgot EXCEPT ![stack[1][2]] = 0]
    /\ stack' = Tail(stack)
    /\ UNCHANGED <<mode, roots, todo, sav>>

\* The outermost u2_rl_lose returns.
LoseDone ==
    /\ mode = "lose" /\ stack = << >>
    /\ mode' = "run"
    /\ UNCHANGED <<use, kids, roots, forgot, stack, todo, sav>>

-----------------------------------------------------------------------------

\* u2_lo_grab, called where no C code holds a noun it does not mark.  Each root is
\* marked, and counted, once: u2_wr_mark would mark the first kite once more for
\* every further one and drops u2_hv_mark's size, but no kite or lad is there.
Grab ==
    /\ mode = "run"
    /\ mode' = "mark" /\ todo' = roots
    /\ UNCHANGED <<use, kids, roots, forgot, stack, sav>>

\* u2_cm_mark_noun of a root.
MarkRoot(b) ==
    /\ mode = "mark" /\ stack = << >> /\ todo[b] > 0
    /\ todo' = [todo EXCEPT ![b] = @ - 1]
    /\ stack' = << <<"mark", b>> >>
    /\ UNCHANGED <<mode, use, kids, roots, forgot, sav>>

\* u2_rl_gc_mark_noun: the first mark makes the count -1, and follows a cell;
\* a further one takes one from it.
MarkStepTwice ==
    LET n == stack[1][2] IN
    /\ mode = "mark" /\ stack # << >>
    /\ \/ n = Cat /\ stack' = Tail(stack) /\ UNCHANGED <<use, sav>>
       \/ /\ n \in Box /\ use[n] < 0
          /\ use' = [use EXCEPT ![n] = @ - 1]
          /\ stack' = Tail(stack) /\ sav' = sav + 1
       \/ /\ n \in Box /\ use[n] > 0
          /\ use' = [use EXCEPT ![n] = -1] /\ sav' = sav + 1
          /\ stack' = [i \in 1 .. Len(kids[n]) |-> <<"mark", kids[n][i]>>] \o Tail(stack)
    /\ UNCHANGED <<mode, kids, roots, forgot, todo>>
MarkStep ==
    LET n == stack[1][2] IN
    /\ mode = "mark" /\ stack # << >>
    /\ \/ n = Cat /\ stack' = Tail(stack) /\ UNCHANGED <<use, sav>>
       \/ /\ n \in Box /\ use[n] < 0
          /\ use' = [use EXCEPT ![n] = @ - 1]
          /\ stack' = Tail(stack) /\ UNCHANGED sav
       \/ /\ n \in Box /\ use[n] > 0
          /\ use' = [use EXCEPT ![n] = -1] /\ sav' = sav + 1
          /\ stack' = [i \in 1 .. Len(kids[n]) |-> <<"mark", kids[n][i]>>] \o Tail(stack)
    /\ UNCHANGED <<mode, kids, roots, forgot, todo>>

\* u2_rl_gc_sweep: a box with a count and no mark is freed, the marks of the
\* others become their counts.
SweepKeep ==
    /\ mode = "mark" /\ stack = << >> /\ \A b \in Box : todo[b] = 0
    /\ mode' = "run"
    /\ use' = [b \in Box |-> IF use[b] < 0 THEN - use[b] ELSE use[b]]
    /\ kids' = [b \in Box |-> IF use[b] < 0 THEN kids[b] ELSE << >>]
    /\ forgot' = [b \in Box |-> 0]
    /\ sav' = 0
    /\ UNCHANGED <<roots, stack, todo>>
Sweep ==
    /\ mode = "mark" /\ stack = << >> /\ \A b \in Box : todo[b] = 0
    /\ mode' = "run"
    /\ use' = [b \in Box |-> IF use[b] < 0 THEN - use[b] ELSE 0]
    /\ kids' = [b \in Box |-> IF use[b] < 0 THEN kids[b] ELSE << >>]
    /\ forgot' = [b \in Box |-> 0]
    /\ sav' = 0
    /\ UNCHANGED <<roots, stack, todo>>

Next ==
    \/ \E b \in Box : Atom(b) \/ Gain(b) \/ Forget(b) \/ Lose(b) \/ MarkRoot(b)
    \/ \E b \in Box, h, t \in Nouns : Cell(b, h, t)
    \/ LoseStep \/ FreeStep \/ LoseDone \/ Grab \/ MarkStep \/ Sweep

Spec == Init /\ [][Next]_vars

-----------------------------------------------------------------------------

\* What C code, a cell or a loss under way refers to is a box in use: no noun is
\* freed early, also when its count has stuck.
NoDangling == \A b \in Box : Refs(b) > 0 => use[b] # 0

\* With nothing forgotten and no count stuck, the boxes in use are those the
\* roots reach: u2_rl_lose frees a whole noun and nothing else, and a garbage
\* collection leaves nothing behind that was forgotten before it.
NoGarbage ==
    mode = "run" /\ (\A b \in Box : forgot[b] = 0 /\ use[b] < Sticky) =>
        Reach = {b \in Box : use[b] # 0}

\* A count is the number of references, forgotten ones included, or stuck:
\* losing, marking and sweeping never leave it off by one.  (A cell that is being
\* lost keeps its count of 1 until its head is lost.)
CountExact ==
    mode # "mark" =>
        \A b \in Box \ Dying : use[b] \in {Refs(b) + forgot[b], Sticky}

\* u2_rl_gc_sweep's c3_assert(liv_w == sav_w): what was marked is what it finds
\* marked.
SavedIsLive ==
    mode = "mark" => sav = Cardinality({b \in Box : use[b] < 0})
=============================================================================

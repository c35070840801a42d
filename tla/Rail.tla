-------------------------------- MODULE Rail --------------------------------
(***************************************************************************)
(* The allocator of noun memory (f/rail.c): one rock rail, whose durable   *)
(* region is cut into boxes from rut_r (here 0) to hat_r.  A box has its    *)
(* size and use count in its first two words and its size again in its     *)
(* last.  Free boxes are on doubly linked lists by size class; a list is   *)
(* the set of its boxes, so that a search that takes the first adequate    *)
(* box of a list may here take any.                                        *)
(***************************************************************************)
EXTENDS Integers, FiniteSets

CONSTANTS
    Top,        \* words below cap_r
    Lens,       \* the lengths asked for, in words
    Sticky,     \* the count that is never changed again (0x7fffffff)
    MaxHeld     \* bound on the references held to one box

ASSUME RailAssumption ==
    Top \in Nat \ {0} /\ Lens \subseteq Nat \ {0, 1, 2} /\ Sticky \in Nat \ {0, 1}
    /\ MaxHeld \in Nat

Addr == 0 .. Top

VARIABLES
    hat,        \* hat_r
    siz,        \* siz[b]: siz_w, the first word of the box at b
    use,        \* use[b]: use_w, its second
    las,        \* las[a]: the size in the last word of the box that ends before a
    fre,        \* fre_r: <<i, b>> when the box at b is on free list i
    box,        \* history: where boxes begin
    held,       \* history: the references callers hold to the box at an address
    want        \* history: the words of it they count on

heap == <<hat, siz, las, fre, box>>
vars == <<hat, siz, use, las, fre, box, held, want>>

Init ==
    /\ hat = 0 /\ fre = {} /\ box = {}
    /\ siz = [a \in Addr |-> 0] /\ use = siz /\ las = siz
    /\ held = siz /\ want = siz

-----------------------------------------------------------------------------

LastList == 27      \* u2_soup_free_no - 1

\* _rl_free_select: 6 words, the size of a cell, have list 0; the others have a
\* list up to 15 words and one for every doubling from there.
Select(s) ==
    IF s = 6 THEN 0
    ELSE 1 + Cardinality({i \in 1 .. (LastList - 1) : s > 15 * 2 ^ (i - 1)})

\* _rl_bloq_grab begins to search one list up, where every box is adequate.
SelectFrom(s) == IF Select(s) \in {0, LastList} THEN Select(s) ELSE Select(s) + 1

\* _rl_bloq_make: the words of a box of s words at b.
MakeSiz(f, b, s) == [f EXCEPT ![b] = s]
MakeLasNone(f, b, s) == f
MakeLas(f, b, s) == [f EXCEPT ![b + s] = s]

\* The boxes on list i that have s words.
Fit(i, s) == {p[2] : p \in {q \in fre : q[1] = i /\ siz[q[2]] >= s}}

\* The list _rl_bloq_grab takes a box of s words from: the first that has one.
FitList(s) ==
    {i \in SelectFrom(s) .. LastList :
        Fit(i, s) # {} /\ \A j \in SelectFrom(s) .. (i - 1) : Fit(j, s) = {}}

\* Whether _rl_bloq_grab of s words cuts the box at b: more than 6 are left over.
CutAlways(b, s) == TRUE
Cut(b, s) == s + 6 < siz[b]

\* The caller of u2_rl_ralloc holds the box at b, and counts on s words of it.
Hand(b, s) == held' = [held EXCEPT ![b] = @ + 1] /\ want' = [want EXCEPT ![b] = s]

\* _rl_bloq_grab, from box b of list i.
Take(i, b, s) ==
    /\ Hand(b, s)
    /\ IF Cut(b, s)
       THEN /\ box' = box \union {b + s}
            /\ siz' = MakeSiz(MakeSiz(siz, b + s, siz[b] - s), b, s)
            /\ las' = MakeLas(MakeLas(las, b + s, siz[b] - s), b, s)
            /\ use' = [use EXCEPT ![b + s] = 0, ![b] = 1]
            /\ fre' = (fre \ {<<i, b>>}) \union {<<Select(siz[b] - s), b + s>>}
            /\ UNCHANGED hat
       ELSE /\ use' = [use EXCEPT ![b] = 1]
            /\ fre' = fre \ {<<i, b>>}
            /\ UNCHANGED <<hat, siz, las, box>>

\* u2_rl_open: there is room for s words below cap_r.  (With ops_u.mem, which
\* main.c leaves off, it answers yes unasked.)
Open(s) == hat + s < Top

\* _rl_bloq_grab, from the hat (without room u2_loop_signal_memory unwinds, and
\* nothing changes).
TakeHat(s) ==
    /\ Open(s)
    /\ hat' = hat + s
    /\ box' = box \union {hat}
    /\ siz' = MakeSiz(siz, hat, s) /\ las' = MakeLas(las, hat, s)
    /\ use' = [use EXCEPT ![hat] = 1]
    /\ Hand(hat, s)
    /\ UNCHANGED fre

\* u2_rl_ralloc, and with it u2_rl_malloc, u2_rl_slab and u2_rl_cell: the box has
\* two words before and one behind what was asked for.
Grab(len) ==
    LET s == len + 3
    IN  \/ \E i \in FitList(s) : \E b \in Fit(i, s) : Take(i, b, s)
        \/ FitList(s) = {} /\ TakeHat(s)

-----------------------------------------------------------------------------

\* Where the free box that b joins begins, or b: the word before b has the size
\* of the box before it.
FreeFrom(b) == IF b # 0 /\ use[b - las[b]] = 0 THEN b - las[b] ELSE b

\* Where the free box behind b ends, or b itself.
FreeToAny(b) ==
    LET end == b + siz[b] IN IF end # hat THEN end + siz[end] ELSE end
FreeTo(b) ==
    LET end == b + siz[b]
    IN  IF end # hat /\ use[end] = 0 THEN end + siz[end] ELSE end

\* _rl_bloq_detach of a box at x, which joins a box of s words: from the list of
\* its own size.
DetachLate(x, s) == <<Select(s), x>>
Detach(x, s) == <<Select(siz[x]), x>>

\* _rl_bloq_free of the box at b: it joins the previous box when that is free,
\* and then the hat or the next box when that is free.
BloqFree(b) ==
    LET end == b + siz[b]
        lo == FreeFrom(b)
        hi == FreeTo(b)
        joined == ({lo} \ {b}) \union (IF hi = end THEN {} ELSE {end})
        listed == {Detach(x, hi - lo) : x \in joined}
    IN  /\ use' = [use EXCEPT ![b] = 0]
        /\ siz' = MakeSiz(siz, lo, hi - lo)
        /\ las' = MakeLas(las, lo, hi - lo)
        /\ IF end = hat
           THEN hat' = lo /\ box' = box \ {lo, b} /\ fre' = fre \ listed
           ELSE /\ box' = (box \ ({b} \union joined)) \union {lo}
                /\ fre' = (fre \ listed) \union {<<Select(hi - lo), lo>>}
                /\ UNCHANGED hat

\* u2_rl_gain of a noun at b, by who holds it: it asserts that the count is not 0.
Gain(b) ==
    /\ held[b] \in 1 .. (MaxHeld - 1) /\ use[b] # 0
    /\ use' = IF use[b] # Sticky THEN [use EXCEPT ![b] = @ + 1] ELSE use
    /\ held' = [held EXCEPT ![b] = @ + 1]
    /\ UNCHANGED <<heap, want>>

\* u2_rl_lose of a noun at b, by who holds it (what a cell holds is lost first),
\* and u2_rl_rfree of storage at b, whose count is 1.
Lose(b) ==
    /\ held[b] > 0 /\ use[b] # 0
    /\ held' = [held EXCEPT ![b] = @ - 1] /\ UNCHANGED want
    /\ IF use[b] = 1
       THEN BloqFree(b)
       ELSE /\ use' = IF use[b] # Sticky THEN [use EXCEPT ![b] = @ - 1] ELSE use
            /\ UNCHANGED heap

\* u2_rl_mint of a slab at b to an atom that needs a box of a words, 6 or more
\* below what the slab has: its end becomes a free box, and is not joined to
\* what follows.  (Less than 6 words stay; an atom of no words is lost.)
Mint(b, a) ==
    /\ held[b] > 0 /\ use[b] = 1 /\ a >= 6 /\ a + 6 <= siz[b]
    /\ want' = [want EXCEPT ![b] = a]
    /\ box' = box \union {b + a}
    /\ siz' = MakeSiz(MakeSiz(siz, b + a, siz[b] - a), b, a)
    /\ las' = MakeLas(MakeLas(las, b + a, siz[b] - a), b, a)
    /\ use' = [use EXCEPT ![b + a] = 0]
    /\ fre' = fre \union {<<Select(siz[b] - a), b + a>>}
    /\ UNCHANGED <<hat, held>>

Next ==
    \/ \E len \in Lens : Grab(len)
    \/ \E b \in box : Gain(b) \/ Lose(b)
    \/ \E b \in box, a \in Addr : Mint(b, a)

Spec == Init /\ [][Next]_vars

-----------------------------------------------------------------------------

\* Every variable keeps its type.
RailTypeOK ==
    /\ hat \in 0 .. (Top - 1) /\ box \subseteq Addr
    /\ siz \in [Addr -> Nat] /\ use \in [Addr -> Nat] /\ las \in [Addr -> Nat]
    /\ fre \subseteq (0 .. LastList) \X Addr
    /\ held \in [Addr -> Nat] /\ want \in [Addr -> Nat]

\* The boxes tile the durable region: the first begins at its bottom, each ends
\* where the next begins or at the hat, and none begins inside another, after
\* any sequence of cutting and joining.  So no two boxes share a word.
Tiled ==
    /\ box # {} => 0 \in box
    /\ box = {} => hat = 0
    /\ \A b \in box :
        /\ siz[b] >= 5 /\ b + siz[b] <= hat
        /\ b + siz[b] = hat \/ b + siz[b] \in box
        /\ \A c \in box : c <= b \/ b + siz[b] <= c

\* What _rl_bloq_free finds before a box is the previous box: the last word of
\* every box holds the size in its first.
TagsAgree == \A b \in box : las[b + siz[b]] = siz[b]

\* The free lists hold every free box, once, on the list of its size, and
\* nothing else: no list reaches a box in use, or one that was joined away.
FreeListed == fre = {<<Select(siz[b]), b>> : b \in {c \in box : use[c] = 0}}

\* A box that callers hold stays where it is, with the words they count on, until
\* they lost every reference to it, whatever is allocated, freed and minted around
\* it; and as the counts are those of the holders (or stuck), no box is handed out
\* a second time while it is held, and none is free with a holder.
HeldStays ==
    /\ \A a \in Addr : held[a] > 0 => a \in box /\ want[a] <= siz[a]
    /\ \A b \in box : use[b] \in {held[b], Sticky}
=============================================================================

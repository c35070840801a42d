----------------------------- MODULE RailProofs -----------------------------
(***************************************************************************)
(* Proofs about the allocator of noun memory, for every size of the region *)
(* and all lengths asked for: boxes tile the region, their tags agree, the *)
(* free lists hold the free boxes, and a box that is held stays.           *)
(*                                                                         *)
(* _rl_bloq_free joins a box with both neighbours at once.  The lemmas on   *)
(* geometry are about any region, not the one the variables describe, so   *)
(* that a step can be taken apart into joins of two boxes.                 *)
(***************************************************************************)
EXTENDS Rail, FiniteSetTheorems, TLAPS

\* A region up to h, tiled by the boxes B, with sizes z and last words l.
Geometry(h, z, l, B) ==
    /\ h \in 0 .. (Top - 1) /\ B \subseteq Addr
    /\ z \in [Addr -> Nat] /\ l \in [Addr -> Nat]
    /\ B = {} => h = 0
    /\ B # {} => 0 \in B /\ \E c \in B : c + z[c] = h
    /\ \A b \in B :
        /\ z[b] >= 5 /\ b + z[b] <= h
        /\ b + z[b] = h \/ b + z[b] \in B
        /\ \A c \in B : c <= b \/ b + z[b] <= c
        /\ b = 0 \/ \E c \in B : c + z[c] = b
        /\ l[b + z[b]] = z[b]

\* The inductive invariant.
RailInv ==
    /\ Geometry(hat, siz, las, box)
    /\ use \in [Addr -> Nat]
    /\ FreeListed
    /\ held \in [Addr -> Nat] /\ want \in [Addr -> Nat]
    /\ HeldStays

-----------------------------------------------------------------------------

\* Addresses of boxes and of their ends.
LEMMA Ends ==
    ASSUME NEW h, NEW z, NEW l, NEW B, Geometry(h, z, l, B), NEW b \in B
    PROVE  /\ b \in Nat /\ z[b] \in Nat /\ z[b] >= 5 /\ b \in Addr
           /\ h \in Nat /\ h < Top /\ b + z[b] <= h
           /\ b + z[b] \in Addr /\ b < b + z[b]
<1>1. h \in 0 .. (Top - 1) /\ b \in Addr /\ z \in [Addr -> Nat]
  BY DEF Geometry
<1>2. z[b] >= 5 /\ b + z[b] <= h
  BY DEF Geometry
<1>3. z[b] \in Nat
  BY <1>1
<1> HIDE DEF Geometry
<1> QED BY <1>1, <1>2, <1>3, RailAssumption DEF Addr

\* Cutting the box at b after s words, as _rl_bloq_grab and u2_rl_mint do.
LEMMA CutGeometry ==
    ASSUME NEW h, NEW z, NEW l, NEW B, Geometry(h, z, l, B), NEW b \in B,
           NEW s \in Nat, s >= 5, s + 5 <= z[b]
    PROVE  /\ b + s \notin B /\ b + s \in Addr
           /\ Geometry(h, MakeSiz(MakeSiz(z, b + s, z[b] - s), b, s),
                       MakeLas(MakeLas(l, b + s, z[b] - s), b, s), B \union {b + s})
<1> DEFINE z2 == MakeSiz(MakeSiz(z, b + s, z[b] - s), b, s)
           l2 == MakeLas(MakeLas(l, b + s, z[b] - s), b, s)
           e == b + z[b]
           B2 == B \union {b + s}
<1>1. /\ b \in Nat /\ z[b] \in Nat /\ e \in Addr /\ e \in Nat /\ e <= h /\ h \in Nat
      /\ h < Top /\ b \in Addr
  BY Ends DEF Addr
<1>2. b + s \in Addr /\ z[b] - s \in Nat /\ z[b] - s >= 5 /\ b + s + (z[b] - s) = e
  BY <1>1, RailAssumption DEF Addr
<1>3. b + s \notin B
  BY <1>1, <1>2 DEF Geometry
<1>4. z \in [Addr -> Nat] /\ l \in [Addr -> Nat]
  BY DEF Geometry
<1>5. /\ z2 \in [Addr -> Nat] /\ z2[b] = s /\ z2[b + s] = z[b] - s
      /\ \A x \in Addr : x # b /\ x # b + s => z2[x] = z[x]
  BY <1>1, <1>2, <1>4 DEF MakeSiz
<1>6. /\ l2 \in [Addr -> Nat] /\ l2[b + s] = s /\ l2[e] = z[b] - s
      /\ \A x \in Addr : x # e /\ x # b + s => l2[x] = l[x]
  BY <1>1, <1>2, <1>4 DEF MakeLas
<1> HIDE DEF z2, l2
<1>7. \A c \in B : c # b => /\ c \in Nat /\ z[c] \in Nat /\ c + z[c] \in Addr
                            /\ z2[c] = z[c] /\ c + z[c] # b + s /\ c + z[c] # e
  <2> SUFFICES ASSUME NEW c \in B, c # b
               PROVE  /\ c \in Nat /\ z[c] \in Nat /\ c + z[c] \in Addr
                      /\ z2[c] = z[c] /\ c + z[c] # b + s /\ c + z[c] # e
    OBVIOUS
  <2>1. c \in Nat /\ z[c] \in Nat /\ c + z[c] \in Addr /\ c \in Addr /\ z[c] >= 5
    BY Ends
  <2>2. (c <= b \/ e <= c) /\ (b <= c \/ c + z[c] <= b)
    BY DEF Geometry
  <2>3. z2[c] = z[c]
    BY <1>3, <1>5, <2>1
  <2> QED BY <1>1, <1>2, <2>1, <2>2, <2>3
<1>8. B2 \subseteq Addr /\ B2 # {} /\ 0 \in B2
  BY <1>2 DEF Geometry
<1>9. \E c \in B2 : c + z2[c] = h
  <2>1. PICK c \in B : c + z[c] = h
    BY DEF Geometry
  <2>2. CASE c = b
    BY <2>1, <2>2, <1>1, <1>2, <1>5
  <2>3. CASE c # b
    BY <2>1, <2>3, <1>7
  <2> QED BY <2>2, <2>3
<1>10. ASSUME NEW x \in B2
       PROVE  /\ z2[x] >= 5 /\ x + z2[x] <= h
              /\ x + z2[x] = h \/ x + z2[x] \in B2
              /\ \A c \in B2 : c <= x \/ x + z2[x] <= c
              /\ x = 0 \/ \E c \in B2 : c + z2[c] = x
              /\ l2[x + z2[x]] = z2[x]
  <2>1. CASE x = b
    <3>1. \A c \in B : c <= b \/ b + s <= c
      BY <1>1, <1>2, <1>7 DEF Geometry
    <3>2. b = 0 \/ \E c \in B2 : c + z2[c] = b
      <4>1. CASE b # 0
        <5>1. PICK c \in B : c + z[c] = b
          BY <4>1 DEF Geometry
        <5>2. c # b
          BY <5>1, Ends
        <5> QED BY <5>1, <5>2, <1>7
      <4> QED BY <4>1
    <3> QED BY <2>1, <3>1, <3>2, <1>1, <1>2, <1>5, <1>6
  <2>2. CASE x = b + s
    <3>1. e = h \/ e \in B
      BY DEF Geometry
    <3>2. \A c \in B2 : c <= b + s \/ e <= c
      BY <1>1, <1>2, <1>7 DEF Geometry
    <3> QED BY <2>2, <3>1, <3>2, <1>1, <1>2, <1>5, <1>6
  <2>3. CASE x \in B /\ x # b
    <3>1. /\ x \in Nat /\ z[x] \in Nat /\ z2[x] = z[x] /\ x + z[x] \in Addr
          /\ x + z[x] # b + s /\ x + z[x] # e
      BY <2>3, <1>7
    <3>2. z[x] >= 5 /\ x + z[x] <= h /\ (x + z[x] = h \/ x + z[x] \in B)
          /\ l[x + z[x]] = z[x]
      BY <2>3 DEF Geometry
    <3>3. \A c \in B : c <= x \/ x + z[x] <= c
      BY <2>3 DEF Geometry
    <3>4. b + s <= x \/ x + z[x] <= b + s
      <4>1. x <= b \/ e <= x
        BY <2>3 DEF Geometry
      <4>2. b <= x \/ x + z[x] <= b
        BY <3>3
      <4> QED BY <4>1, <4>2, <2>3, <3>1, <1>1, <1>2
    <3>5. x = 0 \/ \E c \in B2 : c + z2[c] = x
      <4>1. CASE x # 0
        <5>1. PICK c \in B : c + z[c] = x
          BY <4>1, <2>3 DEF Geometry
        <5>2. CASE c = b
          BY <5>1, <5>2, <1>1, <1>2, <1>5
        <5>3. CASE c # b
          BY <5>1, <5>3, <1>7
        <5> QED BY <5>2, <5>3
      <4> QED BY <4>1
    <3>6. \A c \in B2 : c <= x \/ x + z[x] <= c
      BY <3>1, <3>3, <3>4, <1>1, <1>2
    <3> QED BY <3>1, <3>2, <3>5, <3>6, <1>6
  <2> QED BY <2>1, <2>2, <2>3
<1>11. h \in 0 .. (Top - 1)
  BY DEF Geometry
<1>12. Geometry(h, z2, l2, B2)
  BY <1>5, <1>6, <1>8, <1>9, <1>10, <1>11 DEF Geometry
<1> QED BY <1>2, <1>3, <1>12 DEF z2, l2

\* Joining the box at c with the one at d behind it.  z2 and l2 are any sizes and
\* last words that say so and leave those of the other boxes.
LEMMA JoinGeometry ==
    ASSUME NEW h, NEW z, NEW l, NEW B, Geometry(h, z, l, B), NEW c \in B, NEW d \in B,
           c + z[c] = d,
           NEW z2 \in [Addr -> Nat], NEW l2 \in [Addr -> Nat],
           z2[c] = z[c] + z[d], \A x \in B : x # c /\ x # d => z2[x] = z[x],
           l2[d + z[d]] = z[c] + z[d],
           \A x \in Addr : x # d /\ x # d + z[d] => l2[x] = l[x]
    PROVE  Geometry(h, z2, l2, B \ {d})
<1> DEFINE e == d + z[d]
           B2 == B \ {d}
<1>1. /\ c \in Nat /\ z[c] \in Nat /\ d \in Nat /\ z[d] \in Nat /\ e \in Addr /\ e <= h
      /\ z[c] >= 5 /\ z[d] >= 5 /\ h \in Nat /\ e \in Nat
  BY Ends DEF Addr
<1>2. c # d /\ c \in B2 /\ c + z2[c] = e /\ d # 0
  BY <1>1
<1>3. \A x \in B : x # c /\ x # d =>
        /\ x \in Nat /\ z[x] \in Nat /\ z2[x] = z[x] /\ x + z[x] \in Addr
        /\ x + z[x] # d /\ x + z[x] # e
  <2> SUFFICES ASSUME NEW x \in B, x # c, x # d
               PROVE  /\ x \in Nat /\ z[x] \in Nat /\ z2[x] = z[x] /\ x + z[x] \in Addr
                      /\ x + z[x] # d /\ x + z[x] # e
    OBVIOUS
  <2>1. x \in Nat /\ z[x] \in Nat /\ x + z[x] \in Addr /\ z[x] >= 5
    BY Ends
  <2>2. /\ x <= c \/ d <= x
        /\ c <= x \/ x + z[x] <= c
        /\ x <= d \/ e <= x
        /\ d <= x \/ x + z[x] <= d
    BY DEF Geometry
  <2> QED BY <1>1, <2>1, <2>2
<1>4. B2 \subseteq Addr /\ B2 # {} /\ 0 \in B2 /\ h \in 0 .. (Top - 1)
  BY <1>2 DEF Geometry
<1>5. \A x : (\E y \in B : y + z[y] = x) /\ x # d => \E y \in B2 : y + z2[y] = x
  <2> SUFFICES ASSUME NEW x, NEW y \in B, y + z[y] = x, x # d
               PROVE  \E w \in B2 : w + z2[w] = x
    OBVIOUS
  <2>1. CASE y = d
    BY <2>1, <1>2
  <2>2. CASE y # c /\ y # d
    BY <2>2, <1>3
  <2> QED BY <2>1, <2>2
<1>6. \E x \in B2 : x + z2[x] = h
  <2>1. \E y \in B : y + z[y] = h
    BY DEF Geometry
  <2>2. h # d
    BY <1>1
  <2> QED BY <2>1, <2>2, <1>5
<1>7. ASSUME NEW x \in B2
      PROVE  /\ z2[x] >= 5 /\ x + z2[x] <= h
             /\ x + z2[x] = h \/ x + z2[x] \in B2
             /\ \A y \in B2 : y <= x \/ x + z2[x] <= y
             /\ x = 0 \/ \E y \in B2 : y + z2[y] = x
             /\ l2[x + z2[x]] = z2[x]
  <2>1. x = 0 \/ \E y \in B2 : y + z2[y] = x
    <3>1. x = 0 \/ \E y \in B : y + z[y] = x
      BY DEF Geometry
    <3> QED BY <3>1, <1>5
  <2>2. CASE x = c
    <3>1. e = h \/ e \in B2
      <4>1. e = h \/ e \in B
        BY DEF Geometry
      <4> QED BY <4>1, <1>1
    <3>2. \A y \in B2 : y <= c \/ e <= y
      <4> SUFFICES ASSUME NEW y \in B2 PROVE y <= c \/ e <= y
        OBVIOUS
      <4>1. (y <= c \/ d <= y) /\ (y <= d \/ e <= y) /\ y # d
        BY DEF Geometry
      <4>2. y \in Nat
        BY Ends
      <4> QED BY <4>1, <4>2, <1>1
    <3> QED BY <2>1, <2>2, <3>1, <3>2, <1>1, <1>2
  <2>3. CASE x # c
    <3>1. /\ x \in Nat /\ z[x] \in Nat /\ z2[x] = z[x] /\ x + z[x] \in Addr
          /\ x + z[x] # d /\ x + z[x] # e
      BY <2>3, <1>3
    <3>2. z[x] >= 5 /\ x + z[x] <= h /\ (x + z[x] = h \/ x + z[x] \in B)
          /\ l[x + z[x]] = z[x]
      BY DEF Geometry
    <3>3. \A y \in B : y <= x \/ x + z[x] <= y
      BY DEF Geometry
    <3> QED BY <2>1, <3>1, <3>2, <3>3
  <2> QED BY <2>2, <2>3
<1> QED BY <1>4, <1>6, <1>7 DEF Geometry

\* Giving the last box, at c, back to the hat.
LEMMA DropGeometry ==
    ASSUME NEW h, NEW z, NEW l, NEW B, Geometry(h, z, l, B), NEW c \in B, c + z[c] = h,
           NEW z2 \in [Addr -> Nat], NEW l2 \in [Addr -> Nat],
           \A x \in B : x # c => z2[x] = z[x],
           \A x \in Addr : x # h => l2[x] = l[x]
    PROVE  Geometry(c, z2, l2, B \ {c})
<1> DEFINE B2 == B \ {c}
<1>1. /\ c \in Nat /\ z[c] \in Nat /\ z[c] >= 5 /\ h \in Nat /\ h < Top /\ Top \in Nat
  BY Ends, RailAssumption
<1>2. \A x \in B2 : /\ x \in Nat /\ z[x] \in Nat /\ z[x] >= 5 /\ z2[x] = z[x]
                    /\ x + z[x] <= c /\ x + z[x] \in Addr
  <2> SUFFICES ASSUME NEW x \in B2
               PROVE  /\ x \in Nat /\ z[x] \in Nat /\ z[x] >= 5 /\ z2[x] = z[x]
                      /\ x + z[x] <= c /\ x + z[x] \in Addr
    OBVIOUS
  <2>1. x \in Nat /\ z[x] \in Nat /\ z[x] >= 5 /\ x + z[x] <= h /\ x + z[x] \in Addr
    BY Ends
  <2>2. (x <= c \/ h <= x) /\ (c <= x \/ x + z[x] <= c)
    BY DEF Geometry
  <2> QED BY <1>1, <2>1, <2>2
<1>3. c \in 0 .. (Top - 1) /\ B2 \subseteq Addr
  BY <1>1 DEF Geometry
<1>4. c = 0 \/ \E y \in B2 : y + z2[y] = c
  <2>1. CASE c # 0
    <3>1. PICK y \in B : y + z[y] = c
      BY <2>1 DEF Geometry
    <3>2. y # c
      BY <3>1, <1>1
    <3> QED BY <3>1, <3>2, <1>2
  <2> QED BY <2>1
<1>5. B2 = {} => c = 0
  BY <1>4
<1>6. B2 # {} => 0 \in B2 /\ \E y \in B2 : y + z2[y] = c
  <2> SUFFICES ASSUME B2 # {} PROVE 0 \in B2 /\ \E y \in B2 : y + z2[y] = c
    OBVIOUS
  <2>1. PICK x \in B2 : TRUE
    OBVIOUS
  <2>2. c # 0
    BY <2>1, <1>1, <1>2
  <2> QED BY <2>2, <1>4 DEF Geometry
<1>7. ASSUME NEW x \in B2
      PROVE  /\ z2[x] >= 5 /\ x + z2[x] <= c
             /\ x + z2[x] = c \/ x + z2[x] \in B2
             /\ \A y \in B2 : y <= x \/ x + z2[x] <= y
             /\ x = 0 \/ \E y \in B2 : y + z2[y] = x
             /\ l2[x + z2[x]] = z2[x]
  <2>1. /\ x + z[x] = h \/ x + z[x] \in B
        /\ \A y \in B : y <= x \/ x + z[x] <= y
        /\ l[x + z[x]] = z[x]
    BY DEF Geometry
  <2>2. x = 0 \/ \E y \in B2 : y + z2[y] = x
    <3>1. CASE x # 0
      <4>1. PICK y \in B : y + z[y] = x
        BY <3>1 DEF Geometry
      <4>2. y # c
        BY <4>1, <1>1, <1>2
      <4> QED BY <4>1, <4>2, <1>2
    <3> QED BY <3>1
  <2> QED BY <2>1, <2>2, <1>1, <1>2
<1> QED BY <1>3, <1>5, <1>6, <1>7 DEF Geometry

\* A new box of s words at the hat.
LEMMA HatGeometry ==
    ASSUME NEW h, NEW z, NEW l, NEW B, Geometry(h, z, l, B), NEW s \in Nat, s >= 5,
           h + s < Top
    PROVE  /\ h \notin B
           /\ Geometry(h + s, MakeSiz(z, h, s), MakeLas(l, h, s), B \union {h})
<1> DEFINE z2 == MakeSiz(z, h, s)
           l2 == MakeLas(l, h, s)
           B2 == B \union {h}
<1>1. /\ h \in Nat /\ Top \in Nat /\ h \in Addr /\ h + s \in Addr
      /\ h + s \in 0 .. (Top - 1) /\ z \in [Addr -> Nat] /\ l \in [Addr -> Nat]
  BY RailAssumption DEF Geometry, Addr
<1>2. \A x \in B : x \in Nat /\ z[x] \in Nat /\ z[x] >= 5 /\ x + z[x] <= h
                   /\ x \in Addr /\ x + z[x] \in Addr
  BY Ends
<1>3. h \notin B
  BY <1>1, <1>2
<1>4. /\ z2 \in [Addr -> Nat] /\ z2[h] = s /\ \A x \in Addr : x # h => z2[x] = z[x]
      /\ l2 \in [Addr -> Nat] /\ l2[h + s] = s
      /\ \A x \in Addr : x # h + s => l2[x] = l[x]
  BY <1>1 DEF MakeSiz, MakeLas
<1> HIDE DEF z2, l2
<1>5. B2 \subseteq Addr /\ B2 # {} /\ 0 \in B2 /\ \E y \in B2 : y + z2[y] = h + s
  BY <1>1, <1>4 DEF Geometry
<1>6. ASSUME NEW x \in B2
      PROVE  /\ z2[x] >= 5 /\ x + z2[x] <= h + s
             /\ x + z2[x] = h + s \/ x + z2[x] \in B2
             /\ \A y \in B2 : y <= x \/ x + z2[x] <= y
             /\ x = 0 \/ \E y \in B2 : y + z2[y] = x
             /\ l2[x + z2[x]] = z2[x]
  <2>1. \A w : (\E y \in B : y + z[y] = w) => \E y \in B2 : y + z2[y] = w
    BY <1>2, <1>3, <1>4
  <2>2. CASE x = h
    <3>1. h = 0 \/ \E y \in B : y + z[y] = h
      BY DEF Geometry
    <3> QED BY <2>1, <2>2, <3>1, <1>1, <1>2, <1>4
  <2>3. CASE x \in B
    <3>1. /\ x + z[x] = h \/ x + z[x] \in B
          /\ \A y \in B : y <= x \/ x + z[x] <= y
          /\ l[x + z[x]] = z[x]
          /\ x = 0 \/ \E y \in B : y + z[y] = x
      BY <2>3 DEF Geometry
    <3>2. /\ x \in Nat /\ z[x] \in Nat /\ z[x] >= 5 /\ x + z[x] <= h /\ z2[x] = z[x]
          /\ x + z[x] \in Addr /\ x + z[x] # h + s
      BY <2>3, <1>1, <1>2, <1>3, <1>4
    <3> QED BY <2>1, <3>1, <3>2, <1>1, <1>4
  <2> QED BY <2>2, <2>3
<1>7. Geometry(h + s, z2, l2, B2)
  BY <1>1, <1>4, <1>5, <1>6 DEF Geometry
<1> QED BY <1>3, <1>7 DEF z2, l2

-----------------------------------------------------------------------------

\* Nobody holds a free box, or an address where no box begins.
LEMMA Unheld ==
    ASSUME RailInv, NEW a \in Addr, a \in box => use[a] = 0
    PROVE  held[a] = 0
BY RailAssumption DEF RailInv, HeldStays

\* FreeListed, of a pair.
LEMMA ListedIs ==
    ASSUME RailInv, NEW i, NEW b
    PROVE  <<i, b>> \in fre <=> b \in box /\ use[b] = 0 /\ i = Select(siz[b])
BY DEF RailInv, FreeListed

\* To show FreeListed after a step: every entry is of a free box, and every free
\* box has its entry.
LEMMA ListedNext ==
    ASSUME \A p \in fre' : \E b \in box' : use'[b] = 0 /\ p = <<Select(siz'[b]), b>>,
           \A b \in box' : use'[b] = 0 => <<Select(siz'[b]), b>> \in fre'
    PROVE  FreeListed'
BY DEF FreeListed

\* _rl_bloq_grab from a free list.
LEMMA TakeStep ==
    ASSUME RailInv, NEW i, NEW b \in box, NEW s \in Nat, s >= 6,
           <<i, b>> \in fre, siz[b] >= s, Take(i, b, s)
    PROVE  RailInv'
<1>1. /\ Geometry(hat, siz, las, box) /\ use \in [Addr -> Nat]
      /\ use[b] = 0 /\ i = Select(siz[b]) /\ siz \in [Addr -> Nat] /\ box \subseteq Addr
  BY ListedIs DEF RailInv, Geometry
<1>2. b \in Nat /\ siz[b] \in Nat /\ b \in Addr
  BY <1>1, Ends
<1>3. /\ held' \in [Addr -> Nat] /\ want' \in [Addr -> Nat]
      /\ held'[b] = 1 /\ want'[b] = s
      /\ \A x \in Addr : x # b => held'[x] = held[x] /\ want'[x] = want[x]
  BY <1>1, <1>2, Unheld DEF RailInv, Take, Hand
<1>4. CASE Cut(b, s)
  <2>1. s >= 5 /\ s + 5 <= siz[b] /\ siz[b] - s \in Nat
    BY <1>2, <1>4 DEF Cut
  <2>2. /\ box' = box \union {b + s}
        /\ siz' = MakeSiz(MakeSiz(siz, b + s, siz[b] - s), b, s)
        /\ las' = MakeLas(MakeLas(las, b + s, siz[b] - s), b, s)
        /\ use' = [use EXCEPT ![b + s] = 0, ![b] = 1]
        /\ fre' = (fre \ {<<i, b>>}) \union {<<Select(siz[b] - s), b + s>>}
        /\ hat' = hat
    BY <1>4 DEF Take
  <2>3. b + s \notin box /\ b + s \in Addr /\ Geometry(hat', siz', las', box')
    BY <1>1, <2>1, <2>2, CutGeometry
  <2>4. /\ use' \in [Addr -> Nat] /\ use'[b + s] = 0 /\ use'[b] = 1
        /\ siz'[b + s] = siz[b] - s /\ siz'[b] = s
        /\ \A x \in box : x # b => use'[x] = use[x] /\ siz'[x] = siz[x]
    <3>1. b # b + s
      BY <1>2
    <3> QED BY <3>1, <1>1, <1>2, <2>1, <2>2, <2>3 DEF MakeSiz
  <2>5. FreeListed'
    <3>1. ASSUME NEW p \in fre'
          PROVE  \E x \in box' : use'[x] = 0 /\ p = <<Select(siz'[x]), x>>
      <4>1. CASE p = <<Select(siz[b] - s), b + s>>
        BY <4>1, <2>2, <2>4
      <4>2. CASE p \in fre /\ p # <<i, b>>
        <5>1. PICK x \in box : use[x] = 0 /\ p = <<Select(siz[x]), x>>
          BY <4>2 DEF RailInv, FreeListed
        <5>2. x # b
          BY <4>2, <5>1, <1>1
        <5> QED BY <5>1, <5>2, <2>2, <2>4
      <4> QED BY <4>1, <4>2, <2>2
    <3>2. ASSUME NEW x \in box', use'[x] = 0 PROVE <<Select(siz'[x]), x>> \in fre'
      <4>1. CASE x = b + s
        BY <4>1, <2>2, <2>4
      <4>2. CASE x \in box
        <5>1. x # b
          BY <3>2, <2>4
        <5>2. <<Select(siz[x]), x>> \in fre
          BY <3>2, <4>2, <5>1, <2>4, ListedIs
        <5> QED BY <5>1, <5>2, <4>2, <2>2, <2>4
      <4> QED BY <4>1, <4>2, <2>2
    <3> QED BY <3>1, <3>2, ListedNext
  <2>6. HeldStays'
    <3>1. held'[b] = 1 /\ want'[b] = s /\ held'[b + s] = 0
      BY <1>2, <1>3, <2>3, <2>4, Unheld
    <3>2. \A x \in box : x # b => use[x] \in {held[x], Sticky}
      BY DEF RailInv, HeldStays
    <3>3. \A x \in Addr : held[x] > 0 => x \in box /\ want[x] <= siz[x]
      BY DEF RailInv, HeldStays
    <3>4. \A x \in Addr : held'[x] > 0 => x \in box' /\ want'[x] <= siz'[x]
      BY <3>1, <3>3, <1>3, <2>2, <2>4
    <3>5. \A x \in box' : use'[x] \in {held'[x], Sticky}
      BY <3>1, <3>2, <1>1, <1>3, <2>2, <2>4
    <3> QED BY <3>4, <3>5 DEF HeldStays
  <2> QED BY <1>3, <2>3, <2>4, <2>5, <2>6 DEF RailInv
<1>5. CASE ~ Cut(b, s)
  <2>1. /\ use' = [use EXCEPT ![b] = 1] /\ fre' = fre \ {<<i, b>>}
        /\ UNCHANGED <<hat, siz, las, box>>
    BY <1>5 DEF Take
  <2>2. /\ use' \in [Addr -> Nat] /\ use'[b] = 1
        /\ \A x \in box : x # b => use'[x] = use[x]
    BY <1>1, <1>2, <2>1
  <2>3. FreeListed'
    BY <1>1, <2>1, <2>2, ListedIs DEF FreeListed, RailInv
  <2>4. HeldStays'
    <3>1. \A x \in box : x # b => use[x] \in {held[x], Sticky}
      BY DEF RailInv, HeldStays
    <3>2. \A x \in Addr : held[x] > 0 => x \in box /\ want[x] <= siz[x]
      BY DEF RailInv, HeldStays
    <3> QED BY <3>1, <3>2, <1>1, <1>2, <1>3, <2>1, <2>2 DEF HeldStays
  <2> QED BY <1>1, <1>3, <2>1, <2>2, <2>3, <2>4 DEF RailInv
<1> QED BY <1>4, <1>5

\* _rl_bloq_grab from the hat.
LEMMA TakeHatStep ==
    ASSUME RailInv, NEW s \in Nat, s >= 6, TakeHat(s)
    PROVE  RailInv'
<1>1. /\ Geometry(hat, siz, las, box) /\ use \in [Addr -> Nat]
      /\ siz \in [Addr -> Nat] /\ box \subseteq Addr /\ hat \in Addr /\ s >= 5
  <2>1. hat \in 0 .. (Top - 1)
    BY DEF RailInv, Geometry
  <2>2. hat \in Addr /\ s >= 5
    BY <2>1, RailAssumption DEF Addr
  <2> QED BY <2>2 DEF RailInv, Geometry
<1>2. /\ hat' = hat + s /\ box' = box \union {hat} /\ siz' = MakeSiz(siz, hat, s)
      /\ las' = MakeLas(las, hat, s) /\ use' = [use EXCEPT ![hat] = 1] /\ fre' = fre
      /\ hat + s < Top
  BY DEF TakeHat, Open
<1>3. hat \notin box /\ Geometry(hat', siz', las', box')
  BY <1>1, <1>2, HatGeometry
<1>4. /\ use' \in [Addr -> Nat] /\ use'[hat] = 1
      /\ \A x \in box : x # hat /\ use'[x] = use[x] /\ siz'[x] = siz[x]
  BY <1>1, <1>2, <1>3 DEF MakeSiz
<1>5. FreeListed'
  <2>1. ASSUME NEW p \in fre'
        PROVE  \E x \in box' : use'[x] = 0 /\ p = <<Select(siz'[x]), x>>
    <3>1. PICK x \in box : use[x] = 0 /\ p = <<Select(siz[x]), x>>
      BY <1>2 DEF RailInv, FreeListed
    <3> QED BY <3>1, <1>2, <1>4
  <2>2. ASSUME NEW x \in box', use'[x] = 0 PROVE <<Select(siz'[x]), x>> \in fre'
    BY <2>2, <1>2, <1>4, ListedIs
  <2> QED BY <2>1, <2>2, ListedNext
<1>6. /\ held' \in [Addr -> Nat] /\ want' \in [Addr -> Nat]
      /\ held'[hat] = 1 /\ want'[hat] = s
      /\ \A x \in Addr : x # hat => held'[x] = held[x] /\ want'[x] = want[x]
  BY <1>1, <1>3, Unheld DEF RailInv, TakeHat, Hand
<1>7. HeldStays'
  <2>1. \A x \in box : use[x] \in {held[x], Sticky}
    BY DEF RailInv, HeldStays
  <2>2. \A x \in Addr : held[x] > 0 => x \in box /\ want[x] <= siz[x]
    BY DEF RailInv, HeldStays
  <2>3. siz'[hat] = s
    BY <1>1, <1>2 DEF MakeSiz
  <2>4. \A x \in Addr : held'[x] > 0 => x \in box' /\ want'[x] <= siz'[x]
    BY <2>2, <2>3, <1>2, <1>4, <1>6
  <2>5. \A x \in box' : use'[x] \in {held'[x], Sticky}
    BY <2>1, <1>1, <1>2, <1>4, <1>6
  <2> QED BY <2>4, <2>5 DEF HeldStays
<1> QED BY <1>3, <1>4, <1>5, <1>6, <1>7 DEF RailInv

\* u2_rl_mint: the end of a slab becomes a free box.
LEMMA MintStep ==
    ASSUME RailInv, NEW b \in box, NEW a \in Addr, Mint(b, a)
    PROVE  RailInv'
<1>1. /\ Geometry(hat, siz, las, box) /\ use \in [Addr -> Nat]
      /\ siz \in [Addr -> Nat] /\ box \subseteq Addr
  BY DEF RailInv, Geometry
<1>2. b \in Nat /\ siz[b] \in Nat /\ b \in Addr /\ a \in Nat
  BY <1>1, Ends DEF Addr
<1>3. /\ use[b] = 1 /\ a >= 6 /\ a + 6 <= siz[b] /\ box' = box \union {b + a}
      /\ siz' = MakeSiz(MakeSiz(siz, b + a, siz[b] - a), b, a)
      /\ las' = MakeLas(MakeLas(las, b + a, siz[b] - a), b, a)
      /\ use' = [use EXCEPT ![b + a] = 0]
      /\ fre' = fre \union {<<Select(siz[b] - a), b + a>>} /\ hat' = hat
  BY DEF Mint
<1>4. a >= 5 /\ a + 5 <= siz[b] /\ siz[b] - a \in Nat
  BY <1>2, <1>3
<1>5. b + a \notin box /\ b + a \in Addr /\ Geometry(hat', siz', las', box')
  BY <1>1, <1>2, <1>3, <1>4, CutGeometry
<1>6. /\ use' \in [Addr -> Nat] /\ use'[b + a] = 0 /\ use'[b] = 1
      /\ siz'[b + a] = siz[b] - a /\ siz'[b] = a
      /\ \A x \in box : use'[x] = use[x] /\ (x # b => siz'[x] = siz[x])
  <2>1. b # b + a
    BY <1>2, <1>3
  <2> QED BY <2>1, <1>1, <1>2, <1>3, <1>4, <1>5 DEF MakeSiz
<1>7. FreeListed'
  <2>1. ASSUME NEW p \in fre'
        PROVE  \E x \in box' : use'[x] = 0 /\ p = <<Select(siz'[x]), x>>
    <3>1. CASE p = <<Select(siz[b] - a), b + a>>
      BY <3>1, <1>3, <1>6
    <3>2. CASE p \in fre
      <4>1. PICK x \in box : use[x] = 0 /\ p = <<Select(siz[x]), x>>
        BY <3>2 DEF RailInv, FreeListed
      <4>2. x # b
        BY <4>1, <1>3
      <4> QED BY <4>1, <4>2, <1>3, <1>6
    <3> QED BY <3>1, <3>2, <1>3
  <2>2. ASSUME NEW x \in box', use'[x] = 0 PROVE <<Select(siz'[x]), x>> \in fre'
    <3>1. CASE x = b + a
      BY <3>1, <1>3, <1>6
    <3>2. CASE x \in box
      <4>1. x # b
        BY <2>2, <1>6
      <4>2. <<Select(siz[x]), x>> \in fre
        BY <2>2, <3>2, <1>6, ListedIs
      <4> QED BY <3>2, <4>1, <4>2, <1>3, <1>6
    <3> QED BY <3>1, <3>2, <1>3
  <2> QED BY <2>1, <2>2, ListedNext
<1>8. /\ held' = held /\ want' \in [Addr -> Nat] /\ want'[b] = a
      /\ \A x \in Addr : x # b => want'[x] = want[x]
  BY <1>2 DEF RailInv, Mint
<1>9. HeldStays'
  <2>1. held[b + a] = 0
    BY <1>5, Unheld
  <2>2. \A x \in box : use[x] \in {held[x], Sticky}
    BY DEF RailInv, HeldStays
  <2>3. \A x \in Addr : held[x] > 0 => x \in box /\ want[x] <= siz[x]
    BY DEF RailInv, HeldStays
  <2>4. \A x \in Addr : held'[x] > 0 => x \in box' /\ want'[x] <= siz'[x]
    BY <2>3, <1>2, <1>3, <1>6, <1>8
  <2>5. \A x \in box' : use'[x] \in {held'[x], Sticky}
    BY <2>1, <2>2, <1>3, <1>6, <1>8
  <2> QED BY <2>4, <2>5 DEF HeldStays
<1>10. held' \in [Addr -> Nat]
  BY <1>8 DEF RailInv
<1> QED BY <1>5, <1>6, <1>7, <1>8, <1>9, <1>10 DEF RailInv

\* Gain and loss change a count that is not 0 into another one.
LEMMA CountStep ==
    ASSUME RailInv, NEW b \in box, use[b] # 0, use' \in [Addr -> Nat],
           \A x \in Addr : x # b => use'[x] = use[x], use'[b] # 0,
           held' \in [Addr -> Nat], \A x \in Addr : x # b => held'[x] = held[x],
           use'[b] \in {held'[b], Sticky},
           held[b] > 0, UNCHANGED <<hat, siz, las, fre, box, want>>
    PROVE  RailInv'
<1>1. box \subseteq Addr /\ siz \in [Addr -> Nat] /\ use \in [Addr -> Nat]
  BY DEF RailInv, Geometry
<1>2. \A x \in box : /\ use'[x] = 0 <=> use[x] = 0
                    /\ siz[x] \in Nat /\ use[x] \in Nat /\ use'[x] \in Nat
  BY <1>1
<1>3. FreeListed'
  BY <1>2 DEF RailInv, FreeListed
<1>4. HeldStays'
  <2>1. \A x \in box : use[x] \in {held[x], Sticky}
    BY DEF RailInv, HeldStays
  <2>2. \A x \in Addr : held[x] > 0 => x \in box /\ want[x] <= siz[x]
    BY DEF RailInv, HeldStays
  <2>3. b \in Addr /\ want[b] <= siz[b]
    BY <1>1, <2>2
  <2>4. \A x \in Addr : held'[x] > 0 => x \in box /\ want[x] <= siz[x]
    BY <2>2, <2>3
  <2> QED BY <2>1, <2>4, <1>1 DEF HeldStays
<1>5. want' \in [Addr -> Nat]
  BY DEF RailInv
<1> QED BY <1>3, <1>4, <1>5 DEF RailInv

\* Where the box at b begins when it has joined the free box before it, and the
\* region then.
LEMMA FreeFromIs ==
    ASSUME RailInv, NEW b \in box, use[b] = 1
    PROVE  LET lo == FreeFrom(b)
               end == b + siz[b]
           IN  /\ lo \in box /\ lo \in Nat /\ lo <= b /\ end - lo \in Nat
               /\ lo # b => use[lo] = 0 /\ lo + siz[lo] = b
               /\ Geometry(hat, MakeSiz(siz, lo, end - lo), MakeLas(las, lo, end - lo),
                           (box \ {b}) \union {lo})
<1> DEFINE lo == FreeFrom(b)
           end == b + siz[b]
           z == MakeSiz(siz, lo, end - lo)
           l == MakeLas(las, lo, end - lo)
<1>1. /\ Geometry(hat, siz, las, box) /\ siz \in [Addr -> Nat] /\ las \in [Addr -> Nat]
      /\ las[end] = siz[b]
  BY DEF RailInv, Geometry
<1>2. b \in Nat /\ siz[b] \in Nat /\ b \in Addr /\ end \in Addr
  BY <1>1, Ends
<1>3. CASE lo = b
  <2>1. end - lo = siz[b]
    BY <1>2, <1>3
  <2>2. z = siz /\ l = las
    BY <1>1, <1>2, <1>3, <2>1 DEF MakeSiz, MakeLas
  <2>3. (box \ {b}) \union {lo} = box
    BY <1>3
  <2> QED BY <1>1, <1>2, <1>3, <2>1, <2>2, <2>3
<1>4. CASE lo # b
  <2>1. b # 0 /\ lo = b - las[b] /\ use[lo] = 0
    BY <1>4 DEF FreeFrom
  <2>2. PICK c \in box : c + siz[c] = b
    BY <1>1, <2>1 DEF Geometry
  <2>3. c \in Nat /\ siz[c] \in Nat /\ c \in Addr /\ las[b] = siz[c]
    <3>1. las[c + siz[c]] = siz[c]
      BY <1>1 DEF Geometry
    <3> QED BY <1>1, <2>2, <3>1, Ends
  <2>4. lo = c
    BY <2>1, <2>2, <2>3
  <2> HIDE DEF lo
  <2>5. lo <= b /\ end - lo = siz[c] + siz[b] /\ end - lo \in Nat /\ lo + (end - lo) = end
    BY <1>2, <2>2, <2>3, <2>4
  <2>6. /\ z \in [Addr -> Nat] /\ z[c] = siz[c] + siz[b]
        /\ \A x \in Addr : x # c => z[x] = siz[x]
    BY <1>1, <1>2, <2>3, <2>4, <2>5 DEF MakeSiz
  <2>7. /\ l \in [Addr -> Nat] /\ l[end] = siz[c] + siz[b]
        /\ \A x \in Addr : x # end => l[x] = las[x]
    BY <1>1, <1>2, <2>5 DEF MakeLas
  <2> HIDE DEF z, l
  <2>8. \A x \in box : x # c /\ x # b => z[x] = siz[x]
    BY <1>1, <2>6 DEF Geometry
  <2>9. Geometry(hat, z, l, box \ {b})
    BY <1>1, <2>2, <2>6, <2>7, <2>8, JoinGeometry
  <2>10. (box \ {b}) \union {lo} = box \ {b}
    BY <1>4, <2>4
  <2> QED BY <2>1, <2>2, <2>3, <2>4, <2>5, <2>9, <2>10 DEF z, l, lo
<1> QED BY <1>3, <1>4

\* _rl_bloq_free, of a box that loses its last reference.
LEMMA BloqFreeStep ==
    ASSUME RailInv, NEW b \in box, use[b] = 1, BloqFree(b),
           held' = [held EXCEPT ![b] = @ - 1], want' = want
    PROVE  RailInv'
<1> DEFINE end == b + siz[b]
           lo == FreeFrom(b)
           hi == FreeTo(b)
           joined == ({lo} \ {b}) \union (IF hi = end THEN {} ELSE {end})
           z == MakeSiz(siz, lo, end - lo)
           l == MakeLas(las, lo, end - lo)
           B == (box \ {b}) \union {lo}
<1>1. /\ Geometry(hat, siz, las, box) /\ siz \in [Addr -> Nat] /\ las \in [Addr -> Nat]
      /\ use \in [Addr -> Nat] /\ box \subseteq Addr
  BY DEF RailInv, Geometry
<1>2. /\ b \in Nat /\ siz[b] \in Nat /\ b \in Addr /\ end \in Addr /\ b < end
      /\ end = hat \/ end \in box
  <2>1. end = hat \/ end \in box
    BY <1>1 DEF Geometry
  <2> QED BY <1>1, <2>1, Ends
<1>3. /\ lo \in box /\ lo \in Nat /\ lo <= b /\ end - lo \in Nat /\ lo \in Addr
      /\ lo # b => use[lo] = 0 /\ lo + siz[lo] = b
      /\ Geometry(hat, z, l, B)
  BY <1>1, FreeFromIs
<1>4. /\ end = hat => hi = end
      /\ hi # end => use[end] = 0 /\ hi = end + siz[end] /\ end # hat
      /\ hi = end /\ end # hat => use[end] # 0 \/ siz[end] = 0
  BY <1>1, <1>2 DEF FreeTo
<1>5. /\ use' = [use EXCEPT ![b] = 0]
      /\ siz' = MakeSiz(siz, lo, hi - lo) /\ las' = MakeLas(las, lo, hi - lo)
      /\ end = hat => /\ hat' = lo /\ box' = box \ {lo, b}
                      /\ fre' = fre \ {<<Select(siz[x]), x>> : x \in joined}
      /\ end # hat => /\ box' = (box \ ({b} \union joined)) \union {lo} /\ hat' = hat
                      /\ fre' = (fre \ {<<Select(siz[x]), x>> : x \in joined})
                                \union {<<Select(hi - lo), lo>>}
  BY DEF BloqFree, Detach
<1> HIDE DEF lo, hi
<1>6. z \in [Addr -> Nat] /\ z[lo] = end - lo /\ lo + (end - lo) = end
      /\ \A x \in Addr : x # lo => z[x] = siz[x]
  BY <1>1, <1>2, <1>3 DEF MakeSiz
<1>7. l \in [Addr -> Nat] /\ \A x \in Addr : x # end => l[x] = las[x]
  BY <1>1, <1>2, <1>3, <1>6 DEF MakeLas
<1> HIDE DEF z, l
<1>8. hi \in Addr /\ hi - lo \in Nat /\ lo + (hi - lo) = hi /\ hi \in Nat
  <2>1. CASE hi = end
    BY <2>1, <1>2, <1>3, <1>6 DEF Addr
  <2>2. CASE hi # end
    <3>1. end \in box /\ hi = end + siz[end]
      BY <2>2, <1>2, <1>4
    <3>2. siz[end] \in Nat /\ end + siz[end] \in Addr
      BY <3>1, <1>1, Ends
    <3> QED BY <3>1, <3>2, <1>2, <1>3 DEF Addr
  <2> QED BY <2>1, <2>2
<1>9. /\ siz' \in [Addr -> Nat] /\ siz'[lo] = hi - lo
      /\ \A x \in Addr : x # lo => siz'[x] = siz[x]
      /\ las' \in [Addr -> Nat] /\ las'[hi] = hi - lo
      /\ \A x \in Addr : x # hi => las'[x] = las[x]
      /\ use' \in [Addr -> Nat] /\ use'[b] = 0
      /\ \A x \in Addr : x # b => use'[x] = use[x]
  BY <1>1, <1>2, <1>3, <1>5, <1>8 DEF MakeSiz, MakeLas
<1>10. Geometry(hat', siz', las', box')
  <2>1. CASE end = hat
    <3>1. lo \in B /\ lo + z[lo] = hat /\ hi = hat
      BY <2>1, <1>4, <1>6
    <3>2. \A x \in B : x # lo => siz'[x] = z[x]
      BY <1>1, <1>3, <1>6, <1>9
    <3>3. \A x \in Addr : x # hat => las'[x] = l[x]
      BY <2>1, <3>1, <1>7, <1>9
    <3>4. Geometry(lo, siz', las', B \ {lo})
      <4> HIDE DEF B
      <4>1. siz' \in [Addr -> Nat] /\ las' \in [Addr -> Nat] /\ Geometry(hat, z, l, B)
        BY <1>3, <1>9
      <4> QED BY <3>1, <3>2, <3>3, <4>1, DropGeometry
    <3>5. B \ {lo} = box'
      BY <2>1, <1>5
    <3> QED BY <2>1, <3>4, <3>5, <1>5
  <2>2. CASE end # hat /\ hi = end
    <3>1. siz' = z /\ las' = l
      BY <2>2, <1>5 DEF z, l
    <3>2. box' = B
      BY <2>2, <1>3, <1>5
    <3> QED BY <2>2, <3>1, <3>2, <1>3, <1>5
  <2>3. CASE hi # end
    <3>1. end # hat /\ end \in B /\ lo \in B /\ lo + z[lo] = end /\ hi = end + siz[end]
      BY <2>3, <1>2, <1>4, <1>6
    <3>2. z[end] = siz[end] /\ end # lo /\ siz[end] \in Nat
      BY <1>1, <1>2, <1>3, <1>6
    <3>3. siz'[lo] = z[lo] + z[end]
      BY <3>1, <3>2, <1>2, <1>3, <1>6, <1>9
    <3>4. \A x \in B : x # lo /\ x # end => siz'[x] = z[x]
      BY <1>1, <1>3, <1>6, <1>9
    <3>5. /\ las'[end + z[end]] = z[lo] + z[end]
          /\ \A x \in Addr : x # end /\ x # end + z[end] => las'[x] = l[x]
      BY <3>1, <3>2, <3>3, <1>7, <1>9
    <3>6. Geometry(hat, siz', las', B \ {end})
      <4> HIDE DEF B
      <4>1. siz' \in [Addr -> Nat] /\ las' \in [Addr -> Nat] /\ Geometry(hat, z, l, B)
        BY <1>3, <1>9
      <4> QED BY <3>1, <3>3, <3>4, <3>5, <4>1, JoinGeometry
    <3>7. B \ {end} = box'
      BY <2>3, <3>1, <3>2, <1>3, <1>5
    <3> QED BY <3>1, <3>6, <3>7, <1>5
  <2> QED BY <2>1, <2>2, <2>3
<1>11. \A x \in joined : use[x] = 0 /\ x \in box /\ x # b
  BY <1>2, <1>3, <1>4
<1>12. \A x \in box : x # b /\ x # lo => siz'[x] = siz[x] /\ use'[x] = use[x]
  BY <1>1, <1>9
<1>13. lo = b \/ lo \in joined
  OBVIOUS
<1>14. /\ \A x \in box : x # b /\ x \notin joined => x \in box' /\ x # lo
       /\ \A x \in box' : \/ x = lo /\ end # hat
                          \/ x \in box /\ x # b /\ x # lo /\ x \notin joined
       /\ end # hat => lo \in box' /\ use'[lo] = 0
  BY <1>1, <1>3, <1>4, <1>5, <1>9, <1>13
<1>15. FreeListed'
  <2> HIDE DEF joined
  <2>1. ASSUME NEW p \in fre'
        PROVE  \E x \in box' : use'[x] = 0 /\ p = <<Select(siz'[x]), x>>
    <3>1. CASE end # hat /\ p = <<Select(hi - lo), lo>>
      BY <3>1, <1>9, <1>14
    <3>2. CASE p \in fre /\ p \notin {<<Select(siz[x]), x>> : x \in joined}
      <4>1. PICK x \in box : use[x] = 0 /\ p = <<Select(siz[x]), x>>
        BY <3>2 DEF RailInv, FreeListed
      <4>2. x # b /\ x \notin joined
        BY <3>2, <4>1
      <4> QED BY <4>1, <4>2, <1>12, <1>14
    <3> QED BY <3>1, <3>2, <1>5
  <2>2. ASSUME NEW x \in box', use'[x] = 0 PROVE <<Select(siz'[x]), x>> \in fre'
    <3>1. CASE x = lo /\ end # hat
      BY <3>1, <1>5, <1>9
    <3>2. CASE x \in box /\ x # b /\ x # lo /\ x \notin joined
      <4>1. <<Select(siz[x]), x>> \in fre /\ siz'[x] = siz[x]
        BY <2>2, <3>2, <1>12, ListedIs
      <4>2. <<Select(siz[x]), x>> \notin {<<Select(siz[y]), y>> : y \in joined}
        BY <3>2
      <4> QED BY <4>1, <4>2, <1>5
    <3> QED BY <3>1, <3>2, <1>14
  <2> QED BY <2>1, <2>2, ListedNext
<1>16. /\ held' \in [Addr -> Nat] /\ held'[b] = 0 /\ want' \in [Addr -> Nat]
       /\ \A x \in Addr : x # b => held'[x] = held[x]
  <2>1. held[b] = 1 /\ held \in [Addr -> Nat] /\ want \in [Addr -> Nat]
    BY RailAssumption DEF RailInv, HeldStays
  <2> QED BY <2>1, <1>2
<1>17. HeldStays'
  <2>1. ASSUME NEW x \in Addr, held'[x] > 0 PROVE x \in box' /\ want'[x] <= siz'[x]
    <3>1. x # b /\ held[x] > 0
      BY <2>1, <1>16
    <3>2. x \in box /\ want[x] <= siz[x]
      BY <3>1 DEF RailInv, HeldStays
    <3>3. x \notin joined
      BY <3>1, <1>11, Unheld
    <3> HIDE DEF joined
    <3> QED BY <3>1, <3>2, <3>3, <1>12, <1>14
  <2>2. ASSUME NEW x \in box' PROVE use'[x] \in {held'[x], Sticky}
    <3>1. CASE x = lo
      <4>1. held'[lo] = 0
        BY <1>3, <1>16, Unheld
      <4>2. use'[lo] = 0
        BY <1>3, <1>9
      <4> QED BY <3>1, <4>1, <4>2
    <3>2. CASE x \in box /\ x # b /\ x # lo
      <4>1. use[x] \in {held[x], Sticky} /\ x \in Addr
        BY <3>2, <1>1 DEF RailInv, HeldStays
      <4> QED BY <3>2, <4>1, <1>12, <1>16
    <3> QED BY <3>1, <3>2, <1>14
  <2> QED BY <2>1, <2>2 DEF HeldStays
<1> QED BY <1>9, <1>10, <1>15, <1>16, <1>17 DEF RailInv

\* One step of the allocator.
LEMMA NextStep == ASSUME RailInv, [Next]_vars PROVE RailInv'
<1>1. /\ use \in [Addr -> Nat] /\ box \subseteq Addr /\ siz \in [Addr -> Nat]
      /\ Sticky \in Nat /\ Sticky > 1
  BY RailAssumption DEF RailInv, Geometry
<1>2. ASSUME NEW len \in Lens, Grab(len) PROVE RailInv'
  <2>1. len + 3 \in Nat /\ len + 3 >= 6
    BY RailAssumption
  <2>2. CASE TakeHat(len + 3)
    BY <2>1, <2>2, TakeHatStep
  <2>3. CASE ~ TakeHat(len + 3)
    <3>1. PICK i \in FitList(len + 3) : \E b \in Fit(i, len + 3) : Take(i, b, len + 3)
      BY <1>2, <2>3 DEF Grab
    <3>2. PICK b \in Fit(i, len + 3) : Take(i, b, len + 3)
      BY <3>1
    <3>3. PICK p \in fre : b = p[2] /\ i = p[1] /\ siz[b] >= len + 3
      BY <3>2 DEF Fit
    <3>4. p = <<i, b>> /\ b \in box
      BY <3>3 DEF RailInv, FreeListed
    <3> QED BY <2>1, <3>2, <3>3, <3>4, TakeStep
  <2> QED BY <2>2, <2>3
<1>3. /\ held \in [Addr -> Nat] /\ want \in [Addr -> Nat]
      /\ \A x \in box : x \in Addr /\ use[x] \in {held[x], Sticky}
  BY DEF RailInv, Geometry, HeldStays
<1>4. ASSUME NEW b \in box, Gain(b) PROVE RailInv'
  <2>1. /\ use[b] # 0 /\ use[b] \in Nat /\ UNCHANGED <<hat, siz, las, fre, box, want>>
        /\ use' \in [Addr -> Nat] /\ use'[b] # 0
        /\ \A x \in Addr : x # b => use'[x] = use[x]
    BY <1>1, <1>4 DEF Gain, heap
  <2>2. /\ held' \in [Addr -> Nat] /\ held[b] > 0
        /\ \A x \in Addr : x # b => held'[x] = held[x]
        /\ use'[b] \in {held'[b], Sticky}
    BY <1>1, <1>4, <1>3 DEF Gain
  <2> QED BY <2>1, <2>2, CountStep
<1>5. ASSUME NEW b \in box, Lose(b) PROVE RailInv'
  <2>1. CASE use[b] = 1
    BY <1>5, <2>1, BloqFreeStep DEF Lose
  <2>2. CASE use[b] # 1
    <3>1. /\ use[b] # 0 /\ use[b] \in Nat /\ UNCHANGED <<hat, siz, las, fre, box, want>>
          /\ use' \in [Addr -> Nat] /\ use'[b] # 0
          /\ \A x \in Addr : x # b => use'[x] = use[x]
      BY <1>1, <1>5, <2>2 DEF Lose, heap
    <3>2. /\ held' \in [Addr -> Nat] /\ held[b] > 0
          /\ \A x \in Addr : x # b => held'[x] = held[x]
          /\ use'[b] \in {held'[b], Sticky}
      BY <1>1, <1>5, <1>3, <2>2 DEF Lose
    <3> QED BY <3>1, <3>2, CountStep
  <2> QED BY <2>1, <2>2
<1>6. CASE UNCHANGED vars
  BY <1>6 DEF vars, RailInv, FreeListed, HeldStays
<1> QED BY <1>2, <1>4, <1>5, <1>6, MintStep DEF Next

\* The empty region has the invariant.
LEMMA InitRailInv == Init => RailInv
<1> SUFFICES ASSUME Init PROVE RailInv
  OBVIOUS
<1>1. /\ box = {} /\ hat = 0 /\ fre = {} /\ siz \in [Addr -> Nat] /\ las \in [Addr -> Nat]
      /\ use \in [Addr -> Nat] /\ held \in [Addr -> Nat] /\ want \in [Addr -> Nat]
      /\ \A a \in Addr : held[a] = 0
  BY DEF Init
<1>2. 0 \in 0 .. (Top - 1)
  BY RailAssumption
<1>3. Geometry(hat, siz, las, box)
  BY <1>1, <1>2 DEF Geometry
<1> QED BY <1>1, <1>3 DEF RailInv, FreeListed, HeldStays

-----------------------------------------------------------------------------

\* The inductive invariant of the allocator holds in every reachable state.
THEOREM RailInvCorrect == Spec => []RailInv
<1>1. RailInv /\ [Next]_vars => RailInv'
  BY NextStep
<1> QED BY <1>1, InitRailInv, PTL DEF Spec

\* _rl_free_select names one of the 28 lists.
LEMMA SelectType == \A s : Select(s) \in 0 .. LastList
<1> SUFFICES ASSUME NEW s PROVE Select(s) \in 0 .. LastList
  OBVIOUS
<1> DEFINE I == 1 .. (LastList - 1)
           S == {i \in I : s > 15 * 2 ^ (i - 1)}
<1>1. IsFiniteSet(I) /\ Cardinality(I) = LastList - 1
  <2>1. 1 \in Int /\ LastList - 1 \in Int /\ LastList - 1 >= 1
    BY DEF LastList
  <2> HIDE DEF LastList
  <2> QED BY <2>1, FS_Interval
<1>2. S \subseteq I
  OBVIOUS
<1> HIDE DEF I
<1>3. IsFiniteSet(S) /\ Cardinality(S) <= Cardinality(I)
  BY <1>1, <1>2, FS_Subset
<1>4. Cardinality(S) \in Nat
  BY <1>3, FS_CardinalityType
<1>5. Select(s) = IF s = 6 THEN 0 ELSE 1 + Cardinality(S)
  BY DEF Select, I
<1> HIDE DEF S
<1> QED BY <1>1, <1>3, <1>4, <1>5 DEF LastList

\* Every variable keeps its type, and no entry is on a list there is not.
THEOREM RailTypesCorrect == Spec => []RailTypeOK
<1>1. RailInv => RailTypeOK
  <2> SUFFICES ASSUME RailInv PROVE RailTypeOK
    OBVIOUS
  <2>1. /\ hat \in 0 .. (Top - 1) /\ box \subseteq Addr /\ use \in [Addr -> Nat]
        /\ siz \in [Addr -> Nat] /\ las \in [Addr -> Nat]
    BY DEF RailInv, Geometry
  <2>2. held \in [Addr -> Nat] /\ want \in [Addr -> Nat]
    BY DEF RailInv
  <2>3. fre \subseteq (0 .. LastList) \X Addr
    BY <2>1, SelectType DEF RailInv, FreeListed
  <2> QED BY <2>1, <2>3, <2>2 DEF RailTypeOK
<1> QED BY <1>1, RailInvCorrect, PTL

\* Boxes tile the region after any sequence of _rl_bloq_grab, _rl_bloq_free and
\* u2_rl_mint, so no two share a word.
THEOREM BoxesTile == Spec => []Tiled
<1>1. RailInv => Tiled
  BY DEF RailInv, Geometry, Tiled
<1> QED BY <1>1, RailInvCorrect, PTL

\* The last word of a box, by which _rl_bloq_free finds it, is its size.
THEOREM TagsCorrect == Spec => []TagsAgree
<1>1. RailInv => TagsAgree
  BY DEF RailInv, Geometry, TagsAgree
<1> QED BY <1>1, RailInvCorrect, PTL

\* The free lists hold the free boxes, each on the list of its size.
THEOREM FreeListsCorrect == Spec => []FreeListed
<1>1. RailInv => FreeListed
  BY DEF RailInv
<1> QED BY <1>1, RailInvCorrect, PTL

\* A box that callers hold stays, with the words they count on, until its own last
\* reference is lost, and is not handed out again before: _rl_bloq_free joins only
\* free neighbours, and nobody holds those.
THEOREM BoxesStay == Spec => []HeldStays
<1>1. RailInv => HeldStays
  BY DEF RailInv
<1> QED BY <1>1, RailInvCorrect, PTL
=============================================================================

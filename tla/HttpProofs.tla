----------------------------- MODULE HttpProofs -----------------------------
(***************************************************************************)
(* Proofs about the HTTP server, for any connections and any number of     *)
(* requests: the requests of a connection are answered in order, the first *)
(* in its queue has no answer, each is flushed or given up, once, and a    *)
(* connection is closed once.                                              *)
(***************************************************************************)
EXTENDS Http, FiniteSetTheorems, SequenceTheorems, WellFoundedInduction, TLAPS

-----------------------------------------------------------------------------

(* The invariant. *)

Rising(s) == \A i, j \in 1 .. Len(s) : i < j => s[i] < s[j]
Below(s, t) == \A i \in 1 .. Len(s), j \in 1 .. Len(t) : s[i] < t[j]
Starts(s, t) == Len(s) <= Len(t) /\ \A i \in 1 .. Len(s) : s[i] = t[i]

HttpType ==
    /\ phase \in [Conn -> {"none", "open", "closing", "freed"}]
    /\ closes \in [Conn -> Nat] /\ seq \in [Conn -> Nat] /\ ruc \in [Conn -> Nat]
    /\ q \in [Conn -> Seq(Nat)] /\ qer \in [Conn -> Nat]
    /\ end \in [Conn -> SUBSET Nat] /\ lost \in [Conn -> SUBSET Nat]
    /\ sent \in [Conn -> Seq(Nat)] /\ popped \in [Conn -> Seq(Nat)]
    /\ thuds \in [Conn -> Seq(Nat)] /\ heard \in [Conn -> SUBSET Nat]

\* uv_close is called on open connections.
Closing(c) == closes[c] = IF phase[c] \in {"none", "open"} THEN 0 ELSE 1

\* The request being parsed is the newest.
Newest(c) == seq[c] > 0 /\ ruc[c] \in {0, seq[c] - 1}

\* Requests are queued, answered and given up in the order they were read, and
\* none was before it was read to its end.
InOrder(c) ==
    /\ Elems(q[c]) \subseteq Complete(c) /\ Elems(popped[c]) \subseteq Complete(c)
    /\ Elems(thuds[c]) \subseteq Complete(c) /\ end[c] \subseteq Complete(c)
    /\ Rising(q[c]) /\ Rising(popped[c]) /\ Rising(thuds[c])
    /\ Below(popped[c], q[c]) /\ Below(popped[c], thuds[c])

\* A request is given up when its connection is freed.
GivenUp(c) == IF phase[c] = "freed" THEN q[c] = << >> ELSE thuds[c] = << >>

\* Until a connection is closed every response was written; then no more are.
Written(c) ==
    Starts(sent[c], popped[c]) /\ (phase[c] \in {"none", "open"} => sent[c] = popped[c])

FirstWaits(c) == q[c] # << >> => q[c][1] \notin end[c]

\* What the kernel answered and is still queued has end set; the first that is
\* given up was not answered.
Answered(c) ==
    /\ heard[c] \subseteq Complete(c) /\ Elems(q[c]) \intersect heard[c] \subseteq end[c]
    /\ thuds[c] # << >> => thuds[c][1] \notin heard[c]

\* A request is queued, flushed, given up or lost; but for those that the
\* process did not come to queue.
Known(c) == Elems(q[c]) \union Elems(popped[c]) \union Elems(thuds[c]) \union lost[c]
Found(c) ==
    \A r \in Complete(c) :
        \/ r \in Known(c)
        \/ up # "up" /\ phase[c] # "freed" /\ \A i \in 1 .. Len(popped[c]) : popped[c][i] < r

ConnInv(c) ==
    /\ Closing(c) /\ Newest(c) /\ InOrder(c) /\ GivenUp(c) /\ Written(c)
    /\ FirstWaits(c) /\ Answered(c) /\ Found(c)

HttpInv == HttpType /\ \A c \in Conn : ConnInv(c)

-----------------------------------------------------------------------------

(* Queues. *)

\* A set of numbers has a least one.
LEMMA Least ==
    ASSUME NEW S \in SUBSET Nat, S # {} PROVE \E m \in S : \A k \in S : m <= k
<1> DEFINE R == OpToRel(<, Nat)
<1>1. R = {ss \in Nat \X Nat : ss[1] < ss[2]}
  BY DEF OpToRel
<1>2. IsWellFoundedOn(R, Nat)
  BY NatLessThanWellFounded
<1> HIDE DEF R
<1>3. PICK m \in S : \A k \in S : ~ (<<k, m>> \in R)
  BY <1>2, WFMin
<1>4. ASSUME NEW k \in S PROVE m <= k
  <2>1. <<k, m>> \in Nat \X Nat /\ <<k, m>>[1] = k /\ <<k, m>>[2] = m
    OBVIOUS
  <2>2. ~ (k < m)
    BY <1>1, <1>3, <2>1
  <2> QED BY <2>2
<1> QED BY <1>4

\* The answered requests at the front of a queue are well defined.
LEMMA ReadyIs ==
    ASSUME NEW s \in Seq(Nat), NEW e
    PROVE  /\ Ready(s, e) \in 0 .. Len(s) /\ \A i \in 1 .. Ready(s, e) : s[i] \in e
           /\ Ready(s, e) < Len(s) => s[Ready(s, e) + 1] \notin e
<1> DEFINE Front(k) == (\A i \in 1 .. k : s[i] \in e) /\ (k < Len(s) => s[k + 1] \notin e)
<1>1. \E k \in 0 .. Len(s) : Front(k)
  <2>1. Len(s) \in Nat
    BY LenProperties
  <2>2. CASE \A i \in 1 .. Len(s) : s[i] \in e
    <3>1. Len(s) \in 0 .. Len(s) /\ ~ (Len(s) < Len(s))
      BY <2>1
    <3> QED BY <2>2, <3>1
  <2>3. CASE ~ \A i \in 1 .. Len(s) : s[i] \in e
    <3> DEFINE S == {i \in 1 .. Len(s) : s[i] \notin e}
    <3>1. S \in SUBSET Nat /\ S # {}
      BY <2>1, <2>3
    <3>2. PICK m \in S : \A k \in S : m <= k
      <4> HIDE DEF S
      <4> QED BY <3>1, Least
    <3>3. m - 1 \in 0 .. Len(s) /\ (m - 1) + 1 = m /\ s[m] \notin e
      BY <2>1
    <3>4. ASSUME NEW i \in 1 .. (m - 1) PROVE s[i] \in e
      BY <2>1, <3>2
    <3> QED BY <3>3, <3>4
  <2> QED BY <2>2, <2>3
<1>2. Ready(s, e) = CHOOSE k \in 0 .. Len(s) : Front(k)
  BY Zenon DEF Ready
<1>3. Ready(s, e) \in 0 .. Len(s) /\ Front(Ready(s, e))
  <2> HIDE DEF Front
  <2> QED BY <1>1, <1>2
<1> QED BY <1>3

\* A request put behind the i-th of a queue.
Behind(t, s, i, r) == t = Append(SubSeq(s, 1, i), r)

\* A queue cut behind its i-th request, with a new one there, stays in order.
LEMMA Cut ==
    ASSUME NEW s \in Seq(Nat), NEW i \in 1 .. Len(s), NEW r \in Nat, Rising(s),
           \A x \in Elems(s) : x < r, NEW t, Behind(t, s, i, r)
    PROVE  /\ t \in Seq(Nat) /\ Rising(t) /\ t # << >> /\ t[1] = s[1]
           /\ Elems(t) \subseteq Elems(s) \union {r} /\ r \in Elems(t)
           /\ Elems(s) \subseteq Elems(t) \union Elems(SubSeq(s, i + 1, Len(s)))
<1>1. Len(s) \in Nat /\ i \in Nat /\ SubSeq(s, 1, i) \in Seq(Nat) /\ Len(SubSeq(s, 1, i)) = i
  BY LenProperties
<1>2. /\ t \in Seq(Nat) /\ Len(t) = i + 1 /\ t[i + 1] = r
      /\ \A j \in 1 .. i : t[j] = s[j]
  BY <1>1 DEF Behind
<1>3. \A j \in 1 .. i : s[j] \in Elems(s) /\ s[j] < r
  BY <1>1 DEF Elems
<1>4. Rising(t)
  <2> SUFFICES ASSUME NEW j \in 1 .. Len(t), NEW k \in 1 .. Len(t), j < k PROVE t[j] < t[k]
    BY DEF Rising
  <2>1. CASE k = i + 1
    <3>1. j \in 1 .. i
      BY <1>1, <1>2, <2>1
    <3>2. t[j] = s[j] /\ s[j] < r /\ t[k] = r
      BY <1>2, <1>3, <2>1, <3>1
    <3> QED BY <3>2
  <2>2. CASE k # i + 1
    <3>1. j \in 1 .. i /\ k \in 1 .. i /\ j \in 1 .. Len(s) /\ k \in 1 .. Len(s)
      BY <1>1, <1>2, <2>2
    <3> QED BY <1>2, <3>1 DEF Rising
  <2> QED BY <2>1, <2>2
<1>5. Elems(t) \subseteq Elems(s) \union {r} /\ r \in Elems(t)
  <2>1. ASSUME NEW j \in 1 .. Len(t) PROVE t[j] \in Elems(s) \union {r}
    <3>1. j \in 1 .. i \/ j = i + 1
      BY <1>1, <1>2
    <3> QED BY <1>2, <1>3, <3>1
  <2>2. i + 1 \in 1 .. Len(t)
    BY <1>1, <1>2
  <2> QED BY <1>2, <2>1, <2>2 DEF Elems
<1>6. ASSUME NEW j \in 1 .. Len(s)
      PROVE  s[j] \in Elems(t) \union Elems(SubSeq(s, i + 1, Len(s)))
  <2> DEFINE u == SubSeq(s, i + 1, Len(s))
  <2>1. CASE j \in 1 .. i
    <3>1. j \in 1 .. Len(t) /\ t[j] = s[j]
      BY <1>1, <1>2, <2>1
    <3> QED BY <3>1 DEF Elems
  <2>2. CASE j \notin 1 .. i
    <3>1. j - i \in 1 .. Len(u) /\ u[j - i] = s[j]
      BY <1>1, <2>2
    <3> HIDE DEF u
    <3>2. s[j] \in Elems(u)
      BY <3>1 DEF Elems
    <3> QED BY <3>2 DEF u
  <2> QED BY <2>1, <2>2
<1>7. Elems(s) \subseteq Elems(t) \union Elems(SubSeq(s, i + 1, Len(s)))
  BY <1>6 DEF Elems
<1>8. t # << >> /\ t[1] = s[1]
  BY <1>1, <1>2
<1> QED BY <1>2, <1>4, <1>5, <1>7, <1>8

\* The first k of a queue s moved behind p: f and g are what p and s become.
Moved(p, s, k, f, g) == f = p \o SubSeq(s, 1, k) /\ g = SubSeq(s, k + 1, Len(s))

\* Moving the front of a queue keeps the order and loses nothing.
LEMMA Move ==
    ASSUME NEW p \in Seq(Nat), NEW s \in Seq(Nat), NEW k \in 0 .. Len(s), NEW f, NEW g,
           Rising(p), Rising(s), Below(p, s), Moved(p, s, k, f, g)
    PROVE  /\ f \in Seq(Nat) /\ g \in Seq(Nat) /\ Rising(f) /\ Rising(g) /\ Below(f, g)
           /\ Elems(f) \union Elems(g) = Elems(p) \union Elems(s)
           /\ g # << >> => k < Len(s) /\ g[1] = s[k + 1]
           /\ Len(f) = Len(p) + k /\ \A i \in 1 .. Len(p) : f[i] = p[i]
           /\ \A i \in 1 .. k : f[Len(p) + i] = s[i]
<1>1. Len(s) \in Nat /\ Len(p) \in Nat /\ k \in Nat /\ k <= Len(s)
  BY LenProperties
<1>2. /\ SubSeq(s, 1, k) \in Seq(Nat) /\ Len(SubSeq(s, 1, k)) = k
      /\ \A i \in 1 .. k : SubSeq(s, 1, k)[i] = s[i]
  BY <1>1
<1>3. /\ g \in Seq(Nat) /\ Len(g) = Len(s) - k /\ \A i \in 1 .. Len(g) : g[i] = s[k + i]
  BY <1>1 DEF Moved
<1>4. /\ f \in Seq(Nat) /\ Len(f) = Len(p) + k /\ \A i \in 1 .. Len(p) : f[i] = p[i]
      /\ \A i \in 1 .. k : f[Len(p) + i] = s[i]
  BY <1>1, <1>2 DEF Moved
<1>5. ASSUME NEW i \in 1 .. Len(f) PROVE \/ i \in 1 .. Len(p) /\ f[i] = p[i]
                                         \/ i - Len(p) \in 1 .. k /\ f[i] = s[i - Len(p)]
  <2>1. CASE i <= Len(p)
    BY <1>1, <1>4, <2>1
  <2>2. CASE i > Len(p)
    <3>1. i - Len(p) \in 1 .. k /\ Len(p) + (i - Len(p)) = i
      BY <1>1, <1>4, <2>2
    <3> QED BY <1>4, <3>1
  <2> QED BY <1>1, <2>1, <2>2
<1>6. ASSUME NEW i \in 1 .. Len(g) PROVE k + i \in 1 .. Len(s) /\ g[i] = s[k + i]
  BY <1>1, <1>3
<1>7. Rising(f)
  <2> SUFFICES ASSUME NEW i \in 1 .. Len(f), NEW j \in 1 .. Len(f), i < j PROVE f[i] < f[j]
    BY DEF Rising
  <2>1. CASE i \in 1 .. Len(p) /\ f[i] = p[i] /\ j \in 1 .. Len(p) /\ f[j] = p[j]
    BY <2>1 DEF Rising
  <2>2. CASE /\ i \in 1 .. Len(p) /\ f[i] = p[i]
             /\ j - Len(p) \in 1 .. k /\ f[j] = s[j - Len(p)]
    <3>1. j - Len(p) \in 1 .. Len(s)
      BY <1>1, <2>2
    <3> QED BY <2>2, <3>1 DEF Below
  <2>3. CASE /\ i - Len(p) \in 1 .. k /\ f[i] = s[i - Len(p)]
             /\ j - Len(p) \in 1 .. k /\ f[j] = s[j - Len(p)]
    <3>1. i - Len(p) \in 1 .. Len(s) /\ j - Len(p) \in 1 .. Len(s) /\ i - Len(p) < j - Len(p)
      <4>1. i - Len(p) \in 1 .. Len(s) /\ j - Len(p) \in 1 .. Len(s)
        BY <1>1, <2>3
      <4>2. i \in Int /\ j \in Int /\ Len(p) \in Int
        BY <1>1
      <4>3. i - Len(p) < j - Len(p)
        BY <4>2
      <4> QED BY <4>1, <4>3
    <3> QED BY <2>3, <3>1 DEF Rising
  <2>4. CASE i - Len(p) \in 1 .. k /\ j \in 1 .. Len(p)
    BY <1>1, <1>4, <2>4
  <2> QED BY <1>5, <2>1, <2>2, <2>3, <2>4
<1>8. Rising(g)
  <2> SUFFICES ASSUME NEW i \in 1 .. Len(g), NEW j \in 1 .. Len(g), i < j PROVE g[i] < g[j]
    BY DEF Rising
  <2>1. k + i \in 1 .. Len(s) /\ k + j \in 1 .. Len(s) /\ k + i < k + j
    BY <1>1, <1>3
  <2> QED BY <1>6, <2>1 DEF Rising
<1>9. Below(f, g)
  <2> SUFFICES ASSUME NEW i \in 1 .. Len(f), NEW j \in 1 .. Len(g) PROVE f[i] < g[j]
    BY DEF Below
  <2>1. k + j \in 1 .. Len(s) /\ g[j] = s[k + j]
    BY <1>6
  <2>2. CASE i \in 1 .. Len(p) /\ f[i] = p[i]
    BY <2>1, <2>2 DEF Below
  <2>3. CASE i - Len(p) \in 1 .. k /\ f[i] = s[i - Len(p)]
    <3>1. i - Len(p) \in 1 .. Len(s) /\ i - Len(p) < k + j
      <4> DEFINE l == i - Len(p)
      <4>1. l \in 1 .. k
        BY <2>3
      <4> HIDE DEF l
      <4>2. l \in 1 .. Len(s) /\ l < k + j
        BY <1>1, <4>1
      <4> QED BY <4>2 DEF l
    <3> QED BY <2>1, <2>3, <3>1 DEF Rising
  <2> QED BY <1>5, <2>2, <2>3
<1>10. Elems(f) \union Elems(g) \subseteq Elems(p) \union Elems(s)
  <2>1. ASSUME NEW i \in 1 .. Len(f) PROVE f[i] \in Elems(p) \union Elems(s)
    <3>1. CASE i \in 1 .. Len(p) /\ f[i] = p[i]
      BY <3>1 DEF Elems
    <3>2. CASE i - Len(p) \in 1 .. k /\ f[i] = s[i - Len(p)]
      <4>1. i - Len(p) \in 1 .. Len(s)
        BY <1>1, <3>2
      <4> QED BY <3>2, <4>1 DEF Elems
    <3> QED BY <1>5, <3>1, <3>2
  <2>2. ASSUME NEW i \in 1 .. Len(g) PROVE g[i] \in Elems(s)
    BY <1>6 DEF Elems
  <2> QED BY <2>1, <2>2 DEF Elems
<1>11. Elems(p) \subseteq Elems(f)
  <2>1. \A i \in 1 .. Len(p) : i \in 1 .. Len(f)
    BY <1>1, <1>4
  <2> QED BY <1>4, <2>1 DEF Elems
<1>12. ASSUME NEW i \in 1 .. Len(s) PROVE s[i] \in Elems(f) \union Elems(g)
  <2>1. CASE i <= k
    <3>1. i \in 1 .. k /\ Len(p) + i \in 1 .. Len(f)
      BY <1>1, <1>4, <2>1
    <3> QED BY <1>4, <3>1 DEF Elems
  <2>2. CASE i > k
    <3>1. i - k \in 1 .. Len(g) /\ k + (i - k) = i
      BY <1>1, <1>3, <2>2
    <3> QED BY <1>3, <3>1 DEF Elems
  <2> QED BY <1>1, <2>1, <2>2
<1>13. Elems(s) \subseteq Elems(f) \union Elems(g)
  BY <1>12 DEF Elems
<1>14. g # << >> => k < Len(s) /\ g[1] = s[k + 1]
  <2> SUFFICES ASSUME g # << >> PROVE k < Len(s) /\ g[1] = s[k + 1]
    OBVIOUS
  <2>1. Len(g) # 0 /\ Len(g) \in Nat
    BY <1>3
  <2> QED BY <1>1, <1>3, <2>1
<1> QED BY <1>3, <1>4, <1>7, <1>8, <1>9, <1>10, <1>11, <1>13, <1>14

-----------------------------------------------------------------------------

(* Steps. *)

\* Everything about d but the state of the process is as it was.
Same(d) ==
    /\ phase'[d] = phase[d] /\ closes'[d] = closes[d] /\ seq'[d] = seq[d] /\ ruc'[d] = ruc[d]
    /\ q'[d] = q[d] /\ end'[d] = end[d] /\ sent'[d] = sent[d] /\ popped'[d] = popped[d]
    /\ thuds'[d] = thuds[d] /\ lost'[d] = lost[d] /\ heard'[d] = heard[d]

\* A connection that a step leaves alone.
LEMMA SameKeeps ==
    ASSUME NEW d \in Conn, ConnInv(d), up = "up" \/ up' = up, Same(d)
    PROVE  ConnInv(d)'
<1>1. Complete(d)' = Complete(d) /\ Known(d)' = Known(d)
  BY DEF Complete, Known, Same
<1>2. Found(d)'
  BY <1>1 DEF ConnInv, Found, Same
<1> QED BY <1>1, <1>2 DEF ConnInv, Closing, Newest, InOrder, GivenUp, Written, FirstWaits, Answered, Same

\* A step of connection c.
LEMMA Only ==
    ASSUME HttpInv, HttpType', NEW c \in Conn, up = "up", \A d \in Conn \ {c} : Same(d), ConnInv(c)'
    PROVE  HttpInv'
<1>1. ASSUME NEW d \in Conn, d # c PROVE ConnInv(d)'
  BY <1>1, SameKeeps DEF HttpInv
<1> QED BY <1>1 DEF HttpInv

\* _http_conn_new.
LEMMA ConnNewKeeps == ASSUME HttpInv, NEW c \in Conn, ConnNew(c) PROVE HttpInv'
<1>1. HttpType' /\ up = "up"
  BY DEF HttpInv, HttpType, ConnNew
<1>2. \A d \in Conn \ {c} : Same(d)
  BY DEF HttpInv, HttpType, ConnNew, Same
<1>3. phase'[c] = "open" /\ phase[c] = "none"
  BY DEF HttpInv, HttpType, ConnNew
<1>4. Complete(c)' = Complete(c) /\ Known(c)' = Known(c)
  BY DEF Complete, Known, ConnNew
<1>5. ConnInv(c)
  BY DEF HttpInv
<1>6. Found(c)'
  BY <1>3, <1>4, <1>5 DEF ConnInv, Found, ConnNew
<1>7. ConnInv(c)'
  BY <1>3, <1>4, <1>5, <1>6
  DEF ConnInv, Closing, Newest, InOrder, GivenUp, Written, FirstWaits, Answered, ConnNew
<1> QED BY <1>1, <1>2, <1>7, Only

\* The request being parsed is not complete.
LEMMA ReadIntoSame ==
    ASSUME HttpInv, NEW c \in Conn, ReadInto(c)
    PROVE  /\ Complete(c)' = Complete(c) /\ Newest(c)'
           /\ seq' \in [Conn -> Nat] /\ ruc' \in [Conn -> Nat]
           /\ \A d \in Conn \ {c} : seq'[d] = seq[d] /\ ruc'[d] = ruc[d]
<1>1. /\ seq \in [Conn -> Nat] /\ ruc \in [Conn -> Nat] /\ seq[c] > 0
      /\ ruc[c] \in {0, seq[c] - 1} /\ seq[c] \in Nat /\ ruc[c] \in Nat
  BY DEF HttpInv, HttpType, ConnInv, Newest
<1>2. /\ ruc'[c] = (IF ruc[c] = 0 THEN seq[c] ELSE ruc[c])
      /\ seq'[c] = (IF ruc[c] = 0 THEN seq[c] + 1 ELSE seq[c])
      /\ seq' \in [Conn -> Nat] /\ ruc' \in [Conn -> Nat]
      /\ \A d \in Conn \ {c} : seq'[d] = seq[d] /\ ruc'[d] = ruc[d]
  BY <1>1 DEF ReadInto, Parsing
<1>3. CASE ruc[c] = 0
  BY <1>1, <1>2, <1>3 DEF Complete, Newest
<1>4. CASE ruc[c] # 0
  BY <1>1, <1>2, <1>4 DEF Complete, Newest
<1> QED BY <1>2, <1>3, <1>4

\* A read without the end of a request.
LEMMA ReadPartKeeps == ASSUME HttpInv, NEW c \in Conn, ReadPart(c) PROVE HttpInv'
<1>1. /\ ReadInto(c) /\ up = "up"
      /\ UNCHANGED <<up, phase, closes, q, qer, end, sent, popped, thuds, lost, heard>>
  BY DEF ReadPart, ReadInto, CanRead
<1>2. /\ Complete(c)' = Complete(c) /\ Newest(c)'
      /\ seq' \in [Conn -> Nat] /\ ruc' \in [Conn -> Nat]
      /\ \A d \in Conn \ {c} : seq'[d] = seq[d] /\ ruc'[d] = ruc[d]
  BY <1>1, ReadIntoSame
<1>3. HttpType'
  BY <1>1, <1>2 DEF HttpInv, HttpType
<1>4. \A d \in Conn \ {c} : Same(d)
  BY <1>1, <1>2 DEF Same
<1>5. ConnInv(c) /\ Known(c)' = Known(c)
  BY <1>1 DEF HttpInv, Known
<1>6. Found(c)'
  BY <1>1, <1>2, <1>5 DEF ConnInv, Found
<1>7. ConnInv(c)'
  BY <1>1, <1>2, <1>5, <1>6 DEF ConnInv, Closing, InOrder, GivenUp, Written, FirstWaits,
    Answered
<1> QED BY <1>1, <1>3, <1>4, <1>7, Only

\* A read with the ends of two requests.
LEMMA ReadTwoKeeps == ASSUME HttpInv, NEW c \in Conn, ReadTwo(c) PROVE HttpInv'
<1>1. up = "up" /\ UNCHANGED <<phase, closes, seq, ruc, q, qer, end, sent, popped, thuds, lost, heard>>
  BY DEF ReadTwo, CanRead
<1>2. HttpType' /\ \A d \in Conn : Same(d)
  BY <1>1 DEF HttpInv, HttpType, Same
<1> QED BY <1>1, <1>2, SameKeeps DEF HttpInv

\* A connection is closed that was open.
LEMMA DeadClosing ==
    ASSUME HttpInv, NEW c \in Conn, phase[c] = "open", ConnDead(c)
    PROVE  /\ Closing(c)' /\ phase'[c] = "closing"
           /\ phase' \in [Conn -> {"none", "open", "closing", "freed"}] /\ closes' \in [Conn -> Nat]
           /\ \A d \in Conn \ {c} : phase'[d] = phase[d] /\ closes'[d] = closes[d]
<1>1. closes[c] = 0
  BY DEF HttpInv, ConnInv, Closing
<1>2. /\ phase'[c] = "closing" /\ closes'[c] = 0 + 1
      /\ phase' \in [Conn -> {"none", "open", "closing", "freed"}] /\ closes' \in [Conn -> Nat]
      /\ \A d \in Conn \ {c} : phase'[d] = phase[d] /\ closes'[d] = closes[d]
  BY <1>1 DEF HttpInv, HttpType, ConnDead
<1> QED BY <1>2 DEF Closing

\* A read that fails, or ends the stream.
LEMMA ReadErrorKeeps == ASSUME HttpInv, NEW c \in Conn, ReadError(c) PROVE HttpInv'
<1>1. /\ up = "up" /\ phase[c] = "open" /\ ConnDead(c)
      /\ UNCHANGED <<up, q, qer, end, sent, popped, thuds, lost, heard>>
  BY DEF ReadError
<1>2. /\ Complete(c)' = Complete(c) /\ Newest(c)'
      /\ seq' \in [Conn -> Nat] /\ ruc' \in [Conn -> Nat]
      /\ \A d \in Conn \ {c} : seq'[d] = seq[d] /\ ruc'[d] = ruc[d]
  <2>1. CASE ReadInto(c)
    BY <2>1, ReadIntoSame
  <2>2. CASE UNCHANGED <<seq, ruc>>
    BY <2>2 DEF HttpInv, HttpType, ConnInv, Newest, Complete
  <2> QED BY <2>1, <2>2 DEF ReadError
<1>3. /\ Closing(c)' /\ phase'[c] = "closing"
      /\ phase' \in [Conn -> {"none", "open", "closing", "freed"}] /\ closes' \in [Conn -> Nat]
      /\ \A d \in Conn \ {c} : phase'[d] = phase[d] /\ closes'[d] = closes[d]
  BY <1>1, DeadClosing
<1>4. HttpType'
  BY <1>1, <1>2, <1>3 DEF HttpInv, HttpType
<1>5. \A d \in Conn \ {c} : Same(d)
  BY <1>1, <1>2, <1>3 DEF Same
<1>6. ConnInv(c) /\ Known(c)' = Known(c)
  BY <1>1 DEF HttpInv, Known
<1>7. Found(c)'
  BY <1>1, <1>2, <1>3, <1>6 DEF ConnInv, Found
<1>8. ConnInv(c)'
  BY <1>1, <1>2, <1>3, <1>6, <1>7 DEF ConnInv, InOrder, GivenUp, Written, FirstWaits,
    Answered
<1> QED BY <1>1, <1>4, <1>5, <1>8, Only

\* _http_conn_free gives up what is queued.
LEMMA ConnFreeKeeps == ASSUME HttpInv, NEW c \in Conn, ConnFree(c) PROVE HttpInv'
<1>1. /\ up = "up" /\ phase[c] = "closing" /\ phase'[c] = "freed"
      /\ UNCHANGED <<up, closes, seq, ruc, sent, popped, lost, heard>>
  BY DEF HttpInv, HttpType, ConnFree
<1>2. ConnInv(c)
  BY DEF HttpInv
<1>3. thuds[c] = << >> /\ q[c] \in Seq(Nat)
  BY <1>1, <1>2 DEF HttpInv, HttpType, ConnInv, GivenUp
<1>4. thuds'[c] = q[c] /\ q'[c] = << >> /\ end'[c] = {}
  <2>1. thuds'[c] = << >> \o q[c] /\ q'[c] = << >> /\ end'[c] = {}
    BY <1>3 DEF HttpInv, HttpType, ConnFree
  <2> QED BY <1>3, <2>1
<1>5. HttpType'
  BY DEF HttpInv, HttpType, ConnFree
<1>6. \A d \in Conn \ {c} : Same(d)
  BY DEF HttpInv, HttpType, ConnFree, Same
<1>7. Complete(c)' = Complete(c) /\ Elems(<< >>) = {}
  BY <1>1 DEF Complete, Elems
<1>8. Known(c)' = Known(c)
  BY <1>1, <1>3, <1>4, <1>7 DEF Known
<1>9. Found(c)'
  BY <1>1, <1>2, <1>7, <1>8 DEF ConnInv, Found
<1>10. InOrder(c)'
  <2>1. Rising(<< >>) /\ Below(popped[c], << >>)
    BY DEF Rising, Below
  <2> QED BY <1>1, <1>2, <1>4, <1>7, <2>1 DEF ConnInv, InOrder
<1>11. Answered(c)'
  <2>1. q[c] # << >> => q[c][1] \in Elems(q[c])
    BY <1>3 DEF Elems
  <2>2. q[c] # << >> => q[c][1] \notin heard[c]
    BY <1>2, <2>1 DEF ConnInv, Answered, FirstWaits
  <2> QED BY <1>1, <1>2, <1>4, <1>7, <2>2 DEF ConnInv, Answered
<1>12. ConnInv(c)'
  BY <1>1, <1>2, <1>4, <1>9, <1>10, <1>11
  DEF ConnInv, Closing, Newest, GivenUp, Written, FirstWaits
<1> QED BY <1>1, <1>5, <1>6, <1>12, Only

\* Below, in terms of elements.
LEMMA BelowIs ==
    ASSUME NEW s, NEW t PROVE Below(s, t) <=> \A x \in Elems(s), y \in Elems(t) : x < y
BY DEF Below, Elems

\* The request that is complete now is the newest, and the first to be.
LEMMA NewRequest ==
    ASSUME HttpInv, NEW c \in Conn, NEW known, NEW bad, ReadRequest(c, known, bad)
    PROVE  /\ Parsing(c) \in Nat /\ Complete(c)' = Complete(c) \union {Parsing(c)}
           /\ \A x \in Complete(c) : x < Parsing(c)
           /\ Newest(c)' /\ Parsing(c) \notin Complete(c)
           /\ seq' \in [Conn -> Nat] /\ ruc' \in [Conn -> Nat]
           /\ \A d \in Conn \ {c} : seq'[d] = seq[d] /\ ruc'[d] = ruc[d]
<1>1. /\ seq \in [Conn -> Nat] /\ ruc \in [Conn -> Nat] /\ seq[c] > 0
      /\ ruc[c] \in {0, seq[c] - 1} /\ seq[c] \in Nat /\ ruc[c] \in Nat
  BY DEF HttpInv, HttpType, ConnInv, Newest
<1>2. /\ ruc'[c] = 0
      /\ seq'[c] = (IF ruc[c] = 0 THEN seq[c] + 1 ELSE seq[c])
      /\ seq' \in [Conn -> Nat] /\ ruc' \in [Conn -> Nat]
      /\ \A d \in Conn \ {c} : seq'[d] = seq[d] /\ ruc'[d] = ruc[d]
  BY <1>1 DEF ReadRequest
<1>3. CASE ruc[c] = 0
  <2>1. Parsing(c) = seq[c]
    BY <1>3 DEF Parsing
  <2> QED BY <1>1, <1>2, <1>3, <2>1 DEF Complete, Newest
<1>4. CASE ruc[c] # 0
  <2>1. Parsing(c) = seq[c] - 1
    BY <1>1, <1>4 DEF Parsing
  <2> QED BY <1>1, <1>2, <1>4, <2>1 DEF Complete, Newest
<1> QED BY <1>2, <1>3, <1>4

\* What a new request leaves to show, whatever becomes of the queue.
LEMMA RequestPart ==
    ASSUME HttpInv, NEW c \in Conn, NEW known, NEW bad, ReadRequest(c, known, bad),
           q' \in [Conn -> Seq(Nat)], qer' \in [Conn -> Nat], lost' \in [Conn -> SUBSET Nat],
           \A d \in Conn \ {c} : q'[d] = q[d] /\ lost'[d] = lost[d],
           Rising(q'[c]), Elems(q'[c]) \subseteq Elems(q[c]) \union {Parsing(c)},
           q'[c] # << >> => q'[c][1] \notin end[c],
           \A r \in Complete(c)' : \/ r \in Known(c)'
                                   \/ up' # "up" /\ \A i \in 1 .. Len(popped[c]) : popped[c][i] < r
    PROVE  HttpInv'
<1>1. /\ up = "up" /\ phase[c] = "open" /\ UNCHANGED <<end, sent, popped, thuds, heard>>
      /\ IF bad THEN ConnDead(c) ELSE UNCHANGED <<phase, closes>>
  BY DEF ReadRequest, CanRead
<1>2. /\ Parsing(c) \in Nat /\ Complete(c)' = Complete(c) \union {Parsing(c)}
      /\ \A x \in Complete(c) : x < Parsing(c)
      /\ Newest(c)'
      /\ seq' \in [Conn -> Nat] /\ ruc' \in [Conn -> Nat]
      /\ \A d \in Conn \ {c} : seq'[d] = seq[d] /\ ruc'[d] = ruc[d]
  BY NewRequest
<1>3. /\ Closing(c)' /\ phase'[c] \in {"open", "closing"}
      /\ phase' \in [Conn -> {"none", "open", "closing", "freed"}] /\ closes' \in [Conn -> Nat]
      /\ \A d \in Conn \ {c} : phase'[d] = phase[d] /\ closes'[d] = closes[d]
  <2>1. CASE bad
    <3>1. ConnDead(c)
      BY <1>1, <2>1
    <3> QED BY <1>1, <3>1, DeadClosing
  <2>2. CASE ~ bad
    <3>1. UNCHANGED <<phase, closes>>
      BY <1>1, <2>2
    <3> QED BY <1>1, <3>1 DEF HttpInv, HttpType, ConnInv, Closing
  <2> QED BY <2>1, <2>2
<1>4. HttpType'
  BY <1>1, <1>2, <1>3 DEF HttpInv, HttpType
<1>5. \A d \in Conn \ {c} : Same(d)
  BY <1>1, <1>2, <1>3 DEF Same
<1>6. ConnInv(c)
  BY DEF HttpInv
<1>7. Below(popped[c], q'[c])
  <2>1. \A x \in Elems(popped[c]), y \in Elems(q[c]) : x < y
    BY <1>6, BelowIs DEF ConnInv, InOrder
  <2>2. \A x \in Elems(popped[c]) : x < Parsing(c)
    BY <1>2, <1>6 DEF ConnInv, InOrder
  <2>3. \A x \in Elems(popped[c]), y \in Elems(q'[c]) : x < y
    BY <2>1, <2>2
  <2> QED BY <2>3, BelowIs
<1>8. InOrder(c)'
  <2>1. /\ Elems(q'[c]) \subseteq Complete(c)' /\ Elems(popped'[c]) \subseteq Complete(c)'
        /\ Elems(thuds'[c]) \subseteq Complete(c)' /\ end'[c] \subseteq Complete(c)'
    BY <1>1, <1>2, <1>6 DEF ConnInv, InOrder
  <2>2. /\ Rising(q'[c]) /\ Rising(popped'[c]) /\ Rising(thuds'[c])
        /\ Below(popped'[c], q'[c]) /\ Below(popped'[c], thuds'[c])
    BY <1>1, <1>6, <1>7 DEF ConnInv, InOrder
  <2> QED BY <2>1, <2>2 DEF InOrder
<1>9. GivenUp(c)' /\ Written(c)' /\ FirstWaits(c)'
  BY <1>1, <1>3, <1>6 DEF ConnInv, GivenUp, Written, FirstWaits
<1>10. Found(c)'
  BY <1>1, <1>3 DEF Found
<1>11. Answered(c)'
  <2>1. Parsing(c) \notin heard[c]
    BY <1>6, NewRequest DEF ConnInv, Answered
  <2> QED BY <1>1, <1>2, <1>6, <2>1 DEF ConnInv, Answered
<1>12. ConnInv(c)'
  BY <1>2, <1>3, <1>8, <1>9, <1>10, <1>11 DEF ConnInv
<1> QED BY <1>1, <1>4, <1>5, <1>12, Only

\* A read with the end of a request.
LEMMA ReadRequestKeeps ==
    ASSUME HttpInv, NEW c \in Conn, NEW known, NEW bad, ReadRequest(c, known, bad) PROVE HttpInv'
<1> DEFINE r == Parsing(c)
<1>1. Queue(c, r) /\ up = "up" /\ phase[c] = "open" /\ popped' = popped /\ thuds' = thuds
  BY DEF ReadRequest, CanRead
<1>2. /\ r \in Nat /\ Complete(c)' = Complete(c) \union {r}
      /\ (\A x \in Complete(c) : x < r) /\ r \notin Complete(c)
  BY NewRequest
<1>3. ConnInv(c) /\ q[c] \in Seq(Nat) /\ lost[c] \in SUBSET Nat
  BY DEF HttpInv, HttpType
<1>4. /\ q \in [Conn -> Seq(Nat)] /\ qer \in [Conn -> Nat] /\ lost \in [Conn -> SUBSET Nat]
      /\ r \notin end[c]
  BY <1>2, <1>3 DEF HttpInv, HttpType, ConnInv, InOrder
<1>5. \A x \in Elems(popped[c]) : x < r
  BY <1>2, <1>3 DEF ConnInv, InOrder
<1>6. \A x \in Complete(c) : x \in Known(c)
  BY <1>1, <1>3 DEF ConnInv, Found
<1>7. CASE qer[c] = 0
  <2>1. /\ q' = [q EXCEPT ![c] = <<r>>] /\ qer' = [qer EXCEPT ![c] = r] /\ lost' = lost
        /\ q[c] # << >> => up' # "up"
    BY <1>1, <1>7 DEF Queue
  <2> HIDE DEF r
  <2>2. q'[c] = <<r>> /\ q' \in [Conn -> Seq(Nat)] /\ qer' \in [Conn -> Nat]
    BY <1>2, <1>4, <2>1
  <2>3. Elems(<<r>>) = {r} /\ Rising(<<r>>) /\ <<r>>[1] = r
    BY DEF Elems, Rising
  <2>4. ASSUME NEW x \in Complete(c)'
        PROVE  \/ x \in Known(c)'
               \/ up' # "up" /\ \A i \in 1 .. Len(popped[c]) : popped[c][i] < x
    <3>1. CASE x = r
      BY <2>2, <2>3, <3>1 DEF Known
    <3>2. CASE x \in Known(c) /\ x \notin Elems(q[c])
      BY <1>1, <2>1, <3>2 DEF Known
    <3>3. CASE x \in Elems(q[c])
      <4>1. q[c] # << >>
        BY <3>3 DEF Elems
      <4>2. \A y \in Elems(popped[c]) : y < x
        BY <1>3, <3>3, BelowIs DEF ConnInv, InOrder
      <4> QED BY <2>1, <4>1, <4>2 DEF Elems
    <3> QED BY <1>2, <1>6, <3>1, <3>2, <3>3
  <2>5. \A d \in Conn \ {c} : q'[d] = q[d] /\ lost'[d] = lost[d]
    BY <1>4, <2>1
  <2>6. Rising(q'[c]) /\ Elems(q'[c]) \subseteq Elems(q[c]) \union {r} /\ q'[c][1] \notin end[c]
    BY <1>4, <2>2, <2>3
  <2> QED BY <1>4, <2>1, <2>2, <2>4, <2>5, <2>6, RequestPart DEF r
<1>8. CASE qer[c] # 0 /\ \E i \in 1 .. Len(q[c]) :
             /\ q' = [q EXCEPT ![c] = Append(SubSeq(q[c], 1, i), r)]
             /\ lost' = [lost EXCEPT ![c] = @ \union Elems(SubSeq(q[c], i + 1, Len(q[c])))]
             /\ qer' = qer
  <2>1. PICK i \in 1 .. Len(q[c]) :
             /\ q' = [q EXCEPT ![c] = Append(SubSeq(q[c], 1, i), r)]
             /\ lost' = [lost EXCEPT ![c] = @ \union Elems(SubSeq(q[c], i + 1, Len(q[c])))]
             /\ qer' = qer
    BY <1>8
  <2> HIDE DEF r
  <2> DEFINE cut == Elems(SubSeq(q[c], i + 1, Len(q[c])))
             t == q'[c]
  <2>2. Behind(t, q[c], i, r)
    BY <1>4, <2>1 DEF Behind
  <2>3. lost'[c] = lost[c] \union cut
    BY <1>4, <2>1
  <2>4. Rising(q[c]) /\ \A x \in Elems(q[c]) : x < r
    BY <1>2, <1>3 DEF ConnInv, InOrder
  <2> HIDE DEF t
  <2>5. /\ t \in Seq(Nat) /\ Rising(t) /\ t # << >> /\ t[1] = q[c][1]
        /\ Elems(t) \subseteq Elems(q[c]) \union {r} /\ r \in Elems(t)
        /\ Elems(q[c]) \subseteq Elems(t) \union cut
    BY <1>2, <1>3, <2>2, <2>4, Cut
  <2>6. q[c] # << >>
    BY <1>3
  <2>7. cut \in SUBSET Nat
    BY <1>3 DEF Elems
  <2> HIDE DEF cut
  <2>8. q' \in [Conn -> Seq(Nat)] /\ lost' \in [Conn -> SUBSET Nat] /\ qer' \in [Conn -> Nat]
    <3>1. q' \in [Conn -> Seq(Nat)]
      <4>1. q' = [q EXCEPT ![c] = t]
        BY <1>4, <2>1 DEF t
      <4> QED BY <1>4, <2>5, <4>1
    <3>2. lost' \in [Conn -> SUBSET Nat]
      <4>1. lost' = [lost EXCEPT ![c] = @ \union cut]
        BY <2>1 DEF cut
      <4> QED BY <1>4, <2>7, <4>1
    <3> QED BY <1>4, <2>1, <3>1, <3>2
  <2>9. \A d \in Conn \ {c} : q'[d] = q[d] /\ lost'[d] = lost[d]
    BY <1>4, <2>1
  <2>10. q'[c] # << >> => q'[c][1] \notin end[c]
    BY <1>3, <2>5, <2>6 DEF t, ConnInv, FirstWaits
  <2>11. ASSUME NEW x \in Complete(c)' PROVE x \in Known(c)'
    <3>1. CASE x = r
      BY <2>5, <3>1 DEF Known, t
    <3>2. CASE x \in Known(c)
      BY <1>1, <2>3, <2>5, <3>2 DEF Known, t
    <3> QED BY <1>2, <1>6, <3>1, <3>2
  <2> QED BY <2>5, <2>8, <2>9, <2>10, <2>11, RequestPart DEF r, t
<1>9. CASE up' = "undefined" /\ q' = q /\ lost' = lost /\ qer' = qer
  <2>1. ASSUME NEW x \in Complete(c)'
        PROVE  \/ x \in Known(c)'
               \/ up' # "up" /\ \A i \in 1 .. Len(popped[c]) : popped[c][i] < x
    <3> HIDE DEF r
    <3>1. CASE x = r
      BY <1>5, <1>9, <3>1 DEF Elems
    <3>2. CASE x \in Known(c)
      BY <1>1, <1>9, <3>2 DEF Known
    <3> QED BY <1>2, <1>6, <3>1, <3>2
  <2>2. Rising(q'[c]) /\ (q'[c] # << >> => q'[c][1] \notin end[c])
    BY <1>3, <1>9 DEF ConnInv, InOrder, FirstWaits
  <2> QED BY <1>4, <1>9, <2>1, <2>2, RequestPart
<1> QED BY <1>1, <1>7, <1>8, <1>9 DEF Queue

\* Fewer responses written than requests answered.
LEMMA MoveLess ==
    ASSUME NEW p \in Seq(Nat), NEW s \in Seq(Nat), NEW k \in 0 .. Len(s), NEW n \in 0 .. k
    PROVE  Starts(p \o SubSeq(s, 1, n), p \o SubSeq(s, 1, k))
<1>1. Len(s) \in Nat /\ Len(p) \in Nat /\ k \in Nat /\ n \in Nat /\ n <= k /\ k <= Len(s)
  BY LenProperties
<1> DEFINE a == SubSeq(s, 1, n)
           b == SubSeq(s, 1, k)
<1>2. a \in Seq(Nat) /\ Len(a) = n /\ \A i \in 1 .. n : a[i] = s[i]
  BY <1>1
<1>3. b \in Seq(Nat) /\ Len(b) = k /\ \A i \in 1 .. k : b[i] = s[i]
  BY <1>1
<1>4. \A i \in 1 .. n : a[i] = b[i]
  BY <1>1, <1>2, <1>3
<1> HIDE DEF a, b
<1>5. Starts(p \o a, p \o b)
  <2>1. Len(p \o a) = Len(p) + n /\ Len(p \o b) = Len(p) + k
    BY <1>2, <1>3, ConcatProperties
  <2>2. ASSUME NEW i \in 1 .. Len(p \o a) PROVE (p \o a)[i] = (p \o b)[i]
    <3>1. CASE i <= Len(p)
      BY <1>1, <1>2, <1>3, <3>1
    <3>2. CASE i > Len(p)
      <4>1. i - Len(p) \in 1 .. n /\ i - Len(p) \in 1 .. k
        BY <1>1, <2>1, <3>2
      <4>2. (p \o a)[i] = a[i - Len(p)] /\ (p \o b)[i] = b[i - Len(p)]
        <5>1. i \in 1 .. Len(p) + Len(a) /\ i \in 1 .. Len(p) + Len(b) /\ ~ (i <= Len(p))
          BY <1>1, <1>2, <1>3, <2>1, <3>2
        <5> QED BY <1>2, <1>3, <5>1, ConcatProperties
      <4> QED BY <1>4, <4>1, <4>2
    <3> QED BY <1>1, <2>1, <3>1, <3>2
  <2> QED BY <1>1, <2>1, <2>2 DEF Starts
<1> QED BY <1>5 DEF a, b

\* _http_flush.
LEMMA FlushKeeps ==
    ASSUME HttpInv, up = "up", NEW c \in Conn, NEW r \in Elems(q[c]),
           phase[c] \in {"open", "closing"}, Flush(c, end[c] \union {r}),
           heard' = [heard EXCEPT ![c] = @ \union {r}], UNCHANGED <<seq, ruc, thuds, lost>>
    PROVE  HttpInv'
<1> DEFINE e == end[c] \union {r}
           k == Ready(q[c], e)
           f == popped'[c]
           g == q'[c]
<1>1. /\ ConnInv(c) /\ q[c] \in Seq(Nat) /\ popped[c] \in Seq(Nat) /\ sent[c] \in Seq(Nat)
      /\ end[c] \in SUBSET Nat /\ q \in [Conn -> Seq(Nat)] /\ popped \in [Conn -> Seq(Nat)]
      /\ sent \in [Conn -> Seq(Nat)] /\ end \in [Conn -> SUBSET Nat] /\ qer \in [Conn -> Nat]
  BY DEF HttpInv, HttpType
<1>2. e \subseteq Complete(c) /\ e \in SUBSET Nat /\ Complete(c)' = Complete(c)
  <2>1. e \subseteq Complete(c)
    BY <1>1 DEF ConnInv, InOrder
  <2>2. r \in Nat
    BY <1>1 DEF Elems
  <2> QED BY <1>1, <2>1, <2>2 DEF Complete
<1>3. /\ k \in 0 .. Len(q[c]) /\ (\A i \in 1 .. k : q[c][i] \in e)
      /\ k < Len(q[c]) => q[c][k + 1] \notin e
  BY <1>1, ReadyIs
<1> HIDE DEF e
<1>4. /\ q' = [q EXCEPT ![c] = SubSeq(@, k + 1, Len(@))]
      /\ popped' = [popped EXCEPT ![c] = @ \o SubSeq(q[c], 1, k)]
      /\ end' = [end EXCEPT ![c] = e \ Elems(SubSeq(q[c], 1, k))]
      /\ \/ qer' = [qer EXCEPT ![c] = 0]
         \/ UNCHANGED qer
  BY DEF Flush, e
<1>5. PICK n \in (IF phase[c] = "closing" THEN {0} ELSE 0 .. k) :
        /\ sent' = [sent EXCEPT ![c] = @ \o SubSeq(q[c], 1, n)]
        /\ IF Breaks(c, n, k) THEN ConnDead(c) ELSE UNCHANGED <<phase, closes>>
  BY DEF Flush, e
<1> HIDE DEF k
<1>6. Moved(popped[c], q[c], k, f, g)
  BY <1>1, <1>4 DEF Moved
<1>7. Rising(popped[c]) /\ Rising(q[c]) /\ Below(popped[c], q[c])
  BY <1>1 DEF ConnInv, InOrder
<1>8. /\ f \in Seq(Nat) /\ g \in Seq(Nat) /\ Rising(f) /\ Rising(g) /\ Below(f, g)
      /\ Elems(f) \union Elems(g) = Elems(popped[c]) \union Elems(q[c])
      /\ g # << >> => k < Len(q[c]) /\ g[1] = q[c][k + 1]
      /\ Len(f) = Len(popped[c]) + k /\ \A i \in 1 .. Len(popped[c]) : f[i] = popped[c][i]
      /\ \A i \in 1 .. k : f[Len(popped[c]) + i] = q[c][i]
  <2> HIDE DEF f, g
  <2>1. /\ f \in Seq(Nat) /\ g \in Seq(Nat) /\ Rising(f) /\ Rising(g) /\ Below(f, g)
        /\ Elems(f) \union Elems(g) = Elems(popped[c]) \union Elems(q[c])
        /\ g # << >> => k < Len(q[c]) /\ g[1] = q[c][k + 1]
        /\ Len(f) = Len(popped[c]) + k /\ \A i \in 1 .. Len(popped[c]) : f[i] = popped[c][i]
    BY <1>1, <1>3, <1>6, <1>7, Move
  <2>2. \A i \in 1 .. k : f[Len(popped[c]) + i] = q[c][i]
    BY <1>1, <1>3, <1>6, <1>7, Move
  <2> QED BY <2>1, <2>2
<1>9. end'[c] \subseteq e
  BY <1>1, <1>4
<1>10. /\ Closing(c)' /\ phase'[c] \in {"open", "closing"}
       /\ phase' \in [Conn -> {"none", "open", "closing", "freed"}] /\ closes' \in [Conn -> Nat]
       /\ \A d \in Conn \ {c} : phase'[d] = phase[d] /\ closes'[d] = closes[d]
       /\ phase'[c] = "open" => phase[c] = "open" /\ ~ Breaks(c, n, k)
  <2>1. CASE Breaks(c, n, k)
    <3>1. ConnDead(c) /\ phase[c] = "open"
      BY <1>5, <2>1 DEF Breaks
    <3>2. /\ Closing(c)' /\ phase'[c] = "closing"
          /\ phase' \in [Conn -> {"none", "open", "closing", "freed"}] /\ closes' \in [Conn -> Nat]
          /\ \A d \in Conn \ {c} : phase'[d] = phase[d] /\ closes'[d] = closes[d]
      BY <3>1, DeadClosing
    <3> QED BY <3>2
  <2>2. CASE ~ Breaks(c, n, k)
    <3>1. UNCHANGED <<phase, closes>>
      BY <1>5, <2>2
    <3> QED BY <1>1, <2>2, <3>1 DEF HttpInv, HttpType, ConnInv, Closing
  <2> QED BY <2>1, <2>2
<1>11. n \in 0 .. k /\ k \in Nat /\ SubSeq(q[c], 1, n) \in Seq(Nat)
  <2>1. Len(q[c]) \in Nat
    BY <1>1, LenProperties
  <2>2. k \in Nat /\ k <= Len(q[c])
    BY <1>3, <2>1
  <2>3. n \in 0 .. k
    BY <1>5, <2>2
  <2> QED BY <1>1, <2>1, <2>2, <2>3
<1>12. sent'[c] = sent[c] \o SubSeq(q[c], 1, n) /\ sent'[c] \in Seq(Nat)
  BY <1>1, <1>5, <1>11
<1>13. HttpType'
  <2>1. q' \in [Conn -> Seq(Nat)] /\ popped' \in [Conn -> Seq(Nat)]
    <3>1. q' = [q EXCEPT ![c] = g] /\ popped' = [popped EXCEPT ![c] = f]
      BY <1>1, <1>4
    <3> HIDE DEF f, g
    <3> QED BY <1>1, <1>8, <3>1
  <2>2. sent' \in [Conn -> Seq(Nat)]
    BY <1>1, <1>5, <1>11
  <2>3. end' \in [Conn -> SUBSET Nat] /\ qer' \in [Conn -> Nat]
    <3> DEFINE x == e \ Elems(SubSeq(q[c], 1, k))
    <3>1. x \in SUBSET Nat /\ end' = [end EXCEPT ![c] = x]
      BY <1>2, <1>4
    <3> HIDE DEF x
    <3>2. end' \in [Conn -> SUBSET Nat]
      BY <1>1, <3>1
    <3>3. qer' \in [Conn -> Nat]
      <4>1. qer \in [Conn -> Nat] /\ (qer' = [qer EXCEPT ![c] = 0] \/ qer' = qer)
        BY <1>1, <1>4
      <4> QED BY <4>1
    <3> QED BY <3>2, <3>3
  <2>4. heard' \in [Conn -> SUBSET Nat]
    <3>1. heard \in [Conn -> SUBSET Nat] /\ r \in Nat
      BY <1>1 DEF HttpInv, HttpType, Elems
    <3> QED BY <3>1
  <2> QED BY <1>10, <2>1, <2>2, <2>3, <2>4 DEF HttpInv, HttpType
<1>14. \A d \in Conn \ {c} : Same(d)
  BY <1>1, <1>4, <1>5, <1>10 DEF Same, HttpInv, HttpType
<1>15. Known(c)' = Known(c)
  BY <1>8 DEF Known
<1>16. Found(c)'
  BY <1>1, <1>2, <1>15 DEF ConnInv, Found
<1>17. phase[c] # "freed" /\ phase'[c] # "freed" /\ thuds[c] = << >> /\ thuds'[c] = << >>
  BY <1>1, <1>10 DEF ConnInv, GivenUp
<1>18. InOrder(c)'
  <2>1. /\ Elems(g) \subseteq Complete(c)' /\ Elems(f) \subseteq Complete(c)'
        /\ Elems(thuds'[c]) \subseteq Complete(c)' /\ end'[c] \subseteq Complete(c)'
    BY <1>1, <1>2, <1>8, <1>9 DEF ConnInv, InOrder
  <2>2. Below(f, << >>) /\ Rising(<< >>)
    BY DEF Below, Rising
  <2> QED BY <1>8, <1>17, <2>1, <2>2 DEF InOrder
<1>19. FirstWaits(c)'
  BY <1>3, <1>8, <1>9 DEF FirstWaits
<1>20. Written(c)'
  <2>1. CASE phase[c] = "open"
    <3>1. sent[c] = popped[c]
      BY <1>1, <2>1 DEF ConnInv, Written
    <3>2. f = popped[c] \o SubSeq(q[c], 1, k)
      BY <1>6 DEF Moved
    <3>3. Starts(sent'[c], f)
      BY <1>1, <1>3, <1>11, <1>12, <3>1, <3>2, MoveLess
    <3>4. phase'[c] = "open" => n = k
      BY <1>10, <1>11, <2>1 DEF Breaks
    <3>5. phase'[c] = "open" => sent'[c] = f
      BY <1>12, <3>1, <3>2, <3>4
    <3> QED BY <1>10, <3>3, <3>5 DEF Written
  <2>2. CASE phase[c] = "closing"
    <3>1. n = 0
      BY <1>5, <2>2
    <3>2. sent'[c] = sent[c]
      BY <1>1, <1>12, <3>1
    <3>3. Starts(sent[c], f)
      <4>1. Starts(sent[c], popped[c])
        BY <1>1 DEF ConnInv, Written
      <4>2. Len(sent[c]) \in Nat /\ Len(popped[c]) \in Nat
        BY <1>1, LenProperties
      <4> DEFINE p == popped[c]
                 z == sent[c]
      <4>3. /\ Len(z) <= Len(p) /\ Len(p) <= Len(f)
            /\ \A i \in 1 .. Len(z) : i \in 1 .. Len(p) /\ z[i] = p[i]
        BY <1>8, <1>11, <4>1, <4>2 DEF Starts
      <4>4. \A i \in 1 .. Len(z) : z[i] = f[i]
        BY <1>8, <4>3
      <4>5. Len(z) <= Len(f)
        BY <1>8, <1>11, <4>2, <4>3
      <4> QED BY <4>4, <4>5 DEF Starts
    <3>4. phase'[c] # "open"
      BY <1>10, <2>2
    <3> QED BY <1>10, <3>2, <3>3, <3>4 DEF Written
  <2> QED BY <2>1, <2>2
<1>21. Newest(c)' /\ GivenUp(c)'
  BY <1>1, <1>17 DEF ConnInv, Newest, GivenUp
<1>22. Answered(c)'
  <2>1. heard'[c] = heard[c] \union {r} /\ r \in Complete(c) /\ heard[c] \subseteq Complete(c)
    BY <1>1, <1>2 DEF HttpInv, HttpType, ConnInv, Answered, InOrder
  <2>2. ASSUME NEW x \in Elems(g), x \in heard'[c] PROVE x \in end'[c]
    <3>1. x \in Elems(q[c]) \union Elems(popped[c]) /\ \A y \in Elems(f) : y < x
      BY <1>8, <2>2, BelowIs
    <3>2. Elems(SubSeq(q[c], 1, k)) \subseteq Elems(f)
      <4>1. Len(q[c]) \in Nat /\ Len(popped[c]) \in Nat
        BY <1>1, LenProperties
      <4>2. /\ Len(SubSeq(q[c], 1, k)) = k
            /\ \A i \in 1 .. k : SubSeq(q[c], 1, k)[i] = q[c][i]
        BY <1>1, <1>3, <1>11, <4>1
      <4>3. \A i \in 1 .. k : Len(popped[c]) + i \in 1 .. Len(f)
        BY <1>8, <1>11, <4>1
      <4>4. \A i \in 1 .. k : SubSeq(q[c], 1, k)[i] = f[Len(popped[c]) + i]
        BY <1>8, <4>2
      <4> HIDE DEF f
      <4>5. \A i \in 1 .. k : SubSeq(q[c], 1, k)[i] \in Elems(f)
        BY <4>3, <4>4 DEF Elems
      <4> QED BY <4>2, <4>5 DEF Elems
    <3>3. x \in Nat
      BY <1>8, <2>2 DEF Elems
    <3>4. x \notin Elems(f)
      BY <3>1, <3>3
    <3>5. x \in Elems(q[c])
      <4>1. Elems(popped[c]) \subseteq Elems(f)
        <5>1. \A i \in 1 .. Len(popped[c]) : i \in 1 .. Len(f)
          BY <1>1, <1>8, <1>11, LenProperties
        <5>2. \A i \in 1 .. Len(popped[c]) : popped[c][i] = f[i]
          BY <1>8
        <5> HIDE DEF f
        <5>3. \A i \in 1 .. Len(popped[c]) : popped[c][i] \in Elems(f)
          BY <5>1, <5>2 DEF Elems
        <5> QED BY <5>3 DEF Elems
      <4> QED BY <3>1, <3>4, <4>1
    <3>6. x \in e
      BY <1>1, <2>1, <2>2, <3>5 DEF ConnInv, Answered, e
    <3> QED BY <1>1, <1>4, <3>2, <3>4, <3>6
  <2> QED BY <1>2, <1>17, <2>1, <2>2 DEF Answered
<1>23. ConnInv(c)'
  BY <1>10, <1>16, <1>18, <1>19, <1>20, <1>21, <1>22 DEF ConnInv
<1> QED BY <1>13, <1>14, <1>23, Only

\* The kernel's answer, and the flush it causes.
LEMMA ThouKeeps == ASSUME HttpInv, NEW c \in Conn, NEW r, Thou(c, r) PROVE HttpInv'
<1>1. CASE /\ phase[c] \in {"open", "closing"} /\ r \in Elems(q[c]) /\ Flush(c, end[c] \union {r})
           /\ heard' = [heard EXCEPT ![c] = @ \union {r}] /\ UNCHANGED <<seq, ruc, thuds, lost>>
  BY <1>1, FlushKeeps DEF Thou
<1>2. CASE UNCHANGED <<up, phase, closes, seq, ruc, q, qer, end, sent, popped, thuds, lost, heard>>
  <2>1. HttpType' /\ \A d \in Conn : Same(d)
    BY <1>2 DEF HttpInv, HttpType, Same
  <2> QED BY <1>2, <2>1, SameKeeps DEF HttpInv
<1> QED BY <1>1, <1>2 DEF Thou

-----------------------------------------------------------------------------

(* The specification. *)

\* Before any connection.
LEMMA HttpInit == Init => HttpInv
<1> SUFFICES ASSUME Init PROVE HttpInv
  OBVIOUS
<1>1. HttpType
  BY DEF Init, HttpType
<1>2. ASSUME NEW c \in Conn PROVE ConnInv(c)
  <2>1. /\ phase[c] = "none" /\ closes[c] = 0 /\ seq[c] = 1 /\ ruc[c] = 0 /\ q[c] = << >>
        /\ end[c] = {} /\ sent[c] = << >> /\ popped[c] = << >> /\ thuds[c] = << >>
        /\ heard[c] = {}
    BY DEF Init
  <2>2. Complete(c) = {} /\ Elems(<< >>) = {} /\ Rising(<< >>) /\ Below(<< >>, << >>)
        /\ Starts(<< >>, << >>)
    BY <2>1 DEF Complete, Elems, Rising, Below, Starts
  <2> QED BY <2>1, <2>2 DEF ConnInv, Closing, Newest, InOrder, GivenUp, Written, FirstWaits,
      Answered, Found
<1> QED BY <1>1, <1>2 DEF HttpInv

\* One step of any kind.
LEMMA HttpNext == HttpInv /\ [Next]_vars => HttpInv'
<1> SUFFICES ASSUME HttpInv, [Next]_vars PROVE HttpInv'
  OBVIOUS
<1>1. ASSUME NEW c \in Conn,
             ConnNew(c) \/ ReadPart(c) \/ ReadTwo(c) \/ ReadError(c) \/ ConnFree(c)
      PROVE  HttpInv'
  BY <1>1, ConnNewKeeps, ReadPartKeeps, ReadTwoKeeps, ReadErrorKeeps, ConnFreeKeeps
<1>2. ASSUME NEW c \in Conn, NEW known \in BOOLEAN, NEW bad \in BOOLEAN, ReadRequest(c, known, bad)
      PROVE  HttpInv'
  BY <1>2, ReadRequestKeeps
<1>3. ASSUME NEW c \in Conn, NEW r \in Req, Thou(c, r) PROVE HttpInv'
  BY <1>3, ThouKeeps
<1>4. CASE UNCHANGED vars
  <2>1. up' = up /\ HttpType' /\ \A d \in Conn : Same(d)
    BY <1>4 DEF HttpInv, HttpType, Same, vars
  <2> QED BY <2>1, SameKeeps DEF HttpInv
<1> QED BY <1>1, <1>2, <1>3, <1>4 DEF Next

\* The invariant of the server (HttpInv): every request read to its end is
\* queued, answered, given up or lost, and queue, answers and responses written
\* are in the order of the requests.
THEOREM HttpInvCorrect == Spec => []HttpInv
BY HttpInit, HttpNext, PTL DEF Spec

\* NothingReadyWaits: _http_flush leaves no answered request at the front of a
\* queue.
THEOREM ReadyIsSent == Spec => []NothingReadyWaits
<1>1. HttpInv => NothingReadyWaits
  BY DEF HttpInv, ConnInv, FirstWaits, NothingReadyWaits
<1> QED BY <1>1, HttpInvCorrect, PTL

\* ClosedOnce: _http_conn_dead calls uv_close at most once on a connection.
THEOREM ConnClosedOnce == Spec => []ClosedOnce
<1>1. HttpInv => ClosedOnce
  BY DEF HttpInv, ConnInv, Closing, ClosedOnce
<1> QED BY <1>1, HttpInvCorrect, PTL

\* ResponsesInOrder: when a response was written, those of all earlier requests
\* were written before it, but for requests the queue lost.
THEOREM PipelineInOrder == Spec => []ResponsesInOrder
<1>1. HttpInv => ResponsesInOrder
  <2> SUFFICES ASSUME HttpInv, NEW c \in Conn, NEW i \in 1 .. Len(sent[c]), NEW r \in Complete(c),
                      r < sent[c][i], r \notin lost[c]
               PROVE  \E h \in 1 .. (i - 1) : sent[c][h] = r
    BY DEF ResponsesInOrder
  <2>1. /\ ConnInv(c) /\ sent[c] \in Seq(Nat) /\ popped[c] \in Seq(Nat)
        /\ q[c] \in Seq(Nat) /\ thuds[c] \in Seq(Nat)
    BY DEF HttpInv, HttpType
  <2>2. Len(sent[c]) \in Nat /\ Len(popped[c]) \in Nat /\ Starts(sent[c], popped[c])
    BY <2>1, LenProperties DEF ConnInv, Written
  <2>3. i \in 1 .. Len(popped[c]) /\ popped[c][i] = sent[c][i] /\ popped[c][i] \in Nat
    BY <2>1, <2>2 DEF Starts
  <2>4. r \in Nat
    <3>1. seq[c] \in Nat
      BY DEF HttpInv, HttpType
    <3> QED BY <3>1 DEF Complete
  <2>5. ~ (popped[c][i] < r) /\ r # popped[c][i]
    BY <2>3, <2>4
  <2>6. r \notin Elems(q[c]) /\ r \notin Elems(thuds[c])
    <3>1. popped[c][i] \in Elems(popped[c])
      BY <2>3 DEF Elems
    <3>2. /\ \A x \in Elems(popped[c]), y \in Elems(q[c]) : x < y
          /\ \A x \in Elems(popped[c]), y \in Elems(thuds[c]) : x < y
      BY <2>1, BelowIs DEF ConnInv, InOrder
    <3> QED BY <2>5, <3>1, <3>2
  <2>7. r \in Elems(popped[c])
    BY <2>1, <2>3, <2>5, <2>6 DEF ConnInv, Found, Known
  <2>8. PICK h \in 1 .. Len(popped[c]) : popped[c][h] = r
    BY <2>7 DEF Elems
  <2>9. h < i
    <3>1. i < h => popped[c][i] < popped[c][h]
      BY <2>1, <2>3 DEF ConnInv, InOrder, Rising
    <3>2. h # i /\ ~ (i < h)
      BY <2>5, <2>8, <3>1
    <3> QED BY <2>2, <3>2
  <2>10. h \in 1 .. (i - 1) /\ h \in 1 .. Len(sent[c])
    BY <2>2, <2>9
  <2> QED BY <2>2, <2>8, <2>10 DEF Starts
<1> QED BY <1>1, HttpInvCorrect, PTL

\* A request of a freed connection is among those flushed and given up, once.
LEMMA LeftOnce ==
    ASSUME HttpInv, NEW c \in Conn, phase[c] = "freed", NEW r \in Complete(c) \ lost[c]
    PROVE  Cardinality({i \in 1 .. Len(popped[c] \o thuds[c]) :
                          (popped[c] \o thuds[c])[i] = r}) = 1
<1> DEFINE f == popped[c] \o thuds[c]
           t == thuds[c]
<1>1. ConnInv(c) /\ popped[c] \in Seq(Nat) /\ t \in Seq(Nat) /\ q[c] = << >>
  BY DEF HttpInv, HttpType, ConnInv, GivenUp
<1>2. r \in Elems(popped[c]) \union Elems(t)
  <2>1. Elems(<< >>) = {}
    BY DEF Elems
  <2> QED BY <1>1, <2>1 DEF ConnInv, Found, Known
<1>3. Rising(popped[c]) /\ Rising(t) /\ Below(popped[c], t)
  BY <1>1 DEF ConnInv, InOrder
<1>4. Len(t) \in 0 .. Len(t) /\ SubSeq(t, 1, Len(t)) = t /\ SubSeq(t, Len(t) + 1, Len(t)) = << >>
  <2> HIDE DEF t
  <2> QED BY <1>1, LenProperties
<1>5. Moved(popped[c], t, Len(t), f, << >>)
  BY <1>4 DEF Moved
<1> HIDE DEF f, t
<1>6. f \in Seq(Nat) /\ Rising(f)
        /\ Elems(f) \union Elems(<< >>) = Elems(popped[c]) \union Elems(t)
  BY <1>1, <1>3, <1>4, <1>5, Move
<1>7. r \in Elems(f)
  <2>1. Elems(<< >>) = {}
    BY DEF Elems
  <2> QED BY <1>2, <1>6, <2>1
<1>8. PICK h \in 1 .. Len(f) : f[h] = r
  BY <1>7 DEF Elems
<1>9. ASSUME NEW i \in 1 .. Len(f), f[i] = r PROVE i = h
  <2>1. f[i] \in Nat /\ f[h] \in Nat /\ Len(f) \in Nat
    BY <1>6, LenProperties
  <2>2. ~ (i < h) /\ ~ (h < i)
    BY <1>6, <1>8, <1>9, <2>1 DEF Rising
  <2> QED BY <2>1, <2>2
<1>10. {i \in 1 .. Len(f) : f[i] = r} = {h}
  BY <1>8, <1>9
<1>11. Cardinality({i \in 1 .. Len(f) : f[i] = r}) = 1
  BY <1>10, FS_Singleton
<1> QED BY <1>11 DEF f, t

\* FlushedOrThud: every request of a freed connection was flushed or given up
\* with %thud, exactly once, but for requests the queue lost; one that the
\* kernel had answered is given up only behind one that it had not.
THEOREM KernelToldOnce == Spec => []FlushedOrThud
<1>1. ASSUME HttpInv, NEW c \in Conn, NEW r \in Elems(thuds[c]) \intersect heard[c]
      PROVE  \E s \in Elems(thuds[c]) \ heard[c] : s < r
  <2>1. thuds[c] \in Seq(Nat) /\ ConnInv(c)
    BY <1>1 DEF HttpInv, HttpType
  <2>2. PICK i \in 1 .. Len(thuds[c]) : thuds[c][i] = r
    BY <1>1 DEF Elems
  <2>3. thuds[c] # << >> /\ 1 \in 1 .. Len(thuds[c]) /\ i \in Nat
    BY <2>1, <2>2, LenProperties
  <2>4. thuds[c][1] \notin heard[c] /\ i # 1
    BY <1>1, <2>1, <2>2, <2>3 DEF ConnInv, Answered
  <2>5. thuds[c][1] < r
    BY <2>1, <2>2, <2>3, <2>4 DEF ConnInv, InOrder, Rising
  <2>6. thuds[c][1] \in Elems(thuds[c]) \ heard[c]
    BY <2>3, <2>4 DEF Elems
  <2> QED BY <2>5, <2>6
<1>2. HttpInv => FlushedOrThud
  BY <1>1, LeftOnce DEF FlushedOrThud
<1> QED BY <1>2, HttpInvCorrect, PTL
=============================================================================

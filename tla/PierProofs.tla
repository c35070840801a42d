----------------------------- MODULE PierProofs -----------------------------
(***************************************************************************)
(* Proofs about the event loop, for any number of events: it uses the log  *)
(* as Egz says, so that what is proved of Egz holds beside it; replaying   *)
(* the logged events gives the world state and each checkpoint; and events *)
(* are applied in the order they were planned.                             *)
(***************************************************************************)
EXTENDS Pier, EgzProofs, SequenceTheorems

-----------------------------------------------------------------------------

(* The log beside the event loop. *)

\* A step of the process is a step of the log, or none of its own.
LEMMA PierStep == [PierNext]_pierVars => [Next]_vars
<1> SUFFICES ASSUME [PierNext]_pierVars PROVE Next \/ UNCHANGED vars
  OBVIOUS
<1>1. CASE UNCHANGED pierVars
  BY <1>1 DEF pierVars
<1>2. CASE PierNext
  <2>1. ~ fatal
    BY <1>2 DEF PierNext
  <2>2. CASE Input \/ WorkStart \/ Punk \/ PunkDone \/ CartDone \/ Lead \/ TimeSave \/ Shutdown
    BY <2>2 DEF Input, WorkStart, Punk, PunkDone, CartDone, Lead, TimeSave, Shutdown
  <2>3. CASE Cart
    BY <2>1, <2>3 DEF Cart, Next, MainThread
  <2>4. CASE EgzInit
    BY <2>1, <2>4 DEF EgzInit, Next, MainThread
  <2>5. CASE Callback
    BY <2>1, <2>5 DEF Callback, Next, MainThread
  <2>6. CASE Background
    BY <2>1, <2>6 DEF Background, Next
  <2> QED BY <1>2, <2>2, <2>3, <2>4, <2>5, <2>6 DEF PierNext
<1> QED BY <1>1, <1>2

\* The process uses the log as Egz says: every behaviour of the event loop with
\* the threads beside it is one of Egz.
THEOREM PierUsesEgz == PierSpec => Spec
<1>1. PierInit => Init
  BY DEF PierInit
<1> QED BY <1>1, PierStep, PTL DEF PierSpec, Spec

\* So the log of a running pier is never fatal, loses nothing that was logged,
\* neither to a kill nor, at rest, to a power loss, and writes each entry once
\* and in order.
THEOREM PierLogs ==
    PierSpec => [](TypeOK /\ NoFatal) /\ []NothingLost /\ []DurableAtRest /\ LogRefined
BY PierUsesEgz, NeverFatal, CopyOnDisk, RestIsDurable, EgzImplementsEventLog, PTL

-----------------------------------------------------------------------------

(* Results and the world state. *)

Applied == Nat \X Form
Result == [ovo : Applied, new : BOOLEAN]

NewIn(s) == {j \in 1 .. Len(s) : s[j].new}

\* What r holds after its first n elements is, in order, what the results s
\* with a new state hold; at says where in s.
Fits(at, r, n, s) ==
    /\ at \in [1 .. (Len(r) - n) -> NewIn(s)]
    /\ \A i, j \in 1 .. (Len(r) - n) : i < j => at[i] < at[j]
    /\ \A j \in NewIn(s) : \E i \in 1 .. (Len(r) - n) : at[i] = j
    /\ \A i \in 1 .. (Len(r) - n) : r[n + i] = s[at[i]].ovo

\* No results, nothing more in the world state.
LEMMA FitsNone ==
    ASSUME NEW r, NEW n, NEW s, 1 .. (Len(r) - n) = {}, NewIn(s) = {}
    PROVE  \E at : Fits(at, r, n, s)
<1> DEFINE at == [i \in {} |-> i]
<1>1. at \in [{} -> {}]
  OBVIOUS
<1> HIDE DEF at
<1>2. Fits(at, r, n, s)
  BY <1>1 DEF Fits
<1> QED BY <1>2

\* A result more.
Adds(s, x, t) == t = Append(s, x)

\* What an element more makes of a sequence.
LEMMA AddsIs ==
    ASSUME NEW X, NEW s \in Seq(X), NEW x \in X, NEW t, Adds(s, x, t)
    PROVE  /\ t \in Seq(X) /\ Len(t) = Len(s) + 1 /\ t[Len(s) + 1] = x /\ Len(s) \in Nat
           /\ \A i \in 1 .. Len(s) : t[i] = s[i]
BY LenProperties DEF Adds

\* It is new if it has a new state.
LEMMA NewOfAdds ==
    ASSUME NEW s \in Seq(Result), NEW x \in Result, NEW t, Adds(s, x, t)
    PROVE  NewIn(t) = NewIn(s) \union (IF x.new THEN {Len(s) + 1} ELSE {})
<1>1. /\ t \in Seq(Result) /\ Len(t) = Len(s) + 1 /\ t[Len(s) + 1] = x /\ Len(s) \in Nat
      /\ \A i \in 1 .. Len(s) : t[i] = s[i]
  BY AddsIs
<1>2. \A i : i \in 1 .. Len(t) <=> i \in 1 .. Len(s) \/ i = Len(s) + 1
  BY <1>1
<1> QED BY <1>1, <1>2 DEF NewIn

\* A result without a new state.
LEMMA FitsOld ==
    ASSUME NEW s \in Seq(Result), NEW x \in Result, NEW t, Adds(s, x, t), ~ x.new,
           NEW r \in Seq(Applied), NEW n \in Nat, NEW at, Fits(at, r, n, s)
    PROVE  Fits(at, r, n, t)
<1>1. NewIn(t) = NewIn(s)
  BY NewOfAdds
<1>2. \A j \in NewIn(s) : t[j] = s[j]
  BY AddsIs DEF NewIn
<1> QED BY <1>1, <1>2 DEF Fits

\* A result with a new state, in the world state as well.
LEMMA FitsNew ==
    ASSUME NEW s \in Seq(Result), NEW r \in Seq(Applied), NEW n \in Nat, n <= Len(r),
           NEW at, Fits(at, r, n, s)
    PROVE  \A x \in Result : \A t, u :
              Adds(s, x, t) /\ x.new /\ Adds(r, x.ovo, u) => \E b : Fits(b, u, n, t)
<1> SUFFICES ASSUME NEW x \in Result, NEW t, NEW u, Adds(s, x, t), x.new, Adds(r, x.ovo, u)
             PROVE  \E b : Fits(b, u, n, t)
  OBVIOUS
<1> DEFINE m == Len(r) - n
           b == [i \in 1 .. (m + 1) |-> IF i = m + 1 THEN Len(s) + 1 ELSE at[i]]
<1>1. /\ u \in Seq(Applied) /\ Len(u) = Len(r) + 1 /\ u[Len(r) + 1] = x.ovo /\ Len(r) \in Nat
      /\ \A i \in 1 .. Len(r) : u[i] = r[i]
  <2>1. x.ovo \in Applied
    BY DEF Result
  <2> QED BY <2>1, AddsIs
<1>2. m \in Nat /\ Len(u) - n = m + 1 /\ n + m = Len(r) /\ n + (m + 1) = Len(r) + 1
  BY <1>1
<1>3. NewIn(t) = NewIn(s) \union {Len(s) + 1}
  BY NewOfAdds
<1>4. /\ Len(s) \in Nat /\ t[Len(s) + 1] = x /\ \A j \in NewIn(s) : t[j] = s[j] /\ j \in 1 .. Len(s)
  BY AddsIs DEF NewIn
<1>5. /\ at \in [1 .. m -> NewIn(s)] /\ \A i, j \in 1 .. m : i < j => at[i] < at[j]
      /\ \A j \in NewIn(s) : \E i \in 1 .. m : at[i] = j
      /\ \A i \in 1 .. m : r[n + i] = s[at[i]].ovo
  BY DEF Fits
<1> HIDE DEF m
<1>6. b[m + 1] = Len(s) + 1 /\ \A i \in 1 .. m : b[i] = at[i] /\ i \in 1 .. (m + 1)
  BY <1>2
<1>7. \A i \in 1 .. (m + 1) : i = m + 1 \/ i \in 1 .. m
  BY <1>2
<1>8. b \in [1 .. (m + 1) -> NewIn(t)]
  BY <1>3, <1>5, <1>7
<1> HIDE DEF b
<1>9. ASSUME NEW i \in 1 .. (m + 1), NEW j \in 1 .. (m + 1), i < j PROVE b[i] < b[j]
  <2>1. i \in 1 .. m
    BY <1>2, <1>9
  <2>2. CASE j = m + 1
    <3>1. at[i] \in 1 .. Len(s)
      BY <1>4, <1>5, <2>1
    <3> QED BY <1>4, <1>6, <2>1, <2>2, <3>1
  <2>3. CASE j \in 1 .. m
    BY <1>5, <1>6, <1>9, <2>1, <2>3
  <2> QED BY <1>7, <2>2, <2>3
<1>10. ASSUME NEW j \in NewIn(t) PROVE \E i \in 1 .. (m + 1) : b[i] = j
  <2>1. CASE j = Len(s) + 1
    <3>1. m + 1 \in 1 .. (m + 1)
      BY <1>2
    <3> QED BY <1>6, <2>1, <3>1
  <2>2. CASE j \in NewIn(s)
    BY <1>5, <1>6, <2>2
  <2> QED BY <1>3, <2>1, <2>2
<1>11. ASSUME NEW i \in 1 .. (m + 1) PROVE u[n + i] = t[b[i]].ovo
  <2>1. CASE i = m + 1
    BY <1>1, <1>2, <1>4, <1>6, <2>1
  <2>2. CASE i \in 1 .. m
    <3>1. n + i \in 1 .. Len(r)
      <4>1. i \in Nat /\ 1 <= i /\ i <= m
        BY <2>2
      <4> QED BY <1>1, <1>2, <4>1
    <3>2. u[n + i] = r[n + i]
      BY <1>1, <3>1
    <3>3. r[n + i] = s[at[i]].ovo /\ at[i] \in NewIn(s) /\ b[i] = at[i]
      BY <1>5, <1>6, <2>2
    <3>4. t[at[i]] = s[at[i]]
      BY <1>4, <3>3
    <3> QED BY <3>2, <3>3, <3>4
  <2> QED BY <1>7, <2>1, <2>2
<1>12. Fits(b, u, n, t)
  <2>1. Len(u) - n = m + 1
    BY <1>2
  <2> QED BY <1>8, <1>9, <1>10, <1>11, <2>1 DEF Fits
<1> QED BY <1>12

\* The first result taken away.
Rest(s, t) == s # << >> /\ t = Tail(s)

\* What is left are the other results, moved up.
LEMMA RestIs ==
    ASSUME NEW s \in Seq(Result), NEW t, Rest(s, t)
    PROVE  /\ t \in Seq(Result) /\ Len(s) = Len(t) + 1 /\ Len(t) \in Nat /\ Head(s) = s[1]
           /\ s[1] \in Result /\ \A i \in 1 .. Len(t) : t[i] = s[i + 1]
           /\ NewIn(t) = {j - 1 : j \in NewIn(s) \ {1}}
<1>1. /\ t \in Seq(Result) /\ Len(s) = Len(t) + 1 /\ Len(t) \in Nat /\ Head(s) = s[1]
      /\ s[1] \in Result /\ \A i \in 1 .. Len(t) : t[i] = s[i + 1]
  BY LenProperties DEF Rest
<1>2. ASSUME NEW i \in NewIn(t) PROVE i + 1 \in NewIn(s) \ {1} /\ i = (i + 1) - 1
  BY <1>1 DEF NewIn
<1>3. ASSUME NEW j \in NewIn(s) \ {1} PROVE j - 1 \in NewIn(t)
  <2>1. j - 1 \in 1 .. Len(t) /\ (j - 1) + 1 = j /\ s[j].new
    BY <1>1 DEF NewIn
  <2> QED BY <1>1, <2>1 DEF NewIn
<1> QED BY <1>1, <1>2, <1>3

\* The first result had no new state.
LEMMA FitsRestOld ==
    ASSUME NEW s \in Seq(Result), NEW t, Rest(s, t), ~ s[1].new,
           NEW r \in Seq(Applied), NEW n \in Nat, n <= Len(r), NEW at, Fits(at, r, n, s)
    PROVE  \E b : Fits(b, r, n, t)
<1> DEFINE m == Len(r) - n
           b == [i \in 1 .. m |-> at[i] - 1]
<1>1. /\ Len(s) = Len(t) + 1 /\ Len(t) \in Nat /\ \A i \in 1 .. Len(t) : t[i] = s[i + 1]
      /\ NewIn(t) = {j - 1 : j \in NewIn(s) \ {1}}
  BY RestIs
<1>2. 1 \notin NewIn(s) /\ \A j \in NewIn(s) : j \in 1 .. Len(s)
  BY DEF NewIn
<1>3. /\ at \in [1 .. m -> NewIn(s)] /\ \A i, j \in 1 .. m : i < j => at[i] < at[j]
      /\ \A j \in NewIn(s) : \E i \in 1 .. m : at[i] = j
      /\ \A i \in 1 .. m : r[n + i] = s[at[i]].ovo
  BY DEF Fits
<1> HIDE DEF m
<1>4. ASSUME NEW i \in 1 .. m
      PROVE  /\ b[i] = at[i] - 1 /\ b[i] \in NewIn(t) /\ at[i] \in Int /\ t[b[i]] = s[at[i]]
  <2>1. at[i] \in NewIn(s) \ {1} /\ at[i] \in 1 .. Len(s) /\ at[i] # 1
    BY <1>2, <1>3
  <2>2. at[i] - 1 \in 1 .. Len(t) /\ (at[i] - 1) + 1 = at[i]
    BY <1>1, <2>1
  <2> QED BY <1>1, <2>1, <2>2
<1>5. b \in [1 .. m -> NewIn(t)]
  BY <1>4
<1> HIDE DEF b
<1>6. \A i, j \in 1 .. m : i < j => b[i] < b[j]
  <2> SUFFICES ASSUME NEW i \in 1 .. m, NEW j \in 1 .. m, i < j PROVE b[i] < b[j]
    OBVIOUS
  <2>1. at[i] < at[j] /\ at[i] \in Int /\ at[j] \in Int
    BY <1>3, <1>4
  <2> QED BY <1>4, <2>1
<1>7. ASSUME NEW j \in NewIn(t) PROVE \E i \in 1 .. m : b[i] = j
  <2>1. PICK k \in NewIn(s) \ {1} : j = k - 1
    BY <1>1
  <2>2. PICK i \in 1 .. m : at[i] = k
    BY <1>3
  <2> QED BY <1>4, <2>1, <2>2
<1>8. \A i \in 1 .. m : r[n + i] = t[b[i]].ovo
  BY <1>3, <1>4
<1> QED BY <1>5, <1>6, <1>7, <1>8 DEF Fits, m

\* The first result had a new state: it is the next in the world state.
LEMMA FitsRestNew ==
    ASSUME NEW s \in Seq(Result), NEW t, Rest(s, t), s[1].new,
           NEW r \in Seq(Applied), NEW n \in Nat, n <= Len(r), NEW at, Fits(at, r, n, s)
    PROVE  n + 1 <= Len(r) /\ r[n + 1] = s[1].ovo /\ \E b : Fits(b, r, n + 1, t)
<1> DEFINE m == Len(r) - n
           b == [i \in 1 .. (m - 1) |-> at[i + 1] - 1]
<1>1. /\ Len(s) = Len(t) + 1 /\ Len(t) \in Nat /\ \A i \in 1 .. Len(t) : t[i] = s[i + 1]
      /\ NewIn(t) = {j - 1 : j \in NewIn(s) \ {1}}
  BY RestIs
<1>2. 1 \in NewIn(s) /\ \A j \in NewIn(s) : j \in 1 .. Len(s)
  BY <1>1 DEF NewIn
<1>3. /\ at \in [1 .. m -> NewIn(s)] /\ \A i, j \in 1 .. m : i < j => at[i] < at[j]
      /\ \A j \in NewIn(s) : \E i \in 1 .. m : at[i] = j
      /\ \A i \in 1 .. m : r[n + i] = s[at[i]].ovo
  BY DEF Fits
<1>4. m \in Nat /\ Len(r) - (n + 1) = m - 1 /\ Len(r) \in Nat /\ (m >= 1 => n + 1 <= Len(r))
  BY LenProperties
<1> HIDE DEF m
<1>5. m >= 1 /\ 1 \in 1 .. m /\ at[1] = 1
  <2>1. PICK i \in 1 .. m : at[i] = 1
    BY <1>2, <1>3
  <2>2. 1 \in 1 .. m
    BY <1>4
  <2>3. at[1] \in 1 .. Len(s) /\ (1 < i => at[1] < at[i])
    BY <1>2, <1>3, <2>2
  <2>4. ~ (1 < i)
    BY <1>1, <2>1, <2>3
  <2>5. i = 1
    BY <1>4, <2>4
  <2> QED BY <1>4, <2>1, <2>2, <2>5
<1>6. ASSUME NEW i \in 1 .. (m - 1)
      PROVE  /\ i + 1 \in 1 .. m /\ b[i] = at[i + 1] - 1 /\ b[i] \in NewIn(t) /\ at[i + 1] \in Int
             /\ t[b[i]] = s[at[i + 1]]
  <2>1. i + 1 \in 1 .. m /\ 1 < i + 1
    BY <1>4
  <2>2. at[i + 1] \in NewIn(s) /\ at[i + 1] \in 1 .. Len(s) /\ at[1] < at[i + 1]
    BY <1>2, <1>3, <1>5, <2>1
  <2>3. at[i + 1] # 1
    BY <1>1, <1>5, <2>2
  <2>4. at[i + 1] - 1 \in 1 .. Len(t) /\ (at[i + 1] - 1) + 1 = at[i + 1]
    BY <1>1, <2>2, <2>3
  <2> QED BY <1>1, <2>1, <2>2, <2>3, <2>4
<1>7. b \in [1 .. (m - 1) -> NewIn(t)]
  BY <1>6
<1> HIDE DEF b
<1>8. \A i, j \in 1 .. (m - 1) : i < j => b[i] < b[j]
  <2> SUFFICES ASSUME NEW i \in 1 .. (m - 1), NEW j \in 1 .. (m - 1), i < j PROVE b[i] < b[j]
    OBVIOUS
  <2>1. i + 1 \in 1 .. m /\ j + 1 \in 1 .. m /\ i + 1 < j + 1
    BY <1>4, <1>6
  <2>2. at[i + 1] < at[j + 1] /\ at[i + 1] \in Int /\ at[j + 1] \in Int
    BY <1>3, <1>6, <2>1
  <2> QED BY <1>6, <2>2
<1>9. ASSUME NEW j \in NewIn(t) PROVE \E i \in 1 .. (m - 1) : b[i] = j
  <2>1. PICK k \in NewIn(s) \ {1} : j = k - 1
    BY <1>1
  <2>2. PICK i \in 1 .. m : at[i] = k
    BY <1>3
  <2>3. i # 1
    BY <1>5, <2>1, <2>2
  <2>4. i - 1 \in 1 .. (m - 1) /\ (i - 1) + 1 = i
    BY <1>4, <2>3
  <2> QED BY <1>6, <2>1, <2>2, <2>4
<1>10. ASSUME NEW i \in 1 .. (m - 1) PROVE r[(n + 1) + i] = t[b[i]].ovo
  <2>1. (n + 1) + i = n + (i + 1)
    BY <1>4
  <2> QED BY <1>3, <1>6, <2>1
<1>11. Fits(b, r, n + 1, t)
  BY <1>4, <1>7, <1>8, <1>9, <1>10 DEF Fits
<1>12. r[n + 1] = s[1].ovo /\ n + 1 <= Len(r)
  BY <1>3, <1>4, <1>5
<1> QED BY <1>11, <1>12

-----------------------------------------------------------------------------

(* The invariant. *)

PierTypeOK ==
    /\ ent_d \in 0 .. MaxEnt /\ plans \in Nat
    /\ roe \in Seq(Nat) /\ ova \in Seq(Nat)
    /\ outs \in Seq(Result) /\ roc \in Seq(Applied)
    /\ ovo \in [Event -> Applied]
    /\ sav.ent \in Nat

\* Outside u2_raft_work every result is logged.
IdleIsLogged == main \in {"boot", "lead", "io"} => outs = << >>

\* The first ova of the world state are the logged ones, the others those of
\* the results still to log.
WorldIsLogged ==
    /\ ent_d <= Len(roc) /\ \A i \in 1 .. ent_d : roc[i] = ovo[i - 1]
    /\ \E at \in [1 .. (Len(roc) - ent_d) -> NewIn(outs)] : Fits(at, roc, ent_d, outs)

Rising(s) == \A i, j \in 1 .. Len(s) : i < j => s[i] < s[j]

\* The ova were planned in this order: those applied, those of the batch, and
\* those that wait.
PlannedInOrder ==
    /\ AppliedInOrder /\ Rising(ova) /\ Rising(roe)
    /\ \A i \in 1 .. Len(roc) : /\ roc[i][1] <= plans
                                /\ \A j \in 1 .. Len(ova) : roc[i][1] < ova[j]
                                /\ \A j \in 1 .. Len(roe) : roc[i][1] < roe[j]
    /\ \A i \in 1 .. Len(ova) : /\ ova[i] <= plans
                                /\ \A j \in 1 .. Len(roe) : ova[i] < roe[j]
    /\ \A i \in 1 .. Len(roe) : roe[i] <= plans

SavedIsReplay == sav.ent <= ent_d /\ CheckpointIsReplay

PierInv == PierTypeOK /\ IdleIsLogged /\ WorldIsLogged /\ PlannedInOrder /\ SavedIsReplay

\* A step beside the event loop.
LEMMA ParallelFrame ==
    ASSUME PierInv, UNCHANGED <<ent_d, workVars>>
    PROVE  PierInv'
<1>1. /\ ent_d' = ent_d /\ main' = main /\ plans' = plans /\ roe' = roe /\ ova' = ova
      /\ outs' = outs /\ roc' = roc /\ ovo' = ovo /\ sav' = sav
  BY DEF workVars
<1>2. PierTypeOK' /\ IdleIsLogged'
  BY <1>1 DEF PierInv, PierTypeOK, IdleIsLogged
<1>3. WorldIsLogged'
  BY <1>1 DEF PierInv, WorldIsLogged
<1>4. PlannedInOrder'
  BY <1>1 DEF PierInv, PlannedInOrder, AppliedInOrder, Rising
<1>5. SavedIsReplay'
  BY <1>1 DEF PierInv, SavedIsReplay, CheckpointIsReplay, Numbered
<1> QED BY <1>2, <1>3, <1>4, <1>5 DEF PierInv

\* A step that applies and logs nothing.
LEMMA WorldFrame ==
    ASSUME WorldIsLogged, UNCHANGED <<ent_d, roc, outs, ovo>>
    PROVE  WorldIsLogged'
BY DEF WorldIsLogged

\* A step that plans and applies nothing.
LEMMA OrderFrame ==
    ASSUME PlannedInOrder, UNCHANGED <<roc, ova, roe, plans>>
    PROVE  PlannedInOrder'
BY DEF PlannedInOrder, AppliedInOrder, Rising

\* A step that saves and logs nothing.
LEMMA SavedFrame ==
    ASSUME SavedIsReplay, UNCHANGED <<ent_d, sav, ovo>>
    PROVE  SavedIsReplay'
BY DEF SavedIsReplay, CheckpointIsReplay, Numbered

-----------------------------------------------------------------------------

(* Planning. *)

\* Ova have numbers.
LEMMA NumbersAre ==
    ASSUME PierTypeOK
    PROVE  /\ \A i \in 1 .. Len(roc) : roc[i][1] \in Nat
           /\ \A i \in 1 .. Len(ova) : ova[i] \in Nat
           /\ \A i \in 1 .. Len(roe) : roe[i] \in Nat
<1>1. \A i \in 1 .. Len(roc) : roc[i] \in Applied
  BY ElementOfSeq DEF PierTypeOK
<1>2. \A x \in Applied : x[1] \in Nat
  BY DEF Applied
<1>3. /\ \A i \in 1 .. Len(ova) : ova[i] \in Nat
      /\ \A i \in 1 .. Len(roe) : roe[i] \in Nat
  BY ElementOfSeq DEF PierTypeOK
<1> QED BY <1>1, <1>2, <1>3

\* u2_reck_plan puts a new number behind the others.
LEMMA PlanIs ==
    ASSUME roe \in Seq(Nat), plans \in Nat, NEW n \in 0 .. 1, Plan(n)
    PROVE  /\ roe' \in Seq(Nat) /\ plans' \in Nat /\ plans <= plans'
           /\ Len(roe) \in Nat /\ Len(roe') \in Nat
           /\ \A j \in 1 .. Len(roe') :
                 \/ j \in 1 .. Len(roe) /\ roe'[j] = roe[j]
                 \/ j = Len(roe) + 1 /\ plans < roe'[j] /\ roe'[j] <= plans'
<1> DEFINE new == [i \in 1 .. n |-> plans + i]
<1>1. n \in Nat /\ plans' = plans + n /\ roe' = roe \o new
  BY DEF Plan
<1>2. new \in Seq(Nat) /\ Len(new) = n /\ \A i \in 1 .. n : new[i] = plans + i
  <2>1. \A i \in 1 .. n : plans + i \in Nat
    OBVIOUS
  <2> HIDE DEF new
  <2>2. new \in [1 .. n -> Nat]
    BY <2>1 DEF new
  <2>3. new \in Seq(Nat)
    BY <1>1, <2>2
  <2> QED BY <1>1, <2>2, <2>3 DEF new
<1> HIDE DEF new
<1>3. /\ roe' \in Seq(Nat) /\ Len(roe') = Len(roe) + n /\ Len(roe) \in Nat
      /\ \A j \in 1 .. Len(roe) + n :
            roe'[j] = IF j <= Len(roe) THEN roe[j] ELSE new[j - Len(roe)]
  BY <1>1, <1>2, ConcatProperties, LenProperties
<1>4. ASSUME NEW j \in 1 .. Len(roe')
      PROVE  \/ j \in 1 .. Len(roe) /\ roe'[j] = roe[j]
             \/ j = Len(roe) + 1 /\ plans < roe'[j] /\ roe'[j] <= plans'
  <2>1. CASE j <= Len(roe)
    BY <1>3, <1>4, <2>1
  <2>2. CASE ~ (j <= Len(roe))
    <3>1. j = Len(roe) + 1 /\ n = 1 /\ j - Len(roe) = 1
      BY <1>3, <1>4, <2>2
    <3>2. roe'[j] = plans + 1
      BY <1>2, <1>3, <2>2, <3>1
    <3> QED BY <1>1, <3>1, <3>2
  <2> QED BY <2>1, <2>2
<1> QED BY <1>1, <1>3, <1>4

\* It is above all that was planned.
LEMMA PlanOrder ==
    ASSUME PierTypeOK, PlannedInOrder, NEW n \in 0 .. 1, Plan(n), roc' = roc, ova' = ova
    PROVE  PlannedInOrder' /\ roe' \in Seq(Nat) /\ plans' \in Nat
<1>1. /\ roe' \in Seq(Nat) /\ plans' \in Nat /\ plans <= plans' /\ plans \in Nat
      /\ Len(roe) \in Nat /\ Len(roe') \in Nat
      /\ \A j \in 1 .. Len(roe') :
            \/ j \in 1 .. Len(roe) /\ roe'[j] = roe[j]
            \/ j = Len(roe) + 1 /\ plans < roe'[j] /\ roe'[j] <= plans'
  BY PlanIs DEF PierTypeOK
<1>2. /\ \A i \in 1 .. Len(roc) : roc[i][1] \in Nat
      /\ \A i \in 1 .. Len(ova) : ova[i] \in Nat
      /\ \A i \in 1 .. Len(roe) : roe[i] \in Nat
      /\ \A i \in 1 .. Len(roe') : roe'[i] \in Nat
  BY <1>1, NumbersAre, ElementOfSeq
<1>3. ASSUME NEW i \in 1 .. Len(roe'), NEW j \in 1 .. Len(roe'), i < j PROVE roe'[i] < roe'[j]
  <2>1. i \in 1 .. Len(roe) /\ roe'[i] = roe[i] /\ roe[i] <= plans
    BY <1>1, <1>3 DEF PlannedInOrder
  <2>2. CASE j \in 1 .. Len(roe) /\ roe'[j] = roe[j]
    BY <1>3, <2>1, <2>2 DEF PlannedInOrder, Rising
  <2>3. CASE plans < roe'[j]
    BY <1>1, <1>2, <2>1, <2>3
  <2> QED BY <1>1, <2>2, <2>3
<1>4. Rising(ova)' /\ AppliedInOrder'
  BY DEF PlannedInOrder, Rising, AppliedInOrder
<1>5. ASSUME NEW i \in 1 .. Len(roc)
      PROVE  /\ roc[i][1] <= plans' /\ \A j \in 1 .. Len(ova) : roc[i][1] < ova[j]
             /\ \A j \in 1 .. Len(roe') : roc[i][1] < roe'[j]
  BY <1>1, <1>2 DEF PlannedInOrder
<1>6. ASSUME NEW i \in 1 .. Len(ova)
      PROVE  ova[i] <= plans' /\ \A j \in 1 .. Len(roe') : ova[i] < roe'[j]
  BY <1>1, <1>2 DEF PlannedInOrder
<1>7. ASSUME NEW i \in 1 .. Len(roe') PROVE roe'[i] <= plans'
  BY <1>1, <1>2 DEF PlannedInOrder
<1>8. Rising(roe)'
  BY <1>3 DEF Rising
<1> QED BY <1>1, <1>4, <1>5, <1>6, <1>7, <1>8 DEF PlannedInOrder

-----------------------------------------------------------------------------

(* A poke. *)

\* What taking the first away makes of a sequence.
LEMMA TailIs ==
    ASSUME NEW X, NEW s \in Seq(X), s # << >>, NEW t, t = Tail(s)
    PROVE  /\ t \in Seq(X) /\ Len(s) = Len(t) + 1 /\ Len(t) \in Nat /\ Head(s) = s[1]
           /\ s[1] \in X /\ 1 \in 1 .. Len(s)
           /\ \A i \in 1 .. Len(t) : t[i] = s[i + 1] /\ i + 1 \in 1 .. Len(s) /\ 1 < i + 1
BY LenProperties

\* The first of the batch is above all that was applied, and below the rest.
LEMMA PunkOrder ==
    ASSUME PierTypeOK, PlannedInOrder, ova # << >>, ova' = Tail(ova), roe' = roe, plans' = plans,
           roc' = roc \/ \E f \in Form : Adds(roc, <<Head(ova), f>>, roc')
    PROVE  PlannedInOrder' /\ ova' \in Seq(Nat) /\ roc' \in Seq(Applied)
<1>1. /\ ova' \in Seq(Nat) /\ Len(ova) = Len(ova') + 1 /\ Len(ova') \in Nat /\ Head(ova) = ova[1]
      /\ ova[1] \in Nat /\ 1 \in 1 .. Len(ova)
      /\ \A i \in 1 .. Len(ova') : ova'[i] = ova[i + 1] /\ i + 1 \in 1 .. Len(ova) /\ 1 < i + 1
  BY TailIs DEF PierTypeOK
<1>2. /\ roc' \in Seq(Applied)
      /\ \A i \in 1 .. Len(roc') : \/ i \in 1 .. Len(roc) /\ roc'[i] = roc[i]
                                   \/ i = Len(roc) + 1 /\ roc'[i][1] = ova[1]
      /\ Len(roc) \in Nat
  <2>1. CASE roc' = roc
    BY <2>1, LenProperties DEF PierTypeOK
  <2>2. CASE \E f \in Form : Adds(roc, <<Head(ova), f>>, roc')
    <3>1. PICK f \in Form : Adds(roc, <<Head(ova), f>>, roc')
      BY <2>2
    <3>2. <<ova[1], f>> \in Applied /\ <<ova[1], f>>[1] = ova[1]
      BY <1>1 DEF Applied
    <3>3. /\ roc' \in Seq(Applied) /\ Len(roc') = Len(roc) + 1
          /\ roc'[Len(roc) + 1] = <<ova[1], f>> /\ Len(roc) \in Nat
          /\ \A i \in 1 .. Len(roc) : roc'[i] = roc[i]
      BY <1>1, <3>1, <3>2, AddsIs DEF PierTypeOK
    <3>4. \A i \in 1 .. Len(roc') : i \in 1 .. Len(roc) \/ i = Len(roc) + 1
      BY <3>3
    <3> QED BY <3>2, <3>3, <3>4
  <2> QED BY <2>1, <2>2
<1>3. /\ \A i \in 1 .. Len(roc) : roc[i][1] \in Nat
      /\ \A i \in 1 .. Len(ova) : ova[i] \in Nat
      /\ \A i \in 1 .. Len(roe) : roe[i] \in Nat
      /\ plans \in Nat
  BY NumbersAre DEF PierTypeOK
<1>4. /\ \A i, j \in 1 .. Len(ova) : i < j => ova[i] < ova[j]
      /\ \A i, j \in 1 .. Len(roc) : i < j => roc[i][1] < roc[j][1]
      /\ \A i \in 1 .. Len(roc) : /\ roc[i][1] <= plans
                                  /\ \A j \in 1 .. Len(ova) : roc[i][1] < ova[j]
                                  /\ \A j \in 1 .. Len(roe) : roc[i][1] < roe[j]
      /\ \A i \in 1 .. Len(ova) : /\ ova[i] <= plans
                                  /\ \A j \in 1 .. Len(roe) : ova[i] < roe[j]
  BY DEF PlannedInOrder, AppliedInOrder, Rising
<1>5. ASSUME NEW i \in 1 .. Len(roc'), NEW j \in 1 .. Len(roc'), i < j
      PROVE  roc'[i][1] < roc'[j][1]
  <2>1. i \in 1 .. Len(roc) /\ roc'[i] = roc[i]
    BY <1>2, <1>5
  <2> QED BY <1>1, <1>2, <1>4, <1>5, <2>1
<1>6. ASSUME NEW i \in 1 .. Len(ova'), NEW j \in 1 .. Len(ova'), i < j
      PROVE  ova'[i] < ova'[j]
  BY <1>1, <1>4, <1>6
<1>7. ASSUME NEW i \in 1 .. Len(roc')
      PROVE  /\ roc'[i][1] <= plans /\ \A j \in 1 .. Len(ova') : roc'[i][1] < ova'[j]
             /\ \A j \in 1 .. Len(roe) : roc'[i][1] < roe[j]
  BY <1>1, <1>2, <1>4
<1>8. ASSUME NEW i \in 1 .. Len(ova')
      PROVE  ova'[i] <= plans /\ \A j \in 1 .. Len(roe) : ova'[i] < roe[j]
  BY <1>1, <1>4
<1>9. Rising(roe)' /\ \A i \in 1 .. Len(roe') : roe'[i] <= plans'
  BY DEF PlannedInOrder, Rising
<1> QED BY <1>1, <1>2, <1>5, <1>6, <1>7, <1>8, <1>9
        DEF PlannedInOrder, AppliedInOrder, Rising

\* The world state grows by a result with a new state, and by no other.
LEMMA SureWorld ==
    ASSUME PierTypeOK, WorldIsLogged, NEW o \in Applied, NEW new \in BOOLEAN, Sure(o, new),
           ent_d' = ent_d, ovo' = ovo
    PROVE  WorldIsLogged' /\ outs' \in Seq(Result)
<1> DEFINE x == [ovo |-> o, new |-> new]
<1>1. x \in Result /\ x.new = new /\ x.ovo = o
  BY DEF Result
<1>2. Adds(outs, x, outs') /\ (new => Adds(roc, o, roc')) /\ (~ new => roc' = roc)
  BY DEF Sure, Adds
<1> HIDE DEF x
<1>3. outs \in Seq(Result) /\ roc \in Seq(Applied) /\ ent_d \in Nat
  BY DEF PierTypeOK
<1>4. outs' \in Seq(Result)
  BY <1>1, <1>2, <1>3, AddsIs
<1>5. PICK at : Fits(at, roc, ent_d, outs)
  BY DEF WorldIsLogged
<1>6. \E b : Fits(b, roc', ent_d, outs')
  <2>1. CASE new
    <3>1. ent_d <= Len(roc) /\ x.new /\ Adds(roc, x.ovo, roc')
      BY <1>1, <1>2, <2>1 DEF WorldIsLogged
    <3>2. x \in Result /\ Adds(outs, x, outs')
      BY <1>1, <1>2
    <3> QED BY <1>3, <1>5, <3>1, <3>2, FitsNew
  <2>2. CASE ~ new
    BY <1>1, <1>2, <1>3, <1>5, <2>2, FitsOld
  <2> QED BY <2>1, <2>2
<1>7. ent_d <= Len(roc') /\ \A i \in 1 .. ent_d : roc'[i] = roc[i]
  <2>1. CASE new
    <3>1. Len(roc') = Len(roc) + 1 /\ Len(roc) \in Nat /\ \A i \in 1 .. Len(roc) : roc'[i] = roc[i]
      BY <1>2, <1>3, <2>1, AddsIs
    <3> QED BY <1>3, <3>1 DEF WorldIsLogged
  <2>2. CASE ~ new
    BY <1>2, <2>2 DEF WorldIsLogged
  <2> QED BY <2>1, <2>2
<1> QED BY <1>4, <1>6, <1>7 DEF WorldIsLogged, Fits

\* _raft_punk.
LEMMA PunkInv ==
    ASSUME PierInv, Punk
    PROVE  PierInv'
<1> USE DEF PierInv
<1>1. /\ main = "punk" /\ ova # << >> /\ ova' = Tail(ova) /\ ent_d' = ent_d
      /\ plans' = plans /\ roe' = roe /\ ovo' = ovo /\ sav' = sav
      /\ main' = main \/ main' = "dead"
  BY DEF Punk, vars, mainVars
<1>2. IdleIsLogged' /\ SavedIsReplay'
  BY <1>1, SavedFrame DEF IdleIsLogged
<1>3. CASE main' = "dead" /\ UNCHANGED <<roc, outs>>
  <2>1. WorldIsLogged'
    BY <1>1, <1>3, WorldFrame
  <2>2. PlannedInOrder' /\ ova' \in Seq(Nat)
    BY <1>1, <1>3, PunkOrder
  <2> QED BY <1>1, <1>2, <1>3, <2>1, <2>2 DEF PierTypeOK
<1>4. CASE \E f \in Form, new \in BOOLEAN : Sure(<<Head(ova), f>>, new)
  <2>1. PICK f \in Form, new \in BOOLEAN : Sure(<<Head(ova), f>>, new)
    BY <1>4
  <2>2. <<Head(ova), f>> \in Applied
    BY <1>1, TailIs DEF PierTypeOK, Applied
  <2>3. WorldIsLogged' /\ outs' \in Seq(Result)
    BY <1>1, <2>1, <2>2, SureWorld
  <2>4. roc' = roc \/ Adds(roc, <<Head(ova), f>>, roc')
    BY <2>1 DEF Sure, Adds
  <2>5. PlannedInOrder' /\ ova' \in Seq(Nat) /\ roc' \in Seq(Applied)
    BY <1>1, <2>4, PunkOrder
  <2> QED BY <1>1, <1>2, <2>3, <2>5 DEF PierTypeOK
<1> QED BY <1>3, <1>4 DEF Punk

-----------------------------------------------------------------------------

(* A result is logged. *)

\* The result logged is the next in the world state.
LEMMA CartWorld ==
    ASSUME PierTypeOK, WorldIsLogged, outs # << >>, outs' = Tail(outs), roc' = roc,
           \/ /\ Head(outs).new /\ ent_d < MaxEnt /\ ent_d' = ent_d + 1
              /\ ovo' = [ovo EXCEPT ![ent_d] = Head(outs).ovo]
           \/ ~ Head(outs).new /\ ent_d' = ent_d /\ ovo' = ovo
    PROVE  /\ WorldIsLogged' /\ outs' \in Seq(Result) /\ ovo' \in [Event -> Applied]
           /\ ent_d' \in 0 .. MaxEnt /\ ent_d <= ent_d'
           /\ \A i \in 1 .. ent_d : ovo'[i - 1] = ovo[i - 1]
<1>1. /\ outs \in Seq(Result) /\ roc \in Seq(Applied) /\ ent_d \in Nat /\ ent_d \in 0 .. MaxEnt
      /\ ovo \in [Event -> Applied] /\ MaxEnt \in Nat
  BY EgzBoundAssumption DEF PierTypeOK
<1>2. Rest(outs, outs')
  BY DEF Rest
<1>3. outs' \in Seq(Result) /\ Head(outs) = outs[1] /\ outs[1] \in Result
  BY <1>1, <1>2, RestIs
<1>4. PICK at : Fits(at, roc, ent_d, outs)
  BY DEF WorldIsLogged
<1>5. ent_d <= Len(roc) /\ \A i \in 1 .. ent_d : roc[i] = ovo[i - 1]
  BY DEF WorldIsLogged
<1>6. CASE /\ outs[1].new /\ ent_d < MaxEnt /\ ent_d' = ent_d + 1
           /\ ovo' = [ovo EXCEPT ![ent_d] = outs[1].ovo]
  <2>1. /\ ent_d + 1 <= Len(roc) /\ roc[ent_d + 1] = outs[1].ovo
        /\ \E b : Fits(b, roc, ent_d + 1, outs')
    BY <1>1, <1>2, <1>4, <1>5, <1>6, FitsRestNew
  <2>2. ent_d \in Event /\ outs[1].ovo \in Applied
    BY <1>1, <1>3, <1>6 DEF Event, Result
  <2>3. ovo' \in [Event -> Applied] /\ ovo'[ent_d] = outs[1].ovo
    BY <1>1, <1>6, <2>2
  <2>4. ASSUME NEW i \in 1 .. ent_d PROVE ovo'[i - 1] = ovo[i - 1]
    <3>1. i - 1 \in Event /\ i - 1 # ent_d
      BY <1>1, <1>6 DEF Event
    <3> QED BY <1>1, <1>6, <3>1
  <2>5. ASSUME NEW i \in 1 .. (ent_d + 1) PROVE roc[i] = ovo'[i - 1]
    <3>1. CASE i = ent_d + 1
      <4>1. i - 1 = ent_d
        BY <1>1, <3>1
      <4> QED BY <2>1, <2>3, <3>1, <4>1
    <3>2. CASE i \in 1 .. ent_d
      BY <1>5, <2>4, <3>2
    <3> QED BY <1>1, <3>1, <3>2
  <2>6. \E b \in [1 .. (Len(roc) - (ent_d + 1)) -> NewIn(outs')] : Fits(b, roc, ent_d + 1, outs')
    BY <2>1 DEF Fits
  <2>7. NewIn(outs)' = NewIn(outs')
    BY DEF NewIn
  <2>8. WorldIsLogged'
    BY <1>6, <2>1, <2>5, <2>6 DEF WorldIsLogged
  <2>9. ent_d + 1 \in 0 .. MaxEnt /\ ent_d <= ent_d + 1
    BY <1>1, <1>6
  <2> QED BY <1>3, <1>6, <2>3, <2>4, <2>8, <2>9
<1>7. CASE ~ outs[1].new /\ ent_d' = ent_d /\ ovo' = ovo
  <2>1. \E b : Fits(b, roc, ent_d, outs')
    BY <1>1, <1>2, <1>4, <1>5, <1>7, FitsRestOld
  <2>2. \E b \in [1 .. (Len(roc) - ent_d) -> NewIn(outs')] : Fits(b, roc, ent_d, outs')
    BY <2>1 DEF Fits
  <2>3. WorldIsLogged'
    BY <1>5, <1>7, <2>2 DEF WorldIsLogged
  <2> QED BY <1>1, <1>3, <1>7, <2>3
<1> QED BY <1>3, <1>6, <1>7

\* A turn of the second loop of u2_raft_work.
LEMMA CartInv ==
    ASSUME PierInv, Cart
    PROVE  PierInv'
<1> USE DEF PierInv
<1>1. /\ main = "cart" /\ main' = main /\ outs # << >> /\ outs' = Tail(outs)
      /\ ova' = ova /\ roc' = roc /\ sav' = sav
  BY DEF Cart
<1>2. \/ /\ Head(outs).new /\ ent_d < MaxEnt /\ ent_d' = ent_d + 1
         /\ ovo' = [ovo EXCEPT ![ent_d] = Head(outs).ovo]
      \/ ~ Head(outs).new /\ ent_d' = ent_d /\ ovo' = ovo
  BY DEF Cart, PushOva, vars, mainVars
<1>3. (\E n \in 0 .. 1 : Plan(n)) \/ UNCHANGED <<plans, roe>>
  BY DEF Cart
<1>4. /\ WorldIsLogged' /\ outs' \in Seq(Result) /\ ovo' \in [Event -> Applied]
      /\ ent_d' \in 0 .. MaxEnt /\ ent_d <= ent_d'
      /\ \A i \in 1 .. ent_d : ovo'[i - 1] = ovo[i - 1]
  BY <1>1, <1>2, CartWorld
<1>5. PlannedInOrder' /\ roe' \in Seq(Nat) /\ plans' \in Nat
  <2>1. CASE UNCHANGED <<plans, roe>>
    BY <1>1, <2>1, OrderFrame DEF PierTypeOK
  <2>2. CASE \E n \in 0 .. 1 : Plan(n)
    BY <1>1, <2>2, PlanOrder
  <2> QED BY <1>3, <2>1, <2>2
<1>6. SavedIsReplay'
  <2>1. /\ sav.ent \in Nat /\ sav.ent <= ent_d /\ ent_d \in 0 .. MaxEnt /\ MaxEnt \in Nat
        /\ sav.roc = [i \in 1 .. sav.ent |-> ovo[i - 1]]
    BY EgzBoundAssumption DEF PierTypeOK, SavedIsReplay, CheckpointIsReplay, Numbered
  <2>2. \A i \in 1 .. sav.ent : i \in 1 .. ent_d
    BY <2>1
  <2>3. [i \in 1 .. sav.ent |-> ovo[i - 1]] = [i \in 1 .. sav.ent |-> ovo'[i - 1]]
    BY <1>4, <2>2
  <2>4. sav.ent <= ent_d'
    BY <1>4, <2>1
  <2> QED BY <1>1, <2>1, <2>3, <2>4 DEF SavedIsReplay, CheckpointIsReplay, Numbered
<1>7. IdleIsLogged'
  BY <1>1 DEF IdleIsLogged
<1> QED BY <1>1, <1>4, <1>5, <1>6, <1>7 DEF PierTypeOK

-----------------------------------------------------------------------------

(* A checkpoint, and the other steps. *)

\* With every result logged, the world state is the replay of the log.
LEMMA WorldIsReplay ==
    ASSUME PierTypeOK, WorldIsLogged, outs = << >>
    PROVE  roc = Numbered(ent_d)
<1>1. roc \in Seq(Applied) /\ ent_d \in Nat /\ Len(roc) \in Nat
  BY LenProperties DEF PierTypeOK
<1>2. NewIn(outs) = {}
  BY DEF NewIn
<1>3. PICK at : at \in [1 .. (Len(roc) - ent_d) -> {}]
  BY <1>2 DEF WorldIsLogged
<1>4. 1 .. (Len(roc) - ent_d) = {}
  BY <1>3
<1>5. Len(roc) = ent_d
  <2>1. ent_d <= Len(roc)
    BY DEF WorldIsLogged
  <2>2. ~ (1 <= Len(roc) - ent_d)
    <3>1. SUFFICES ASSUME 1 <= Len(roc) - ent_d PROVE FALSE
      OBVIOUS
    <3>2. 1 \in 1 .. (Len(roc) - ent_d)
      BY <1>1, <3>1
    <3> QED BY <1>4, <3>2
  <2> QED BY <1>1, <2>1, <2>2
<1>6. roc = [i \in 1 .. Len(roc) |-> roc[i]]
  BY <1>1
<1>7. \A i \in 1 .. ent_d : roc[i] = ovo[i - 1]
  BY DEF WorldIsLogged
<1> QED BY <1>5, <1>6, <1>7 DEF Numbered

\* u2_loom_save outside u2_raft_work.
LEMMA SaveInv ==
    ASSUME PierTypeOK, WorldIsLogged, outs = << >>, Save, ent_d' = ent_d, ovo' = ovo
    PROVE  SavedIsReplay' /\ sav'.ent \in Nat
<1>1. sav'.ent = ent_d /\ sav'.roc = roc /\ ent_d \in Nat
  BY DEF Save, PierTypeOK
<1>2. roc = Numbered(ent_d)
  BY WorldIsReplay
<1> QED BY <1>1, <1>2 DEF SavedIsReplay, CheckpointIsReplay, Numbered

\* The steps of the main thread that log and apply nothing.
LEMMA LoopInv ==
    ASSUME PierInv, Input \/ WorkStart \/ PunkDone \/ CartDone \/ Lead \/ TimeSave \/ Shutdown
    PROVE  PierInv'
<1> USE DEF PierInv
<1>1. /\ ent_d' = ent_d /\ outs' = outs /\ roc' = roc /\ ovo' = ovo
  BY DEF Input, WorkStart, PunkDone, CartDone, Lead, TimeSave, Shutdown, vars, mainVars
<1>2. WorldIsLogged'
  BY <1>1, WorldFrame
<1>3. CASE Input
  <2>1. /\ Plan(1) /\ main' = main /\ ova' = ova /\ sav' = sav
    BY <1>3 DEF Input
  <2>2. PlannedInOrder' /\ roe' \in Seq(Nat) /\ plans' \in Nat
    BY <1>1, <2>1, PlanOrder
  <2> QED BY <1>1, <1>2, <2>1, <2>2, SavedFrame DEF PierTypeOK, IdleIsLogged
<1>4. CASE WorkStart
  <2>1. /\ main' = "punk" /\ ova' = roe /\ roe' = << >> /\ plans' = plans /\ sav' = sav
    BY <1>4 DEF WorkStart
  <2>2. roe' \in Seq(Nat) /\ Len(roe') = 0
    BY <2>1
  <2>3. PlannedInOrder'
    <3>1. 1 .. 0 = {}
      OBVIOUS
    <3> QED BY <1>1, <2>1, <2>2, <3>1 DEF PlannedInOrder, AppliedInOrder, Rising
  <2> QED BY <1>1, <1>2, <2>1, <2>2, <2>3, SavedFrame DEF PierTypeOK, IdleIsLogged
<1>5. CASE PunkDone \/ CartDone
  <2>1. /\ plans' = plans /\ roe' = roe /\ ova' = ova /\ sav' = sav
        /\ main' = "cart" \/ outs = << >>
    BY <1>5 DEF PunkDone, CartDone
  <2> QED BY <1>1, <1>2, <2>1, SavedFrame, OrderFrame DEF PierTypeOK, IdleIsLogged
<1>6. CASE Lead
  <2>1. /\ \E n \in 0 .. 1 : Plan(n)
        /\ Save /\ main = "lead" /\ main' = "io" /\ ova' = ova
    BY <1>6 DEF Lead
  <2>2. PlannedInOrder' /\ roe' \in Seq(Nat) /\ plans' \in Nat
    BY <1>1, <2>1, PlanOrder
  <2>3. outs = << >>
    BY <2>1 DEF IdleIsLogged
  <2>4. SavedIsReplay' /\ sav'.ent \in Nat
    BY <1>1, <2>1, <2>3, SaveInv
  <2> QED BY <1>1, <1>2, <2>1, <2>2, <2>3, <2>4 DEF PierTypeOK, IdleIsLogged
<1>7. CASE TimeSave \/ Shutdown
  <2>1. /\ Save /\ main = "io" /\ ova' = ova /\ roe' = roe /\ plans' = plans
    BY <1>7 DEF TimeSave, Shutdown
  <2>2. outs = << >>
    BY <2>1 DEF IdleIsLogged
  <2>3. SavedIsReplay' /\ sav'.ent \in Nat
    BY <1>1, <2>1, <2>2, SaveInv
  <2> QED BY <1>1, <1>2, <2>1, <2>2, <2>3, OrderFrame DEF PierTypeOK, IdleIsLogged
<1> QED BY <1>3, <1>4, <1>5, <1>6, <1>7

\* The threads of the log number no event.
LEMMA BesideInv ==
    ASSUME PierInv, EgzInit \/ Callback \/ Background
    PROVE  PierInv'
<1>1. ent_d' = ent_d
  <2>1. CASE EgzInit \/ Callback
    BY <2>1 DEF EgzInit, Callback, ClearHead, ClearTail, Finalize
  <2>2. CASE Background
    BY <2>2 DEF Background, Consolidator, PushThread, Open, Write, Sync, Enqueue, Tell,
                Wake, Dequeue, AppendEntry, Unlink, GoToSleep, mainVars
  <2> QED BY <2>1, <2>2
<1>2. UNCHANGED workVars
  BY DEF EgzInit, Callback, Background
<1> QED BY <1>1, <1>2, ParallelFrame

\* Before the boot events are worked.
LEMMA PierInitInv == PierInit => PierInv
<1> SUFFICES ASSUME PierInit PROVE PierInv
  OBVIOUS
<1>1. /\ ent_d = 0 /\ plans \in Nat /\ roe = [i \in 1 .. plans |-> i]
      /\ ova = << >> /\ outs = << >> /\ roc = << >>
      /\ ovo = [s \in Event |-> <<1, "ovo">>] /\ sav.ent = 0 /\ sav.roc = << >>
  BY EgzBoundAssumption DEF PierInit, Init
<1>2. roe \in Seq(Nat) /\ Len(roe) = plans /\ \A i \in 1 .. plans : roe[i] = i
  <2>1. roe \in [1 .. plans -> Nat]
    BY <1>1
  <2>2. roe \in Seq(Nat)
    BY <1>1, <2>1
  <2> QED BY <1>1, <2>1, <2>2
<1>3. Len(ova) = 0 /\ Len(roc) = 0 /\ Len(outs) = 0 /\ 1 .. 0 = {}
  BY <1>1
<1>4. PierTypeOK
  <2>1. <<1, "ovo">> \in Applied
    BY DEF Applied, Form
  <2> QED BY <1>1, <1>2, <2>1, EgzBoundAssumption DEF PierTypeOK
<1>5. IdleIsLogged
  BY <1>1 DEF IdleIsLogged
<1>6. WorldIsLogged
  <2>1. NewIn(outs) = {}
    BY <1>3 DEF NewIn
  <2>2. 1 .. (Len(roc) - ent_d) = {}
    BY <1>1, <1>3
  <2>3. \E at : Fits(at, roc, ent_d, outs)
    BY <2>1, <2>2, FitsNone
  <2>4. \E at \in [1 .. (Len(roc) - ent_d) -> NewIn(outs)] : Fits(at, roc, ent_d, outs)
    BY <2>3 DEF Fits
  <2>5. ent_d <= Len(roc) /\ \A i \in 1 .. ent_d : roc[i] = ovo[i - 1]
    BY <1>1, <1>3
  <2> QED BY <2>4, <2>5 DEF WorldIsLogged
<1>7. PlannedInOrder
  BY <1>1, <1>2, <1>3 DEF PlannedInOrder, AppliedInOrder, Rising
<1>8. SavedIsReplay
  BY <1>1, <1>3 DEF SavedIsReplay, CheckpointIsReplay, Numbered
<1> QED BY <1>4, <1>5, <1>6, <1>7, <1>8 DEF PierInv

\* The invariant of u2_raft_work, u2_lo_lead and u2_save beside the log threads.
THEOREM PierInvCorrect == PierSpec => []PierInv
<1>1. PierInit => PierInv
  BY PierInitInv
<1>2. PierInv /\ [PierNext]_pierVars => PierInv'
  <2> SUFFICES ASSUME PierInv, [PierNext]_pierVars PROVE PierInv'
    OBVIOUS
  <2>1. CASE UNCHANGED pierVars
    BY <2>1, ParallelFrame DEF pierVars, vars, mainVars
  <2>2. CASE PierNext
    BY <2>2, PunkInv, CartInv, LoopInv, BesideInv DEF PierNext
  <2> QED BY <2>1, <2>2
<1> QED BY <1>1, <1>2, PTL DEF PierSpec

\* Replaying the log gives the world state, but for the results that
\* u2_raft_work is still to log: it leaves out no change of the state and logs
\* none out of order, however many events there are.
THEOREM ReplayIsWorld == PierSpec => []ReplayGivesWorld
<1>1. PierInv => ReplayGivesWorld
  <2> SUFFICES ASSUME PierInv PROVE ReplayGivesWorld
    OBVIOUS
  <2>1. ent_d <= Len(roc) /\ \A i \in 1 .. ent_d : roc[i] = ovo[i - 1]
    BY DEF PierInv, WorldIsLogged
  <2>2. PICK at \in [1 .. (Len(roc) - ent_d) -> NewIn(outs)] : Fits(at, roc, ent_d, outs)
    BY DEF PierInv, WorldIsLogged
  <2>3. DOMAIN at = 1 .. (Len(roc) - ent_d)
    OBVIOUS
  <2>4. /\ \A i, j \in DOMAIN at : i < j => at[i] < at[j]
        /\ \A j \in NewIn(outs) : \E i \in DOMAIN at : at[i] = j
        /\ \A i \in DOMAIN at : roc[ent_d + i] = outs[at[i]].ovo
    BY <2>2, <2>3 DEF Fits
  <2> QED BY <2>1, <2>4 DEF ReplayGivesWorld, NewIn
<1> QED BY <1>1, PierInvCorrect, PTL

\* Events are applied in the order of their u2_reck_plan: the two u2_ckb_flop
\* of u2_raft_work undo the reversal of its lists.
THEOREM AppliedAsPlanned == PierSpec => []AppliedInOrder
<1>1. PierInv => AppliedInOrder
  BY DEF PierInv, PlannedInOrder
<1> QED BY <1>1, PierInvCorrect, PTL

\* A checkpoint of u2_loom_save is the replay of the events before its number.
THEOREM CheckpointReplays == PierSpec => []CheckpointIsReplay
<1>1. PierInv => CheckpointIsReplay
  BY DEF PierInv, SavedIsReplay
<1> QED BY <1>1, PierInvCorrect, PTL
=============================================================================

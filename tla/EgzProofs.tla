----------------------------- MODULE EgzProofs ------------------------------
(***************************************************************************)
(* Proofs about the egz.hope log, for every number of events, boot events  *)
(* and failed appends: LogInv is an invariant, so the process never ends   *)
(* itself, a logged entry always has a copy on disk as long as appends     *)
(* succeed, and egz.hope implements the abstract event log.                *)
(***************************************************************************)
EXTENDS EgzInv, TLAPS

-----------------------------------------------------------------------------
(* Sequences and entries. *)

\* What appending to a queue or to egz.hope adds to its items.
LEMMA ItemsAppend ==
    ASSUME NEW S, NEW q \in Seq(S), NEW x \in S
    PROVE  /\ Append(q, x) \in Seq(S)
           /\ Items(Append(q, x)) = Items(q) \union {x}
           /\ Len(Append(q, x)) = Len(q) + 1
           /\ Append(q, x)[Len(q) + 1] = x
           /\ \A i \in 1 .. Len(q) : Append(q, x)[i] = q[i]
<1>1. /\ Append(q, x) \in Seq(S) /\ Len(Append(q, x)) = Len(q) + 1
      /\ Append(q, x)[Len(q) + 1] = x
      /\ \A i \in 1 .. Len(q) : Append(q, x)[i] = q[i]
  OBVIOUS
<1>2. Len(q) \in Nat
  OBVIOUS
<1>3. Items(Append(q, x)) \subseteq Items(q) \union {x}
  <2> SUFFICES ASSUME NEW i \in 1 .. Len(q) + 1
               PROVE  Append(q, x)[i] \in Items(q) \union {x}
    BY <1>1 DEF Items
  <2>1. i = Len(q) + 1 \/ i \in 1 .. Len(q)
    BY <1>2
  <2> QED BY <2>1, <1>1 DEF Items
<1>4. Items(q) \union {x} \subseteq Items(Append(q, x))
  <2>1. Len(q) + 1 \in 1 .. Len(Append(q, x))
    BY <1>1, <1>2
  <2>2. \A i \in 1 .. Len(q) : i \in 1 .. Len(Append(q, x))
    BY <1>1, <1>2
  <2> QED BY <1>1, <2>1, <2>2 DEF Items
<1> QED BY <1>1, <1>3, <1>4

\* What dequeuing leaves: the tail, shifted by one.
LEMMA ItemsTail ==
    ASSUME NEW S, NEW q \in Seq(S), q # << >>
    PROVE  /\ Head(q) \in S /\ Tail(q) \in Seq(S)
           /\ Head(q) = q[1] /\ 1 \in 1 .. Len(q)
           /\ Len(Tail(q)) = Len(q) - 1
           /\ \A i \in 1 .. Len(Tail(q)) : i + 1 \in 1 .. Len(q) /\ Tail(q)[i] = q[i + 1]
           /\ Items(q) = {Head(q)} \union Items(Tail(q))
<1>1. /\ Head(q) \in S /\ Tail(q) \in Seq(S) /\ Head(q) = q[1]
      /\ Len(Tail(q)) = Len(q) - 1 /\ Len(q) \in Nat \ {0}
  OBVIOUS
<1>2. \A i \in 1 .. Len(Tail(q)) : i + 1 \in 1 .. Len(q) /\ Tail(q)[i] = q[i + 1]
  BY <1>1
<1>3. 1 \in 1 .. Len(q)
  BY <1>1
<1>4. Items(q) \subseteq {Head(q)} \union Items(Tail(q))
  <2> SUFFICES ASSUME NEW i \in 1 .. Len(q), i # 1
               PROVE  q[i] \in Items(Tail(q))
    BY <1>1 DEF Items
  <2>1. i - 1 \in 1 .. Len(Tail(q)) /\ (i - 1) + 1 = i
    BY <1>1
  <2> QED BY <2>1, <1>2 DEF Items
<1>5. {Head(q)} \union Items(Tail(q)) \subseteq Items(q)
  BY <1>1, <1>2, <1>3 DEF Items
<1> QED BY <1>1, <1>2, <1>3, <1>4, <1>5

\* The empty queue has no items.
LEMMA ItemsEmpty == Items(<< >>) = {}
BY DEF Items

\* An entry is the first or the second of its event.
LEMMA EntryIs ==
    ASSUME NEW e \in Entry
    PROVE  /\ e[1] \in Event /\ e[2] \in MsgType /\ e = <<e[1], e[2]>>
           /\ e = Pre(e[1]) \/ e = Post(e[1])
           /\ e[2] # "post" => e[2] = "pre" /\ e = Pre(e[1])
BY DEF Entry, MsgType, Pre, Post

\* The two entries of an event.
LEMMA PrePost ==
    ASSUME NEW s \in Event
    PROVE  /\ Pre(s) \in Entry /\ Post(s) \in Entry /\ Pre(s) # Post(s)
           /\ Pre(s)[1] = s /\ Post(s)[1] = s
           /\ Pre(s)[2] = "pre" /\ Post(s)[2] = "post"
           /\ \A r \in Event : (Pre(s) = Pre(r) => s = r) /\ (Post(s) = Post(r) => s = r)
           /\ \A r \in Event : Pre(s) # Post(r)
BY DEF Entry, MsgType, Pre, Post

-----------------------------------------------------------------------------
(* What a step that leaves the queue, the consolidator and egz.hope alone
   cannot disturb. *)

\* Where entries are does not depend on the threads.
LEMMA PlacesFrame ==
    ASSUME OnePlace, InOrder, live' = live, con' = con, hand' = hand, egz' = egz
    PROVE  OnePlace' /\ InOrder' /\ Pending' = Pending
<1>1. Items(live') = Items(live) /\ Items(egz') = Items(egz) /\ Pending' = Pending
  BY DEF Pending
<1>2. OnePlace'
  BY <1>1 DEF OnePlace
<1>3. InOrder'
  BY <1>1 DEF InOrder
<1> QED BY <1>1, <1>2, <1>3

\* A thread that moves on within the threads not yet logged changes nothing
\* for logged entries.
LEMMA LoggedFrame ==
    ASSUME TypeOK, NEW e \in Entry, NEW a \in ThreadAt \ {"tell", "done"},
           thread[e] \notin {"tell", "done"},
           thread' = [thread EXCEPT ![e] = a]
    PROVE  /\ Logged' = Logged /\ e \notin Logged
           /\ thread' \in [Entry -> ThreadAt] /\ thread'[e] = a
           /\ \A d \in Entry : d # e => thread'[d] = thread[d]
BY DEF TypeOK, Logged

-----------------------------------------------------------------------------
(* The main thread. *)

\* u2_egz_push_ova keeps LogInv: the number it takes is new, so is its thread.
LEMMA PushOvaInv ==
    ASSUME LogInv, PushOva
    PROVE  LogInv'
<1> USE EgzBoundAssumption DEF LogInv
<1> DEFINE p == Pre(ent_d)
<1>1. ent_d \in Event /\ ent_d \in Nat /\ p \in Entry /\ p = <<ent_d, "pre">>
  BY PrePost DEF PushOva, Event, TypeOK, Pre
<1>2. thread[p] = "none" /\ thread[Post(ent_d)] = "none"
  <2>1. ~ (ent_d < ent_d)
    BY <1>1
  <2>2. thread[Pre(ent_d)] = "none"
    BY <1>1, <2>1 DEF ThreadsInTurn
  <2> QED BY <1>1, <2>2 DEF ThreadsInTurn
<1>3. thread' = [thread EXCEPT ![p] = "open"]
  BY <1>1 DEF PushOva, PushInThread
<1>4. /\ Logged' = Logged /\ p \notin Logged
      /\ thread' \in [Entry -> ThreadAt] /\ thread'[p] = "open"
      /\ \A d \in Entry : d # p => thread'[d] = thread[d]
  BY <1>1, <1>2, <1>3, LoggedFrame DEF ThreadAt
<1>5. /\ live' = live /\ con' = con /\ hand' = hand /\ egz' = egz /\ fails' = fails
      /\ mini' = mini /\ asyncs' = asyncs /\ boot' = boot /\ tail_u' = tail_u
      /\ ent_d' = ent_d + 1 /\ fatal' = fatal /\ bob_y' = [bob_y EXCEPT ![ent_d] = "pre"]
      /\ fresh' = fresh /\ len_d' = len_d /\ firm' = firm /\ sunk' = sunk
  BY DEF PushOva, queueVars, conVars, diskVars
<1>6. TypeOK' /\ NoFatal'
  BY <1>1, <1>4, <1>5 DEF TypeOK, NoFatal, Event, PushOva
<1>7. OnePlace' /\ InOrder' /\ Pending' = Pending
  BY <1>5, PlacesFrame
<1>8. ThreadsInTurn'
  <2>1. ASSUME NEW s \in Event, thread'[Pre(s)] # "none" PROVE s < ent_d'
    BY <2>1, <1>1, <1>4, <1>5, PrePost DEF ThreadsInTurn, Event
  <2>2. ASSUME NEW s \in Event, thread'[Post(s)] # "none"
        PROVE  thread'[Pre(s)] = "done" /\ Pre(s) \notin asyncs'
    <3>1. Post(s) \in Entry /\ Pre(s) \in Entry /\ Post(s) # p
      BY <1>1, PrePost
    <3>2. thread[Post(s)] # "none"
      BY <3>1, <2>2, <1>4
    <3>3. thread[Pre(s)] = "done" /\ Pre(s) \notin asyncs
      BY <3>2 DEF ThreadsInTurn
    <3>4. Pre(s) # p
      BY <3>3, <1>2
    <3> QED BY <3>1, <3>3, <3>4, <1>4, <1>5
  <2>3. ASSUME NEW e \in asyncs' PROVE e[2] = "pre" /\ thread'[e] = "done"
    BY <2>3, <1>2, <1>4, <1>5 DEF ThreadsInTurn, TypeOK
  <2> QED BY <2>1, <2>2, <2>3 DEF ThreadsInTurn
<1>9. BufferIsMine'
  <2> SUFFICES ASSUME NEW e \in Entry, thread'[e] \in {"open", "write"}
               PROVE  bob_y'[e[1]] = e[2]
    BY DEF BufferIsMine
  <2>1. CASE e = p
    BY <2>1, <1>1, <1>5, PrePost DEF TypeOK
  <2>2. CASE e # p
    <3>1. e[1] # ent_d
      BY <2>2, <1>2, <1>4, EntryIs
    <3> QED BY <3>1, <2>2, <1>4, <1>5, <1>1, EntryIs DEF BufferIsMine, TypeOK
  <2> QED BY <2>1, <2>2
<1>10. OnlyLogged' /\ HeadIsThere' /\ HasCopy'
  BY <1>4, <1>5 DEF OnlyLogged, HeadIsThere, HasCopy, Items
<1>11. MiniIsWhole'
  BY <1>4, <1>5, <1>7 DEF MiniIsWhole
<1> QED BY <1>6, <1>7, <1>8, <1>9, <1>10, <1>11

\* u2_egz_init keeps LogInv: it takes entries off the queue, never adds one.
LEMMA ClearInv ==
    ASSUME LogInv, ClearHead \/ ClearTail
    PROVE  LogInv'
<1> USE DEF LogInv
<1>1. /\ con' = con /\ hand' = hand /\ egz' = egz /\ fails' = fails /\ mini' = mini
      /\ thread' = thread /\ bob_y' = bob_y /\ asyncs' = asyncs /\ ent_d' = ent_d
      /\ fatal' = fatal /\ fresh' = fresh /\ len_d' = len_d /\ firm' = firm /\ sunk' = sunk
  BY DEF ClearHead, ClearTail, threadVars, conVars, diskVars
<1>2. Logged' = Logged
  BY <1>1 DEF Logged
<1>3. con = "sleep"
  BY DEF ClearHead, ClearTail, HeadIsThere
<1>4. CASE ClearHead
  <2>1. live' = << >> /\ boot' = "half" /\ tail_u' \in {"nil", "stray"}
    BY <1>4 DEF ClearHead
  <2>2. Items(live') = {} /\ Len(live') = 0
    BY <2>1, ItemsEmpty
  <2>3. Pending' = {}
    BY <2>2, <1>1, <1>3 DEF Pending
  <2>4. TypeOK' /\ NoFatal'
    BY <2>1, <1>1 DEF TypeOK, NoFatal
  <2>5. ThreadsInTurn' /\ BufferIsMine' /\ HeadIsThere'
    BY <2>1, <1>1, <1>3 DEF ThreadsInTurn, BufferIsMine, HeadIsThere
  <2>6. OnlyLogged'
    BY <2>2, <1>1, <1>2, <1>3 DEF OnlyLogged
  <2>7. OnePlace' /\ InOrder'
    BY <2>2, <2>3, <1>1, <1>3 DEF OnePlace, InOrder
  <2>8. MiniIsWhole' /\ HasCopy'
    BY <2>3, <1>1, <1>2, <1>3 DEF MiniIsWhole, HasCopy
  <2> QED BY <2>4, <2>5, <2>6, <2>7, <2>8
<1>5. CASE ClearTail
  <2>1. live' = live /\ boot' = "yes" /\ tail_u' = "nil"
    BY <1>5 DEF ClearTail
  <2>2. OnePlace' /\ InOrder' /\ Pending' = Pending
    BY <2>1, <1>1, PlacesFrame
  <2>3. TypeOK' /\ NoFatal'
    BY <2>1, <1>1 DEF TypeOK, NoFatal
  <2>4. ThreadsInTurn' /\ BufferIsMine' /\ HeadIsThere'
    BY <2>1, <1>1, <1>3 DEF ThreadsInTurn, BufferIsMine, HeadIsThere
  <2>5. OnlyLogged' /\ MiniIsWhole' /\ HasCopy'
    BY <2>1, <2>2, <1>1, <1>2 DEF OnlyLogged, MiniIsWhole, HasCopy, Items
  <2> QED BY <2>2, <2>3, <2>4, <2>5
<1> QED BY <1>4, <1>5

\* _egz_finalize_and_emit keeps LogInv: the first thread is done with the
\* buffer, and the second has not started.
LEMMA FinalizeInv ==
    ASSUME LogInv, NEW e \in Entry, Finalize(e)
    PROVE  LogInv'
<1> USE DEF LogInv
<1> DEFINE s == e[1]
<1> DEFINE p == Post(s)
<1>1. /\ s \in Event /\ e = Pre(s) /\ e[2] = "pre" /\ thread[e] = "done"
      /\ p \in Entry /\ p = <<s, "post">> /\ p # e /\ e \in asyncs
  BY EntryIs, PrePost DEF Finalize, ThreadsInTurn, Post
<1>2. thread[p] = "none"
  BY <1>1 DEF ThreadsInTurn
<1>3. thread' = [thread EXCEPT ![p] = "open"]
  BY <1>1 DEF Finalize, PushInThread
<1>4. /\ Logged' = Logged /\ p \notin Logged
      /\ thread' \in [Entry -> ThreadAt] /\ thread'[p] = "open"
      /\ \A d \in Entry : d # p => thread'[d] = thread[d]
  BY <1>1, <1>2, <1>3, LoggedFrame DEF ThreadAt
<1>5. /\ live' = live /\ con' = con /\ hand' = hand /\ egz' = egz /\ fails' = fails
      /\ mini' = mini /\ asyncs' = asyncs \ {e} /\ boot' = boot /\ tail_u' = tail_u
      /\ ent_d' = ent_d /\ fatal' = FALSE /\ bob_y' = [bob_y EXCEPT ![s] = "post"]
      /\ fresh' = fresh /\ len_d' = len_d /\ firm' = firm /\ sunk' = sunk
  BY <1>1 DEF Finalize, queueVars, conVars, diskVars
<1>6. TypeOK' /\ NoFatal'
  BY <1>1, <1>4, <1>5 DEF TypeOK, NoFatal
<1>7. OnePlace' /\ InOrder' /\ Pending' = Pending
  BY <1>5, PlacesFrame
<1>8. ThreadsInTurn'
  <2>1. ASSUME NEW r \in Event, thread'[Pre(r)] # "none" PROVE r < ent_d'
    BY <2>1, <1>1, <1>4, <1>5, PrePost DEF ThreadsInTurn
  <2>2. ASSUME NEW r \in Event, thread'[Post(r)] # "none"
        PROVE  thread'[Pre(r)] = "done" /\ Pre(r) \notin asyncs'
    <3>1. CASE r = s
      BY <3>1, <1>1, <1>4, <1>5
    <3>2. CASE r # s
      BY <3>2, <2>2, <1>1, <1>4, <1>5, PrePost DEF ThreadsInTurn
    <3> QED BY <3>1, <3>2
  <2>3. ASSUME NEW d \in asyncs' PROVE d[2] = "pre" /\ thread'[d] = "done"
    BY <2>3, <1>2, <1>4, <1>5 DEF ThreadsInTurn, TypeOK
  <2> QED BY <2>1, <2>2, <2>3 DEF ThreadsInTurn
<1>9. BufferIsMine'
  <2> SUFFICES ASSUME NEW d \in Entry, thread'[d] \in {"open", "write"}
               PROVE  bob_y'[d[1]] = d[2]
    BY DEF BufferIsMine
  <2>1. CASE d = p
    BY <2>1, <1>1, <1>5, PrePost DEF TypeOK
  <2>2. CASE d # p
    <3>1. d # e /\ d[1] # s
      BY <2>2, <1>1, <1>4, EntryIs
    <3> QED BY <3>1, <2>2, <1>4, <1>5, <1>1, EntryIs DEF BufferIsMine, TypeOK
  <2> QED BY <2>1, <2>2
<1>10. OnlyLogged' /\ HeadIsThere' /\ HasCopy'
  BY <1>4, <1>5 DEF OnlyLogged, HeadIsThere, HasCopy, Items
<1>11. MiniIsWhole'
  BY <1>4, <1>5, <1>7 DEF MiniIsWhole
<1> QED BY <1>6, <1>7, <1>8, <1>9, <1>10, <1>11

-----------------------------------------------------------------------------
(* The push threads. *)

\* A thread that writes its minifile disturbs neither the turns of the threads
\* nor the places of the entries.
LEMMA MoveInv ==
    ASSUME LogInv, NEW e \in Entry,
           NEW b \in {"write", "sync", "enqueue"},
           thread[e] \in {"open", "write", "sync"},
           thread' = [thread EXCEPT ![e] = b],
           UNCHANGED <<mainVars, bob_y, queueVars, conVars, egz>>
    PROVE  /\ ThreadsInTurn' /\ OnlyLogged' /\ OnePlace' /\ InOrder' /\ HeadIsThere'
           /\ Pending' = Pending /\ Logged' = Logged
           /\ e \notin Logged /\ e \notin Pending
           /\ con \in {"append", "unlink"} => hand # e
           /\ thread' \in [Entry -> ThreadAt] /\ thread'[e] = b
           /\ \A d \in Entry : d # e => thread'[d] = thread[d]
<1> USE DEF LogInv
<1>1. /\ Logged' = Logged /\ e \notin Logged
      /\ thread' \in [Entry -> ThreadAt] /\ thread'[e] = b
      /\ \A d \in Entry : d # e => thread'[d] = thread[d]
  BY LoggedFrame DEF ThreadAt
<1>2. /\ live' = live /\ con' = con /\ hand' = hand /\ egz' = egz /\ ent_d' = ent_d
      /\ boot' = boot /\ asyncs' = asyncs /\ tail_u' = tail_u /\ bob_y' = bob_y
  BY DEF mainVars, queueVars, conVars
<1>3. OnePlace' /\ InOrder' /\ Pending' = Pending
  BY <1>2, PlacesFrame
<1>4. OnlyLogged' /\ HeadIsThere'
  BY <1>1, <1>2 DEF OnlyLogged, HeadIsThere
<1>5. e \notin Pending /\ (con \in {"append", "unlink"} => hand # e)
  BY <1>1 DEF OnlyLogged, Pending
<1>6. ThreadsInTurn'
  <2>1. ASSUME NEW s \in Event, thread'[Pre(s)] # "none" PROVE s < ent_d'
    BY <2>1, <1>1, <1>2, PrePost DEF ThreadsInTurn
  <2>2. ASSUME NEW s \in Event, thread'[Post(s)] # "none"
        PROVE  thread'[Pre(s)] = "done" /\ Pre(s) \notin asyncs'
    <3>1. thread[Post(s)] # "none"
      BY <2>2, <1>1, PrePost
    <3>2. thread[Pre(s)] = "done" /\ Pre(s) # e
      BY <3>1 DEF ThreadsInTurn
    <3> QED BY <3>1, <3>2, <1>1, <1>2, PrePost DEF ThreadsInTurn
  <2>3. ASSUME NEW d \in asyncs' PROVE d[2] = "pre" /\ thread'[d] = "done"
    BY <2>3, <1>1, <1>2 DEF ThreadsInTurn, TypeOK
  <2> QED BY <2>1, <2>2, <2>3 DEF ThreadsInTurn
<1> QED BY <1>1, <1>3, <1>4, <1>5, <1>6

\* The open of u2_egz_push keeps LogInv: the minifile it truncates is not yet
\* in the queue.
LEMMA OpenInv ==
    ASSUME LogInv, NEW e \in Entry, Open(e)
    PROVE  LogInv'
<1> USE DEF LogInv
<1>1. /\ thread[e] = "open" /\ thread' = [thread EXCEPT ![e] = "write"]
      /\ UNCHANGED <<mainVars, bob_y, queueVars, conVars, egz>>
      /\ mini' = [mini EXCEPT ![e] = "empty"] /\ firm' = firm \ {e}
      /\ sunk' = sunk /\ fails' = fails /\ fatal' = fatal
  BY DEF Open, MiniName
<1>2. /\ ThreadsInTurn' /\ OnlyLogged' /\ OnePlace' /\ InOrder' /\ HeadIsThere'
      /\ Pending' = Pending /\ Logged' = Logged
      /\ e \notin Logged /\ e \notin Pending
      /\ thread' \in [Entry -> ThreadAt] /\ thread'[e] = "write"
      /\ \A d \in Entry : d # e => thread'[d] = thread[d]
  BY <1>1, MoveInv
<1>3. TypeOK' /\ NoFatal'
  BY <1>1, <1>2 DEF TypeOK, NoFatal, mainVars, queueVars, conVars
<1>4. BufferIsMine'
  BY <1>1, <1>2 DEF BufferIsMine
<1>5. MiniIsWhole'
  BY <1>1, <1>2 DEF MiniIsWhole, TypeOK
<1>6. HasCopy'
  BY <1>1, <1>2 DEF HasCopy, TypeOK, conVars, Logged
<1> QED BY <1>2, <1>3, <1>4, <1>5, <1>6

\* The write of u2_egz_push keeps LogInv: the buffer holds its own entry.
LEMMA WriteInv ==
    ASSUME LogInv, NEW e \in Entry, Write(e)
    PROVE  LogInv'
<1> USE DEF LogInv
<1>1. /\ thread[e] = "write" /\ thread' = [thread EXCEPT ![e] = "sync"]
      /\ UNCHANGED <<mainVars, bob_y, queueVars, conVars, egz>>
      /\ mini' = [mini EXCEPT ![e] = e[2]] /\ firm' = firm
      /\ sunk' = sunk /\ fails' = fails /\ fatal' = fatal
  BY DEF Write, MiniName, BufferIsMine
<1>2. /\ ThreadsInTurn' /\ OnlyLogged' /\ OnePlace' /\ InOrder' /\ HeadIsThere'
      /\ Pending' = Pending /\ Logged' = Logged
      /\ e \notin Logged /\ e \notin Pending
      /\ thread' \in [Entry -> ThreadAt] /\ thread'[e] = "sync"
      /\ \A d \in Entry : d # e => thread'[d] = thread[d]
  BY <1>1, MoveInv
<1>3. TypeOK' /\ NoFatal'
  BY <1>1, <1>2, EntryIs DEF TypeOK, NoFatal, mainVars, queueVars, conVars, MsgType
<1>4. BufferIsMine'
  BY <1>1, <1>2 DEF BufferIsMine
<1>5. MiniIsWhole'
  BY <1>1, <1>2 DEF MiniIsWhole, TypeOK
<1>6. HasCopy'
  BY <1>1, <1>2 DEF HasCopy, TypeOK, conVars, Logged
<1> QED BY <1>2, <1>3, <1>4, <1>5, <1>6

\* The syncfs of u2_egz_push keeps LogInv.
LEMMA SyncInv ==
    ASSUME LogInv, NEW e \in Entry, Sync(e)
    PROVE  LogInv'
<1> USE DEF LogInv
<1>1. /\ thread[e] = "sync" /\ thread' = [thread EXCEPT ![e] = "enqueue"]
      /\ UNCHANGED <<mainVars, bob_y, queueVars, conVars, egz>>
      /\ mini' = mini /\ firm' = Whole
      /\ sunk' = Len(egz) /\ fails' = fails /\ fatal' = fatal
  BY DEF Sync
<1>2. /\ ThreadsInTurn' /\ OnlyLogged' /\ OnePlace' /\ InOrder' /\ HeadIsThere'
      /\ Pending' = Pending /\ Logged' = Logged
      /\ e \notin Logged /\ e \notin Pending
      /\ thread' \in [Entry -> ThreadAt] /\ thread'[e] = "enqueue"
      /\ \A d \in Entry : d # e => thread'[d] = thread[d]
  BY <1>1, MoveInv
<1>3. Len(egz) \in Nat
  BY DEF TypeOK
<1>4. TypeOK' /\ NoFatal'
  BY <1>1, <1>2, <1>3 DEF TypeOK, NoFatal, mainVars, queueVars, conVars, Whole
<1>5. BufferIsMine'
  BY <1>1, <1>2 DEF BufferIsMine
<1>6. MiniIsWhole'
  BY <1>1, <1>2 DEF MiniIsWhole, TypeOK
<1>7. HasCopy'
  BY <1>1, <1>2 DEF HasCopy, TypeOK, conVars, Logged
<1> QED BY <1>2, <1>4, <1>5, <1>6, <1>7

\* The last two steps of a thread keep the turns: until the first entry is
\* done there is no second.
LEMMA EnqueueInv ==
    ASSUME LogInv, NEW e \in Entry, Enqueue(e)
    PROVE  LogInv'
<1> USE DEF LogInv
<1>1. /\ thread[e] = "enqueue" /\ thread' = [thread EXCEPT ![e] = "tell"]
      /\ con' = con /\ hand' = hand /\ egz' = egz /\ ent_d' = ent_d
      /\ boot' = boot /\ asyncs' = asyncs /\ bob_y' = bob_y
      /\ mini' = mini /\ firm' = firm /\ fresh' = fresh /\ len_d' = len_d
      /\ sunk' = sunk /\ fails' = fails /\ fatal' = fatal
  BY DEF Enqueue, mainVars, conVars, diskVars
<1>2. /\ Logged' = Logged \union {e} /\ e \notin Logged
      /\ thread' \in [Entry -> ThreadAt] /\ thread'[e] = "tell"
      /\ \A d \in Entry : d # e => thread'[d] = thread[d]
  BY <1>1 DEF Logged, TypeOK, ThreadAt
<1>3. /\ live \in Seq(Entry) /\ egz \in Seq(Record) /\ Len(live) \in Nat
      /\ e \notin Items(live) /\ e \notin Items(egz)
      /\ con \in {"append", "unlink"} => hand # e
  BY <1>2 DEF TypeOK, OnlyLogged
<1>4. mini[e] = e[2]
  BY <1>1 DEF MiniIsWhole
<1>5. ThreadsInTurn'
  <2>1. ASSUME NEW s \in Event, thread'[Pre(s)] # "none" PROVE s < ent_d'
    BY <2>1, <1>1, <1>2, PrePost DEF ThreadsInTurn
  <2>2. ASSUME NEW s \in Event, thread'[Post(s)] # "none"
        PROVE  thread'[Pre(s)] = "done" /\ Pre(s) \notin asyncs'
    <3>1. thread[Post(s)] # "none"
      BY <2>2, <1>1, <1>2, PrePost
    <3>2. thread[Pre(s)] = "done" /\ Pre(s) # e
      BY <3>1, <1>1 DEF ThreadsInTurn
    <3> QED BY <3>1, <3>2, <1>1, <1>2, PrePost DEF ThreadsInTurn
  <2>3. ASSUME NEW d \in asyncs' PROVE d[2] = "pre" /\ thread'[d] = "done"
    BY <2>3, <1>1, <1>2 DEF ThreadsInTurn, TypeOK
  <2> QED BY <2>1, <2>2, <2>3 DEF ThreadsInTurn
<1>6. BufferIsMine'
  BY <1>1, <1>2 DEF BufferIsMine
<1>7. HasCopy'
  BY <1>1, <1>2, <1>4 DEF HasCopy
\* The second entry of the event is not around yet when the first is queued.
<1>8. ASSUME NEW s \in Event, e = Pre(s)
      PROVE  /\ Post(s) \notin Items(live) /\ Post(s) \notin Items(egz)
             /\ con = "append" => hand # Post(s)
  <2>1. thread[Post(s)] = "none"
    BY <1>8, <1>1 DEF ThreadsInTurn
  <2> QED BY <2>1, PrePost DEF OnlyLogged, Logged
<1>9. CASE tail_u = "last" \/ live = << >>
  <2>1. live' = Append(live, e) /\ tail_u' = "last"
    BY <1>9 DEF Enqueue
  <2>2. /\ live' \in Seq(Entry) /\ Items(live') = Items(live) \union {e}
        /\ Len(live') = Len(live) + 1 /\ live'[Len(live) + 1] = e
        /\ \A i \in 1 .. Len(live) : live'[i] = live[i]
    BY <2>1, <1>3, ItemsAppend
  <2>3. TypeOK' /\ NoFatal'
    BY <1>1, <1>2, <2>1, <2>2 DEF TypeOK, NoFatal
  <2>4. Pending' = Pending \union {e}
    BY <2>2, <1>1 DEF Pending
  <2>5. OnlyLogged'
    BY <2>2, <1>1, <1>2 DEF OnlyLogged
  <2>6. ASSUME NEW i \in 1 .. Len(live'), NEW j \in 1 .. Len(live'), i < j
        PROVE  /\ i \in 1 .. Len(live) /\ live'[i] = live[i]
               /\ \/ j \in 1 .. Len(live) /\ live'[j] = live[j]
                  \/ live'[j] = e
    BY <2>6, <2>2, <1>3
  <2>7. OnePlace'
    <3>1. ASSUME NEW i \in 1 .. Len(live'), NEW j \in 1 .. Len(live'), i < j
          PROVE  live'[i] # live'[j]
      BY <3>1, <2>6, <1>3 DEF OnePlace, Items
    <3>2. con' \in {"append", "unlink"} => hand' \notin Items(live')
      BY <2>2, <1>1, <1>3 DEF OnePlace
    <3>3. Pending' \intersect Items(egz') = {}
      BY <2>4, <1>1, <1>3 DEF OnePlace
    <3> QED BY <3>1, <3>2, <3>3 DEF OnePlace
  <2>8. InOrder'
    <3>1. ASSUME NEW s \in Event, NEW i \in 1 .. Len(live'), NEW j \in 1 .. Len(live'),
                 i < j, live'[i] = Post(s), live'[j] = Pre(s)
          PROVE  FALSE
      <4>1. live[i] = Post(s) /\ i \in 1 .. Len(live)
        BY <3>1, <2>6
      <4>2. live'[j] # e
        BY <4>1, <3>1, <1>8 DEF Items
      <4> QED BY <4>1, <4>2, <3>1, <2>6 DEF InOrder
    <3>2. ASSUME NEW s \in Event, con' = "append", hand' = Post(s)
          PROVE  Pre(s) \notin Items(live')
      BY <3>2, <2>2, <1>1, <1>8 DEF InOrder
    <3>3. ASSUME NEW s \in Event, Post(s) \in Items(egz')
          PROVE  Pre(s) \notin Pending'
      BY <3>3, <2>4, <1>1, <1>8 DEF InOrder
    <3> QED BY <3>1, <3>2, <3>3 DEF InOrder
  <2>9. MiniIsWhole'
    BY <2>4, <1>1, <1>2, <1>4 DEF MiniIsWhole
  <2>10. HeadIsThere'
    <3>1. Len(live') # 0
      BY <2>2, <1>3
    <3> QED BY <3>1, <2>1, <1>1 DEF HeadIsThere
  <2> QED BY <1>5, <1>6, <1>7, <2>3, <2>5, <2>7, <2>8, <2>9, <2>10
<1>10. CASE ~ (tail_u = "last" \/ live = << >>)
  <2>1. live' = live /\ tail_u' = "stray"
    BY <1>10 DEF Enqueue
  <2>2. OnePlace' /\ InOrder' /\ Pending' = Pending
    BY <2>1, <1>1, PlacesFrame
  <2>3. TypeOK' /\ NoFatal'
    BY <1>1, <1>2, <2>1 DEF TypeOK, NoFatal
  <2>4. OnlyLogged' /\ HeadIsThere'
    BY <2>1, <1>1, <1>2, <1>10 DEF OnlyLogged, HeadIsThere
  <2>5. MiniIsWhole'
    BY <2>2, <1>1, <1>2, <1>4 DEF MiniIsWhole
  <2> QED BY <1>5, <1>6, <1>7, <2>2, <2>3, <2>4, <2>5
<1> QED BY <1>9, <1>10

\* The end of _egz_push_in_thread_inner keeps LogInv.
LEMMA TellInv ==
    ASSUME LogInv, NEW e \in Entry, Tell(e)
    PROVE  LogInv'
<1> USE DEF LogInv
<1>1. /\ thread[e] = "tell" /\ thread' = [thread EXCEPT ![e] = "done"]
      /\ con' = con /\ hand' = hand /\ egz' = egz /\ ent_d' = ent_d
      /\ boot' = boot /\ live' = live /\ tail_u' = tail_u
      /\ mini' = mini /\ firm' = firm /\ fresh' = fresh /\ len_d' = len_d
      /\ sunk' = sunk /\ fails' = fails /\ fatal' = fatal
  BY DEF Tell, queueVars, conVars, diskVars
<1>2. /\ Logged' = Logged
      /\ thread' \in [Entry -> ThreadAt] /\ thread'[e] = "done"
      /\ \A d \in Entry : d # e => thread'[d] = thread[d]
  BY <1>1 DEF Logged, TypeOK, ThreadAt
<1>3. e[1] \in Event /\ (e[2] # "post" => e[2] = "pre" /\ e = Pre(e[1]))
  BY EntryIs
<1>4. /\ asyncs' \subseteq asyncs \union {e}
      /\ e[2] = "post" => asyncs' = asyncs
      /\ bob_y' \in [Event -> {"none", "pre", "post", "freed"}]
      /\ \A s \in Event : bob_y'[s] = bob_y[s] \/ (e[2] = "post" /\ s = e[1])
  BY <1>3 DEF Tell, TypeOK
<1>5. TypeOK' /\ NoFatal'
  BY <1>1, <1>2, <1>4 DEF TypeOK, NoFatal
<1>6. OnePlace' /\ InOrder' /\ Pending' = Pending
  BY <1>1, PlacesFrame
<1>7. OnlyLogged' /\ HeadIsThere' /\ HasCopy'
  BY <1>1, <1>2 DEF OnlyLogged, HeadIsThere, HasCopy
<1>8. MiniIsWhole'
  BY <1>1, <1>2, <1>6 DEF MiniIsWhole
<1>9. ThreadsInTurn'
  <2>1. ASSUME NEW s \in Event, thread'[Pre(s)] # "none" PROVE s < ent_d'
    BY <2>1, <1>1, <1>2, PrePost DEF ThreadsInTurn
  <2>2. ASSUME NEW s \in Event, thread'[Post(s)] # "none"
        PROVE  thread'[Pre(s)] = "done" /\ Pre(s) \notin asyncs'
    <3>1. thread[Post(s)] # "none"
      BY <2>2, <1>1, <1>2, PrePost
    <3>2. thread[Pre(s)] = "done" /\ Pre(s) # e
      BY <3>1, <1>1 DEF ThreadsInTurn
    <3> QED BY <3>1, <3>2, <1>2, <1>4, PrePost DEF ThreadsInTurn
  <2>3. ASSUME NEW d \in asyncs' PROVE d[2] = "pre" /\ thread'[d] = "done"
    BY <2>3, <1>2, <1>3, <1>4 DEF ThreadsInTurn, TypeOK
  <2> QED BY <2>1, <2>2, <2>3 DEF ThreadsInTurn
<1>10. BufferIsMine'
  <2> SUFFICES ASSUME NEW d \in Entry, thread'[d] \in {"open", "write"}
               PROVE  bob_y'[d[1]] = d[2]
    BY DEF BufferIsMine
  <2>1. d # e /\ thread[d] \in {"open", "write"} /\ d[1] \in Event
    BY <1>2, EntryIs
  <2>2. ASSUME e[2] = "post", d[1] = e[1] PROVE FALSE
    <3>1. e = Post(e[1]) /\ d = Pre(e[1])
      BY <2>2, <2>1, EntryIs, PrePost
    <3>2. thread[Pre(e[1])] = "done"
      BY <3>1, <1>1, <1>3 DEF ThreadsInTurn
    <3> QED BY <3>1, <3>2, <2>1
  <2> QED BY <2>1, <2>2, <1>4 DEF BufferIsMine
<1> QED BY <1>5, <1>6, <1>7, <1>8, <1>9, <1>10

-----------------------------------------------------------------------------
(* The consolidator. *)

\* It leaves the threads and the main thread alone.
LEMMA ThreadsFrame ==
    ASSUME LogInv, UNCHANGED <<mainVars, threadVars>>
    PROVE  ThreadsInTurn' /\ BufferIsMine' /\ Logged' = Logged
BY DEF LogInv, mainVars, threadVars, ThreadsInTurn, BufferIsMine, Logged

\* The end of the consolidator's sleep keeps LogInv.
LEMMA WakeInv ==
    ASSUME LogInv, Wake
    PROVE  LogInv'
<1> USE DEF LogInv
<1>1. /\ con = "sleep" /\ con' = "drain" /\ boot = "yes" /\ boot' = boot
      /\ fresh' = 0 /\ live' = live /\ tail_u' = tail_u /\ hand' = hand
      /\ egz' = egz /\ mini' = mini /\ fails' = fails /\ thread' = thread
      /\ UNCHANGED <<mainVars, threadVars, len_d, firm, sunk, fatal>>
  BY DEF Wake, queueVars, diskVars, threadVars, mainVars
<1>2. ThreadsInTurn' /\ BufferIsMine' /\ Logged' = Logged
  BY <1>1, ThreadsFrame
<1>3. TypeOK' /\ NoFatal'
  BY <1>1 DEF TypeOK, NoFatal, mainVars, threadVars
<1>4. Items(live') = Items(live) /\ Items(egz') = Items(egz) /\ Pending' = Pending
  BY <1>1 DEF Pending
<1>5. OnlyLogged' /\ HeadIsThere' /\ HasCopy' /\ MiniIsWhole'
  BY <1>1, <1>2, <1>4 DEF OnlyLogged, HeadIsThere, HasCopy, MiniIsWhole
<1>6. OnePlace' /\ InOrder'
  BY <1>1, <1>4 DEF OnePlace, InOrder
<1> QED BY <1>2, <1>3, <1>5, <1>6

\* _dequeue keeps LogInv: the entry at head_u moves into the consolidator's hand.
LEMMA DequeueInv ==
    ASSUME LogInv, Dequeue
    PROVE  LogInv'
<1> USE DEF LogInv
<1>1. /\ con = "drain" /\ con' = "append" /\ boot = "yes" /\ boot' = boot
      /\ tail_u # "nil" /\ tail_u' \in {"nil", tail_u}
      /\ tail_u' # "nil" => Tail(live) # << >>
      /\ hand' = Head(live) /\ live' = Tail(live)
      /\ egz' = egz /\ mini' = mini /\ fails' = fails /\ thread' = thread
      /\ UNCHANGED <<mainVars, threadVars, fresh, len_d, firm, sunk, fatal>>
  BY DEF Dequeue, diskVars, threadVars, mainVars, HeadIsThere
<1>2. ThreadsInTurn' /\ BufferIsMine' /\ Logged' = Logged
  BY <1>1, ThreadsFrame
<1>3. live \in Seq(Entry) /\ live # << >>
  BY <1>1 DEF HeadIsThere, TypeOK
<1>4. /\ hand' \in Entry /\ live' \in Seq(Entry) /\ hand' = live[1] /\ 1 \in 1 .. Len(live)
      /\ \A i \in 1 .. Len(live') : i + 1 \in 1 .. Len(live) /\ live'[i] = live[i + 1]
      /\ Items(live) = {hand'} \union Items(live')
  BY <1>1, <1>3, ItemsTail
<1>5. TypeOK' /\ NoFatal'
  BY <1>1, <1>4 DEF TypeOK, NoFatal, mainVars, threadVars
<1>6. Pending' = Pending
  BY <1>1, <1>4 DEF Pending
<1>7. OnlyLogged'
  BY <1>1, <1>2, <1>4 DEF OnlyLogged
<1>8. HeadIsThere' /\ HasCopy'
  BY <1>1, <1>2 DEF HeadIsThere, HasCopy
<1>9. MiniIsWhole'
  BY <1>1, <1>6 DEF MiniIsWhole
<1>10. OnePlace'
  <2>1. ASSUME NEW i \in 1 .. Len(live'), NEW j \in 1 .. Len(live'), i < j
        PROVE  live'[i] # live'[j]
    <3>1. i + 1 < j + 1
      BY <2>1
    <3> QED BY <3>1, <1>4 DEF OnePlace
  <2>2. hand' \notin Items(live')
    <3> SUFFICES ASSUME NEW i \in 1 .. Len(live') PROVE live'[i] # hand'
      BY DEF Items
    <3>1. 1 < i + 1
      OBVIOUS
    <3> QED BY <3>1, <1>4 DEF OnePlace
  <2>3. Pending' \intersect Items(egz') = {}
    BY <1>1, <1>6 DEF OnePlace
  <2> QED BY <2>1, <2>2, <2>3 DEF OnePlace
<1>11. InOrder'
  <2>1. ASSUME NEW s \in Event, NEW i \in 1 .. Len(live'), NEW j \in 1 .. Len(live'), i < j
        PROVE  ~ (live'[i] = Post(s) /\ live'[j] = Pre(s))
    <3>1. i + 1 < j + 1
      BY <2>1
    <3>2. /\ i + 1 \in 1 .. Len(live) /\ live'[i] = live[i + 1]
          /\ j + 1 \in 1 .. Len(live) /\ live'[j] = live[j + 1]
      BY <1>4
    <3>3. ~ (live[i + 1] = Post(s) /\ live[j + 1] = Pre(s))
      BY <3>1, <3>2 DEF InOrder
    <3> QED BY <3>2, <3>3
  <2>2. ASSUME NEW s \in Event, hand' = Post(s) PROVE Pre(s) \notin Items(live')
    <3> SUFFICES ASSUME NEW i \in 1 .. Len(live') PROVE live'[i] # Pre(s)
      BY DEF Items
    <3>1. 1 < i + 1
      OBVIOUS
    <3> QED BY <3>1, <2>2, <1>4 DEF InOrder
  <2>3. ASSUME NEW s \in Event, Post(s) \in Items(egz') PROVE Pre(s) \notin Pending'
    BY <2>3, <1>1, <1>6 DEF InOrder
  <2> QED BY <2>1, <2>2, <2>3 DEF InOrder
<1> QED BY <1>2, <1>5, <1>7, <1>8, <1>9, <1>10, <1>11

\* What an append does to egz.hope: it adds the entry in hand, or, when the
\* write is short or fails, a part of it or nothing.
LEMMA AppendIs ==
    ASSUME LogInv, NEW ret \in {"whole", "part", "none"}, AppendEntry(ret)
    PROVE  /\ fatal' = FALSE /\ hand \in Entry /\ hand \notin Items(egz)
           /\ \/ ret = "whole" /\ egz' = Append(egz, hand) /\ fails' = fails
              \/ /\ ret # "whole" /\ fails' = fails + 1 /\ fails < MaxFail
                 /\ egz' = egz \/ egz' = Append(egz, <<hand[1], "part">>)
<1> USE DEF LogInv
<1>1. hand \in Entry /\ hand \in Pending
  BY DEF AppendEntry, TypeOK, Pending
<1>2. mini[hand] = hand[2] /\ hand[2] \in MsgType /\ <<hand[1], hand[2]>> = hand
  BY <1>1, EntryIs DEF MiniIsWhole
<1>3. fatal' = FALSE
  BY <1>2 DEF AppendEntry, MiniName
<1>4. hand \notin Items(egz)
  BY <1>1 DEF OnePlace
<1>5. /\ egz' = Wrote(egz, hand[1], hand[2], ret)
      /\ fails' = IF ret = "whole" THEN fails ELSE fails + 1
      /\ ret # "whole" => fails < MaxFail
  BY <1>2, <1>3 DEF AppendEntry, MiniName
<1> QED BY <1>1, <1>2, <1>3, <1>4, <1>5 DEF Wrote

\* The append to egz.hope keeps LogInv: the minifile is whole, and its entry
\* was not appended before.
LEMMA AppendInv ==
    ASSUME LogInv, NEW ret \in {"whole", "part", "none"}, AppendEntry(ret)
    PROVE  LogInv'
<1> USE DEF LogInv
<1>1. /\ con = "append" /\ con' = "unlink" /\ boot' = boot
      /\ live' = live /\ tail_u' = tail_u /\ hand' = hand /\ mini' = mini
      /\ fresh' = fresh + 1 /\ thread' = thread
      /\ UNCHANGED <<mainVars, threadVars, len_d, firm, sunk>>
  BY DEF AppendEntry, queueVars, threadVars, mainVars
<1>2. ThreadsInTurn' /\ BufferIsMine' /\ Logged' = Logged
  BY <1>1, ThreadsFrame
<1>3. /\ fatal' = FALSE /\ hand \in Entry /\ hand \notin Items(egz)
      /\ \/ ret = "whole" /\ egz' = Append(egz, hand) /\ fails' = fails
         \/ /\ ret # "whole" /\ fails' = fails + 1 /\ fails < MaxFail
            /\ egz' = egz \/ egz' = Append(egz, <<hand[1], "part">>)
  BY AppendIs
<1>4. egz \in Seq(Record) /\ Len(egz) \in Nat
  BY DEF TypeOK
<1> DEFINE torn == <<hand[1], "part">>
\* A part is no entry.
<1>5. /\ egz' \in Seq(Record) /\ Len(egz') \in Nat /\ Len(egz) \leq Len(egz')
      /\ \A e \in Entry : e \in Items(egz') => e \in Items(egz) \/ e = hand
      /\ Items(egz) \subseteq Items(egz')
      /\ ret = "whole" => hand \in Items(egz')
  <2>1. /\ hand \in Record /\ torn \in Record /\ torn \notin Entry
    BY <1>3 DEF Entry, Record, MsgType
  <2> HIDE DEF torn
  <2>2. ASSUME NEW x \in Record, egz' = Append(egz, x)
        PROVE  /\ egz' \in Seq(Record) /\ Items(egz') = Items(egz) \union {x}
               /\ Len(egz') = Len(egz) + 1
    BY <2>2, <1>4, ItemsAppend
  <2>3. CASE egz' = Append(egz, hand)
    BY <2>1, <2>2, <2>3, <1>4
  <2>4. CASE ret # "whole" /\ egz' = Append(egz, torn)
    BY <2>1, <2>2, <2>4, <1>4
  <2>5. CASE ret # "whole" /\ egz' = egz
    BY <2>5, <1>4
  <2> QED BY <2>3, <2>4, <2>5, <1>3 DEF torn
<1>6. TypeOK' /\ NoFatal'
  <2>1. fails' \in 0 .. MaxFail
    BY <1>3, EgzBoundAssumption DEF TypeOK
  <2>2. sunk' \in 0 .. Len(egz')
    BY <1>1, <1>4, <1>5 DEF TypeOK
  <2>3. fresh' \in Nat
    BY <1>1 DEF TypeOK
  <2>4. con' \in {"sleep", "drain", "append", "unlink"} /\ hand' \in Entry
    BY <1>1, <1>3
  <2> QED BY <2>1, <2>2, <2>3, <2>4, <1>1, <1>3, <1>5
          DEF TypeOK, NoFatal, mainVars, threadVars
<1>7. Items(live') = Items(live) /\ Pending' = Items(live)
  BY <1>1 DEF Pending
<1>8. Pending = Items(live) \union {hand} /\ hand \notin Items(live)
  BY <1>1 DEF Pending, OnePlace
<1>9. OnlyLogged' /\ HeadIsThere'
  BY <1>1, <1>2, <1>3, <1>5, <1>7 DEF OnlyLogged, HeadIsThere
<1>10. OnePlace'
  <2>1. \A e \in Items(live) : e \in Entry
    BY DEF TypeOK, Items
  <2>2. \A e \in Items(live) : e \notin Items(egz')
    BY <1>5, <1>8, <2>1 DEF OnePlace
  <2> QED BY <1>1, <1>7, <1>8, <2>2 DEF OnePlace
<1>11. InOrder'
  <2>1. ASSUME NEW s \in Event, Post(s) \in Items(egz') PROVE Pre(s) \notin Pending'
    BY <2>1, <1>1, <1>5, <1>7, <1>8, PrePost DEF InOrder
  <2> QED BY <2>1, <1>1 DEF InOrder
<1>12. MiniIsWhole'
  BY <1>1, <1>7, <1>8 DEF MiniIsWhole
<1>13. HasCopy'
  <2> SUFFICES ASSUME fails' = 0
               PROVE  /\ \A e \in Logged : mini[e] = e[2] \/ e \in Items(egz')
                      /\ hand \in Items(egz')
    BY <1>1, <1>2 DEF HasCopy
  <2>1. fails \in Nat
    BY DEF TypeOK
  <2>2. ret = "whole" /\ fails = 0
    BY <2>1, <1>3
  <2> QED BY <2>2, <1>5 DEF HasCopy
<1> QED BY <1>2, <1>6, <1>9, <1>10, <1>11, <1>12, <1>13

\* The unlink of a minifile keeps LogInv: its entry was appended.
LEMMA UnlinkInv ==
    ASSUME LogInv, Unlink
    PROVE  LogInv'
<1> USE DEF LogInv
<1>1. /\ con = "unlink" /\ con' = "drain" /\ boot' = boot
      /\ live' = live /\ tail_u' = tail_u /\ hand' = hand /\ egz' = egz
      /\ mini' = [mini EXCEPT ![hand] = "absent"] /\ firm' = firm \ {hand}
      /\ fails' = fails /\ thread' = thread
      /\ UNCHANGED <<mainVars, threadVars, fresh, len_d, sunk, fatal>>
  BY DEF Unlink, MiniName, queueVars, threadVars, mainVars
<1>2. ThreadsInTurn' /\ BufferIsMine' /\ Logged' = Logged
  BY <1>1, ThreadsFrame
<1>3. /\ hand \in Logged /\ hand \notin Items(live) /\ hand \in Entry
      /\ thread[hand] \in {"tell", "done"}
  BY <1>1 DEF OnlyLogged, OnePlace, TypeOK, Logged
<1>4. TypeOK' /\ NoFatal'
  BY <1>1 DEF TypeOK, NoFatal, mainVars, threadVars
<1>5. Items(live') = Items(live) /\ Items(egz') = Items(egz) /\ Pending' = Pending
      /\ Pending = Items(live)
  BY <1>1 DEF Pending
<1>6. OnlyLogged' /\ HeadIsThere'
  BY <1>1, <1>2, <1>5 DEF OnlyLogged, HeadIsThere
<1>7. OnePlace' /\ InOrder'
  BY <1>1, <1>5 DEF OnePlace, InOrder
<1>8. MiniIsWhole'
  BY <1>1, <1>3, <1>5 DEF MiniIsWhole, TypeOK
<1>9. HasCopy'
  BY <1>1, <1>2 DEF HasCopy, TypeOK, Logged
<1> QED BY <1>2, <1>4, <1>6, <1>7, <1>8, <1>9

\* The end of a cycle of the consolidator keeps LogInv.
LEMMA GoToSleepInv ==
    ASSUME LogInv, GoToSleep
    PROVE  LogInv'
<1> USE DEF LogInv
<1>1. /\ con = "drain" /\ con' = "sleep" /\ boot' = boot
      /\ live' = live /\ tail_u' = tail_u /\ hand' = hand /\ egz' = egz
      /\ mini' = mini /\ fails' = fails /\ thread' = thread
      /\ len_d' = len_d + 4 * EntryWords * fresh
      /\ firm' \in {firm, Whole} /\ sunk' \in {sunk, Len(egz)}
      /\ UNCHANGED <<mainVars, threadVars, fresh, fatal>>
  BY DEF GoToSleep, queueVars, threadVars, mainVars
<1>2. ThreadsInTurn' /\ BufferIsMine' /\ Logged' = Logged
  BY <1>1, ThreadsFrame
<1>3. TypeOK' /\ NoFatal'
  <2>1. len_d' \in Nat
    <3>1. len_d \in Nat /\ fresh \in Nat /\ 4 * EntryWords \in Nat
      BY EgzSizeAssumption DEF TypeOK
    <3>2. \A m, n \in Nat : m * n \in Nat
      OBVIOUS
    <3>3. 4 * EntryWords * fresh \in Nat
      BY <3>1, <3>2
    <3> QED BY <3>1, <3>3, <1>1
  <2>2. Len(egz) \in Nat /\ Whole \subseteq Entry
    BY DEF TypeOK, Whole
  <2>3. sunk' \in 0 .. Len(egz') /\ firm' \subseteq Entry
    BY <2>2, <1>1 DEF TypeOK
  <2> QED BY <2>1, <2>3, <1>1 DEF TypeOK, NoFatal, mainVars, threadVars
<1>4. Items(live') = Items(live) /\ Items(egz') = Items(egz) /\ Pending' = Pending
  BY <1>1 DEF Pending
<1>5. OnlyLogged' /\ HeadIsThere' /\ HasCopy' /\ MiniIsWhole'
  BY <1>1, <1>2, <1>4 DEF OnlyLogged, HeadIsThere, HasCopy, MiniIsWhole
<1>6. OnePlace' /\ InOrder'
  BY <1>1, <1>4 DEF OnePlace, InOrder
<1> QED BY <1>2, <1>3, <1>5, <1>6

-----------------------------------------------------------------------------
(* The theorems. *)

\* LogInv holds at the start.
LEMMA LogInit == Init => LogInv
<1> SUFFICES ASSUME Init PROVE LogInv
  OBVIOUS
<1> USE DEF Init
<1>1. <<0, "pre">> \in Entry
  BY EgzBoundAssumption DEF Entry, Event, MsgType
<1>2. Items(live) = {} /\ Items(egz) = {} /\ Len(live) = 0 /\ Len(egz) = 0
  BY ItemsEmpty
<1>3. Pending = {} /\ Logged = {}
  BY <1>2 DEF Pending, Logged
<1>4. TypeOK /\ NoFatal
  <2>1. ent_d \in 0 .. MaxEnt /\ fails \in 0 .. MaxFail /\ len_d \in Nat /\ fresh \in Nat
    BY EgzBoundAssumption, EgzSizeAssumption
  <2>2. sunk \in 0 .. Len(egz) /\ live \in Seq(Entry) /\ egz \in Seq(Record)
    BY <1>2
  <2>3. /\ thread \in [Entry -> ThreadAt]
        /\ bob_y \in [Event -> {"none", "pre", "post", "freed"}]
        /\ mini \in [Entry -> {"absent", "empty", "pre", "post"}]
    BY DEF ThreadAt
  <2> QED BY <1>1, <2>1, <2>2, <2>3 DEF TypeOK, NoFatal
<1>5. ThreadsInTurn /\ BufferIsMine
  BY PrePost DEF ThreadsInTurn, BufferIsMine
<1>6. OnlyLogged /\ OnePlace /\ InOrder /\ HeadIsThere
  BY <1>2, <1>3 DEF OnlyLogged, OnePlace, InOrder, HeadIsThere
<1>7. MiniIsWhole /\ HasCopy
  BY <1>3 DEF MiniIsWhole, HasCopy
<1> QED BY <1>4, <1>5, <1>6, <1>7 DEF LogInv

\* LogInv is inductive: every step of every thread keeps it.
LEMMA LogNext == LogInv /\ [Next]_vars => LogInv'
<1> SUFFICES ASSUME LogInv, [Next]_vars PROVE LogInv'
  OBVIOUS
<1>1. CASE MainThread
  BY <1>1, PushOvaInv, ClearInv, FinalizeInv DEF MainThread
<1>2. CASE \E e \in Entry : PushThread(e)
  BY <1>2, OpenInv, WriteInv, SyncInv, EnqueueInv, TellInv DEF PushThread
<1>3. CASE Consolidator
  BY <1>3, WakeInv, DequeueInv, AppendInv, UnlinkInv, GoToSleepInv DEF Consolidator
<1>4. CASE UNCHANGED vars
  <2>1. /\ UNCHANGED <<mainVars, threadVars, live, tail_u, con, hand, fresh, len_d>>
        /\ UNCHANGED <<mini, egz, firm, sunk, fails, fatal, thread, boot>>
    BY <1>4 DEF vars, mainVars, threadVars, queueVars, conVars, diskVars
  <2>2. ThreadsInTurn' /\ BufferIsMine' /\ Logged' = Logged
    BY <2>1, ThreadsFrame
  <2>3. OnePlace' /\ InOrder' /\ Pending' = Pending
    BY <2>1, PlacesFrame DEF LogInv
  <2>4. TypeOK' /\ NoFatal'
    BY <2>1 DEF LogInv, TypeOK, NoFatal, mainVars, threadVars
  <2>5. OnlyLogged' /\ HeadIsThere' /\ HasCopy' /\ MiniIsWhole'
    BY <2>1, <2>2, <2>3 DEF LogInv, OnlyLogged, HeadIsThere, HasCopy, MiniIsWhole
  <2> QED BY <2>2, <2>3, <2>4, <2>5 DEF LogInv
<1> QED BY <1>1, <1>2, <1>3, <1>4 DEF Next

\* LogInv holds in every reachable state of the egz.hope log: of the push
\* threads, _egz_finalize_and_emit and the consolidator in any interleaving,
\* with events pushed before u2_egz_init and with appends that fail unnoticed.
THEOREM LogInvCorrect == Spec => []LogInv
<1>1. Init => LogInv
  BY LogInit
<1>2. LogInv /\ [Next]_vars => LogInv'
  BY LogNext
<1> QED BY <1>1, <1>2, PTL DEF Spec

\* The process never ends itself: _egz_consolidator finds every minifile it
\* dequeues, and no postcommit comes back to _egz_finalize_and_emit.
THEOREM NeverFatal == Spec => [](TypeOK /\ NoFatal)
<1>1. LogInv => TypeOK /\ NoFatal
  BY DEF LogInv
<1> QED BY <1>1, LogInvCorrect, PTL

\* As long as no append to egz.hope fails, every entry u2_egz_push has noted
\* is in its minifile or in egz.hope.
THEOREM CopyOnDisk == Spec => []NothingLost
<1>1. LogInv => NothingLost
  BY DEF LogInv, HasCopy, NothingLost, MiniName
<1> QED BY <1>1, LogInvCorrect, PTL

\* egz.hope implements the abstract event log: _egz_consolidator never appends
\* an entry twice, nor the first entry of an event after its second.
THEOREM EgzImplementsEventLog == Spec => LogRefined
<1>1. Init => Promise!Init
  BY DEF Init, Promise!Init
<1>2. LogInv /\ [Next]_vars => [Promise!Next]_egz
  <2> SUFFICES ASSUME LogInv, [Next]_vars, egz' # egz PROVE Promise!Next
    OBVIOUS
  <2>1. PICK ret \in {"whole", "part", "none"} : AppendEntry(ret)
    BY DEF Next, MainThread, PushThread, Consolidator, PushOva, ClearHead, ClearTail,
           Finalize, Open, Write, Sync, Enqueue, Tell, Wake, Dequeue, Unlink, GoToSleep,
           vars, diskVars
  <2>2. /\ hand \in Entry /\ hand \notin Items(egz)
        /\ \/ egz' = Append(egz, hand)
           \/ egz' = Append(egz, <<hand[1], "part">>) /\ fails < MaxFail
    BY <2>1, AppendIs
  <2>3. /\ hand[1] \in Event /\ hand[2] \in MsgType /\ hand = <<hand[1], hand[2]>>
        /\ hand[2] = "pre" => hand = Pre(hand[1])
    BY <2>2, EntryIs DEF Pre
  <2>4. CASE egz' = Append(egz, hand)
    <3>1. hand[2] = "pre" => <<hand[1], "post">> \notin Items(egz)
      BY <2>1, <2>3 DEF LogInv, InOrder, Pending, AppendEntry, Post
    <3>2. Promise!Written = Items(egz)
      BY DEF Promise!Written, Items
    <3>3. Promise!Add(hand[1], hand[2])
      BY <2>2, <2>3, <2>4, <3>1, <3>2 DEF Promise!Add
    <3> QED BY <2>3, <3>3 DEF Promise!Next, MsgType
  <2>5. CASE egz' = Append(egz, <<hand[1], "part">>) /\ fails < MaxFail
    <3>1. MaxFail > 0
      BY <2>5, EgzBoundAssumption DEF LogInv, TypeOK
    <3>2. Promise!Tear(hand[1])
      BY <2>5, <3>1 DEF Promise!Tear
    <3> QED BY <2>3, <3>2 DEF Promise!Next
  <2> QED BY <2>2, <2>4, <2>5
<1> QED BY <1>1, <1>2, LogInvCorrect, PTL DEF Spec, LogRefined, Promise!Spec

-----------------------------------------------------------------------------
(* What a power loss leaves. *)

\* What a syncfs makes durable: all that is logged, and every minifile that is
\* to be noted.
LEMMA SyncedIsDurable ==
    ASSUME LogInv, firm' = Whole, sunk' = Len(egz), egz' = egz
    PROVE  /\ fails = 0 => \A e \in Logged : Durable(e)'
           /\ \A e \in Entry : thread[e] \in {"sync", "enqueue"} => e \in firm'
<1>1. egz \in Seq(Record) /\ SubSeq(egz, 1, Len(egz)) = egz
  BY DEF LogInv, TypeOK
<1>2. \A e \in Entry : mini[e] = e[2] => e \in Whole
  BY EntryIs DEF Whole
<1>3. \A e \in Entry : thread[e] \in {"sync", "enqueue"} => mini[e] = e[2]
  BY DEF LogInv, MiniIsWhole
<1>4. fails = 0 => \A e \in Logged : mini[e] = e[2] \/ e \in Items(egz)
  BY DEF LogInv, HasCopy
<1>5. \A e \in Logged : e \in Entry
  BY DEF Logged
<1>6. Items(SubSeq(egz', 1, sunk')) = Items(egz)
  BY <1>1
<1> QED BY <1>2, <1>3, <1>4, <1>5, <1>6 DEF Durable

\* Every step of every thread keeps it.
LEMMA DurableNext ==
    ASSUME LogInv, DurableInv, [Next]_vars PROVE DurableInv'
<1> USE DEF DurableInv
<1>0. /\ thread \in [Entry -> ThreadAt] /\ fresh \in Nat /\ fails \in Nat
      /\ Logged \subseteq Entry
  BY EgzBoundAssumption DEF LogInv, TypeOK, Logged
<1>1. ASSUME UNCHANGED <<thread, con, fresh, egz, firm, sunk, fails>> PROVE DurableInv'
  <2>1. Logged' = Logged /\ \A e : Durable(e)' = Durable(e)
    BY <1>1 DEF Logged, Durable
  <2> QED BY <1>1, <2>1
<1>2. ASSUME NEW e \in Entry, NEW at \in ThreadAt \ {"enqueue", "tell", "done"},
             thread' = [thread EXCEPT ![e] = at], firm' \in {firm, firm \ {e}},
             thread[e] \in {"none", "open", "write"} \/ firm' = firm,
             thread[e] \notin {"tell", "done"}, UNCHANGED <<con, fresh, egz, sunk, fails>>
      PROVE  DurableInv'
  <2>1. Logged' = Logged /\ e \notin Logged
    BY <1>0, <1>2 DEF Logged
  <2>2. \A f \in Logged : Durable(f) => Durable(f)'
    BY <1>2, <2>1 DEF Durable
  <2>3. \A f \in Entry : thread'[f] = "enqueue" => f # e /\ thread[f] = "enqueue"
    BY <1>0, <1>2
  <2> QED BY <1>2, <2>1, <2>2, <2>3
<1>3. CASE PushOva
  <2>1. Pre(ent_d) \in Entry /\ thread[Pre(ent_d)] = "none"
    <3>1. ent_d \in Event /\ Pre(ent_d) \in Entry
      BY <1>3, EgzBoundAssumption DEF PushOva, LogInv, TypeOK, Event, Pre, Entry, MsgType
    <3>2. ~ (ent_d < ent_d)
      BY <3>1 DEF Event
    <3> QED BY <3>1, <3>2 DEF LogInv, ThreadsInTurn
  <2>2. /\ thread' = [thread EXCEPT ![Pre(ent_d)] = "open"]
        /\ UNCHANGED <<con, fresh, egz, sunk, fails, firm>>
    BY <1>3 DEF PushOva, PushInThread, Pre, conVars, diskVars
  <2> QED BY <1>2, <2>1, <2>2 DEF ThreadAt
<1>4. CASE ClearHead \/ ClearTail
  BY <1>1, <1>4 DEF ClearHead, ClearTail, threadVars, conVars, diskVars
<1>5. ASSUME NEW e \in Entry, Finalize(e) PROVE DurableInv'
  <2>1. e \in asyncs /\ e[1] \in Event /\ e = Pre(e[1])
    BY <1>5, EntryIs DEF Finalize, LogInv, ThreadsInTurn, Pre
  <2>2. Post(e[1]) \in Entry /\ thread[Post(e[1])] = "none"
    BY <2>1 DEF LogInv, ThreadsInTurn, Post, Entry, MsgType
  <2>3. /\ thread' = [thread EXCEPT ![Post(e[1])] = "open"]
        /\ UNCHANGED <<con, fresh, egz, sunk, fails, firm>>
    BY <1>5 DEF Finalize, PushInThread, Post, conVars, diskVars
  <2> QED BY <1>2, <2>2, <2>3 DEF ThreadAt
<1>6. ASSUME NEW e \in Entry, Open(e) \/ Write(e) PROVE DurableInv'
  <2>1. /\ thread' = [thread EXCEPT ![e] = IF thread[e] = "open" THEN "write" ELSE "sync"]
        /\ thread[e] \in {"open", "write"} /\ firm' \in {firm, firm \ {e}}
        /\ UNCHANGED <<con, fresh, egz, sunk, fails>>
    BY <1>6 DEF Open, Write, MiniName, conVars
  <2> QED BY <1>2, <2>1 DEF ThreadAt
<1>7. ASSUME NEW e \in Entry, Sync(e) PROVE DurableInv'
  <2>1. /\ thread[e] = "sync" /\ thread' = [thread EXCEPT ![e] = "enqueue"]
        /\ firm' = Whole /\ sunk' = Len(egz) /\ UNCHANGED <<con, fresh, egz, fails>>
    BY <1>7 DEF Sync, conVars
  <2>2. Logged' = Logged
    BY <1>0, <2>1 DEF Logged
  <2>3. \A f \in Entry : thread'[f] = "enqueue" => thread[f] \in {"sync", "enqueue"}
    BY <1>0, <2>1
  <2> QED BY <2>1, <2>2, <2>3, SyncedIsDurable
<1>8. ASSUME NEW e \in Entry, Enqueue(e) PROVE DurableInv'
  <2>1. /\ thread[e] = "enqueue" /\ thread' = [thread EXCEPT ![e] = "tell"]
        /\ UNCHANGED <<con, fresh, egz, firm, sunk, fails>>
    BY <1>8 DEF Enqueue, conVars, diskVars
  <2>2. Logged' = Logged \union {e} /\ \A f : Durable(f)' = Durable(f)
    BY <1>0, <2>1 DEF Logged, Durable
  <2>3. Durable(e) /\ \A f \in Entry : thread'[f] = "enqueue" => thread[f] = "enqueue"
    BY <1>0, <2>1 DEF Durable
  <2> QED BY <2>1, <2>2, <2>3
<1>9. ASSUME NEW e \in Entry, Tell(e) PROVE DurableInv'
  <2>1. /\ thread[e] = "tell" /\ thread' = [thread EXCEPT ![e] = "done"]
        /\ UNCHANGED <<con, fresh, egz, firm, sunk, fails>>
    BY <1>9 DEF Tell, conVars, diskVars
  <2>2. Logged' = Logged /\ \A f : Durable(f)' = Durable(f)
    BY <1>0, <2>1 DEF Logged, Durable
  <2>3. \A f \in Entry : thread'[f] = "enqueue" => thread[f] = "enqueue"
    BY <1>0, <2>1
  <2> QED BY <2>1, <2>2, <2>3
<1>10. CASE Wake \/ Dequeue
  <2>1. /\ UNCHANGED <<thread, egz, firm, sunk, fails>>
        /\ \/ con = "sleep" /\ con' = "drain" /\ fresh' = 0
           \/ con = "drain" /\ con' = "append" /\ fresh' = fresh
    BY <1>10 DEF Wake, Dequeue, threadVars, diskVars
  <2>2. Logged' = Logged /\ \A f : Durable(f)' = Durable(f)
    BY <2>1 DEF Logged, Durable
  <2> QED BY <2>1, <2>2
<1>11. ASSUME NEW ret \in {"whole", "part", "none"}, AppendEntry(ret) PROVE DurableInv'
  <2>1. con' = "unlink" /\ fresh' = fresh + 1 /\ UNCHANGED <<thread, firm>>
    BY <1>11 DEF AppendEntry, threadVars
  <2>2. fresh' # 0
    BY <1>0, <2>1
  <2> QED BY <2>1, <2>2
<1>12. CASE Unlink
  <2>1. /\ con = "unlink" /\ con' = "drain" /\ fresh' = fresh /\ thread' = thread
        /\ firm' = firm \ {hand}
    BY <1>12 DEF Unlink, MiniName, threadVars
  <2>2. thread[hand] # "enqueue"
    BY <2>1 DEF LogInv, OnlyLogged, Logged
  <2> QED BY <2>1, <2>2
<1>13. CASE GoToSleep
  <2>1. /\ con = "drain" /\ con' = "sleep" /\ UNCHANGED <<thread, fresh, egz, fails>>
        /\ IF fresh = 0 THEN firm' = firm /\ sunk' = sunk
                        ELSE firm' = Whole /\ sunk' = Len(egz)
    BY <1>13 DEF GoToSleep, threadVars
  <2>2. Logged' = Logged
    BY <2>1 DEF Logged
  <2>3. CASE fresh = 0
    <3>1. \A f : Durable(f)' = Durable(f)
      BY <2>1, <2>3 DEF Durable
    <3> QED BY <2>1, <2>2, <2>3, <3>1
  <2>4. CASE fresh # 0
    BY <2>1, <2>2, <2>4, SyncedIsDurable
  <2> QED BY <2>3, <2>4
<1>14. CASE UNCHANGED vars
  BY <1>1, <1>14 DEF vars, threadVars, conVars, diskVars
<1> QED
  BY <1>3, <1>4, <1>5, <1>6, <1>7, <1>8, <1>9, <1>10, <1>11, <1>12, <1>13, <1>14
     DEF Next, MainThread, Consolidator, PushThread

\* A power loss while _egz_consolidator sleeps loses no entry u2_egz_push has
\* noted, as long as no append failed.
THEOREM RestIsDurable == Spec => []DurableAtRest
<1>1. Init => DurableInv
  BY DEF Init, DurableInv, Logged
<1>2. LogInv /\ DurableInv /\ [Next]_vars => DurableInv'
  BY DurableNext
<1>3. DurableInv => DurableAtRest
  BY DEF DurableInv, DurableAtRest, Durable
<1> QED BY <1>1, <1>2, <1>3, LogInvCorrect, PTL DEF Spec
=============================================================================

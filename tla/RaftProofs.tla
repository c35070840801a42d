----------------------------- MODULE RaftProofs -----------------------------
(***************************************************************************)
(* Proofs about Raft: types and what an action does to nodes and files;    *)
(* connections; requests and the messages that answer them; and then the   *)
(* invariant, action by action, and what follows from it.                  *)
(***************************************************************************)
EXTENDS RaftInv, FiniteSetTheorems, TLAPS

\* Every connection has two ends, each the mate of the other.
LEMMA MateFacts ==
    ASSUME NEW e \in End
    PROVE  /\ Mate(e) \in End /\ Mate(Mate(e)) = e /\ Mate(e) # e
           /\ Mate(e).own = e.oth /\ Mate(e).oth = e.own
           /\ e.own \in Node /\ e.oth \in Node /\ e.own # e.oth
           /\ e.side = "ini" => Mate(e).side = "acc"
           /\ e.side = "acc" => Mate(e).side = "ini"
           /\ e.side \in {"ini", "acc"}
  BY DEF End, Mate

\* What appending to a queue of messages does.
LEMMA AppendFacts ==
    ASSUME NEW s \in Seq(Msg), NEW m \in Msg
    PROVE  /\ Append(s, m) \in Seq(Msg)
           /\ DOMAIN Append(s, m) = 1 .. Len(s) + 1
           /\ DOMAIN s = 1 .. Len(s) /\ Len(s) \in Nat
           /\ \A i \in DOMAIN s : Append(s, m)[i] = s[i]
           /\ Append(s, m)[Len(s) + 1] = m
  OBVIOUS

\* What taking the first message off a queue does.
LEMMA TailFacts ==
    ASSUME NEW s \in Seq(Msg), s # <<>>
    PROVE  /\ Tail(s) \in Seq(Msg) /\ Head(s) \in Msg /\ Head(s) = s[1]
           /\ 1 \in DOMAIN s /\ Len(s) \in Nat
           /\ DOMAIN s = 1 .. Len(s) /\ DOMAIN Tail(s) = 1 .. Len(s) - 1
           /\ \A i \in DOMAIN Tail(s) : Tail(s)[i] = s[i + 1]
  OBVIOUS

\* The messages the code writes are messages.
LEMMA MsgFacts ==
    ASSUME NEW t \in Term, NEW ok \in BOOLEAN, NEW a \in Term
    PROVE  Revo(t) \in Msg /\ Apen(t) \in Msg /\ Rasp(t, ok, a) \in Msg
  BY BoundAssumption DEF Revo, Apen, Rasp, Msg, Term

-----------------------------------------------------------------------------
(***************************************************************************)
(* Type correctness.                                                       *)
(***************************************************************************)

ConnTypeOK ==
    /\ ron_u \in [Node -> [Node -> End \union {None}]]
    /\ con \in [End -> {"none", "wait", "open", "unk", "live", "dead"}]
    /\ out \in [End -> Seq(Msg)]
    /\ wire \in [End -> Seq(Msg)]

\* Writing a message keeps a wire's type.
LEMMA PostType ==
    ASSUME TypeOK, NEW e \in End, NEW m \in Msg
    PROVE  Post(e, m) \in Seq(Msg)
  BY MateFacts, AppendFacts DEF Post, TypeOK

\* So does closing ends.
LEMMA DrainType ==
    ASSUME NEW w \in [End -> Seq(Msg)], NEW S
    PROVE  Drain(w, S) \in [End -> Seq(Msg)]
  BY DEF Drain

\* The connection a request goes out on is one of the node's ends to the peer.
LEMMA TargetFacts ==
    ASSUME TypeOK, NEW n \in Node, NEW m \in Node,
           Linked(n, m) \/ Unused(n, m) # {}
    PROVE  /\ Target(n, m) \in End
           /\ ~ Linked(n, m) => /\ Target(n, m).own = n
                               /\ Target(n, m).oth = m
                               /\ Target(n, m).side = "ini"
                               /\ con[Target(n, m)] = "none"
           /\ Linked(n, m) => Target(n, m) = ron_u[n][m]
  <1>1. CASE Linked(n, m)
    BY <1>1 DEF Target, Linked, TypeOK
  <1>2. CASE ~ Linked(n, m)
    <2>1. Unused(n, m) # {}
      BY <1>2
    <2>2. Fresh(n, m) \in Unused(n, m)
      BY <2>1 DEF Fresh
    <2>3. QED
      BY <1>2, <2>2 DEF Target, Unused
  <1>3. QED
    BY <1>1, <1>2

\* _raft_conn_all keeps the types of the connection variables.
LEMMA ConnAllType ==
    ASSUME TypeOK, NEW n \in Node, NEW req \in Msg, ConnAll(n, req)
    PROVE  ConnTypeOK'
  <1>1. ron_u' \in [Node -> [Node -> End \union {None}]]
    <2>1. \A m \in Peers(n) : Target(n, m) \in End
      BY TargetFacts DEF ConnAll, Peers
    <2>2. QED
      BY <2>1 DEF ConnAll, TypeOK, Peers
  <1>2. con' \in [End -> {"none", "wait", "open", "unk", "live", "dead"}]
    BY DEF ConnAll, TypeOK
  <1>3. out' \in [End -> Seq(Msg)]
    <2>1. \A f \in End : Append(out[f], req) \in Seq(Msg)
      BY AppendFacts DEF TypeOK
    <2>2. QED
      BY <2>1 DEF ConnAll, TypeOK
  <1>4. wire' \in [End -> Seq(Msg)]
    BY PostType DEF ConnAll, TypeOK
  <1>5. QED
    BY <1>1, <1>2, <1>3, <1>4 DEF ConnTypeOK

\* _raft_conn_free keeps them.
LEMMA CloseType ==
    ASSUME TypeOK, NEW n \in Node, NEW S, NEW w \in [End -> Seq(Msg)],
           Close(n, S, w)
    PROVE  ConnTypeOK'
  <1>1. con' \in [End -> {"none", "wait", "open", "unk", "live", "dead"}]
    BY DEF Close, TypeOK
  <1>2. out' \in [End -> Seq(Msg)]
    BY DEF Close, TypeOK
  <1>3. wire' \in [End -> Seq(Msg)]
    BY DrainType DEF Close
  <1>4. ron_u' \in [Node -> [Node -> End \union {None}]]
    BY DEF Close, Unlink, TypeOK
  <1>5. QED
    BY <1>1, <1>2, <1>3, <1>4 DEF ConnTypeOK

\* _raft_rest_name keeps them.
LEMMA RestNameType ==
    ASSUME TypeOK, NEW e \in End, NEW w \in [End -> Seq(Msg)],
           RestName(e, w)
    PROVE  ConnTypeOK'
  <1>1. con' \in [End -> {"none", "wait", "open", "unk", "live", "dead"}]
    BY DEF RestName, TypeOK
  <1>2. out' \in [End -> Seq(Msg)]
    BY DEF RestName, TypeOK
  <1>3. wire' \in [End -> Seq(Msg)]
    BY DrainType DEF RestName
  <1>4. ron_u' \in [Node -> [Node -> End \union {None}]]
    BY MateFacts DEF RestName, TypeOK
  <1>5. QED
    BY <1>1, <1>2, <1>3, <1>4 DEF ConnTypeOK

\* The message an end takes off the wire is a message.
LEMMA TakenFacts ==
    ASSUME TypeOK, NEW e \in End, wire[Mate(e)] # <<>>
    PROVE  /\ Taken(e) \in [End -> Seq(Msg)]
           /\ Head(wire[Mate(e)]) \in Msg
           /\ Head(wire[Mate(e)]).tem \in Term
           /\ Head(wire[Mate(e)]).suc \in BOOLEAN
           /\ e.own \in Node /\ e.oth \in Node
  BY MateFacts, TailFacts DEF Taken, TypeOK, Msg

\* What _raft_note_term leaves has its type.
LEMMA NoteType ==
    ASSUME TypeOK, NEW n \in Node, NEW t \in Term
    PROVE  /\ NoteTem(n, t) \in Term
           /\ NoteTyp(n, t) \in {"none", "foll", "cand", "lead"}
           /\ NoteVog(n, t) \in Node \union {None}
           /\ NoteVot(n, t) \in Nat
           /\ NoteSis(n, t) \in Node \union {None}
  BY DEF NoteTem, NoteTyp, NoteVog, NoteVot, NoteSis, TypeOK

\* A crash keeps the types.
LEMMA HaltType ==
    ASSUME TypeOK, NEW n \in Node, NEW t \in Term,
           NEW v \in Node \union {None}, NEW torn \in BOOLEAN,
           Halt(n, t, v, torn)
    PROVE  TypeOK'
  <1> DEFINE S == {f \in End : f.own = n /\ con[f] # "none"}
             w == [f \in End |-> IF f \in S /\ con[f] = "wait" THEN <<>>
                                 ELSE wire[f]]
  <1>1. w \in [End -> Seq(Msg)]
    BY DEF TypeOK
  <1>2. Close(n, S, w)
    BY DEF Halt
  <1> HIDE DEF S, w
  <1>3. ConnTypeOK'
    BY <1>1, <1>2, CloseType
  <1>4. 0 \in Term
    BY BoundAssumption DEF Term
  <1>5. sis_torn' \in [Node -> BOOLEAN]
    <2>1. sis_torn \in [Node -> BOOLEAN]
      BY DEF TypeOK
    <2>2. sis_torn' = [sis_torn EXCEPT ![n] = torn]
      BY DEF Halt
    <2>3. QED
      BY <2>1, <2>2, Zenon
  <1>6. /\ typ_e' \in [Node -> {"none", "foll", "cand", "lead"}]
        /\ tem_w' \in [Node -> Term] /\ vog_c' \in [Node -> Node \union {None}]
        /\ vot_w' \in [Node -> Nat] /\ vog' \in [Node -> SUBSET Node]
        /\ fault' \in Nat
    BY <1>4 DEF Halt, TypeOK
  <1>7. /\ sis_term' \in [Node -> Term]
        /\ sis_vote' \in [Node -> Node \union {None}]
        /\ cast' \subseteq Node \X Term \X Node
        /\ elected' \subseteq Node \X Term /\ discarded' \subseteq Node \X Term
    BY DEF Halt, TypeOK, auxVars
  <1>8. QED
    BY <1>3, <1>5, <1>6, <1>7 DEF TypeOK, ConnTypeOK

\* The types at the start.
LEMMA TypeInit == Init => TypeOK
  <1>1. 0 \in Term
    BY BoundAssumption DEF Term
  <1>2. QED
    BY <1>1 DEF Init, TypeOK, Peers

\* Every handler keeps the types.
LEMMA TypeStep == TypeOK /\ [Next]_vars => TypeOK'
  <1> SUFFICES ASSUME TypeOK, [Next]_vars
               PROVE  TypeOK'
    OBVIOUS
  <1>1. ASSUME NEW n \in Node, StartElection(n)
        PROVE  TypeOK'
    <2>1. tem_w[n] + 1 \in Term
      BY <1>1, BoundAssumption DEF StartElection, TypeOK, Term
    <2>2. ConnTypeOK'
      BY <1>1, <2>1, ConnAllType, MsgFacts DEF StartElection
    <2>3. cast' \subseteq Node \X Term \X Node
      BY <1>1, <2>1 DEF StartElection, TypeOK
    <2>4. /\ tem_w' \in [Node -> Term] /\ sis_term' \in [Node -> Term]
          /\ vog_c' \in [Node -> Node \union {None}]
          /\ sis_vote' \in [Node -> Node \union {None}]
      BY <1>1, <2>1 DEF StartElection, TypeOK
    <2>5. /\ typ_e' \in [Node -> {"none", "foll", "cand", "lead"}]
          /\ vot_w' \in [Node -> Nat] /\ vog' \in [Node -> SUBSET Node]
          /\ sis_torn' \in [Node -> BOOLEAN] /\ fault' \in Nat
          /\ elected' \subseteq Node \X Term /\ discarded' \subseteq Node \X Term
      BY <1>1 DEF StartElection, TypeOK
    <2>6. QED
      BY <2>2, <2>3, <2>4, <2>5 DEF TypeOK, ConnTypeOK
  <1>2. ASSUME NEW n \in Node, Heartbeat(n)
        PROVE  TypeOK'
    <2>1. ConnTypeOK'
      BY <1>2, ConnAllType, MsgFacts DEF Heartbeat, TypeOK
    <2>2. QED
      BY <1>2, <2>1
      DEF Heartbeat, TypeOK, ConnTypeOK, nodeVars, sistVars, auxVars
  <1>3. ASSUME NEW n \in Node, Crash(n)
        PROVE  TypeOK'
    <2>1. sis_torn[n] \in BOOLEAN
      BY Zenon DEF TypeOK
    <2>2. sis_term[n] \in Term /\ sis_vote[n] \in Node \union {None}
      BY DEF TypeOK
    <2>3. Halt(n, sis_term[n], sis_vote[n], sis_torn[n])
      BY <1>3 DEF Crash
    <2>4. QED
      BY <2>1, <2>2, <2>3, HaltType, Zenon
  <1>4. ASSUME NEW n \in Node, CrashInElection(n)
        PROVE  TypeOK'
    <2>1. tem_w[n] + 1 \in Term
      BY <1>4, BoundAssumption DEF CrashInElection, TypeOK, Term
    <2>2. QED
      BY <1>4, <2>1, HaltType DEF CrashInElection, TypeOK
  <1>5. ASSUME NEW n \in Node, FollInit(n)
        PROVE  TypeOK'
    <2>1. ReadVote(n) \subseteq Node \union {None}
      BY DEF ReadVote, TypeOK
    <2>2. QED
      BY <1>5, <2>1 DEF FollInit, TypeOK, Peers, sistVars, connVars
  <1>6. ASSUME NEW e \in End, Connect(e)
        PROVE  TypeOK'
    BY <1>6, MateFacts DEF Connect, TypeOK, nodeVars, sistVars, auxVars
  <1>7. ASSUME NEW e \in End, Listen(e)
        PROVE  TypeOK'
    BY <1>7 DEF Listen, TypeOK, nodeVars, sistVars, auxVars
  <1>8. ASSUME NEW e \in End, ConnLost(e)
        PROVE  TypeOK'
    <2>1. [wire EXCEPT ![e] = IF con[e] = "wait" THEN <<>> ELSE @]
             \in [End -> Seq(Msg)]
      BY DEF TypeOK
    <2>2. ConnTypeOK'
      BY <1>8, <2>1, CloseType, MateFacts DEF ConnLost
    <2>3. QED
      BY <1>8, <2>2
      DEF ConnLost, TypeOK, ConnTypeOK, nodeVars, sistVars, auxVars
  <1>9. ASSUME NEW e \in End, DoApen(e)
        PROVE  TypeOK'
    <2> DEFINE t == Head(wire[Mate(e)]).tem
    <2>1. Taken(e) \in [End -> Seq(Msg)] /\ t \in Term /\ e.own \in Node
      BY <1>9, TakenFacts DEF DoApen, Arrived
    <2>2. ConnTypeOK'
      BY <1>9, <2>1, RestNameType DEF DoApen
    <2> HIDE DEF t
    <2>3. QED
      BY <1>9, <2>1, <2>2, NoteType
      DEF DoApen, TypeOK, ConnTypeOK, auxVars, t
  <1>10. ASSUME NEW e \in End, DoRevo(e)
         PROVE  TypeOK'
    <2> DEFINE n == e.own
               t == Head(wire[Mate(e)]).tem
               ok == Grant(n, e.oth, t)
               ans == Rasp(NoteTem(n, t), ok, t)
               w == [Taken(e) EXCEPT ![e] = Post(e, ans)]
    <2>1. /\ Taken(e) \in [End -> Seq(Msg)] /\ t \in Term
          /\ n \in Node /\ e.oth \in Node
      BY <1>10, TakenFacts DEF DoRevo, Arrived
    <2>2. ans \in Msg
      BY <2>1, NoteType, MsgFacts DEF Grant
    <2>3. w \in [End -> Seq(Msg)]
      BY <2>1, <2>2, PostType
    <2>4. ConnTypeOK'
      BY <1>10, <2>3, RestNameType DEF DoRevo
    <2> HIDE DEF t, n, ok, ans, w
    <2>5. /\ typ_e' = [typ_e EXCEPT ![n] = NoteTyp(n, t)]
          /\ tem_w' = [tem_w EXCEPT ![n] = NoteTem(n, t)]
          /\ vot_w' = [vot_w EXCEPT ![n] = NoteVot(n, t)]
          /\ vog_c' = [vog_c EXCEPT ![n] = IF ok THEN e.oth
                                           ELSE NoteVog(n, t)]
          /\ sis_term' = [sis_term EXCEPT ![n] = IF Newer(n, t) THEN t ELSE @]
          /\ sis_vote' = [sis_vote EXCEPT ![n] = IF ok THEN e.oth
                                                 ELSE NoteSis(n, t)]
          /\ cast' = IF ok THEN cast \union {<<n, t, e.oth>>} ELSE cast
          /\ UNCHANGED <<vog, sis_torn, fault, elected, discarded>>
      BY <1>10 DEF DoRevo, n, t, ok
    <2>6. /\ typ_e' \in [Node -> {"none", "foll", "cand", "lead"}]
          /\ tem_w' \in [Node -> Term] /\ vot_w' \in [Node -> Nat]
      BY <2>1, <2>5, NoteType DEF TypeOK
    <2>7. /\ vog_c' \in [Node -> Node \union {None}]
          /\ sis_term' \in [Node -> Term]
          /\ sis_vote' \in [Node -> Node \union {None}]
      BY <2>1, <2>5, NoteType DEF TypeOK
    <2>8. cast' \subseteq Node \X Term \X Node
      BY <2>1, <2>5 DEF TypeOK
    <2>9. QED
      BY <2>4, <2>5, <2>6, <2>7, <2>8 DEF TypeOK, ConnTypeOK
  <1>11. ASSUME NEW e \in End, DoRasp(e)
         PROVE  TypeOK'
    <2>1. Taken(e) \in [End -> Seq(Msg)] /\ e.own \in Node /\ e.oth \in Node
      BY <1>11, TakenFacts DEF DoRasp, Arrived
    <2>2. CASE RaspStray(e)
      BY <2>1, <2>2, CloseType
      DEF RaspStray, TypeOK, ConnTypeOK, nodeVars, sistVars, auxVars
    <2>3. CASE RaspMatched(e) /\ out[e] # <<>>
      <3> DEFINE r == Head(wire[Mate(e)])
      <3>1. r.tem \in Term
        BY <1>11, TakenFacts DEF DoRasp, Arrived
      <3>2. Tally(e, r.suc) \in Nat
        BY <2>1 DEF Tally, TypeOK
      <3>3. Tail(out[e]) \in Seq(Msg)
        BY <2>3, TailFacts DEF TypeOK
      <3> HIDE DEF r
      <3>4. /\ vog' \in [Node -> SUBSET Node] /\ vot_w' \in [Node -> Nat]
            /\ typ_e' \in [Node -> {"none", "foll", "cand", "lead"}]
            /\ elected' \subseteq Node \X Term /\ discarded' \subseteq Node \X Term
        BY <2>1, <2>3, <3>2 DEF RaspMatched, TypeOK, r
      <3>5. /\ tem_w' \in [Node -> Term] /\ vog_c' \in [Node -> Node \union {None}]
            /\ sis_term' \in [Node -> Term]
            /\ sis_vote' \in [Node -> Node \union {None}]
        BY <2>1, <2>3, <3>1, NoteType DEF RaspMatched, TypeOK, r
      <3>6. QED
        BY <2>1, <2>3, <3>3, <3>4, <3>5 DEF RaspMatched, TypeOK
    <2>4. QED
      BY <1>11, <2>2, <2>3 DEF DoRasp
  <1>12. ASSUME NEW e \in End, CrashInNote(e)
         PROVE  TypeOK'
    BY <1>12, TakenFacts, NoteType, HaltType DEF CrashInNote, TypeOK
  <1>13. ASSUME NEW e \in End, CrashInGrant(e)
         PROVE  TypeOK'
    BY <1>13, TakenFacts, NoteType, HaltType DEF CrashInGrant, Arrived
  <1>14. CASE UNCHANGED vars
    BY <1>14
    DEF TypeOK, vars, nodeVars, sistVars, connVars, auxVars
  <1>15. QED
    BY <1>1, <1>2, <1>3, <1>4, <1>5, <1>6, <1>7, <1>8, <1>9, <1>10, <1>11,
       <1>12, <1>13, <1>14 DEF Next

\* Type correctness, for every flotilla and every bound.
THEOREM TypeCorrect == Spec => []TypeOK
  BY TypeInit, TypeStep, PTL DEF Spec
-----------------------------------------------------------------------------
(***************************************************************************)
(* Votes, files and tallies.                                               *)
(***************************************************************************)

NodeInv == /\ Synced /\ Remembered /\ CastOnDisk /\ TwiceByDiscard /\ Tallied
           /\ FollowerHasNoVotes /\ ElectedByMajority

Ballots(n, t) == {m \in Node : <<m, t, n>> \in cast}

\* More than a majority is a majority.
LEMMA MajorityGrows ==
    ASSUME NEW i \in Nat, NEW j \in Nat, i <= j, Majority(i)
    PROVE  Majority(j)
  <1>1. Cardinality(Node) \div 2 \in Int
    BY NodeAssumption, FS_CardinalityType
  <1>2. QED
    BY <1>1 DEF Majority

\* More votes never unseat a leader.
LEMMA ElectedKept ==
    ASSUME ElectedByMajority, cast \subseteq cast', elected' = elected
    PROVE  ElectedByMajority'
  <1> SUFFICES ASSUME NEW l \in elected
               PROVE  Majority(Cardinality({m \in Node : <<m, l[2], l[1]>> \in cast'}))
    BY DEF ElectedByMajority, Majority
  <1> DEFINE A == {m \in Node : <<m, l[2], l[1]>> \in cast}
             B == {m \in Node : <<m, l[2], l[1]>> \in cast'}
  <1>1. A \subseteq B /\ B \subseteq Node
    OBVIOUS
  <1>2. IsFiniteSet(B) /\ IsFiniteSet(A)
    BY <1>1, NodeAssumption, FS_Subset
  <1>3. Cardinality(A) <= Cardinality(B)
    BY <1>1, <1>2, FS_Subset
  <1>4. Cardinality(A) \in Nat /\ Cardinality(B) \in Nat
    BY <1>2, FS_CardinalityType
  <1>5. Majority(Cardinality(A))
    BY DEF ElectedByMajority
  <1> HIDE DEF A, B
  <1>6. Majority(Cardinality(B))
    BY <1>3, <1>4, <1>5, MajorityGrows
  <1>7. QED
    BY <1>6 DEF B

\* The types of a vote, and that its term is no later than the one on disk.
LEMMA CastTerm ==
    ASSUME TypeOK, CastOnDisk, NEW b \in cast
    PROVE  /\ b[1] \in Node /\ b[2] \in Nat /\ b[3] \in Node
           /\ b[2] <= sis_term[b[1]] /\ sis_term[b[1]] \in Nat
  <1>1. b[1] \in Node /\ b[2] \in Term /\ b[3] \in Node
    BY DEF TypeOK
  <1>2. b[2] <= sis_term[b[1]]
    BY DEF CastOnDisk
  <1>3. QED
    BY <1>1, <1>2 DEF TypeOK, Term

\* A step that leaves nodes, files and votes alone leaves NodeInv alone.
LEMMA NodeFrame ==
    ASSUME NodeInv, UNCHANGED <<nodeVars, sis_term, sis_vote, auxVars>>
    PROVE  NodeInv'
  BY DEF NodeInv, Synced, Remembered, CastOnDisk, TwiceByDiscard, Tallied,
         FollowerHasNoVotes, ElectedByMajority, Majority, nodeVars, auxVars

\* A crash keeps every vote on disk: the files hold a newer term, or the same
\* term and the same vote.
LEMMA NodeHalt ==
    ASSUME TypeOK, NodeInv, NEW n \in Node, NEW t \in Term, NEW v, NEW torn,
           Halt(n, t, v, torn), t >= sis_term[n],
           t = sis_term[n] => v = sis_vote[n]
    PROVE  NodeInv'
  <1> USE DEF NodeInv
  <1>1. Synced' /\ FollowerHasNoVotes'
    BY DEF Halt, Synced, FollowerHasNoVotes, TypeOK
  <1>2. CastOnDisk'
    <2> SUFFICES ASSUME NEW b \in cast
                 PROVE  /\ b[2] <= sis_term'[b[1]]
                        /\ b[2] = sis_term'[b[1]] =>
                              b[3] = sis_vote'[b[1]] \/ <<b[1], b[2]>> \in discarded
      BY DEF Halt, auxVars, CastOnDisk
    <2>1. b[1] \in Node /\ b[2] \in Nat /\ sis_term[n] \in Nat /\ t \in Nat
      BY DEF TypeOK, Term
    <2>2. CASE b[1] = n
      BY <2>1, <2>2 DEF Halt, CastOnDisk, TypeOK
    <2>3. CASE b[1] # n
      BY <2>1, <2>3 DEF Halt, CastOnDisk, TypeOK
    <2>4. QED
      BY <2>2, <2>3
  <1>3. TwiceByDiscard' /\ Remembered'
    <2>1. TwiceByDiscard'
      BY DEF Halt, auxVars, TwiceByDiscard
    <2>2. UNCHANGED <<cast, discarded>> /\ typ_e'[n] = "none"
          /\ \A m \in Node \ {n} : /\ typ_e'[m] = typ_e[m] /\ tem_w'[m] = tem_w[m]
                                   /\ vog_c'[m] = vog_c[m]
      BY DEF Halt, auxVars, TypeOK
    <2>3. \A b \in cast : b[1] \in Node
      BY DEF TypeOK
    <2>4. Remembered'
      BY <2>2, <2>3 DEF Remembered
    <2>5. QED
      BY <2>1, <2>4
  <1>4. Tallied'
    <2> SUFFICES ASSUME NEW m \in Node, typ_e'[m] \in {"cand", "lead"}
                 PROVE  Tallied!(m)'
      BY DEF Tallied
    <2>1. m # n
      BY DEF Halt, TypeOK
    <2>2. QED
      BY <2>1 DEF Halt, Tallied, TypeOK, auxVars
  <1>5. ElectedByMajority'
    BY ElectedKept DEF Halt, auxVars
  <1>6. QED
    BY <1>1, <1>2, <1>3, <1>4, <1>5

\* An election: the vote for oneself is in a term nobody voted in before.
LEMMA NodeElection ==
    ASSUME TypeOK, NodeInv, NEW n \in Node, StartElection(n)
    PROVE  NodeInv'
  <1> USE DEF NodeInv
  <1> DEFINE t == tem_w[n] + 1
  <1>1. tem_w[n] = sis_term[n] /\ tem_w[n] \in Nat
    BY DEF StartElection, Synced, TypeOK, Term
  <1>2. \A b \in cast : b[1] = n => b[2] < t /\ b[2] \in Nat
    BY <1>1, CastTerm
  <1>3. Synced' /\ FollowerHasNoVotes'
    BY <1>1 DEF StartElection, Synced, FollowerHasNoVotes, TypeOK
  <1>4. CastOnDisk'
    <2> SUFFICES ASSUME NEW b \in cast'
                 PROVE  /\ b[2] <= sis_term'[b[1]]
                        /\ b[2] = sis_term'[b[1]] =>
                              b[3] = sis_vote'[b[1]] \/ <<b[1], b[2]>> \in discarded
      BY DEF StartElection, CastOnDisk
    <2>1. CASE b = <<n, t, n>>
      BY <1>1, <2>1 DEF StartElection, TypeOK
    <2>2. CASE b \in cast /\ b[1] = n
      BY <1>1, <1>2, <2>2 DEF StartElection, TypeOK
    <2>3. CASE b \in cast /\ b[1] # n
      BY <2>3 DEF StartElection, CastOnDisk, TypeOK
    <2>4. QED
      BY <2>1, <2>2, <2>3 DEF StartElection
  <1>5. TwiceByDiscard' /\ Remembered'
    <2>1. TwiceByDiscard'
      BY <1>2 DEF StartElection, TwiceByDiscard
    <2>2. ASSUME NEW b \in cast', typ_e'[b[1]] # "none", b[2] = tem_w'[b[1]]
          PROVE  b[3] = vog_c'[b[1]] \/ <<b[1], b[2]>> \in discarded
      <3>1. CASE b = <<n, t, n>>
        BY <3>1 DEF StartElection, TypeOK
      <3>2. CASE b \in cast /\ b[1] = n
        BY <1>1, <1>2, <2>2, <3>2 DEF StartElection, TypeOK
      <3>3. CASE b \in cast /\ b[1] # n
        BY <2>2, <3>3 DEF StartElection, Remembered, TypeOK
      <3>4. QED
        BY <3>1, <3>2, <3>3 DEF StartElection
    <2>3. QED
      BY <2>1, <2>2 DEF StartElection, Remembered
  <1>6. Tallied'
    <2> SUFFICES ASSUME NEW m \in Node, typ_e'[m] \in {"cand", "lead"}
                 PROVE  Tallied!(m)'
      BY DEF Tallied
    <2>1. CASE m = n
      BY <2>1, FS_EmptySet DEF StartElection, TypeOK
    <2>2. CASE m # n
      BY <2>2 DEF StartElection, Tallied, TypeOK
    <2>3. QED
      BY <2>1, <2>2
  <1>7. ElectedByMajority'
    BY ElectedKept DEF StartElection
  <1>8. QED
    BY <1>3, <1>4, <1>5, <1>6, <1>7

\* A restart: with the vote in the file, or in a term whose vote is discarded.
LEMMA NodeFollInit ==
    ASSUME TypeOK, NodeInv, NEW n \in Node, FollInit(n)
    PROVE  NodeInv'
  <1> USE DEF NodeInv
  <1>1. PICK v \in ReadVote(n) :
          /\ typ_e' = [typ_e EXCEPT ![n] = IF v = n THEN "cand" ELSE "foll"]
          /\ vot_w' = [vot_w EXCEPT ![n] = IF v = n THEN 1 ELSE 0]
          /\ vog_c' = [vog_c EXCEPT ![n] = v]
          /\ cast' = IF v = n THEN cast \union {<<n, sis_term[n], n>>} ELSE cast
          /\ discarded' = IF v = sis_vote[n] THEN discarded
                          ELSE discarded \union {<<n, sis_term[n]>>}
    BY DEF FollInit
  <1>2. /\ tem_w' = [tem_w EXCEPT ![n] = sis_term[n]]
        /\ vog' = [vog EXCEPT ![n] = Peers(n)]
        /\ UNCHANGED <<sis_term, sis_vote, elected>>
    BY DEF FollInit, sistVars
  <1>3. v = sis_vote[n] \/ (v = None /\ v # n)
    BY NoneAssumption DEF ReadVote
  <1>4. Synced' /\ FollowerHasNoVotes'
    BY <1>1, <1>2 DEF Synced, FollowerHasNoVotes, TypeOK
  <1>5. /\ CastOnDisk' /\ TwiceByDiscard' /\ Remembered'
    <2>1. discarded \subseteq discarded'
      BY <1>1
    <2>2. ASSUME NEW b \in cast'
          PROVE  /\ b[1] \in Node /\ b[2] <= sis_term[b[1]]
                 /\ b[2] = sis_term[b[1]] =>
                       b[3] = sis_vote[b[1]] \/ <<b[1], b[2]>> \in discarded
      <3>1. CASE b \in cast
        BY <3>1 DEF CastOnDisk, TypeOK
      <3>2. CASE b \notin cast
        <4>1. b = <<n, sis_term[n], n>> /\ v = n
          BY <1>1, <3>2
        <4>2. sis_term[n] \in Nat
          BY DEF TypeOK, Term
        <4>3. QED
          BY <1>3, <4>1, <4>2
      <3>3. QED
        BY <3>1, <3>2
    <2>3. CastOnDisk'
      BY <1>2, <2>1, <2>2 DEF CastOnDisk
    <2>4. TwiceByDiscard'
      <3> SUFFICES ASSUME NEW a \in cast', NEW b \in cast', a[1] = b[1], a[2] = b[2]
                   PROVE  a[3] = b[3] \/ <<a[1], a[2]>> \in discarded'
        BY DEF TwiceByDiscard
      <3>1. CASE a \in cast /\ b \in cast
        BY <2>1, <3>1 DEF TwiceByDiscard
      <3>2. CASE a \notin cast \/ b \notin cast
        <4>1. /\ v = n /\ sis_vote[n] = n /\ a[1] = n /\ a[2] = sis_term[n]
              /\ b[1] = n /\ b[2] = sis_term[n]
          BY <1>1, <1>3, <3>2
        <4>2. /\ a[3] = n \/ <<n, sis_term[n]>> \in discarded
              /\ b[3] = n \/ <<n, sis_term[n]>> \in discarded
          BY <2>2, <4>1
        <4>3. QED
          BY <2>1, <4>1, <4>2
      <3>3. QED
        BY <3>1, <3>2
    <2>5. Remembered'
      <3> SUFFICES ASSUME NEW b \in cast', typ_e'[b[1]] # "none", b[2] = tem_w'[b[1]]
                   PROVE  b[3] = vog_c'[b[1]] \/ <<b[1], b[2]>> \in discarded'
        BY DEF Remembered
      <3>1. CASE b[1] = n
        <4>1. b[2] = sis_term[n] /\ vog_c'[n] = v
          BY <1>1, <1>2, <3>1 DEF TypeOK
        <4>2. CASE v = sis_vote[n]
          BY <2>1, <2>2, <3>1, <4>1, <4>2
        <4>3. CASE v # sis_vote[n]
          BY <1>1, <3>1, <4>1, <4>3
        <4>4. QED
          BY <4>2, <4>3
      <3>2. CASE b[1] # n
        <4>1. b \in cast /\ b[1] \in Node
          <5>1. b \in cast \/ b = <<n, sis_term[n], n>>
            BY <1>1
          <5>2. b # <<n, sis_term[n], n>>
            BY <3>2
          <5>3. b[1] \in Node
            BY <2>2
          <5>4. QED
            BY <5>1, <5>2, <5>3
        <4>2. /\ typ_e[b[1]] # "none" /\ b[2] = tem_w[b[1]]
              /\ vog_c'[b[1]] = vog_c[b[1]]
          BY <1>1, <1>2, <3>2, <4>1 DEF TypeOK
        <4>3. QED
          BY <2>1, <4>1, <4>2 DEF Remembered
      <3>3. QED
        BY <3>1, <3>2
    <2>6. QED
      BY <2>3, <2>4, <2>5
  <1>6. Tallied'
    <2> SUFFICES ASSUME NEW m \in Node, typ_e'[m] \in {"cand", "lead"}
                 PROVE  Tallied!(m)'
      BY DEF Tallied
    <2>1. CASE m = n
      BY <1>1, <1>2, <2>1 DEF TypeOK
    <2>2. CASE m # n
      BY <1>1, <1>2, <2>2 DEF Tallied, TypeOK
    <2>3. QED
      BY <2>1, <2>2
  <1>7. ElectedByMajority'
    BY <1>1, <1>2, ElectedKept
  <1>8. QED
    BY <1>4, <1>5, <1>6, <1>7

\* A message whose term is noted and which neither casts nor counts a vote.
LEMMA NodeApen ==
    ASSUME TypeOK, NodeInv, NEW n \in Node, NEW t \in Term,
           typ_e[n] # "none",
           typ_e' = [typ_e EXCEPT ![n] = NoteTyp(n, t)],
           tem_w' = [tem_w EXCEPT ![n] = NoteTem(n, t)],
           vog_c' = [vog_c EXCEPT ![n] = NoteVog(n, t)],
           vot_w' = [vot_w EXCEPT ![n] = NoteVot(n, t)],
           sis_term' = [sis_term EXCEPT ![n] = IF Newer(n, t) THEN t ELSE @],
           sis_vote' = [sis_vote EXCEPT ![n] = NoteSis(n, t)],
           UNCHANGED <<vog, auxVars>>
    PROVE  NodeInv'
  <1> USE DEF NodeInv, auxVars
  <1>1. tem_w[n] = sis_term[n] /\ tem_w[n] \in Nat /\ t \in Nat
    BY DEF Synced, TypeOK, Term
  <1>2. Synced'
    BY <1>1 DEF Synced, NoteTem, NoteVog, NoteSis, TypeOK
  <1>3. FollowerHasNoVotes'
    BY DEF FollowerHasNoVotes, NoteTyp, NoteVot, Demoted, TypeOK
  <1>4. CastOnDisk'
    <2> SUFFICES ASSUME NEW b \in cast
                 PROVE  /\ b[2] <= sis_term'[b[1]]
                        /\ b[2] = sis_term'[b[1]] =>
                              b[3] = sis_vote'[b[1]] \/ <<b[1], b[2]>> \in discarded
      BY DEF CastOnDisk
    <2>1. b[1] \in Node /\ b[2] \in Nat
      BY DEF TypeOK, Term
    <2>2. CASE b[1] = n
      BY <1>1, <2>1, <2>2 DEF CastOnDisk, Newer, NoteSis, Demoted, TypeOK
    <2>3. CASE b[1] # n
      BY <2>1, <2>3 DEF CastOnDisk, TypeOK
    <2>4. QED
      BY <2>2, <2>3
  <1>5. TwiceByDiscard' /\ Remembered'
    <2>1. TwiceByDiscard'
      BY DEF TwiceByDiscard
    <2>2. ASSUME NEW b \in cast, typ_e'[b[1]] # "none", b[2] = tem_w'[b[1]]
          PROVE  b[3] = vog_c'[b[1]] \/ <<b[1], b[2]>> \in discarded
      <3>1. b[1] \in Node /\ b[2] \in Nat /\ b[2] <= sis_term[b[1]]
        BY CastTerm
      <3>2. CASE b[1] = n
        <4>1. b[2] = NoteTem(n, t)
          BY <2>2, <3>2 DEF TypeOK
        <4>2. ~ Newer(n, t) /\ b[2] = tem_w[n]
          BY <1>1, <3>1, <3>2, <4>1 DEF Newer, NoteTem
        <4>3. vog_c'[n] = vog_c[n]
          BY <4>2 DEF NoteVog, Demoted, TypeOK
        <4>4. QED
          BY <3>2, <4>2, <4>3 DEF Remembered
      <3>3. CASE b[1] # n
        BY <2>2, <3>1, <3>3 DEF Remembered, TypeOK
      <3>4. QED
        BY <3>2, <3>3
    <2>3. QED
      BY <2>1, <2>2 DEF Remembered
  <1>6. Tallied'
    <2> SUFFICES ASSUME NEW m \in Node, typ_e'[m] \in {"cand", "lead"}
                 PROVE  Tallied!(m)'
      BY DEF Tallied
    <2>1. CASE m = n
      BY <2>1 DEF Tallied, NoteTyp, NoteTem, NoteVot, Demoted, TypeOK
    <2>2. CASE m # n
      BY <2>2 DEF Tallied, TypeOK
    <2>3. QED
      BY <2>1, <2>2
  <1>7. ElectedByMajority'
    BY ElectedKept
  <1>8. QED
    BY <1>2, <1>3, <1>4, <1>5, <1>6, <1>7

\* A vote: nobody else got it in this term.
LEMMA NodeRevo ==
    ASSUME TypeOK, NodeInv, NEW e \in End, DoRevo(e),
           typ_e[e.own] # "none"
    PROVE  NodeInv'
  <1> USE DEF NodeInv
  <1> DEFINE n == e.own
             m == e.oth
             t == Head(wire[Mate(e)]).tem
             ok == Grant(n, m, t)
  <1>1. t \in Term /\ n \in Node /\ m \in Node
    BY TakenFacts DEF DoRevo, Arrived
  <1>2. /\ typ_e' = [typ_e EXCEPT ![n] = NoteTyp(n, t)]
        /\ tem_w' = [tem_w EXCEPT ![n] = NoteTem(n, t)]
        /\ vot_w' = [vot_w EXCEPT ![n] = NoteVot(n, t)]
        /\ vog_c' = [vog_c EXCEPT ![n] = IF ok THEN m ELSE NoteVog(n, t)]
        /\ sis_term' = [sis_term EXCEPT ![n] = IF Newer(n, t) THEN t ELSE @]
        /\ sis_vote' = [sis_vote EXCEPT ![n] = IF ok THEN m
                                               ELSE NoteSis(n, t)]
        /\ cast' = IF ok THEN cast \union {<<n, t, m>>} ELSE cast
        /\ UNCHANGED <<vog, elected, discarded>>
    BY DEF DoRevo
  <1>3. tem_w[n] = sis_term[n] /\ typ_e[n] # "none"
    BY <1>1 DEF Synced
  <1>4. tem_w[n] \in Nat /\ t \in Nat
    BY <1>1 DEF TypeOK, Term
  <1> HIDE DEF n, m, t, ok
  <1>5. ok => t = NoteTem(n, t) /\ t >= sis_term[n]
    BY <1>3, <1>4 DEF ok, Grant, NoteTem, Newer
  <1>6. \A b \in cast : ok /\ b[1] = n /\ b[2] = t =>
            b[3] = m \/ <<n, t>> \in discarded
    <2> SUFFICES ASSUME NEW b \in cast, ok, b[1] = n, b[2] = t
                 PROVE  b[3] = m \/ <<n, t>> \in discarded
      OBVIOUS
    <2>1. b[2] <= sis_term[n] /\ b[3] \in Node
      BY CastTerm
    <2>2. t = sis_term[n] /\ ~ Newer(n, t)
      BY <1>3, <1>4, <1>5, <2>1 DEF Newer
    <2>3. b[3] = vog_c[n] \/ <<n, t>> \in discarded
      BY <1>3, <2>2 DEF Remembered
    <2>4. QED
      BY <2>1, <2>2, <2>3, NoneAssumption
      DEF ok, Grant, NoteVog, Demoted
  <1>7. Synced'
    BY <1>1, <1>2, <1>3, <1>4 DEF Synced, NoteTem, NoteVog, NoteSis, TypeOK
  <1>8. FollowerHasNoVotes'
    BY <1>1, <1>2 DEF FollowerHasNoVotes, NoteTyp, NoteVot, Demoted, TypeOK
  <1>9. CastOnDisk'
    <2> SUFFICES ASSUME NEW b \in cast'
                 PROVE  /\ b[2] <= sis_term'[b[1]]
                        /\ b[2] = sis_term'[b[1]] =>
                              b[3] = sis_vote'[b[1]] \/ <<b[1], b[2]>> \in discarded
      BY <1>2 DEF CastOnDisk
    <2>1. CASE b \in cast /\ b[1] # n
      BY <1>1, <1>2, <2>1 DEF CastOnDisk, TypeOK
    <2>2. CASE b \in cast /\ b[1] = n
      <3>1. b[2] \in Nat /\ b[2] <= sis_term[n]
        BY <2>2, CastTerm
      <3>2. CASE Newer(n, t)
        BY <1>1, <1>2, <1>3, <1>4, <2>2, <3>1, <3>2 DEF Newer, TypeOK
      <3>3. CASE ~ Newer(n, t)
        <4>1. sis_term'[n] = sis_term[n]
          BY <1>1, <1>2, <3>3 DEF TypeOK
        <4>2. CASE ok
          <5>1. t = sis_term[n]
            BY <1>3, <1>4, <1>5, <3>3, <4>2 DEF Newer
          <5>2. sis_vote'[n] = m
            BY <1>1, <1>2, <4>2 DEF TypeOK
          <5>3. QED
            BY <1>6, <2>2, <3>1, <4>1, <4>2, <5>1, <5>2
        <4>3. CASE ~ ok
          BY <1>1, <1>2, <2>2, <3>1, <3>3, <4>1, <4>3
          DEF CastOnDisk, NoteSis, Demoted, TypeOK
        <4>4. QED
          BY <4>2, <4>3
      <3>4. QED
        BY <3>2, <3>3
    <2>3. CASE ok /\ b = <<n, t, m>>
      BY <1>1, <1>2, <1>3, <1>4, <1>5, <2>3 DEF Newer, TypeOK
    <2>4. QED
      BY <1>2, <2>1, <2>2, <2>3
  <1>10. TwiceByDiscard' /\ Remembered'
    <2>1. TwiceByDiscard'
      BY <1>2, <1>6 DEF TwiceByDiscard
    <2>2. ASSUME NEW b \in cast', typ_e'[b[1]] # "none", b[2] = tem_w'[b[1]]
          PROVE  b[3] = vog_c'[b[1]] \/ <<b[1], b[2]>> \in discarded
      <3>1. CASE b \in cast /\ b[1] # n
        BY <1>1, <1>2, <2>2, <3>1 DEF Remembered, TypeOK
      <3>2. CASE b \in cast /\ b[1] = n
        <4>1. b[2] \in Nat /\ b[2] <= sis_term[n] /\ b[2] = NoteTem(n, t)
          BY <1>1, <1>2, <2>2, <3>2, CastTerm DEF TypeOK
        <4>2. ~ Newer(n, t) /\ b[2] = tem_w[n]
          BY <1>3, <1>4, <4>1 DEF Newer, NoteTem
        <4>3. CASE ok
          BY <1>1, <1>2, <1>5, <1>6, <3>2, <4>1, <4>3 DEF TypeOK
        <4>4. CASE ~ ok
          BY <1>1, <1>2, <1>3, <3>2, <4>2, <4>4
          DEF Remembered, NoteVog, Demoted, TypeOK
        <4>5. QED
          BY <4>3, <4>4
      <3>3. CASE ok /\ b = <<n, t, m>>
        BY <1>1, <1>2, <3>3 DEF TypeOK
      <3>4. QED
        BY <1>2, <3>1, <3>2, <3>3
    <2>3. QED
      BY <1>2, <2>1, <2>2 DEF Remembered
  <1>11. Tallied'
    <2> SUFFICES ASSUME NEW p \in Node, typ_e'[p] \in {"cand", "lead"}
                 PROVE  Tallied!(p)'
      BY DEF Tallied
    <2>1. cast \subseteq cast'
      BY <1>2
    <2>2. CASE p = n
      BY <1>1, <1>2, <2>1, <2>2
      DEF Tallied, NoteTyp, NoteTem, NoteVot, Demoted, TypeOK
    <2>3. CASE p # n
      BY <1>1, <1>2, <2>1, <2>3 DEF Tallied, TypeOK
    <2>4. QED
      BY <2>2, <2>3
  <1>12. ElectedByMajority'
    BY <1>2, ElectedKept
  <1>13. QED
    BY <1>7, <1>8, <1>9, <1>10, <1>11, <1>12

\* The oldest outstanding request is no newer than the one being answered.
LEMMA HeadIsOldest ==
    ASSUME TypeOK, OutOrdered, WireAwaited, NEW e \in End,
           Arrived(e, "rasp"), out[e] # <<>>
    PROVE  LET r == Head(wire[Mate(e)]) IN
           /\ Awaited(e, r.ans)
           /\ Head(out[e]).tem <= r.ans
           /\ r.ans <= tem_w[e.own]
           /\ Head(out[e]).tem \in Nat /\ r.ans \in Nat
  <1> DEFINE r == Head(wire[Mate(e)])
  <1>1. /\ r = wire[Mate(e)][1] /\ 1 \in DOMAIN wire[Mate(e)]
        /\ r.typ = "rasp" /\ r \in Msg
    BY MateFacts, TailFacts DEF TypeOK, Arrived
  <1>2. Awaited(e, r.ans)
    BY <1>1 DEF WireAwaited
  <1>3. PICK k \in DOMAIN out[e] : out[e][k].tem = r.ans
    BY <1>2 DEF Awaited
  <1>4. /\ Head(out[e]) = out[e][1] /\ Head(out[e]) \in Msg
        /\ 1 \in DOMAIN out[e] /\ k >= 1 /\ k \in Nat
    BY <1>3, TailFacts DEF TypeOK
  <1>5. out[e][1].tem <= out[e][k].tem /\ out[e][k].tem <= tem_w[e.own]
    BY <1>3, <1>4 DEF OutOrdered
  <1>6. Head(out[e]).tem \in Nat /\ r.ans \in Nat
    BY <1>1, <1>4 DEF Msg, Term
  <1>7. QED
    BY <1>2, <1>3, <1>4, <1>5, <1>6

\* A response that counts is a vote of this term.
LEMMA CountedIsCast ==
    ASSUME TypeOK, OutOrdered, WireAwaited, GrantsCast, NEW e \in End,
           Arrived(e, "rasp"), out[e] # <<>>,
           Counts(e, Head(wire[Mate(e)]).suc)
    PROVE  /\ <<e.oth, tem_w[e.own], e.own>> \in cast
           /\ typ_e[e.own] # "foll"
           /\ e.oth \notin vog[e.own]
  <1> DEFINE r == Head(wire[Mate(e)])
  <1>1. /\ r = wire[Mate(e)][1] /\ 1 \in DOMAIN wire[Mate(e)]
        /\ r.typ = "rasp" /\ r.suc /\ Mate(e) \in End
        /\ Mate(e).own = e.oth /\ Mate(e).oth = e.own /\ e.own \in Node
    BY MateFacts, TailFacts DEF TypeOK, Arrived, Counts
  <1>2. r.ans = r.tem /\ <<e.oth, r.tem, e.own>> \in cast
    BY <1>1 DEF GrantsCast
  <1>3. r.ans = tem_w[e.own]
    <2>1. Head(out[e]).tem = tem_w[e.own] /\ tem_w[e.own] \in Nat
      BY <1>1 DEF Counts, TypeOK, Term
    <2>2. QED
      BY <2>1, HeadIsOldest
  <1>4. typ_e[e.own] # "foll"
    <2>1. Head(out[e]) = out[e][1] /\ 1 \in DOMAIN out[e]
      BY TailFacts DEF TypeOK
    <2>2. Head(out[e]).tem = tem_w[e.own] /\ tem_w[e.own] \in Nat
      BY <1>1 DEF Counts, TypeOK, Term
    <2>3. QED
      BY <2>1, <2>2 DEF OutOrdered
  <1>5. QED
    BY <1>2, <1>3, <1>4 DEF Counts

\* The votes counted for a candidate or leader are votes cast for it.
LEMMA BallotsCounted ==
    ASSUME TypeOK, NEW n \in Node, NEW t, NEW S \in SUBSET Node,
           n \notin S, <<n, t, n>> \in cast,
           \A m \in S : <<m, t, n>> \in cast
    PROVE  /\ Cardinality(S) + 1 <= Cardinality(Ballots(n, t))
           /\ Cardinality(S) \in Nat
           /\ Cardinality(Ballots(n, t)) \in Nat
  <1>1. S \union {n} \subseteq Ballots(n, t) /\ Ballots(n, t) \subseteq Node
    BY DEF Ballots
  <1>2. IsFiniteSet(S) /\ IsFiniteSet(Ballots(n, t))
    BY <1>1, NodeAssumption, FS_Subset
  <1>3. Cardinality(S \union {n}) = Cardinality(S) + 1
    BY <1>2, FS_AddElement
  <1>4. Cardinality(S \union {n}) <= Cardinality(Ballots(n, t))
    BY <1>1, <1>2, FS_Subset
  <1>5. QED
    BY <1>2, <1>3, <1>4, FS_CardinalityType

\* A candidate's own vote does not elect it, as there are at least two nodes.
LEMMA OneIsNoMajority == ~ Majority(1) /\ ~ Majority(0)
  <1>1. Cardinality(Node) \in Nat /\ Cardinality(Node) > 1
    BY NodeAssumption, FS_CardinalityType
  <1>2. QED
    BY <1>1 DEF Majority

\* What the count of a candidate or leader means.
LEMMA TalliedIsSound ==
    ASSUME TypeOK, Tallied, NEW n \in Node, typ_e[n] \in {"cand", "lead"}
    PROVE  /\ vot_w[n] <= Cardinality(Ballots(n, tem_w[n]))
           /\ Cardinality(Ballots(n, tem_w[n])) \in Nat
  <1>1. <<n, tem_w[n], n>> \in cast
    BY DEF Tallied
  <1>2. CASE /\ \A m \in vog[n] : m # n /\ <<m, tem_w[n], n>> \in cast
             /\ vot_w[n] = Cardinality(vog[n]) + 1
    <2>1. vog[n] \in SUBSET Node /\ n \notin vog[n]
      BY <1>2 DEF TypeOK
    <2>2. QED
      BY <1>1, <1>2, <2>1, BallotsCounted
  <1>3. CASE vot_w[n] = 1
    <2>1. Cardinality({}) + 1 <= Cardinality(Ballots(n, tem_w[n]))
          /\ Cardinality(Ballots(n, tem_w[n])) \in Nat
      BY <1>1, BallotsCounted
    <2>2. QED
      BY <1>3, <2>1, FS_EmptySet
  <1>4. QED
    BY <1>2, <1>3 DEF Tallied

\* A response: what is counted was cast, and a majority of it elects.
LEMMA NodeRasp ==
    ASSUME TypeOK, NodeInv, OutOrdered, WireAwaited, GrantsCast,
           NEW e \in End, Arrived(e, "rasp"), out[e] # <<>>, RaspMatched(e),
           typ_e[e.own] # "none"
    PROVE  NodeInv'
  <1> USE DEF NodeInv
  <1> DEFINE n == e.own
             r == Head(wire[Mate(e)])
             t == r.tem
             one == Counts(e, r.suc)
             sum == Tally(e, r.suc)
             won == Promoted(e, r.suc)
  <1>1. t \in Term /\ n \in Node /\ e.oth \in Node /\ n # e.oth
    BY TakenFacts, MateFacts DEF Arrived
  <1>2. /\ vog' = [vog EXCEPT ![n] = IF one THEN @ \union {e.oth} ELSE @]
        /\ vot_w' = [vot_w EXCEPT ![n] = IF Demoted(n, t) THEN 0 ELSE sum]
        /\ typ_e' = [typ_e EXCEPT ![n] = IF Newer(n, t) THEN "foll"
                                         ELSE IF won THEN "lead" ELSE @]
        /\ tem_w' = [tem_w EXCEPT ![n] = NoteTem(n, t)]
        /\ vog_c' = [vog_c EXCEPT ![n] = NoteVog(n, t)]
        /\ sis_term' = [sis_term EXCEPT ![n] = IF Newer(n, t) THEN t ELSE @]
        /\ sis_vote' = [sis_vote EXCEPT ![n] = NoteSis(n, t)]
        /\ elected' = IF won THEN elected \union {<<n, tem_w[n]>>} ELSE elected
        /\ cast' = cast /\ discarded' = discarded
    BY DEF RaspMatched
  <1>3. one => /\ <<e.oth, tem_w[n], n>> \in cast /\ typ_e[n] # "foll"
               /\ e.oth \notin vog[n]
    BY CountedIsCast
  <1>4. sum = (IF one THEN vot_w[n] + 1 ELSE vot_w[n]) /\ vot_w[n] \in Nat
    BY <1>1 DEF Tally, TypeOK
  <1>5. won => Majority(sum)
    BY DEF Promoted
  <1>6. /\ tem_w[n] = sis_term[n]
        /\ tem_w[n] \in Nat /\ t \in Nat
    BY <1>1 DEF Synced, TypeOK, Term
  <1> HIDE DEF n, r, t, one, sum, won
  <1>7. typ_e[n] = "foll" => sum = 0 /\ ~ won
    BY <1>1, <1>3, <1>4, <1>5, OneIsNoMajority DEF FollowerHasNoVotes
  <1>8. Synced'
    BY <1>1, <1>2, <1>6 DEF Synced, NoteTem, NoteVog, NoteSis, TypeOK
  <1>9. FollowerHasNoVotes'
    <2>1. typ_e[n] \in {"none", "foll", "cand", "lead"} /\ typ_e[n] # "none"
      BY <1>1 DEF TypeOK, n
    <2>2. typ_e'[n] = "foll" => vot_w'[n] = 0
      BY <1>1, <1>2, <1>7, <2>1 DEF Demoted, TypeOK
    <2>3. QED
      BY <1>1, <1>2, <2>2 DEF FollowerHasNoVotes, TypeOK
  <1>10. CastOnDisk'
    <2> SUFFICES ASSUME NEW b \in cast
                 PROVE  /\ b[2] <= sis_term'[b[1]]
                        /\ b[2] = sis_term'[b[1]] =>
                              b[3] = sis_vote'[b[1]] \/ <<b[1], b[2]>> \in discarded
      BY <1>2 DEF CastOnDisk
    <2>1. b[1] \in Node /\ b[2] \in Nat
      BY DEF TypeOK, Term
    <2>2. CASE b[1] = n
      BY <1>1, <1>2, <1>6, <2>1, <2>2
      DEF CastOnDisk, Newer, NoteSis, Demoted, TypeOK
    <2>3. CASE b[1] # n
      BY <1>1, <1>2, <2>1, <2>3 DEF CastOnDisk, TypeOK
    <2>4. QED
      BY <2>2, <2>3
  <1>11. TwiceByDiscard' /\ Remembered'
    <2>1. TwiceByDiscard'
      BY <1>2 DEF TwiceByDiscard
    <2>2. ASSUME NEW b \in cast, typ_e'[b[1]] # "none", b[2] = tem_w'[b[1]]
          PROVE  b[3] = vog_c'[b[1]] \/ <<b[1], b[2]>> \in discarded
      <3>1. b[1] \in Node /\ b[2] \in Nat /\ b[2] <= sis_term[b[1]]
        BY CastTerm
      <3>2. CASE b[1] = n
        <4>1. b[2] = NoteTem(n, t)
          BY <1>1, <1>2, <2>2, <3>2 DEF TypeOK
        <4>2. ~ Newer(n, t) /\ b[2] = tem_w[n]
          BY <1>6, <3>1, <3>2, <4>1 DEF Newer, NoteTem
        <4>3. typ_e[n] # "none" /\ vog_c'[n] = vog_c[n]
          BY <1>1, <1>2, <4>2 DEF NoteVog, Demoted, TypeOK, n
        <4>4. QED
          BY <3>2, <4>2, <4>3 DEF Remembered
      <3>3. CASE b[1] # n
        BY <1>1, <1>2, <2>2, <3>1, <3>3 DEF Remembered, TypeOK
      <3>4. QED
        BY <3>2, <3>3
    <2>3. QED
      BY <1>2, <2>1, <2>2 DEF Remembered
  <1> DEFINE S == IF one THEN vog[n] \union {e.oth} ELSE vog[n]
  <1>12. typ_e[n] \in {"cand", "lead"} =>
            /\ <<n, tem_w[n], n>> \in cast
            /\ \/ /\ \A m \in S : m # n /\ <<m, tem_w[n], n>> \in cast
                  /\ sum = Cardinality(S) + 1
               \/ S = Peers(n) /\ sum = 1
    <2> SUFFICES ASSUME typ_e[n] \in {"cand", "lead"}
                 PROVE  /\ <<n, tem_w[n], n>> \in cast
                        /\ \/ /\ \A m \in S : m # n /\ <<m, tem_w[n], n>> \in cast
                              /\ sum = Cardinality(S) + 1
                           \/ S = Peers(n) /\ sum = 1
      OBVIOUS
    <2>1. <<n, tem_w[n], n>> \in cast
      BY <1>1 DEF Tallied
    <2>2. CASE vog[n] = Peers(n) /\ vot_w[n] = 1
      <3>1. ~ one
        BY <1>1, <1>3, <2>2 DEF Peers
      <3>2. QED
        BY <1>4, <2>1, <2>2, <3>1
    <2>3. CASE /\ \A m \in vog[n] : m # n /\ <<m, tem_w[n], n>> \in cast
               /\ vot_w[n] = Cardinality(vog[n]) + 1
      <3>1. vog[n] \subseteq Node /\ IsFiniteSet(vog[n])
        BY <1>1, NodeAssumption, FS_Subset DEF TypeOK
      <3>2. Cardinality(vog[n]) \in Nat
        BY <3>1, FS_CardinalityType
      <3>3. one => Cardinality(vog[n] \union {e.oth}) = Cardinality(vog[n]) + 1
        BY <1>3, <3>1, FS_AddElement
      <3>4. sum = Cardinality(S) + 1
        BY <1>4, <2>3, <3>2, <3>3
      <3>5. QED
        BY <1>1, <1>3, <2>1, <2>3, <3>4
    <2>4. QED
      BY <1>1, <2>2, <2>3 DEF Tallied
  <1>13. Tallied'
    <2> SUFFICES ASSUME NEW p \in Node, typ_e'[p] \in {"cand", "lead"}
                 PROVE  Tallied!(p)'
      BY DEF Tallied
    <2>1. CASE p = n
      <3>1. ~ Newer(n, t)
        BY <1>1, <1>2, <2>1 DEF TypeOK
      <3>2. /\ typ_e[n] \in {"cand", "lead"} /\ vog'[n] = S
            /\ vot_w'[n] = sum /\ tem_w'[n] = tem_w[n]
        <4>1. typ_e[n] \in {"foll", "cand", "lead"}
          BY <1>1 DEF TypeOK, n
        <4>2. typ_e[n] # "foll"
          BY <1>1, <1>2, <1>7, <2>1, <3>1 DEF TypeOK
        <4>3. QED
          BY <1>1, <1>2, <3>1, <4>1, <4>2 DEF TypeOK, NoteTem, Demoted
      <3> HIDE DEF S
      <3>3. /\ <<n, tem_w'[n], n>> \in cast'
            /\ \/ /\ \A m \in vog'[n] : m # n /\ <<m, tem_w'[n], n>> \in cast'
                  /\ vot_w'[n] = Cardinality(vog'[n]) + 1
               \/ vog'[n] = Peers(n) /\ vot_w'[n] = 1
        <4>1. cast' = cast
          BY <1>2
        <4>2. /\ <<n, tem_w[n], n>> \in cast
              /\ \/ /\ \A m \in S : m # n /\ <<m, tem_w[n], n>> \in cast
                    /\ sum = Cardinality(S) + 1
                 \/ S = Peers(n) /\ sum = 1
          BY <1>12, <3>2
        <4>3. QED
          BY <3>2, <4>1, <4>2
      <3>4. Tallied!(n)'
        BY <3>3
      <3>5. QED
        BY <2>1, <3>4
    <2>2. CASE p # n
      BY <1>1, <1>2, <2>2 DEF Tallied, TypeOK
    <2>3. QED
      BY <2>1, <2>2
  <1>14. ElectedByMajority'
    <2>1. CASE ~ won
      BY <1>2, <2>1, ElectedKept
    <2>2. CASE won
      <3>1. typ_e[n] \in {"cand", "lead"}
        BY <1>1, <1>7, <2>2 DEF TypeOK, n
      <3>2. Majority(sum)
        BY <1>5, <2>2
      <3>3. /\ \A m \in S : m # n /\ <<m, tem_w[n], n>> \in cast
            /\ sum = Cardinality(S) + 1
            /\ <<n, tem_w[n], n>> \in cast
        BY <1>12, <3>1, <3>2, OneIsNoMajority
      <3>4. S \in SUBSET Node
        BY <1>1 DEF TypeOK
      <3> HIDE DEF S
      <3>5. /\ sum <= Cardinality(Ballots(n, tem_w[n]))
            /\ sum \in Nat /\ Cardinality(Ballots(n, tem_w[n])) \in Nat
        BY <1>1, <3>3, <3>4, BallotsCounted
      <3>6. Majority(Cardinality(Ballots(n, tem_w[n])))
        BY <3>2, <3>5, MajorityGrows
      <3>7. ASSUME NEW l \in elected'
            PROVE  Majority(Cardinality({m \in Node : <<m, l[2], l[1]>> \in cast}))
        <4>1. CASE l \in elected
          BY <4>1 DEF ElectedByMajority
        <4>2. CASE l = <<n, tem_w[n]>>
          <5>1. l[1] = n /\ l[2] = tem_w[n]
            BY <4>2
          <5>2. Ballots(n, tem_w[n]) = {m \in Node : <<m, l[2], l[1]>> \in cast}
            BY <5>1 DEF Ballots
          <5>3. QED
            BY <3>6, <5>2
        <4>3. QED
          BY <1>2, <4>1, <4>2
      <3>8. QED
        BY <1>2, <3>7 DEF ElectedByMajority, Majority
    <2>3. QED
      BY <2>1, <2>2
  <1>15. QED
    BY <1>8, <1>9, <1>10, <1>11, <1>13, <1>14

-----------------------------------------------------------------------------
(***************************************************************************)
(* Proofs about the connections of Raft: what each way of opening, naming  *)
(* and closing them keeps of the invariant.                                *)
(***************************************************************************)

ConnInv == DownIsClosed /\ Quiet /\ CurrentConn

\* w keeps the empty wires of W empty.
KeepsEmpty(W, w) == \A f \in End : W[f] = <<>> => w[f] = <<>>

\* A step that leaves connections alone and stops no node.
LEMMA ConnFrame ==
    ASSUME ConnInv, UNCHANGED connVars,
           \A n \in Node : typ_e'[n] = "none" => typ_e[n] = "none"
    PROVE  ConnInv'
  <1>1. DownIsClosed'
    BY MateFacts DEF ConnInv, DownIsClosed, connVars
  <1>2. Quiet' /\ CurrentConn'
    BY DEF ConnInv, Quiet, CurrentConn, connVars
  <1>3. QED
    BY <1>1, <1>2 DEF ConnInv

\* Closing ends of a node.
LEMMA ConnClose ==
    ASSUME TypeOK, ConnInv, NEW n \in Node, NEW S \in SUBSET End,
           \A f \in S : f.own = n /\ con[f] # "none",
           NEW w, KeepsEmpty(wire, w), Close(n, S, w),
           \A e \in End : typ_e'[e.own] = "none" =>
               typ_e[e.own] = "none" \/ con[e] = "none" \/ e \in S
    PROVE  ConnInv'
  <1> USE DEF ConnInv
  <1>1. DownIsClosed'
    BY DEF DownIsClosed, Close
  <1>2. Quiet'
    <2> SUFFICES ASSUME NEW e \in End
                 PROVE  Quiet!(e)'
      BY DEF Quiet
    <2>1. /\ Mate(e) \in End /\ Mate(Mate(e)) = e
      BY MateFacts
    <2>2. /\ con'[e] = IF e \in S THEN "dead" ELSE con[e]
          /\ con'[Mate(e)] = IF Mate(e) \in S THEN "dead" ELSE con[Mate(e)]
          /\ out'[e] = IF e \in S THEN <<>> ELSE out[e]
          /\ wire'[e] = IF Mate(e) \in S THEN <<>> ELSE w[e]
          /\ wire'[Mate(e)] = IF e \in S THEN <<>> ELSE w[Mate(e)]
      BY <2>1 DEF Close, Drain
    <2>3. Quiet!(e)
      BY DEF Quiet
    <2>4. /\ wire[e] = <<>> => w[e] = <<>>
          /\ wire[Mate(e)] = <<>> => w[Mate(e)] = <<>>
      BY <2>1 DEF KeepsEmpty
    <2>5. Mate(e) \in S => con[Mate(e)] # "none"
      OBVIOUS
    <2>6. QED
      BY <2>2, <2>3, <2>4, <2>5
  <1>3. CurrentConn'
    <2> SUFFICES ASSUME NEW a \in Node, NEW b \in Node, ron_u'[a][b] # None
                 PROVE  LET e == ron_u'[a][b] IN
                        e.own = a /\ e.oth = b /\ con'[e] \in {"wait", "live"}
      BY DEF CurrentConn
    <2>1. CASE a = n
      <3>1. ron_u'[a][b] = ron_u[n][b] /\ ron_u[n][b] \notin S
        BY <2>1 DEF Close, Unlink, TypeOK
      <3>2. ron_u[n][b] \in End
        BY <3>1 DEF TypeOK
      <3>3. QED
        BY <2>1, <3>1, <3>2 DEF CurrentConn, Close
    <2>2. CASE a # n
      <3>1. ron_u'[a][b] = ron_u[a][b] /\ ron_u[a][b] \in End
        BY <2>2 DEF Close, TypeOK
      <3>2. ron_u[a][b].own = a
        BY <3>1 DEF CurrentConn
      <3>3. QED
        BY <2>2, <3>1, <3>2 DEF CurrentConn, Close
    <2>3. QED
      BY <2>1, <2>2
  <1>4. QED
    BY <1>1, <1>2, <1>3

\* The connection a request goes out on: live and named, or new.
LEMMA TargetOwn ==
    ASSUME TypeOK, ConnInv, NEW n \in Node, NEW m \in Peers(n),
           Linked(n, m) \/ Unused(n, m) # {}
    PROVE  LET e == Target(n, m) IN
           /\ e \in End /\ e.own = n /\ e.oth = m
           /\ con[e] = "live" \/ (con[e] = "none" /\ e.side = "ini")
  <1>1. m \in Node
    BY DEF Peers
  <1>2. CASE Linked(n, m)
    <2>1. ron_u[n][m] \in End /\ ron_u[n][m] # None
      BY <1>1, <1>2 DEF Linked, TypeOK
    <2>2. /\ ron_u[n][m].own = n /\ ron_u[n][m].oth = m
          /\ con[ron_u[n][m]] \in {"wait", "live"}
      BY <1>1, <2>1 DEF ConnInv, CurrentConn
    <2>3. con[ron_u[n][m]] = "live"
      BY <1>2, <2>2 DEF Linked, Liv
    <2>4. QED
      BY <1>1, <1>2, <2>1, <2>2, <2>3, TargetFacts
  <1>3. CASE ~ Linked(n, m)
    BY <1>1, <1>3, TargetFacts
  <1>4. QED
    BY <1>2, <1>3

\* The ends a request to every peer is queued on.
Hit(n, f) == f.own = n /\ f = Target(n, f.oth)

\* What _raft_conn_all does, end by end.
LEMMA ConnAllFacts ==
    ASSUME TypeOK, ConnInv, NEW n \in Node, NEW req \in Msg, ConnAll(n, req),
           NEW f \in End
    PROVE  /\ Hit(n, f) => con[f] = "live" \/ (con[f] = "none" /\ f.side = "ini")
           /\ con'[f] = IF Hit(n, f) /\ con[f] = "none" THEN "wait" ELSE con[f]
           /\ out'[f] = IF Hit(n, f) THEN Append(out[f], req) ELSE out[f]
           /\ wire'[f] = IF Hit(n, f) THEN Post(f, req) ELSE wire[f]
  <1>1. Hit(n, f) => f.oth \in Peers(n)
    BY MateFacts DEF Hit, Peers
  <1>2. Hit(n, f) => con[f] = "live" \/ (con[f] = "none" /\ f.side = "ini")
    BY <1>1, TargetOwn DEF Hit, ConnAll
  <1>3. QED
    BY <1>2 DEF ConnAll, Hit

\* _raft_conn_all keeps the invariant of the connections.
LEMMA ConnConnAll ==
    ASSUME TypeOK, ConnInv, NEW n \in Node, NEW req \in Msg, ConnAll(n, req),
           typ_e[n] # "none", typ_e'[n] # "none",
           \A m \in Node : typ_e'[m] = "none" => typ_e[m] = "none"
    PROVE  ConnInv'
  <1> USE DEF ConnInv
  <1>1. DownIsClosed'
    <2> SUFFICES ASSUME NEW e \in End, typ_e'[e.own] = "none"
                 PROVE  con'[e] \in {"none", "dead"}
      BY DEF DownIsClosed
    <2>1. e.own \in Node /\ ~ Hit(n, e)
      BY MateFacts DEF Hit
    <2>2. QED
      BY <2>1, ConnAllFacts DEF DownIsClosed
  <1>2. Quiet'
    <2> SUFFICES ASSUME NEW e \in End
                 PROVE  Quiet!(e)'
      BY DEF Quiet
    <2> DEFINE p == Mate(e)
    <2>1. /\ p \in End /\ Mate(p) = e /\ p.own = e.oth /\ p # e
          /\ e.own # e.oth
          /\ e.side = "ini" => p.side = "acc"
          /\ e.side = "acc" => p.side = "ini"
          /\ e.side \in {"ini", "acc"}
      BY MateFacts
    <2>2. ~ (Hit(n, e) /\ Hit(n, p))
      BY <2>1 DEF Hit
    <2>3. /\ Hit(n, e) => con[e] = "live" \/ (con[e] = "none" /\ e.side = "ini")
          /\ con'[e] = IF Hit(n, e) /\ con[e] = "none" THEN "wait" ELSE con[e]
          /\ out'[e] = IF Hit(n, e) THEN Append(out[e], req) ELSE out[e]
          /\ wire'[e] = IF Hit(n, e) THEN Post(e, req) ELSE wire[e]
      BY ConnAllFacts
    <2>4. /\ Hit(n, p) => con[p] = "live" \/ (con[p] = "none" /\ p.side = "ini")
          /\ con'[p] = IF Hit(n, p) /\ con[p] = "none" THEN "wait" ELSE con[p]
          /\ wire'[p] = IF Hit(n, p) THEN Post(p, req) ELSE wire[p]
      BY <2>1, ConnAllFacts
    <2>5. con[e] = "dead" => Post(p, req) = wire[p]
      BY <2>1 DEF Post
    <2>6. Quiet!(e) /\ Quiet!(p)
      BY <2>1 DEF Quiet
    <2> HIDE DEF p
    <2>7. QED
      BY <2>1, <2>2, <2>3, <2>4, <2>5, <2>6 DEF p
  <1>3. CurrentConn'
    <2> SUFFICES ASSUME NEW a \in Node, NEW b \in Node, ron_u'[a][b] # None
                 PROVE  LET e == ron_u'[a][b] IN
                        e.own = a /\ e.oth = b /\ con'[e] \in {"wait", "live"}
      BY DEF CurrentConn
    <2>1. CASE a = n
      <3>1. b \in Peers(n) /\ ron_u'[a][b] = Target(n, b)
        BY <2>1 DEF ConnAll, TypeOK, Peers
      <3>2. /\ Target(n, b) \in End /\ Target(n, b).own = n
            /\ Target(n, b).oth = b /\ con[Target(n, b)] \in {"live", "none"}
        BY <3>1, TargetOwn DEF ConnAll
      <3>3. Hit(n, Target(n, b))
        BY <3>2 DEF Hit
      <3>4. QED
        BY <2>1, <3>1, <3>2, <3>3, ConnAllFacts
    <2>2. CASE a # n
      <3>1. ron_u'[a][b] = ron_u[a][b] /\ ron_u[a][b] \in End
        BY <2>2 DEF ConnAll, TypeOK
      <3>2. /\ ron_u[a][b].own = a /\ ron_u[a][b].oth = b
            /\ con[ron_u[a][b]] \in {"wait", "live"}
        BY <3>1 DEF CurrentConn
      <3>3. QED
        BY <2>2, <3>1, <3>2, ConnAllFacts
    <2>3. QED
      BY <2>1, <2>2
  <1>4. QED
    BY <1>1, <1>2, <1>3
\* A request that names its connection.
LEMMA ConnRestName ==
    ASSUME TypeOK, ConnInv, NEW e \in End, Liv(e), NEW w, RestName(e, w),
           \A f \in End : wire[f] = <<>> =>
               w[f] = <<>> \/ (f = e /\ con[Mate(e)] # "dead"),
           \A n \in Node : typ_e'[n] = "none" => typ_e[n] = "none"
    PROVE  ConnInv'
  <1> USE DEF ConnInv
  <1> DEFINE S == Supplanted(e)
  <1>1. \A f \in End :
          /\ con'[f] = IF f = e THEN "live" ELSE IF f \in S THEN "dead"
                       ELSE con[f]
          /\ out'[f] = IF f \in S THEN <<>> ELSE out[f]
          /\ wire'[f] = IF Mate(f) \in S THEN <<>> ELSE w[f]
    BY DEF RestName, Drain
  <1>2. \A f \in S : f \in End /\ con[f] = "live" /\ con[e] = "unk" /\ f # e
    <2> SUFFICES ASSUME NEW f \in S
                 PROVE  f \in End /\ con[f] = "live" /\ con[e] = "unk" /\ f # e
      OBVIOUS
    <2>1. con[e] = "unk" /\ f = ron_u[e.own][e.oth] /\ f # None /\ Liv(f)
      BY DEF Supplanted, Linked
    <2>2. f \in End /\ con[f] \in {"wait", "live"}
      BY <2>1, MateFacts DEF TypeOK, CurrentConn
    <2>3. QED
      BY <2>1, <2>2 DEF Liv
  <1>3. con[e] \in {"unk", "live"}
    BY DEF Liv
  <1>4. DownIsClosed'
    <2> SUFFICES ASSUME NEW f \in End, typ_e'[f.own] = "none"
                 PROVE  con'[f] \in {"none", "dead"}
      BY DEF DownIsClosed
    <2>1. con[f] \in {"none", "dead"}
      BY MateFacts DEF DownIsClosed
    <2>2. QED
      BY <1>1, <1>3, <2>1
  <1>5. Quiet'
    <2> SUFFICES ASSUME NEW f \in End
                 PROVE  Quiet!(f)'
      BY DEF Quiet
    <2> DEFINE p == Mate(f)
    <2>1. p \in End /\ Mate(p) = f /\ p # f
      BY MateFacts
    <2>2. Quiet!(f)
      BY DEF Quiet
    <2>3. /\ wire[f] = <<>> => w[f] = <<>> \/ (f = e /\ con[Mate(e)] # "dead")
          /\ wire[p] = <<>> => w[p] = <<>> \/ (p = e /\ con[Mate(e)] # "dead")
      BY <2>1
    <2>4. con[f] = "unk" => f.side = "acc"
      BY <2>2
    <2> HIDE DEF S, p
    <2>5. /\ con'[f] = IF f = e THEN "live" ELSE IF f \in S THEN "dead"
                       ELSE con[f]
          /\ con'[p] = IF p = e THEN "live" ELSE IF p \in S THEN "dead"
                       ELSE con[p]
          /\ out'[f] = IF f \in S THEN <<>> ELSE out[f]
          /\ wire'[f] = IF p \in S THEN <<>> ELSE w[f]
          /\ wire'[p] = IF f \in S THEN <<>> ELSE w[p]
      BY <1>1, <2>1 DEF p
    <2>6. /\ f \in S => con[f] = "live" /\ f # e
          /\ p \in S => con[p] = "live" /\ p # e
      BY <1>2
    <2>7. QED
      BY <1>3, <2>1, <2>2, <2>3, <2>4, <2>5, <2>6 DEF p
  <1>6. CurrentConn'
    <2> SUFFICES ASSUME NEW a \in Node, NEW b \in Node, ron_u'[a][b] # None
                 PROVE  LET f == ron_u'[a][b] IN
                        f.own = a /\ f.oth = b /\ con'[f] \in {"wait", "live"}
      BY DEF CurrentConn
    <2>1. CASE con[e] = "unk" /\ a = e.own /\ b = e.oth
      <3>1. ron_u'[a][b] = e
        BY <2>1 DEF RestName, TypeOK
      <3>2. QED
        BY <1>1, <2>1, <3>1
    <2>2. CASE ~ (con[e] = "unk" /\ a = e.own /\ b = e.oth)
      <3>1. ron_u'[a][b] = ron_u[a][b]
        BY <2>2 DEF RestName, TypeOK
      <3>2. ron_u[a][b] \in End
        BY <3>1 DEF TypeOK
      <3>3. /\ ron_u[a][b].own = a /\ ron_u[a][b].oth = b
            /\ con[ron_u[a][b]] \in {"wait", "live"}
        BY <3>1, <3>2 DEF CurrentConn
      <3>4. ron_u[a][b] \notin S
        <4>1. ron_u[a][b] \in S =>
                con[e] = "unk" /\ ron_u[a][b] = ron_u[e.own][e.oth]
          BY DEF Supplanted
        <4>2. ron_u[e.own][e.oth] # None =>
                /\ ron_u[e.own][e.oth].own = e.own
                /\ ron_u[e.own][e.oth].oth = e.oth
          BY MateFacts DEF CurrentConn
        <4>3. QED
          BY <2>2, <3>1, <3>3, <4>1, <4>2
      <3> HIDE DEF S
      <3>5. QED
        BY <1>1, <3>1, <3>2, <3>3, <3>4
    <2>3. QED
      BY <2>1, <2>2
  <1>7. QED
    BY <1>4, <1>5, <1>6

\* A connection that is established, and one that is accepted.
LEMMA ConnOpen ==
    ASSUME TypeOK, ConnInv, NEW e \in End, Connect(e) \/ Listen(e)
    PROVE  ConnInv'
  <1> USE DEF ConnInv
  <1>1. /\ Mate(e) \in End /\ Mate(Mate(e)) = e /\ Mate(e) # e
        /\ Mate(e).own = e.oth
    BY MateFacts
  <1>2. UNCHANGED <<ron_u, out, wire, typ_e>>
    BY DEF Connect, Listen, nodeVars
  <1>3. CASE Connect(e)
    <2>1. /\ con' = [con EXCEPT ![e] = "live", ![Mate(e)] = "open"]
          /\ con[e] = "wait" /\ con[Mate(e)] = "none" /\ e.side = "ini"
          /\ typ_e[e.oth] # "none"
      BY <1>3 DEF Connect, Quiet
    <2>2. \A f \in End : con'[f] = IF f = e THEN "live"
                          ELSE IF f = Mate(e) THEN "open" ELSE con[f]
      BY <1>1, <2>1 DEF TypeOK
    <2>3. DownIsClosed'
      BY <1>1, <1>2, <2>1, <2>2 DEF DownIsClosed
    <2>4. CurrentConn'
      <3>1. \A a, b \in Node : ron_u[a][b] # None => ron_u[a][b] \in End
        BY DEF TypeOK
      <3>2. \A f \in End : con[f] \in {"wait", "live"}
                             => con'[f] \in {"wait", "live"}
        BY <2>1, <2>2
      <3>3. QED
        BY <1>2, <3>1, <3>2 DEF CurrentConn
    <2>5. Quiet'
      <3> SUFFICES ASSUME NEW f \in End
                   PROVE  Quiet!(f)'
        BY DEF Quiet
      <3> DEFINE p == Mate(f)
      <3>1. /\ p \in End /\ Mate(p) = f /\ f.side \in {"ini", "acc"}
            /\ e.side = "ini" => Mate(e).side = "acc"
        BY MateFacts
      <3>2. Quiet!(f) /\ Quiet!(p)
        BY <3>1 DEF Quiet
      <3> HIDE DEF p
      <3>3. /\ con'[f] = IF f = e THEN "live"
                          ELSE IF f = Mate(e) THEN "open" ELSE con[f]
            /\ con'[p] = IF p = e THEN "live"
                          ELSE IF p = Mate(e) THEN "open" ELSE con[p]
        BY <2>2, <3>1
      <3>4. QED
        BY <1>1, <1>2, <2>1, <3>1, <3>2, <3>3 DEF p
    <2>6. QED
      BY <2>3, <2>4, <2>5
  <1>4. CASE Listen(e)
    <2>1. con[e] = "open" /\ \A f \in End :
                con'[f] = IF f = e THEN "unk" ELSE con[f]
      BY <1>4 DEF Listen, TypeOK
    <2>2. DownIsClosed'
      BY <1>2, <2>1 DEF DownIsClosed
    <2>3. CurrentConn'
      <3>1. \A a, b \in Node : ron_u[a][b] # None => ron_u[a][b] \in End
        BY DEF TypeOK
      <3>2. QED
        BY <1>2, <2>1, <3>1 DEF CurrentConn
    <2>4. Quiet'
      <3> SUFFICES ASSUME NEW f \in End
                   PROVE  Quiet!(f)'
        BY DEF Quiet
      <3>1. Mate(f) \in End
        BY MateFacts
      <3>2. Quiet!(f)
        BY DEF Quiet
      <3>3. QED
        BY <1>2, <2>1, <3>1, <3>2
    <2>5. QED
      BY <2>2, <2>3, <2>4
  <1>5. QED
    BY <1>3, <1>4

-----------------------------------------------------------------------------
(***************************************************************************)
(* Proofs about the requests outstanding on a connection and the messages  *)
(* on it.  _raft_do_rasp pairs a response with the oldest request; these   *)
(* lemmas show that the oldest request is never newer than the one that    *)
(* was answered.                                                           *)
(***************************************************************************)

\* Requests o, oldest first.
Asked(o) ==
    /\ \A i \in DOMAIN o : o[i].typ \in {"revo", "apen"}
    /\ \A i, j \in DOMAIN o : i <= j => o[i].tem <= o[j].tem

\* A RequestVote of term t is among the requests o.
Owed(o, t) == \E k \in DOMAIN o : o[k].typ = "revo" /\ o[k].tem = t

\* Messages a, in the order they were sent.
Sent(a) ==
    \A i, j \in DOMAIN a : i < j =>
        /\ a[i].typ = "revo" /\ a[j].typ = "revo" => a[i].tem < a[j].tem
        /\ a[i].typ = "rasp" /\ a[j].typ = "rasp" => a[i].ans < a[j].ans

\* The RequestVotes in a are outstanding in o.
Asks(o, a) == \A i \in DOMAIN a : a[i].typ = "revo" => Owed(o, a[i].tem)

\* The responses in b answer requests outstanding in o.
Answers(o, b) == \A i \in DOMAIN b : b[i].typ = "rasp" => Owed(o, b[i].ans)

\* The responses in b answer older RequestVotes than the ones in a.
Crossed(a, b) ==
    \A i \in DOMAIN a, j \in DOMAIN b :
        a[i].typ = "revo" /\ b[j].typ = "rasp" => b[j].ans < a[i].tem

\* One end's side of a conversation: requests o outstanding, a sent, b coming.
Chat(o, a, b, dead) ==
    Asked(o) /\ Sent(a) /\ (dead \/ Asks(o, a)) /\ Answers(o, b) /\ Crossed(a, b)

\* The conversations of all connections.
Chats(O, W, C) ==
    \A f \in End : Chat(O[f], W[f], W[Mate(f)], C[f] = "dead")

\* Outstanding requests are no newer than the term of the node; a follower's
\* are older.
OutBound ==
    \A e \in End : \A i \in DOMAIN out[e] :
        /\ out[e][i].tem <= tem_w[e.own]
        /\ typ_e[e.own] = "foll" => out[e][i].tem < tem_w[e.own]

\* The parts of the invariant about queues, put together by conversation.
LEMMA QueueParts ==
    OutOrdered /\ WireAwaited /\ WireOrdered <=> Chats(out, wire, con) /\ OutBound
  <1>1. OutOrdered <=> OutBound /\ \A e \in End : Asked(out[e])
    BY DEF OutOrdered, OutBound, Asked
  <1>2. WireAwaited <=> \A e \in End :
            (con[e] = "dead" \/ Asks(out[e], wire[e]))
            /\ Answers(out[e], wire[Mate(e)])
    BY DEF WireAwaited, Awaited, Asks, Answers, Owed
  <1>3. WireOrdered <=> \A e \in End :
            Sent(wire[e]) /\ Crossed(wire[e], wire[Mate(e)])
    BY DEF WireOrdered, Sent, Crossed
  <1>4. QED
    BY <1>1, <1>2, <1>3 DEF Chats, Chat

-----------------------------------------------------------------------------
(***************************************************************************)
(* One conversation.                                                       *)
(***************************************************************************)

\* The messages of a wire or queue, and their terms.
LEMMA TermFacts ==
    ASSUME NEW s \in Seq(Msg)
    PROVE  \A i \in DOMAIN s : s[i] \in Msg /\ s[i].tem \in Nat
  <1>1. \A i \in DOMAIN s : s[i] \in Msg
    OBVIOUS
  <1>2. \A m \in Msg : m.tem \in Nat
    BY DEF Msg, Term
  <1>3. QED
    BY <1>1, <1>2

\* b is a, or what is left of it when its first message is read or it is lost.
Rest(a, b) == b = a \/ b = <<>> \/ (a # <<>> /\ b = Tail(a))

\* What is left of a wire was on it before, in the same order.
LEMMA RestFacts ==
    ASSUME NEW a \in Seq(Msg), NEW b, Rest(a, b)
    PROVE  /\ b \in Seq(Msg)
           /\ \A i \in DOMAIN b : \E k \in DOMAIN a : b[i] = a[k]
           /\ Sent(a) => Sent(b)
  <1>1. CASE b = a
    BY <1>1
  <1>2. CASE b = <<>>
    BY <1>2 DEF Sent
  <1>3. CASE a # <<>> /\ b = Tail(a)
    <2>1. /\ b \in Seq(Msg) /\ Len(a) \in Nat /\ DOMAIN a = 1 .. Len(a)
          /\ DOMAIN b = 1 .. Len(a) - 1
          /\ \A i \in DOMAIN b : b[i] = a[i + 1]
      BY <1>3, TailFacts
    <2>2. \A i \in DOMAIN b : i + 1 \in DOMAIN a /\ i \in Nat
      BY <2>1
    <2>3. Sent(a) => Sent(b)
      BY <2>1, <2>2 DEF Sent
    <2>4. QED
      BY <2>1, <2>2, <2>3
  <1>4. QED
    BY <1>1, <1>2, <1>3 DEF Rest

\* Reading and losing messages.
LEMMA ChatRest ==
    ASSUME NEW o, NEW a \in Seq(Msg), NEW b \in Seq(Msg), NEW dead,
           NEW aa, NEW bb, Rest(a, aa), Rest(b, bb), Chat(o, a, b, dead)
    PROVE  Chat(o, aa, bb, dead)
  <1>1. Sent(aa)
    BY RestFacts DEF Chat
  <1>2. /\ \A i \in DOMAIN aa : \E k \in DOMAIN a : aa[i] = a[k]
        /\ \A i \in DOMAIN bb : \E k \in DOMAIN b : bb[i] = b[k]
    BY RestFacts
  <1>3. dead \/ Asks(o, aa)
    BY <1>2 DEF Chat, Asks
  <1>4. Answers(o, bb)
    BY <1>2 DEF Chat, Answers
  <1>5. Crossed(aa, bb)
    BY <1>2 DEF Chat, Crossed
  <1>6. QED
    BY <1>1, <1>3, <1>4, <1>5 DEF Chat

\* Closing an end: its requests are dropped, and what was coming is lost.
LEMMA ChatClosed ==
    ASSUME NEW o, NEW a \in Seq(Msg), NEW b, NEW dead, NEW aa,
           Rest(a, aa), Chat(o, a, b, dead)
    PROVE  Chat(<<>>, aa, <<>>, TRUE)
  BY RestFacts DEF Chat, Asked, Answers, Crossed

\* Sending a request, unless the other end is closed.
LEMMA ChatAsk ==
    ASSUME NEW o \in Seq(Msg), NEW a \in Seq(Msg), NEW b \in Seq(Msg),
           NEW req \in Msg, Chat(o, a, b, FALSE),
           req.typ \in {"revo", "apen"},
           \A i \in DOMAIN o :
               /\ o[i].tem <= req.tem
               /\ req.typ = "revo" => o[i].tem < req.tem,
           NEW aa, aa = a \/ aa = Append(a, req)
    PROVE  Chat(Append(o, req), aa, b, FALSE)
  <1> DEFINE oo == Append(o, req)
  <1>1. /\ DOMAIN oo = 1 .. Len(o) + 1 /\ DOMAIN o = 1 .. Len(o) /\ Len(o) \in Nat
        /\ \A i \in DOMAIN o : oo[i] = o[i]
        /\ oo[Len(o) + 1] = req
    BY AppendFacts
  <1>2. /\ DOMAIN Append(a, req) = 1 .. Len(a) + 1 /\ DOMAIN a = 1 .. Len(a)
        /\ Len(a) \in Nat /\ \A i \in DOMAIN a : Append(a, req)[i] = a[i]
        /\ Append(a, req)[Len(a) + 1] = req
    BY AppendFacts
  <1>3. \A i \in DOMAIN o : o[i].tem \in Nat
    BY TermFacts
  <1>4. req.tem \in Nat
    BY DEF Msg, Term
  <1> HIDE DEF oo
  <1>5. Asked(oo)
    <2>1. \A i \in DOMAIN oo : i \in DOMAIN o \/ (i = Len(o) + 1)
      BY <1>1
    <2>2. \A i \in DOMAIN oo : oo[i].typ \in {"revo", "apen"}
      BY <1>1, <2>1 DEF Chat, Asked
    <2>3. \A i, j \in DOMAIN oo : i <= j => oo[i].tem <= oo[j].tem
      <3> SUFFICES ASSUME NEW i \in DOMAIN oo, NEW j \in DOMAIN oo, i <= j
                   PROVE  oo[i].tem <= oo[j].tem
        OBVIOUS
      <3>1. CASE j \in DOMAIN o
        <4>1. i \in DOMAIN o
          BY <1>1, <3>1
        <4>2. QED
          BY <1>1, <3>1, <4>1 DEF Chat, Asked
      <3>2. CASE j = Len(o) + 1 /\ i \in DOMAIN o
        BY <1>1, <3>2
      <3>3. CASE j = Len(o) + 1 /\ i = Len(o) + 1
        BY <1>1, <1>4, <3>3
      <3>4. QED
        BY <2>1, <3>1, <3>2, <3>3
    <2>4. QED
      BY <2>2, <2>3 DEF Asked
  <1>6. \A t : Owed(o, t) => Owed(oo, t)
    BY <1>1 DEF Owed
  <1>7. req.typ = "revo" => Owed(oo, req.tem)
    BY <1>1 DEF Owed
  <1>8. req.typ = "revo" => \A t : Owed(o, t) => t < req.tem
    BY DEF Owed
  <1>9. CASE aa = a
    BY <1>5, <1>6, <1>9 DEF Chat, Asks, Answers, oo
  <1>10. CASE aa = Append(a, req)
    <2>1. \A i \in DOMAIN aa : i \in DOMAIN a \/ (i = Len(a) + 1)
      BY <1>2, <1>10
    <2>2. Sent(aa)
      <3> SUFFICES ASSUME NEW i \in DOMAIN aa, NEW j \in DOMAIN aa, i < j
                   PROVE  Sent(aa)!(i, j)!2
        BY DEF Sent
      <3>1. i \in DOMAIN a
        BY <1>2, <1>10
      <3>2. CASE j \in DOMAIN a
        BY <1>2, <1>10, <3>1, <3>2 DEF Chat, Sent
      <3>3. CASE j = Len(a) + 1
        <4>1. aa[j] = req /\ aa[i] = a[i]
          BY <1>2, <1>10, <3>1, <3>3
        <4>2. a[i].typ = "revo" => Owed(o, a[i].tem)
          BY <3>1 DEF Chat, Asks
        <4>3. QED
          BY <1>8, <4>1, <4>2
      <3>4. QED
        BY <2>1, <3>2, <3>3
    <2>3. Asks(oo, aa)
      BY <1>2, <1>6, <1>7, <1>10, <2>1 DEF Chat, Asks
    <2>4. Answers(oo, b)
      BY <1>6 DEF Chat, Answers
    <2>5. Crossed(aa, b)
      BY <1>2, <1>8, <1>10, <2>1 DEF Chat, Crossed, Answers
    <2>6. QED
      BY <1>5, <2>2, <2>3, <2>4, <2>5 DEF Chat, oo
  <1>11. QED
    BY <1>9, <1>10 DEF oo

\* Being sent a request.
LEMMA ChatAsked ==
    ASSUME NEW o, NEW a, NEW b \in Seq(Msg), NEW dead,
           NEW req \in Msg, req.typ # "rasp", Chat(o, a, b, dead)
    PROVE  Chat(o, a, Append(b, req), dead)
  <1>1. \A i \in DOMAIN Append(b, req) :
            (i \in DOMAIN b /\ Append(b, req)[i] = b[i]) \/ Append(b, req)[i] = req
    BY AppendFacts
  <1>2. QED
    BY <1>1 DEF Chat, Answers, Crossed

\* Answering the RequestVote that was read: what the voter sent.
LEMMA ChatAnswer ==
    ASSUME NEW o, NEW a \in Seq(Msg), NEW b \in Seq(Msg), NEW dead,
           b # <<>>, Head(b).typ = "revo",
           NEW oo, NEW dd, Chat(o, a, b, dead), Chat(oo, b, a, dd),
           NEW ans \in Msg, ans.typ = "rasp", ans.ans = Head(b).tem
    PROVE  Chat(o, Append(a, ans), Tail(b), dead)
  <1>1. /\ DOMAIN Append(a, ans) = 1 .. Len(a) + 1 /\ DOMAIN a = 1 .. Len(a)
        /\ Len(a) \in Nat /\ \A i \in DOMAIN a : Append(a, ans)[i] = a[i]
        /\ Append(a, ans)[Len(a) + 1] = ans
    BY AppendFacts
  <1>2. Head(b) = b[1] /\ 1 \in DOMAIN b
    BY TailFacts
  <1>3. Chat(o, a, Tail(b), dead)
    BY ChatRest DEF Rest
  <1>4. Sent(Append(a, ans))
    <2> SUFFICES ASSUME NEW i \in DOMAIN Append(a, ans),
                        NEW j \in DOMAIN Append(a, ans), i < j
                 PROVE  Sent(Append(a, ans))!(i, j)!2
      BY DEF Sent
    <2>1. i \in DOMAIN a
      BY <1>1
    <2>2. CASE j \in DOMAIN a
      BY <1>1, <2>1, <2>2 DEF Chat, Sent
    <2>3. CASE j = Len(a) + 1
      <3>1. Append(a, ans)[j] = ans /\ Append(a, ans)[i] = a[i]
        BY <1>1, <2>1, <2>3
      <3>2. a[i].typ = "rasp" => a[i].ans < Head(b).tem
        BY <1>2, <2>1 DEF Chat, Crossed
      <3>3. QED
        BY <3>1, <3>2
    <2>4. QED
      BY <1>1, <2>2, <2>3
  <1>5. \A i \in DOMAIN Append(a, ans) :
            (i \in DOMAIN a /\ Append(a, ans)[i] = a[i]) \/ Append(a, ans)[i] = ans
    BY <1>1
  <1>6. dead \/ Asks(o, Append(a, ans))
    BY <1>3, <1>5 DEF Chat, Asks
  <1>7. Crossed(Append(a, ans), Tail(b))
    BY <1>3, <1>5 DEF Chat, Crossed
  <1>8. QED
    BY <1>3, <1>4, <1>6, <1>7 DEF Chat

\* Answering the RequestVote that was read: what the candidate will read.
LEMMA ChatAnswered ==
    ASSUME NEW o, NEW a \in Seq(Msg), NEW b \in Seq(Msg),
           a # <<>>, Head(a).typ = "revo", Chat(o, a, b, FALSE),
           NEW ans \in Msg, ans.ans = Head(a).tem
    PROVE  Chat(o, Tail(a), Append(b, ans), FALSE)
  <1>1. \A i \in DOMAIN Append(b, ans) :
            (i \in DOMAIN b /\ Append(b, ans)[i] = b[i]) \/ Append(b, ans)[i] = ans
    BY AppendFacts
  <1>2. /\ Head(a) = a[1] /\ 1 \in DOMAIN a /\ Len(a) \in Nat
        /\ DOMAIN a = 1 .. Len(a) /\ DOMAIN Tail(a) = 1 .. Len(a) - 1
        /\ \A i \in DOMAIN Tail(a) : Tail(a)[i] = a[i + 1]
    BY TailFacts
  <1>3. Chat(o, Tail(a), b, FALSE)
    BY ChatRest DEF Rest
  <1>4. Owed(o, ans.ans)
    BY <1>2 DEF Chat, Asks
  <1>5. Answers(o, Append(b, ans))
    BY <1>3, <1>1, <1>4 DEF Chat, Answers
  <1>6. \A i \in DOMAIN Tail(a) : Tail(a)[i].typ = "revo" => ans.ans < Tail(a)[i].tem
    <2> SUFFICES ASSUME NEW i \in DOMAIN Tail(a), Tail(a)[i].typ = "revo"
                 PROVE  ans.ans < Tail(a)[i].tem
      OBVIOUS
    <2>1. i + 1 \in DOMAIN a /\ 1 < i + 1 /\ Tail(a)[i] = a[i + 1]
      BY <1>2
    <2>2. QED
      BY <1>2, <2>1 DEF Chat, Sent
  <1>7. Crossed(Tail(a), Append(b, ans))
    BY <1>1, <1>3, <1>6 DEF Chat, Crossed
  <1>8. QED
    BY <1>3, <1>5, <1>7 DEF Chat

\* Reading a response: the oldest request is not the one any other RequestVote
\* or response on the connection is about.
LEMMA ChatSettled ==
    ASSUME NEW o \in Seq(Msg), NEW a \in Seq(Msg), NEW b \in Seq(Msg),
           o # <<>>, b # <<>>, Head(b).typ = "rasp", Sent(b), NEW dead,
           Chat(o, a, b, dead)
    PROVE  Chat(Tail(o), a, Tail(b), dead)
  <1>1. /\ Head(o) = o[1] /\ 1 \in DOMAIN o /\ Len(o) \in Nat
        /\ DOMAIN o = 1 .. Len(o) /\ DOMAIN Tail(o) = 1 .. Len(o) - 1
        /\ \A i \in DOMAIN Tail(o) : Tail(o)[i] = o[i + 1]
        /\ \A i \in DOMAIN o : o[i].tem \in Nat
    BY TailFacts, TermFacts
  <1>2. /\ Head(b) = b[1] /\ 1 \in DOMAIN b /\ Len(b) \in Nat /\ Head(b) \in Msg
        /\ DOMAIN b = 1 .. Len(b) /\ DOMAIN Tail(b) = 1 .. Len(b) - 1
        /\ \A i \in DOMAIN Tail(b) : Tail(b)[i] = b[i + 1]
    BY TailFacts
  <1> DEFINE r == Head(b).ans
  <1>3. r \in Nat
    BY <1>2 DEF Msg, Term
  <1>4. Owed(o, r)
    BY <1>2 DEF Chat, Answers
  <1>5. o[1].tem <= r
    <2>1. PICK k \in DOMAIN o : o[k].tem = r
      BY <1>4 DEF Owed
    <2>2. 1 <= k
      BY <1>1
    <2>3. QED
      BY <1>1, <2>1, <2>2 DEF Chat, Asked
  <1> HIDE DEF r
  <1>6. ASSUME NEW t, Owed(o, t), r < t
        PROVE  Owed(Tail(o), t)
    <2>1. PICK k \in DOMAIN o : o[k].typ = "revo" /\ o[k].tem = t
      BY <1>6 DEF Owed
    <2>2. t \in Nat
      BY <1>1, <2>1
    <2>3. k # 1
      BY <1>1, <1>3, <1>5, <1>6, <2>1, <2>2
    <2>4. k - 1 \in DOMAIN Tail(o) /\ k = (k - 1) + 1
      BY <1>1, <2>3
    <2>5. Tail(o)[k - 1] = o[k]
      BY <1>1, <2>4
    <2>6. QED
      BY <2>1, <2>4, <2>5 DEF Owed
  <1>7. Asked(Tail(o))
    <2>1. \A i \in DOMAIN Tail(o) : i + 1 \in DOMAIN o /\ i \in Int
      BY <1>1
    <2>2. QED
      BY <1>1, <2>1 DEF Chat, Asked
  <1>8. dead \/ Asks(Tail(o), a)
    <2>1. \A i \in DOMAIN a : a[i].typ = "revo" => r < a[i].tem
      BY <1>2 DEF Chat, Crossed, r
    <2>2. QED
      BY <1>6, <2>1 DEF Chat, Asks
  <1>9. Answers(Tail(o), Tail(b))
    <2> SUFFICES ASSUME NEW i \in DOMAIN Tail(b), Tail(b)[i].typ = "rasp"
                 PROVE  Owed(Tail(o), Tail(b)[i].ans)
      BY DEF Answers
    <2>1. i + 1 \in DOMAIN b /\ 1 < i + 1 /\ Tail(b)[i] = b[i + 1]
      BY <1>2
    <2>2. r < b[i + 1].ans
      BY <1>2, <2>1 DEF Sent, r
    <2>3. Owed(o, b[i + 1].ans)
      BY <2>1 DEF Chat, Answers
    <2>4. QED
      BY <1>6, <2>1, <2>2, <2>3
  <1>10. Crossed(a, Tail(b))
    <2>1. \A i \in DOMAIN Tail(b) : i + 1 \in DOMAIN b
      BY <1>2
    <2>2. QED
      BY <1>2, <2>1 DEF Chat, Crossed
  <1>11. QED
    BY <1>7, <1>8, <1>9, <1>10 DEF Chat
-----------------------------------------------------------------------------
(***************************************************************************)
(* All conversations.                                                      *)
(***************************************************************************)

\* Nothing but reading and losing messages happened to the wires.
LEMMA ChatsRest ==
    ASSUME NEW O, NEW W \in [End -> Seq(Msg)], NEW V, NEW C, NEW D,
           Chats(O, W, C), \A f \in End : Rest(W[f], V[f]),
           \A f \in End : C[f] = "dead" => D[f] = "dead"
    PROVE  Chats(O, V, D)
  <1> SUFFICES ASSUME NEW f \in End
               PROVE  Chat(O[f], V[f], V[Mate(f)], D[f] = "dead")
    BY DEF Chats
  <1>1. Mate(f) \in End
    BY MateFacts
  <1>2. Chat(O[f], W[f], W[Mate(f)], C[f] = "dead")
    BY DEF Chats
  <1>3. Chat(O[f], V[f], V[Mate(f)], C[f] = "dead")
    BY <1>1, <1>2, ChatRest
  <1>4. QED
    BY <1>3 DEF Chat

\* The ends S were closed.
LEMMA ChatsClosed ==
    ASSUME NEW O, NEW W \in [End -> Seq(Msg)], NEW C, NEW S, Chats(O, W, C),
           NEW P, NEW V, NEW D, V = Drain(W, S),
           \A f \in End : P[f] = IF f \in S THEN <<>> ELSE O[f],
           \A f \in S : D[f] = "dead",
           \A f \in End : C[f] = "dead" => D[f] = "dead"
    PROVE  Chats(P, V, D)
  <1> SUFFICES ASSUME NEW f \in End
               PROVE  Chat(P[f], V[f], V[Mate(f)], D[f] = "dead")
    BY DEF Chats
  <1>1. Mate(f) \in End /\ Mate(Mate(f)) = f
    BY MateFacts
  <1>2. Chat(O[f], W[f], W[Mate(f)], C[f] = "dead")
    BY DEF Chats
  <1>3. Rest(W[f], V[f]) /\ Rest(W[Mate(f)], V[Mate(f)])
    BY <1>1 DEF Drain, Rest
  <1>4. CASE f \in S
    <2>1. P[f] = <<>> /\ V[Mate(f)] = <<>> /\ D[f] = "dead"
      BY <1>1, <1>4 DEF Drain
    <2>2. Chat(<<>>, V[f], <<>>, TRUE)
      BY <1>2, <1>3, ChatClosed
    <2>3. QED
      BY <2>1, <2>2 DEF Chat
  <1>5. CASE f \notin S
    <2>1. Chat(O[f], V[f], V[Mate(f)], C[f] = "dead")
      BY <1>1, <1>2, <1>3, ChatRest
    <2>2. QED
      BY <1>5, <2>1 DEF Chat
  <1>6. QED
    BY <1>4, <1>5

\* The ends S of a node are closed; w is what they leave on the wires.
LEMMA ChatsClose ==
    ASSUME TypeOK, Chats(out, wire, con), NEW n \in Node, NEW S \in SUBSET End,
           NEW w \in [End -> Seq(Msg)], \A f \in End : Rest(wire[f], w[f]),
           Close(n, S, w)
    PROVE  Chats(out', wire', con')
  <1>1. Chats(out, w, con)
    BY ChatsRest DEF TypeOK
  <1>2. /\ \A f \in End : out'[f] = IF f \in S THEN <<>> ELSE out[f]
        /\ \A f \in S : con'[f] = "dead"
        /\ \A f \in End : con[f] = "dead" => con'[f] = "dead"
        /\ wire' = Drain(w, S)
    BY DEF Close
  <1>3. QED
    BY <1>1, <1>2, ChatsClosed

\* A request names its connection; w is what its handler left on the wires.
LEMMA ChatsRestName ==
    ASSUME TypeOK, CurrentConn, NEW e \in End, NEW w \in [End -> Seq(Msg)],
           Liv(e), Chats(out, w, con), RestName(e, w)
    PROVE  Chats(out', wire', con')
  <1> DEFINE S == Supplanted(e)
  <1>1. S \subseteq End /\ e \notin S
    <2>1. ron_u[e.own][e.oth] # None =>
            ron_u[e.own][e.oth] \in End /\ con[ron_u[e.own][e.oth]] # "unk"
      <3>1. e.own \in Node /\ e.oth \in Node
        BY MateFacts
      <3>2. ron_u[e.own][e.oth] # None =>
              con[ron_u[e.own][e.oth]] \in {"wait", "live"}
        BY <3>1 DEF CurrentConn
      <3>3. ron_u[e.own][e.oth] \in End \union {None}
        BY <3>1 DEF TypeOK
      <3>4. QED
        BY <3>2, <3>3
    <2>2. QED
      BY <2>1 DEF Supplanted, Linked
  <1>2. con[e] # "dead"
    BY DEF Liv
  <1>3. /\ \A f \in End : out'[f] = IF f \in S THEN <<>> ELSE out[f]
        /\ \A f \in S : con'[f] = "dead"
        /\ \A f \in End : con[f] = "dead" => con'[f] = "dead"
        /\ wire' = Drain(w, S)
    BY <1>1, <1>2 DEF RestName
  <1> HIDE DEF S
  <1>4. QED
    BY <1>3, ChatsClosed

\* A request goes out to every peer.
LEMMA ChatsConnAll ==
    ASSUME TypeOK, ConnInv, Chats(out, wire, con), OutBound,
           NEW n \in Node, NEW req \in Msg, ConnAll(n, req),
           req.typ \in {"revo", "apen"}, req.tem >= tem_w[n],
           req.typ = "revo" => req.tem > tem_w[n]
    PROVE  Chats(out', wire', con')
  <1> SUFFICES ASSUME NEW f \in End
               PROVE  Chat(out'[f], wire'[f], wire'[Mate(f)], con'[f] = "dead")
    BY DEF Chats
  <1> DEFINE p == Mate(f)
  <1>1. p \in End /\ p.own # f.own /\ Mate(p) = f
    BY MateFacts
  <1>2. Chat(out[f], wire[f], wire[p], con[f] = "dead")
    BY DEF Chats
  <1>3. /\ Hit(n, f) => con[f] # "dead" /\ con'[f] # "dead"
        /\ ~ Hit(n, f) => con'[f] = con[f]
        /\ out'[f] = IF Hit(n, f) THEN Append(out[f], req) ELSE out[f]
        /\ wire'[f] = IF Hit(n, f) THEN Post(f, req) ELSE wire[f]
    BY ConnAllFacts
  <1>4. wire'[p] = IF Hit(n, p) THEN Post(p, req) ELSE wire[p]
    BY <1>1, ConnAllFacts
  <1>5. /\ Post(f, req) = wire[f] \/ Post(f, req) = Append(wire[f], req)
        /\ Post(p, req) = wire[p] \/ Post(p, req) = Append(wire[p], req)
    BY DEF Post
  <1>6. /\ out[f] \in Seq(Msg) /\ wire[f] \in Seq(Msg) /\ wire[p] \in Seq(Msg)
        /\ tem_w[n] \in Nat
    BY <1>1 DEF TypeOK, Term
  <1> HIDE DEF p
  <1>7. CASE Hit(n, f)
    <2>1. ~ Hit(n, p)
      BY <1>1, <1>7 DEF Hit
    <2>2. \A i \in DOMAIN out[f] :
              /\ out[f][i].tem <= req.tem
              /\ req.typ = "revo" => out[f][i].tem < req.tem
      <3>1. \A i \in DOMAIN out[f] :
                out[f][i].tem <= tem_w[n] /\ out[f][i].tem \in Nat
        BY <1>6, <1>7, TermFacts DEF OutBound, Hit
      <3>2. req.tem \in Nat
        BY DEF Msg, Term
      <3>3. QED
        BY <1>6, <3>1, <3>2
    <2>3. Chat(out[f], wire[f], wire[p], FALSE)
      BY <1>2, <1>3, <1>7 DEF Chat
    <2>4. Chat(Append(out[f], req), Post(f, req), wire[p], FALSE)
      BY <1>5, <1>6, <2>2, <2>3, ChatAsk
    <2>5. QED
      BY <1>3, <1>4, <1>7, <2>1, <2>4 DEF Chat, p
  <1>8. CASE ~ Hit(n, f) /\ Hit(n, p)
    <2>1. Chat(out[f], wire[f], Post(p, req), con[f] = "dead")
      BY <1>2, <1>5, <1>6, ChatAsked
    <2>2. QED
      BY <1>3, <1>4, <1>8, <2>1 DEF p
  <1>9. CASE ~ Hit(n, f) /\ ~ Hit(n, p)
    BY <1>2, <1>3, <1>4, <1>9 DEF p
  <1>10. QED
    BY <1>7, <1>8, <1>9

\* A RequestVote was read and answered.
LEMMA ChatsAnswer ==
    ASSUME TypeOK, Chats(out, wire, con), NEW e \in End, Arrived(e, "revo"),
           NEW ans \in Msg, ans.typ = "rasp",
           ans.ans = Head(wire[Mate(e)]).tem
    PROVE  Chats(out, [Taken(e) EXCEPT ![e] = Post(e, ans)], con)
  <1> DEFINE p == Mate(e)
             w == [Taken(e) EXCEPT ![e] = Post(e, ans)]
  <1>1. p \in End /\ p # e /\ Mate(p) = e
    BY MateFacts
  <1>2. /\ w[e] = Post(e, ans) /\ w[p] = Tail(wire[p])
        /\ \A f \in End : f # e /\ f # p => w[f] = wire[f]
    BY <1>1 DEF Taken, TypeOK
  <1>3. /\ wire[e] \in Seq(Msg) /\ wire[p] \in Seq(Msg)
        /\ wire[p] # <<>> /\ Head(wire[p]).typ = "revo"
    BY <1>1 DEF TypeOK, Arrived
  <1>4. /\ Chat(out[e], wire[e], wire[p], con[e] = "dead")
        /\ Chat(out[p], wire[p], wire[e], con[p] = "dead")
    BY <1>1 DEF Chats
  <1>5. Post(e, ans) = IF con[p] = "dead" THEN wire[e] ELSE Append(wire[e], ans)
    BY DEF Post
  <1> HIDE DEF p, w
  <1>6. Chat(out[e], w[e], w[p], con[e] = "dead")
    <2>1. CASE con[p] = "dead"
      <3>1. Rest(wire[e], w[e]) /\ Rest(wire[p], w[p])
        BY <1>2, <1>3, <1>5, <2>1 DEF Rest
      <3>2. QED
        BY <1>3, <1>4, <3>1, ChatRest
    <2>2. CASE con[p] # "dead"
      BY <1>2, <1>3, <1>4, <1>5, <2>2, ChatAnswer DEF p
    <2>3. QED
      BY <2>1, <2>2
  <1>7. Chat(out[p], w[p], w[e], con[p] = "dead")
    <2>1. CASE con[p] = "dead"
      <3>1. Rest(wire[e], w[e]) /\ Rest(wire[p], w[p])
        BY <1>2, <1>3, <1>5, <2>1 DEF Rest
      <3>2. QED
        BY <1>3, <1>4, <3>1, ChatRest
    <2>2. CASE con[p] # "dead"
      <3>1. Chat(out[p], wire[p], wire[e], FALSE)
        BY <1>4, <2>2 DEF Chat
      <3>2. Chat(out[p], Tail(wire[p]), Append(wire[e], ans), FALSE)
        BY <1>3, <3>1, ChatAnswered DEF p
      <3>3. QED
        BY <1>2, <1>5, <2>2, <3>2 DEF Chat
    <2>3. QED
      BY <2>1, <2>2
  <1>8. ASSUME NEW f \in End
        PROVE  Chat(out[f], w[f], w[Mate(f)], con[f] = "dead")
    <2>1. CASE f = e
      BY <1>6, <2>1 DEF p
    <2>2. CASE f = p
      BY <1>1, <1>7, <2>2
    <2>3. CASE f # e /\ f # p
      <3>1. Mate(f) \in End /\ Mate(f) # e /\ Mate(f) # p
        BY <1>1, <2>3, MateFacts DEF p
      <3>2. Chat(out[f], wire[f], wire[Mate(f)], con[f] = "dead")
        BY DEF Chats
      <3>3. QED
        BY <1>2, <2>3, <3>1, <3>2
    <2>4. QED
      BY <2>1, <2>2, <2>3
  <1>9. QED
    BY <1>8 DEF Chats, w

\* A response was read and paired with the oldest request.
LEMMA ChatsSettled ==
    ASSUME TypeOK, Chats(out, wire, con), NEW e \in End, Arrived(e, "rasp"),
           out[e] # <<>>
    PROVE  Chats([out EXCEPT ![e] = Tail(@)], Taken(e), con)
  <1> DEFINE p == Mate(e)
             o == [out EXCEPT ![e] = Tail(@)]
             w == Taken(e)
  <1>1. p \in End /\ p # e /\ Mate(p) = e
    BY MateFacts
  <1>2. /\ w[p] = Tail(wire[p]) /\ o[e] = Tail(out[e])
        /\ \A f \in End : f # p => w[f] = wire[f]
        /\ \A f \in End : f # e => o[f] = out[f]
    BY <1>1 DEF Taken, TypeOK
  <1>3. /\ wire[e] \in Seq(Msg) /\ wire[p] \in Seq(Msg) /\ out[e] \in Seq(Msg)
        /\ wire[p] # <<>> /\ Head(wire[p]).typ = "rasp"
    BY <1>1 DEF TypeOK, Arrived
  <1>4. /\ Chat(out[e], wire[e], wire[p], con[e] = "dead")
        /\ Chat(out[p], wire[p], wire[e], con[p] = "dead")
    BY <1>1 DEF Chats
  <1> HIDE DEF p, w, o
  <1>5. Chat(o[e], w[e], w[p], con[e] = "dead")
    <2>1. Sent(wire[p])
      BY <1>4 DEF Chat
    <2>2. Chat(Tail(out[e]), wire[e], Tail(wire[p]), con[e] = "dead")
      BY <1>3, <1>4, <2>1, ChatSettled
    <2>3. QED
      BY <1>1, <1>2, <2>2
  <1>6. Chat(o[p], w[p], w[e], con[p] = "dead")
    <2>1. Rest(wire[p], w[p]) /\ Rest(wire[e], w[e])
      BY <1>1, <1>2, <1>3 DEF Rest
    <2>2. QED
      BY <1>1, <1>2, <1>3, <1>4, <2>1, ChatRest
  <1>7. ASSUME NEW f \in End
        PROVE  Chat(o[f], w[f], w[Mate(f)], con[f] = "dead")
    <2>1. CASE f = e
      BY <1>5, <2>1 DEF p
    <2>2. CASE f = p
      BY <1>1, <1>6, <2>2
    <2>3. CASE f # e /\ f # p
      <3>1. Mate(f) \in End /\ Mate(f) # e /\ Mate(f) # p
        BY <1>1, <2>3, MateFacts DEF p
      <3>2. Chat(out[f], wire[f], wire[Mate(f)], con[f] = "dead")
        BY DEF Chats
      <3>3. QED
        BY <1>2, <2>3, <3>1, <3>2
    <2>4. QED
      BY <2>1, <2>2, <2>3
  <1>8. QED
    BY <1>7 DEF Chats, w, o
-----------------------------------------------------------------------------
(***************************************************************************)
(* Terms of requests, and what messages say.                               *)
(***************************************************************************)

\* A node's requests shrink while its term grows.
LEMMA OutKept ==
    ASSUME TypeOK, TypeOK', OutBound,
           \A f \in End : \/ out'[f] = <<>>
                          \/ /\ Rest(out[f], out'[f])
                             /\ tem_w[f.own] <= tem_w'[f.own]
                             /\ typ_e'[f.own] = "foll" =>
                                  typ_e[f.own] = "foll"
                                  \/ tem_w[f.own] < tem_w'[f.own]
    PROVE  OutBound'
  <1> SUFFICES ASSUME NEW f \in End, NEW i \in DOMAIN out'[f]
               PROVE  /\ out'[f][i].tem <= tem_w'[f.own]
                      /\ typ_e'[f.own] = "foll" =>
                           out'[f][i].tem < tem_w'[f.own]
    BY DEF OutBound
  <1>1. f.own \in Node
    BY MateFacts
  <1>2. out[f] \in Seq(Msg) /\ out'[f] \in Seq(Msg)
    BY DEF TypeOK
  <1>3. tem_w[f.own] \in Nat /\ tem_w'[f.own] \in Nat
    BY <1>1 DEF TypeOK, Term
  <1>4. CASE out'[f] = <<>>
    BY <1>4
  <1>5. CASE out'[f] # <<>>
    <2>1. PICK k \in DOMAIN out[f] : out'[f][i] = out[f][k]
      BY <1>2, <1>5, RestFacts
    <2>2. out[f][k].tem \in Nat
      BY <1>2, TermFacts
    <2>3. /\ out[f][k].tem <= tem_w[f.own]
          /\ typ_e[f.own] = "foll" => out[f][k].tem < tem_w[f.own]
      BY DEF OutBound
    <2>4. QED
      BY <1>3, <1>5, <2>1, <2>2, <2>3
  <1>6. QED
    BY <1>4, <1>5

\* What a message m from the end f may say, with terms d on disk and votes c.
Says(f, m, d, c) ==
    /\ m.tem <= d[f.own]
    /\ m.typ = "rasp" /\ m.suc =>
          m.ans = m.tem /\ <<f.own, m.tem, f.oth>> \in c

SaysParts == GrantsCast /\ ToldIsDurable

\* Every message was on the wire before, or says what it may; votes and terms
\* on disk are never taken back.
LEMMA SaysKept ==
    ASSUME TypeOK, TypeOK', SaysParts, cast \subseteq cast',
           \A n \in Node : sis_term[n] <= sis_term'[n],
           \A f \in End : \A i \in DOMAIN wire'[f] :
               \/ \E k \in DOMAIN wire[f] : wire'[f][i] = wire[f][k]
               \/ Says(f, wire'[f][i], sis_term', cast')
    PROVE  SaysParts'
  <1> SUFFICES ASSUME NEW f \in End, NEW i \in DOMAIN wire'[f]
               PROVE  Says(f, wire'[f][i], sis_term', cast')
    BY DEF SaysParts, GrantsCast, ToldIsDurable, Says
  <1>1. CASE Says(f, wire'[f][i], sis_term', cast')
    BY <1>1
  <1>2. CASE \E k \in DOMAIN wire[f] : wire'[f][i] = wire[f][k]
    <2>1. PICK k \in DOMAIN wire[f] : wire'[f][i] = wire[f][k]
      BY <1>2
    <2>2. f.own \in Node /\ wire[f] \in Seq(Msg)
      BY MateFacts DEF TypeOK
    <2>3. /\ sis_term[f.own] \in Nat /\ sis_term'[f.own] \in Nat
          /\ sis_term[f.own] <= sis_term'[f.own]
      BY <2>2 DEF TypeOK, Term
    <2>4. wire[f][k].tem \in Nat
      BY <2>2, TermFacts
    <2>5. Says(f, wire[f][k], sis_term, cast)
      BY DEF SaysParts, GrantsCast, ToldIsDurable, Says
    <2>6. QED
      BY <2>1, <2>3, <2>4, <2>5 DEF Says
  <1>3. QED
    BY <1>1, <1>2

-----------------------------------------------------------------------------
(***************************************************************************)
(* The invariant of the election is inductive, and what follows from it.   *)
(* One lemma per action shows that it keeps the three parts of the         *)
(* invariant: nodes and files (NodeInv), connections (ConnInv), requests   *)
(* and messages (QueueInv).                                                *)
(***************************************************************************)

QueueInv == Chats(out, wire, con) /\ OutBound /\ SaysParts

Parts == NodeInv /\ ConnInv /\ QueueInv

\* The invariant, in the three parts the lemmas are about.
LEMMA InvParts == ElectionInv <=> TypeOK /\ Parts
  BY QueueParts
  DEF ElectionInv, Parts, NodeInv, ConnInv, QueueInv, SaysParts

\* A request to every peer, of a term that is on disk.
LEMMA QueueConnAll ==
    ASSUME TypeOK, TypeOK', ConnInv, QueueInv, NEW n \in Node, NEW req \in Msg,
           ConnAll(n, req), req.typ \in {"revo", "apen"},
           tem_w[n] <= req.tem, req.typ = "revo" => tem_w[n] < req.tem,
           tem_w'[n] = req.tem, sis_term'[n] = req.tem,
           typ_e'[n] # "foll",
           \A m \in Node \ {n} : tem_w'[m] = tem_w[m] /\ typ_e'[m] = typ_e[m],
           \A m \in Node : sis_term[m] <= sis_term'[m], cast \subseteq cast'
    PROVE  QueueInv'
  <1> USE DEF QueueInv
  <1>1. tem_w[n] \in Nat /\ req.tem \in Nat
    BY DEF TypeOK, Msg, Term
  <1>2. Chats(out', wire', con')
    BY <1>1, ChatsConnAll
  <1>3. OutBound'
    <2> SUFFICES ASSUME NEW f \in End, NEW i \in DOMAIN out'[f]
                 PROVE  /\ out'[f][i].tem <= tem_w'[f.own]
                        /\ typ_e'[f.own] = "foll" =>
                             out'[f][i].tem < tem_w'[f.own]
      BY DEF OutBound
    <2>1. f.own \in Node /\ out[f] \in Seq(Msg)
      BY MateFacts DEF TypeOK
    <2>2. out'[f] = IF Hit(n, f) THEN Append(out[f], req) ELSE out[f]
      BY ConnAllFacts
    <2>3. (i \in DOMAIN out[f] /\ out'[f][i] = out[f][i])
          \/ (Hit(n, f) /\ out'[f][i] = req)
      BY <2>1, <2>2, AppendFacts
    <2>4. CASE i \in DOMAIN out[f] /\ out'[f][i] = out[f][i]
      <3>1. out[f][i].tem \in Nat
        BY <2>1, <2>4, TermFacts
      <3>2. /\ out[f][i].tem <= tem_w[f.own]
            /\ typ_e[f.own] = "foll" => out[f][i].tem < tem_w[f.own]
        BY <2>4 DEF OutBound
      <3>3. CASE f.own = n
        BY <1>1, <2>4, <3>1, <3>2, <3>3
      <3>4. CASE f.own # n
        BY <2>1, <2>4, <3>2, <3>4
      <3>5. QED
        BY <3>3, <3>4
    <2>5. CASE Hit(n, f) /\ out'[f][i] = req
      BY <1>1, <2>5 DEF Hit
    <2>6. QED
      BY <2>3, <2>4, <2>5
  <1>4. SaysParts'
    <2> SUFFICES ASSUME NEW f \in End, NEW i \in DOMAIN wire'[f]
                 PROVE  \/ \E k \in DOMAIN wire[f] : wire'[f][i] = wire[f][k]
                        \/ Says(f, wire'[f][i], sis_term', cast')
      BY SaysKept
    <2>1. wire[f] \in Seq(Msg)
      BY DEF TypeOK
    <2>2. wire'[f] = IF Hit(n, f) THEN Post(f, req) ELSE wire[f]
      BY ConnAllFacts
    <2>3. \/ \E k \in DOMAIN wire[f] : wire'[f][i] = wire[f][k]
          \/ Hit(n, f) /\ wire'[f][i] = req
      BY <2>1, <2>2, AppendFacts DEF Post
    <2>4. Hit(n, f) => Says(f, req, sis_term', cast')
      BY <1>1 DEF Says, Hit
    <2>5. QED
      BY <2>3, <2>4
  <1>5. QED
    BY <1>2, <1>3, <1>4

\* _raft_start_election keeps the invariant.
LEMMA StepElection ==
    ASSUME TypeOK, TypeOK', Parts, NEW n \in Node, StartElection(n)
    PROVE  Parts'
  <1> USE DEF Parts
  <1>1. /\ tem_w[n] = sis_term[n] /\ tem_w[n] \in Nat /\ tem_w[n] + 1 \in Term
    BY BoundAssumption DEF StartElection, NodeInv, Synced, TypeOK, Term
  <1>2. NodeInv'
    BY NodeElection
  <1> DEFINE req == Revo(tem_w[n] + 1)
  <1>3. /\ req \in Msg /\ ConnAll(n, req) /\ req.typ = "revo"
        /\ req.tem = tem_w[n] + 1
    BY <1>1, MsgFacts DEF StartElection, Revo
  <1>4. /\ typ_e' = [typ_e EXCEPT ![n] = "cand"]
        /\ tem_w' = [tem_w EXCEPT ![n] = tem_w[n] + 1]
        /\ sis_term' = [sis_term EXCEPT ![n] = tem_w[n] + 1]
        /\ typ_e[n] # "none" /\ cast \subseteq cast'
    BY DEF StartElection
  <1> HIDE DEF req
  <1>5. /\ typ_e'[n] = "cand" /\ tem_w'[n] = req.tem /\ sis_term'[n] = req.tem
        /\ \A m \in Node \ {n} : /\ tem_w'[m] = tem_w[m] /\ typ_e'[m] = typ_e[m]
                                 /\ sis_term'[m] = sis_term[m]
        /\ \A m \in Node : sis_term[m] \in Nat
    BY <1>3, <1>4 DEF TypeOK, Term
  <1>6. \A m \in Node : sis_term[m] <= sis_term'[m]
    BY <1>1, <1>3, <1>5
  <1>7. ConnInv'
    BY <1>3, <1>4, <1>5, ConnConnAll
  <1>8. QueueInv'
    BY <1>1, <1>3, <1>4, <1>5, <1>6, QueueConnAll
  <1>9. QED
    BY <1>2, <1>7, <1>8

\* _raft_heartbeat keeps the invariant.
LEMMA StepHeartbeat ==
    ASSUME TypeOK, TypeOK', Parts, NEW n \in Node, Heartbeat(n)
    PROVE  Parts'
  <1> USE DEF Parts
  <1>1. /\ tem_w[n] = sis_term[n] /\ tem_w[n] \in Nat /\ tem_w[n] \in Term
    BY DEF Heartbeat, NodeInv, Synced, TypeOK, Term
  <1>2. /\ UNCHANGED <<nodeVars, sis_term, sis_vote, auxVars>>
        /\ typ_e[n] = "lead"
    BY DEF Heartbeat, sistVars
  <1>3. NodeInv'
    BY <1>2, NodeFrame
  <1> DEFINE req == Apen(tem_w[n])
  <1>4. /\ req \in Msg /\ ConnAll(n, req) /\ req.typ = "apen"
        /\ req.tem = tem_w[n]
    BY <1>1, MsgFacts DEF Heartbeat, Apen
  <1> HIDE DEF req
  <1>5. UNCHANGED <<typ_e, tem_w, sis_term, cast>>
    BY <1>2 DEF nodeVars, auxVars
  <1>6. ConnInv'
    BY <1>2, <1>4, <1>5, ConnConnAll
  <1>7. \A m \in Node : sis_term[m] <= sis_term'[m]
    BY <1>5 DEF TypeOK, Term
  <1>8. QueueInv'
    BY <1>1, <1>2, <1>4, <1>5, <1>7, QueueConnAll
  <1>9. QED
    BY <1>3, <1>6, <1>8

\* Messages that are left on a wire when some are read or lost.
LEMMA SaysRest ==
    ASSUME TypeOK, TypeOK', SaysParts, cast \subseteq cast',
           \A n \in Node : sis_term[n] <= sis_term'[n],
           \A f \in End : Rest(wire[f], wire'[f]) \/ wire'[f] = <<>>
    PROVE  SaysParts'
  <1>1. ASSUME NEW f \in End
        PROVE  \A i \in DOMAIN wire'[f] :
                   \E k \in DOMAIN wire[f] : wire'[f][i] = wire[f][k]
    <2>1. wire[f] \in Seq(Msg) /\ Rest(wire[f], wire'[f])
      BY DEF TypeOK, Rest
    <2>2. QED
      BY <2>1, RestFacts
  <1>2. QED
    BY <1>1, SaysKept

\* Ends of a node are closed.
LEMMA QueueClose ==
    ASSUME TypeOK, TypeOK', QueueInv, NEW n \in Node, NEW S \in SUBSET End,
           NEW w \in [End -> Seq(Msg)], \A f \in End : Rest(wire[f], w[f]),
           Close(n, S, w), cast' = cast,
           \A m \in Node : sis_term[m] <= sis_term'[m],
           \A f \in End : out'[f] = <<>> \/ (/\ tem_w'[f.own] = tem_w[f.own]
                                             /\ typ_e'[f.own] = typ_e[f.own])
    PROVE  QueueInv'
  <1> USE DEF QueueInv
  <1>1. Chats(out', wire', con')
    BY ChatsClose
  <1>2. \A f \in End : /\ out'[f] = out[f] \/ out'[f] = <<>>
                       /\ wire'[f] = w[f] \/ wire'[f] = <<>>
    BY DEF Close, Drain
  <1>3. OutBound'
    <2>1. \A f \in End : tem_w[f.own] \in Nat
      BY MateFacts DEF TypeOK, Term
    <2>2. ASSUME NEW f \in End
          PROVE  \/ out'[f] = <<>>
                 \/ /\ Rest(out[f], out'[f])
                    /\ tem_w[f.own] <= tem_w'[f.own]
                    /\ typ_e'[f.own] = "foll" =>
                         typ_e[f.own] = "foll" \/ tem_w[f.own] < tem_w'[f.own]
      BY <1>2, <2>1 DEF Rest
    <2>3. QED
      BY <2>2, OutKept
  <1>4. SaysParts'
    <2>1. \A f \in End : Rest(wire[f], wire'[f]) \/ wire'[f] = <<>>
      BY <1>2
    <2>2. QED
      BY <2>1, SaysRest
  <1>5. QED
    BY <1>1, <1>3, <1>4

\* A crash, with the files holding a newer term, or the same term and vote.
LEMMA StepHalt ==
    ASSUME TypeOK, TypeOK', Parts, NEW n \in Node, NEW t \in Term, NEW v,
           NEW torn, Halt(n, t, v, torn), t >= sis_term[n],
           t = sis_term[n] => v = sis_vote[n]
    PROVE  Parts'
  <1> USE DEF Parts
  <1> DEFINE S == {f \in End : f.own = n /\ con[f] # "none"}
             w == [f \in End |-> IF f \in S /\ con[f] = "wait" THEN <<>>
                                 ELSE wire[f]]
  <1>1. NodeInv'
    BY NodeHalt
  <1>2. /\ w \in [End -> Seq(Msg)] /\ S \in SUBSET End
        /\ \A f \in End : Rest(wire[f], w[f])
        /\ KeepsEmpty(wire, w)
    BY DEF TypeOK, Rest, KeepsEmpty
  <1>3. /\ Close(n, S, w) /\ cast' = cast
        /\ typ_e' = [typ_e EXCEPT ![n] = "none"]
        /\ tem_w' = [tem_w EXCEPT ![n] = 0]
        /\ sis_term' = [sis_term EXCEPT ![n] = t]
    BY DEF Halt, auxVars
  <1>4. \A f \in S : f.own = n /\ con[f] # "none"
    OBVIOUS
  <1>5. \A f \in End : f \in S \/ f.own # n \/ con[f] = "none"
    OBVIOUS
  <1> HIDE DEF S, w
  <1>6. \A f \in End : f.own \in Node
    BY MateFacts
  <1>7. ConnInv'
    <2>1. \A f \in End : typ_e'[f.own] = "none" =>
              typ_e[f.own] = "none" \/ con[f] = "none" \/ f \in S
      BY <1>3, <1>5, <1>6 DEF TypeOK
    <2>2. QED
      BY <1>2, <1>3, <1>4, <2>1, ConnClose
  <1>8. \A m \in Node : sis_term[m] <= sis_term'[m]
    BY <1>3 DEF TypeOK, Term
  <1>9. ASSUME NEW f \in End
        PROVE  out'[f] = <<>> \/ (/\ tem_w'[f.own] = tem_w[f.own]
                                  /\ typ_e'[f.own] = typ_e[f.own])
    <2>1. CASE f.own # n
      BY <1>3, <1>6, <2>1 DEF TypeOK
    <2>2. CASE f \in S
      BY <1>3, <2>2 DEF Close
    <2>3. CASE con[f] = "none"
      <3>1. out[f] = <<>>
        BY <2>3 DEF ConnInv, Quiet
      <3>2. QED
        BY <1>3, <3>1 DEF Close
    <2>4. QED
      BY <1>5, <2>1, <2>2, <2>3
  <1>10. QueueInv'
    BY <1>2, <1>3, <1>8, <1>9, QueueClose
  <1>11. QED
    BY <1>1, <1>7, <1>10

\* A crash inside a handler.
LEMMA StepCrash ==
    ASSUME TypeOK, TypeOK', Parts,
           \/ \E n \in Node : Crash(n) \/ CrashInElection(n)
           \/ \E e \in End : CrashInNote(e) \/ CrashInGrant(e)
    PROVE  Parts'
  <1>1. \A n \in Node : typ_e[n] # "none" => tem_w[n] = sis_term[n]
    BY DEF Parts, NodeInv, Synced
  <1>2. \A n \in Node : /\ tem_w[n] \in Nat /\ sis_term[n] \in Nat
                        /\ sis_term[n] \in Term
    BY DEF TypeOK, Term
  <1>3. ASSUME NEW n \in Node, Crash(n)
        PROVE  Parts'
    <2>1. sis_term[n] >= sis_term[n]
      BY <1>2
    <2>2. QED
      BY <1>2, <1>3, <2>1, StepHalt DEF Crash
  <1>4. ASSUME NEW n \in Node, CrashInElection(n)
        PROVE  Parts'
    <2>1. tem_w[n] + 1 \in Term /\ tem_w[n] + 1 > sis_term[n] /\ tem_w[n] + 1 \in Nat
      BY <1>1, <1>2, <1>4, BoundAssumption DEF CrashInElection, Term
    <2>2. /\ sis_term[n] >= sis_term[n] /\ tem_w[n] + 1 >= sis_term[n]
          /\ tem_w[n] + 1 # sis_term[n]
      BY <1>2, <2>1
    <2>3. CASE Halt(n, sis_term[n], sis_vote[n], TRUE)
      BY <1>2, <2>2, <2>3, StepHalt, Zenon
    <2>4. CASE Halt(n, tem_w[n] + 1, sis_vote[n], FALSE)
      BY <2>1, <2>2, <2>4, StepHalt, Zenon
    <2>5. QED
      BY <1>4, <2>3, <2>4 DEF CrashInElection
  <1>5. ASSUME NEW e \in End, CrashInNote(e)
        PROVE  Parts'
    <2> DEFINE n == e.own
               t == Head(wire[Mate(e)]).tem
    <2>1. t \in Term /\ n \in Node /\ t \in Nat
      BY <1>5, TakenFacts DEF CrashInNote, Term
    <2>2. typ_e[n] # "none" /\ tem_w[n] < t
      BY <1>5 DEF CrashInNote, Halt, Newer
    <2>3. t >= sis_term[n] /\ t # sis_term[n] /\ sis_term[n] >= sis_term[n]
      BY <1>1, <1>2, <2>1, <2>2
    <2> HIDE DEF n, t
    <2>4. CASE Halt(n, sis_term[n], sis_vote[n], TRUE)
      BY <1>2, <2>1, <2>3, <2>4, StepHalt, Zenon
    <2>5. CASE Halt(n, t, sis_vote[n], FALSE)
      BY <2>1, <2>3, <2>5, StepHalt, Zenon
    <2>6. CASE Halt(n, t, NoteSis(n, t), FALSE)
      BY <2>1, <2>3, <2>6, StepHalt, Zenon
    <2>7. QED
      BY <1>5, <2>4, <2>5, <2>6 DEF CrashInNote, n, t
  <1>6. ASSUME NEW e \in End, CrashInGrant(e)
        PROVE  Parts'
    <2> DEFINE n == e.own
               t == Head(wire[Mate(e)]).tem
    <2>1. t \in Term /\ n \in Node /\ t \in Nat
      BY <1>6, TakenFacts DEF CrashInGrant, Arrived, Term
    <2>2. typ_e[n] # "none"
      BY <1>6 DEF CrashInGrant, Halt
    <2>3. NoteTem(n, t) \in Term
      BY <2>1, NoteType
    <2>4. NoteTem(n, t) >= sis_term[n]
      BY <1>1, <1>2, <2>1, <2>2 DEF NoteTem, Newer
    <2>5. NoteTem(n, t) = sis_term[n] => NoteSis(n, t) = sis_vote[n]
      BY <1>1, <1>2, <2>1, <2>2 DEF NoteTem, Newer, NoteSis, Demoted
    <2> HIDE DEF n, t
    <2>6. Halt(n, NoteTem(n, t), NoteSis(n, t), TRUE)
      BY <1>6 DEF CrashInGrant, n, t
    <2>7. QED
      BY <2>1, <2>3, <2>4, <2>5, <2>6, StepHalt
  <1>7. QED
    BY <1>3, <1>4, <1>5, <1>6

\* A step that leaves nodes and files alone and closes one end.
LEMMA StepCloseOne ==
    ASSUME TypeOK, TypeOK', Parts, NEW e \in End,
           NEW w \in [End -> Seq(Msg)], \A f \in End : Rest(wire[f], w[f]),
           KeepsEmpty(wire, w), Close(e.own, {e}, w), con[e] # "none",
           UNCHANGED <<nodeVars, sistVars, auxVars>>
    PROVE  Parts'
  <1> USE DEF Parts
  <1>1. e.own \in Node
    BY MateFacts
  <1>2. NodeInv'
    BY NodeFrame DEF sistVars
  <1>3. UNCHANGED <<typ_e, tem_w, sis_term, cast>>
    BY DEF nodeVars, sistVars, auxVars
  <1>4. ConnInv'
    <2>1. {e} \in SUBSET End
      OBVIOUS
    <2>2. QED
      BY <1>1, <1>3, <2>1, ConnClose
  <1>5. QueueInv'
    <2>1. {e} \in SUBSET End /\ \A m \in Node : sis_term[m] <= sis_term'[m]
      BY <1>3 DEF TypeOK, Term
    <2>2. QED
      BY <1>1, <1>3, <2>1, QueueClose
  <1>6. QED
    BY <1>2, <1>4, <1>5

\* Losing a connection keeps the invariant.
LEMMA StepConnLost ==
    ASSUME TypeOK, TypeOK', Parts, NEW e \in End, ConnLost(e)
    PROVE  Parts'
  <1> DEFINE w == [wire EXCEPT ![e] = IF con[e] = "wait" THEN <<>> ELSE @]
  <1>1. /\ w \in [End -> Seq(Msg)] /\ KeepsEmpty(wire, w)
        /\ \A f \in End : Rest(wire[f], w[f])
    BY DEF TypeOK, Rest, KeepsEmpty
  <1>2. Close(e.own, {e}, w) /\ con[e] # "none"
        /\ UNCHANGED <<nodeVars, sistVars, auxVars>>
    BY DEF ConnLost
  <1> HIDE DEF w
  <1>3. QED
    BY <1>1, <1>2, StepCloseOne

\* What taking a message leaves on the wires.
LEMMA TakenRest ==
    ASSUME TypeOK, NEW e \in End, wire[Mate(e)] # <<>>
    PROVE  /\ \A f \in End : Rest(wire[f], Taken(e)[f])
           /\ KeepsEmpty(wire, Taken(e))
           /\ \A f \in End : f # Mate(e) => Taken(e)[f] = wire[f]
           /\ Taken(e)[Mate(e)] = Tail(wire[Mate(e)])
  <1>1. Mate(e) \in End
    BY MateFacts
  <1>2. \A f \in End : Taken(e)[f] = IF f = Mate(e) THEN Tail(wire[f]) ELSE wire[f]
    BY <1>1 DEF Taken, TypeOK
  <1>3. QED
    BY <1>1, <1>2 DEF Rest, KeepsEmpty

\* A connection that is opened, or a restart.
LEMMA StepOpen ==
    ASSUME TypeOK, TypeOK', Parts, NEW e \in End, Connect(e) \/ Listen(e)
    PROVE  Parts'
  <1> USE DEF Parts
  <1>1. UNCHANGED <<nodeVars, sistVars, auxVars, out, wire>>
    BY DEF Connect, Listen
  <1>2. NodeInv'
    BY <1>1, NodeFrame DEF sistVars
  <1>3. ConnInv'
    BY ConnOpen
  <1>4. QueueInv'
    <2>1. Mate(e) \in End /\ Mate(e) # e
      BY MateFacts
    <2>2. \A f \in End : con[f] = "dead" => con'[f] = "dead"
      <3>1. CASE Connect(e)
        <4>1. con[e] = "wait" /\ con[Mate(e)] = "none"
          BY <3>1 DEF Connect, ConnInv, Quiet
        <4>2. QED
          BY <2>1, <3>1, <4>1 DEF Connect, TypeOK
      <3>2. CASE Listen(e)
        BY <3>2 DEF Listen, TypeOK
      <3>3. QED
        BY <3>1, <3>2
    <2>3. \A f \in End : Rest(wire[f], wire'[f])
      BY <1>1 DEF Rest
    <2>4. Chats(out, wire', con')
      BY <2>2, <2>3, ChatsRest DEF TypeOK, QueueInv
    <2>5. QED
      BY <1>1, <2>4
      DEF QueueInv, OutBound, SaysParts, GrantsCast, ToldIsDurable,
          nodeVars, sistVars, auxVars
  <1>5. QED
    BY <1>2, <1>3, <1>4

\* A restart keeps the invariant: memory is what the files hold, or the vote
\* of that term is discarded.
LEMMA StepFollInit ==
    ASSUME TypeOK, TypeOK', Parts, NEW n \in Node, FollInit(n)
    PROVE  Parts'
  <1> USE DEF Parts
  <1>1. NodeInv'
    BY NodeFollInit
  <1>2. /\ UNCHANGED <<connVars, sis_term>> /\ cast \subseteq cast'
        /\ typ_e[n] = "none"
    BY DEF FollInit, sistVars
  <1>3. \A m \in Node \ {n} : typ_e'[m] = typ_e[m] /\ tem_w'[m] = tem_w[m]
    BY DEF FollInit, TypeOK
  <1>4. typ_e'[n] # "none"
    BY DEF FollInit, TypeOK
  <1>5. ConnInv'
    BY <1>2, <1>3, <1>4, ConnFrame
  <1>6. \A f \in End : f.own = n => out[f] = <<>>
    BY <1>2 DEF ConnInv, DownIsClosed, Quiet
  <1>7. OutBound'
    <2>1. ASSUME NEW f \in End
          PROVE  \/ out'[f] = <<>>
                 \/ /\ Rest(out[f], out'[f])
                    /\ tem_w[f.own] <= tem_w'[f.own]
                    /\ typ_e'[f.own] = "foll" =>
                         typ_e[f.own] = "foll" \/ tem_w[f.own] < tem_w'[f.own]
      <3>1. f.own \in Node /\ tem_w[f.own] \in Nat
        BY MateFacts DEF TypeOK, Term
      <3>2. out'[f] = out[f]
        BY <1>2 DEF connVars
      <3>3. QED
        BY <1>3, <1>6, <3>1, <3>2 DEF Rest
    <2>2. QED
      BY <2>1, OutKept DEF QueueInv
  <1>8. SaysParts'
    <2>1. \A m \in Node : sis_term[m] <= sis_term'[m]
      BY <1>2 DEF TypeOK, Term
    <2>2. \A f \in End : Rest(wire[f], wire'[f])
      BY <1>2 DEF connVars, Rest
    <2>3. QED
      BY <1>2, <2>1, <2>2, SaysRest DEF QueueInv
  <1>9. Chats(out', wire', con')
    BY <1>2 DEF QueueInv, connVars
  <1>10. QED
    BY <1>1, <1>5, <1>7, <1>8, <1>9 DEF QueueInv
\* Terms only grow, in memory and on disk, and a node becomes a follower only
\* in a newer term.
Rises ==
    \A m \in Node :
        /\ tem_w[m] <= tem_w'[m] /\ sis_term[m] <= sis_term'[m]
        /\ typ_e'[m] = "foll" => typ_e[m] = "foll" \/ tem_w[m] < tem_w'[m]
        /\ typ_e'[m] = "none" => typ_e[m] = "none"

\* _raft_note_term only raises a node's term, in memory and on disk.
LEMMA NoteRises ==
    ASSUME TypeOK, NodeInv, NEW n \in Node, NEW t \in Term, typ_e[n] # "none",
           NEW typ \in {"foll", "cand", "lead"},
           typ = "foll" => typ_e[n] = "foll" \/ Newer(n, t),
           typ_e' = [typ_e EXCEPT ![n] = typ],
           tem_w' = [tem_w EXCEPT ![n] = NoteTem(n, t)],
           sis_term' = [sis_term EXCEPT ![n] = IF Newer(n, t) THEN t ELSE @]
    PROVE  Rises
  <1> SUFFICES ASSUME NEW m \in Node
               PROVE  Rises!(m)
    BY DEF Rises
  <1>1. /\ tem_w[m] \in Nat /\ sis_term[m] \in Nat /\ t \in Nat
        /\ tem_w[n] \in Nat /\ tem_w[n] = sis_term[n]
    BY DEF TypeOK, Term, NodeInv, Synced
  <1>2. CASE m = n
    BY <1>1, <1>2 DEF TypeOK, NoteTem, Newer
  <1>3. CASE m # n
    BY <1>1, <1>3 DEF TypeOK
  <1>4. QED
    BY <1>2, <1>3

\* A running node is at the end of a live connection.
LEMMA LivRuns ==
    ASSUME ConnInv, NEW e \in End, Liv(e)
    PROVE  typ_e[e.own] # "none" /\ con[e] # "none" /\ con[e] # "dead"
  BY DEF ConnInv, DownIsClosed, Liv

\* Requests stay or are dropped while terms grow.
LEMMA OutRises ==
    ASSUME TypeOK, TypeOK', OutBound, Rises,
           \A f \in End : Rest(out[f], out'[f])
    PROVE  OutBound'
  <1>1. ASSUME NEW f \in End
        PROVE  /\ Rest(out[f], out'[f])
               /\ tem_w[f.own] <= tem_w'[f.own]
               /\ typ_e'[f.own] = "foll" =>
                    typ_e[f.own] = "foll" \/ tem_w[f.own] < tem_w'[f.own]
    BY MateFacts DEF Rises
  <1>2. QED
    BY <1>1, OutKept

\* _raft_do_apen keeps the invariant.
LEMMA StepApen ==
    ASSUME TypeOK, TypeOK', Parts, NEW e \in End, DoApen(e)
    PROVE  Parts'
  <1> USE DEF Parts
  <1> DEFINE n == e.own
             t == Head(wire[Mate(e)]).tem
  <1>1. /\ Liv(e) /\ wire[Mate(e)] # <<>> /\ RestName(e, Taken(e))
        /\ typ_e' = [typ_e EXCEPT ![n] = NoteTyp(n, t)]
        /\ tem_w' = [tem_w EXCEPT ![n] = NoteTem(n, t)]
        /\ vog_c' = [vog_c EXCEPT ![n] = NoteVog(n, t)]
        /\ vot_w' = [vot_w EXCEPT ![n] = NoteVot(n, t)]
        /\ sis_term' = [sis_term EXCEPT ![n] = IF Newer(n, t) THEN t ELSE @]
        /\ sis_vote' = [sis_vote EXCEPT ![n] = NoteSis(n, t)]
        /\ UNCHANGED <<vog, auxVars>>
    BY DEF DoApen, Arrived, auxVars
  <1>2. t \in Term /\ n \in Node /\ Taken(e) \in [End -> Seq(Msg)]
    BY <1>1, TakenFacts
  <1>3. typ_e[n] # "none"
    BY <1>1, LivRuns
  <1> HIDE DEF n, t
  <1>4. NodeInv'
    BY <1>1, <1>2, <1>3, NodeApen
  <1>5. Rises
    <2>1. /\ NoteTyp(n, t) \in {"foll", "cand", "lead"}
          /\ NoteTyp(n, t) = "foll" => typ_e[n] = "foll" \/ Newer(n, t)
      BY <1>2, <1>3 DEF NoteTyp, TypeOK
    <2>2. QED
      BY <1>1, <1>2, <1>3, <2>1, NoteRises
  <1>6. ConnInv'
    <2>1. \A f \in End : wire[f] = <<>> =>
              Taken(e)[f] = <<>> \/ (f = e /\ con[Mate(e)] # "dead")
      BY <1>1, TakenRest DEF KeepsEmpty
    <2>2. QED
      BY <1>1, <1>5, <2>1, ConnRestName DEF Rises
  <1>7. QueueInv'
    <2>1. \A f \in End : Rest(wire[f], Taken(e)[f])
      BY <1>1, TakenRest
    <2>2. Chats(out, Taken(e), con)
      BY <2>1, ChatsRest DEF QueueInv, TypeOK
    <2>3. Chats(out', wire', con')
      BY <1>1, <1>2, <2>2, ChatsRestName DEF ConnInv
    <2>4. \A f \in End : out'[f] = out[f] \/ out'[f] = <<>>
      BY <1>1 DEF RestName
    <2>5. OutBound'
      BY <1>5, <2>4, OutRises DEF QueueInv, Rest
    <2>6. \A f \in End : wire'[f] = Taken(e)[f] \/ wire'[f] = <<>>
      BY <1>1 DEF RestName, Drain
    <2>7. SaysParts'
      <3>1. \A f \in End : Rest(wire[f], wire'[f]) \/ wire'[f] = <<>>
        BY <2>1, <2>6
      <3>2. QED
        BY <1>1, <1>5, <3>1, SaysRest DEF QueueInv, Rises, auxVars
    <2>8. QED
      BY <2>3, <2>5, <2>7 DEF QueueInv
  <1>8. QED
    BY <1>4, <1>6, <1>7

\* _raft_do_revo keeps the invariant: a vote is on disk when it is answered.
LEMMA StepRevo ==
    ASSUME TypeOK, TypeOK', Parts, NEW e \in End, DoRevo(e)
    PROVE  Parts'
  <1> USE DEF Parts
  <1> DEFINE n == e.own
             m == e.oth
             t == Head(wire[Mate(e)]).tem
             ok == Grant(n, m, t)
             ans == Rasp(NoteTem(n, t), ok, t)
             w == [Taken(e) EXCEPT ![e] = Post(e, ans)]
  <1>1. /\ Arrived(e, "revo") /\ Liv(e) /\ wire[Mate(e)] # <<>>
        /\ RestName(e, w)
        /\ typ_e' = [typ_e EXCEPT ![n] = NoteTyp(n, t)]
        /\ tem_w' = [tem_w EXCEPT ![n] = NoteTem(n, t)]
        /\ sis_term' = [sis_term EXCEPT ![n] = IF Newer(n, t) THEN t ELSE @]
        /\ cast' = IF ok THEN cast \union {<<n, t, m>>} ELSE cast
    BY DEF DoRevo, Arrived
  <1>2. /\ t \in Term /\ n \in Node /\ m \in Node
        /\ Taken(e) \in [End -> Seq(Msg)]
    BY <1>1, TakenFacts
  <1>3. typ_e[n] # "none"
    BY <1>1, LivRuns
  <1>4. ans \in Msg /\ ans.typ = "rasp" /\ ans.ans = t /\ ans.suc = ok
        /\ ans.tem = NoteTem(n, t)
    BY <1>2, NoteType, MsgFacts DEF Grant, Rasp
  <1>5. w \in [End -> Seq(Msg)]
    BY <1>2, <1>4, PostType
  <1>6. Mate(e) \in End /\ Mate(e) # e
    BY MateFacts
  <1>7. /\ w[e] = Post(e, ans)
        /\ \A f \in End : f # e => w[f] = Taken(e)[f]
    BY <1>2
  <1>8. Chats(out, w, con)
    BY <1>1, <1>4, ChatsAnswer DEF QueueInv
  <1> HIDE DEF n, m, t, ok, ans, w
  <1>9. NodeInv'
    BY <1>3, NodeRevo DEF n
  <1>10. Rises
    <2>1. /\ NoteTyp(n, t) \in {"foll", "cand", "lead"}
          /\ NoteTyp(n, t) = "foll" => typ_e[n] = "foll" \/ Newer(n, t)
      BY <1>2, <1>3 DEF NoteTyp, TypeOK
    <2>2. QED
      BY <1>1, <1>2, <1>3, <2>1, NoteRises
  <1>11. ConnInv'
    <2>1. ASSUME NEW f \in End, wire[f] = <<>>
          PROVE  w[f] = <<>> \/ (f = e /\ con[Mate(e)] # "dead")
      <3>1. CASE f # e
        BY <1>1, <1>7, <2>1, <3>1, TakenRest DEF KeepsEmpty
      <3>2. CASE f = e
        BY <1>7, <2>1, <3>2 DEF Post
      <3>3. QED
        BY <3>1, <3>2
    <2>2. QED
      BY <1>1, <1>10, <2>1, ConnRestName DEF Rises
  <1>12. QueueInv'
    <2>1. Chats(out', wire', con')
      BY <1>1, <1>5, <1>8, ChatsRestName DEF ConnInv
    <2>2. \A f \in End : out'[f] = out[f] \/ out'[f] = <<>>
      BY <1>1 DEF RestName
    <2>3. OutBound'
      BY <1>10, <2>2, OutRises DEF QueueInv, Rest
    <2>4. \A f \in End : wire'[f] = w[f] \/ wire'[f] = <<>>
      BY <1>1 DEF RestName, Drain
    <2>5. Says(e, ans, sis_term', cast')
      <3>1. tem_w[n] = sis_term[n] /\ tem_w[n] \in Nat /\ t \in Nat
        BY <1>2, <1>3 DEF NodeInv, Synced, TypeOK, Term
      <3>2. sis_term'[n] = NoteTem(n, t) /\ NoteTem(n, t) \in Nat
        BY <1>1, <1>2, <3>1 DEF NoteTem, TypeOK
      <3>3. ok => t = NoteTem(n, t) /\ <<n, t, m>> \in cast'
        BY <1>1, <3>1 DEF ok, Grant, NoteTem, Newer
      <3>4. QED
        BY <1>4, <3>2, <3>3 DEF Says, n, m
    <2>6. ASSUME NEW f \in End, NEW i \in DOMAIN wire'[f]
          PROVE  \/ \E k \in DOMAIN wire[f] : wire'[f][i] = wire[f][k]
                 \/ Says(f, wire'[f][i], sis_term', cast')
      <3>1. wire'[f] = w[f] /\ wire[f] \in Seq(Msg)
        BY <2>4 DEF TypeOK
      <3>2. CASE f # e
        <4>1. Rest(wire[f], wire'[f])
          BY <1>1, <1>7, <3>1, <3>2, TakenRest
        <4>2. QED
          BY <3>1, <4>1, RestFacts
      <3>3. CASE f = e
        <4>1. wire'[f] = wire[f] \/ wire'[f] = Append(wire[f], ans)
          BY <1>7, <3>1, <3>3 DEF Post
        <4>2. CASE wire'[f] = wire[f]
          BY <4>2
        <4>3. CASE wire'[f] = Append(wire[f], ans)
          <5>1. \/ i \in DOMAIN wire[f] /\ wire'[f][i] = wire[f][i]
                \/ wire'[f][i] = ans
            BY <1>4, <3>1, <4>3, AppendFacts
          <5>2. QED
            BY <2>5, <3>3, <5>1
        <4>4. QED
          BY <4>1, <4>2, <4>3
      <3>4. QED
        BY <3>2, <3>3
    <2>7. SaysParts'
      <3>1. cast \subseteq cast' /\ \A p \in Node : sis_term[p] <= sis_term'[p]
        BY <1>1, <1>10 DEF Rises
      <3>2. QED
        BY <2>6, <3>1, SaysKept DEF QueueInv
    <2>8. QED
      BY <2>1, <2>3, <2>7 DEF QueueInv
  <1>13. QED
    BY <1>9, <1>11, <1>12

\* _raft_do_rasp keeps the invariant: a vote that is counted was cast.
LEMMA StepRasp ==
    ASSUME TypeOK, TypeOK', Parts, NEW e \in End, DoRasp(e)
    PROVE  Parts'
  <1> USE DEF Parts
  <1>1. Arrived(e, "rasp") /\ Liv(e) /\ wire[Mate(e)] # <<>>
    BY DEF DoRasp, Arrived
  <1>2. Taken(e) \in [End -> Seq(Msg)] /\ e.own \in Node
    BY <1>1, TakenFacts
  <1>3. typ_e[e.own] # "none" /\ con[e] # "none"
    BY <1>1, LivRuns
  <1>4. \A f \in End : Rest(wire[f], Taken(e)[f])
    BY <1>1, TakenRest
  <1>5. CASE RaspStray(e)
    <2>1. KeepsEmpty(wire, Taken(e))
      BY <1>1, TakenRest
    <2>2. QED
      BY <1>2, <1>3, <1>4, <1>5, <2>1, StepCloseOne DEF RaspStray
  <1>6. CASE RaspMatched(e) /\ out[e] # <<>>
    <2> DEFINE n == e.own
               t == Head(wire[Mate(e)]).tem
               won == Promoted(e, Head(wire[Mate(e)]).suc)
               typ == IF Newer(n, t) THEN "foll"
                      ELSE IF won THEN "lead" ELSE typ_e[n]
    <2>1. NodeInv'
      <3>1. OutOrdered /\ WireAwaited /\ GrantsCast
        BY QueueParts DEF QueueInv, SaysParts
      <3>2. QED
        BY <1>1, <1>3, <1>6, <3>1, NodeRasp
    <2>2. /\ typ_e' = [typ_e EXCEPT ![n] = typ]
          /\ tem_w' = [tem_w EXCEPT ![n] = NoteTem(n, t)]
          /\ sis_term' = [sis_term EXCEPT ![n] = IF Newer(n, t) THEN t ELSE @]
          /\ out' = [out EXCEPT ![e] = Tail(@)]
          /\ wire' = Taken(e)
          /\ UNCHANGED <<con, ron_u, cast>>
      BY <1>6 DEF RaspMatched
    <2>3. t \in Term /\ n \in Node
      BY <1>1, TakenFacts
    <2>4. Rises
      <3>1. typ_e[n] \in {"foll", "cand", "lead"}
        BY <1>3, <2>3 DEF TypeOK
      <3>2. /\ typ \in {"foll", "cand", "lead"}
            /\ typ = "foll" => typ_e[n] = "foll" \/ Newer(n, t)
        BY <3>1
      <3> HIDE DEF n, t, typ
      <3>3. QED
        BY <1>3, <2>2, <2>3, <3>2, NoteRises DEF n
    <2> HIDE DEF n, t, won, typ
    <2>5. ConnInv'
      <3>1. DownIsClosed'
        BY <2>2, <2>4, MateFacts DEF ConnInv, DownIsClosed, Rises
      <3>2. CurrentConn'
        BY <2>2 DEF ConnInv, CurrentConn
      <3>3. Quiet'
        <4> SUFFICES ASSUME NEW f \in End
                     PROVE  Quiet!(f)'
          BY DEF Quiet
        <4>1. Mate(f) \in End /\ Quiet!(f)
          BY MateFacts DEF ConnInv, Quiet
        <4>2. /\ wire[f] = <<>> => wire'[f] = <<>>
              /\ wire[Mate(f)] = <<>> => wire'[Mate(f)] = <<>>
          BY <1>1, <2>2, <4>1, TakenRest DEF KeepsEmpty
        <4>3. con[f] \notin {"wait", "live"} => out'[f] = <<>>
          BY <1>6, <2>2, <4>1 DEF TypeOK
        <4>4. QED
          BY <2>2, <4>1, <4>2, <4>3
      <3>4. QED
        BY <3>1, <3>2, <3>3 DEF ConnInv
    <2>6. Chats(out', wire', con')
      BY <1>1, <1>6, <2>2, ChatsSettled DEF QueueInv
    <2>7. OutBound'
      <3>1. \A f \in End : Rest(out[f], out'[f])
        BY <1>6, <2>2 DEF Rest, TypeOK
      <3>2. QED
        BY <2>4, <3>1, OutRises DEF QueueInv
    <2>8. SaysParts'
      BY <1>4, <2>2, <2>4, SaysRest DEF QueueInv, Rises
    <2>9. QED
      BY <2>1, <2>5, <2>6, <2>7, <2>8 DEF QueueInv
  <1>7. QED
    BY <1>5, <1>6 DEF DoRasp
-----------------------------------------------------------------------------
(***************************************************************************)
(* The theorems.                                                           *)
(***************************************************************************)

\* The invariant holds at the start.
LEMMA InvInit == Init => ElectionInv
  <1> SUFFICES ASSUME Init
               PROVE  ElectionInv
    OBVIOUS
  <1>1. TypeOK
    BY TypeInit
  <1>2. /\ Synced /\ Remembered /\ CastOnDisk /\ TwiceByDiscard /\ Tallied
        /\ FollowerHasNoVotes /\ ElectedByMajority
    BY DEF Init, Synced, Remembered, CastOnDisk, TwiceByDiscard, Tallied,
           FollowerHasNoVotes, ElectedByMajority
  <1>3. DownIsClosed /\ Quiet /\ CurrentConn
    BY MateFacts DEF Init, DownIsClosed, Quiet, CurrentConn
  <1>4. /\ OutOrdered /\ WireAwaited /\ WireOrdered /\ GrantsCast
        /\ ToldIsDurable
    BY MateFacts DEF Init, OutOrdered, WireAwaited, WireOrdered, GrantsCast,
                     ToldIsDurable
  <1>5. QED
    BY <1>1, <1>2, <1>3, <1>4 DEF ElectionInv

\* The invariant is inductive: every handler, fault and restart keeps it.
LEMMA InvStep ==
    ASSUME ElectionInv, [Next]_vars
    PROVE  ElectionInv'
  <1>1. TypeOK /\ Parts
    BY InvParts
  <1>2. TypeOK'
    BY <1>1, TypeStep
  <1>3. CASE Next
    <2>1. ASSUME NEW n \in Node,
                 \/ StartElection(n) \/ Heartbeat(n) \/ Crash(n)
                 \/ CrashInElection(n) \/ FollInit(n)
          PROVE  Parts'
      BY <1>1, <1>2, <2>1, StepElection, StepHeartbeat, StepCrash,
         StepFollInit
    <2>2. ASSUME NEW e \in End,
                 \/ Connect(e) \/ Listen(e) \/ ConnLost(e) \/ DoApen(e)
                 \/ DoRevo(e) \/ DoRasp(e) \/ CrashInNote(e)
                 \/ CrashInGrant(e)
          PROVE  Parts'
      BY <1>1, <1>2, <2>2, StepOpen, StepConnLost, StepApen, StepRevo,
         StepRasp, StepCrash
    <2>3. Parts'
      BY <1>3, <2>1, <2>2 DEF Next
    <2>4. (ElectionInv <=> TypeOK /\ Parts)'
      BY InvParts, PTL
    <2>5. QED
      BY <1>2, <2>3, <2>4
  <1>4. CASE UNCHANGED vars
    BY <1>4
    DEF ElectionInv, TypeOK, Synced, Remembered, CastOnDisk, TwiceByDiscard, Tallied,
        FollowerHasNoVotes, DownIsClosed, Quiet, CurrentConn, OutOrdered,
        WireAwaited, Awaited, WireOrdered, GrantsCast, ToldIsDurable,
        ElectedByMajority, Majority, vars, nodeVars, sistVars, connVars,
        auxVars
  <1>5. QED
    BY <1>3, <1>4

\* The invariant of the election holds in every reachable state, for every
\* flotilla, every number of terms, connections, requests and crashes, and
\* whichever restarts discard the vote they read.
THEOREM InvCorrect == Spec => []ElectionInv
  <1>1. ElectionInv /\ [Next]_vars => ElectionInv'
    BY InvStep
  <1>2. QED
    BY <1>1, InvInit, PTL DEF Spec

\* Two majorities of the same election share a voter, who voted once unless
\* its restart discarded the vote.
LEMMA Rivals == ElectionInv => RivalsByDiscard
  <1> SUFFICES ASSUME ElectionInv, NEW a \in elected, NEW b \in elected,
                      a[2] = b[2]
               PROVE  \/ a[1] = b[1]
                      \/ \E n \in Node : /\ <<n, a[2], a[1]>> \in cast
                                         /\ <<n, a[2], b[1]>> \in cast
                                         /\ <<n, a[2]>> \in discarded
    BY DEF RivalsByDiscard
  <1>1. a[1] \in Node /\ b[1] \in Node
    BY DEF ElectionInv, TypeOK
  <1> DEFINE A == Ballots(a[1], a[2])
             B == Ballots(b[1], b[2])
  <1>2. A \subseteq Node /\ B \subseteq Node
    BY DEF Ballots
  <1>3. Majority(Cardinality(A)) /\ Majority(Cardinality(B))
    BY DEF ElectionInv, ElectedByMajority, Ballots
  <1>4. /\ IsFiniteSet(A) /\ IsFiniteSet(B) /\ IsFiniteSet(Node)
        /\ Cardinality(A) \in Nat /\ Cardinality(B) \in Nat
        /\ Cardinality(Node) \in Nat
    BY <1>2, NodeAssumption, FS_Subset, FS_CardinalityType
  <1> HIDE DEF A, B
  <1>5. Cardinality(A) + Cardinality(B) > Cardinality(Node)
    BY <1>3, <1>4 DEF Majority
  <1>6. A \intersect B # {}
    BY <1>2, <1>4, <1>5, FS_MajoritiesIntersect
  <1>7. PICK v \in Node : v \in A /\ v \in B
    BY <1>2, <1>6
  <1>8. <<v, a[2], a[1]>> \in cast /\ <<v, a[2], b[1]>> \in cast
    BY <1>7 DEF A, B, Ballots
  <1>9. a[1] = b[1] \/ <<v, a[2]>> \in discarded
    BY <1>8 DEF ElectionInv, TwiceByDiscard
  <1>10. QED
    BY <1>8, <1>9

\* Two leaders of one term share a voter whose restart discarded its vote
\* (_raft_promote, _raft_foll_init); without such a restart a term has one.
THEOREM RivalLeaders == Spec => []RivalsByDiscard
  BY InvCorrect, Rivals, PTL

\* A second vote of a node in a term comes after a restart that discarded the
\* first (_raft_do_revo, _raft_start_election, _raft_foll_init).
THEOREM SecondVotes == Spec => []TwiceByDiscard
  <1>1. ElectionInv => TwiceByDiscard
    BY DEF ElectionInv
  <1>2. QED
    BY <1>1, InvCorrect, PTL

\* No candidate counts more votes than it was given (_raft_revo_done).
THEOREM TallyCorrect == Spec => []TallySound
  <1>1. ElectionInv => TallySound
    BY TalliedIsSound DEF ElectionInv, TallySound, Ballots
  <1>2. QED
    BY <1>1, InvCorrect, PTL

\* _raft_do_rasp's error paths are never taken between members of a flotilla.
THEOREM RaspExpected == Spec => []RaspHasRequest
  <1>1. ElectionInv => RaspHasRequest
    <2> SUFFICES ASSUME ElectionInv, NEW e \in End, Arrived(e, "rasp")
                 PROVE  con[e] = "live" /\ out[e] # <<>>
      BY DEF RaspHasRequest
    <2>1. /\ Mate(e) \in End /\ wire[Mate(e)] \in Seq(Msg) /\ out[e] \in Seq(Msg)
      BY MateFacts DEF ElectionInv, TypeOK
    <2>2. /\ 1 \in DOMAIN wire[Mate(e)] /\ wire[Mate(e)][1].typ = "rasp"
      BY <2>1, TailFacts DEF Arrived
    <2>3. Awaited(e, wire[Mate(e)][1].ans)
      BY <2>2 DEF ElectionInv, WireAwaited
    <2>4. out[e] # <<>>
      BY <2>3 DEF Awaited
    <2>5. con[e] \in {"wait", "live"}
      BY <2>4 DEF ElectionInv, Quiet
    <2>6. QED
      BY <2>4, <2>5 DEF Arrived, Liv
  <1>2. QED
    BY <1>1, InvCorrect, PTL

\* A term is on disk before another node can learn of it (_raft_note_term,
\* _raft_start_election).
THEOREM DurableTerms == Spec => []ToldIsDurable
  <1>1. ElectionInv => ToldIsDurable
    BY DEF ElectionInv
  <1>2. QED
    BY <1>1, InvCorrect, PTL

\* A follower has no votes, as _raft_note_term asserts.
THEOREM FollowersHaveNoVotes == Spec => []FollowerHasNoVotes
  <1>1. ElectionInv => FollowerHasNoVotes
    BY DEF ElectionInv
  <1>2. QED
    BY <1>1, InvCorrect, PTL

\* The connection a node keeps for a peer (ron_u) is one of its own to that
\* peer that is not closed, whatever connections were dropped or replaced.
THEOREM CurrentConnections == Spec => []CurrentConn
  <1>1. ElectionInv => CurrentConn
    BY DEF ElectionInv
  <1>2. QED
    BY <1>1, InvCorrect, PTL
-----------------------------------------------------------------------------
(***************************************************************************)
(* The election implements its abstract specification.                     *)
(***************************************************************************)

\* A vote for m in term t is a new vote of n, one that n already cast, or one
\* after a restart discarded n's vote of that term.
LEMMA VoteRefines ==
    ASSUME TypeOK, NEW n \in Node, NEW t \in Term, NEW m \in Node,
           cast' = cast \union {<<n, t, m>>}, UNCHANGED <<elected, discarded>>,
           \/ \A b \in cast : b[1] = n /\ b[2] = t => b[3] = m
           \/ <<n, t>> \in discarded
    PROVE  [Promise!Next]_<<cast, elected, discarded>>
  <1>1. CASE <<n, t, m>> \in cast
    BY <1>1
  <1>2. CASE <<n, t, m>> \notin cast
    <2>1. (\A b \in cast : ~ (b[1] = n /\ b[2] = t)) \/ <<n, t>> \in discarded
      <3>1. \A b \in Node \X Term \X Node : b = <<b[1], b[2], b[3]>>
        OBVIOUS
      <3>2. \A b \in cast : b = <<b[1], b[2], b[3]>>
        BY <3>1 DEF TypeOK
      <3>3. QED
        BY <1>2, <3>2
    <2>2. Promise!Vote(n, t, m)
      BY <2>1 DEF Promise!Vote
    <2>3. QED
      BY <2>2 DEF Promise!Next
  <1>3. QED
    BY <1>1, <1>2

\* A promotion is a step Elect of the abstract specification.
LEMMA ElectRefines ==
    ASSUME TypeOK, ElectedByMajority', NEW n \in Node, NEW t \in Term,
           elected' = elected \union {<<n, t>>},
           UNCHANGED <<cast, discarded>>
    PROVE  [Promise!Next]_<<cast, elected, discarded>>
  <1> DEFINE V == Promise!Voters(t, n)
  <1>1. V = {p \in Node : <<p, t, n>> \in cast}
    BY DEF Promise!Voters
  <1>2. Majority(Cardinality(V))
    <2>1. <<n, t>> \in elected' /\ <<n, t>>[1] = n /\ <<n, t>>[2] = t
      OBVIOUS
    <2>2. QED
      BY <1>1, <2>1 DEF ElectedByMajority, Majority
  <1>3. Cardinality(V) \in Nat /\ Cardinality(Node) \in Nat
    BY <1>1, NodeAssumption, FS_Subset, FS_CardinalityType
  <1> HIDE DEF V
  <1>4. 2 * Cardinality(V) > Cardinality(Node)
    BY <1>2, <1>3 DEF Majority
  <1>5. Promise!Elect(n, t)
    <2>1. V \in Quorum
      BY <1>1, <1>4 DEF Quorum
    <2>2. QED
      BY <2>1 DEF Promise!Elect, V
  <1>6. QED
    BY <1>5 DEF Promise!Next

\* Every step is a vote, a discarded vote, an election, or changes none of them.
LEMMA StepRefines ==
    ASSUME ElectionInv, ElectionInv', [Next]_vars
    PROVE  [Promise!Next]_<<cast, elected, discarded>>
  <1> USE DEF ElectionInv
  <1>1. \A n \in Node : typ_e[n] # "none" => tem_w[n] = sis_term[n]
    BY DEF Synced
  <1>2. \A n \in Node : tem_w[n] \in Nat /\ sis_term[n] \in Nat
    BY DEF TypeOK, Term
  <1>3. ASSUME NEW n \in Node, StartElection(n)
        PROVE  [Promise!Next]_<<cast, elected, discarded>>
    <2>1. /\ tem_w[n] + 1 \in Term /\ tem_w[n] = sis_term[n]
          /\ cast' = cast \union {<<n, tem_w[n] + 1, n>>}
          /\ UNCHANGED <<elected, discarded>>
      BY <1>1, <1>2, <1>3, BoundAssumption DEF StartElection, Term
    <2>2. \A b \in cast : ~ (b[1] = n /\ b[2] = tem_w[n] + 1)
      BY <1>2, <2>1, CastTerm
    <2>3. \/ \A b \in cast : b[1] = n /\ b[2] = tem_w[n] + 1 => b[3] = n
          \/ <<n, tem_w[n] + 1>> \in discarded
      BY <2>2
    <2>4. QED
      BY <2>1, <2>3, VoteRefines
  <1>4. ASSUME NEW n \in Node, FollInit(n)
        PROVE  [Promise!Next]_<<cast, elected, discarded>>
    <2>1. PICK v \in ReadVote(n) :
            /\ cast' = IF v = n THEN cast \union {<<n, sis_term[n], n>>} ELSE cast
            /\ discarded' = IF v = sis_vote[n] THEN discarded
                            ELSE discarded \union {<<n, sis_term[n]>>}
      BY <1>4 DEF FollInit
    <2>2. /\ elected' = elected /\ sis_term[n] \in Term
          /\ v = sis_vote[n] \/ (v = None /\ v # n)
      BY <1>4, NoneAssumption DEF FollInit, ReadVote, TypeOK
    <2>3. CASE v = n
      <3>1. \/ \A b \in cast : b[1] = n /\ b[2] = sis_term[n] => b[3] = n
            \/ <<n, sis_term[n]>> \in discarded
        BY <2>2, <2>3 DEF CastOnDisk
      <3>2. QED
        BY <2>1, <2>2, <2>3, <3>1, VoteRefines
    <2>4. CASE v # n /\ v # sis_vote[n]
      <3>1. Promise!Forget(n, sis_term[n])
        BY <2>1, <2>2, <2>4 DEF Promise!Forget
      <3>2. QED
        BY <2>2, <3>1 DEF Promise!Next
    <2>5. CASE v # n /\ v = sis_vote[n]
      BY <2>1, <2>2, <2>5
    <2>6. QED
      BY <2>3, <2>4, <2>5
  <1>5. ASSUME NEW e \in End, DoRevo(e)
        PROVE  [Promise!Next]_<<cast, elected, discarded>>
    <2> DEFINE t == Head(wire[Mate(e)]).tem
               ok == Grant(e.own, e.oth, t)
    <2>1. /\ t \in Term /\ e.own \in Node /\ e.oth \in Node
      BY <1>5, TakenFacts DEF DoRevo, Arrived
    <2>2. /\ UNCHANGED <<elected, discarded>>
          /\ cast' = IF ok THEN cast \union {<<e.own, t, e.oth>>} ELSE cast
      BY <1>5 DEF DoRevo
    <2> HIDE DEF t, ok
    <2>3. CASE ok
      <3>1. \/ \A b \in cast : b[1] = e.own /\ b[2] = t => b[3] = e.oth
            \/ <<e.own, t>> \in discarded
        <4>1. TwiceByDiscard'
          OBVIOUS
        <4>2. <<e.own, t, e.oth>> \in cast' /\ cast \subseteq cast'
          BY <2>2, <2>3
        <4>3. \A b \in cast : b[1] = e.own /\ b[2] = t
                  => b[3] = e.oth \/ <<b[1], b[2]>> \in discarded
          BY <2>2, <4>1, <4>2 DEF TwiceByDiscard
        <4>4. QED
          BY <4>3
      <3>2. QED
        BY <2>1, <2>2, <2>3, <3>1, VoteRefines
    <2>4. CASE ~ ok
      BY <2>2, <2>4
    <2>5. QED
      BY <2>3, <2>4
  <1>6. ASSUME NEW e \in End, DoRasp(e)
        PROVE  [Promise!Next]_<<cast, elected, discarded>>
    <2>1. e.own \in Node /\ tem_w[e.own] \in Term
      BY MateFacts DEF TypeOK
    <2>2. /\ UNCHANGED <<cast, discarded>>
          /\ (\/ elected' = elected
              \/ elected' = elected \union {<<e.own, tem_w[e.own]>>})
      BY <1>6 DEF DoRasp, RaspStray, RaspMatched, auxVars
    <2>3. CASE elected' = elected
      BY <2>2, <2>3
    <2>4. CASE elected' = elected \union {<<e.own, tem_w[e.own]>>}
      BY <2>1, <2>2, <2>4, ElectRefines
    <2>5. QED
      BY <2>2, <2>3, <2>4
  <1>7. ASSUME NEW n \in Node, Heartbeat(n) \/ Crash(n) \/ CrashInElection(n)
        PROVE  UNCHANGED <<cast, elected, discarded>>
    BY <1>7 DEF Heartbeat, Crash, CrashInElection, Halt, auxVars
  <1>8. ASSUME NEW e \in End,
               \/ Connect(e) \/ Listen(e) \/ ConnLost(e) \/ DoApen(e)
               \/ CrashInNote(e) \/ CrashInGrant(e)
        PROVE  UNCHANGED <<cast, elected, discarded>>
    BY <1>8 DEF Connect, Listen, ConnLost, DoApen, CrashInNote, CrashInGrant,
                Halt, auxVars
  <1>9. CASE UNCHANGED vars
    BY <1>9 DEF vars, auxVars
  <1>10. QED
    BY <1>3, <1>4, <1>5, <1>6, <1>7, <1>8, <1>9 DEF Next

\* Raft implements Election: a step of a node is a vote, an election, or
\* invisible.
THEOREM RaftImplementsElection == Spec => ElectionRefined
  <1>1. Init => Promise!Init
    BY DEF Init, Promise!Init
  <1>2. ElectionInv /\ ElectionInv' /\ [Next]_vars
            => [Promise!Next]_<<cast, elected, discarded>>
    BY StepRefines
  <1>3. QED
    BY <1>1, <1>2, InvCorrect, PTL DEF Spec, ElectionRefined, Promise!Spec

-----------------------------------------------------------------------------
(***************************************************************************)
(* Terms only grow.  This needs no more of the invariant than that a       *)
(* message finds a running node.                                           *)
(***************************************************************************)

\* The term of a running node is the one on disk; a stopped node has none.
TermKept ==
    \A n \in Node : tem_w[n] = IF typ_e[n] = "none" THEN 0 ELSE sis_term[n]

TermGrows ==
    \A n \in Node : /\ sis_term'[n] >= sis_term[n]
                    /\ typ_e'[n] # "none" => tem_w'[n] >= tem_w[n]

\* A node takes on the state ty and puts the term t.
LEMMA TermPut ==
    ASSUME TypeOK, TermKept, NEW n \in Node, NEW ty, NEW t \in Term, sis_term[n] <= t,
           typ_e' = [typ_e EXCEPT ![n] = ty],
           sis_term' = [sis_term EXCEPT ![n] = t],
           tem_w' = [tem_w EXCEPT ![n] = IF ty = "none" THEN 0 ELSE t]
    PROVE  TermKept' /\ TermGrows
  <1>1. /\ typ_e \in [Node -> {"none", "foll", "cand", "lead"}]
        /\ tem_w \in [Node -> Term] /\ sis_term \in [Node -> Term] /\ \A x \in Term : x \in Nat
    BY BoundAssumption DEF TypeOK, Term
  <1>2. ASSUME NEW m \in Node, m # n
        PROVE  typ_e'[m] = typ_e[m] /\ sis_term'[m] = sis_term[m] /\ tem_w'[m] = tem_w[m]
    BY <1>1, <1>2
  <1>3. typ_e'[n] = ty /\ sis_term'[n] = t /\ tem_w'[n] = IF ty = "none" THEN 0 ELSE t
    BY <1>1
  <1>4. TermKept'
    BY <1>2, <1>3 DEF TermKept
  <1>5. \A m \in Node : tem_w[m] \in Nat /\ sis_term[m] \in Nat /\ tem_w[m] <= sis_term[m]
    BY <1>1 DEF TermKept
  <1>6. t \in Nat
    BY <1>1
  <1>7. TermGrows
    BY <1>2, <1>3, <1>5, <1>6 DEF TermGrows
  <1>8. QED
    BY <1>4, <1>7

\* A step that changes no term and stops no node.
LEMMA TermStays ==
    ASSUME TypeOK, TermKept, UNCHANGED <<typ_e, tem_w, sis_term>>
    PROVE  TermKept' /\ TermGrows
  <1>1. \A n \in Node : tem_w[n] \in Nat /\ sis_term[n] \in Nat
    BY BoundAssumption DEF TypeOK, Term
  <1>2. QED
    BY <1>1 DEF TermKept, TermGrows

\* A crash leaves a term that is not older.
LEMMA TermHalt ==
    ASSUME TypeOK, TermKept, NEW n \in Node, NEW t \in Term, NEW v, NEW torn,
           Halt(n, t, v, torn), sis_term[n] <= t
    PROVE  TermKept' /\ TermGrows
  BY TermPut DEF Halt

\* _raft_note_term in a running node.
LEMMA TermNote ==
    ASSUME TypeOK, TermKept, NEW n \in Node, NEW t \in Term, typ_e[n] # "none",
           NEW ty, ty # "none",
           typ_e' = [typ_e EXCEPT ![n] = ty],
           tem_w' = [tem_w EXCEPT ![n] = NoteTem(n, t)],
           sis_term' = [sis_term EXCEPT ![n] = IF Newer(n, t) THEN t ELSE @]
    PROVE  TermKept' /\ TermGrows
  <1> DEFINE s == IF Newer(n, t) THEN t ELSE sis_term[n]
  <1>1. sis_term \in [Node -> Term] /\ tem_w[n] = sis_term[n] /\ \A x \in Term : x \in Nat
    BY BoundAssumption DEF TypeOK, TermKept, Term
  <1>2. s \in Term /\ sis_term[n] <= s /\ NoteTem(n, t) = s
    BY <1>1 DEF NoteTem, Newer
  <1>3. sis_term' = [sis_term EXCEPT ![n] = s]
    OBVIOUS
  <1> HIDE DEF s
  <1>4. QED
    BY <1>2, <1>3, TermPut

\* One step of any kind.
LEMMA TermStep ==
    ASSUME TypeOK, DownIsClosed, TermKept, [Next]_vars
    PROVE  TermKept' /\ TermGrows
  <1>1. /\ sis_term \in [Node -> Term] /\ tem_w \in [Node -> Term] /\ \A x \in Term : x \in Nat
        /\ \A n \in Node : typ_e[n] # "none" => tem_w[n] = sis_term[n]
    BY BoundAssumption DEF TypeOK, Term, TermKept
  <1>2. ASSUME NEW n \in Node, StartElection(n)
        PROVE  TermKept' /\ TermGrows
    <2>1. tem_w[n] + 1 \in Term /\ tem_w[n] = sis_term[n] /\ sis_term[n] <= tem_w[n] + 1
      BY <1>1, <1>2, BoundAssumption DEF StartElection, Term
    <2>2. QED
      BY <1>2, <2>1, TermPut DEF StartElection
  <1>3. ASSUME NEW n \in Node, Heartbeat(n)
        PROVE  TermKept' /\ TermGrows
    BY <1>3, TermStays DEF Heartbeat, nodeVars, sistVars
  <1>4. ASSUME NEW n \in Node, Crash(n)
        PROVE  TermKept' /\ TermGrows
    <2>1. sis_term[n] \in Term /\ sis_term[n] <= sis_term[n]
      BY <1>1
    <2>2. QED
      BY <1>4, <2>1, TermHalt DEF Crash
  <1>5. ASSUME NEW n \in Node, CrashInElection(n)
        PROVE  TermKept' /\ TermGrows
    <2>1. /\ tem_w[n] + 1 \in Term /\ sis_term[n] <= tem_w[n] + 1
          /\ sis_term[n] \in Term /\ sis_term[n] <= sis_term[n]
      BY <1>1, <1>5, BoundAssumption DEF CrashInElection, Term
    <2>2. QED
      BY <1>5, <2>1, TermHalt DEF CrashInElection
  <1>6. ASSUME NEW n \in Node, FollInit(n)
        PROVE  TermKept' /\ TermGrows
    <2>1. PICK ty : ty # "none" /\ typ_e' = [typ_e EXCEPT ![n] = ty]
      BY <1>6 DEF FollInit
    <2>2. sis_term' = [sis_term EXCEPT ![n] = sis_term[n]]
      BY <1>1, <1>6 DEF FollInit, sistVars
    <2>3. sis_term[n] \in Term /\ sis_term[n] <= sis_term[n]
      BY <1>1
    <2>4. tem_w' = [tem_w EXCEPT ![n] = IF ty = "none" THEN 0 ELSE sis_term[n]]
      BY <1>6, <2>1 DEF FollInit
    <2>5. QED
      BY <2>1, <2>2, <2>3, <2>4, TermPut
  <1>7. ASSUME NEW e \in End, Connect(e) \/ Listen(e) \/ ConnLost(e)
        PROVE  TermKept' /\ TermGrows
    BY <1>7, TermStays DEF Connect, Listen, ConnLost, nodeVars, sistVars
  <1>8. ASSUME NEW e \in End, Liv(e), wire[Mate(e)] # <<>>
        PROVE  /\ e.own \in Node /\ typ_e[e.own] # "none"
               /\ Head(wire[Mate(e)]).tem \in Term
    BY <1>8, MateFacts, TakenFacts DEF DownIsClosed, Liv
  <1>9. ASSUME NEW e \in End, DoApen(e) \/ DoRevo(e)
        PROVE  TermKept' /\ TermGrows
    <2> DEFINE n == e.own
               t == Head(wire[Mate(e)]).tem
    <2>1. n \in Node /\ typ_e[n] # "none" /\ t \in Term
      BY <1>8, <1>9 DEF DoApen, DoRevo, Arrived
    <2>2. /\ typ_e' = [typ_e EXCEPT ![n] = NoteTyp(n, t)]
          /\ tem_w' = [tem_w EXCEPT ![n] = NoteTem(n, t)]
          /\ sis_term' = [sis_term EXCEPT ![n] = IF Newer(n, t) THEN t ELSE @]
      BY <1>9 DEF DoApen, DoRevo
    <2>3. NoteTyp(n, t) # "none"
      BY <2>1 DEF NoteTyp
    <2> HIDE DEF n, t
    <2>4. QED
      BY <2>1, <2>2, <2>3, TermNote
  <1>10. ASSUME NEW e \in End, DoRasp(e)
         PROVE  TermKept' /\ TermGrows
    <2>1. CASE RaspStray(e)
      BY <2>1, TermStays DEF RaspStray, nodeVars, sistVars
    <2>2. CASE RaspMatched(e)
      <3> DEFINE n == e.own
                 r == Head(wire[Mate(e)])
                 ty == IF Newer(n, r.tem) THEN "foll"
                       ELSE IF Promoted(e, r.suc) THEN "lead" ELSE typ_e[n]
      <3>1. n \in Node /\ typ_e[n] # "none" /\ r.tem \in Term
        BY <1>8, <1>10 DEF DoRasp, Arrived
      <3>2. /\ typ_e' = [typ_e EXCEPT ![n] = ty]
            /\ tem_w' = [tem_w EXCEPT ![n] = NoteTem(n, r.tem)]
            /\ sis_term' = [sis_term EXCEPT ![n] = IF Newer(n, r.tem) THEN r.tem ELSE @]
        BY <2>2 DEF RaspMatched
      <3>3. ty # "none"
        BY <3>1
      <3> HIDE DEF n, r, ty
      <3>4. QED
        BY <3>1, <3>2, <3>3, TermNote
    <2>3. QED
      BY <1>10, <2>1, <2>2 DEF DoRasp
  <1>11. ASSUME NEW e \in End, CrashInNote(e)
         PROVE  TermKept' /\ TermGrows
    <2> DEFINE n == e.own
               t == Head(wire[Mate(e)]).tem
    <2>1. n \in Node /\ typ_e[n] # "none" /\ t \in Term /\ Newer(n, t)
      BY <1>8, <1>11 DEF CrashInNote
    <2>2. /\ sis_term[n] \in Term /\ sis_term[n] <= sis_term[n] /\ sis_term[n] <= t
      BY <1>1, <2>1 DEF Newer
    <2>3. \/ \E v, torn : Halt(n, sis_term[n], v, torn)
          \/ \E v, torn : Halt(n, t, v, torn)
      BY <1>11 DEF CrashInNote
    <2> HIDE DEF n, t
    <2>4. QED
      BY <2>1, <2>2, <2>3, TermHalt
  <1>12. ASSUME NEW e \in End, CrashInGrant(e)
         PROVE  TermKept' /\ TermGrows
    <2> DEFINE n == e.own
               t == Head(wire[Mate(e)]).tem
    <2>1. n \in Node /\ typ_e[n] # "none" /\ t \in Term
      BY <1>8, <1>12 DEF CrashInGrant, Arrived
    <2>2. NoteTem(n, t) \in Term /\ sis_term[n] <= NoteTem(n, t)
      BY <1>1, <2>1 DEF Newer, NoteTem
    <2>3. \E v, torn : Halt(n, NoteTem(n, t), v, torn)
      BY <1>12 DEF CrashInGrant
    <2> HIDE DEF n, t
    <2>4. QED
      BY <2>1, <2>2, <2>3, TermHalt
  <1>13. CASE UNCHANGED vars
    BY <1>13, TermStays DEF vars, nodeVars, sistVars
  <1>14. QED
    BY <1>2, <1>3, <1>4, <1>5, <1>6, <1>7, <1>9, <1>10, <1>11, <1>12, <1>13 DEF Next

\* An end is opened by a running node, or to one.
LEMMA DownStep ==
    ASSUME TypeOK, DownIsClosed, [Next]_vars
    PROVE  DownIsClosed'
  <1>1. /\ typ_e \in [Node -> {"none", "foll", "cand", "lead"}]
        /\ \A e \in End : e.own \in Node /\ Mate(e) \in End /\ Mate(e).own = e.oth
        /\ con \in [End -> {"none", "wait", "open", "unk", "live", "dead"}]
    BY MateFacts DEF TypeOK
  <1>2. ASSUME \A n \in Node : typ_e'[n] = "none" => typ_e[n] = "none",
               \A f \in End : \/ con'[f] \in {con[f], "dead"}
                              \/ typ_e[f.own] # "none"
        PROVE  DownIsClosed'
    BY <1>1, <1>2 DEF DownIsClosed
  <1>3. ASSUME NEW n \in Node, StartElection(n) \/ Heartbeat(n)
        PROVE  DownIsClosed'
    <2>1. typ_e[n] # "none" /\ \A m \in Node : typ_e'[m] = "none" => typ_e[m] = "none"
      BY <1>1, <1>3 DEF StartElection, Heartbeat, nodeVars
    <2>2. \A f \in End : con'[f] = con[f] \/ f.own = n
      BY <1>3 DEF StartElection, Heartbeat, ConnAll
    <2>3. QED
      BY <1>2, <2>1, <2>2
  <1>4. ASSUME NEW n \in Node, FollInit(n)
        PROVE  DownIsClosed'
    <2>1. \A m \in Node : typ_e'[m] = "none" => typ_e[m] = "none"
      BY <1>1, <1>4 DEF FollInit
    <2>2. con' = con
      BY <1>4 DEF FollInit, connVars
    <2>3. QED
      BY <1>2, <2>1, <2>2
  <1>5. ASSUME NEW n \in Node, NEW t, NEW v, NEW torn, Halt(n, t, v, torn)
        PROVE  DownIsClosed'
    <2>1. \A m \in Node : m # n => typ_e'[m] = typ_e[m]
      BY <1>1, <1>5 DEF Halt
    <2>2. ASSUME NEW f \in End
          PROVE  IF f.own = n THEN con'[f] \in {"none", "dead"} ELSE con'[f] = con[f]
      BY <1>1, <1>5 DEF Halt, Close
    <2>3. QED
      BY <1>1, <2>1, <2>2 DEF DownIsClosed
  <1>6. ASSUME NEW e \in End, Connect(e) \/ Listen(e) \/ ConnLost(e)
        PROVE  DownIsClosed'
    <2>1. \A m \in Node : typ_e'[m] = typ_e[m]
      BY <1>6 DEF Connect, Listen, ConnLost, nodeVars
    <2>2. CASE Connect(e)
      <3>1. typ_e[e.own] # "none" /\ typ_e[Mate(e).own] # "none"
        BY <1>1, <2>2 DEF Connect, DownIsClosed
      <3>2. \A f \in End : con'[f] = con[f] \/ f = e \/ f = Mate(e)
        BY <1>1, <2>2 DEF Connect
      <3>3. QED
        BY <1>2, <2>1, <3>1, <3>2
    <2>3. CASE Listen(e)
      <3>1. typ_e[e.own] # "none"
        BY <1>1, <2>3 DEF Listen, DownIsClosed
      <3>2. \A f \in End : con'[f] = con[f] \/ f = e
        BY <1>1, <2>3 DEF Listen
      <3>3. QED
        BY <1>2, <2>1, <3>1, <3>2
    <2>4. CASE ConnLost(e)
      <3>1. \A f \in End : con'[f] \in {con[f], "dead"}
        BY <2>4 DEF ConnLost, Close
      <3>2. QED
        BY <1>2, <2>1, <3>1
    <2>5. QED
      BY <1>6, <2>2, <2>3, <2>4
  <1>7. ASSUME NEW e \in End, DoApen(e) \/ DoRevo(e) \/ DoRasp(e)
        PROVE  DownIsClosed'
    <2>1. typ_e[e.own] # "none"
      BY <1>7 DEF DoApen, DoRevo, DoRasp, Arrived, Liv, DownIsClosed
    <2>2. \A m \in Node : typ_e'[m] = "none" => typ_e[m] = "none"
      BY <1>1, <1>7, <2>1 DEF DoApen, DoRevo, DoRasp, RaspStray, RaspMatched, NoteTyp, nodeVars
    <2>3. \A f \in End : con'[f] \in {con[f], "dead"} \/ f = e
      BY <1>7 DEF DoApen, DoRevo, DoRasp, RaspStray, RaspMatched, RestName, Close
    <2>4. QED
      BY <1>2, <2>1, <2>2, <2>3
  <1>8. CASE UNCHANGED vars
    BY <1>8 DEF DownIsClosed, vars, nodeVars, connVars
  <1>9. ASSUME NEW n \in Node, Crash(n) \/ CrashInElection(n)
        PROVE  DownIsClosed'
    BY <1>5, <1>9 DEF Crash, CrashInElection
  <1>10. ASSUME NEW e \in End, CrashInNote(e) \/ CrashInGrant(e)
         PROVE  DownIsClosed'
    BY <1>1, <1>5, <1>10 DEF CrashInNote, CrashInGrant
  <1>11. QED
    BY <1>3, <1>4, <1>6, <1>7, <1>8, <1>9, <1>10 DEF Next

\* The term of a running node never goes back, and a restart takes up the term
\* of the crash or a newer one, whatever becomes of the vote file
\* (_raft_note_term, _raft_start_election, _raft_foll_init).
THEOREM TermsOnlyGrow == Spec => TermNeverGoesBack
  <1> DEFINE Inv == TypeOK /\ DownIsClosed /\ TermKept
  <1>1. Init => Inv
    <2>1. Init => DownIsClosed /\ TermKept
      BY MateFacts DEF Init, DownIsClosed, TermKept
    <2>2. QED
      BY <2>1, TypeInit
  <1>2. Inv /\ [Next]_vars => Inv'
    BY TypeStep, DownStep, TermStep
  <1>3. Inv /\ [Next]_vars => [TermGrows]_vars
    BY TermStep
  <1> HIDE DEF Inv
  <1>4. Spec => [][TermGrows]_vars
    BY <1>1, <1>2, <1>3, PTL DEF Spec
  <1>5. QED
    BY <1>4 DEF TermNeverGoesBack, TermGrows
=============================================================================

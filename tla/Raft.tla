-------------------------------- MODULE Raft --------------------------------
(***************************************************************************)
(* Leader election of the vere event log (v/raft.c), with the persistence  *)
(* it rests on (u2_sist_put, u2_sist_nil in v/sist.c) and the TCP          *)
(* connections that carry it.  A node is one vere process started with a   *)
(* peer list (-r); libuv runs its handlers one at a time, so one handler   *)
(* is one action, and what can interleave are the handlers of different    *)
(* nodes, lost connections, and crashes, also between the two writes of a  *)
(* handler.                                                                *)
(*                                                                         *)
(* Not here: log replication, which the code leaves as TODO (an            *)
(* AppendEntries carries no entry and is never answered; ent_d and lat_w   *)
(* stay 0, so the log comparison in _raft_do_revo is always true), the     *)
(* byte format of messages, and the randomized length of a timeout: a      *)
(* timer may fire at any moment.                                           *)
(***************************************************************************)
EXTENDS Naturals, FiniteSets, Sequences

CONSTANTS
    Node,       \* the processes of the flotilla, by name (str_c)
    None,       \* no vote (vog_c = 0), no connection (ron_u = 0)
    MaxTerm,    \* bound on terms
    MaxConn,    \* bound on connections a node opens to one peer
    MaxOut,     \* bound on requests outstanding on a connection
    MaxFault    \* bound on crashes and connections the network breaks

ASSUME NodeAssumption == IsFiniteSet(Node) /\ Cardinality(Node) > 1
ASSUME NoneAssumption == None \notin Node
ASSUME BoundAssumption == /\ MaxTerm \in Nat /\ MaxConn \in Nat
                          /\ MaxOut \in Nat /\ MaxFault \in Nat

\* An end of a TCP connection, owned by one of its two nodes (u2_rcon): "ini"
\* opened it in _raft_conn_all, "acc" accepted it in _raft_listen_cb.
End == {e \in [own : Node, oth : Node, side : {"ini", "acc"},
               num : 1 .. MaxConn] : e.own # e.oth}

\* The other end of the same connection.
Mate(e) == [own |-> e.oth, oth |-> e.own,
            side |-> IF e.side = "ini" THEN "acc" ELSE "ini", num |-> e.num]

Term == 0 .. MaxTerm

\* A message (u2_rmsg).  ans is auxiliary: the term of the request a response
\* answers, which is not on the wire and which no handler reads.
Msg == [typ : {"revo", "apen", "rasp"}, tem : Term, suc : BOOLEAN,
        ans : Term]

Revo(t) == [typ |-> "revo", tem |-> t, suc |-> FALSE, ans |-> 0]
Apen(t) == [typ |-> "apen", tem |-> t, suc |-> FALSE, ans |-> 0]
Rasp(t, ok, a) == [typ |-> "rasp", tem |-> t, suc |-> ok, ans |-> a]

VARIABLES
    typ_e,      \* typ_e[n]: "none" (not running), "foll", "cand" or "lead"
    tem_w,      \* tem_w[n]: current term
    vog_c,      \* vog_c[n]: the node it voted for, or None
    vot_w,      \* vot_w[n]: votes counted in this election
    vog,        \* vog[n]: the peers whose vog flag is u2_yes
    ron_u,      \* ron_u[n][m]: n's current connection to m, or None
    sis_term,   \* sis_term[n]: content of the file _term, 0 when absent
    sis_vote,   \* sis_vote[n]: content of the file _vote, None when absent
    sis_torn,   \* sis_torn[n]: a put was cut after its truncation
    con,        \* con[e]: "none", "wait" (connecting), "open" (in the listen
                \* backlog), "unk" (live, no name yet), "live" or "dead"
    out,        \* out[e]: requests of e's owner not yet answered (out_u)
    wire,       \* wire[e]: bytes e's owner sent and the mate has not read
    fault,      \* crashes and connections broken so far
    cast,       \* auxiliary: <<n, t, m>> when n voted for m in term t
    elected,    \* auxiliary: <<n, t>> when n became leader in term t
    discarded   \* auxiliary: <<n, t>> when n, restarted in term t, took the
                \* vote in its file for that of an unknown node

nodeVars == <<typ_e, tem_w, vog_c, vot_w, vog>>
sistVars == <<sis_term, sis_vote, sis_torn>>
connVars == <<ron_u, con, out, wire>>
auxVars  == <<cast, elected, discarded>>
vars == <<nodeVars, sistVars, connVars, fault, auxVars>>

Peers(n) == Node \ {n}

Init ==
    /\ typ_e = [n \in Node |-> "foll"]
    /\ tem_w = [n \in Node |-> 0]
    /\ vog_c = [n \in Node |-> None]
    /\ vot_w = [n \in Node |-> 0]
    /\ vog = [n \in Node |-> Peers(n)]
    /\ ron_u = [n \in Node |-> [m \in Node |-> None]]
    /\ sis_term = [n \in Node |-> 0]
    /\ sis_vote = [n \in Node |-> None]
    /\ sis_torn = [n \in Node |-> FALSE]
    /\ con = [e \in End |-> "none"]
    /\ out = [e \in End |-> <<>>]
    /\ wire = [e \in End |-> <<>>]
    /\ fault = 0
    /\ cast = {}
    /\ elected = {}
    /\ discarded = {}
-----------------------------------------------------------------------------
(***************************************************************************)
(* Connections.                                                            *)
(***************************************************************************)

\* ron_u->liv
Liv(e) == con[e] \in {"unk", "live"}

\* A write whose buffer is not emptied afterwards is sent again.
PostTwice(e, m) == IF con[Mate(e)] = "dead" THEN wire[e]
                   ELSE wire[e] \o <<m, m>>

\* The bytes of e, with m added; a closed mate never reads them.
Post(e, m) == IF con[Mate(e)] = "dead" THEN wire[e] ELSE Append(wire[e], m)

\* w without what was on its way to the ends S, which are being closed.
Drain(w, S) == [f \in End |-> IF Mate(f) \in S THEN <<>> ELSE w[f]]

\* The connection _raft_conn_all uses for the peer m: the current one when it
\* is live, else a new one, even when the current one is still connecting.
Linked(n, m) == ron_u[n][m] # None /\ Liv(ron_u[n][m])

Unused(n, m) == {e \in End : /\ e.own = n /\ e.oth = m /\ e.side = "ini"
                             /\ con[e] = "none"}

Fresh(n, m) == CHOOSE e \in Unused(n, m) : TRUE

Target(n, m) == IF Linked(n, m) THEN ron_u[n][m] ELSE Fresh(n, m)

\* _raft_conn_all with _raft_send_revo or _raft_send_beat as con_f: the
\* request req is queued and written on a connection to every peer.
ConnAll(n, req) ==
    LET hit(f) == f.own = n /\ f = Target(n, f.oth) IN
    /\ \A m \in Peers(n) : Linked(n, m) \/ Unused(n, m) # {}
    /\ \A m \in Peers(n) : Len(out[Target(n, m)]) < MaxOut
    /\ ron_u' = [ron_u EXCEPT ![n] =
                    [m \in Node |-> IF m = n THEN None ELSE Target(n, m)]]
    /\ con' = [f \in End |-> IF hit(f) /\ con[f] = "none" THEN "wait"
                             ELSE con[f]]
    /\ out' = [f \in End |-> IF hit(f) THEN Append(out[f], req) ELSE out[f]]
    /\ wire' = [f \in End |-> IF hit(f) THEN Post(f, req) ELSE wire[f]]

\* _raft_connect_cb with success: bytes written so far go out.
Connect(e) ==
    /\ con[e] = "wait"
    /\ typ_e[e.oth] # "none"
    /\ con' = [con EXCEPT ![e] = "live", ![Mate(e)] = "open"]
    /\ UNCHANGED <<nodeVars, sistVars, ron_u, out, wire, fault, auxVars>>

\* _raft_listen_cb: the accepted connection waits in run_u for its name.
Listen(e) ==
    /\ con[e] = "open"
    /\ con' = [con EXCEPT ![e] = "unk"]
    /\ UNCHANGED <<nodeVars, sistVars, ron_u, out, wire, fault, auxVars>>

\* _raft_conn_free without clearing nam_u->ron_u.
UnlinkNone(n, S) == ron_u[n]

\* ron_u after the ends S of n were freed (_raft_conn_free).
Unlink(n, S) == [m \in Node |-> IF ron_u[n][m] \in S THEN None
                                ELSE ron_u[n][m]]

\* The ends S of n are closed and freed; the rest of wires w stays.
Close(n, S, w) ==
    /\ con' = [f \in End |-> IF f \in S THEN "dead" ELSE con[f]]
    /\ out' = [f \in End |-> IF f \in S THEN <<>> ELSE out[f]]
    /\ wire' = Drain(w, S)
    /\ ron_u' = [ron_u EXCEPT ![n] = Unlink(n, S)]

\* A connection is lost: connecting, looking up the address, reading or
\* writing reported an error or the end of the stream (the mate is closed).
ConnLost(e) ==
    /\ con[e] \in {"wait", "unk", "live"}
    /\ fault' = IF con[Mate(e)] = "dead" THEN fault ELSE fault + 1
    /\ fault' <= MaxFault
    /\ Close(e.own, {e}, [wire EXCEPT ![e] = IF con[e] = "wait" THEN <<>>
                                             ELSE @])
    /\ UNCHANGED <<nodeVars, sistVars, auxVars>>
-----------------------------------------------------------------------------
(***************************************************************************)
(* Terms and votes.                                                        *)
(***************************************************************************)

\* _raft_note_term(n, t) sees a newer term, and leaves candidacy or
\* leadership through _raft_demote.
Newer(n, t) == tem_w[n] < t
Demoted(n, t) == Newer(n, t) /\ typ_e[n] # "foll"

\* What _raft_note_term(n, t) leaves in memory and in the files.  A follower
\* keeps the vote it cast in an earlier term.
NoteTemNext(n, t) == IF Newer(n, t) THEN t + 1 ELSE tem_w[n]
NoteTemAny(n, t) == t
NoteTem(n, t) == IF Newer(n, t) THEN t ELSE tem_w[n]
NoteTyp(n, t) == IF Newer(n, t) THEN "foll" ELSE typ_e[n]
NoteVog(n, t) == IF Demoted(n, t) THEN None ELSE vog_c[n]
NoteVotKept(n, t) == vot_w[n]
NoteVot(n, t) == IF Demoted(n, t) THEN 0 ELSE vot_w[n]
NoteSis(n, t) == IF Demoted(n, t) THEN None ELSE sis_vote[n]

\* More than half of the population (vot_w > pop_w / 2, in C integers).
MajorityHalf(k) == k >= Cardinality(Node) \div 2
Majority(k) == k > Cardinality(Node) \div 2

\* _raft_time_cb in a follower or candidate: _raft_start_election.
StartElection(n) ==
    /\ typ_e[n] \in {"foll", "cand"}
    /\ tem_w[n] < MaxTerm
    /\ typ_e' = [typ_e EXCEPT ![n] = "cand"]
    /\ tem_w' = [tem_w EXCEPT ![n] = @ + 1]
    /\ sis_term' = [sis_term EXCEPT ![n] = tem_w[n] + 1]
    /\ vog' = [vog EXCEPT ![n] = {}]
    /\ vot_w' = [vot_w EXCEPT ![n] = 1]
    /\ vog_c' = [vog_c EXCEPT ![n] = n]
    /\ sis_vote' = [sis_vote EXCEPT ![n] = n]
    /\ cast' = cast \union {<<n, tem_w[n] + 1, n>>}
    /\ ConnAll(n, Revo(tem_w[n] + 1))
    /\ UNCHANGED <<sis_torn, fault, elected, discarded>>

\* _raft_time_cb in a leader: _raft_heartbeat.
Heartbeat(n) ==
    /\ typ_e[n] = "lead"
    /\ ConnAll(n, Apen(tem_w[n]))
    /\ UNCHANGED <<nodeVars, sistVars, fault, auxVars>>

\* The next message for the end e.
Arrived(e, typ) ==
    /\ Liv(e)
    /\ wire[Mate(e)] # <<>>
    /\ Head(wire[Mate(e)]).typ = typ

Taken(e) == [wire EXCEPT ![Mate(e)] = Tail(@)]

\* _raft_rest_name: a request names the connection it came on; the current
\* connection to that peer is killed if it is live, and replaced.
Supplanted(e) == IF con[e] = "unk" /\ Linked(e.own, e.oth)
                 THEN {ron_u[e.own][e.oth]} ELSE {}

RestName(e, w) ==
    /\ con' = [f \in End |-> IF f = e THEN "live"
                             ELSE IF f \in Supplanted(e) THEN "dead"
                             ELSE con[f]]
    /\ out' = [f \in End |-> IF f \in Supplanted(e) THEN <<>> ELSE out[f]]
    /\ wire' = Drain(w, Supplanted(e))
    /\ ron_u' = IF con[e] = "unk" THEN [ron_u EXCEPT ![e.own][e.oth] = e]
                ELSE ron_u

\* _raft_do_apen: a request's common effects (_raft_do_rest) and no answer.
DoApen(e) ==
    LET n == e.own
        t == Head(wire[Mate(e)]).tem IN
    /\ Arrived(e, "apen")
    /\ RestName(e, Taken(e))
    /\ typ_e' = [typ_e EXCEPT ![n] = NoteTyp(n, t)]
    /\ tem_w' = [tem_w EXCEPT ![n] = NoteTem(n, t)]
    /\ vog_c' = [vog_c EXCEPT ![n] = NoteVog(n, t)]
    /\ vot_w' = [vot_w EXCEPT ![n] = NoteVot(n, t)]
    /\ sis_term' = [sis_term EXCEPT ![n] = IF Newer(n, t) THEN t ELSE @]
    /\ sis_vote' = [sis_vote EXCEPT ![n] = NoteSis(n, t)]
    /\ UNCHANGED <<vog, sis_torn, fault, auxVars>>

\* _raft_do_revo without looking at vog_c.
GrantAnyVote(n, m, t) == t >= NoteTem(n, t)

\* The condition of _raft_do_revo, after _raft_note_term.
Grant(n, m, t) == t >= NoteTem(n, t) /\ NoteVog(n, t) \in {None, m}

\* _raft_do_revo: a request's common effects, then the vote, on disk before
\* the answer is written.
DoRevo(e) ==
    LET n == e.own
        m == e.oth
        t == Head(wire[Mate(e)]).tem
        ok == Grant(n, m, t)
        ans == Rasp(NoteTem(n, t), ok, t) IN
    /\ Arrived(e, "revo")
    /\ RestName(e, [Taken(e) EXCEPT ![e] = Post(e, ans)])
    /\ typ_e' = [typ_e EXCEPT ![n] = NoteTyp(n, t)]
    /\ tem_w' = [tem_w EXCEPT ![n] = NoteTem(n, t)]
    /\ vot_w' = [vot_w EXCEPT ![n] = NoteVot(n, t)]
    /\ vog_c' = [vog_c EXCEPT ![n] = IF ok THEN m ELSE NoteVog(n, t)]
    /\ sis_term' = [sis_term EXCEPT ![n] = IF Newer(n, t) THEN t ELSE @]
    /\ sis_vote' = [sis_vote EXCEPT ![n] = IF ok THEN m ELSE NoteSis(n, t)]
    /\ cast' = IF ok THEN cast \union {<<n, t, m>>} ELSE cast
    /\ UNCHANGED <<vog, sis_torn, fault, elected, discarded>>

\* _raft_do_rasp on a connection without a name or without a request: the
\* connection is killed.
RaspStray(e) ==
    /\ Close(e.own, {e}, Taken(e))
    /\ UNCHANGED <<nodeVars, sistVars, fault, auxVars>>

\* _raft_revo_done without comparing terms.
CountsAnyTerm(e, suc) == /\ Head(out[e]).typ = "revo"
                         /\ suc
                         /\ e.oth \notin vog[e.own]

\* _raft_revo_done counts the answer: the oldest request is a RequestVote of
\* this term, and the peer was not counted yet.
Counts(e, suc) ==
    /\ Head(out[e]).typ = "revo"
    /\ suc
    /\ Head(out[e]).tem = tem_w[e.own]
    /\ e.oth \notin vog[e.own]

Tally(e, suc) == vot_w[e.own] + (IF Counts(e, suc) THEN 1 ELSE 0)

\* _raft_promote: a second promotion is ignored.
Promoted(e, suc) ==
    /\ Head(out[e]).typ = "revo"
    /\ Majority(Tally(e, suc))

\* _raft_do_rasp: the response belongs to the oldest outstanding request, and
\* its term is noted last.
RaspMatched(e) ==
    LET n == e.own
        r == Head(wire[Mate(e)])
        won == Promoted(e, r.suc) IN
    /\ vog' = [vog EXCEPT ![n] = IF Counts(e, r.suc) THEN @ \union {e.oth}
                                 ELSE @]
    /\ vot_w' = [vot_w EXCEPT ![n] = IF Demoted(n, r.tem) THEN 0
                                     ELSE Tally(e, r.suc)]
    /\ typ_e' = [typ_e EXCEPT ![n] = IF Newer(n, r.tem) THEN "foll"
                                     ELSE IF won THEN "lead" ELSE @]
    /\ tem_w' = [tem_w EXCEPT ![n] = NoteTem(n, r.tem)]
    /\ vog_c' = [vog_c EXCEPT ![n] = NoteVog(n, r.tem)]
    /\ sis_term' = [sis_term EXCEPT ![n] = IF Newer(n, r.tem) THEN r.tem
                                           ELSE @]
    /\ sis_vote' = [sis_vote EXCEPT ![n] = NoteSis(n, r.tem)]
    /\ out' = [out EXCEPT ![e] = Tail(@)]
    /\ wire' = Taken(e)
    /\ elected' = IF won THEN elected \union {<<n, tem_w[n]>>} ELSE elected
    /\ UNCHANGED <<con, ron_u, sis_torn, fault, cast, discarded>>

DoRasp(e) ==
    /\ Arrived(e, "rasp")
    /\ IF con[e] = "unk" \/ out[e] = <<>> THEN RaspStray(e)
       ELSE RaspMatched(e)
-----------------------------------------------------------------------------
(***************************************************************************)
(* Crashes and restarts.  A crash loses a node's memory and connections.   *)
(* The files keep what was put: u2_sist_put truncates the file and then    *)
(* writes it, so a crash between the two leaves it empty, and a crash      *)
(* between two puts of a handler leaves only the first.                    *)
(***************************************************************************)

\* n stops with the files holding term t and vote v, torn or not.
Halt(n, t, v, torn) ==
    LET S == {f \in End : f.own = n /\ con[f] # "none"} IN
    /\ typ_e[n] # "none"
    /\ fault < MaxFault
    /\ fault' = fault + 1
    /\ typ_e' = [typ_e EXCEPT ![n] = "none"]
    /\ tem_w' = [tem_w EXCEPT ![n] = 0]
    /\ vog_c' = [vog_c EXCEPT ![n] = None]
    /\ vot_w' = [vot_w EXCEPT ![n] = 0]
    /\ vog' = [vog EXCEPT ![n] = {}]
    /\ sis_term' = [sis_term EXCEPT ![n] = t]
    /\ sis_vote' = [sis_vote EXCEPT ![n] = v]
    /\ sis_torn' = [sis_torn EXCEPT ![n] = torn]
    /\ Close(n, S, [f \in End |-> IF f \in S /\ con[f] = "wait" THEN <<>>
                                  ELSE wire[f]])
    /\ UNCHANGED auxVars

\* Between two handlers.
Crash(n) == Halt(n, sis_term[n], sis_vote[n], sis_torn[n])

\* Inside _raft_start_election: in a put, or between the puts of the new term
\* and of the vote.
CrashInElection(n) ==
    /\ typ_e[n] \in {"foll", "cand"}
    /\ tem_w[n] < MaxTerm
    /\ \/ Halt(n, sis_term[n], sis_vote[n], TRUE)
       \/ Halt(n, tem_w[n] + 1, sis_vote[n], FALSE)

\* Inside the handler of a message with a newer term: in the put of the term,
\* before _raft_demote removes the vote, or before the vote is put.
CrashInNote(e) ==
    LET n == e.own
        t == Head(wire[Mate(e)]).tem IN
    /\ Liv(e)
    /\ wire[Mate(e)] # <<>>
    /\ Newer(n, t)
    /\ \/ Halt(n, sis_term[n], sis_vote[n], TRUE)
       \/ Halt(n, t, sis_vote[n], FALSE)
       \/ Halt(n, t, NoteSis(n, t), FALSE)

\* Inside the put of a vote that is being granted.
CrashInGrant(e) ==
    LET n == e.own
        t == Head(wire[Mate(e)]).tem IN
    /\ Arrived(e, "revo")
    /\ Grant(n, e.oth, t)
    /\ Halt(n, NoteTem(n, t), NoteSis(n, t), TRUE)

\* What _raft_foll_init makes of the vote file.  The name is written without
\* its terminator and read into a buffer of exactly its size, so the strcmp
\* that looks for the name runs into whatever byte follows the buffer: the
\* name is found when that byte is 0, and else no name matches (no node's
\* name begins another's) and the vote is discarded.
ReadVote(n) == {sis_vote[n], None}

\* _raft_foll_init; it asserts that neither file is empty.  The peers' vog
\* flags are calloc'ed, and 0 is u2_yes.
FollInit(n) ==
    /\ typ_e[n] = "none"
    /\ ~ sis_torn[n]
    /\ \E v \in ReadVote(n) :
          /\ typ_e' = [typ_e EXCEPT ![n] = IF v = n THEN "cand" ELSE "foll"]
          /\ vot_w' = [vot_w EXCEPT ![n] = IF v = n THEN 1 ELSE 0]
          /\ vog_c' = [vog_c EXCEPT ![n] = v]
          /\ cast' = IF v = n THEN cast \union {<<n, sis_term[n], n>>}
                     ELSE cast
          /\ discarded' = IF v = sis_vote[n] THEN discarded
                          ELSE discarded \union {<<n, sis_term[n]>>}
    /\ tem_w' = [tem_w EXCEPT ![n] = sis_term[n]]
    /\ vog' = [vog EXCEPT ![n] = Peers(n)]
    /\ UNCHANGED <<sistVars, connVars, fault, elected>>

Next ==
    \/ \E n \in Node : \/ StartElection(n) \/ Heartbeat(n)
                       \/ Crash(n) \/ CrashInElection(n) \/ FollInit(n)
    \/ \E e \in End : \/ Connect(e) \/ Listen(e) \/ ConnLost(e)
                      \/ DoApen(e) \/ DoRevo(e) \/ DoRasp(e)
                      \/ CrashInNote(e) \/ CrashInGrant(e)

Spec == Init /\ [][Next]_vars
-----------------------------------------------------------------------------
(***************************************************************************)
(* Properties.                                                             *)
(***************************************************************************)

\* Every variable has its type.
TypeOK ==
    /\ typ_e \in [Node -> {"none", "foll", "cand", "lead"}]
    /\ tem_w \in [Node -> Term]
    /\ vog_c \in [Node -> Node \union {None}]
    /\ vot_w \in [Node -> Nat]
    /\ vog \in [Node -> SUBSET Node]
    /\ ron_u \in [Node -> [Node -> End \union {None}]]
    /\ sis_term \in [Node -> Term]
    /\ sis_vote \in [Node -> Node \union {None}]
    /\ sis_torn \in [Node -> BOOLEAN]
    /\ con \in [End -> {"none", "wait", "open", "unk", "live", "dead"}]
    /\ out \in [End -> Seq(Msg)]
    /\ wire \in [End -> Seq(Msg)]
    /\ fault \in Nat
    /\ cast \subseteq Node \X Term \X Node
    /\ elected \subseteq Node \X Term
    /\ discarded \subseteq Node \X Term

\* Two nodes become leader in one term only through a node that voted for
\* both, and whose restart in that term discarded the first vote: whatever
\* else crashes, restarts or loses its connections, a term has one leader
\* (_raft_promote, _raft_foll_init).
RivalsByDiscard ==
    \A a, b \in elected : a[2] = b[2] =>
        \/ a[1] = b[1]
        \/ \E n \in Node : /\ <<n, a[2], a[1]>> \in cast
                           /\ <<n, a[2], b[1]>> \in cast
                           /\ <<n, a[2]>> \in discarded

\* A node votes for two nodes in a term only when a restart in that term
\* discarded its vote; no other order of requests, elections, crashes between
\* two puts and restarts makes it vote twice (_raft_do_revo,
\* _raft_start_election, _raft_foll_init).
TwiceByDiscard ==
    \A a, b \in cast : a[1] = b[1] /\ a[2] = b[2] =>
        a[3] = b[3] \/ <<a[1], a[2]>> \in discarded

\* vog_c is "who we voted for this term" and is persistent: a running node
\* that voted in its term, before a restart or after, knows that vote.
VotePersists ==
    \A v \in cast : typ_e[v[1]] # "none" /\ v[2] = tem_w[v[1]] =>
        vog_c[v[1]] = v[3]

\* A candidate or leader never counts more votes than were cast for it in its
\* term: pairing responses with requests by position (_raft_do_rasp) credits
\* no answer to an election it was not given in (_raft_revo_done).
TallySound ==
    \A n \in Node : typ_e[n] \in {"cand", "lead"} =>
        vot_w[n] <= Cardinality({m \in Node : <<m, tem_w[n], n>> \in cast})

\* A follower has no votes, as _raft_note_term asserts; so _raft_promote, which
\* asserts a candidate, is never reached by a follower.
FollowerHasNoVotes ==
    \A n \in Node : typ_e[n] = "foll" => vot_w[n] = 0

\* A response finds a named connection and an outstanding request: the error
\* paths of _raft_do_rasp are for foreign peers.
RaspHasRequest ==
    \A e \in End : Arrived(e, "rasp") => con[e] = "live" /\ out[e] # <<>>

\* A term is on disk before any other node can learn of it (u2_sist_put
\* before _raft_rmsg_send), so a restart never takes a promise back.
ToldIsDurable ==
    \A e \in End : \A i \in DOMAIN wire[e] :
        wire[e][i].tem <= sis_term[e.own]

\* A node's current connection to a peer is one of its own ends to that peer,
\* connecting or live and named (_raft_rest_name, _raft_conn_free).
CurrentConn ==
    \A n, m \in Node : ron_u[n][m] # None =>
        LET e == ron_u[n][m] IN
        e.own = n /\ e.oth = m /\ con[e] \in {"wait", "live"}

\* The term of a running node never goes back, and the term it restarts with
\* is the one it crashed with or a newer one (_raft_note_term,
\* _raft_foll_init).
TermNeverGoesBack ==
    [][\A n \in Node :
          /\ sis_term'[n] >= sis_term[n]
          /\ typ_e'[n] # "none" => tem_w'[n] >= tem_w[n]]_vars

\* What the election promises, of majorities.
Quorum == {Q \in SUBSET Node : 2 * Cardinality(Q) > Cardinality(Node)}
Promise == INSTANCE Election
ElectionRefined == Promise!Spec
=============================================================================

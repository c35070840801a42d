------------------------------- MODULE RaftInv -------------------------------
(***************************************************************************)
(* The inductive invariant behind the safety of Raft, in named parts.  It  *)
(* is checked by TLC here and proved in RaftProofs.                        *)
(***************************************************************************)
EXTENDS Raft

\* A running node's term is the one in its file.
Synced ==
    \A n \in Node : typ_e[n] # "none" => tem_w[n] = sis_term[n]

\* A running node remembers the vote it cast in its term, unless a restart in
\* that term discarded it.
Remembered ==
    \A v \in cast : typ_e[v[1]] # "none" /\ v[2] = tem_w[v[1]] =>
        v[3] = vog_c[v[1]] \/ <<v[1], v[2]>> \in discarded

\* A node's files remember its votes: a vote was cast in no later term than
\* the one on disk, and if in that term, it is the vote on disk, unless a
\* restart in that term discarded it.
CastOnDisk ==
    \A v \in cast :
        /\ v[2] <= sis_term[v[1]]
        /\ v[2] = sis_term[v[1]] =>
              v[3] = sis_vote[v[1]] \/ <<v[1], v[2]>> \in discarded

\* A candidate or leader voted for itself, and counted once every peer whose
\* flag is set; after a restart the flags are all set and nothing is counted.
Tallied ==
    \A n \in Node : typ_e[n] \in {"cand", "lead"} =>
        /\ <<n, tem_w[n], n>> \in cast
        /\ \/ /\ \A m \in vog[n] : m # n /\ <<m, tem_w[n], n>> \in cast
              /\ vot_w[n] = Cardinality(vog[n]) + 1
           \/ vog[n] = Peers(n) /\ vot_w[n] = 1

\* A node that is not running has no open connection.
DownIsClosed ==
    \A e \in End : typ_e[e.own] = "none" => con[e] \in {"none", "dead"}

\* Only an end that is connecting or named has requests outstanding; a closed
\* end is sent nothing, and nothing was sent from an unused one.
Quiet ==
    \A e \in End :
        /\ con[e] \notin {"wait", "live"} => out[e] = <<>>
        /\ con[e] = "dead" => wire[Mate(e)] = <<>>
        /\ con[e] \in {"none", "open"} => wire[e] = <<>>
        /\ con[e] = "none" /\ e.side = "ini" => con[Mate(e)] = "none"
        /\ con[e] = "wait" => e.side = "ini" /\ con[Mate(e)] = "none"
        /\ con[e] \in {"open", "unk"} => e.side = "acc"

\* Outstanding requests, in order of their terms, none newer than the node's
\* term; a follower's are older.
OutOrdered ==
    \A e \in End :
        /\ \A i \in DOMAIN out[e] :
              /\ out[e][i].typ \in {"revo", "apen"}
              /\ out[e][i].tem <= tem_w[e.own]
              /\ typ_e[e.own] = "foll" => out[e][i].tem < tem_w[e.own]
        /\ \A i, j \in DOMAIN out[e] :
              i <= j => out[e][i].tem <= out[e][j].tem

\* A RequestVote on the wire is outstanding; so is the one a response answers.
Awaited(e, t) == \E k \in DOMAIN out[e] :
                     out[e][k].typ = "revo" /\ out[e][k].tem = t

WireAwaited ==
    \A e \in End :
        /\ con[e] # "dead" => \A i \in DOMAIN wire[e] :
              wire[e][i].typ = "revo" => Awaited(e, wire[e][i].tem)
        /\ \A i \in DOMAIN wire[Mate(e)] :
              wire[Mate(e)][i].typ = "rasp"
                  => Awaited(e, wire[Mate(e)][i].ans)

\* Requests and responses travel in order: later RequestVotes have later terms,
\* later responses answer later RequestVotes, and what is answered was asked
\* before what is still on its way.
WireOrdered ==
    \A e \in End :
        /\ \A i, j \in DOMAIN wire[e] : i < j =>
              /\ wire[e][i].typ = "revo" /\ wire[e][j].typ = "revo"
                    => wire[e][i].tem < wire[e][j].tem
              /\ wire[e][i].typ = "rasp" /\ wire[e][j].typ = "rasp"
                    => wire[e][i].ans < wire[e][j].ans
        /\ \A i \in DOMAIN wire[e], j \in DOMAIN wire[Mate(e)] :
              wire[e][i].typ = "revo" /\ wire[Mate(e)][j].typ = "rasp"
                  => wire[Mate(e)][j].ans < wire[e][i].tem

\* A granting response answers the RequestVote of its own term, and the vote
\* was cast.
GrantsCast ==
    \A e \in End : \A i \in DOMAIN wire[e] :
        wire[e][i].typ = "rasp" /\ wire[e][i].suc =>
            /\ wire[e][i].ans = wire[e][i].tem
            /\ <<e.own, wire[e][i].tem, e.oth>> \in cast

\* A leader was elected by a majority.
ElectedByMajority ==
    \A l \in elected :
        Majority(Cardinality({m \in Node : <<m, l[2], l[1]>> \in cast}))

\* The inductive invariant of the election (v/raft.c): files agree with memory,
\* votes with both where no restart discarded them, tallies with votes, and the
\* wires with the requests outstanding.
ElectionInv ==
    /\ TypeOK /\ Synced /\ Remembered /\ CastOnDisk /\ TwiceByDiscard /\ Tallied
    /\ FollowerHasNoVotes /\ DownIsClosed /\ Quiet /\ CurrentConn
    /\ OutOrdered /\ WireAwaited /\ WireOrdered /\ GrantsCast
    /\ ToldIsDurable /\ ElectedByMajority
=============================================================================

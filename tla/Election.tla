------------------------------ MODULE Election ------------------------------
(***************************************************************************)
(* What leader election promises, without processes, files or messages:    *)
(* a node votes once in a term, and again only after it forgot its vote    *)
(* (a restart discarded it); a node leads a term only when a quorum voted  *)
(* for it in that term.                                                    *)
(***************************************************************************)
CONSTANTS Node,     \* the voters, who are also the candidates
          Term,     \* the terms
          Quorum    \* the sets of voters that elect a leader
VARIABLES cast,     \* <<n, t, m>> when n voted for m in term t
          elected,  \* <<m, t>> when m became leader in term t
          discarded \* <<n, t>> when n forgot its vote of term t

Init == cast = {} /\ elected = {} /\ discarded = {}

Vote(n, t, m) ==
    /\ \/ \A v \in cast : ~ (v[1] = n /\ v[2] = t)
       \/ <<n, t>> \in discarded
    /\ cast' = cast \union {<<n, t, m>>}
    /\ UNCHANGED <<elected, discarded>>

Forget(n, t) ==
    /\ discarded' = discarded \union {<<n, t>>}
    /\ UNCHANGED <<cast, elected>>

Voters(t, m) == {n \in Node : <<n, t, m>> \in cast}

Elect(m, t) ==
    /\ Voters(t, m) \in Quorum
    /\ elected' = elected \union {<<m, t>>}
    /\ UNCHANGED <<cast, discarded>>

Next == \E m \in Node, t \in Term :
            \/ \E n \in Node : Vote(n, t, m)
            \/ Forget(m, t)
            \/ Elect(m, t)

Spec == Init /\ [][Next]_<<cast, elected, discarded>>
=============================================================================

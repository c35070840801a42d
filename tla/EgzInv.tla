------------------------------- MODULE EgzInv -------------------------------
(***************************************************************************)
(* The inductive invariant of the egz.hope log (Egz).                      *)
(***************************************************************************)
EXTENDS Egz

\* The two entries of an event.
Pre(s) == <<s, "pre">>
Post(s) == <<s, "post">>

\* The second thread of an event is created by the callback the first one asks
\* for in its last step, so the two never run at the same time.
ThreadsInTurn ==
    /\ \A s \in Event : thread[Pre(s)] # "none" => s < ent_d
    /\ \A s \in Event : thread[Post(s)] # "none" =>
                            thread[Pre(s)] = "done" /\ Pre(s) \notin asyncs
    /\ \A e \in asyncs : e[2] = "pre" /\ thread[e] = "done"

\* A thread that has still to write finds its own type in the buffer.
BufferIsMine ==
    \A e \in Entry : thread[e] \in {"open", "write"} => bob_y[e[1]] = e[2]

\* What the consolidator still has to append.
Pending == Items(live) \union IF con = "append" THEN {hand} ELSE {}

\* Only a logged entry is queued, moved or in egz.hope, ...
OnlyLogged ==
    /\ Items(live) \subseteq Logged
    /\ \A e \in Entry : e \in Items(egz) => e \in Logged
    /\ con \in {"append", "unlink"} => hand \in Logged

\* ... in one of these places at a time, ...
OnePlace ==
    /\ \A i, j \in 1 .. Len(live) : i < j => live[i] # live[j]
    /\ con \in {"append", "unlink"} => hand \notin Items(live)
    /\ Pending \intersect Items(egz) = {}

\* ... and the first entry of an event ahead of the second.
InOrder ==
    /\ \A s \in Event : \A i, j \in 1 .. Len(live) :
            i < j => ~ (live[i] = Post(s) /\ live[j] = Pre(s))
    /\ \A s \in Event : con = "append" /\ hand = Post(s) => Pre(s) \notin Items(live)
    /\ \A s \in Event : Post(s) \in Items(egz) => Pre(s) \notin Pending

\* The minifile of an entry is whole from the write until it was appended.
MiniIsWhole ==
    \A e \in Entry : thread[e] \in {"sync", "enqueue"} \/ e \in Pending =>
                        mini[e] = e[2]

\* _dequeue tests tail_u and then follows head_u: it must not be NULL.
HeadIsThere ==
    /\ boot # "half" /\ tail_u # "nil" => live # << >>
    /\ con # "sleep" => boot = "yes"

\* As long as every append succeeded, a logged entry has a copy on disk.
HasCopy ==
    fails = 0 => /\ \A e \in Logged : mini[e] = e[2] \/ e \in Items(egz)
                 /\ con = "unlink" => hand \in Items(egz)

\* The invariant of u2_egz_push, _egz_finalize_and_emit and _egz_consolidator
\* that the safety properties follow from: the threads of an event take turns,
\* and an entry goes from minifile to egz.hope through one place at a time.
LogInv ==
    /\ TypeOK /\ NoFatal
    /\ ThreadsInTurn /\ BufferIsMine /\ OnlyLogged /\ OnePlace /\ InOrder
    /\ MiniIsWhole /\ HeadIsThere /\ HasCopy

\* A power loss would leave the entry.
Durable(e) == e \in firm \/ e \in Items(SubSeq(egz, 1, sunk))

\* The invariant that DurableAtRest follows from, beside LogInv: a cycle of
\* _egz_consolidator removes nothing from disk before its first append, a thread
\* has synced its minifile when it notes it, and a minifile is deleted only in a
\* cycle that will end with a syncfs.
DurableInv ==
    /\ fails = 0 /\ (con = "sleep" \/ fresh = 0) => \A e \in Logged : Durable(e)
    /\ \A e \in Entry : thread[e] = "enqueue" => e \in firm
    /\ con = "unlink" => fresh # 0
=============================================================================

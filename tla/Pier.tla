-------------------------------- MODULE Pier --------------------------------
(***************************************************************************)
(* A single-instance vere process: the main thread that applies events to  *)
(* the world state (u2_raft_work and what it calls in v/raft.c, v/reck.c), *)
(* boots the pier (v/loop.c, v/sist.c) and checkpoints it (v/save.c),      *)
(* composed with the egz.hope log of Egz, whose push threads and           *)
(* consolidator run beside it.                                             *)
(*                                                                         *)
(* With a peer list a leader never reaches this code: _raft_promote boots  *)
(* the pier in single-instance mode only ("TODO boot in multiuser mode"),  *)
(* and u2_raft_work returns at its test of len_d.                          *)
(*                                                                         *)
(* An ovum is the number of its u2_reck_plan.  What Arvo computes is open: *)
(* a poke may fail, and may or may not change the state.                   *)
(***************************************************************************)
EXTENDS Egz

\* An ovum as it is applied and logged: as planned ("ovo"), or, when Arvo
\* failed on it, the event that reports the failure (bov: %hole or %crud) or
\* the one that reports the failure of that (vab: %warn).
Form == {"ovo", "bov", "vab"}
Ovum == (1 .. MaxEnt) \X Form

VARIABLES
    main,       \* main thread: "boot", "punk" and "cart" (in u2_raft_work),
                \* "lead" (u2_lo_lead), "io" (in libuv), "dead"
    plans,      \* ova planned so far
    roe,        \* planned ova, oldest first (rec_u->roe is the reverse)
    ova,        \* the batch u2_raft_work is poking
    outs,       \* its results, oldest first: [ovo, new]; new is FALSE when
                \* the state did not change (ovo is u2_nul then)
    roc,        \* the world state: the ova applied to it
    eggs,       \* the carts: numbers of events logged, effects kicked
    kicked,     \* events whose effects were emitted
    ovo,        \* ovo[s]: the ovum in the buffer of event s
    sav         \* the checkpoint: [ent, roc]

workVars == <<main, plans, roe, ova, outs, roc, eggs, kicked, ovo, sav>>
pierVars == <<vars, workVars>>

\* Before the boot events are worked: u2_ames_ef_bake and u2_term_ef_bake have
\* planned them.
PierInit ==
    /\ Init
    /\ main = "boot" /\ plans \in 0 .. BootOva
    /\ roe = [i \in 1 .. plans |-> i]
    /\ ova = << >> /\ outs = << >> /\ roc = << >> /\ eggs = << >> /\ kicked = {}
    /\ ovo = [s \in Event |-> <<1, "ovo">>]
    /\ sav = [ent |-> 0, roc |-> << >>]

-----------------------------------------------------------------------------

\* u2_reck_plan, n times: queue the next n ova.
Plan(n) ==
    /\ plans + n <= MaxEnt
    /\ plans' = plans + n
    /\ roe' = roe \o [i \in 1 .. n |-> plans + i]

\* An input callback plans an ovum.
Input ==
    /\ main = "io" /\ boot = "yes"
    /\ Plan(1)
    /\ UNCHANGED <<vars, main, ova, outs, roc, eggs, kicked, ovo, sav>>

\* u2_raft_work, at the end of every libuv callback (u2_lo_shut) and at boot:
\* delete the finished carts and take up the pending ova in the order they were
\* planned (u2_ckb_flop).
WorkStartUnflopped ==
    /\ main = "boot" \/ (main = "io" /\ boot = "yes")
    /\ main' = "punk"
    /\ eggs' = << >>
    /\ ova' = [i \in 1 .. Len(roe) |-> roe[Len(roe) + 1 - i]] /\ roe' = << >>
    /\ UNCHANGED <<vars, plans, outs, roc, kicked, ovo, sav>>
WorkStart ==
    /\ main = "boot" \/ (main = "io" /\ boot = "yes")
    /\ main' = "punk"
    /\ eggs' = << >>
    /\ ova' = roe /\ roe' = << >>
    /\ UNCHANGED <<vars, plans, outs, roc, kicked, ovo, sav>>

\* _raft_sure: a new state replaces the world state, and the result is queued
\* for the log; without a new state only the effects are.
SureAlways(o, new) ==
    /\ roc' = Append(roc, o)
    /\ outs' = Append(outs, [ovo |-> o, new |-> new])
Sure(o, new) ==
    /\ roc' = IF new THEN Append(roc, o) ELSE roc
    /\ outs' = Append(outs, [ovo |-> o, new |-> new])

\* _raft_punk: poke the next ovum; on failure, _raft_lame pokes bov, then vab,
\* and gives up with an assertion.
Punk ==
    /\ main = "punk" /\ ova # << >>
    /\ ova' = Tail(ova)
    /\ \/ /\ \E f \in Form, new \in BOOLEAN : Sure(<<Head(ova), f>>, new)
          /\ main' = main
       \/ main' = "dead" /\ UNCHANGED <<roc, outs>>
    /\ UNCHANGED <<vars, plans, roe, eggs, kicked, ovo, sav>>

PunkDone ==
    /\ main = "punk" /\ ova = << >> /\ main' = "cart"
    /\ UNCHANGED <<vars, plans, roe, ova, outs, roc, eggs, kicked, ovo, sav>>

\* The next result: log it, put its cart in the list, and kick its effects,
\* which may plan further ova.  A result without a new state is dropped.
Cart ==
    /\ main = "cart" /\ outs # << >>
    /\ outs' = Tail(outs)
    /\ \/ /\ Head(outs).new
          /\ PushOva
          /\ ovo' = [ovo EXCEPT ![ent_d] = Head(outs).ovo]
          /\ eggs' = Append(eggs, ent_d)
          /\ kicked' = kicked \union {ent_d}
          /\ \E n \in 0 .. 1 : Plan(n)
       \/ ~ Head(outs).new /\ UNCHANGED <<vars, ovo, eggs, kicked, plans, roe>>
    /\ UNCHANGED <<main, ova, roc, sav>>

\* u2_raft_work returns, at boot to _raft_promote.
CartDone ==
    /\ main = "cart" /\ outs = << >>
    /\ main' = IF boot = "no" THEN "lead" ELSE "io"
    /\ UNCHANGED <<vars, plans, roe, ova, outs, roc, eggs, kicked, ovo, sav>>

\* u2_loom_save: checkpoint the world state with the number of the next event.
SaveLast == sav' = [ent |-> IF ent_d > 0 THEN ent_d - 1 ELSE 0, roc |-> roc]
Save == sav' = [ent |-> ent_d, roc |-> roc]

\* u2_lo_lead: plan a %kick, save the pier.
Lead ==
    /\ main = "lead" /\ main' = "io"
    /\ \E n \in 0 .. 1 : Plan(n)
    /\ Save
    /\ UNCHANGED <<vars, ova, outs, roc, eggs, kicked, ovo>>

\* u2_egz_init, when u2_raft_init has returned.
EgzInit ==
    /\ main = "io" /\ (ClearHead \/ ClearTail)
    /\ UNCHANGED workVars

\* The libuv callback of a push thread.
Callback ==
    /\ main = "io" /\ \E e \in Entry : Finalize(e)
    /\ UNCHANGED workVars

\* _save_time_cb: checkpoint when there are new events.
TimeSave ==
    /\ main = "io" /\ boot = "yes" /\ ent_d > sav.ent
    /\ Save
    /\ UNCHANGED <<vars, main, plans, roe, ova, outs, roc, eggs, kicked, ovo>>

\* The end of u2_lo_shut when the pier is to stop (u2_Host.liv): save and exit,
\* and with the process go its threads.
Shutdown ==
    /\ main = "io" /\ boot = "yes" /\ main' = "dead"
    /\ Save
    /\ UNCHANGED <<vars, plans, roe, ova, outs, roc, eggs, kicked, ovo>>

\* The other threads, while the process lives.
Background ==
    /\ Consolidator \/ \E e \in Entry : PushThread(e)
    /\ UNCHANGED workVars

PierNext ==
    /\ ~ fatal /\ main # "dead"
    /\ \/ Input \/ WorkStart \/ Punk \/ PunkDone \/ Cart \/ CartDone \/ Lead
       \/ EgzInit \/ Callback \/ TimeSave \/ Shutdown \/ Background

PierSpec == PierInit /\ [][PierNext]_pierVars

-----------------------------------------------------------------------------

\* The ova of the first n events, in sequence.
Numbered(n) == [i \in 1 .. n |-> ovo[i - 1]]

\* Replaying the logged events in the order of their numbers gives the world
\* state, but for the results u2_raft_work is still to log: no change to the
\* state (by an ovum or by the report of its failure) is left out of the log,
\* and none is logged out of order.
ReplayGivesWorld ==
    LET New == {j \in 1 .. Len(outs) : outs[j].new} IN
    /\ ent_d <= Len(roc) /\ \A i \in 1 .. ent_d : roc[i] = ovo[i - 1]
    /\ \E at \in [1 .. (Len(roc) - ent_d) -> New] :
         /\ \A i, j \in DOMAIN at : i < j => at[i] < at[j]
         /\ \A j \in New : \E i \in DOMAIN at : at[i] = j
         /\ \A i \in DOMAIN at : roc[ent_d + i] = outs[at[i]].ovo

\* Events are applied in the order they were planned (the two u2_ckb_flop of
\* u2_raft_work undo the reversal of the lists).
AppliedInOrder ==
    \A i, j \in 1 .. Len(roc) : i < j => roc[i][1] < roc[j][1]

\* A checkpoint is the state that replaying the events before its number gives,
\* so a restart that replays the events from that number on repeats none and
\* skips none.
CheckpointIsReplay == sav.roc = Numbered(sav.ent)

=============================================================================

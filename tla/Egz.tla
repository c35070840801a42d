-------------------------------- MODULE Egz ---------------------------------
(***************************************************************************)
(* The egz.hope event log (v/egzh.c).  An event is logged twice: before    *)
(* its effects (precommit) and after them (postcommit).  Each entry is     *)
(* written by a short-lived thread to a file of its own, the minifile, and *)
(* noted in a queue; a consolidator thread wakes every 10 seconds, appends *)
(* the minifiles of the queue to egz.hope and deletes them.  The main      *)
(* thread starts the first entry of an event in u2_egz_push_ova, and, when *)
(* the first thread has told it so through libuv, the second entry in      *)
(* _egz_finalize_and_emit.                                                 *)
(*                                                                         *)
(* A step is what the code does between two points where another thread    *)
(* can see the difference: one system call on a file, or one critical      *)
(* section.  Of the failures of system calls only the one the code does    *)
(* not notice is here (AppendEntry); the others end the process.           *)
(***************************************************************************)
EXTENDS Integers, Sequences, FiniteSets

CONSTANTS
    MaxEnt,     \* bound on events
    BootOva,    \* bound on events pushed by u2_sist_boot, before u2_egz_init
    MaxFail,    \* bound on appends to egz.hope that fail or are short
    HeadWords,  \* length in words of the header of egz.hope (u2_eghd)
    EntryWords  \* length in words of an entry with its prefix (u2_clpr)

ASSUME EgzBoundAssumption == /\ MaxEnt \in Nat \ {0}
                             /\ BootOva \in Nat /\ MaxFail \in Nat
ASSUME EgzSizeAssumption == HeadWords \in Nat \ {0} /\ EntryWords \in Nat \ {0}

Event == 0 .. MaxEnt - 1

\* msg_type_y: LOG_MSG_PRECOMMIT, LOG_MSG_POSTCOMMIT.
MsgType == {"pre", "post"}

\* A log entry, and the push thread that writes it.
Entry == Event \X MsgType

\* What egz.hope is made of: entries, and the parts of entries that short
\* writes left.
Record == Event \X (MsgType \union {"part"})

\* Points where a push thread can be; "none" before it is created.
ThreadAt == {"none", "open", "write", "sync", "enqueue", "tell", "done"}

VARIABLES
    ent_d,      \* the next sequence number (u2A->ent_d)
    boot,       \* u2_egz_init: "no", "half" (head_u cleared), "yes"
    thread,     \* thread[e]: where the push thread of e is
    bob_y,      \* bob_y[s]: message type in the buffer of event s, or
                \* "none" (not allocated), "freed"
    mini,       \* mini[f]: the minifile f: "absent", "empty" or the message
                \* type in its prefix
    live,       \* the entries reachable from head_u
    tail_u,     \* "nil" (NULL), "last" (the last of live), or "stray" (a node
                \* that is not reachable from head_u)
    asyncs,     \* batons sent with uv_async_send and not yet received
    con,        \* consolidator: "sleep", "drain", "append" or "unlink"
    hand,       \* the entry the consolidator dequeued last
    egz,        \* the contents of egz.hope
    fresh,      \* entries taken up in this waking cycle (new_bytes_d)
    len_d,      \* u2R->lug_u.len_d
    fatal,      \* the process ended itself (exit(-1))
    firm,       \* minifiles a power loss would leave, whatever it reorders
    sunk,       \* how many entries of egz.hope a power loss would leave
    fails       \* appends so far that failed or were short

mainVars == <<ent_d, boot, asyncs>>
threadVars == <<thread, bob_y>>
queueVars == <<live, tail_u>>
conVars == <<con, hand, fresh, len_d>>
diskVars == <<mini, egz, firm, sunk, fails>>
vars == <<mainVars, threadVars, queueVars, conVars, diskVars, fatal>>

Items(q) == {q[i] : i \in 1 .. Len(q)}

\* The minifile of an entry: its name holds both the sequence number and the
\* message type (u2_sist_get_egz_quick_filestr).
MiniName(e) == e

Init ==
    /\ ent_d = 0 /\ boot = "no" /\ asyncs = {}
    /\ thread = [e \in Entry |-> "none"]
    /\ bob_y = [s \in Event |-> "none"]
    /\ mini = [e \in Entry |-> "absent"]
    /\ live = << >> /\ tail_u = "nil"
    /\ con = "sleep" /\ hand = <<0, "pre">> /\ fresh = 0 /\ len_d = HeadWords
    /\ egz = << >> /\ firm = {} /\ sunk = 0 /\ fails = 0
    /\ fatal = FALSE

-----------------------------------------------------------------------------
(* The main thread. *)

\* _egz_push_in_thread: put the baton together and create the thread.
PushInThread(s, t) == thread' = [thread EXCEPT ![<<s, t>>] = "open"]

\* u2_egz_push_ova: give the event its number, make its buffer, and start its
\* first entry.
PushOva ==
    /\ ent_d < MaxEnt
    /\ \/ boot = "no" /\ ent_d < BootOva
       \/ boot = "yes"
    /\ ent_d' = ent_d + 1
    /\ bob_y' = [bob_y EXCEPT ![ent_d] = "pre"]
    /\ PushInThread(ent_d, "pre")
    /\ UNCHANGED <<boot, asyncs, queueVars, conVars, diskVars, fatal>>

\* u2_egz_init clears the two ends of the queue without taking the mutex, so
\* a push thread can come between the two stores.
ClearHead ==
    /\ boot = "no" /\ boot' = "half"
    /\ live' = << >>
    /\ tail_u' = IF tail_u = "nil" THEN "nil" ELSE "stray"
    /\ UNCHANGED <<ent_d, asyncs, threadVars, conVars, diskVars, fatal>>

\* ... and starts the consolidator.
ClearTail ==
    /\ boot = "half" /\ boot' = "yes"
    /\ tail_u' = "nil"
    /\ UNCHANGED <<ent_d, asyncs, threadVars, live, conVars, diskVars, fatal>>

\* _egz_finalize_and_emit, called by libuv: turn the buffer into the second
\* entry and start its thread; a baton that is not a precommit is a panic.
Finalize(e) ==
    /\ boot = "yes" /\ e \in asyncs
    /\ asyncs' = asyncs \ {e}
    /\ fatal' = (e[2] # "pre")
    /\ bob_y' = [bob_y EXCEPT ![e[1]] = "post"]
    /\ PushInThread(e[1], "post")
    /\ UNCHANGED <<ent_d, boot, queueVars, conVars, diskVars>>

-----------------------------------------------------------------------------
(* The push thread of an entry (_egz_push_in_thread_inner, u2_egz_push). *)

Open(e) ==
    /\ thread[e] = "open"
    /\ thread' = [thread EXCEPT ![e] = "write"]
    /\ mini' = [mini EXCEPT ![MiniName(e)] = "empty"]
    /\ firm' = firm \ {MiniName(e)}
    /\ UNCHANGED <<mainVars, bob_y, queueVars, conVars, egz, sunk, fails, fatal>>

Write(e) ==
    /\ thread[e] = "write"
    /\ thread' = [thread EXCEPT ![e] = "sync"]
    /\ mini' = [mini EXCEPT ![MiniName(e)] = bob_y[e[1]]]
    /\ UNCHANGED <<mainVars, bob_y, queueVars, conVars, egz, firm, sunk, fails, fatal>>

\* What syncfs makes durable: everything written to the file system so far.
Whole == {f \in Entry : mini[f] \in MsgType}

Sync(e) ==
    /\ thread[e] = "sync"
    /\ thread' = [thread EXCEPT ![e] = "enqueue"]
    /\ firm' = Whole /\ sunk' = Len(egz)
    /\ UNCHANGED <<mainVars, bob_y, queueVars, conVars, mini, egz, fails, fatal>>

\* _enqueue: link the new node behind tail_u, and let head_u point to it when
\* head_u is NULL.
Enqueue(e) ==
    /\ thread[e] = "enqueue"
    /\ thread' = [thread EXCEPT ![e] = "tell"]
    /\ IF tail_u = "last" \/ live = << >>
         THEN live' = Append(live, e) /\ tail_u' = "last"
         ELSE live' = live /\ tail_u' = "stray"
    /\ UNCHANGED <<mainVars, bob_y, conVars, diskVars, fatal>>

\* Another push thread's async handle is in libuv's queue of them, is being
\* put there, or was freed without uv_close and is still linked there.
Unsafe(e) == \E f \in Entry \ {e} : f[2] = "pre" /\ thread[f] \in {"tell", "done"}

\* After the first entry, hand the baton to the main thread; after the second,
\* free the buffer.  uv_async_init is called from the push thread and links the
\* handle into a queue without a lock: beside another handle, any of them can
\* be lost from the queue, and its callback never comes.
Tell(e) ==
    /\ thread[e] = "tell"
    /\ thread' = [thread EXCEPT ![e] = "done"]
    /\ \/ /\ e[2] = "post"
          /\ bob_y' = [bob_y EXCEPT ![e[1]] = "freed"]
          /\ asyncs' = asyncs
       \/ /\ e[2] = "pre"
          /\ bob_y' = bob_y
          /\ \E lost \in SUBSET (asyncs \union {e}) :
                /\ lost # {} => Unsafe(e)
                /\ asyncs' = (asyncs \union {e}) \ lost
    /\ UNCHANGED <<ent_d, boot, queueVars, conVars, diskVars, fatal>>

-----------------------------------------------------------------------------
(* The consolidator (_egz_consolidator). *)

Wake ==
    /\ boot = "yes" /\ con = "sleep"
    /\ con' = "drain" /\ fresh' = 0
    /\ UNCHANGED <<mainVars, threadVars, queueVars, hand, len_d, diskVars, fatal>>

\* _dequeue: TRUE unless tail_u is NULL.
DequeuePeek ==
    /\ con = "drain" /\ tail_u # "nil"
    /\ hand' = Head(live) /\ live' = live
    /\ tail_u' = tail_u
    /\ con' = "append"
    /\ UNCHANGED <<mainVars, threadVars, fresh, len_d, diskVars, fatal>>
DequeueOne ==
    /\ con = "drain" /\ tail_u # "nil"
    /\ hand' = Head(live) /\ live' = << >>
    /\ tail_u' = "nil"
    /\ con' = "append"
    /\ UNCHANGED <<mainVars, threadVars, fresh, len_d, diskVars, fatal>>
Dequeue ==
    /\ con = "drain" /\ tail_u # "nil"
    /\ hand' = Head(live) /\ live' = Tail(live)
    /\ tail_u' = IF Tail(live) = << >> THEN "nil" ELSE tail_u
    /\ con' = "append"
    /\ UNCHANGED <<mainVars, threadVars, fresh, len_d, diskVars, fatal>>

\* The file q after a write() of an entry to its end.
Wrote(q, s, typ, ret) == CASE ret = "whole" -> Append(q, <<s, typ>>)
                           [] ret = "part"  -> Append(q, <<s, "part">>)
                           [] ret = "none"  -> q

\* Open and read the minifile, ending the process when there is none, and
\* append what it holds to egz.hope.  The result of write() is kept in an
\* unsigned variable and tested with < 0, so that an append that fails or is
\* short goes unnoticed.
AppendEntryTrunc(ret) ==
    LET typ == mini[MiniName(hand)]
    IN  /\ con = "append" /\ con' = "unlink"
        /\ fatal' = (typ \notin MsgType)
        /\ egz' = Wrote(IF fresh = 0 THEN << >> ELSE egz, hand[1], typ, ret)
        /\ ret # "whole" => fails < MaxFail
        /\ fails' = IF ret = "whole" THEN fails ELSE fails + 1
        /\ fresh' = fresh + 1
        /\ UNCHANGED <<mainVars, threadVars, queueVars, hand, len_d, mini, firm, sunk>>
AppendEntryTwice(ret) ==
    LET typ == mini[MiniName(hand)]
    IN  /\ con = "append" /\ con' = "unlink"
        /\ fatal' = (typ \notin MsgType)
        /\ egz' = IF fatal' THEN egz
                ELSE Wrote(Wrote(egz, hand[1], typ, ret), hand[1], typ, ret)
        /\ ret # "whole" => fails < MaxFail
        /\ fails' = IF ret = "whole" THEN fails ELSE fails + 1
        /\ fresh' = fresh + 1
        /\ UNCHANGED <<mainVars, threadVars, queueVars, hand, len_d, mini, firm, sunk>>
AppendEntryLate(ret) ==
    LET typ == mini[MiniName(<<hand[1], "post">>)]
    IN  /\ con = "append" /\ con' = "unlink"
        /\ fatal' = (typ \notin MsgType)
        /\ egz' = IF fatal' THEN egz ELSE Wrote(egz, hand[1], typ, ret)
        /\ ret # "whole" => fails < MaxFail
        /\ fails' = IF ret = "whole" THEN fails ELSE fails + 1
        /\ fresh' = fresh + 1
        /\ UNCHANGED <<mainVars, threadVars, queueVars, hand, len_d, mini, firm, sunk>>
AppendEntry(ret) ==
    LET typ == mini[MiniName(hand)]
    IN  /\ con = "append" /\ con' = "unlink"
        /\ fatal' = (typ \notin MsgType)
        /\ egz' = IF fatal' THEN egz ELSE Wrote(egz, hand[1], typ, ret)
        /\ ret # "whole" => fails < MaxFail
        /\ fails' = IF ret = "whole" THEN fails ELSE fails + 1
        /\ fresh' = fresh + 1
        /\ UNCHANGED <<mainVars, threadVars, queueVars, hand, len_d, mini, firm, sunk>>

\* Delete the minifile.
Unlink ==
    /\ con = "unlink" /\ con' = "drain"
    /\ mini' = [mini EXCEPT ![MiniName(hand)] = "absent"]
    /\ firm' = firm \ {MiniName(hand)}
    /\ UNCHANGED <<mainVars, threadVars, queueVars, hand, fresh, len_d, egz, sunk, fails, fatal>>

\* When the queue is empty: syncfs on egz.hope (on descriptor 0, which is not
\* its file system, when the cycle had nothing to do), close it, and note how
\* many bytes it grew by (_u2_egz_note_larger_size).
GoToSleepUnsynced ==
    /\ con = "drain" /\ tail_u = "nil" /\ con' = "sleep"
    /\ firm' = firm /\ sunk' = sunk
    /\ len_d' = len_d + 4 * EntryWords * fresh
    /\ UNCHANGED <<mainVars, threadVars, queueVars, hand, fresh, mini, egz, fails, fatal>>
GoToSleep ==
    /\ con = "drain" /\ tail_u = "nil" /\ con' = "sleep"
    /\ IF fresh = 0 THEN firm' = firm /\ sunk' = sunk
                    ELSE firm' = Whole /\ sunk' = Len(egz)
    /\ len_d' = len_d + 4 * EntryWords * fresh
    /\ UNCHANGED <<mainVars, threadVars, queueVars, hand, fresh, mini, egz, fails, fatal>>

-----------------------------------------------------------------------------

PushThread(e) == Open(e) \/ Write(e) \/ Sync(e) \/ Enqueue(e) \/ Tell(e)

Consolidator == \/ Wake \/ Dequeue \/ Unlink \/ GoToSleep
                \/ \E ret \in {"whole", "part", "none"} : AppendEntry(ret)

MainThread == \/ PushOva \/ ClearHead \/ ClearTail
              \/ \E e \in Entry : Finalize(e)

Next == ~ fatal /\ (MainThread \/ Consolidator \/ \E e \in Entry : PushThread(e))

\* Threads are scheduled, and the consolidator's sleep ends.  That libuv calls
\* the callback of every handle in its queue is not assumed: the queue holds
\* freed handles.
Fairness ==
    /\ WF_vars(~ fatal /\ (ClearHead \/ ClearTail))
    /\ WF_vars(~ fatal /\ Consolidator)
    /\ \A e \in Entry : WF_vars(~ fatal /\ PushThread(e))

Spec == Init /\ [][Next]_vars
FairSpec == Spec /\ Fairness

-----------------------------------------------------------------------------

\* The types of the variables.
TypeOK ==
    /\ ent_d \in 0 .. MaxEnt /\ boot \in {"no", "half", "yes"}
    /\ asyncs \subseteq Entry
    /\ thread \in [Entry -> ThreadAt]
    /\ bob_y \in [Event -> {"none", "pre", "post", "freed"}]
    /\ mini \in [Entry -> {"absent", "empty", "pre", "post"}]
    /\ live \in Seq(Entry) /\ tail_u \in {"nil", "last", "stray"}
    /\ con \in {"sleep", "drain", "append", "unlink"} /\ hand \in Entry
    /\ fresh \in Nat /\ len_d \in Nat /\ fails \in 0 .. MaxFail
    /\ egz \in Seq(Record) /\ firm \subseteq Entry /\ sunk \in 0 .. Len(egz)
    /\ fatal \in BOOLEAN

\* Whatever the threads do in whatever order, the process never ends itself:
\* the consolidator finds every minifile it is told of, whole
\* (_egz_consolidator, "couldn't open minifile"), and no baton but that of a
\* precommit comes back to the main thread (_egz_finalize_and_emit, "state
\* machine panic").
NoFatal == ~ fatal

\* The entries whose thread has written, synced and noted them: what the
\* program takes for logged (the main thread is told next).
Logged == {e \in Entry : thread[e] \in {"tell", "done"}}

\* As long as every append succeeded, a logged entry is in its minifile or in
\* egz.hope at every moment, also while the consolidator moves it, so the
\* process can be killed anywhere and a reader of both would find it.
NothingLost ==
    fails = 0 => \A e \in Logged : mini[MiniName(e)] = e[2] \/ e \in Items(egz)

\* Likewise a power loss while the consolidator sleeps loses no logged entry:
\* the syncfs that ends a cycle covers all the cycle did.
DurableAtRest ==
    fails = 0 /\ con = "sleep" =>
        \A e \in Logged : e \in firm \/ e \in Items(SubSeq(egz, 1, sunk))

\* When no event was pushed before u2_egz_init, every entry whose thread was
\* started ends up in egz.hope, unless an append failed: "we will consolidate
\* these mini files later in the consolidator thread" (the comment on
\* u2_egz_push).
Consolidated ==
    \A e \in Entry : [](boot = "yes" /\ ent_d = 0 =>
        [](thread[e] # "none" => <>(e \in Items(egz) \/ fails > 0)))

\* The contents of egz.hope are those of the abstract event log: no entry
\* twice, and the entries of an event in order, whatever is lost at boot and
\* whatever parts of entries are left between them.
Promise == INSTANCE EventLog WITH log <- egz, Tears <- MaxFail > 0
LogRefined == Promise!Spec

\* Every logged entry is on its way to egz.hope: in the queue, in the
\* consolidator's hand, or there.  The same comment as a safety property; it
\* does not hold for events pushed before u2_egz_init.
Tracked ==
    \A e \in Logged : \/ e \in Items(live) \union Items(egz)
                      \/ con \in {"append", "unlink"} /\ hand = e
=============================================================================

-------------------------------- MODULE Kafk --------------------------------
(***************************************************************************)
(* The Kafka event log (v/kafk.c), the alternative to egz.hope: the main   *)
(* thread, librdkafka's queue and the broker it writes to.                 *)
(*                                                                         *)
(* u2_kafk_push hands a message to librdkafka and polls until nothing is   *)
(* outstanding; delivery reports are served by that polling, so they run   *)
(* in the main thread, inside u2_kafk_push.  The report of a first entry   *)
(* starts a libuv callback that pushes the second.  librdkafka sends a     *)
(* message again when the broker's answer is lost, so the broker may hold  *)
(* copies of it.                                                           *)
(***************************************************************************)
EXTENDS Integers, Sequences

CONSTANTS
    MaxEnt,     \* bound: events pushed
    MaxWrites,  \* bound: messages the broker writes to a partition
    Partition,  \* the partitions of the topic
    Zero        \* READ_PARTITION

ASSUME KafkAssumption ==
    MaxEnt \in Nat /\ MaxWrites \in Nat /\ Zero \in Partition

Event == 0 .. (MaxEnt - 1)
Msg == Event \X {"pre", "post"}

VARIABLES
    main,       \* main thread: "loop" (in libuv), "ova" and "fin" (polling in
                \* u2_kafk_push, for the first and the second entry of an
                \* event), "dead" (exit)
    inited,     \* inited_t
    ent_d,      \* sequence number of the next event
    baton,      \* baton[s]: msg_type_y in the baton of event s, "none" when
                \* there is no baton
    out,        \* messages librdkafka has not reported on
    acked,      \* those the broker answered: [msg, part, off]
    log,        \* log[p]: what the broker wrote to partition p, oldest first
    first,      \* the messages of all partitions as they were written, without
                \* the copies
    async,      \* events whose _kafka_finalize_and_emit is to run
    unsent,     \* messages rd_kafka_produce refused
    emitted,    \* events whose effects were kicked
    seen,       \* largest_offset_seen_ds
    precom,     \* largest_offset_seen_precom_ds
    last,       \* the event precom is the offset of (MaxEnt: none yet)
    rd          \* the consumer: [off, ev, got], the next offset, the event of
                \* the offset it started from, and the messages read

pushVars == <<main, inited, ent_d, baton, out, acked, log, first, async, unsent,
              emitted, seen, precom, last>>
vars == <<pushVars, rd>>

Init ==
    /\ main = "loop" /\ inited = FALSE /\ ent_d = 0
    /\ baton = [s \in Event |-> "none"]
    /\ out = {} /\ acked = {} /\ first = << >>
    /\ log = [p \in Partition |-> << >>]
    /\ async = {} /\ unsent = {} /\ emitted = {}
    /\ seen = 0 /\ precom = 0 /\ last = MaxEnt
    /\ rd = [off |-> 0, ev |-> MaxEnt, got |-> << >>]

-----------------------------------------------------------------------------

\* exit(): the process is gone, what librdkafka had not sent with it.
Exit ==
    /\ main' = "dead"
    /\ UNCHANGED <<inited, ent_d, baton, out, acked, log, first, async, unsent,
                   emitted, seen, precom, last, rd>>

\* u2_kafk_init: reset the offsets, create the handles or exit.
KafkInit ==
    /\ main = "loop" /\ ~ inited
    /\ \/ /\ inited' = TRUE /\ seen' = 0 /\ precom' = 0 /\ last' = MaxEnt
          /\ UNCHANGED <<main, ent_d, baton, out, acked, log, first, async,
                         unsent, emitted, rd>>
       \/ Exit

\* rd_kafka_produce: the message is queued, or refused (too large, queue full),
\* which is printed and nothing else.
ProduceRetry(m) ==
    \/ out' = out \union unsent \union {m} /\ unsent' = unsent
    \/ out' = out /\ unsent' = unsent \union {m}
Produce(m) ==
    \/ out' = out \union {m} /\ unsent' = unsent
    \/ out' = out /\ unsent' = unsent \union {m}

\* u2_kafk_push_ova: number the event, write its header and baton, and push it
\* as LOG_MSG_PRECOMMIT; the process ends when Kafka is not initialised.
PushOvaParallel ==
    /\ main = "loop" /\ ent_d < MaxEnt /\ inited
    /\ ent_d' = ent_d + 1
    /\ baton' = [baton EXCEPT ![ent_d] = "pre"]
    /\ Produce(<<ent_d, "pre">>)
    /\ async' = async \union {ent_d}
    /\ main' = "ova"
    /\ UNCHANGED <<inited, acked, log, first, emitted, seen, precom, last, rd>>
PushOva ==
    /\ main = "loop" /\ ent_d < MaxEnt
    /\ \/ /\ inited
          /\ ent_d' = ent_d + 1
          /\ baton' = [baton EXCEPT ![ent_d] = "pre"]
          /\ Produce(<<ent_d, "pre">>)
          /\ main' = "ova"
          /\ UNCHANGED <<inited, acked, log, first, async, emitted, seen, precom,
                         last, rd>>
       \/ ~ inited /\ Exit

\* The offset the next message in a partition gets.
Offset(p) == Len(log[p])

\* librdkafka sends a message, for the first time or again, and the broker
\* writes it to a partition of its choice (WRITE_PARTITION is
\* RD_KAFKA_PARTITION_UA); its answer may be lost.
BrokerWrite(m, p) ==
    /\ main # "dead" /\ Len(log[p]) < MaxWrites
    /\ m \in out /\ \A a \in acked : a.msg # m
    /\ log' = [log EXCEPT ![p] = Append(@, m)]
    /\ first' = IF \E i \in 1 .. Len(first) : first[i] = m THEN first
                ELSE Append(first, m)
    /\ \/ acked' = acked \union {[msg |-> m, part |-> p, off |-> Offset(p)]}
       \/ acked' = acked
    /\ UNCHANGED <<main, inited, ent_d, baton, out, async, unsent, emitted, seen,
                   precom, last, rd>>

\* largest_offset_seen_precom_ds after a report: only first entries count.
PrecomAny(a) == a.off
PrecomAfter(a) == IF baton[a.msg[1]] = "pre" THEN a.off ELSE precom

\* _kafka_msg_delivered_cb, called by rd_kafka_poll: note the offset; after a
\* first entry wake the event loop, after a second free the baton.
DeliveredEarlyFree(a) ==
    /\ main \in {"ova", "fin"} /\ a \in acked
    /\ out' = out \ {a.msg} /\ acked' = acked \ {a}
    /\ seen' = a.off
    /\ LET s == a.msg[1] IN
       /\ baton' = [baton EXCEPT ![s] = "none"]
       /\ precom' = PrecomAfter(a)
       /\ last' = IF baton[s] = "pre" THEN s ELSE last
       /\ async' = async
    /\ UNCHANGED <<main, inited, ent_d, log, first, unsent, emitted, rd>>
Delivered(a) ==
    /\ main \in {"ova", "fin"} /\ a \in acked
    /\ out' = out \ {a.msg} /\ acked' = acked \ {a}
    /\ seen' = a.off
    /\ LET s == a.msg[1] IN
       /\ precom' = PrecomAfter(a)
       /\ last' = IF baton[s] = "pre" THEN s ELSE last
       /\ \/ /\ baton[s] = "post" /\ baton' = [baton EXCEPT ![s] = "none"]
             /\ UNCHANGED async
          \/ /\ baton[s] # "post" /\ async' = async \union {s}
             /\ UNCHANGED baton
    /\ UNCHANGED <<main, inited, ent_d, log, first, unsent, emitted, rd>>

\* A report of failure (librdkafka gave up on a message) ends the process.
DeliveryFailure == main \in {"ova", "fin"} /\ out # {} /\ Exit

\* u2_kafk_push returns when rd_kafka_outq_len is 0; u2_raft_work then kicks
\* the effects of the event it pushed.
PushReturnEarly ==
    /\ main \in {"ova", "fin"}
    /\ main' = "loop"
    /\ emitted' = IF main = "ova" THEN emitted \union {ent_d - 1} ELSE emitted
    /\ UNCHANGED <<inited, ent_d, baton, out, acked, log, first, async, unsent,
                   seen, precom, last, rd>>
PushReturn ==
    /\ main \in {"ova", "fin"} /\ out = {}
    /\ main' = "loop"
    /\ emitted' = IF main = "ova" THEN emitted \union {ent_d - 1} ELSE emitted
    /\ UNCHANGED <<inited, ent_d, baton, out, acked, log, first, async, unsent,
                   seen, precom, last, rd>>

\* _kafka_finalize_and_emit: push the same buffer as LOG_MSG_POSTCOMMIT, or
\* panic when the baton is not in PRECOMMIT.
Finalize(s) ==
    /\ main = "loop" /\ s \in async
    /\ \/ /\ baton[s] = "pre"
          /\ async' = async \ {s}
          /\ baton' = [baton EXCEPT ![s] = "post"]
          /\ Produce(<<s, "post">>)
          /\ main' = "fin"
          /\ UNCHANGED <<inited, ent_d, acked, log, first, emitted, seen, precom,
                         last, rd>>
       \/ baton[s] # "pre" /\ Exit

-----------------------------------------------------------------------------

\* u2_kafk_pre_read: consume from the offset of the last first entry, as
\* test/test.c does; it exits when Kafka is not initialised or refuses.
PreReadNext ==
    /\ main = "loop"
    /\ \/ /\ inited
          /\ rd' = [off |-> precom + 1, ev |-> last, got |-> << >>]
          /\ UNCHANGED pushVars
       \/ Exit
PreRead ==
    /\ main = "loop"
    /\ \/ /\ inited
          /\ rd' = [off |-> precom, ev |-> last, got |-> << >>]
          /\ UNCHANGED pushVars
       \/ Exit

\* u2_kafk_pull_one: the next message, or none (the end of the partition).
PullOne ==
    /\ main = "loop" /\ inited /\ rd.ev # MaxEnt
    /\ rd.off < Len(log[Zero]) /\ Len(rd.got) < 2
    /\ rd' = [rd EXCEPT !.off = @ + 1, !.got = Append(@, log[Zero][rd.off + 1])]
    /\ UNCHANGED pushVars

\* u2_kafk_pull_one when rd_kafka_consume fails.
PullFailure == main = "loop" /\ inited /\ rd.ev # MaxEnt /\ Exit

Next ==
    \/ KafkInit \/ PushOva
    \/ \E m \in Msg, p \in Partition : BrokerWrite(m, p)
    \/ \E a \in acked : Delivered(a)
    \/ DeliveryFailure \/ PushReturn
    \/ \E s \in Event : Finalize(s)
    \/ PreRead \/ PullOne \/ PullFailure

Spec == Init /\ [][Next]_vars

\* The broker answers in the end (librdkafka retries, and gives up with a
\* report), the main thread goes on polling, and libuv runs its callbacks.
Fairness ==
    /\ WF_vars(\E m \in Msg, p \in Partition :
                 BrokerWrite(m, p) /\ acked' # acked)
    /\ WF_vars(\E a \in acked : Delivered(a))
    /\ WF_vars(PushReturn)
    /\ \A s \in Event : WF_vars(Finalize(s))

LiveSpec == Spec /\ Fairness

-----------------------------------------------------------------------------

\* The types of what the order of the log depends on.
KafkTypeOK ==
    /\ main \in {"loop", "ova", "fin", "dead"}
    /\ ent_d \in 0 .. MaxEnt
    /\ baton \in [Event -> {"none", "pre", "post"}]
    /\ out \subseteq Msg /\ unsent \subseteq Msg
    /\ first \in Seq(Msg)
    /\ async \subseteq Event /\ emitted \subseteq Event

Logged == {first[i] : i \in 1 .. Len(first)}

\* The broker holds the second entry of an event ("a commit of sorts",
\* kafk.c:15-17) only after its first, whatever messages librdkafka sent again
\* and whichever answers were lost.
PostHasPre ==
    \A j \in 1 .. Len(first) : first[j][2] = "post" =>
        \E i \in 1 .. (j - 1) : first[i] = <<first[j][1], "pre">>

\* First entries are in the log in the order the events were numbered, so that
\* playing the log back applies them in that order.
PreInOrder ==
    \A i, j \in 1 .. Len(first) :
        i < j /\ first[i][2] = "pre" /\ first[j][2] = "pre"
            => first[i][1] < first[j][1]

\* "We *can't emit a response until the event is logged*" (kafk.c:19-20): the
\* effects of an event are kicked only when the broker has its first entry.  It
\* does not hold for an event whose message rd_kafka_produce refused.
EmittedAfterLog == \A s \in emitted : <<s, "pre">> \in Logged

\* What holds of it: effects that are kicked with no first entry in the log are
\* those of a refused message, and of such an event nothing is logged, neither
\* entry, then or later; a message that was accepted is waited for, through
\* lost answers and resends.
EmittedUnlessRefused ==
    \A s \in emitted :
        \/ <<s, "pre">> \in Logged
        \/ <<s, "pre">> \in unsent /\ <<s, "post">> \notin Logged

\* Outside u2_kafk_push, largest_offset_seen_precom_ds is the offset of a copy
\* of the newest event's first entry: a consumer that starts there ("query
\* kafka for log entries >> there", kafk.c:160-163) misses no event.
RestartOffset ==
    main = "loop" /\ (\E s \in Event : <<s, "pre">> \in Logged) =>
        /\ last \in Event /\ \A s \in Event : <<s, "pre">> \in Logged => s <= last
        /\ precom < Len(log[Zero]) /\ log[Zero][precom + 1] = <<last, "pre">>

\* A consumer started at that offset reads the newest event's first entry
\* first, and nothing of an earlier event but a second entry that was late.
PullsNewest ==
    rd.got # << >> =>
        /\ rd.got[1] = <<rd.ev, "pre">>
        /\ \A i \in 1 .. Len(rd.got) :
             rd.got[i][2] = "pre" => rd.got[i][1] >= rd.ev

\* Every event pushed gets its second entry in the end, unless librdkafka
\* refused one of its messages, the process exited, or the broker wrote as
\* many messages to a partition as the bound allows.
Finished ==
    \A s \in Event :
        s < ent_d ~>
            \/ <<s, "post">> \in Logged
            \/ {<<s, "pre">>, <<s, "post">>} \intersect unsent # {}
            \/ main = "dead"
            \/ \E p \in Partition : Len(log[p]) = MaxWrites
=============================================================================

----------------------------- MODULE KafkProofs -----------------------------
(***************************************************************************)
(* Proofs about the Kafka log, for every number of events, partitions and  *)
(* writes of the broker, copies included: a second entry is in the log     *)
(* only after its first, first entries are in the order of the events,     *)
(* effects wait for the log, and the log without its copies implements the *)
(* abstract event log.                                                     *)
(***************************************************************************)
EXTENDS Kafk, TLAPS

Pre(s) == <<s, "pre">>

\* What is outstanding: nothing in the event loop; a first entry only of the
\* newest event, a second only of an event whose first is logged.  The baton
\* tells which of the two it is.
Outstanding ==
    /\ main = "loop" => out = {}
    /\ \A m \in out :
        /\ m[2] = "pre" => m[1] = ent_d - 1 /\ baton[m[1]] = "pre"
        /\ m[2] = "post" => baton[m[1]] = "post" /\ Pre(m[1]) \in Logged

\* What the broker answered is outstanding, logged, and answered once.
AnsweredLogged ==
    /\ \A a \in acked : a.msg \in out /\ a.msg \in Logged
    /\ \A a, b \in acked : a.msg = b.msg => a = b

\* The callback that pushes a second entry is started when the first is logged.
AsyncLogged == \A s \in async : Pre(s) \in Logged

\* The newest event's first entry is on its way while u2_kafk_push polls for it.
PushUnderWay ==
    main = "ova" => ent_d > 0 /\ Pre(ent_d - 1) \in out \union Logged \union unsent

\* The first entry of an event whose effects were kicked is logged or refused.
Kicked == \A s \in emitted : Pre(s) \in Logged \union unsent

\* The log has no event that was not numbered.
LogNumbered == \A i \in 1 .. Len(first) : first[i][1] < ent_d

\* The log holds no message twice, copies left out.
LogDistinct == \A i, j \in 1 .. Len(first) : first[i] = first[j] => i = j

\* The inductive invariant.
KafkInv ==
    /\ KafkTypeOK /\ Outstanding /\ AnsweredLogged /\ AsyncLogged /\ PushUnderWay
    /\ LogNumbered /\ LogDistinct /\ PostHasPre /\ PreInOrder /\ Kicked

-----------------------------------------------------------------------------

\* A message is an event and which of its two entries it is.
LEMMA MsgIs ==
    ASSUME NEW m \in Msg
    PROVE  /\ m[1] \in Event /\ m[2] \in {"pre", "post"} /\ m = <<m[1], m[2]>>
           /\ m[1] \in Int
BY KafkAssumption DEF Msg, Event

\* The initial state has it: nothing is pushed.
LEMMA InitKafkInv == Init => KafkInv
<1> SUFFICES ASSUME Init PROVE KafkInv
  OBVIOUS
<1>1. KafkTypeOK
  BY KafkAssumption DEF Init, KafkTypeOK, Event
<1>2. Len(first) = 0 /\ Logged = {}
  BY DEF Init, Logged
<1> QED
  BY <1>1, <1>2 DEF Init, KafkInv, Outstanding, AnsweredLogged, AsyncLogged, PushUnderWay,
     LogNumbered, LogDistinct, PostHasPre, PreInOrder, Kicked

\* What a step that leaves the log as it is has to keep.
LEMMA SameLog ==
    ASSUME KafkInv, first' = first, ent_d' \in Nat, ent_d' >= ent_d, KafkTypeOK',
           Outstanding', AnsweredLogged', AsyncLogged', PushUnderWay', Kicked'
    PROVE  KafkInv'
<1>1. LogNumbered'
  <2> SUFFICES ASSUME NEW i \in 1 .. Len(first) PROVE first[i][1] < ent_d'
    BY DEF LogNumbered
  <2>1. first[i] \in Msg
    BY DEF KafkInv, KafkTypeOK
  <2>2. first[i][1] < ent_d /\ ent_d \in Int
    BY DEF KafkInv, LogNumbered, KafkTypeOK
  <2> QED BY <2>1, <2>2, MsgIs
<1> QED BY <1>1 DEF KafkInv, LogDistinct, PostHasPre, PreInOrder, Logged

\* Exit changes none of the variables but main.
LEMMA ExitStep == ASSUME KafkInv, Exit PROVE KafkInv'
<1>1. Logged' = Logged
  BY DEF Exit, Logged
<1>2. KafkTypeOK' /\ ent_d' \in Nat /\ ent_d' >= ent_d
  BY KafkAssumption DEF KafkInv, KafkTypeOK, Exit
<1> QED
  BY <1>1, <1>2, SameLog DEF KafkInv, Exit, Outstanding, AnsweredLogged, AsyncLogged,
     PushUnderWay, Kicked

\* u2_kafk_init sets the offsets, which the invariant does not speak of.
LEMMA KafkInitStep == ASSUME KafkInv, KafkInit PROVE KafkInv'
<1>1. CASE Exit
  BY <1>1, ExitStep
<1>2. CASE ~ Exit
  <2>1. UNCHANGED <<main, ent_d, baton, out, acked, log, first, async, unsent, emitted>>
    BY <1>2 DEF KafkInit
  <2>2. Logged' = Logged
    BY <2>1 DEF Logged
  <2>3. KafkTypeOK' /\ ent_d' \in Nat /\ ent_d' >= ent_d
    BY <2>1, KafkAssumption DEF KafkInv, KafkTypeOK
  <2> QED
    BY <2>1, <2>2, <2>3, SameLog DEF KafkInv, Outstanding, AnsweredLogged, AsyncLogged,
       PushUnderWay, Kicked
<1> QED BY <1>1, <1>2

\* u2_kafk_push_ova: nothing is outstanding, so the new first entry is alone.
LEMMA PushOvaStep == ASSUME KafkInv, PushOva PROVE KafkInv'
<1>1. CASE Exit
  BY <1>1, ExitStep
<1>2. CASE ~ Exit
  <2>1. /\ main = "loop" /\ ent_d < MaxEnt /\ main' = "ova" /\ ent_d' = ent_d + 1
        /\ baton' = [baton EXCEPT ![ent_d] = "pre"]
        /\ Produce(<<ent_d, "pre">>)
        /\ UNCHANGED <<acked, first, async, emitted>>
    BY <1>2 DEF PushOva
  <2>2. ent_d \in Event /\ <<ent_d, "pre">> \in Msg /\ ent_d \in Nat
    BY <2>1, KafkAssumption DEF KafkInv, KafkTypeOK, Event, Msg
  <2>3. Logged' = Logged /\ out = {} /\ acked = {}
    BY <2>1 DEF Logged, KafkInv, Outstanding, AnsweredLogged
  <2>4. KafkTypeOK'
    BY <2>1, <2>2, KafkAssumption DEF KafkInv, KafkTypeOK, Produce
  <2>5. /\ out' \subseteq {<<ent_d, "pre">>} /\ unsent \subseteq unsent'
        /\ <<ent_d, "pre">> \in out' \union unsent'
    BY <2>1, <2>3 DEF Produce
  <2>6. baton'[ent_d] = "pre" /\ ent_d' - 1 = ent_d /\ ent_d' > 0
    BY <2>1, <2>2 DEF KafkInv, KafkTypeOK
  <2>7. Outstanding'
    BY <2>1, <2>5, <2>6 DEF Outstanding
  <2>8. PushUnderWay'
    BY <2>5, <2>6 DEF PushUnderWay, Pre
  <2>9. AnsweredLogged' /\ AsyncLogged' /\ Kicked'
    BY <2>1, <2>3, <2>5 DEF KafkInv, AnsweredLogged, AsyncLogged, Kicked
  <2> QED BY <2>1, <2>2, <2>4, <2>7, <2>8, <2>9, SameLog
<1> QED BY <1>1, <1>2

\* The broker writes an outstanding message, perhaps a copy.
LEMMA BrokerWriteStep ==
    ASSUME KafkInv, NEW m \in Msg, NEW p \in Partition, BrokerWrite(m, p)
    PROVE  KafkInv'
<1>1. /\ m \in out
      /\ UNCHANGED <<main, ent_d, baton, out, async, unsent, emitted>>
      /\ \A a \in acked' : a \in acked \/ a.msg = m
      /\ \A a, b \in acked' : a.msg = b.msg => a = b
      /\ first' = IF \E i \in 1 .. Len(first) : first[i] = m THEN first
                  ELSE Append(first, m)
  BY DEF BrokerWrite, KafkInv, AnsweredLogged
<1>2. first \in Seq(Msg) /\ ent_d \in Int
  BY DEF KafkInv, KafkTypeOK
<1>3. /\ m[1] \in Int /\ m[2] \in {"pre", "post"} /\ m = <<m[1], m[2]>>
      /\ m[2] = "pre" => m[1] = ent_d - 1
      /\ m[2] = "post" => Pre(m[1]) \in Logged
  BY <1>1, MsgIs DEF KafkInv, Outstanding
<1>4. m[1] < ent_d
  <2>1. CASE m[2] = "pre"
    BY <2>1, <1>2, <1>3
  <2>2. CASE m[2] = "post"
    <3>1. PICK i \in 1 .. Len(first) : first[i] = Pre(m[1])
      BY <2>2, <1>3 DEF Logged
    <3> QED BY <3>1 DEF KafkInv, LogNumbered, Pre
  <2> QED BY <2>1, <2>2, <1>3
<1>5. CASE \E i \in 1 .. Len(first) : first[i] = m
  <2>1. first' = first /\ Logged' = Logged /\ m \in Logged
    BY <1>1, <1>5 DEF Logged
  <2>2. KafkTypeOK'
    BY <1>1, <2>1 DEF KafkInv, KafkTypeOK
  <2> QED
    BY <1>1, <1>2, <2>1, <2>2 DEF KafkInv, Outstanding, AnsweredLogged, AsyncLogged,
       PushUnderWay, Kicked, LogNumbered, LogDistinct, PostHasPre, PreInOrder
<1>6. CASE ~ \E i \in 1 .. Len(first) : first[i] = m
  <2> DEFINE n == Len(first)
  <2>1. /\ first' = Append(first, m) /\ first' \in Seq(Msg) /\ n \in Nat
        /\ Len(first') = n + 1 /\ first'[n + 1] = m
        /\ \A i \in 1 .. n : first'[i] = first[i]
    BY <1>1, <1>2, <1>6
  <2>2. Logged \subseteq Logged' /\ m \in Logged'
    <3>1. n + 1 \in 1 .. Len(first') /\ \A i \in 1 .. n : i \in 1 .. Len(first')
      BY <2>1
    <3> HIDE DEF n
    <3>2. \A i \in 1 .. n : first[i] \in Logged'
      BY <2>1, <3>1 DEF Logged
    <3> QED BY <2>1, <3>1, <3>2 DEF Logged, n
  <2>3. \A i \in 1 .. Len(first') : i \in 1 .. n \/ i = n + 1
    BY <2>1
  <2> HIDE DEF n
  <2>4. KafkTypeOK'
    BY <1>1, <2>1 DEF KafkInv, KafkTypeOK
  <2>5. Outstanding' /\ AnsweredLogged' /\ AsyncLogged' /\ PushUnderWay' /\ Kicked'
    BY <1>1, <2>2 DEF KafkInv, Outstanding, AnsweredLogged, AsyncLogged, PushUnderWay,
       Kicked
  <2>6. LogNumbered'
    BY <1>1, <1>4, <2>1, <2>3 DEF KafkInv, LogNumbered, n
  <2>7. LogDistinct'
    BY <1>6, <2>1, <2>3 DEF KafkInv, LogDistinct, n
  <2>8. PostHasPre'
    <3> SUFFICES ASSUME NEW j \in 1 .. Len(first'), first'[j][2] = "post"
                 PROVE  \E i \in 1 .. (j - 1) : first'[i] = <<first'[j][1], "pre">>
      BY DEF PostHasPre
    <3>1. CASE j \in 1 .. n
      <4>1. PICK i \in 1 .. (j - 1) : first[i] = <<first[j][1], "pre">>
        BY <3>1, <2>1 DEF KafkInv, PostHasPre, n
      <4>2. i \in 1 .. n
        BY <3>1, <2>1
      <4> QED BY <3>1, <4>1, <4>2, <2>1
    <3>2. CASE j = n + 1
      <4>1. PICK i \in 1 .. n : first[i] = Pre(m[1])
        BY <3>2, <2>1, <1>3 DEF Logged, n
      <4> QED BY <3>2, <4>1, <2>1 DEF Pre
    <3> QED BY <3>1, <3>2, <2>3
  <2>9. PreInOrder'
    <3> SUFFICES ASSUME NEW i \in 1 .. Len(first'), NEW j \in 1 .. Len(first'), i < j,
                        first'[i][2] = "pre", first'[j][2] = "pre"
                 PROVE  first'[i][1] < first'[j][1]
      BY DEF PreInOrder
    <3>1. i \in 1 .. n
      BY <2>1, <2>3
    <3>2. CASE j \in 1 .. n
      BY <3>1, <3>2, <2>1 DEF KafkInv, PreInOrder, n
    <3>3. CASE j = n + 1
      <4>1. first[i] \in Msg /\ first[i] # m /\ first[i][2] = "pre" /\ m[2] = "pre"
        BY <3>1, <3>3, <1>2, <1>6, <2>1 DEF n
      <4>2. first[i][1] # m[1] /\ first[i][1] \in Int
        BY <4>1, <1>3, MsgIs
      <4>3. first[i][1] < ent_d
        BY <3>1 DEF KafkInv, LogNumbered, n
      <4> QED BY <3>1, <3>3, <4>1, <4>2, <4>3, <1>2, <1>3, <2>1
    <3> QED BY <3>2, <3>3, <2>3
  <2> QED BY <2>4, <2>5, <2>6, <2>7, <2>8, <2>9 DEF KafkInv
<1> QED BY <1>5, <1>6

\* The report of a first entry starts the callback, that of a second ends the
\* baton; the baton's type is that of the message.
LEMMA DeliveredStep == ASSUME KafkInv, NEW a \in acked, Delivered(a) PROVE KafkInv'
<1> DEFINE s == a.msg[1]
<1>1. /\ a.msg \in out /\ a.msg \in Logged /\ a.msg \in Msg
      /\ s \in Event /\ a.msg = <<s, a.msg[2]>> /\ a.msg[2] \in {"pre", "post"}
      /\ a.msg[2] = "pre" => baton[s] = "pre"
      /\ a.msg[2] = "post" => baton[s] = "post"
  BY MsgIs DEF KafkInv, AnsweredLogged, Outstanding, KafkTypeOK
<1>2. /\ main # "loop" /\ out' = out \ {a.msg} /\ acked' = acked \ {a}
      /\ UNCHANGED <<main, ent_d, first, unsent, emitted>>
      /\ \/ baton[s] = "post" /\ baton' = [baton EXCEPT ![s] = "none"] /\ async' = async
         \/ baton[s] # "post" /\ async' = async \union {s} /\ baton' = baton
  BY DEF Delivered
<1>3. Logged' = Logged
  BY <1>2 DEF Logged
<1>4. KafkTypeOK' /\ ent_d' \in Nat /\ ent_d' >= ent_d
  BY <1>1, <1>2, KafkAssumption DEF KafkInv, KafkTypeOK
<1>5. AsyncLogged'
  BY <1>1, <1>2, <1>3 DEF KafkInv, AsyncLogged, Pre
<1>6. \A m \in out' : m \in out /\ baton'[m[1]] = baton[m[1]]
  <2> SUFFICES ASSUME NEW m \in out, m # a.msg PROVE baton'[m[1]] = baton[m[1]]
    BY <1>2
  <2>1. /\ m[1] \in Event /\ m[2] \in {"pre", "post"} /\ m = <<m[1], m[2]>>
        /\ m[2] = "pre" => baton[m[1]] = "pre"
        /\ m[2] = "post" => baton[m[1]] = "post"
    BY MsgIs DEF KafkInv, Outstanding, KafkTypeOK
  <2>2. m[1] # s \/ baton[s] # "post"
    BY <1>1, <2>1
  <2> QED BY <1>1, <1>2, <2>1, <2>2 DEF KafkInv, KafkTypeOK
<1>7. Outstanding'
  BY <1>2, <1>3, <1>6 DEF KafkInv, Outstanding
<1>8. AnsweredLogged'
  BY <1>2, <1>3 DEF KafkInv, AnsweredLogged
<1>9. PushUnderWay' /\ Kicked'
  BY <1>1, <1>2, <1>3 DEF KafkInv, PushUnderWay, Kicked
<1> QED BY <1>2, <1>4, <1>5, <1>7, <1>8, <1>9, SameLog

\* u2_kafk_push returns with nothing outstanding, so that the event's first
\* entry, if it was not refused, is logged when its effects are kicked.
LEMMA PushReturnStep == ASSUME KafkInv, PushReturn PROVE KafkInv'
<1>1. /\ main \in {"ova", "fin"} /\ out = {} /\ main' = "loop"
      /\ emitted' = IF main = "ova" THEN emitted \union {ent_d - 1} ELSE emitted
      /\ UNCHANGED <<ent_d, baton, out, acked, first, async, unsent>>
  BY DEF PushReturn
<1>2. Logged' = Logged
  BY <1>1 DEF Logged
<1>3. main = "ova" => ent_d - 1 \in Event /\ Pre(ent_d - 1) \in Logged \union unsent
  BY <1>1, KafkAssumption DEF KafkInv, PushUnderWay, KafkTypeOK, Event
<1>4. KafkTypeOK' /\ ent_d' \in Nat /\ ent_d' >= ent_d
  BY <1>1, <1>3, KafkAssumption DEF KafkInv, KafkTypeOK
<1>5. Kicked'
  BY <1>1, <1>2, <1>3 DEF KafkInv, Kicked, Pre
<1>6. Outstanding' /\ AnsweredLogged' /\ AsyncLogged' /\ PushUnderWay'
  BY <1>1, <1>2 DEF KafkInv, Outstanding, AnsweredLogged, AsyncLogged, PushUnderWay
<1> QED BY <1>1, <1>4, <1>5, <1>6, SameLog

\* _kafka_finalize_and_emit: the first entry is logged, and the second is alone.
LEMMA FinalizeStep == ASSUME KafkInv, NEW s \in Event, Finalize(s) PROVE KafkInv'
<1>1. CASE Exit
  BY <1>1, ExitStep
<1>2. CASE ~ Exit
  <2>1. /\ main = "loop" /\ s \in async /\ async' = async \ {s} /\ main' = "fin"
        /\ baton' = [baton EXCEPT ![s] = "post"]
        /\ Produce(<<s, "post">>)
        /\ UNCHANGED <<ent_d, acked, first, emitted>>
    BY <1>2 DEF Finalize
  <2>2. Logged' = Logged /\ out = {} /\ acked = {} /\ <<s, "post">> \in Msg
    BY <2>1 DEF Logged, KafkInv, Outstanding, AnsweredLogged, Msg
  <2>3. out' \subseteq {<<s, "post">>} /\ unsent \subseteq unsent'
    BY <2>1, <2>2 DEF Produce
  <2>4. baton'[s] = "post" /\ Pre(s) \in Logged
    BY <2>1 DEF KafkInv, KafkTypeOK, AsyncLogged
  <2>5. KafkTypeOK' /\ ent_d' \in Nat /\ ent_d' >= ent_d
    <3>1. KafkTypeOK /\ ent_d \in Nat
      BY KafkAssumption DEF KafkInv, KafkTypeOK
    <3>2. out' \subseteq Msg /\ unsent' \subseteq Msg
      BY <2>1, <2>2, <3>1 DEF Produce, KafkTypeOK
    <3>3. baton' \in [Event -> {"none", "pre", "post"}] /\ async' \subseteq Event
      BY <2>1, <3>1 DEF KafkTypeOK
    <3> QED BY <2>1, <3>1, <3>2, <3>3 DEF KafkTypeOK
  <2>6. Outstanding'
    BY <2>1, <2>2, <2>3, <2>4 DEF Outstanding
  <2>7. AnsweredLogged' /\ AsyncLogged' /\ PushUnderWay' /\ Kicked'
    BY <2>1, <2>2, <2>3 DEF KafkInv, AnsweredLogged, AsyncLogged, PushUnderWay,
       Kicked
  <2> QED BY <2>1, <2>5, <2>6, <2>7, SameLog
<1> QED BY <1>1, <1>2

\* The consumer, and stuttering, change nothing the invariant speaks of.
LEMMA ReadStep == ASSUME KafkInv, UNCHANGED pushVars PROVE KafkInv'
<1>1. Logged' = Logged
  BY DEF pushVars, Logged
<1>2. KafkTypeOK' /\ ent_d' \in Nat /\ ent_d' >= ent_d
  BY KafkAssumption DEF KafkInv, KafkTypeOK, pushVars
<1> QED
  BY <1>1, <1>2, SameLog DEF KafkInv, pushVars, Outstanding, AnsweredLogged, AsyncLogged,
     PushUnderWay, Kicked

\* One step of any kind.
LEMMA NextKafkInv == KafkInv /\ [Next]_vars => KafkInv'
<1> SUFFICES ASSUME KafkInv, [Next]_vars PROVE KafkInv'
  OBVIOUS
<1>1. CASE KafkInit
  BY <1>1, KafkInitStep
<1>2. CASE PushOva
  BY <1>2, PushOvaStep
<1>3. CASE \E m \in Msg, p \in Partition : BrokerWrite(m, p)
  BY <1>3, BrokerWriteStep
<1>4. CASE \E a \in acked : Delivered(a)
  BY <1>4, DeliveredStep
<1>5. CASE DeliveryFailure
  BY <1>5, ExitStep DEF DeliveryFailure
<1>6. CASE PushReturn
  BY <1>6, PushReturnStep
<1>7. CASE \E s \in Event : Finalize(s)
  BY <1>7, FinalizeStep
<1>8. CASE PreRead \/ PullOne
  BY <1>8, ExitStep, ReadStep DEF PreRead, PullOne
<1>9. CASE PullFailure
  BY <1>9, ExitStep DEF PullFailure
<1>10. CASE UNCHANGED vars
  BY <1>10, ReadStep DEF vars
<1> QED
  BY <1>1, <1>2, <1>3, <1>4, <1>5, <1>6, <1>7, <1>8, <1>9, <1>10 DEF Next

-----------------------------------------------------------------------------

\* The inductive invariant of the Kafka log holds in every reachable state.
THEOREM KafkInvCorrect == Spec => []KafkInv
BY InitKafkInv, NextKafkInv, PTL DEF Spec

\* The broker has the second entry of an event only after its first, whatever
\* is sent again, lost or refused.
THEOREM SecondAfterFirst == Spec => []PostHasPre
<1>1. KafkInv => PostHasPre
  BY DEF KafkInv
<1> QED BY <1>1, KafkInvCorrect, PTL

\* First entries are in the log in the order of the events' numbers.
THEOREM EventsInOrder == Spec => []PreInOrder
<1>1. KafkInv => PreInOrder
  BY DEF KafkInv
<1> QED BY <1>1, KafkInvCorrect, PTL

\* u2_raft_work kicks an event's effects when the broker has its first entry;
\* only a message librdkafka refused is not waited for, and of its event the
\* broker has neither entry.
THEOREM EffectsAfterLog == Spec => []EmittedUnlessRefused
<1>1. KafkInv => EmittedUnlessRefused
  <2> SUFFICES ASSUME KafkInv, NEW s \in emitted, <<s, "pre">> \notin Logged
               PROVE  <<s, "pre">> \in unsent /\ <<s, "post">> \notin Logged
    BY DEF EmittedUnlessRefused
  <2>1. <<s, "pre">> \in unsent
    BY DEF KafkInv, Kicked, Pre
  <2>2. <<s, "post">> \notin Logged
    <3> SUFFICES ASSUME NEW j \in 1 .. Len(first), first[j] = <<s, "post">> PROVE FALSE
      BY DEF Logged
    <3>1. first[j][1] = s /\ first[j][2] = "post"
      OBVIOUS
    <3>2. PICK i \in 1 .. (j - 1) : first[i] = <<s, "pre">>
      BY <3>1 DEF KafkInv, PostHasPre
    <3>3. i \in 1 .. Len(first)
      BY DEF KafkInv, KafkTypeOK
    <3> QED BY <3>2, <3>3 DEF Logged
  <2> QED BY <2>1, <2>2
<1> QED BY <1>1, KafkInvCorrect, PTL

\* What the order of the log depends on keeps its type, an event's number below
\* MaxEnt included.
THEOREM KafkTypesCorrect == Spec => []KafkTypeOK
<1>1. KafkInv => KafkTypeOK
  BY DEF KafkInv
<1> QED BY <1>1, KafkInvCorrect, PTL

\* The abstract event log, of what the broker wrote without the copies.
Promise == INSTANCE EventLog WITH log <- first, Tears <- FALSE

\* What the broker wrote, without the copies, is an event log as egz.hope is:
\* no entry twice, nor a second entry before its first.
THEOREM KafkImplementsEventLog == Spec => Promise!Spec
<1>1. Init => Promise!Init
  BY DEF Init, Promise!Init
<1>2. KafkInv /\ KafkInv' /\ [Next]_vars => [Promise!Next]_first
  <2> SUFFICES ASSUME KafkInv, KafkInv', [Next]_vars, first' # first PROVE Promise!Next
    OBVIOUS
  <2>1. PICK m \in Msg, p \in Partition : BrokerWrite(m, p)
    BY DEF Next, KafkInit, PushOva, Delivered, DeliveryFailure, PushReturn, Finalize,
       PreRead, PullOne, PullFailure, Exit, vars, pushVars
  <2>2. first' = Append(first, m) /\ m \notin Logged
    BY <2>1 DEF BrokerWrite, Logged
  <2>3. m[1] \in Event /\ m[2] \in {"pre", "post"} /\ m = <<m[1], m[2]>>
    BY MsgIs
  <2>4. m[2] = "pre" => <<m[1], "post">> \notin Logged
    <3> SUFFICES ASSUME m[2] = "pre", <<m[1], "post">> \in Logged PROVE FALSE
      OBVIOUS
    <3>1. PICK j \in 1 .. Len(first) : first[j] = <<m[1], "post">>
      BY DEF Logged
    <3>2. PICK i \in 1 .. (j - 1) : first[i] = <<m[1], "pre">>
      <4>1. first[j][2] = "post" /\ first[j][1] = m[1]
        BY <3>1
      <4> QED BY <4>1 DEF KafkInv, PostHasPre
    <3>3. i \in 1 .. Len(first)
      BY <3>1, <3>2 DEF KafkInv, KafkTypeOK
    <3> QED BY <2>2, <2>3, <3>2, <3>3 DEF Logged
  <2>5. Promise!Written = Logged
    BY DEF Promise!Written, Logged
  <2>6. Promise!Add(m[1], m[2])
    BY <2>2, <2>3, <2>4, <2>5 DEF Promise!Add
  <2> QED BY <2>3, <2>6 DEF Promise!Next
<1> QED BY <1>1, <1>2, KafkInvCorrect, PTL DEF Spec, Promise!Spec
-----------------------------------------------------------------------------
(***************************************************************************)
(* Offsets, for a topic of one partition: the offset u2_kafk_pre_read      *)
(* starts from is that of the newest event's first entry.                  *)
(***************************************************************************)

\* In z, offset k has the first entry of s, and no earlier event's follows.
StartsAt(z, k, s) ==
    /\ k \in Nat /\ k < Len(z) /\ z[k + 1] = Pre(s)
    /\ \A i \in 1 .. Len(z) : i > k /\ z[i][2] = "pre" => z[i][1] >= s

\* Nothing is pushed, and nothing can be read, before u2_kafk_init.
NothingYet == inited \/ (out = {} /\ Logged = {} /\ rd.ev = MaxEnt)

\* The answer to a first entry has an offset to start from.
AnswerStarts ==
    \A a \in acked : a.msg[2] = "pre" => StartsAt(log[Zero], a.off, a.msg[1])

\* So has the last report of one.
LastStarts ==
    /\ precom \in Nat
    /\ last # MaxEnt => last \in Event /\ last < ent_d /\ StartsAt(log[Zero], precom, last)

\* A first entry was reported, or a later one was, unless it is outstanding.
NewestReported ==
    \A s \in Event : Pre(s) \in Logged => Pre(s) \in out \/ (last # MaxEnt /\ s <= last)

\* The consumer has read on from where it started.
ReadOn ==
    /\ rd \in [off : Nat, ev : 0 .. MaxEnt, got : Seq(Msg)]
    /\ rd.ev = MaxEnt => rd.got = << >>
    /\ rd.ev # MaxEnt =>
        /\ rd.ev < ent_d /\ Len(rd.got) <= rd.off /\ rd.off <= Len(log[Zero])
        /\ StartsAt(log[Zero], rd.off - Len(rd.got), rd.ev)
        /\ \A i \in 1 .. Len(rd.got) : rd.got[i] = log[Zero][rd.off - Len(rd.got) + i]

\* The inductive invariant of the offsets.
OffsetInv ==
    /\ log \in [Partition -> Seq(Msg)]
    /\ NothingYet /\ AnswerStarts /\ LastStarts /\ NewestReported /\ ReadOn

\* An offset stays one to start from when something newer is written.
LEMMA StartsAppend ==
    ASSUME NEW z \in Seq(Msg), NEW k, NEW s \in Event, StartsAt(z, k, s),
           NEW m \in Msg, m[2] = "pre" => m[1] >= s
    PROVE  StartsAt(Append(z, m), k, s)
<1>1. /\ Len(Append(z, m)) = Len(z) + 1 /\ Len(z) \in Nat
      /\ \A i \in 1 .. Len(z) : Append(z, m)[i] = z[i]
      /\ Append(z, m)[Len(z) + 1] = m
  OBVIOUS
<1>2. k \in Nat /\ k < Len(z) /\ k + 1 \in 1 .. Len(z)
  BY <1>1 DEF StartsAt
<1>3. \A i \in 1 .. (Len(z) + 1) : i \in 1 .. Len(z) \/ i = Len(z) + 1
  BY <1>1
<1>4. k < Len(z) + 1
  BY <1>1, <1>2
<1> QED BY <1>1, <1>2, <1>3, <1>4 DEF StartsAt

\* The invariant does not speak of main, the batons, callbacks and effects.
LEMMA OffsetsUnchanged ==
    ASSUME OffsetInv, UNCHANGED <<inited, ent_d, out, acked, log, first, precom, last, rd>>
    PROVE  OffsetInv'
<1>1. Logged' = Logged
  BY DEF Logged
<1>2. NothingYet' /\ AnswerStarts' /\ NewestReported'
  BY <1>1 DEF OffsetInv, NothingYet, AnswerStarts, NewestReported
<1>3. LastStarts' /\ ReadOn'
  BY DEF OffsetInv, LastStarts, ReadOn
<1> QED BY <1>2, <1>3 DEF OffsetInv

\* A step that leaves the logs, the answers and the offsets alone.
LEMMA OffsetsSame ==
    ASSUME KafkInv, OffsetInv, UNCHANGED <<log, first, acked, precom, last, rd>>,
           inited' = inited, out \subseteq out', out' = {} \/ inited,
           ent_d' \in Int, ent_d' >= ent_d
    PROVE  OffsetInv'
<1>1. ent_d \in Int /\ Logged' = Logged
  BY DEF KafkInv, KafkTypeOK, Logged
<1>2. NothingYet'
  BY <1>1 DEF OffsetInv, NothingYet
<1>3. AnswerStarts' /\ NewestReported'
  BY <1>1 DEF OffsetInv, AnswerStarts, NewestReported
<1>4. LastStarts'
  <2>1. last # MaxEnt => last \in Int
    BY DEF OffsetInv, LastStarts, Event
  <2> QED BY <1>1, <2>1 DEF OffsetInv, LastStarts
<1>5. ReadOn'
  <2>1. rd.ev \in Int
    BY DEF OffsetInv, ReadOn
  <2> QED BY <1>1, <2>1 DEF OffsetInv, ReadOn
<1> QED BY <1>2, <1>3, <1>4, <1>5 DEF OffsetInv

\* The broker writes: what is newer than all first entries, or a second entry.
LEMMA OffsetsWrite ==
    ASSUME KafkInv, OffsetInv, Partition = {Zero},
           NEW m \in Msg, NEW p \in Partition, BrokerWrite(m, p)
    PROVE  OffsetInv'
<1> DEFINE z == log[Zero]
           z2 == Append(z, m)
<1>1. /\ m \in out /\ p = Zero /\ log' = [log EXCEPT ![Zero] = z2]
      /\ UNCHANGED <<main, inited, ent_d, out, precom, last, rd>>
      /\ \A a \in acked' : a \in acked \/ (a.msg = m /\ a.off = Len(z))
      /\ first' = IF \E i \in 1 .. Len(first) : first[i] = m THEN first
                  ELSE Append(first, m)
  BY DEF BrokerWrite, Offset
<1>2. z \in Seq(Msg) /\ z2 \in Seq(Msg) /\ log' \in [Partition -> Seq(Msg)] /\ log'[Zero] = z2
  BY <1>1 DEF OffsetInv
<1>3. /\ Len(z) \in Nat /\ Len(z2) = Len(z) + 1 /\ z2[Len(z) + 1] = m
      /\ \A i \in 1 .. Len(z) : z2[i] = z[i]
  BY <1>2
<1>4. /\ m[1] \in Event /\ m[2] \in {"pre", "post"} /\ m = <<m[1], m[2]>> /\ m[1] \in Int
      /\ m[2] = "pre" => m[1] = ent_d - 1 /\ m = Pre(m[1])
  BY <1>1, MsgIs DEF KafkInv, Outstanding, Pre
<1>5. ent_d \in Int
  BY DEF KafkInv, KafkTypeOK
<1>6. ASSUME NEW k, NEW s \in Event, s < ent_d, StartsAt(z, k, s) PROVE StartsAt(z2, k, s)
  <2>1. m[2] = "pre" => m[1] >= s
    BY <1>4, <1>5, <1>6 DEF Event
  <2> QED BY <1>2, <1>6, <2>1, StartsAppend
<1> HIDE DEF z2
<1>7. NothingYet'
  BY <1>1 DEF OffsetInv, NothingYet
<1>8. AnswerStarts'
  <2> SUFFICES ASSUME NEW a \in acked', a.msg[2] = "pre" PROVE StartsAt(z2, a.off, a.msg[1])
    BY <1>2 DEF AnswerStarts
  <2>1. CASE a \in acked
    <3>1. a.msg \in out /\ a.msg \in Msg
      BY <2>1 DEF KafkInv, AnsweredLogged, KafkTypeOK
    <3>2. a.msg[1] = ent_d - 1 /\ a.msg[1] \in Event
      BY <3>1, MsgIs DEF KafkInv, Outstanding
    <3>3. StartsAt(z, a.off, a.msg[1]) /\ a.msg[1] < ent_d
      BY <2>1, <3>2, <1>5 DEF OffsetInv, AnswerStarts
    <3> QED BY <3>2, <3>3, <1>6
  <2>2. CASE a.msg = m /\ a.off = Len(z)
    <3>1. \A i \in 1 .. Len(z2) : i > Len(z) => i = Len(z) + 1
      BY <1>3
    <3> QED BY <2>2, <3>1, <1>3, <1>4 DEF StartsAt
  <2> QED BY <2>1, <2>2, <1>1
<1>9. LastStarts'
  BY <1>1, <1>2, <1>6 DEF OffsetInv, LastStarts
<1>10. NewestReported'
  <2>1. \A s \in Event : Pre(s) \in Logged' => Pre(s) \in Logged \/ Pre(s) = m
    <3>1. first \in Seq(Msg)
      BY DEF KafkInv, KafkTypeOK
    <3>2. \A i \in 1 .. Len(first') : first'[i] = m \/ first'[i] \in Logged
      <4>1. CASE first' = first
        BY <4>1 DEF Logged
      <4>2. CASE first' = Append(first, m)
        <5>1. \A i \in 1 .. Len(first') : i \in 1 .. Len(first) \/ i = Len(first) + 1
          BY <4>2, <3>1
        <5>2. \A i \in 1 .. Len(first) : first'[i] = first[i]
          BY <4>2, <3>1
        <5>3. first'[Len(first) + 1] = m
          BY <4>2, <3>1
        <5> QED BY <5>1, <5>2, <5>3 DEF Logged
      <4> QED BY <4>1, <4>2, <1>1
    <3> QED BY <3>2 DEF Logged
  <2> QED BY <1>1, <2>1 DEF OffsetInv, NewestReported
<1>11. ReadOn'
  <2>1. /\ rd.off \in Nat /\ rd.ev \in 0 .. MaxEnt /\ rd.got \in Seq(Msg)
    BY DEF OffsetInv, ReadOn
  <2>2. ASSUME rd.ev # MaxEnt
        PROVE  /\ rd.off <= Len(z2) /\ StartsAt(z2, rd.off - Len(rd.got), rd.ev)
               /\ \A i \in 1 .. Len(rd.got) : rd.got[i] = z2[rd.off - Len(rd.got) + i]
    <3>1. /\ rd.ev < ent_d /\ Len(rd.got) <= rd.off /\ rd.off <= Len(z)
          /\ StartsAt(z, rd.off - Len(rd.got), rd.ev)
          /\ \A i \in 1 .. Len(rd.got) : rd.got[i] = z[rd.off - Len(rd.got) + i]
      BY <2>2 DEF OffsetInv, ReadOn
    <3>2. rd.ev \in Event
      BY <2>1, <2>2, KafkAssumption DEF Event
    <3>3. \A i \in 1 .. Len(rd.got) : rd.off - Len(rd.got) + i \in 1 .. Len(z)
      BY <2>1, <3>1, <1>3
    <3>4. rd.off <= Len(z2)
      BY <2>1, <3>1, <1>3
    <3>5. StartsAt(z2, rd.off - Len(rd.got), rd.ev)
      BY <3>1, <3>2, <1>6
    <3> QED BY <3>1, <3>3, <3>4, <3>5, <1>3
  <2> QED BY <1>1, <1>2, <2>2 DEF OffsetInv, ReadOn
<1> QED BY <1>2, <1>7, <1>8, <1>9, <1>10, <1>11 DEF OffsetInv

\* A report: a first entry that is outstanding is the newest.
LEMMA OffsetsDelivered ==
    ASSUME KafkInv, OffsetInv, NEW a \in acked, Delivered(a)
    PROVE  OffsetInv'
<1> DEFINE s == a.msg[1]
<1>1. /\ a.msg \in out /\ a.msg \in Msg /\ s \in Event /\ s \in Int
      /\ a.msg = <<s, a.msg[2]>> /\ a.msg[2] \in {"pre", "post"}
      /\ a.msg[2] = "pre" => baton[s] = "pre" /\ s = ent_d - 1
      /\ a.msg[2] = "post" => baton[s] = "post"
  BY MsgIs DEF KafkInv, AnsweredLogged, Outstanding, KafkTypeOK
<1>2. /\ out' = out \ {a.msg} /\ acked' = acked \ {a}
      /\ UNCHANGED <<inited, ent_d, log, first, rd>>
      /\ precom' = IF baton[s] = "pre" THEN a.off ELSE precom
      /\ last' = IF baton[s] = "pre" THEN s ELSE last
  BY DEF Delivered, PrecomAfter
<1>3. ent_d \in Int /\ Logged' = Logged /\ MaxEnt \in Int /\ s # MaxEnt
  BY <1>1, <1>2, KafkAssumption DEF KafkInv, KafkTypeOK, Logged, Event
<1>4. NothingYet' /\ AnswerStarts' /\ ReadOn'
  <2>1. NothingYet'
    BY <1>1, <1>2, <1>3 DEF OffsetInv, NothingYet
  <2>2. AnswerStarts'
    BY <1>2 DEF OffsetInv, AnswerStarts
  <2> QED BY <1>2, <2>1, <2>2 DEF OffsetInv, ReadOn
<1>5. CASE a.msg[2] = "pre"
  <2>1. precom' = a.off /\ last' = s /\ s = ent_d - 1 /\ a.msg = Pre(s)
    BY <1>1, <1>2, <1>5 DEF Pre
  <2>2. StartsAt(log[Zero], a.off, s)
    BY <1>5 DEF OffsetInv, AnswerStarts
  <2>3. LastStarts'
    <3>1. a.off \in Nat
      BY <2>2 DEF StartsAt
    <3> QED BY <1>1, <1>2, <1>3, <2>1, <2>2, <3>1 DEF LastStarts
  <2>4. NewestReported'
    <3>1. last # MaxEnt => last \in Int /\ last < ent_d
      BY DEF OffsetInv, LastStarts, Event
    <3>2. \A r \in Event : r \in Int
      BY DEF Event
    <3>3. \A r \in Event : Pre(r) = Pre(s) => r = s
      BY DEF Pre
    <3> QED BY <1>1, <1>2, <1>3, <2>1, <3>1, <3>2, <3>3 DEF OffsetInv, NewestReported
  <2> QED BY <1>2, <1>4, <2>3, <2>4 DEF OffsetInv
<1>6. CASE a.msg[2] = "post"
  <2>1. precom' = precom /\ last' = last
    BY <1>1, <1>2, <1>6
  <2>2. \A r \in Event : Pre(r) # a.msg
    BY <1>1, <1>6 DEF Pre
  <2>3. NewestReported'
    BY <1>2, <1>3, <2>1, <2>2 DEF OffsetInv, NewestReported
  <2> QED BY <1>2, <1>4, <2>1, <2>3 DEF OffsetInv, LastStarts
<1> QED BY <1>1, <1>5, <1>6

\* u2_kafk_pre_read starts at the last report.
LEMMA OffsetsPreRead ==
    ASSUME KafkInv, OffsetInv, inited, rd' = [off |-> precom, ev |-> last, got |-> << >>],
           UNCHANGED pushVars
    PROVE  OffsetInv'
<1>1. UNCHANGED <<inited, ent_d, out, acked, log, first, precom, last>>
  BY DEF pushVars
<1>2. /\ rd'.off = precom /\ rd'.ev = last /\ rd'.got = << >> /\ precom \in Nat
      /\ Len(rd'.got) = 0 /\ MaxEnt \in Nat
  BY KafkAssumption DEF OffsetInv, LastStarts
<1>3. last # MaxEnt => last \in 0 .. MaxEnt /\ last < ent_d /\ StartsAt(log[Zero], precom, last)
  BY <1>2 DEF OffsetInv, LastStarts, Event
<1>4. rd' \in [off : Nat, ev : 0 .. MaxEnt, got : Seq(Msg)]
  BY <1>2, <1>3
<1>5. last # MaxEnt => precom <= Len(log[Zero])
  <2>1. Zero \in Partition /\ log[Zero] \in Seq(Msg)
    BY KafkAssumption DEF OffsetInv
  <2> QED BY <1>2, <1>3, <2>1 DEF StartsAt
<1>6. precom - 0 = precom /\ 0 <= precom
  BY <1>2
<1>7. ReadOn'
  BY <1>1, <1>2, <1>3, <1>4, <1>5, <1>6 DEF ReadOn
<1>8. NothingYet' /\ AnswerStarts' /\ LastStarts' /\ NewestReported'
  BY <1>1 DEF OffsetInv, NothingYet, AnswerStarts, LastStarts, NewestReported, Logged
<1> QED BY <1>1, <1>7, <1>8 DEF OffsetInv

\* u2_kafk_pull_one reads on.
LEMMA OffsetsPull == ASSUME KafkInv, OffsetInv, PullOne PROVE OffsetInv'
<1> DEFINE z == log[Zero]
           g == rd.got
<1>1. /\ UNCHANGED <<inited, ent_d, out, acked, log, first, precom, last>>
      /\ inited /\ rd.ev # MaxEnt /\ rd.off < Len(z)
      /\ rd' = [rd EXCEPT !.off = @ + 1, !.got = Append(@, z[rd.off + 1])]
  BY DEF PullOne, pushVars
<1>2. z \in Seq(Msg) /\ Len(z) \in Nat
  BY KafkAssumption DEF OffsetInv
<1>3. /\ rd \in [off : Nat, ev : 0 .. MaxEnt, got : Seq(Msg)]
      /\ rd.ev < ent_d /\ Len(g) <= rd.off /\ rd.off <= Len(z)
      /\ StartsAt(z, rd.off - Len(g), rd.ev)
      /\ \A i \in 1 .. Len(g) : g[i] = z[rd.off - Len(g) + i]
  BY <1>1 DEF OffsetInv, ReadOn
<1>4. rd.off + 1 \in 1 .. Len(z) /\ z[rd.off + 1] \in Msg
  BY <1>1, <1>2, <1>3
<1>5. /\ rd'.off = rd.off + 1 /\ rd'.ev = rd.ev /\ rd'.got = Append(g, z[rd.off + 1])
      /\ rd' \in [off : Nat, ev : 0 .. MaxEnt, got : Seq(Msg)]
  <2>1. rd.off \in Nat /\ rd.ev \in 0 .. MaxEnt /\ rd.got \in Seq(Msg)
    BY <1>3
  <2>2. rd' = [off |-> rd.off + 1, ev |-> rd.ev, got |-> Append(g, z[rd.off + 1])]
    BY <1>1, <1>3
  <2>3. rd.off + 1 \in Nat /\ Append(g, z[rd.off + 1]) \in Seq(Msg)
    BY <2>1, <1>4
  <2> HIDE DEF z, g
  <2> QED BY <2>1, <2>2, <2>3
<1>6. /\ Len(g) \in Nat /\ Len(rd'.got) = Len(g) + 1
      /\ \A i \in 1 .. Len(g) : rd'.got[i] = g[i]
      /\ rd'.got[Len(g) + 1] = z[rd.off + 1]
  BY <1>3, <1>4, <1>5
<1>7. rd'.off - Len(rd'.got) = rd.off - Len(g) /\ rd.off - Len(g) + (Len(g) + 1) = rd.off + 1
  BY <1>3, <1>5, <1>6
<1>8. \A i \in 1 .. Len(rd'.got) : i \in 1 .. Len(g) \/ i = Len(g) + 1
  BY <1>6
<1> HIDE DEF g
<1>9. \A i \in 1 .. Len(rd'.got) : rd'.got[i] = z[rd'.off - Len(rd'.got) + i]
  BY <1>3, <1>6, <1>7, <1>8
<1>10. Len(rd'.got) <= rd'.off /\ rd'.off <= Len(z)
  BY <1>1, <1>2, <1>3, <1>5, <1>6
<1>11. ReadOn'
  BY <1>1, <1>3, <1>5, <1>7, <1>9, <1>10 DEF ReadOn
<1>12. NothingYet' /\ AnswerStarts' /\ LastStarts' /\ NewestReported'
  BY <1>1 DEF OffsetInv, NothingYet, AnswerStarts, LastStarts, NewestReported, Logged
<1> QED BY <1>1, <1>11, <1>12 DEF OffsetInv

\* u2_kafk_init resets the offsets when there is nothing they could be of.
LEMMA OffsetsInit == ASSUME KafkInv, OffsetInv, KafkInit, ~ Exit PROVE OffsetInv'
<1>1. /\ ~ inited /\ inited' /\ last' = MaxEnt /\ precom' = 0
      /\ UNCHANGED <<ent_d, out, acked, log, first, rd>>
  BY DEF KafkInit
<1>2. out = {} /\ Logged = {} /\ rd.ev = MaxEnt
  BY <1>1 DEF OffsetInv, NothingYet
<1>3. acked = {}
  BY <1>2 DEF KafkInv, AnsweredLogged
<1>4. NothingYet' /\ AnswerStarts' /\ LastStarts'
  BY <1>1, <1>3 DEF NothingYet, AnswerStarts, LastStarts
<1>5. NewestReported'
  BY <1>1, <1>2 DEF NewestReported, Logged
<1> QED BY <1>1, <1>4, <1>5 DEF OffsetInv, ReadOn

\* One step of any kind.
LEMMA NextOffsetInv ==
    ASSUME Partition = {Zero}, KafkInv, OffsetInv, [Next]_vars PROVE OffsetInv'
<1>0. ent_d \in Int
  BY DEF KafkInv, KafkTypeOK
<1>1. CASE Exit
  BY <1>1, OffsetsUnchanged DEF Exit
<1>2. CASE KafkInit /\ ~ Exit
  BY <1>2, OffsetsInit
<1>3. CASE PushOva /\ ~ Exit
  <2>1. /\ inited /\ inited' = inited /\ ent_d' = ent_d + 1 /\ Produce(<<ent_d, "pre">>)
        /\ UNCHANGED <<log, first, acked, precom, last, rd>>
    BY <1>3 DEF PushOva
  <2>2. out \subseteq out'
    BY <2>1 DEF Produce
  <2> QED BY <1>0, <2>1, <2>2, OffsetsSame
<1>4. CASE \E m \in Msg, p \in Partition : BrokerWrite(m, p)
  BY <1>4, OffsetsWrite
<1>5. CASE \E a \in acked : Delivered(a)
  BY <1>5, OffsetsDelivered
<1>6. CASE PushReturn
  BY <1>0, <1>6, OffsetsSame DEF PushReturn
<1>7. ASSUME NEW s \in Event, Finalize(s), ~ Exit PROVE OffsetInv'
  <2>1. /\ s \in async /\ inited' = inited /\ ent_d' = ent_d /\ Produce(<<s, "post">>)
        /\ UNCHANGED <<log, first, acked, precom, last, rd>>
    BY <1>7 DEF Finalize
  <2>2. out \subseteq out'
    BY <2>1 DEF Produce
  <2>3. inited
    BY <2>1 DEF KafkInv, AsyncLogged, OffsetInv, NothingYet
  <2> QED BY <1>0, <2>1, <2>2, <2>3, OffsetsSame
<1>8. CASE PreRead /\ ~ Exit
  BY <1>8, OffsetsPreRead DEF PreRead
<1>9. CASE PullOne
  BY <1>9, OffsetsPull
<1>10. CASE DeliveryFailure \/ PullFailure
  BY <1>1, <1>10 DEF DeliveryFailure, PullFailure
<1>11. CASE UNCHANGED vars
  BY <1>11, OffsetsUnchanged DEF vars, pushVars
<1> QED
  BY <1>1, <1>2, <1>3, <1>4, <1>5, <1>6, <1>7, <1>8, <1>9, <1>10, <1>11 DEF Next

\* The inductive invariant of the offsets holds in every reachable state, when
\* the topic has one partition.
THEOREM OffsetInvCorrect ==
    ASSUME Partition = {Zero}
    PROVE  Spec => []OffsetInv
<1>1. Init => OffsetInv
  <2> SUFFICES ASSUME Init PROVE OffsetInv
    OBVIOUS
  <2>1. /\ log = [p \in Partition |-> << >>] /\ first = << >> /\ out = {} /\ acked = {}
        /\ precom = 0 /\ last = MaxEnt /\ rd = [off |-> 0, ev |-> MaxEnt, got |-> << >>]
    BY DEF Init
  <2>2. Logged = {}
    BY <2>1 DEF Logged
  <2> QED
    BY <2>1, <2>2, KafkAssumption DEF OffsetInv, NothingYet, AnswerStarts, LastStarts,
       NewestReported, ReadOn
<1>2. KafkInv /\ OffsetInv /\ [Next]_vars => OffsetInv'
  BY NextOffsetInv
<1> QED BY <1>1, <1>2, KafkInvCorrect, PTL DEF Spec

\* Outside u2_kafk_push, largest_offset_seen_precom_ds is the offset of a copy of
\* the newest event's first entry, when the topic has one partition.
THEOREM OffsetOfNewest ==
    ASSUME Partition = {Zero}
    PROVE  Spec => []RestartOffset
<1>1. KafkInv /\ OffsetInv => RestartOffset
  <2> SUFFICES ASSUME KafkInv, OffsetInv, main = "loop",
                      \E s \in Event : <<s, "pre">> \in Logged
               PROVE  /\ last \in Event
                      /\ \A s \in Event : <<s, "pre">> \in Logged => s <= last
                      /\ precom < Len(log[Zero]) /\ log[Zero][precom + 1] = <<last, "pre">>
    BY DEF RestartOffset
  <2>1. out = {}
    BY DEF KafkInv, Outstanding
  <2>2. last # MaxEnt /\ \A s \in Event : <<s, "pre">> \in Logged => s <= last
    BY <2>1 DEF OffsetInv, NewestReported, Pre
  <2> QED BY <2>2 DEF OffsetInv, LastStarts, StartsAt, Pre
<1> QED BY <1>1, KafkInvCorrect, OffsetInvCorrect, PTL

\* A consumer started there reads the newest event's first entry first, and no
\* earlier event's first entry after it.
THEOREM ConsumerPullsNewest ==
    ASSUME Partition = {Zero}
    PROVE  Spec => []PullsNewest
<1>1. OffsetInv => PullsNewest
  <2> SUFFICES ASSUME OffsetInv, rd.got # << >>
               PROVE  /\ rd.got[1] = <<rd.ev, "pre">>
                      /\ \A i \in 1 .. Len(rd.got) :
                           rd.got[i][2] = "pre" => rd.got[i][1] >= rd.ev
    BY DEF PullsNewest
  <2> DEFINE n == rd.off - Len(rd.got)
  <2>1. /\ rd.got \in Seq(Msg) /\ rd.off \in Nat /\ Len(rd.got) <= rd.off
        /\ rd.off <= Len(log[Zero]) /\ StartsAt(log[Zero], n, rd.ev)
        /\ \A i \in 1 .. Len(rd.got) : rd.got[i] = log[Zero][n + i]
    BY DEF OffsetInv, ReadOn
  <2>2. log[Zero] \in Seq(Msg)
    BY KafkAssumption DEF OffsetInv
  <2>3. Len(rd.got) \in Nat /\ 1 \in 1 .. Len(rd.got) /\ n \in Int /\ Len(log[Zero]) \in Nat
    BY <2>1, <2>2
  <2>4. \A i \in 1 .. Len(rd.got) : n + i \in 1 .. Len(log[Zero]) /\ n + i > n
    BY <2>1, <2>3
  <2>5. log[Zero][n + 1] = <<rd.ev, "pre">>
    BY <2>1 DEF StartsAt, Pre
  <2>6. \A i \in 1 .. Len(log[Zero]) :
            i > n /\ log[Zero][i][2] = "pre" => log[Zero][i][1] >= rd.ev
    BY <2>1 DEF StartsAt
  <2> HIDE DEF n
  <2> QED BY <2>1, <2>3, <2>4, <2>5, <2>6
<1> QED BY <1>1, OffsetInvCorrect, PTL
=============================================================================

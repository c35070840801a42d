------------------------------ MODULE EventLog ------------------------------
(***************************************************************************)
(* What the event log promises about its contents: an entry is written at  *)
(* most once, and never the first entry of an event (LOG_MSG_PRECOMMIT)    *)
(* after its second (LOG_MSG_POSTCOMMIT).  Where writes can be short, the  *)
(* parts of entries they leave are told from entries.                      *)
(***************************************************************************)
EXTENDS Naturals, Sequences

CONSTANT Event,     \* the events, by sequence number
         Tears      \* whether a write can leave a part of an entry
VARIABLE log        \* what was written so far, oldest first

Written == {log[i] : i \in 1 .. Len(log)}

Add(s, t) ==
    /\ <<s, t>> \notin Written
    /\ t = "pre" => <<s, "post">> \notin Written
    /\ log' = Append(log, <<s, t>>)

Tear(s) == Tears /\ log' = Append(log, <<s, "part">>)

Init == log = << >>

Next == \E s \in Event : Add(s, "pre") \/ Add(s, "post") \/ Tear(s)

Spec == Init /\ [][Next]_log
=============================================================================

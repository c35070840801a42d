-------------------------------- MODULE Http --------------------------------
(***************************************************************************)
(* The HTTP server (v/http.c): connections, the queue of requests of each, *)
(* and the answers (%thou) the kernel gives in any order.                  *)
(*                                                                         *)
(* A connection's requests hang on req_u (first) and qer_u; q[c] is the    *)
(* list from req_u along nex_u.  qer_u is set when the list was empty and  *)
(* is not moved when a request is put behind it, so it may be any request  *)
(* of the list, or one already freed.                                      *)
(***************************************************************************)
EXTENDS Naturals, Sequences, FiniteSets

CONSTANTS
    Conn,       \* connections, by coq_l
    MaxReq      \* bound: requests read on a connection

ASSUME HttpAssumption == MaxReq \in Nat

Req == 1 .. MaxReq      \* seq_l; 0 is the null pointer

VARIABLES
    up,         \* "up"; "parser" and "queue" (a c3_assert failed, on the request
                \* parsed or on the request queue); "undefined" (a freed
                \* request was written to, what follows is not modelled)
    phase,      \* phase[c]: "none", "open", "closing" (uv_close called), "freed"
    closes,     \* closes[c]: times uv_close was called
    seq,        \* hon_u->seq_l
    ruc,        \* hon_u->ruc_u, the request being parsed
    q,          \* the requests from hon_u->req_u on
    qer,        \* hon_u->qer_u
    end,        \* requests in q with end set and their response attached
    asked,      \* <<c, r>> whose %this the kernel has not answered
    sent,       \* sent[c]: the requests whose whole response was written
    popped,     \* popped[c]: the requests _http_flush was done with and freed
    thuds,      \* thuds[c]: the requests whose %thud was planned
    lost,       \* lost[c]: requests unlinked from q without being freed
    heard       \* heard[c]: the requests the kernel's answer was attached to

vars == <<up, phase, closes, seq, ruc, q, qer, end, asked, sent, popped, thuds,
          lost, heard>>

Init ==
    /\ up = "up"
    /\ phase = [c \in Conn |-> "none"] /\ closes = [c \in Conn |-> 0]
    /\ seq = [c \in Conn |-> 1] /\ ruc = [c \in Conn |-> 0]
    /\ q = [c \in Conn |-> << >>] /\ qer = [c \in Conn |-> 0]
    /\ end = [c \in Conn |-> {}] /\ asked = {}
    /\ sent = [c \in Conn |-> << >>] /\ popped = [c \in Conn |-> << >>]
    /\ thuds = [c \in Conn |-> << >>] /\ lost = [c \in Conn |-> {}]
    /\ heard = [c \in Conn |-> {}]

Elems(s) == {s[i] : i \in 1 .. Len(s)}

-----------------------------------------------------------------------------

\* _http_conn_new, from _http_listen_cb.
ConnNew(c) ==
    /\ up = "up" /\ phase[c] = "none"
    /\ phase' = [phase EXCEPT ![c] = "open"]
    /\ UNCHANGED <<up, closes, seq, ruc, q, qer, end, asked, sent, popped, thuds,
                   lost, heard>>

\* _http_conn_dead.
ConnDead(c) ==
    /\ phase' = [phase EXCEPT ![c] = "closing"]
    /\ closes' = [closes EXCEPT ![c] = @ + 1]

\* A read callback may come, and the bound leaves a request to read.
CanRead(c) == up = "up" /\ phase[c] = "open" /\ (ruc[c] # 0 \/ seq[c] <= MaxReq)

\* The request a read callback parses into: ruc_u, or a new one.
Parsing(c) == IF ruc[c] = 0 THEN seq[c] ELSE ruc[c]

\* _http_conn_read_cb before it parses.
ReadInto(c) ==
    /\ CanRead(c)
    /\ ruc' = [ruc EXCEPT ![c] = Parsing(c)]
    /\ seq' = [seq EXCEPT ![c] = IF ruc[c] = 0 THEN @ + 1 ELSE @]

\* _http_conn_read_cb with a part of a request.
ReadPart(c) ==
    /\ ReadInto(c)
    /\ UNCHANGED <<up, phase, closes, q, qer, end, asked, sent, popped, thuds, lost, heard>>

\* _http_message_complete: queue the request behind qer_u.
Queue(c, r) ==
    IF qer[c] = 0
    THEN /\ q' = [q EXCEPT ![c] = <<r>>]
         /\ qer' = [qer EXCEPT ![c] = r]
         /\ up' = IF q[c] = << >> THEN up ELSE "queue"
         /\ UNCHANGED lost
    ELSE /\ UNCHANGED qer
         /\ \/ \E i \in 1 .. Len(q[c]) :
                 /\ q[c][i] = qer[c]
                 /\ q' = [q EXCEPT ![c] = Append(SubSeq(q[c], 1, i), r)]
                 /\ lost' = [lost EXCEPT
                               ![c] = @ \union Elems(SubSeq(q[c], i + 1, Len(q[c])))]
                 /\ UNCHANGED up
            \/ /\ qer[c] \notin Elems(q[c])
               /\ up' = "undefined" /\ UNCHANGED <<q, lost>>

\* _http_conn_read_cb with the end of a request: queue it and plan its %this,
\* unless its method is not get, put or post (known).  The callback may then
\* find that the rest of the buffer does not parse (bad).
ReadRequest(c, known, bad) ==
    /\ CanRead(c)
    /\ ruc' = [ruc EXCEPT ![c] = 0]
    /\ seq' = [seq EXCEPT ![c] = IF ruc[c] = 0 THEN @ + 1 ELSE @]
    /\ Queue(c, Parsing(c))
    /\ asked' = IF known THEN asked \union {<<c, Parsing(c)>>} ELSE asked
    /\ IF bad THEN ConnDead(c) ELSE UNCHANGED <<phase, closes>>
    /\ UNCHANGED <<end, sent, popped, thuds, heard>>

\* _http_conn_read_cb with the ends of two requests in one buffer: the parser
\* still belongs to the first, so that _http_message_complete asserts.
ReadTwo(c) ==
    /\ CanRead(c)
    /\ up' = "parser"
    /\ UNCHANGED <<phase, closes, seq, ruc, q, qer, end, asked, sent, popped,
                   thuds, lost, heard>>

\* _http_conn_read_cb at the end of the stream, or with what does not parse.
ReadError(c) ==
    /\ up = "up" /\ phase[c] = "open"
    /\ UNCHANGED <<seq, ruc>> \/ ReadInto(c)
    /\ ConnDead(c)
    /\ UNCHANGED <<up, q, qer, end, asked, sent, popped, thuds, lost, heard>>

\* _http_conn_free, the callback of uv_close: tell the kernel of every request
\* still queued, and free them and the connection.
ConnFreeFirst(c) ==
    /\ up = "up" /\ phase[c] = "closing"
    /\ phase' = [phase EXCEPT ![c] = "freed"]
    /\ thuds' = [thuds EXCEPT ![c] = IF q[c] = << >> THEN @ ELSE Append(@, q[c][1])]
    /\ q' = [q EXCEPT ![c] = << >>]
    /\ end' = [end EXCEPT ![c] = {}]
    /\ UNCHANGED <<up, closes, seq, ruc, qer, asked, sent, popped, lost, heard>>
ConnFree(c) ==
    /\ up = "up" /\ phase[c] = "closing"
    /\ phase' = [phase EXCEPT ![c] = "freed"]
    /\ thuds' = [thuds EXCEPT ![c] = @ \o q[c]]
    /\ q' = [q EXCEPT ![c] = << >>]
    /\ end' = [end EXCEPT ![c] = {}]
    /\ UNCHANGED <<up, closes, seq, ruc, qer, asked, sent, popped, lost, heard>>

-----------------------------------------------------------------------------

\* The number of requests at the front of s that are in e.
ReadyOne(s, e) == IF s[1] \in e THEN 1 ELSE 0
Ready(s, e) == CHOOSE k \in 0 .. Len(s) :
    /\ \A i \in 1 .. k : s[i] \in e
    /\ k < Len(s) => s[k + 1] \notin e

\* uv_write failed after n of k responses, on a connection not closing yet.
BreaksAgain(c, n, k) == n < k
Breaks(c, n, k) == n < k /\ phase[c] = "open"

\* _http_flush with the requests e answered: write the responses at the front
\* of the queue and free their requests, up to one that is not answered.
\* Nothing is written to a closing connection (_http_respond_buf); uv_write may
\* fail after j responses, which closes it.
FlushAll(c, e) ==
    LET Out(r) == r \in e
        In(r) == r \notin e
    IN  /\ q' = [q EXCEPT ![c] = SelectSeq(@, In)]
        /\ popped' = [popped EXCEPT ![c] = @ \o SelectSeq(q[c], Out)]
        /\ end' = [end EXCEPT ![c] = {}]
        /\ qer' = [qer EXCEPT ![c] = IF Len(q[c]) = 1 THEN 0 ELSE @]
        /\ sent' = [sent EXCEPT ![c] = @ \o SelectSeq(q[c], Out)]
        /\ UNCHANGED <<up, phase, closes>>
Flush(c, e) ==
    LET k == Ready(q[c], e)
        j == IF phase[c] = "closing" THEN {0} ELSE 0 .. k
    IN  /\ q' = [q EXCEPT ![c] = SubSeq(@, k + 1, Len(@))]
        /\ popped' = [popped EXCEPT ![c] = @ \o SubSeq(q[c], 1, k)]
        /\ end' = [end EXCEPT ![c] = e \ Elems(SubSeq(q[c], 1, k))]
        /\ IF k > 0 /\ k = Len(q[c])
           THEN /\ qer' = [qer EXCEPT ![c] = 0]
                /\ up' = IF q[c][k] = qer[c] THEN up ELSE "queue"
           ELSE UNCHANGED <<qer, up>>
        /\ \E n \in j :
             /\ sent' = [sent EXCEPT ![c] = @ \o SubSeq(q[c], 1, n)]
             /\ IF Breaks(c, n, k) THEN ConnDead(c)
                ELSE UNCHANGED <<phase, closes>>

\* u2_http_ef_thou: the kernel answers a request.  The answer is dropped when
\* the connection or the request is not found.
Thou(c, r) ==
    /\ up = "up" /\ <<c, r>> \in asked
    /\ asked' = asked \ {<<c, r>>}
    /\ \/ /\ phase[c] \in {"open", "closing"} /\ r \in Elems(q[c])
          /\ Flush(c, end[c] \union {r})
          /\ heard' = [heard EXCEPT ![c] = @ \union {r}]
          /\ UNCHANGED <<seq, ruc, thuds, lost>>
       \/ /\ ~ (phase[c] \in {"open", "closing"} /\ r \in Elems(q[c]))
          /\ UNCHANGED <<up, phase, closes, seq, ruc, q, qer, end, sent, popped,
                         thuds, lost, heard>>

Next ==
    \E c \in Conn :
        \/ ConnNew(c) \/ ReadPart(c) \/ ReadTwo(c) \/ ReadError(c) \/ ConnFree(c)
        \/ \E known, bad \in BOOLEAN : ReadRequest(c, known, bad)
        \/ \E r \in Req : Thou(c, r)

Spec == Init /\ [][Next]_vars

-----------------------------------------------------------------------------

\* The requests read to their end on a connection.
Complete(c) == (1 .. (seq[c] - 1)) \ {ruc[c]}

\* A client that pipelines gets the responses in the order of its requests,
\* whatever order the kernel answers in: before a response, those of all
\* earlier requests were written, but for requests the queue lost.
ResponsesInOrder ==
    \A c \in Conn : \A i \in 1 .. Len(sent[c]) :
        \A r \in Complete(c) : r < sent[c][i] =>
            \/ r \in lost[c]
            \/ \E h \in 1 .. (i - 1) : sent[c][h] = r

\* _http_flush leaves nothing that could be sent: the first request in a queue
\* has no answer yet, however answers and closes interleaved.
NothingReadyWaits ==
    \A c \in Conn : q[c] # << >> => q[c][1] \notin end[c]

\* uv_close is called once for a connection, although reads, parse errors and
\* each failing write of a response call _http_conn_dead (libuv asserts that a
\* handle it closes is not closing).
ClosedOnce == \A c \in Conn : closes[c] <= 1

\* When a connection is freed, every request that came in on it and was not
\* lost by the queue has left it in one of two ways, once: _http_flush was done
\* with it, or the kernel gets %thud for it.  A request the kernel had answered
\* gets %thud too (_http_conn_free plans it for all that is queued), but only
\* when its response had to wait for an earlier request that was not answered.
FlushedOrThud ==
    \A c \in Conn : phase[c] = "freed" =>
        /\ \A r \in Complete(c) \ lost[c] :
             Cardinality({i \in 1 .. Len(popped[c] \o thuds[c]) :
                             (popped[c] \o thuds[c])[i] = r}) = 1
        /\ \A r \in Elems(thuds[c]) \intersect heard[c] :
             \E s \in Elems(thuds[c]) \ heard[c] : s < r

\* The assertions on the request queue hold: http.c:904 asserts that the last
\* request answered is qer_u, the "entry of request queue" (vere.h:109).
QueueAssert == up # "queue"
=============================================================================

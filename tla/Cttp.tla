-------------------------------- MODULE Cttp --------------------------------
(***************************************************************************)
(* The HTTP client (v/cttp.c): one connection per request of the kernel    *)
(* (%thus; CTTP_NO_PIPELINE is defined), from address resolution to the    *)
(* answer (%they), with the retry of a connection that broke.              *)
(*                                                                         *)
(* A connection is a record, and what a function of cttp.c may do to it a  *)
(* set of records, one for each outcome.  A clear connection that breaks   *)
(* is not closed: callbacks of its old socket may come until uv_tcp_init   *)
(* sets the handle up again.                                               *)
(***************************************************************************)
EXTENDS Naturals

CONSTANTS
    Request,    \* requests, by num_l
    Secure,     \* those over TLS (sec)
    MaxTry,     \* bound: times a broken connection is begun again
    MaxWrite    \* bound: writes libuv has not reported on

ASSUME CttpAssumption ==
    Secure \subseteq Request /\ MaxTry \in Nat /\ MaxWrite \in Nat \ {0}

VARIABLE con        \* con[r]: the connection of request r

Sat == {"none", "dead", "addr", "clyr", "crop", "sing", "cryp", "freed"}

Connection == [
    sat : Sat,              \* sat_e; "none" before %thus, "freed" after waste
    ceq : BOOLEAN,          \* the request is queued (ceq_u)
    resolving : BOOLEAN,    \* uv_getaddrinfo has not called back
    connecting : BOOLEAN,   \* uv_tcp_connect has not called back
    reading : BOOLEAN,      \* uv_read_start is in force
    closing : BOOLEAN,      \* uv_close has not called back
    writes : Nat,           \* uv_write that have not called back
    tries : Nat,            \* times begun again
    fired : Nat,            \* times the request was written
    they : Nat,             \* answers to the kernel
    fate : {"up", "abort", "undefined"} ]
                            \* the process: "abort" when an assertion, of
                            \* cttp.c or libuv, fails; "undefined" when a
                            \* freed connection is used

None == [sat |-> "none", ceq |-> FALSE, resolving |-> FALSE, connecting |-> FALSE,
         reading |-> FALSE, closing |-> FALSE, writes |-> 0, tries |-> 0,
         fired |-> 0, they |-> 0, fate |-> "up"]

Init == con = [r \in Request |-> None]

-----------------------------------------------------------------------------

\* Use of a connection after _cttp_ccon_waste freed it.
Used(ks) == {IF k.sat = "freed" THEN [k EXCEPT !.fate = "undefined"] ELSE k : k \in ks}

\* libuv reads the handle again after a callback: when the connection was freed,
\* it finds what it left there, or not.
Touched(ks) == ks \union Used(ks)

\* libuv's assertion, after the callback of a read error, that the handle was
\* closed; the connection may have been freed instead.
Unclosed(ks) ==
    {[k EXCEPT !.fate = IF k.sat = "freed" THEN "undefined" ELSE "abort"] : k \in ks}

\* A c3_assert of p before the outcomes ks.
Asserted(k, p, ks) == IF p THEN ks ELSE {[k EXCEPT !.fate = "abort"]}

\* _cttp_ccon_waste: answer 404 to the request if it is still queued, and free
\* the connection.
WasteQuiet(k) == {[k EXCEPT !.ceq = FALSE, !.sat = "freed"]}
Waste(k) == {[k EXCEPT !.they = IF k.ceq THEN @ + 1 ELSE @,
                       !.ceq = FALSE, !.sat = "freed"]}

\* _cttp_ccon_kick in u2_csat_dead: uv_getaddrinfo starts, or fails at once.
Resolve(k) == {[k EXCEPT !.resolving = TRUE]} \union Waste(k)

\* _cttp_ccon_kick in u2_csat_addr: uv_tcp_init sets the handle up anew, and
\* uv_tcp_connect starts, or fails at once.
Connect(k) ==
    LET new == [k EXCEPT !.reading = FALSE, !.writes = 0]
    IN  {[new EXCEPT !.connecting = TRUE]} \union Waste(new)

\* _cttp_ccon_reboot: give up before there was a connection, or without a
\* request; otherwise begin again.
RebootIdle(k) ==
    IF k.sat \in {"clyr", "cryp"} /\ k.ceq
    THEN {[k EXCEPT !.sat = "dead", !.tries = @ + 1]}
    ELSE Waste(k)
Reboot(k) ==
    IF k.sat \in {"clyr", "cryp"} /\ k.ceq
    THEN IF k.tries < MaxTry
         THEN Resolve([k EXCEPT !.sat = "dead", !.tries = @ + 1]) ELSE {}
    ELSE Waste(k)

\* uv_close: it asserts that the handle is not closing.
Close(k) == {IF k.closing THEN [k EXCEPT !.fate = "abort"]
             ELSE [k EXCEPT !.closing = TRUE, !.reading = FALSE]}

\* _cttp_ccon_fail: only a TLS connection is closed.
Fail(k) == IF k.sat \in {"dead", "addr", "clyr"} THEN Reboot(k) ELSE Close(k)

\* uv_write of one more buffer: it is queued, or fails at once.
Write(k) ==
    (IF k.writes < MaxWrite THEN {[k EXCEPT !.writes = @ + 1]} ELSE {}) \union Fail(k)

\* _cttp_ccon_kick in u2_csat_clyr: write the request, which is several buffers
\* (_cttp_ccon_fill and _cttp_ccon_kick_write), and read, on the old socket too
\* when a write failed at once and the connection was begun again.
Clear(k) ==
    LET one == Write([k EXCEPT !.fired = @ + 1])
        all == one \union UNION {Write(w) : w \in {v \in one : v.sat = "clyr"}}
    IN  {IF w.sat = "freed" THEN w ELSE [w EXCEPT !.reading = TRUE] : w \in Used(all)}

\* _cttp_ccon_kick_handshake and the kick in u2_csat_sing: read, and send the
\* first flight.  An error of SSL_connect wastes the connection, which
\* _cttp_ccon_cryp_pull then uses.
Handshake(k) ==
    LET sing == [k EXCEPT !.sat = "sing", !.reading = TRUE]
    IN  Write(sing) \union Used(Waste(sing))

-----------------------------------------------------------------------------

\* u2_cttp_ef_thus: make the request and its connection, and kick it.
Thus(k) ==
    IF k.sat = "none" THEN Resolve([k EXCEPT !.sat = "dead", !.ceq = TRUE]) ELSE {}

\* _cttp_ccon_kick_resolve_cb; _cttp_ccon_kick does nothing without a request.
ResolveCbAlways(k) ==
    IF k.resolving /\ k.sat # "freed"
    THEN LET done == [k EXCEPT !.resolving = FALSE]
         IN  Asserted(k, k.sat = "dead",
                      Fail(done) \union Connect([done EXCEPT !.sat = "addr"]))
    ELSE {}
ResolveCb(k) ==
    IF k.resolving /\ k.sat # "freed"
    THEN LET done == [k EXCEPT !.resolving = FALSE]
             addr == [done EXCEPT !.sat = "addr"]
         IN  Asserted(k, k.sat = "dead",
                      Fail(done) \union (IF k.ceq THEN Connect(addr) ELSE {addr}))
    ELSE {}

\* _cttp_ccon_kick_connect_cb.
ConnectCb(k, sec) ==
    IF k.connecting /\ k.sat # "freed"
    THEN LET done == [k EXCEPT !.connecting = FALSE]
         IN  Asserted(k, k.sat = "addr",
                      Fail(done) \union
                      (IF sec THEN Handshake([done EXCEPT !.sat = "crop"])
                       ELSE Clear([done EXCEPT !.sat = "clyr"])))
    ELSE {}

\* _cttp_message_complete: answer the kernel with the response and drop the
\* request.
CompleteKeep(k) == [k EXCEPT !.they = @ + 1]
Complete(k) == [k EXCEPT !.they = @ + 1, !.ceq = FALSE]

\* The parser of a complete response is freed (_cttp_cres_free) while
\* http_parser_execute still runs on it, which finds what was there, or not.
Stale(k) == [Complete(k) EXCEPT !.fate = "undefined"]

\* _cttp_ccon_kick_read_clyr_cb: the end of the stream, after which libuv does
\* not read on; an error, where libuv wants the handle closed; or data, which
\* is spurious without a request, a part of a response, the end of one, or
\* does not parse.
ReadClear(k) ==
    IF k.reading /\ k.sat \in {"dead", "addr", "clyr"}
    THEN Touched(Fail([k EXCEPT !.reading = FALSE])) \union Unclosed(Fail(k)) \union {k}
         \union (IF k.ceq THEN {Complete(k), Stale(k)}
                               \union Touched(Fail(Complete(k)) \union Fail(k))
                 ELSE {})
    ELSE {}

\* _cttp_ccon_kick_read_cryp_cb during the handshake: an error; a further
\* flight; its end, after which the request is written (_cttp_ccon_fill,
\* _cttp_ccon_kick_write_cryp); or an SSL error, as in Handshake.
ReadSing(k) ==
    IF k.reading /\ k.sat = "sing"
    THEN Fail(k) \union Write(k) \union Used(Waste(k)) \union
         Write([k EXCEPT !.sat = "cryp", !.fired = @ + 1])
    ELSE {}

\* _cttp_ccon_kick_read_cryp_cb after it: the same as for a clear connection,
\* but a complete response makes it write SSL's goodbye and close.  What
\* follows it in the buffer may fail the connection again.
ReadCryp(k) ==
    IF k.reading /\ k.sat = "cryp"
    THEN Fail(k) \union {k} \union
         (IF k.ceq
          THEN {Stale(k)} \union
               LET bye == UNION {Close(w) : w \in Write(Complete(k))}
               IN  bye \union Used(Waste(k)) \union
                   Used(UNION {Waste(b) : b \in bye}) \union UNION {Close(b) : b \in bye}
          ELSE {})
    ELSE {}

\* _cttp_ccon_kick_write_cb.
WriteCb(k) ==
    IF k.writes > 0 /\ k.sat # "freed"
    THEN LET done == [k EXCEPT !.writes = @ - 1] IN {done} \union Touched(Fail(done))
    ELSE {}

\* _cttp_ccon_fail_cb, the callback of uv_close, after those of the writes.
FailCb(k) ==
    IF k.closing /\ k.writes = 0 /\ k.sat # "freed"
    THEN Reboot([k EXCEPT !.closing = FALSE]) ELSE {}

\* A callback of a connection that is gone.
LateCb(k) ==
    IF k.sat = "freed" /\ (k.resolving \/ k.connecting \/ k.reading \/ k.closing
                           \/ k.writes > 0)
    THEN Used({k}) ELSE {}

\* One callback of the event loop for connection r, unless the process ended.
Step(r, ks) ==
    /\ \A s \in Request : con[s].fate = "up"
    /\ \E k \in ks : con' = [con EXCEPT ![r] = k]

Next ==
    \E r \in Request :
        \/ Step(r, Thus(con[r])) \/ Step(r, ResolveCb(con[r]))
        \/ Step(r, ConnectCb(con[r], r \in Secure))
        \/ Step(r, ReadClear(con[r])) \/ Step(r, ReadSing(con[r]))
        \/ Step(r, ReadCryp(con[r])) \/ Step(r, WriteCb(con[r]))
        \/ Step(r, FailCb(con[r])) \/ Step(r, LateCb(con[r]))

Spec == Init /\ [][Next]_con

-----------------------------------------------------------------------------

\* The kernel gets at most one answer to a request, whatever broke and was
\* tried again: not a 404 after a response, nor two of either.
AnsweredOnce == \A r \in Request : con[r].they <= 1

\* A connection is freed only when its request has been answered, so no
\* failure leaves the kernel waiting.
FreedAnswered == \A r \in Request : con[r].sat = "freed" => con[r].they = 1

\* While the process is up, a request that is not answered always has an
\* operation of libuv under way on its connection, whose callback will move it
\* on: a path of cttp.c after a failure that starts nothing new has answered, or
\* ended the process (as libuv does after a read error on a clear connection,
\* which _cttp_ccon_fail does not close).
NotStuck ==
    \A r \in Request : con[r].ceq /\ con[r].fate = "up" =>
        con[r].resolving \/ con[r].connecting \/ con[r].reading \/ con[r].closing

\* A request the kernel has an answer to is not sent again, also when the
\* answer came in on the old socket while the connection was begun again.
NoResend ==
    [][\A r \in Request : con[r].they > 0 => con'[r].fired = con[r].fired]_con
=============================================================================

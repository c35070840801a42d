----------------------------- MODULE CttpProofs -----------------------------
(***************************************************************************)
(* Proofs about the HTTP client, for any number of requests, retries and   *)
(* writes: a request is answered at most once, and before its connection   *)
(* is freed; while the process is up it is never left without an operation *)
(* under way, and it is not sent again when it was answered.               *)
(***************************************************************************)
EXTENDS Cttp, TLAPS

\* What is so of a connection also between two calls of a callback: it has
\* answered its request unless that is queued; a connect under way is that of a
\* queued request and of a socket nobody reads yet; and so on.
Sane(k) ==
    /\ k \in Connection
    /\ k.they = IF k.sat = "none" \/ k.ceq THEN 0 ELSE 1
    /\ k.sat = "none" => ~ k.ceq /\ ~ k.resolving /\ ~ k.connecting /\ ~ k.reading
                         /\ ~ k.closing /\ k.writes = 0
    /\ k.sat = "freed" => ~ k.ceq
    /\ k.resolving /\ k.sat # "freed" => k.sat = "dead"
    /\ k.connecting /\ k.sat # "freed" => k.sat = "addr" /\ k.ceq /\ ~ k.reading
    /\ k.sat \in {"crop", "sing"} => k.ceq

\* Something is under way that will move a request on.
Moving(k) ==
    k.ceq /\ k.fate = "up" => k.resolving \/ k.connecting \/ k.reading \/ k.closing

\* The inductive invariant, of one connection.
Good(k) == Sane(k) /\ Moving(k)

\* What j, an outcome of a callback for k, has to be.
Fine(j, k) == Good(j) /\ j.sat # "none" /\ j.fired = k.fired

-----------------------------------------------------------------------------

\* _cttp_ccon_waste.
LEMMA WasteFine ==
    ASSUME NEW k, Sane(k), k.sat # "none" PROVE \A j \in Waste(k) : Fine(j, k)
<1> SUFFICES ASSUME NEW j \in Waste(k) PROVE Fine(j, k)
  OBVIOUS
<1>1. j = [k EXCEPT !.they = IF k.ceq THEN @ + 1 ELSE @, !.ceq = FALSE, !.sat = "freed"]
  BY DEF Waste
<1>2. k \in Connection /\ k.they \in Nat /\ k.ceq \in BOOLEAN
  BY DEF Sane, Connection
<1>3. /\ j.they = IF k.ceq THEN k.they + 1 ELSE k.they
      /\ ~ j.ceq /\ j.sat = "freed" /\ j.fired = k.fired
  BY <1>1, <1>2 DEF Connection
<1>4. j \in Connection
  <2> DEFINE they == IF k.ceq THEN k.they + 1 ELSE k.they
  <2>1. they \in Nat
    BY <1>2
  <2>2. j = [k EXCEPT !.they = they, !.ceq = FALSE, !.sat = "freed"]
    BY <1>1
  <2> HIDE DEF they
  <2> QED BY <1>2, <2>1, <2>2 DEF Connection, Sat
<1>5. j.they = 1
  BY <1>2, <1>3 DEF Sane
<1> QED BY <1>3, <1>4, <1>5 DEF Fine, Good, Sane, Moving

\* uv_getaddrinfo.
LEMMA ResolveFine ==
    ASSUME NEW k, Sane(k), k.sat = "dead", ~ k.connecting PROVE \A j \in Resolve(k) : Fine(j, k)
<1>1. Fine([k EXCEPT !.resolving = TRUE], k)
  BY DEF Sane, Fine, Good, Moving, Connection, Sat
<1> QED BY <1>1, WasteFine DEF Resolve

\* uv_tcp_init and uv_tcp_connect.
LEMMA ConnectFine ==
    ASSUME NEW k, Sane(k), k.sat = "addr", k.ceq PROVE \A j \in Connect(k) : Fine(j, k)
<1> DEFINE new == [k EXCEPT !.reading = FALSE, !.writes = 0]
<1>1. Sane(new) /\ new.sat = "addr" /\ new.fired = k.fired
  BY DEF Sane, Connection, Sat
<1>2. Fine([new EXCEPT !.connecting = TRUE], k)
  BY DEF Sane, Fine, Good, Moving, Connection, Sat
<1>3. \A j \in Waste(new) : Fine(j, k)
  BY <1>1, WasteFine DEF Fine
<1> QED BY <1>2, <1>3 DEF Connect

\* _cttp_ccon_reboot.
LEMMA RebootFine ==
    ASSUME NEW k, Sane(k), k.sat # "none" PROVE \A j \in Reboot(k) : Fine(j, k)
<1>1. CASE k.sat \in {"clyr", "cryp"} /\ k.ceq /\ k.tries < MaxTry
  <2> DEFINE dead == [k EXCEPT !.sat = "dead", !.tries = @ + 1]
  <2>1. k \in Connection /\ dead.sat = "dead" /\ dead.fired = k.fired /\ dead.they = k.they
        /\ dead.ceq = k.ceq /\ dead.resolving = k.resolving /\ dead.connecting = k.connecting
    BY <1>1 DEF Sane, Connection
  <2>2. dead \in Connection
    <3>1. k.tries + 1 \in Nat
      BY <2>1 DEF Connection
    <3> QED BY <2>1, <3>1, Zenon DEF Connection, Sat
  <2>3. Sane(dead) /\ ~ dead.connecting
    BY <1>1, <2>1, <2>2 DEF Sane
  <2> QED BY <1>1, <2>1, <2>3, ResolveFine DEF Reboot, Fine
<1>2. CASE k.sat \in {"clyr", "cryp"} /\ k.ceq /\ ~ (k.tries < MaxTry)
  BY <1>2 DEF Reboot
<1>3. CASE ~ (k.sat \in {"clyr", "cryp"} /\ k.ceq)
  BY <1>3, WasteFine DEF Reboot
<1> QED BY <1>1, <1>2, <1>3

\* uv_close.
LEMMA CloseFine ==
    ASSUME NEW k, Sane(k), k.sat # "none" PROVE \A j \in Close(k) : Fine(j, k)
<1>1. Fine([k EXCEPT !.fate = "abort"], k)
  BY DEF Sane, Fine, Good, Moving, Connection, Sat
<1>2. Fine([k EXCEPT !.closing = TRUE, !.reading = FALSE], k)
  BY DEF Sane, Fine, Good, Moving, Connection, Sat
<1> QED BY <1>1, <1>2 DEF Close

\* _cttp_ccon_fail.
LEMMA FailFine ==
    ASSUME NEW k, Sane(k), k.sat # "none" PROVE \A j \in Fail(k) : Fine(j, k)
BY RebootFine, CloseFine DEF Fail

\* uv_write, which moves nothing on by itself.
LEMMA WriteSane ==
    ASSUME NEW k, Sane(k), k.sat # "none"
    PROVE  \A j \in Write(k) :
              \/ Fine(j, k)
              \/ j = [k EXCEPT !.writes = @ + 1] /\ Sane(j) /\ j.sat # "none" /\ j.fired = k.fired
<1>1. Sane([k EXCEPT !.writes = @ + 1]) /\ [k EXCEPT !.writes = @ + 1].fired = k.fired
      /\ [k EXCEPT !.writes = @ + 1].sat # "none"
  BY DEF Sane, Connection, Sat
<1> QED BY <1>1, FailFine DEF Write

\* A write keeps the connection in order, or fails.
LEMMA WriteFine ==
    ASSUME NEW k, Good(k), k.sat # "none" PROVE \A j \in Write(k) : Fine(j, k)
<1>1. Moving([k EXCEPT !.writes = @ + 1])
  BY DEF Good, Sane, Moving, Connection
<1> QED BY <1>1, WriteSane DEF Good, Fine

\* The use of an outcome that may be a freed connection.
LEMMA UsedFine ==
    ASSUME NEW k, NEW K, \A j \in K : Fine(j, k) PROVE \A j \in Used(K) : Fine(j, k)
<1> SUFFICES ASSUME NEW j \in K PROVE Fine([j EXCEPT !.fate = "undefined"], k)
  BY DEF Used
<1> QED BY DEF Sane, Fine, Good, Moving, Connection, Sat

\* What libuv does with an outcome after a callback.
LEMMA TouchedFine ==
    ASSUME NEW k, NEW K, \A j \in K : Fine(j, k)
    PROVE  \A j \in Touched(K) \union Unclosed(K) : Fine(j, k)
<1>1. \A j \in Touched(K) : Fine(j, k)
  BY UsedFine DEF Touched
<1>2. ASSUME NEW j \in K, NEW f \in {"undefined", "abort"} PROVE Fine([j EXCEPT !.fate = f], k)
  BY <1>2 DEF Sane, Fine, Good, Moving, Connection, Sat
<1>3. \A j \in Unclosed(K) : Fine(j, k)
  <2> SUFFICES ASSUME NEW j \in K
               PROVE  Fine([j EXCEPT !.fate = IF j.sat = "freed" THEN "undefined" ELSE "abort"], k)
    BY DEF Unclosed
  <2>1. CASE j.sat = "freed"
    BY <1>2, <2>1
  <2>2. CASE j.sat # "freed"
    BY <1>2, <2>2
  <2> QED BY <2>1, <2>2
<1> QED BY <1>1, <1>3

-----------------------------------------------------------------------------

\* What outcome j of a callback of k has to be: the request may be written,
\* but only while it is not answered.
Right(j, k) == Good(j) /\ (k.they > 0 => j.fired = k.fired)

\* The writes of a clear connection leave it clear, or begin it again or end it.
LEMMA ClearWrite ==
    ASSUME NEW k, Sane(k), k.sat = "clyr"
    PROVE  \A j \in Write(k) : Sane(j) /\ j.sat \in {"clyr", "dead", "freed"}
<1> SUFFICES ASSUME NEW j \in Write(k) PROVE Sane(j) /\ j.sat \in {"clyr", "dead", "freed"}
  OBVIOUS
<1>1. Sane(j)
  BY WriteSane DEF Fine, Good
<1>2. k \in Connection
  BY DEF Sane
<1>3. CASE j = [k EXCEPT !.writes = @ + 1]
  BY <1>1, <1>2, <1>3 DEF Connection
<1>4. CASE j \in Fail(k)
  <2>1. j \in Reboot(k)
    BY <1>4 DEF Fail
  <2> DEFINE dead == [k EXCEPT !.sat = "dead", !.tries = @ + 1]
  <2>2. dead.sat = "dead"
    BY <1>2 DEF Connection
  <2>3. j \in Waste(k) \/ j \in Waste(dead) \/ j = [dead EXCEPT !.resolving = TRUE]
    BY <2>1 DEF Reboot, Resolve
  <2>4. ASSUME NEW c, c = k \/ c = dead, j \in Waste(c) PROVE j.sat = "freed"
    BY <1>2, <2>4 DEF Waste, Connection
  <2>5. ASSUME j = [dead EXCEPT !.resolving = TRUE] PROVE j.sat = "dead"
    BY <1>2, <2>5 DEF Connection
  <2> QED BY <1>1, <2>3, <2>4, <2>5
<1> QED BY <1>3, <1>4 DEF Write

\* The kick of a clear connection: the request is written, and read for.
LEMMA ClearGood ==
    ASSUME NEW k, Sane(k), k.sat = "clyr" PROVE \A j \in Clear(k) : Good(j)
<1> DEFINE k1 == [k EXCEPT !.fired = @ + 1]
           one == Write(k1)
           all == one \union UNION {Write(w) : w \in {v \in one : v.sat = "clyr"}}
<1>1. Sane(k1) /\ k1.sat = "clyr"
  BY DEF Sane, Connection, Sat
<1>2. \A w \in all : Sane(w) /\ w.sat \in {"clyr", "dead", "freed"}
  BY <1>1, ClearWrite
<1>3. ASSUME NEW w \in Used(all), w.sat = "freed" PROVE Good(w)
  <2>1. PICK v \in all : w = IF v.sat = "freed" THEN [v EXCEPT !.fate = "undefined"] ELSE v
    BY DEF Used
  <2>2. Sane(v) /\ (v.sat = "freed" => Sane([v EXCEPT !.fate = "undefined"]))
    BY <1>2 DEF Sane, Connection, Sat
  <2> QED BY <1>3, <2>1, <2>2 DEF Good, Sane, Moving
<1>4. ASSUME NEW w \in Used(all), w.sat # "freed" PROVE Good([w EXCEPT !.reading = TRUE])
  <2>1. PICK v \in all : w = IF v.sat = "freed" THEN [v EXCEPT !.fate = "undefined"] ELSE v
    BY DEF Used
  <2>2. v.sat # "freed" /\ w = v
    BY <1>2, <1>4, <2>1 DEF Sane, Connection
  <2>3. Sane(w) /\ w.sat \in {"clyr", "dead"}
    BY <1>2, <1>4, <2>2
  <2> QED BY <2>3 DEF Good, Sane, Moving, Connection, Sat
<1> QED BY <1>3, <1>4 DEF Clear

\* _cttp_ccon_kick_handshake.
LEMMA HandshakeFine ==
    ASSUME NEW k, Sane(k), k.sat = "crop", ~ k.connecting PROVE \A j \in Handshake(k) : Fine(j, k)
<1> DEFINE sing == [k EXCEPT !.sat = "sing", !.reading = TRUE]
<1>1. Good(sing) /\ sing.sat # "none" /\ sing.fired = k.fired
  BY DEF Good, Sane, Moving, Connection, Sat
<1>2. \A j \in Write(sing) : Fine(j, k)
  BY <1>1, WriteFine DEF Fine
<1>3. \A j \in Used(Waste(sing)) : Fine(j, k)
  BY <1>1, WasteFine, UsedFine DEF Fine, Good
<1> QED BY <1>2, <1>3 DEF Handshake

-----------------------------------------------------------------------------

\* The callbacks.

\* A connection in order, with its writes unchanged, is a right outcome.
LEMMA FineIsRight == ASSUME NEW k, NEW j, Fine(j, k) PROVE Right(j, k)
BY DEF Fine, Right

\* u2_cttp_ef_thus: a new request.
LEMMA ThusRight == ASSUME NEW k, Good(k) PROVE \A j \in Thus(k) : Right(j, k)
<1> SUFFICES ASSUME k.sat = "none" PROVE \A j \in Thus(k) : Right(j, k)
  BY DEF Thus
<1> DEFINE new == [k EXCEPT !.sat = "dead", !.ceq = TRUE]
<1>1. Sane(new) /\ new.sat = "dead" /\ ~ new.connecting /\ new.fired = k.fired
  BY DEF Good, Sane, Connection, Sat
<1> QED BY <1>1, ResolveFine, FineIsRight DEF Thus, Fine, Right

\* _cttp_ccon_kick_resolve_cb.
LEMMA ResolveCbRight == ASSUME NEW k, Good(k) PROVE \A j \in ResolveCb(k) : Right(j, k)
<1> SUFFICES ASSUME k.resolving, k.sat # "freed" PROVE \A j \in ResolveCb(k) : Right(j, k)
  BY DEF ResolveCb
<1> DEFINE done == [k EXCEPT !.resolving = FALSE]
           addr == [done EXCEPT !.sat = "addr"]
<1>1. k.sat = "dead"
  BY DEF Good, Sane
<1>2. Sane(done) /\ done.sat # "none" /\ done.fired = k.fired
  BY <1>1 DEF Good, Sane, Connection, Sat
<1>3. Sane(addr) /\ addr.sat = "addr" /\ addr.fired = k.fired /\ addr.ceq = k.ceq
  BY <1>1 DEF Good, Sane, Connection, Sat
<1>4. \A j \in Fail(done) : Fine(j, k)
  BY <1>2, FailFine DEF Fine
<1>5. k.ceq => \A j \in Connect(addr) : Fine(j, k)
  BY <1>3, ConnectFine DEF Fine
<1>6. ~ k.ceq => Fine(addr, k)
  BY <1>3 DEF Fine, Good, Moving
<1> QED BY <1>1, <1>4, <1>5, <1>6, FineIsRight DEF ResolveCb, Asserted

\* _cttp_ccon_kick_connect_cb.
LEMMA ConnectCbRight ==
    ASSUME NEW k, Good(k), NEW sec \in BOOLEAN PROVE \A j \in ConnectCb(k, sec) : Right(j, k)
<1> SUFFICES ASSUME k.connecting, k.sat # "freed" PROVE \A j \in ConnectCb(k, sec) : Right(j, k)
  BY DEF ConnectCb
<1> DEFINE done == [k EXCEPT !.connecting = FALSE]
           crop == [done EXCEPT !.sat = "crop"]
           clyr == [done EXCEPT !.sat = "clyr"]
<1>1. k.sat = "addr" /\ k.ceq /\ k.they = 0 /\ ~ (k.they > 0)
  BY DEF Good, Sane
<1>2. Sane(done) /\ done.sat # "none" /\ done.fired = k.fired
  BY <1>1 DEF Good, Sane, Connection, Sat
<1>3. Sane(crop) /\ crop.sat = "crop" /\ ~ crop.connecting /\ crop.fired = k.fired
  BY <1>1 DEF Good, Sane, Connection, Sat
<1>4. Sane(clyr) /\ clyr.sat = "clyr"
  BY <1>1 DEF Good, Sane, Connection, Sat
<1>5. \A j \in Fail(done) : Right(j, k)
  BY <1>2, FailFine DEF Fine, Right
<1>6. \A j \in Handshake(crop) : Right(j, k)
  BY <1>3, HandshakeFine DEF Fine, Right
<1>7. \A j \in Clear(clyr) : Right(j, k)
  <2> HIDE DEF clyr
  <2> QED BY <1>1, <1>4, ClearGood DEF Right
<1> QED BY <1>1, <1>5, <1>6, <1>7 DEF ConnectCb, Asserted

\* _cttp_message_complete.
LEMMA CompleteFine ==
    ASSUME NEW k, Good(k), k.ceq, k.sat \notin {"crop", "sing"}, ~ k.connecting
    PROVE  Fine(Complete(k), k) /\ Complete(k).sat = k.sat
<1>1. k \in Connection /\ k.they = 0 /\ k.sat # "none"
  BY DEF Good, Sane
<1>2. 0 + 1 = 1 /\ 1 \in Nat
  OBVIOUS
<1>3. Complete(k) = [k EXCEPT !.they = 1, !.ceq = FALSE]
  BY <1>1, <1>2 DEF Complete
<1>4. Complete(k) \in Connection /\ Complete(k).they = 1 /\ ~ Complete(k).ceq
  BY <1>1, <1>2, <1>3 DEF Connection
<1>5. /\ Complete(k).sat = k.sat /\ Complete(k).resolving = k.resolving
      /\ Complete(k).connecting = k.connecting /\ Complete(k).fired = k.fired
  BY <1>1, <1>3 DEF Connection
<1> QED BY <1>1, <1>4, <1>5 DEF Fine, Good, Sane, Moving

\* _cttp_message_complete, when the freed parser is not what it was.
LEMMA StaleFine ==
    ASSUME NEW k, Good(k), k.ceq, k.sat \notin {"crop", "sing"}, ~ k.connecting
    PROVE  Fine(Stale(k), k)
<1> DEFINE j == Complete(k)
<1>1. Fine(j, k) /\ Stale(k) = [j EXCEPT !.fate = "undefined"]
  BY CompleteFine DEF Stale
<1> HIDE DEF j
<1> QED BY <1>1 DEF Sane, Fine, Good, Moving, Connection, Sat

\* A read on a clear connection.
LEMMA ReadClearRight == ASSUME NEW k, Good(k) PROVE \A j \in ReadClear(k) : Right(j, k)
<1> SUFFICES ASSUME k.reading, k.sat \in {"dead", "addr", "clyr"}
             PROVE \A j \in ReadClear(k) : Right(j, k)
  BY DEF ReadClear
<1> DEFINE quiet == [k EXCEPT !.reading = FALSE]
<1>1. Sane(k) /\ k.sat # "none" /\ ~ k.connecting
  BY DEF Good, Sane, Connection
<1>2. Sane(quiet) /\ quiet.sat # "none" /\ quiet.fired = k.fired
  BY <1>1 DEF Good, Sane, Connection, Sat
<1>3. \A j \in Fail(quiet) : Fine(j, k)
  BY <1>2, FailFine DEF Fine
<1>4. \A j \in Touched(Fail(quiet)) : Fine(j, k)
  BY <1>3, TouchedFine
<1>5. \A j \in {k} \union Fail(k) : Fine(j, k)
  BY <1>1, FailFine DEF Fine
<1>6. \A j \in Unclosed(Fail(k)) : Fine(j, k)
  BY <1>5, TouchedFine
<1>7. ASSUME k.ceq
      PROVE  \A j \in {Complete(k), Stale(k)} \union Touched(Fail(Complete(k)) \union Fail(k)) :
               Fine(j, k)
  <2>1. \A j \in {Complete(k), Stale(k)} \union (Fail(Complete(k)) \union Fail(k)) : Fine(j, k)
    BY <1>1, <1>5, <1>7, CompleteFine, StaleFine, FailFine DEF Fine, Good
  <2> DEFINE K == Fail(Complete(k)) \union Fail(k)
  <2>2. \A j \in K : Fine(j, k)
    BY <2>1
  <2> HIDE DEF K
  <2>3. \A j \in Touched(K) : Fine(j, k)
    BY <2>2, TouchedFine
  <2> QED BY <2>1, <2>3 DEF K
<1> QED BY <1>4, <1>5, <1>6, <1>7, FineIsRight DEF ReadClear

\* A read during the TLS handshake.
LEMMA ReadSingRight == ASSUME NEW k, Good(k) PROVE \A j \in ReadSing(k) : Right(j, k)
<1> SUFFICES ASSUME k.reading, k.sat = "sing" PROVE \A j \in ReadSing(k) : Right(j, k)
  BY DEF ReadSing
<1> DEFINE cryp == [k EXCEPT !.sat = "cryp", !.fired = @ + 1]
<1>1. Sane(k) /\ ~ (k.they > 0) /\ k.fired + 1 \in Nat
  BY DEF Good, Sane, Connection
<1>2. Good(cryp) /\ cryp.sat # "none"
  <2> DEFINE fired == k.fired + 1
  <2>1. cryp = [k EXCEPT !.sat = "cryp", !.fired = fired]
    OBVIOUS
  <2>0. fired \in Nat
    BY <1>1
  <2> HIDE DEF fired, cryp
  <2>2. cryp \in Connection /\ cryp.sat = "cryp" /\ cryp.reading
    BY <1>1, <2>0, <2>1 DEF Sane, Connection, Sat
  <2> QED BY <1>1, <2>0, <2>1, <2>2 DEF Good, Sane, Moving, Connection, Sat
<1>3. \A j \in Fail(k) \union Write(k) : Fine(j, k)
  BY <1>1, FailFine, WriteFine
<1>4. \A j \in Used(Waste(k)) : Fine(j, k)
  BY <1>1, WasteFine, UsedFine
<1>5. \A j \in Write(cryp) : Right(j, k)
  <2> HIDE DEF cryp
  <2> QED BY <1>1, <1>2, WriteFine DEF Fine, Right
<1> QED BY <1>3, <1>4, <1>5, FineIsRight DEF ReadSing

\* A read after it.
LEMMA ReadCrypRight == ASSUME NEW k, Good(k) PROVE \A j \in ReadCryp(k) : Right(j, k)
<1> SUFFICES ASSUME k.reading, k.sat = "cryp" PROVE \A j \in ReadCryp(k) : Right(j, k)
  BY DEF ReadCryp
<1> DEFINE bye == UNION {Close(w) : w \in Write(Complete(k))}
           shut == UNION {Close(b) : b \in bye}
           dying == UNION {Waste(b) : b \in bye}
<1>1. Sane(k) /\ k.sat # "none" /\ ~ k.connecting
  BY DEF Good, Sane, Connection
<1>2. \A j \in Fail(k) \union {k} : Fine(j, k)
  BY <1>1, FailFine DEF Fine
<1>3. \A j \in Used(Waste(k)) : Fine(j, k)
  BY <1>1, WasteFine, UsedFine
<1>4. ASSUME k.ceq
      PROVE  \A j \in bye \union shut \union Used(dying) : Fine(j, k)
  <2>1. \A w \in Write(Complete(k)) : Fine(w, k)
    BY <1>1, <1>4, CompleteFine, WriteFine DEF Fine
  <2>2. \A b \in bye : Fine(b, k)
    BY <2>1, CloseFine DEF Fine, Good
  <2>3. \A j \in shut : Fine(j, k)
    BY <2>2, CloseFine DEF Fine, Good
  <2>4. \A j \in dying : Fine(j, k)
    BY <2>2, WasteFine DEF Fine, Good
  <2> HIDE DEF bye, shut, dying
  <2>5. \A j \in Used(dying) : Fine(j, k)
    BY <2>4, UsedFine
  <2> QED BY <2>2, <2>3, <2>5
<1> SUFFICES ASSUME NEW j \in ReadCryp(k) PROVE Fine(j, k)
  BY FineIsRight
<1>5. j \in Fail(k) \union {k} \union
           (IF k.ceq THEN {Stale(k)} \union bye \union shut \union Used(dying)
                           \union Used(Waste(k)) ELSE {})
  BY DEF ReadCryp
<1> HIDE DEF bye, shut, dying
<1>6. k.ceq => Fine(Stale(k), k)
  BY <1>1, StaleFine
<1> QED BY <1>2, <1>3, <1>4, <1>5, <1>6

\* A write callback.
LEMMA WriteCbRight == ASSUME NEW k, Good(k) PROVE \A j \in WriteCb(k) : Right(j, k)
<1> SUFFICES ASSUME k.writes > 0, k.sat # "freed" PROVE \A j \in WriteCb(k) : Right(j, k)
  BY DEF WriteCb
<1> DEFINE done == [k EXCEPT !.writes = @ - 1]
<1>1. Sane(k) /\ k.sat # "none" /\ k.writes - 1 \in Nat
  BY DEF Good, Sane, Connection
<1>2. Fine(done, k)
  BY <1>1 DEF Fine, Good, Sane, Moving, Connection, Sat
<1>3. \A j \in Fail(done) : Fine(j, k)
  BY <1>2, FailFine DEF Fine, Good
<1>4. \A j \in Touched(Fail(done)) : Fine(j, k)
  BY <1>3, TouchedFine
<1> HIDE DEF done
<1>5. \A j \in WriteCb(k) : j = done \/ j \in Touched(Fail(done))
  BY DEF WriteCb, done
<1> QED BY <1>2, <1>4, <1>5, FineIsRight

\* _cttp_ccon_fail_cb, the callback of uv_close.
LEMMA FailCbRight == ASSUME NEW k, Good(k) PROVE \A j \in FailCb(k) : Right(j, k)
<1> SUFFICES ASSUME k.closing, k.sat # "freed" PROVE \A j \in FailCb(k) : Right(j, k)
  BY DEF FailCb
<1> DEFINE done == [k EXCEPT !.closing = FALSE]
<1>1. Sane(done) /\ done.sat # "none" /\ done.fired = k.fired
  BY DEF Good, Sane, Connection, Sat
<1> QED BY <1>1, RebootFine, FineIsRight DEF FailCb, Fine

\* A callback of a connection that is gone.
LEMMA LateCbRight == ASSUME NEW k, Good(k) PROVE \A j \in LateCb(k) : Right(j, k)
<1> SUFFICES ASSUME k.sat = "freed" PROVE \A j \in Used({k}) : Fine(j, k)
  BY FineIsRight DEF LateCb
<1> QED BY UsedFine DEF Fine

-----------------------------------------------------------------------------

\* Every connection is in order.
CttpInv == con \in [Request -> Connection] /\ \A r \in Request : Good(con[r])

\* A step is a callback of one connection.
StepRight ==
    \A r \in Request : Right(con'[r], con[r])

\* Before any request.
LEMMA CttpInit == Init => CttpInv
<1>1. Good(None) /\ None \in Connection
  BY DEF None, Good, Sane, Moving, Connection, Sat
<1> QED BY <1>1 DEF Init, CttpInv

\* A step is a callback of one connection, and a right one.
LEMMA CttpNext == CttpInv /\ [Next]_con => CttpInv' /\ StepRight
<1> SUFFICES ASSUME CttpInv, [Next]_con PROVE CttpInv' /\ StepRight
  OBVIOUS
<1>1. CASE UNCHANGED con
  BY <1>1 DEF CttpInv, StepRight, Right
<1>2. CASE Next
  <2>1. ASSUME NEW r \in Request, NEW k, Right(k, con[r]), con' = [con EXCEPT ![r] = k]
        PROVE  CttpInv' /\ StepRight
    <3>1. \A s \in Request : con'[s] = IF s = r THEN k ELSE con[s]
      BY <2>1 DEF CttpInv
    <3>2. Good(k) /\ k \in Connection
      BY <2>1 DEF Right, Good, Sane
    <3>3. con' \in [Request -> Connection]
      BY <2>1, <3>2 DEF CttpInv
    <3>4. StepRight
      BY <2>1, <3>1 DEF StepRight, CttpInv, Right
    <3> QED BY <3>1, <3>2, <3>3, <3>4 DEF CttpInv
  <2>2. PICK r \in Request :
           \/ Step(r, Thus(con[r])) \/ Step(r, ResolveCb(con[r]))
           \/ Step(r, ConnectCb(con[r], r \in Secure))
           \/ Step(r, ReadClear(con[r])) \/ Step(r, ReadSing(con[r]))
           \/ Step(r, ReadCryp(con[r])) \/ Step(r, WriteCb(con[r]))
           \/ Step(r, FailCb(con[r])) \/ Step(r, LateCb(con[r]))
    BY <1>2 DEF Next
  <2>3. Good(con[r])
    BY DEF CttpInv
  <2>4. ASSUME NEW K, Step(r, K), \A j \in K : Right(j, con[r]) PROVE CttpInv' /\ StepRight
    BY <2>1, <2>4 DEF Step
  <2>5. CASE Step(r, Thus(con[r]))
    BY <2>3, <2>4, <2>5, ThusRight
  <2>6. CASE Step(r, ResolveCb(con[r]))
    BY <2>3, <2>4, <2>6, ResolveCbRight
  <2>7. CASE Step(r, ConnectCb(con[r], r \in Secure))
    <3> DEFINE sec == r \in Secure
    <3>1. sec \in BOOLEAN
      OBVIOUS
    <3>2. Step(r, ConnectCb(con[r], sec))
      BY <2>7
    <3> HIDE DEF sec
    <3> QED BY <2>3, <2>4, <3>1, <3>2, ConnectCbRight
  <2>8. CASE Step(r, ReadClear(con[r]))
    BY <2>3, <2>4, <2>8, ReadClearRight
  <2>9. CASE Step(r, ReadSing(con[r]))
    BY <2>3, <2>4, <2>9, ReadSingRight
  <2>10. CASE Step(r, ReadCryp(con[r]))
    BY <2>3, <2>4, <2>10, ReadCrypRight
  <2>11. CASE Step(r, WriteCb(con[r]))
    BY <2>3, <2>4, <2>11, WriteCbRight
  <2>12. CASE Step(r, FailCb(con[r]))
    BY <2>3, <2>4, <2>12, FailCbRight
  <2>13. CASE Step(r, LateCb(con[r]))
    BY <2>3, <2>4, <2>13, LateCbRight
  <2> QED BY <2>2, <2>5, <2>6, <2>7, <2>8, <2>9, <2>10, <2>11, <2>12, <2>13
<1> QED BY <1>1, <1>2

\* Every connection is always in order: its answers are counted by what is
\* queued, and its callbacks outstanding fit the state it is in.
THEOREM CttpInvCorrect == Spec => []CttpInv
BY CttpInit, CttpNext, PTL DEF Spec

\* The kernel gets at most one answer to a request: _cttp_ccon_waste answers
\* only what _cttp_message_complete has not dropped.
THEOREM AnswersAtMostOne == Spec => []AnsweredOnce
<1>1. CttpInv => AnsweredOnce
  <2> SUFFICES ASSUME CttpInv, NEW r \in Request PROVE con[r].they <= 1
    BY DEF AnsweredOnce
  <2>1. con[r].they = 0 \/ con[r].they = 1
    BY DEF CttpInv, Good, Sane
  <2> QED BY <2>1
<1> QED BY <1>1, CttpInvCorrect, PTL

\* A connection is freed only when its request was answered, on every path to
\* _cttp_ccon_waste.
THEOREM FreesOnlyAnswered == Spec => []FreedAnswered
<1>1. CttpInv => FreedAnswered
  BY DEF CttpInv, FreedAnswered, Good, Sane
<1> QED BY <1>1, CttpInvCorrect, PTL

\* While the process is up, an unanswered request has an operation of libuv
\* under way: each failure path of cttp.c starts the next operation, answers,
\* or, after a read error of a clear connection, ends the process.
THEOREM NeverStuck == Spec => []NotStuck
<1>1. CttpInv => NotStuck
  BY DEF CttpInv, NotStuck, Good, Moving
<1> QED BY <1>1, CttpInvCorrect, PTL

\* No step writes a request that was answered, so a server that answered does
\* not see it again.
THEOREM NeverResent == Spec => NoResend
<1>1. CttpInv /\ [Next]_con =>
        [\A r \in Request : con[r].they > 0 => con'[r].fired = con[r].fired]_con
  BY CttpNext DEF StepRight, Right
<1> QED BY <1>1, CttpInvCorrect, PTL DEF Spec, NoResend
=============================================================================

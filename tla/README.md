# vere with Kafka logging: specifications, model checking and proofs

This directory specifies the parts of vere (the Urbit virtual machine, with an
event log to local disk or to Kafka) whose correctness depends on orders of
events that tests hardly reach: leader election between processes, the event
log written by several threads or through Kafka, the main thread that applies,
logs and checkpoints events, the HTTP server and client, and the allocator,
reference counts and garbage collection of nouns. The specifications are TLA+;
TLC checks them on small instances, and TLAPS proves every safety property the
passing runs check, and the refinements, for all instances.

Run `tlc -config X.cfg M` for the runs listed below and `tlapm M.tla` for the
proof modules.

## 1. Inventory

| Component | State | Operations | Talks to |
|---|---|---|---|
| Raft election (`v/raft.c`) | role `typ_e`, term `tem_w`, vote `vog_c`, tally `vot_w`, per-peer `vog` and `ron_u`, per-connection `out_u`, buffers | timer, connect, listen, read (`do_apen`, `do_revo`, `do_rasp`), close, restart | peers over TCP; files `_term`, `_vote` |
| sist store (`v/sist.c`) | one file per key | `put`, `has`, `get`, `nil` | file system |
| egz log (`v/egzh.c`, `v/clog.c`) | queue `head_u`/`tail_u`, minifiles, `egz.hope`, `lug_u.len_d`, event buffers | `push_ova`, push thread, `finalize_and_emit`, consolidator, `init` | main thread (libuv async), file system |
| Kafka log (`v/kafk.c`) | producer and consumer handles, offsets seen | `push_ova`, delivery callback, `finalize_and_emit`, pull | broker; main thread (libuv async) |
| Event loop (`v/raft.c: u2_raft_work`, `v/reck.c`, `v/loop.c`) | planned ova `roe`, carts `ova`, world `roc`, `ent_d` | plan, poke, lame, log, kick, shut | every I/O driver; the logs |
| Checkpoints (`v/save.c`, `u2_loom_save`) | `sav_u.ent_d`, checkpoint file | timer, promotion, shutdown | loom |
| HTTP server (`v/http.c`) | connections, request queue `req_u`/`qer_u`, responses | accept, parse, respond, flush, close | Arvo events, sockets |
| HTTP client (`v/cttp.c`) | connections with a state `sat_e`, requests | resolve, connect, SSL, send, receive, fail, reset | Arvo events, sockets |
| Timers: ames, batz, unix (`v/ames.c`, `v/batz.c`, `v/unix.c`, `v/time.c`) | alarm flag `alm` | poll, fire | Arvo |
| Unix sync (`v/unix.c`, `v/walk.c`) | tree of directories and files | scan, write back | file system |
| Terminal (`v/term.c`) | line buffer, escape state | read, draw | tty |
| Noun memory (`f/rail.c`, `v/loop.c: u2_lo_grab`) | boxes between `rut_r` and `hat_r`, free lists `fre_r`, use counts | allocate, mint, gain, lose, free, mark, sweep | everything that holds a noun |
| Nock, jets (`f/nock.c`, `gen164/`) | the noun being reduced | reduce | noun memory |

What is hard here:

* **several actors**: election messages of several processes on several TCP
  connections per pair; one push thread per log entry, a consolidator thread
  and the main thread sharing a queue, buffers and files;
* **crashes**: between two writes of a handler (`_term` then `_vote`), inside a
  write (truncate then write), between append and unlink of a log entry, and a
  power loss before `syncfs`;
* **pairing by position**: responses carry no request number, and heartbeats
  are never answered;
* **initialisation order**: boot events are logged before the log is
  initialised;
* **failure paths**: an event Arvo fails on is replaced by a report of the
  failure; a failed `write` or `rd_kafka_produce` goes unnoticed; a client
  connection may fail in each of its states, from inside a call or later from a
  callback of a socket it no longer uses;
* **answers in any order**: the kernel answers the requests of an HTTP
  connection in any order, and after the connection was closed;
* **retries**: librdkafka sends a message again when the broker's answer is
  lost, the HTTP client a request when its connection breaks;
* **long sequences of calls**: whether a box of noun memory may be joined with
  its neighbours rests on words written by every cut, join and mint before.

What makes each component correct: one leader and one vote per term, but for votes
a restart discards, terms never taken back (election); each entry once, in order, durable, in the end in one
file (egz); first entry before second, events in order, effects after the log,
an offset that misses no event (Kafka); log, state and checkpoints agree (main
thread); each request answered once and in order, each connection closed once
(HTTP server); each request answered once and never left waiting (HTTP client);
boxes that tile memory, exact counts, nothing freed that is used and nothing
kept that is not (nouns).

`PROJECT.json` lists each hazard at its line with the properties that cover it.

## 2. Modules

| Module | Contents |
|---|---|
| `Election` | abstract: a node votes once in a term, unless it forgets its vote of that term; a leader has a quorum of its term |
| `Raft` | the election code, its files and its connections |
| `RaftInv` | the inductive invariant `ElectionInv`, in named parts |
| `MCRaft` | instances for TLC |
| `RaftProofs` | proofs |
| `EventLog` | abstract: no entry twice, precommit before postcommit; where writes may be short, parts of entries between them |
| `Egz` | the threads, queue and files of the egz.hope log |
| `EgzInv` | the inductive invariants `LogInv`, in named parts, and `DurableInv` |
| `MCEgz`, `EgzProofs` | instances for TLC, proofs |
| `Pier` | the main thread of a single-instance process, composed with `Egz` (it EXTENDS `Egz` and uses its actions in its own) |
| `MCPier`, `PierProofs` | instances for TLC, proofs (on top of `EgzProofs`) |
| `Kafk`, `MCKafk`, `KafkProofs` | the Kafka log: main thread, librdkafka's queue, broker, consumer; instances, proofs |
| `Http`, `MCHttp`, `HttpProofs` | the HTTP server's connections and request queues; instances, proofs |
| `Cttp`, `MCCttp`, `CttpProofs` | the HTTP client's connections; instances, proofs |
| `Rail`, `MCRail`, `RailProofs` | the allocator of noun memory; instances, proofs |
| `Noun`, `MCNoun`, `NounProofs` | reference counts and garbage collection of nouns; instances, proofs |

### Raft

Variables have the names of the C fields. `End` is one end of a TCP connection
(`u2_rcon`): who owns it, who is at the other end, and whether it was opened
or accepted. libuv runs one handler at a time, so a handler is an action:
`StartElection` and `Heartbeat` (`_raft_time_cb`), `Connect`, `Listen`,
`ConnLost`, `DoApen`, `DoRevo`, `DoRasp`, `FollInit` (restart). Bytes written to
a connection (`wire`) arrive in order, may still arrive after the writer closed
it, and are lost when the reader closed it.

Crashes happen between handlers (`Crash`) and at each point where a handler has
done some of its disk writes (`CrashInElection`, `CrashInNote`,
`CrashInGrant`). `u2_sist_put` truncates and then writes, so a crash can leave
an empty file (`sis_torn`); `_raft_foll_init` asserts that there is none, so
such a node does not come back. A restart reads back the vote or discards it
(`ReadVote`): the name is stored and read without its terminator and compared with
`strcmp`, so which of the two happens depends on the byte behind the buffer
(undefined behaviour). `discarded` has the terms in which a node lost its vote so.

`cast`, `elected`, `discarded` and the field `ans` of a message are auxiliary: no
handler reads them. `uv_close` and its callback, which only frees the connection,
are one step (`Close`).

Log replication does not exist in the code (an AppendEntries carries no entry
and is not answered, `ent_d` and `lat_w` stay 0), so it is not here either. The
parsing of messages is abstracted to whole, well-formed ones, timeouts to a
timer that may fire at any moment. Messages come from members of the flotilla
only, and every node knows every other.

### Egz

One action per point another thread can observe. Push thread of an entry
(`u2_egz_push`, `_egz_push_in_thread_inner`): `Open`, `Write`, `Sync`,
`Enqueue`, `Tell`. Main thread: `PushOva`, `Finalize`, and `u2_egz_init` in two
steps, `ClearHead` and `ClearTail`, because it resets both ends of the queue
without the mutex while push threads of boot events may run. Consolidator:
`Wake`, `Dequeue`, `AppendEntry`, `Unlink`, `GoToSleep`. The queue is the
sequence reachable from `head_u`, and `tail_u` as NULL, its last node, or a node
that is not reachable.

`firm` and `sunk` are what a power loss would leave: what the last `syncfs`
covered and nothing removed since. `AppendEntry` writes an entry, a part of it or
nothing, and goes on all the same: a short or failing `write` is not noticed. Other
failing system calls end the process and are left out.

`Tell` calls `uv_async_init` from a push thread, which libuv does not allow: the
handle is linked into a queue of the loop without a lock, and a handle that was
called back is freed without `uv_close` and stays linked. Beside another handle
(`Unsafe`), any of them may be lost (`asyncs` without it), and its callback does
not come. That libuv may also crash on the corrupted queue, and that `u2_egz_init`
initialises the mutex a second time while a push thread may hold it, are not in the
model: `Enqueue` is atomic beside the two steps of `u2_egz_init`.

### Pier

`u2_raft_work` is cut where other threads can run in between: `WorkStart` (drop
finished carts, flop `roe`), `Punk` (poke an ovum; on failure its report, and the
report of that; else the process asserts), `PunkDone`, `Cart` (log, queue the
cart, kick the effects, which may plan ova), `CartDone`. `Lead`, `EgzInit`,
`Callback`, `TimeSave`, `Shutdown` and `Input` are the other things the main
thread does. What Arvo computes is open: a poke may fail, and may or may not
change the state; the state is the sequence of ova applied to it.
`ReplayGivesWorld` says that this sequence is the logged ova, by number, followed
by the ova of the results with a new state in `outs`, in their order (`at` is
where each of them is in `outs`). A node with a
peer list never gets here: `_raft_promote` boots in single-instance mode only.

### Kafk

`u2_kafk_push` polls librdkafka until nothing is outstanding, and delivery
reports are served by that polling: they run in the main thread, not in one of
Kafka's (as the comment on `_kafka_msg_delivered_cb` has it). So `main` is in the
libuv loop or in one of two pushes (`PushOva` ... `PushReturn`, `Finalize` ...
`PushReturn`), and `Delivered` happens only in a push. Between them the broker
writes a message, perhaps again after its answer was lost (`BrokerWrite`), or
librdkafka gives up on it (`DeliveryFailure`), or `rd_kafka_produce` refused it
in the first place (`unsent`), which the code prints and forgets. `log` has the
messages of each partition, so the offset of the next one is its length; `first`
is all of them, in the order they were written, without the copies. `PreRead` and
`PullOne` are the consumer, as the tests use it. `Partition` has one member in the run: with more, an offset no longer says
which message it is of, and `RestartOffset` fails; `WRITE_PARTITION` lets the
library choose, so a topic with several partitions cannot be used. The offsets are
in `u2_Kafk`, a C variable, and not in a checkpoint, whatever the comment at
`v/kafk.c:160` says: what a restart would start from is not implemented.

### Http

`q` is the list from `req_u` along `nex_u`, and `qer` where `qer_u` points, which is
not its end (see `http_pipe`). A read callback is one action: `ReadPart`,
`ReadRequest` (with what follows in the buffer parsing or not), `ReadTwo`,
`ReadError`. `Thou` is the kernel's answer and the flush it causes; writes may
fail after any of the responses and close the connection, whose callback is
`ConnFree`. Where the code writes through a pointer to a freed request, or an
assertion fails, the model stops (`up`). A request with a method other than get,
put or post is queued and never given to the kernel, so that nothing behind it
is ever answered: the properties are about what is said of the others. `heard` has
the requests the kernel answered, `popped` those `_http_flush` was done with: an
answered request may still be queued behind one that is not, and `_http_conn_free`
plans `%thud` for it as for all that is queued. `FlushedOrThud` says that this is
the only case where the kernel answered a request and gets `%thud` for it.

### Cttp

A connection is a record, and each function of `v/cttp.c` a set of records, its
outcomes: functions call each other as in the code, a callback is `Step` of one
of them. A clear connection that breaks is not closed, so its old socket may go
on calling back until `uv_tcp_init` sets the handle up again (`Connect`; that call
does not fail, and its error path is left out). After the end of a stream libuv
reads no more; after a read error it asserts that the callback closed the handle,
which `_cttp_ccon_fail` does not do for a clear connection (`Unclosed`). Where a
freed connection or parser is used (an SSL error, callbacks of a socket that was
not closed, a parser freed by the callback of the message it is parsing) what
follows is undefined: the model has the outcome in which what was there is still
found and the one where it stops (`fate`). The handle of a freed clear connection
stays linked in libuv's queue of handles, which only a walk over them would read.

### Rail and Noun

`Rail` has the words of a region: sizes at both ends of a box, the use count, the
free lists. A list is the set of its boxes, so a search that takes the first
adequate one may take any. `Grab`, `Gain`, `Lose` and `Mint` are the calls; a box
is freed, and joined to its neighbours, when its last reference is lost.
`box` is auxiliary: where boxes begin; so are `held`, the references callers have
to a box, and `want`, the words of it they count on (what they asked for, or what
`u2_rl_mint` left). Only who holds a box gains, loses or mints it, up to `MaxHeld`
references. `u2_rl_open` is without its branch for `ops_u.mem`, a debugging option
that is off unless asked for (`v/main.c:77`).

`Noun` leaves out where boxes lie and has what they hold. `u2_rl_lose` and
`u2_rl_gc_mark_noun` are recursive; `stack` is what is left to do, and each of
their steps is an action. `roots` are the references of C code, of which it may
forget some (`Forget`), which is what the garbage collector is for. A collection
marks each root once and counts it. That is what `_lo_mark` and `u2_wr_mark` come
to where `u2_lo_grab` is called (`v/main.c:342`, `438`, `v/sist.c:876`): there are no
kites, of which `u2_wr_mark` (`f/wire.c:249-276`) would mark the first once more for
each further one, and no `lad`, whose size from `u2_hv_mark` it drops. `Sticky` is
`0x7fffffff`; as there are fewer words than that, references alone cannot reach
it, only forgotten ones do.

## 3. Runs

Passing runs (state counts are distinct states):

| Run | Instance | What it shows |
|---|---|---|
| `raft_two` | 2 nodes, 2 terms, 2 connections each way, 3 requests, 2 faults (238 thousand) | `TwiceByDiscard`, `RivalsByDiscard`: no crash, restart or old vote makes a node vote twice in a term, or gives a term two leaders, but a discarded vote; `ElectionRefined`: Raft implements Election; `TallySound`: pairing responses by position never credits a vote to a wrong election; `FollowerHasNoVotes` (the assertion of `_raft_note_term`); `RaspHasRequest`: the error paths of `_raft_do_rasp` are not taken; `ToldIsDurable`, `TermNeverGoesBack`: terms are on disk before they are told and never taken back; `CurrentConn`: no reference to a freed connection |
| `egz_boot` | 2 events, up to 2 at boot, 1 failing or short append, fair (74 thousand) | `NoFatal`, `NothingLost`, `DurableAtRest`, `LogInv`, `LogRefined`; `Consolidated`: every entry a thread was started for reaches egz.hope, when none was pushed before `u2_egz_init` and no append failed |
| `pier_work` | 2 ova, at boot or later (2.5 million) | `ReplayGivesWorld`, `AppliedInOrder`, `CheckpointIsReplay`: log order, world state and checkpoints agree |
| `kafk_push` | 3 events, 7 writes of the broker, fair (214 thousand) | `PostHasPre`, `PreInOrder`: order in the log through copies and refusals; `EmittedUnlessRefused`: effects wait for the log, but for an event librdkafka refused; `RestartOffset`, `PullsNewest`: the offset kept leads to the newest event; `Finished`: every event gets its second entry |
| `http_conn` | 2 connections, 3 requests each (78 thousand) | `ResponsesInOrder`, `NothingReadyWaits`: responses go out in order and as soon as they can; `ClosedOnce`; `FlushedOrThud`: each request of a freed connection was flushed or got `%thud`, once |
| `cttp_retry` | 1 clear and 1 TLS request, 2 retries, 2 writes (14 thousand) | `AnsweredOnce`, `FreedAnswered`, `NoResend`; `NotStuck`: while the process is up |
| `rail_heap` | 31 words, boxes of 6 and 18 words asked for, 3 references to each (424 thousand) | `Tiled`, `TagsAgree`, `FreeListed`; `HeldStays`: a box stays, with the words its holders count on, until they lost every reference |
| `noun_count` | 3 boxes, 3 references and 2 forgotten ones to each (2.6 million, with symmetry) | `NoDangling`, `NoGarbage`, `CountExact`, `SavedIsLive` (the assertion of `u2_rl_gc_sweep`) |

Why the bounds are enough to be interesting: two terms and three requests let a
leader be deposed, and a candidate of the second term get answers to requests of the
first; two connections each way let both peers connect at once and supplant each
other; two faults are a crash of each node, inside a handler too, so that both may
discard their votes in a term, or a crash and a lost connection. With three terms,
two requests and one fault (860 thousand states) the properties were checked as
well, and `RivalsByDiscard` with three nodes and one term (603 thousand), where a
restarted voter does elect two leaders. Two events have four entries, so threads of
one event and of different events overlap, and one of them may be pushed between the
two halves of `u2_egz_init`. The proofs below remove the bounds. Three Kafka events have six messages, so one
may be written twice, or a second entry after the next event's first. Three
requests on a connection are what it takes for the queue to lose one. Two retries
let a second retry meet callbacks of the first. Thirty-one words hold five boxes of
the size of a cell, so one joined with both its neighbours between two that are
held; three references reach a count of 2, which is lost again, and a stuck one. The
properties were also checked with boxes of 12 words asked for, which are searched
for one list up (1.1 million states). The run's view (`LiveWords` of `MCRail`)
forgets words outside boxes, which no action reads. Three boxes have shared parts, cells
with the same head and tail, and a cell in a cell.

Deadlock is checked in the egz and noun runs. The raft, cttp and rail runs switch
it off because the bounds end a behaviour (no term, connection, retry or room
left), the pier, kafk and http runs because the process or the clients may stop.

Runs that show a disagreement (the property says what a comment, an assertion or
a message of the code says, and TLC finds the behaviour that breaks it):

| Run | Property | What happens |
|---|---|---|
| `raft_vote` | `VotePersists` | a restarted node has discarded the vote it put (`v/raft.c:1364`), although `vere.h:464-467` calls it persistent, and may vote again |
| `kafk_emit` | `EmittedAfterLog` | effects of an event librdkafka refused are kicked, against the INVARIANT of `v/kafk.c:19-20` |
| `egz_lost` | `Tracked` | entries of boot events, queued before `u2_egz_init`, are dropped from the queue and never consolidated; an entry queued between its two assignments even takes a later one with it |
| `http_pipe` | `QueueAssert` | with two requests pipelined, the last one answered is not `qer_u`, as `v/http.c:904` asserts |

Each property of a passing run has a mutant in `PROJECT.json`: an operator kept
next to the one it replaces (`MajorityHalf`, `AppendEntryTrunc`, ...) that makes
TLC report that property.

### Fairness

`FairSpec` of Egz, used by `egz_boot`, assumes weak fairness of: each push thread
and the consolidator (the operating system schedules threads that can run, and a
`sleep` ends), and `u2_egz_init` (the main thread reaches it). Nothing makes events
arrive, so `PushOva` is not fair, and as the code's use of `uv_async_init` does not
make libuv call back, neither is `Finalize`.
`LiveSpec` of Kafk assumes that the broker answers in the end (librdkafka retries, and ends the wait with a report when it gives up), that
the main thread, which polls in a loop, serves reports and returns, and that
libuv runs the callback of every async that was sent (there all is done in the main
thread, where libuv allows it). The election runs assume no
fairness: the code guarantees no election, as its timeouts are random and rivals
are not bounded. Nor do the HTTP runs: nothing makes the kernel, a client or a
server answer, and neither side has timeouts.

## 4. Proofs

All for every number of nodes (at least two), terms, connections, requests,
faults, events, boot events, failing appends, partitions, writes of the broker,
retries, boxes and references, and every size of the allocator's region.

| Module | Theorem | States |
|---|---|---|
| `RaftProofs` | `TypeCorrect` | the types of the election's variables |
| | `InvCorrect` | `Spec => []ElectionInv` |
| | `RivalLeaders` | `RivalsByDiscard` |
| | `SecondVotes` | `TwiceByDiscard` |
| | `TallyCorrect` | `TallySound` |
| | `RaspExpected` | `RaspHasRequest` |
| | `DurableTerms` | `ToldIsDurable` |
| | `FollowersHaveNoVotes` | `FollowerHasNoVotes` |
| | `CurrentConnections` | `CurrentConn` |
| | `RaftImplementsElection` | `Spec => ElectionRefined` |
| | `TermsOnlyGrow` | `Spec => TermNeverGoesBack` (an action property) |
| `EgzProofs` | `LogInvCorrect` | `Spec => []LogInv` |
| | `NeverFatal` | `NoFatal` |
| | `CopyOnDisk` | `NothingLost` |
| | `RestIsDurable` | `DurableAtRest` |
| | `EgzImplementsEventLog` | `Spec => LogRefined` |
| `PierProofs` | `PierUsesEgz`, `PierLogs` | `PierSpec => Spec` of `Egz`, and what follows |
| | `PierInvCorrect` | `PierSpec => []PierInv` |
| | `ReplayIsWorld` | `ReplayGivesWorld` |
| | `AppliedAsPlanned` | `AppliedInOrder` |
| | `CheckpointReplays` | `CheckpointIsReplay` |
| `KafkProofs` | `KafkInvCorrect`, `KafkTypesCorrect` | `Spec => []KafkInv`, the types of the push side |
| | `SecondAfterFirst` | `PostHasPre` |
| | `EventsInOrder` | `PreInOrder` |
| | `EffectsAfterLog` | `EmittedUnlessRefused` |
| | `KafkImplementsEventLog` | `first` (the log without copies) implements `EventLog` |
| | `OffsetInvCorrect` | `Spec => []OffsetInv`, with one partition |
| | `OffsetOfNewest`, `ConsumerPullsNewest` | `RestartOffset`, `PullsNewest`, with one partition |
| `HttpProofs` | `HttpInvCorrect` | `Spec => []HttpInv` |
| | `ReadyIsSent` | `NothingReadyWaits` |
| | `PipelineInOrder` | `ResponsesInOrder` |
| | `ConnClosedOnce` | `ClosedOnce` |
| | `KernelToldOnce` | `FlushedOrThud` |
| `CttpProofs` | `CttpInvCorrect` | `Spec => []CttpInv` |
| | `AnswersAtMostOne` | `AnsweredOnce` |
| | `FreesOnlyAnswered` | `FreedAnswered` |
| | `NeverStuck` | `NotStuck` |
| | `NeverResent` | `Spec => NoResend` (an action property) |
| `RailProofs` | `RailInvCorrect`, `RailTypesCorrect` | `Spec => []RailInv`, types |
| | `BoxesTile`, `TagsCorrect`, `FreeListsCorrect` | `Tiled`, `TagsAgree`, `FreeListed` |
| | `BoxesStay` | `HeldStays` |
| `NounProofs` | `NounInvCorrect` | `Spec => []NounInv` |
| | `NothingDangles` | `NoDangling` |
| | `CountsAreExact` | `CountExact` |
| | `MarkedAreSaved` | `SavedIsLive` |
| | `GarbageFree` | `NoGarbage` |

**Election.** No assumption is made on the byte behind a vote: a restart keeps or
discards it. None of the safety properties is inductive: majorities intersect, so
two leaders in a term have a voter in common (`ElectedByMajority`); a node votes
twice in a term only if it discarded its vote in that term (`TwiceByDiscard`),
because the files remember the last vote and its term (`CastOnDisk`, `Synced`), a
crash between the writes included, and a running node whose vote of its term was
not discarded has it (`Remembered`); and a tally is backed by votes (`Tallied`) because a response
that is counted answers a RequestVote of the current term. The last is the hard
part, as a response is paired with the oldest request, which may be an older one:
`OutOrdered`, `WireAwaited`, `WireOrdered` and `GrantsCast` say that the oldest
request is never newer than the one answered, and that a granting response has
the term it answers. So a response paired with a request of the current term
answers that very term. `RaftProofs` goes from types, nodes and files to the
connections, the requests and messages, and then one lemma per action.
`TermsOnlyGrow` needs less: the term of a running node is the one on disk
(`TermKept`), and only running nodes have open connections (`DownIsClosed`), so
that no message reaches a stopped one.

**Log.** `LogInv` says that the two threads of an event take turns, that the
buffer holds the type of the thread that is to write it, that only logged
entries are queued, each in one place, the precommit ahead of the postcommit,
and that a minifile is whole from its write until its entry is appended. The
queue part survives `u2_egz_init` at any moment because that only removes
entries. `DurableAtRest` needs `DurableInv` beside it: until the consolidator has
taken up an entry in a cycle, everything logged would survive a power loss; a
thread that is about to note its entry has synced it; and a minifile is deleted
only in a cycle that ends with a `syncfs`. There is no further assumption.

**Event loop.** Every step of `Pier` is a step of `Egz` or leaves it alone
(`PierStep`), so `PierUsesEgz` carries all that is proved of the log over to the
process. `PierInv` adds: outside `u2_raft_work` no result is left to log
(`IdleIsLogged`); the first `ent_d` ova of the world state are the logged ones,
and the others are those of the results with a new state, in order
(`WorldIsLogged`); the numbers of the ova applied, in the batch and planned rise,
each group below the next (`PlannedInOrder`); a checkpoint is a replay of a
beginning of the log (`SavedIsReplay`). The middle part is about the predicate
`Fits`, with a lemma for each thing that can happen to results and world state: a
result more or the first one taken, with a new state or without.

**Kafka.** Order rests on the polling of `u2_kafk_push`, which leaves nothing
outstanding: `KafkInv` says that in the event loop `out` is empty, that a first
entry that is outstanding is the newest event's (`Outstanding`), that a second
one, or a callback that will push one, belongs to an event whose first entry is
logged (`AsyncLogged`), and that a baton is in the state of its message. So a
first entry that the broker writes has a number above all those logged, and a
copy changes nothing, as `first` has the message already. There is no further
assumption. The three theorems on offsets assume `Partition = {Zero}`, a topic
with one partition: the code keeps one offset and no partition with it, so with
several the properties are false (see Kafk above). `OffsetInv` says of the
offsets of answers not yet served, of the newest report and of the consumer which
message of the log they belong to, and that no first entry of an earlier event
lies behind them.

**HTTP server.** `HttpInv` is, for each connection: requests read to their end
are queued, answered, given up or lost, and only those (`Found`); queue, answers
and requests given up each rise, and the answered are below the queued
(`InOrder`); what was written is a beginning of what was answered, all of it
until the connection closes (`Written`); the first of the queue is not answered
(`FirstWaits`), and the kernel answered what was taken from it (`Answered`); a connection is closed with the step that makes it "closing"
(`Closing`). A request is lost where the queue is cut behind `qer_u`, and the
lemma `Cut` says that only those behind it are. No further assumption.

**HTTP client.** `CttpInv` is about one connection at a time, as connections
share nothing: a request is answered if and only if it is no longer queued;
what is under way fits the state (a connect only for a queued request on a socket
nobody reads, a resolution only in the first state); and a queued request has an
operation under way (`Sane`, `Moving`). Each function of the code keeps this, or
what it gives to the function it calls (`Fine`, `Right`), so that the proof
follows the calls. No further assumption.

**Allocator.** `RailInv` is `FreeListed`, `HeldStays` and a `Geometry`: tiling, tags, and that
each box but the first has one that ends where it begins, which is what makes the
box found by the tag the previous one. `_rl_bloq_free` joins up to three boxes at
once, and gives the last to the hat; the lemmas on `Geometry` are about any
region, so that this is two joins of two boxes, or a join and a drop, over an
intermediate region. What it joins is free, and a free box has no holder, which is
why the holders of others keep theirs. There is no further assumption: lengths are at least 3 words
as in the code.

**Nouns.** `NounInv` equates the count of a box with its references: by roots, by
the slots of cells that are not being freed, by losses on the stack of
`u2_rl_lose`, and those forgotten, unless it is stuck (`Counted`). During a
collection it equates the marks of a box, with those still to come of roots and
on the stack, with the references to it by roots and by marked cells
(`Balanced`), which is what makes every count exact again after the sweep. That
nothing unreachable is in use outside a collection also needs that no cells hold
one another (`Acyclic`: among any boxes there is one that no cell among them
holds), as cells are made of nouns that are there already. Assumed are a finite
set of boxes, a `Sticky` count above 1, and fewer references to a noun than that
at a time, as the loom has fewer than `0x7fffffff` words.

Only model-checked: `Consolidated` and `Finished`, as liveness is out of the
prover's reach.

## 5. Not modelled

* Unix sync (`v/unix.c`): `_unix_hot_gain` keeps a pointer to an array of its own
  stack frame as the path of the tree's root (`v/unix.c:956`, `980`), so what a
  scan opens and compares is undefined from the first one on. A model would
  describe another program.
* Timers of ames, batz and unix: at every `_lo_poll` they are set anew from what
  the kernel wants, so no state of theirs outlives an event. Ames packets go
  through unchanged.
* Reading egz.hope back: `u2_egz_pull_all` and `u2_egz_read_all` are not
  implemented, so there is no restart of a pier in egz mode to model. In Kafka
  mode nothing reads the log but the tests.
* Terminal, process start: formatting and set-up in one thread.
* Nock, jets, Arvo: sequential and data-heavy; an event is opaque. The sand and
  can regions of a rail (`u2_rl_leap`, `u2_rl_fall`) follow the interpreter's
  stack and are left out with it.
* Vendored libraries (`outside/`: libuv, librdkafka, re2, cre2, ed25519,
  jhttp, bpt, anachronism) are most of the repository's C and C++ lines, and jets
  most of the rest. They are third-party or pure functions; what the code relies
  on (TCP, libuv, the file system, the broker) appears as the environment of the
  modules above. The part of the repository that keeps state across events and
  threads, and is its own, is `v/` and `f/rail.c`.

Observations about the code that have no run of their own: a follower that
learns of a newer term keeps its vote of the older one (`v/raft.c:236`, although
`vere.h:466` calls it "who we voted for this term"), and so refuses every other
candidate of the new term; effects are kicked when the thread that logs their event
has only been started (`v/raft.c:1788`, against the comment at 1798); an append to
egz.hope that fails is not noticed, as its result is unsigned, and the minifile is
deleted (`v/egzh.c:805`); an async handle can be lost, and then an event gets no
second entry (`v/egzh.c:641`); a read error on a clear connection of the HTTP client
ends the process in an assertion of libuv (`v/cttp.c:839`); a crash inside `u2_sist_put` leaves an empty file on
which every later start asserts; a minifile is deleted before the copy in
egz.hope is synced, so `DurableAtRest` speaks of the time between two cycles; a
boot in Kafka mode pushes its events before `u2_kafk_init` (`v/loop.c:656`), and
exits. All are in the models.

## 6. Plan

Done: 1 `Raft`/`Election`, 2 `Egz`/`EventLog`, 3 `Pier`, 4 `Kafk`, 5 `Http`,
6 `Cttp`, 7 `Rail` and `Noun`; proofs of every invariant, action property and
refinement the passing runs check.

Next:

8. Composition of `Pier` with the Kafka log in place of egz.hope, and what of
   `PierProofs` carries over.
9. `Rail` under `Noun`: that a box of `Noun` is one of `Rail`, so that `HeldStays`
   and `NoDangling` together say that the words of a noun in use stay as they are.

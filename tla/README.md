# A TLA+ verification project for domain-fronting

domain-fronting tunnels a TCP stream through a CDN in HTTP requests. A client
turns writes into `POST`/`PATCH` requests and reads by repeating `GET`
requests; a server keeps one session per session id, connects it to an upstream
host, and pushes and pulls data. All paths below are relative to the repository
(`src/server.rs` is the file `PROJECT.json` calls `src/src/server.rs`).

## 1. Inventory

| Component | State | Operations |
|---|---|---|
| Session table (`src/server.rs`, `Server`) | `sessions`: id -> actor, under a mutex | lookup, insert, replace (requests); remove (`Session::drop`) |
| Request handlers (`handle_request`, `handle_read_request`, `handle_write_request`) | position in the handler, the session found, the frame of the body that is next | look up or create a session, `ask` the actor, answer |
| Session actor (`Session`) | upstream halves, abort handle of the reader, two timeout tasks; its mailbox | `on_start`, handlers of `SessionRead`, `SessionWrite`, `SessionResetIdleTimeout`, `drop` |
| Timeouts (`actor_timeout`) | tasks asleep | wake up and `kill`; aborted by reset and drop |
| Long-poll stream (the `unfold` closure) | read guard, `first` | read, count, `tell` the actor, yield, end, be aborted |
| Statistics (`AtomicStats`) | two counters | `fetch_add`, `take` |
| Client I/O task (`src/client.rs`, `start_proxy`) | HTTP connection, two pumps, two channels | `pump_incoming`, `pump_outgoing`, end of the task |
| Client stream (`ProxyConnection`) | ends of both channels, join handle | `poll_read`, `poll_write(_vectored)`, `poll_flush`, `poll_shutdown`, `drop` |
| Connection set-up (`ProxyConfig`, `DomainFronting`, `src/tls_stream.rs`, the client programs) | configuration, streams set up so far | resolve, connect, check ALPN, TLS and HTTP handshakes |
| DNS (`src/dns.rs`) | none | resolve: addresses, an error, or the panic of `block_in_place` on a runtime of one thread |
| Server program (`src/bin/domain_fronting_server.rs`) | arguments, TLS acceptor, `connections_since_report`, `last_report`, one task per connection | check arguments, load the certificate, bind, accept, report, handshake, serve |

Interactions. A handler finds or spawns an actor under the table's mutex and
then talks to it by messages without the mutex. The actor answers a
`SessionRead` with a stream that runs as the response body, outside the actor,
and that shares with it the lock of the read half, the abort handle and the
mailbox. Timeout tasks kill the actor from outside. `Session::drop` takes the
table's mutex once more, some time after the actor has died. On the client one
task runs the connection and both pumps (`try_join`: the first error drops the
rest), and the application talks to it through two bounded channels and the
join handle.

Hard behaviours: requests of one id that race with each other and with the
death, replacement and drop of its session; kills in the middle of a handler;
bounded mailboxes between an actor and the stream it handed out; clients that
vanish at any await; failing upstream connects and writes; on the client the
many orders in which the pumps, the connection and the application can end;
end to end, requests of one tunnel that overtake each other while its session
is replaced.
`PROJECT.json` lists each of them, under `hazards`, with the line where it bites
and the properties that cover it.

What makes each component correct:

- the table: a live session can be found under its id (`LiveReachable`,
  `LeavesByDrop`, `EntriesOwned`), sessions and entries do not pile up (`SessionsCleaned`,
  `DeadlineArmed`);
- reading: one reader, no leaked lock, no reader that survives its session, no
  unit lost or duplicated (`OneReader`, `NoLeakedLock`, `AbortCoversReader`,
  `NoUnitLost`, `LongPollEnds`);
- writing: order, no gaps, no acknowledgement that a later request could take
  for granted wrongly (`FramesInOrder`, `AckedOrStopped`, `AskReturns`);
- statistics: nothing lost, nothing counted twice (`StatsConserved`);
- timeouts: no session outlives `total_timeout` or stays open longer than
  `idle_timeout` without data, and none is cut off sooner, up to known
  exceptions (`TotalBound`, `IdleBound`, `IdleExact`);
- the client: serial and complete writes, ordered reads, end of file and end of
  the task only for a reason (`WritesSerial`, `NoChunkLost`, `ReadsInOrder`,
  `EofOnlyOnFailure`, `OkOnlyWhenClosed`, `ShutdownDrains`);
- client and server together: an ordered stream in each direction
  (`ImplementsPipe`), which fails only for a cause (`FailsForCause`);
- the server program: TLS when it was asked for, nobody held up by somebody
  else's handshake, correct reports (`NoDowngrade`, `Accepted`, `ReportsAddUp`,
  `ReportsBounded`).

## 2. Modules

| Module | Contents |
|---|---|
| `Server` | table, handlers, actors, timeouts, streams, statistics; properties |
| `TimedServer` | `Server` with the durations of the timeouts and a clock; properties |
| `Client` | application, channels, pumps, I/O task; properties |
| `Tunnel` | one `Client` and the `Server`, composed by their HTTP requests |
| `Pipe` | what a tunnel promises to its two ends; `Tunnel` implements it |
| `Connect` | set-up of a tunnel, up to where `Client` begins; properties |
| `Listener` | the server program around `Server`; properties |
| `MCServer`, `MCTimedServer`, `MCClient`, `MCConnect`, `MCListener` | instances for TLC: loads (`Offered`) and symmetry |
| `ServerProofs`, `TimedServerProofs`, `ClientProofs`, `ConnectProofs`, `ListenerProofs`, `TunnelProofs` | theorems |

Definitions commented as `Mutant` are the plausible bugs that show that a
property can fail; no specification uses them.

### Server: state and actions

A step is what a task does between two await points. `pc[r]` says where the
handler of request `r` is: `new`, `get_send`/`get_wait` and
`put_send`/`put_wait` (the `ask` waits for room in the mailbox, then for the
reply), `body` (waiting for the next frame), `put_ok` (the reply is there, the
bytes not yet counted), `get_first`/`get_more`/`get_tell` (the stream waits for
its first read, has yielded, has read and tells the actor), `done`, and `gone`
when the client disconnected and hyper dropped the handler or the stream.

| Action | Code |
|---|---|
| `RejectRequest`, `JoinSession`, `CreateSession` | `handle_request_inner` up to the end of the table's critical section, one action per outcome; `NewSession` is `new_session` and the first two lines of `on_start` |
| `Ask`, `AskErr` | `ask(..).await` of both handlers |
| `BodyFrame`, `BodyErr`, `BodyEnd`, `CountTx` | the loop of `handle_write_request` |
| `OnStartOk`, `OnStartErr` | `on_start` after the connect |
| `HandleSessionRead`, `HandleSessionWrite`, `WriteOk`, `WriteErr`, `HandleReset` | the message handlers; the write is split at `write_all` |
| `ActorTimeout`, `Kill`, `Drop` | `actor_timeout`, the effect of the kill, `Session::drop` |
| `StreamRead`, `StreamYield`, `StreamEnd`, `StreamAborted` | the `unfold` closure and `stream::abortable` |
| `TakeStats` | one of the two swaps of `AtomicStats::take` |
| `UpstreamSends`, `UpstreamCloses`, `Disconnect` | the environment |

Data is abstracted: a body is a number of non-empty frames, upstream data are
numbered units (one unit is what one `read_buf` returns), and a statistics
counter counts frames or units instead of bytes. In `Server` a timeout may fire
whenever it is armed; `TimedServer` says when it does.

`WriteErr` replies and ends the loop in one step. In the code the reply comes
first, so that for a moment a request may be answered `NO_CONTENT` while
`is_alive` still holds; a message sent in that moment is dropped with the
mailbox and its sender answered `BAD_REQUEST`, as if the loop had ended before.

What is assumed of the actor library (definitions marked external): mailboxes
are bounded (64 in the library, the constant `MailboxCap` here); `is_alive`
says whether the mailbox is open; messages queue up while `on_start` runs;
`kill` takes effect when the actor's task is polled next, drops the handler in
progress and everything in the mailbox, and the pending asks then fail; the
mailbox is closed before the `Session` value is dropped; `ctx.stop()` ends the
loop after the handler has replied; when `on_start` fails there is no `Session`
to drop. A kill during `on_start` is one of the ways `OnStartErr` happens. The
timeout tasks and the table hold strong references, so an actor does not end
because references go away.

### TimedServer: state and actions

Every action is an action of `Server` together with what it does to time: `Spawn`
(`CreateSession`) starts both tasks, `Connected` (`OnStartOk`) and `Reset`
(`HandleReset`) start the idle task again, `Expire` (`ActorTimeout`) needs a task
that has slept long enough, `Wrote`, `ReadUnit` and `Hangup` keep the record the
properties speak of (`quiet`: time since data moved; `missed`: sessions that
were not told of it), and `Untimed` is all the rest. `Tick` moves the clock, and only when no task
can run: the assumption of tokio's paused clock, under which the repository's own
tests of the timeouts run. What waits for somebody else (a connect, `write_all`, upstream, the
client) may take any time; a connect at most `MaxConnect`. That no task sleeps
beyond its time is thus an assumption about the clock, not a result.

### Client: state and actions

`outgoing` and `incoming` say where the pumps are, `io` what became of the
task, `conn` the future of the HTTP connection(s). `ending` is the moment in
which the runtime has dropped a failed task's future, and so closed the
channels, without having published the result: a poll may see the end of the
channel before it sees the error.

| Action | Code |
|---|---|
| `OutSend`, `OutAck`, `OutFail`, `OutEnd` | `pump_outgoing`, `create_write_request` |
| `InAsk`, `InHead`, `InFail`, `InFrame`, `InBodyEnd`, `InBodyErr`, `InSend`, `InSent` | `pump_incoming`, `create_read_request` |
| `ConnOk`, `ConnErr`, `IoOk`, `IoErr`, `IoAborted` | the two `try_join`s of `start_proxy`, the task, its abort |
| `PollEnded` | `check_err!` when the task has ended |
| `PollRead`, `PollWrite`, `PollShutdown`, `DropConnection` | the stream interface; `poll_flush` changes nothing |

Assumed of the libraries: the request channel holds one chunk; the response
channel takes an item beyond its buffer, but the sender is then parked until
the receiver takes one or is gone (`Flushed`); a `JoinHandle` panics when polled
after it has returned the result. The proxy may answer any request in any way or
never, and an HTTP connection may end at any time, with or without an error.

### Tunnel and Pipe

`Tunnel` instantiates `Server` and `Client` with the same variables they have on
their own. Write request `k` and GET request `k` of the client are the requests
`W(k)` and `G(k)` of the server. A request arrives at any time after it was sent,
so a GET may overtake the POST; an answer, and each frame of a body, is seen at
any time after it was made. Three variables belong to neither side: `pieces`
has the number of frames in which each chunk is sent on (HTTP may cut a body
anywhere; an empty write has none), `seen` counts the frames that the client has
received of the response to its last GET, and `got` records for each frame ever
received which unit of which connection it carried.

`Pipe` is the abstract specification: an application that writes chunks and
reads units, and connections that receive chunks, frame by frame, and send
units. Within one connection frames arrive in order, without a gap or a
repetition, and a connection begins with the first frame of a chunk; units are
read in order, and from 1 on in each connection. After a connection has ended,
the tunnel may go on with a later one and lose what was under way, and it never
goes back. The refinement mapping takes `opened` and `ended` from the phases of
the actors, `received` from what the server wrote upstream and `read` from what
`poll_read` returned, looked up in `got`.

Reductions: HTTP itself does not fail (that ends the client's task, which
`Client` covers); the application does not shut down or drop; one timeout stands
for both, as they kill alike; the last session of the bound does not end;
upstream sends or closes only while a stream reads, because nobody else
notices.

### Connect: state and actions

`user` is the caller: a program that uses the library in any way, the example
`domain_fronting`, or `domain_fronting_stdio` with or without `--http2`. `call`
is the connect function with the ALPN list it is given. `Resolve` and
`ResolveErr` are `proxy_config`; `TcpConnect`, `CheckAlpn`, `TlsConnect` and
`Handshake` are the awaits and checks of the connect functions in their order
(the ALPN list is checked after the TCP connections are made), one step per
stream; each has an action for its error. The TLS server picks any protocol of
the list or none. Nothing in the code bounds the time of a step, so no liveness
is claimed.

`ResolvePanics` is `DefaultDnsResolver` on a runtime of one thread; the client
programs use one of several.

### Listener: state and actions

`CheckArgs`, `LoadTls` and `Bind` are the start of `main` with its early returns,
and the panic of `Duration::from_secs_f32` on a number that is no duration.
`Accept` is one turn of the loop, with the count, the report and the spawned
task; `AcceptErr` is `accept().await?`, which ends the program and with it every
connection. `Handshake` and `ServeEnds` are the task of a connection. The
requests inside a connection are those of `Server`.

## 3. Runs

| Run | Bounds | Shows |
|---|---|---|
| `server_sessions` | 1 id, 2 sessions, 2 requests of any kind with 0 to 2 frames, mailbox 1 | `TypeOK`, `EntriesOwned`, `LiveReachable`, `DeadlineArmed`, `AckedOrStopped`, `FramesInOrder`, `LeavesByDrop` |
| `server_poll` | 1 session, 2 requests (GET, PATCH), mailbox 1, 2 units, 1 `take_stats`; `FairSpec` | `OneReader`, `NoLeakedLock`, `AbortCoversReader`, `NoUnitLost`, `StatsConserved`, `LongPollEnds`, `AskReturns`, `SessionsCleaned` |
| `timed_timeouts` | 1 session, 3 requests, mailbox 1, 1 unit, `total_timeout` 3, `idle_timeout` 2, connects of up to 4 | `TotalBound`, `IdleBound`, `IdleExact` |
| `tunnel_pipe` | 2 sessions, 2 chunks of 0 or 1 frames, 2 units, 2 GETs, all buffers 1 | `ImplementsPipe`, `FailsForCause` |
| `client_tunnel` | buffer 1, 3 chunks, 4 frames, 3 GETs; `FairSpec` | `TypeOK`, `WritesSerial`, `NoChunkLost`, `ReadsInOrder`, `EofOnlyOnFailure`, `OkOnlyWhenClosed`, `ShutdownDrains` |
| `connect_setup` | 1 host, 1 explicit port, 2 addresses; all schemes, calls and ALPN lists | `TypeOK`, `NoHttp1OverH2`, `EveryStreamSecured`, `ProgramsConsistent` |
| `listener_accept` | 3 clients, a report every 2 ticks, 5 ticks; all arguments; `FairSpec` | `NoDowngrade`, `ReportsAddUp`, `ReportsBounded`, `Accepted` |

Why these bounds are enough for the interesting cases. Sessions of different ids
share only the counters, so one id is enough. Replacing a dying session takes
two sessions. A mailbox of one message is full as soon as anything is in it: in
`server_poll` the reset of the first unit fills it, the stream waits with the
second, and a PATCH or a second GET competes for the room. Three requests are
needed in `timed_timeouts`: a write in `write_all`, a stream that reads
meanwhile, and a message that fills the mailbox so that a reset is lost; a
connect may take longer than either timeout. In `tunnel_pipe` a session can end
between any two requests of either direction, and each direction has an order.
Chunks of several frames are left to `server_sessions` and to the proof of
`PipeCorrect`; with `Sizes = {0, 2}` the run passes too, in twice the time.
Two frames are the least that have a middle. Three chunks and four frames fill
both channels of the client and leave one over. With three clients one stalls in
its handshake, one is served and one waits.

Sessions and requests are interchangeable, and `server_sessions` and
`timed_timeouts` use that symmetry; runs with liveness do not. Deadlock is not
checked: requests and data are finite in the models, and a server without
requests, or a tunnel that has ended, rightly stops.

`MaxUnits`, `MaxTakes`, `Offered`, `MaxConnect`, `MaxChunks`, `MaxFrames`,
`MaxGets`, `MaxSessions` and `MaxTime` are the only bounds of the actions; the
proofs hold for every value of them.

## 4. What the code does not guarantee

Five runs are expected to violate a property that a comment, a document or a test
states. The counterexamples:

- `server_acked_unwritten` (`AckedMeansWritten`): a failed write to upstream is
  answered `NO_CONTENT`, because the reply to `SessionWrite` carries no result.
  `AckedOrStopped` is what does hold: the session has then stopped.
- `server_two_live` (`OneLiveSessionPerId`): `Session::drop` removes by id and so
  removes the entry of the session that replaced it; the next GET or POST opens
  a second connection for that id. `LiveReachable` says that
  a live session is missing only if another session of its id was dropped, and
  `LeavesByDrop` that it goes missing in the very step of such a drop.
- `server_dead_entry` (`DeadEntriesCollected`): the entry of a session whose
  connect failed is never removed, unless the same id is used again. The test
  quoted is about sessions that were connected; for those `SessionsCleaned`
  holds.
- `client_ok_alive` (`OkOnlyWhenDropped`): shutdown, then an error in a response
  body, then a clean end of the connection end the task with `Ok(())`; the next
  poll reaches `unreachable!`.
- `tunnel_split` (`OneConnection`): the session of a tunnel expires, the client's
  next GET creates another under the same id, and its next PATCH joins that one:
  upstream sees one stream split over two connections and the client is told
  nothing. `ImplementsPipe` says what is left of the promise.

Met while modelling, without a run of their own:

- `idle_timeout` is documented as the timeout "when no data is being sent in
  either direction" (`src/server.rs`, line 319). While the actor awaits
  `write_all` it handles no reset, so data that a long poll reads meanwhile does
  not count, and a reset after a write is dropped when the mailbox is full. Both
  are the exceptions in `IdleExact`.
- The second poll after an error polls a finished `JoinHandle`, which panics
  (`src/client.rs`, line 471; `PollEnded` leads to `panicked`).
- The end of the upstream stream ends a GET body and is not told apart from an
  idle poll: the client asks again, and the application sees no end of file
  (`EofOnlyOnFailure`). The example program (`src/bin/domain_fronting.rs`, line
  85) calls `read_to_end` after a request with `Connection: close`, which waits
  for that end of file; it returns only when the tunnel fails: with an error,
  or, when the channel is closed before the task's error is published, with
  what was read until then. `Client` shows this as a
  safety property; a run in which the application waits for ever would only
  show the bound on the number of GETs.
- The example in the documentation of `connect_https2` (`src/client.rs`, lines
  72-104) has a TLS configuration without an ALPN list; that call ends with
  `MisconfiguredAlpn`, in the model as in the code.
- An error of `accept` ends the server program with all its sessions, and
  reports are made only when a connection is accepted.

## 5. Fairness

`Server!FairSpec` assumes weak fairness of: the end of a connection attempt, the
wake-up of the total timeout, the effect of a kill, `Session::drop`, the taking
of the next message, `ask`, and the polling of an aborted stream that is waiting
to read or to tell. The runtime polls every task that was woken, a sleep ends,
and a connect ends or is cut off by the kill of a timeout. The total timeout is
never reset, so its fairness is that of a clock. Nothing is assumed of clients
(they may neither send nor take data: a stream that has yielded a frame is
polled again only when the client has room, hence `pc # "get_more"`) and nothing
of upstream (a `write_all` may never return). Weak fairness is enough for `Ask`
because the models have finitely many requests, so a mailbox is not refilled
for ever; with clients that never stop, the library's queue of waiting senders
gives the same.

`Client!FairSpec` assumes that the runtime polls `pump_outgoing` when it can go on,
and that a write request is answered or fails. Nothing is assumed of the
answers to GET requests, of the connection, of the application or of the moment
at which an abort takes effect (that tokio's `abort` ends a task in whatever it
awaits is the library's promise, and no property claims it).

`Listener!FairSpec` assumes that `main` is polled when a connection waits, and
nothing of the clients or of the tasks that serve them.

`TimedServer` needs no fairness: its properties are invariants, and `Tick` waits
for every task that can run. `Tunnel` claims safety only.

## 6. Proofs

All theorems hold for every value of the constants, from `ServerAssumption`,
`TimedAssumption`, `ClientAssumption`, `ConnectAssumption`, `ListenerAssumption`
and `TunnelAssumption` only (`None` differs from every proper value; capacities
are positive; bounds, ports, sizes and timeouts are numbers). Every invariant
that a run checks is also proved.

`ServerProofs`:

- `TypeCorrect`. `TypeOK` is inductive only together with `TargetOK`: a handler
  past the lookup has a session, without which `mailbox[target[r]]` means
  nothing.
- `EntriesCorrect` (`EntriesOwned`), `RegistryCorrect` (`LiveReachable`) and, over
  steps, `LeavesCorrect` (`LeavesByDrop`), by
  `RegistryInv`, which adds that an unborn actor is in no entry. Only
  `CreateSession` and steps of the actor itself touch the table and the phases
  (`TableStep`).
- `DeadlineCorrect` (`DeadlineArmed`), directly inductive: a timeout leaves
  `timers` only by waking up, which kills, or when the session is dropped.
- `OneReaderCorrect`, `LockCorrect` and `ReaderCorrect` (`OneReader`,
  `NoLeakedLock`, `AbortCoversReader`), by `ReaderInv` over `MailInv`. The actor
  gives the lock to whoever sent the message at the head of its mailbox; that
  this handler is waiting for this actor and is not already streaming from
  another needs `MailInv`: every message belongs to a request that awaits this
  actor's reply or is gone (`MessageOK`), so does the write in progress
  (`BusyOK`), a request has at most one message under way (`OneMessage`), and a
  dead actor has no messages (`BoxAlive`).
- `FramesCorrect` (`FramesInOrder`) and `AckedCorrect` (`AckedOrStopped`), by
  `WriteInv`. `Progress` says for each position of a write handler which frames of
  its request upstream has, as long as the session is alive: those before `next`,
  and `next` itself once the reply is there. A message under way (`Held`) counts
  as not written also when its handler is gone, since the actor writes it
  nevertheless.
- `UnitsCorrect` (`NoUnitLost`), by `UnitInv`: no unit is in two responses or in one
  before it was read, and none is missing unless a response was cut. A unit that
  was read and not yet yielded is in the hands of one stream only, by `OneReader`.
- `StatsCorrect` (`StatsConserved`), by `StatsInv`: the sum of the counters is the
  size of the set of counted frames (units), which is finite and grows by one
  element with each count. As a set, not as a sum over a fold, it needs no
  induction.
- `AbortOK` (a lemma): a stream that was aborted, and so never sends its reset,
  belongs to a session that has been dropped.

`TimedServerProofs`:

- `TimedImplementsServer` (`TimedSpec => Spec`): each timed action is an action of
  `Server`, and `Tick` is a stutter. So the theorems of `ServerProofs` hold of the
  server with durations, and are used in what follows.
- `TotalCorrect` (`TotalBound`) and `IdleCorrect` (`IdleBound`), by
  `TimedInv`: the total task has slept for exactly the age of its actor
  (`TotalExact`), the idle task is due no later than `idle_timeout` after data
  last moved (`IdleDue`), and a reset that the actor is about to handle belongs
  to data that moved at this instant (`ResetNow`), so that starting the task
  again does not put off its end. With `DeadlineArmed` the clock cannot pass the
  end of a task.
- `IdleExactCorrect` (`IdleExact`): the idle task is not due too early either. It
  also needs `AbortOK`.

`ClientProofs`:

- `TypeCorrect`, with the bound of the response channel.
- `WritesCorrect` (`WritesSerial`) and `ChunksCorrect` (`NoChunkLost`), by `PumpOK`:
  `first` says whether anything was acknowledged, the position of the pump fixes
  the difference of requests and acknowledgements, and the channel holds nothing
  or the chunk written last.
- `EofCorrect` (`EofOnlyOnFailure`) and `EndCorrect` (`OkOnlyWhenClosed`), by `EndOK`:
  for what reason each pump can have ended.
- `ReadsCorrect` (`ReadsInOrder`), by `ReadInv`: item `k` that the application has
  read, or finds in the channel, is frame `k`; the frame that the pump holds
  comes next; and nothing follows an error in the channel.

`ConnectProofs`: `TypeCorrect`; `ProgramsCorrect` (`ProgramsConsistent`), by
`ProgramInv`, which follows the port from resolution and the choice of TLS and ALPN
from the call; `SetupCorrect` (`NoHttp1OverH2`) and `SecuredCorrect`
(`EveryStreamSecured`), by `SetupInv`: once the ALPN check has passed the list fits
the HTTP version, all streams are connected, and each session has a protocol of
the list or none.

`ListenerProofs`: `DowngradeCorrect` (`NoDowngrade`), by `StartOK`: past the checks
there is an acceptor exactly if TLS arguments were given; `CountsCorrect`
(`ReportsAddUp`) and `ReportsCorrect` (`ReportsBounded`), by `ReportOK`, which bounds
the reports by the time of the last one.

`TunnelProofs`:

- `ImplementsClient` and `ImplementsServer`: each side of the tunnel behaves as its
  own specification says, so that all the invariants above hold in the tunnel.
  What follows adds only what relates the two sides.
- `CauseCorrect` (`FailsForCause`), by `CauseInv`: the requests of each kind follow
  one another, at most the last is still being served, and one is refused only
  after a session has ended or because it is empty. A GET refused with
  `TOO_MANY_REQUESTS` would need a second stream in the server, and the stream
  of the GET before it has released its lock before the client sees the end of
  the body.
- `PipeCorrect` (`ImplementsPipe`), by `PipeInv`, in four parts:
  - `LineInv`: sessions are born in order, each after another has ended, and the
    table has the last one or none. So whoever finds a session finds the last
    one, also when `Session::drop` has removed the entry of a live session.
  - `ReceiveInv`: write requests found sessions in the order of the chunks, and
    what a connection has is of the chunks in order. With `FramesInOrder` and
    `AckedOrStopped` a frame that is written is the next one of its connection
    (`Follows`), or the connection is new and starts with a whole chunk
    (`Begins`).
  - `ReadSideInv`: what was read of a live connection is what the client has
    received (`Got`) and what is on the way (`Flight`: in the body of the last
    GET, beyond `seen`, or in the hands of its stream). So the next GET goes on
    where the last one stopped. When the session has died this may fail, and
    then the client never receives from it again.
  - `PassedInv`: every frame that the application can read is in `got`, which
    grows at its end only.

  Every step of the server is then a step of `Pipe` (`PipeServer`: `Open`, `End`,
  `Send`, `Receive`) or a stutter, and so is every step of the client
  (`PipeClient`: `Write`, `Read`).

Only model-checked: the liveness properties (`LongPollEnds`, `AskReturns`,
`SessionsCleaned`, `ShutdownDrains`, `Accepted`), which are outside the
prover's reach. The expected violations are counterexamples and need no proof.

The parts of `PipeInv` and `CauseInv` were found with TLC, as invariants of the
instance of `tunnel_pipe`, before they were proved.

## 7. Plan

Done: all components, their composition, the abstract specification, and the
theorems above. Possible next steps, all of them optional:

1. The theorems of `TunnelProofs` without the reductions of `Tunnel` (a last session
   that may end, a failing HTTP connection).
2. A tunnel over `TimedServer`: `TimedImplementsServer` already gives every property
   of the server; what it would add is the durations seen by the application.

## 8. Not modelled

- Sizes in bytes, the 2048-byte buffer and counter overflow of `u64`; memory
  exhaustion; a clock that runs ahead of tasks that could run (overload).
- Poisoning of the table's mutex: no code that holds it panics.
- `Server::freeze`/`Debug`, logging, header values other than the session id, the
  random path of each request, the byte counts in the report of the
  server program (`take_stats` is an action of `Server`).
- Reading and writing of the TLS stream, which delegates to a library and keeps
  no state of its own; what the client programs copy through the tunnel; the
  parsing of arguments.

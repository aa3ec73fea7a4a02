------------------------------- MODULE Server -------------------------------
(***************************************************************************)
(* The domain fronting server (src/src/server.rs): the table of sessions,  *)
(* the Session actors with their mailboxes and timeout tasks, the HTTP     *)
(* request handlers, and the long-poll streams that the handlers return as *)
(* response bodies.                                                        *)
(*                                                                         *)
(* Each handler, actor and stream is a task of a multi-threaded runtime: a *)
(* step is what a task does between two await points, and steps of         *)
(* different tasks interleave.  Data is abstracted: the body of a write    *)
(* request is a number of frames, and upstream sends numbered units, one   *)
(* unit being what one read_buf call returns.                              *)
(***************************************************************************)
EXTENDS Integers, Sequences, FiniteSets

CONSTANTS
    Ids,         \* session ids (the X-Session header)
    Actors,      \* Session actors; each is spawned at most once
    Reqs,        \* HTTP requests; each arrives at most once
    None,        \* absence of a value (Option::None, an unusable header)
    MailboxCap,  \* capacity of an actor's mailbox (64 in the library)
    Offered,     \* bound: what a request that arrives may be
    MaxUnits,    \* bound: units one upstream connection sends
    MaxTakes     \* bound: calls of take_stats

Methods  == {"GET", "POST", "PATCH", "OTHER"}
Requests == [method : Methods, id : Ids \cup {None}, frames : Nat]

ASSUME ServerAssumption ==
    /\ None \notin Ids /\ None \notin Actors /\ None \notin Reqs /\ None # "NO_CONTENT"
    /\ MailboxCap \in Nat \ {0}
    /\ Offered \subseteq Requests
    /\ MaxUnits \in Nat /\ MaxTakes \in Nat

VARIABLES
    sessions,  \* Server::sessions: id -> actor, or None when vacant
    phase,     \* where an actor is in its life
    sid,       \* Session::session_id
    timers,    \* timeout tasks of an actor that are still asleep
    killed,    \* actors on which ActorRef::kill was called
    mailbox,   \* messages an actor has not taken yet
    busy,      \* request whose write_all the actor is awaiting
    reader,    \* stream that holds the lock of Session::upstream_read
    abort,     \* stream that Session::upstream_read_abort refers to
    aborted,   \* streams whose abort handle was used
    upstream,  \* frames the upstream connection of an actor accepted
    sent,      \* units upstream has sent on the connection
    taken,     \* units read from the connection so far
    eof,       \* upstream closed its sending side
    pc,        \* where a request handler or stream is
    req,       \* method, session id and frames of a request
    target,    \* actor the handler found or spawned
    next,      \* frame of the body that comes next
    status,    \* status code of the response
    body,      \* units put in the response body
    stats,     \* AtomicStats
    reported,  \* what take_stats has returned so far, added up
    takes      \* counters that take_stats has swapped so far

tableVars == <<sessions, phase, sid>>
timerVars == <<timers, killed>>
boxVars   == <<mailbox, busy>>
lockVars  == <<reader, abort, aborted>>
upVars    == <<upstream, sent, taken, eof>>
reqVars   == <<pc, req, target, next, status, body>>
statVars  == <<stats, reported, takes>>
vars == <<tableVars, timerVars, boxVars, lockVars, upVars, reqVars, statVars>>

(***************************************************************************)
(* An actor is connecting while on_start awaits the upstream connection,   *)
(* running while its loop takes messages, stopped once the loop has ended  *)
(* and the mailbox is closed, dropped once Session::drop has run.  It has  *)
(* failed when on_start returned an error: then no Session ever existed.   *)
(***************************************************************************)
Phases    == {"unborn", "connecting", "running", "stopped", "dropped", "failed"}
Timers    == {"total", "idle"}
Codes     == {"OK", "NO_CONTENT", "BAD_REQUEST", "TOO_MANY_REQUESTS"}
Messages  == [kind : {"read", "write", "reset"}, req : Reqs \cup {None}]
Asking    == {"get_send", "get_wait", "put_send", "put_wait"}
Streaming == {"get_first", "get_more", "get_tell"}
Counters  == {"tx", "rx"}
Locations == {"new", "body", "put_ok", "done", "gone"} \cup Asking \cup Streaming

\* ActorRef::is_alive: the mailbox is open.
IsAlive(a) == phase[a] \in {"connecting", "running"}

HasRoom(a) == Len(mailbox[a]) < MailboxCap

Enqueue(a, kind, r) ==
    mailbox' = [mailbox EXCEPT ![a] = Append(@, [kind |-> kind, req |-> r])]

Respond(r, code) ==
    /\ pc' = [pc EXCEPT ![r] = "done"]
    /\ status' = [status EXCEPT ![r] = code]

\* Mutant: the guard outlives its stream.
ReleaseGuardNot(r) == UNCHANGED reader

\* The owner of a stream is dropped, and the read guard in it with it.
ReleaseGuard(r) == reader' = [a \in Actors |-> IF reader[a] = r THEN None ELSE reader[a]]

Init ==
    /\ sessions = [i \in Ids |-> None]
    /\ phase    = [a \in Actors |-> "unborn"]
    /\ sid      = [a \in Actors |-> None]
    /\ timers   = [a \in Actors |-> {}]
    /\ killed   = {}
    /\ mailbox  = [a \in Actors |-> <<>>]
    /\ busy     = [a \in Actors |-> None]
    /\ reader   = [a \in Actors |-> None]
    /\ abort    = [a \in Actors |-> None]
    /\ aborted  = {}
    /\ upstream = [a \in Actors |-> <<>>]
    /\ sent     = [a \in Actors |-> 0]
    /\ taken    = [a \in Actors |-> 0]
    /\ eof      = [a \in Actors |-> FALSE]
    /\ pc       = [r \in Reqs |-> "new"]
    /\ req      = [r \in Reqs |-> None]
    /\ target   = [r \in Reqs |-> None]
    /\ next     = [r \in Reqs |-> 1]
    /\ status   = [r \in Reqs |-> None]
    /\ body     = [r \in Reqs |-> <<>>]
    /\ stats    = [f \in Counters |-> 0]
    /\ reported = [f \in Counters |-> 0]
    /\ takes    = 0

-----------------------------------------------------------------------------
(* Server::handle_request_inner: the lookup runs under the table's lock.   *)

\* can_create_session
CanCreate(q) == q.method # "PATCH"

WellFormed(q) == q.method # "OTHER" /\ q.id # None

\* Mutant: a session that is still connecting is not taken for a live one.
LiveEntryConnected(i) == sessions[i] # None /\ phase[sessions[i]] = "running"

\* The table has an entry for i and its actor is alive.
LiveEntry(i) == sessions[i] # None /\ IsAlive(sessions[i])

\* Mutant: a POST always starts a fresh session.
MissingFresh(q) == ~LiveEntry(q.id) \/ q.method = "POST"

\* The lookup finds no live session for q.
Missing(q) == ~LiveEntry(q.id)

Arrive(r, q) ==
    /\ pc[r] = "new"
    /\ req' = [req EXCEPT ![r] = q]

Dispatch(r, q, a) ==
    /\ target' = [target EXCEPT ![r] = a]
    /\ pc' = [pc EXCEPT ![r] = IF q.method = "GET" THEN "get_send" ELSE "body"]

RejectRequest(r, q) ==
    /\ Arrive(r, q)
    /\ WellFormed(q) => Missing(q) /\ ~CanCreate(q)
    /\ Respond(r, "BAD_REQUEST")
    /\ UNCHANGED <<target, next, body, tableVars, timerVars, boxVars, lockVars, upVars, statVars>>

JoinSession(r, q) ==
    /\ Arrive(r, q)
    /\ WellFormed(q) /\ LiveEntry(q.id)
    /\ Dispatch(r, q, sessions[q.id])
    /\ UNCHANGED <<next, status, body, tableVars, timerVars, boxVars, lockVars, upVars, statVars>>

\* new_session spawns actor a, whose on_start arms both timeouts first.
NewSession(a, i) ==
    /\ phase[a] = "unborn"
    /\ phase' = [phase EXCEPT ![a] = "connecting"]
    /\ sid' = [sid EXCEPT ![a] = i]
    /\ timers' = [timers EXCEPT ![a] = Timers]

CreateSession(r, q, a) ==
    /\ Arrive(r, q)
    /\ WellFormed(q) /\ Missing(q) /\ CanCreate(q)
    /\ NewSession(a, q.id)
    /\ sessions' = [sessions EXCEPT ![q.id] = a]
    /\ Dispatch(r, q, a)
    /\ UNCHANGED <<killed, next, status, body, boxVars, lockVars, upVars, statVars>>

-----------------------------------------------------------------------------
(* The life of a Session actor.                                            *)

\* Mutant: the aborted task is not replaced.
ResetIdleTimeoutNot(a) == timers' = [timers EXCEPT ![a] = @ \ {"idle"}]

\* Session::reset_idle_timeout: abort the idle task, spawn a new one.
ResetIdleTimeout(a) == timers' = [timers EXCEPT ![a] = @ \cup {"idle"}]

\* The actor's loop ends: its mailbox is closed and dropped.
LoopEnds(a) ==
    /\ phase' = [phase EXCEPT ![a] = "stopped"]
    /\ mailbox' = [mailbox EXCEPT ![a] = <<>>]
    /\ busy' = [busy EXCEPT ![a] = None]

OnStartOk(a) ==
    /\ phase[a] = "connecting"
    /\ phase' = [phase EXCEPT ![a] = "running"]
    /\ ResetIdleTimeout(a)
    /\ UNCHANGED <<sessions, sid, killed, boxVars, lockVars, upVars, reqVars, statVars>>

\* The connection failed, or on_start was cut short by a kill.  The local
\* abort handles are dropped, which leaves the timeout tasks asleep.
OnStartErr(a) ==
    /\ phase[a] = "connecting"
    /\ phase' = [phase EXCEPT ![a] = "failed"]
    /\ mailbox' = [mailbox EXCEPT ![a] = <<>>]
    /\ UNCHANGED <<sessions, sid, timerVars, busy, lockVars, upVars, reqVars, statVars>>

\* Mutant: the wake-up does not reach the actor.
SendKillNot(a) == UNCHANGED killed

SendKill(a) == killed' = killed \cup {a}

\* actor_timeout: the task wakes up and calls kill.
ActorTimeout(a, t) ==
    /\ t \in timers[a]
    /\ timers' = [timers EXCEPT ![a] = @ \ {t}]
    /\ SendKill(a)
    /\ UNCHANGED <<tableVars, boxVars, lockVars, upVars, reqVars, statVars>>

\* Mutant: a graceful stop, which waits for the handler in progress.
MayKillGraceful(a) == a \in killed /\ phase[a] = "running" /\ busy[a] = None

MayKill(a) == a \in killed /\ phase[a] = "running"

\* The killed loop is dropped, with the write_all it may be awaiting (of
\* whose frame upstream has less than the whole).
Kill(a) ==
    /\ MayKill(a)
    /\ LoopEnds(a)
    /\ UNCHANGED <<sessions, sid, timerVars, lockVars, upVars, reqVars, statVars>>

\* Mutant: the entry stays in the table.
RemoveEntryNot(a) == UNCHANGED sessions

\* sessions.remove(&session_id), whichever actor the entry now refers to.
RemoveEntry(a) == sessions' = [sessions EXCEPT ![sid[a]] = None]

\* Mutant: the stream is not aborted.
AbortReaderNot(a) == UNCHANGED <<abort, aborted>>

AbortReader(a) ==
    /\ abort' = [abort EXCEPT ![a] = None]
    /\ aborted' = aborted \cup ({abort[a]} \ {None})

\* Session::drop, after the loop has ended.
Drop(a) ==
    /\ phase[a] = "stopped"
    /\ phase' = [phase EXCEPT ![a] = "dropped"]
    /\ timers' = [timers EXCEPT ![a] = {}]
    /\ AbortReader(a)
    /\ RemoveEntry(a)
    /\ UNCHANGED <<sid, killed, boxVars, reader, upVars, reqVars, statVars>>

-----------------------------------------------------------------------------
(* The actor's message handlers.                                           *)

\* The loop takes the message at the head of the mailbox.
Takes(a, kind) ==
    /\ phase[a] = "running" /\ busy[a] = None
    /\ mailbox[a] # <<>> /\ Head(mailbox[a]).kind = kind

\* Mutant: the lock is not consulted.
TryLockAlways(a) == TRUE

\* upstream_read.try_lock_owned succeeds.
TryLock(a) == reader[a] = None

\* Mutant: only the first stream gets an abort handle.
SaveAbortHandleOnce(a, r) == abort' = [abort EXCEPT ![a] = IF @ = None THEN r ELSE @]

SaveAbortHandle(a, r) == abort' = [abort EXCEPT ![a] = r]

\* Message<SessionRead>: reply with a stream that owns the lock, or with
\* None.  A reply to a handler that is gone is dropped, and the guard with it.
HandleSessionRead(a) ==
    LET r == Head(mailbox[a]).req
    IN  /\ Takes(a, "read")
        /\ mailbox' = [mailbox EXCEPT ![a] = Tail(@)]
        /\ \/ /\ TryLock(a) /\ pc[r] = "get_wait"
              /\ reader' = [reader EXCEPT ![a] = r]
              /\ SaveAbortHandle(a, r)
              /\ pc' = [pc EXCEPT ![r] = "get_first"]
              /\ status' = [status EXCEPT ![r] = "OK"]
           \/ /\ TryLock(a) /\ pc[r] = "gone"
              /\ SaveAbortHandle(a, r)
              /\ UNCHANGED <<reader, pc, status>>
           \/ /\ ~TryLock(a) /\ pc[r] = "get_wait"
              /\ Respond(r, "TOO_MANY_REQUESTS")
              /\ UNCHANGED <<reader, abort>>
           \/ /\ ~TryLock(a) /\ pc[r] = "gone"
              /\ UNCHANGED <<reader, abort, pc, status>>
        /\ UNCHANGED <<tableVars, timerVars, busy, aborted, upVars, req, target, next, body, statVars>>

\* Message<SessionWrite>, up to the await of write_all.
HandleSessionWrite(a) ==
    /\ Takes(a, "write")
    /\ mailbox' = [mailbox EXCEPT ![a] = Tail(@)]
    /\ busy' = [busy EXCEPT ![a] = Head(mailbox[a]).req]
    /\ UNCHANGED <<tableVars, timerVars, lockVars, upVars, reqVars, statVars>>

\* The reply to ask(SessionWrite), unless the handler that asked is gone.
ReplyWritten(r) == pc' = [pc EXCEPT ![r] = IF @ = "put_wait" THEN "put_ok" ELSE @]

\* Mutant: the reset is sent whatever the mailbox holds.
TrySendResetAlways(a) == Enqueue(a, "reset", None)

\* tell(SessionResetIdleTimeout).try_send(): dropped when the mailbox is full.
TrySendReset(a) == IF HasRoom(a) THEN Enqueue(a, "reset", None) ELSE UNCHANGED mailbox

WriteOk(a) ==
    /\ phase[a] = "running" /\ busy[a] # None
    /\ upstream' = [upstream EXCEPT ![a] = Append(@, <<busy[a], next[busy[a]]>>)]
    /\ TrySendReset(a)
    /\ ReplyWritten(busy[a])
    /\ busy' = [busy EXCEPT ![a] = None]
    /\ UNCHANGED <<tableVars, timerVars, lockVars, sent, taken, eof, req, target, next, status, body, statVars>>

\* Mutant: the error is only logged.
CtxStopNot(a) ==
    /\ busy' = [busy EXCEPT ![a] = None]
    /\ UNCHANGED <<phase, mailbox>>

\* ctx.stop(): the loop ends once the handler has replied.
CtxStop(a) == LoopEnds(a)

\* write_all failed; the reply is the same () as that of a write that did not.
WriteErr(a) ==
    /\ phase[a] = "running" /\ busy[a] # None
    /\ ReplyWritten(busy[a])
    /\ CtxStop(a)
    /\ UNCHANGED <<sessions, sid, timerVars, lockVars, upVars, req, target, next, status, body, statVars>>

\* Message<SessionResetIdleTimeout>.
HandleReset(a) ==
    /\ Takes(a, "reset")
    /\ mailbox' = [mailbox EXCEPT ![a] = Tail(@)]
    /\ ResetIdleTimeout(a)
    /\ UNCHANGED <<tableVars, killed, busy, lockVars, upVars, reqVars, statVars>>

-----------------------------------------------------------------------------
(* handle_read_request and handle_write_request.                           *)

\* ask(..).await puts the message in the mailbox once there is room.
Ask(r) ==
    /\ pc[r] \in {"get_send", "put_send"}
    /\ IsAlive(target[r]) /\ HasRoom(target[r])
    /\ Enqueue(target[r], IF pc[r] = "get_send" THEN "read" ELSE "write", r)
    /\ pc' = [pc EXCEPT ![r] = IF @ = "get_send" THEN "get_wait" ELSE "put_wait"]
    /\ UNCHANGED <<tableVars, timerVars, busy, lockVars, upVars, req, target, next, status, body, statVars>>

\* ask(..).await returns an error: the mailbox is closed, or the message and
\* the sender of its reply were dropped with it.
AskErr(r) ==
    /\ pc[r] \in Asking
    /\ ~IsAlive(target[r])
    /\ Respond(r, "BAD_REQUEST")
    /\ UNCHANGED <<req, target, next, body, tableVars, timerVars, boxVars, lockVars, upVars, statVars>>

\* data.next().await yields a frame.
BodyFrame(r) ==
    /\ pc[r] = "body" /\ next[r] <= req[r].frames
    /\ pc' = [pc EXCEPT ![r] = "put_send"]
    /\ UNCHANGED <<req, target, next, status, body, tableVars, timerVars, boxVars, lockVars, upVars, statVars>>

\* data.next().await yields an error.
BodyErr(r) ==
    /\ pc[r] = "body"
    /\ Respond(r, "BAD_REQUEST")
    /\ UNCHANGED <<req, target, next, body, tableVars, timerVars, boxVars, lockVars, upVars, statVars>>

\* data.next().await yields None: an empty body is an error.
BodyEnd(r) ==
    /\ pc[r] = "body" /\ next[r] > req[r].frames
    /\ Respond(r, IF req[r].frames = 0 THEN "BAD_REQUEST" ELSE "NO_CONTENT")
    /\ UNCHANGED <<req, target, next, body, tableVars, timerVars, boxVars, lockVars, upVars, statVars>>

\* The ask returned: bytes_tx.fetch_add, then the next turn of the loop.
CountTx(r) ==
    /\ pc[r] = "put_ok"
    /\ stats' = [stats EXCEPT !["tx"] = @ + 1]
    /\ next' = [next EXCEPT ![r] = @ + 1]
    /\ pc' = [pc EXCEPT ![r] = "body"]
    /\ UNCHANGED <<req, target, status, body, reported, takes, tableVars, timerVars, boxVars, lockVars, upVars>>

-----------------------------------------------------------------------------
(* The stream in the response body of a GET.                               *)

\* read_buf yields a unit; the first read waits for it, a later one does not.
StreamRead(r) ==
    LET a == target[r]
    IN  /\ pc[r] \in {"get_first", "get_more"} /\ r \notin aborted
        /\ taken[a] < sent[a]
        /\ taken' = [taken EXCEPT ![a] = @ + 1]
        /\ stats' = [stats EXCEPT !["rx"] = @ + 1]
        /\ pc' = [pc EXCEPT ![r] = "get_tell"]
        /\ UNCHANGED <<req, target, next, status, body, reported, takes,
                       tableVars, timerVars, boxVars, lockVars, upstream, sent, eof>>

\* Mutant: the frame is yielded only if the actor could be told.
YieldFrameIfTold(r) ==
    body' = IF IsAlive(target[r]) THEN [body EXCEPT ![r] = Append(@, taken[target[r]])] ELSE body

YieldFrame(r) == body' = [body EXCEPT ![r] = Append(@, taken[target[r]])]

\* tell(SessionResetIdleTimeout).await waits for room in the mailbox; an
\* error is ignored.  Then the stream yields the frame (an abort during this
\* poll is seen at the next one).
StreamYield(r) ==
    LET a == target[r]
    IN  /\ pc[r] = "get_tell"
        /\ \/ /\ IsAlive(a) /\ HasRoom(a)
              /\ Enqueue(a, "reset", None)
           \/ /\ ~IsAlive(a)
              /\ UNCHANGED mailbox
        /\ YieldFrame(r)
        /\ pc' = [pc EXCEPT ![r] = "get_more"]
        /\ UNCHANGED <<req, target, next, status, tableVars, timerVars, busy, lockVars, upVars, statVars>>

\* End of input, an error, or a later read with nothing at hand (the runtime
\* may report nothing although a unit waits).
StreamEnd(r) ==
    /\ r \notin aborted
    /\ \/ pc[r] = "get_more"
       \/ pc[r] = "get_first" /\ eof[target[r]] /\ taken[target[r]] = sent[target[r]]
    /\ pc' = [pc EXCEPT ![r] = "done"]
    /\ ReleaseGuard(r)
    /\ UNCHANGED <<req, target, next, status, body, tableVars, timerVars, boxVars, abort, aborted, upVars, statVars>>

\* An aborted stream ends at its next poll, whatever it was waiting for.
StreamAborted(r) ==
    /\ pc[r] \in Streaming /\ r \in aborted
    /\ pc' = [pc EXCEPT ![r] = "done"]
    /\ ReleaseGuard(r)
    /\ UNCHANGED <<req, target, next, status, body, tableVars, timerVars, boxVars, abort, aborted, upVars, statVars>>

-----------------------------------------------------------------------------
(* Statistics.                                                             *)

\* Mutant: the counter is copied (as freeze does) and not zeroed.
ZeroNot(f) == UNCHANGED stats

Zero(f) == stats' = [stats EXCEPT ![f] = 0]

\* AtomicStats::take swaps bytes_tx and then bytes_rx: one step is one swap.
TakeStats ==
    LET f == IF takes % 2 = 0 THEN "tx" ELSE "rx"
    IN  /\ takes < 2 * MaxTakes
        /\ takes' = takes + 1
        /\ reported' = [reported EXCEPT ![f] = @ + stats[f]]
        /\ Zero(f)
        /\ UNCHANGED <<tableVars, timerVars, boxVars, lockVars, upVars, reqVars>>

-----------------------------------------------------------------------------
(* The environment: the upstream host and the HTTP connections.            *)

UpstreamSends(a) ==
    /\ phase[a] = "running" /\ ~eof[a] /\ sent[a] < MaxUnits
    /\ sent' = [sent EXCEPT ![a] = @ + 1]
    /\ UNCHANGED <<upstream, taken, eof, tableVars, timerVars, boxVars, lockVars, reqVars, statVars>>

UpstreamCloses(a) ==
    /\ phase[a] = "running" /\ ~eof[a]
    /\ eof' = [eof EXCEPT ![a] = TRUE]
    /\ UNCHANGED <<upstream, sent, taken, tableVars, timerVars, boxVars, lockVars, reqVars, statVars>>

\* The HTTP connection of r is lost: its handler or its stream is dropped.
Disconnect(r) ==
    /\ pc[r] \notin {"new", "done", "gone"}
    /\ pc' = [pc EXCEPT ![r] = "gone"]
    /\ ReleaseGuard(r)
    /\ UNCHANGED <<req, target, next, status, body, tableVars, timerVars, boxVars, abort, aborted, upVars, statVars>>

-----------------------------------------------------------------------------
RequestStep(r) ==
    \/ \E q \in Offered :
          \/ RejectRequest(r, q)
          \/ JoinSession(r, q)
          \/ \E a \in Actors : CreateSession(r, q, a)
    \/ Ask(r) \/ AskErr(r)
    \/ BodyFrame(r) \/ BodyErr(r) \/ BodyEnd(r) \/ CountTx(r)
    \/ StreamRead(r) \/ StreamYield(r) \/ StreamEnd(r) \/ StreamAborted(r)
    \/ Disconnect(r)

ActorStep(a) ==
    \/ OnStartOk(a) \/ OnStartErr(a)
    \/ \E t \in Timers : ActorTimeout(a, t)
    \/ Kill(a) \/ Drop(a)
    \/ HandleSessionRead(a) \/ HandleSessionWrite(a) \/ HandleReset(a)
    \/ WriteOk(a) \/ WriteErr(a)
    \/ UpstreamSends(a) \/ UpstreamCloses(a)

Next ==
    \/ \E r \in Reqs : RequestStep(r)
    \/ \E a \in Actors : ActorStep(a)
    \/ TakeStats

Spec == Init /\ [][Next]_vars

(***************************************************************************)
(* The runtime polls every task that can make progress, a connection       *)
(* attempt ends, and a sleep ends.  Nothing is assumed of clients (bodies, *)
(* disconnections, taking the response: a stream that has yielded a frame  *)
(* is not polled before the client has room) or of upstream.               *)
(***************************************************************************)
Fairness ==
    /\ \A a \in Actors :
          /\ WF_vars(OnStartOk(a) \/ OnStartErr(a))
          /\ WF_vars(ActorTimeout(a, "total"))
          /\ WF_vars(Kill(a))
          /\ WF_vars(Drop(a))
          /\ WF_vars(HandleSessionRead(a) \/ HandleSessionWrite(a) \/ HandleReset(a))
    /\ \A r \in Reqs :
          /\ WF_vars(Ask(r))
          /\ WF_vars(AskErr(r))
          /\ WF_vars(pc[r] # "get_more" /\ StreamAborted(r))

FairSpec == Spec /\ Fairness
-----------------------------------------------------------------------------
(* Safety.                                                                 *)

\* Every variable has its type; in particular a mailbox never holds more
\* messages than its capacity, whoever sends them.
TypeOK ==
    /\ sessions \in [Ids -> Actors \cup {None}]
    /\ phase    \in [Actors -> Phases]
    /\ sid      \in [Actors -> Ids \cup {None}]
    /\ timers   \in [Actors -> SUBSET Timers]
    /\ killed   \subseteq Actors
    /\ mailbox  \in [Actors -> Seq(Messages)]
    /\ \A a \in Actors : Len(mailbox[a]) <= MailboxCap
    /\ busy     \in [Actors -> Reqs \cup {None}]
    /\ reader   \in [Actors -> Reqs \cup {None}]
    /\ abort    \in [Actors -> Reqs \cup {None}]
    /\ aborted  \subseteq Reqs
    /\ upstream \in [Actors -> Seq(Reqs \X Nat)]
    /\ sent     \in [Actors -> Nat]
    /\ taken    \in [Actors -> Nat]
    /\ eof      \in [Actors -> BOOLEAN]
    /\ pc       \in [Reqs -> Locations]
    /\ req      \in [Reqs -> Requests \cup {None}]
    /\ target   \in [Reqs -> Actors \cup {None}]
    /\ next     \in [Reqs -> Nat]
    /\ status   \in [Reqs -> Codes \cup {None}]
    /\ body     \in [Reqs -> Seq(Nat)]
    /\ stats    \in [Counters -> Nat]
    /\ reported \in [Counters -> Nat]
    /\ takes    \in Nat

\* The table files every session under the session's own id, and never holds
\* one whose Session::drop has run.
EntriesOwned ==
    \A i \in Ids : LET a == sessions[i]
                   IN  a # None => sid[a] = i /\ phase[a] \notin {"unborn", "dropped"}

\* A live session is the one the table has for its id as long as no other
\* session with that id was dropped (Drop removes by id).
LiveReachable ==
    \A a \in Actors : IsAlive(a) =>
        \/ sessions[sid[a]] = a
        \/ \E b \in Actors \ {a} : sid[b] = sid[a] /\ phase[b] = "dropped"

Filed(a) == sessions[sid[a]] = a

\* The step of Session::drop of a session other than a, with a's id.
DropOfAnother(a) ==
    \E b \in Actors \ {a} : sid[b] = sid[a] /\ phase[b] = "stopped" /\ phase'[b] = "dropped"

\* A session is in the table from its first step on, and while it lives it
\* leaves the table in no step but one in which another session of its id is
\* dropped: lookups and replacements never lose it.
LeavesByDrop ==
    [][\A a \in Actors : IsAlive(a)' /\ (IsAlive(a) => Filed(a)) => Filed(a)' \/ DropOfAnother(a)]_vars

\* "There can only be one reader at a time": a stream that may still read
\* from a connection holds the lock of that connection.
OneReader == \A r \in Reqs : pc[r] \in Streaming => reader[target[r]] = r

\* The lock is held by nobody but a stream that some response still owns: a
\* GET that ended, was refused or was cancelled never leaves it locked.
NoLeakedLock ==
    \A a \in Actors : LET r == reader[a]
                      IN  r # None => pc[r] \in Streaming /\ target[r] = a

\* The abort handle that a Session keeps is the one of the stream that holds
\* the lock, so that dropping the Session ends that stream.
AbortCoversReader ==
    \A a \in Actors : reader[a] # None =>
        IF phase[a] = "dropped" THEN reader[a] \in aborted ELSE abort[a] = reader[a]

\* Until it is killed, an actor has a task asleep for each of its timeouts.
DeadlineArmed == \A a \in Actors : IsAlive(a) => timers[a] = Timers \/ a \in killed

Elements(s) == {s[k] : k \in DOMAIN s}

Frames(r) == {r} \X (1..req[r].frames)

\* A write request that was answered NO_CONTENT has all its frames upstream,
\* unless the session has stopped: no later request joins that session.
AckedOrStopped ==
    \A r \in Reqs : status[r] = "NO_CONTENT" /\ IsAlive(target[r]) =>
                       Frames(r) \subseteq Elements(upstream[target[r]])

\* Each frame comes after all frames of its request with a lower number, and
\* after no other frame of its request.
InOrder(frames) ==
    \A j \in 1..Len(frames) :
        LET r == frames[j][1]
            n == frames[j][2]
        IN  /\ n >= 1
            /\ \A m \in 1..(n - 1) : \E i \in 1..(j - 1) : frames[i] = <<r, m>>
            /\ \A i \in 1..(j - 1) : frames[i][1] = r => frames[i][2] < n

\* Upstream receives the frames of a request in order, none twice and none
\* missing before another, on the connection of the session it found.
FramesInOrder ==
    \A a \in Actors : /\ InOrder(upstream[a])
                      /\ \A f \in Elements(upstream[a]) : target[f[1]] = a

\* The response that has, or is about to yield, unit u of connection a.
Carries(r, a, u) ==
    /\ target[r] = a
    /\ u \in Elements(body[r]) \/ (pc[r] = "get_tell" /\ u = taken[a])

Cut(r) == pc[r] = "gone" \/ r \in aborted

\* Every unit read from upstream is in exactly one response, as long as no
\* response was cut off by its client or by the end of the session.
NoUnitLost ==
    \A a \in Actors : (\A r \in Reqs : target[r] = a => ~Cut(r)) =>
        \A u \in 1..taken[a] : Cardinality({r \in Reqs : Carries(r, a, u)}) = 1

\* What a function of counters has counted: the first f[x] of every x.
Counted(f) == UNION {{x} \X (1..f[x]) : x \in DOMAIN f}

\* take_stats loses no count and repeats none: what was reported and what is
\* still counted add up to the frames acknowledged and the units read.
StatsConserved ==
    /\ reported["tx"] + stats["tx"] = Cardinality(Counted([r \in Reqs |-> next[r] - 1]))
    /\ reported["rx"] + stats["rx"] = Cardinality(Counted(taken))

-----------------------------------------------------------------------------
(* Liveness, under FairSpec.                                               *)

\* A GET that waits for upstream, or for the actor's mailbox, does not wait
\* for ever: the session's end aborts its stream.
LongPollEnds ==
    \A r \in Reqs : pc[r] \in {"get_first", "get_tell"} ~> pc[r] \notin {"get_first", "get_tell"}

\* A handler that asks an actor gets an answer, also when upstream does not
\* take the data or the actor is killed first.
AskReturns == \A r \in Reqs : pc[r] \in Asking ~> pc[r] \notin Asking

\* Every session that was connected is dropped in the end.
SessionsCleaned == \A a \in Actors : phase[a] = "running" ~> phase[a] = "dropped"

-----------------------------------------------------------------------------
(* What the documentation says and the code does not guarantee.            *)

\* Status codes of handle_request: BAD_REQUEST on any error, NO_CONTENT on
\* success.  A write that failed is answered NO_CONTENT as well.
AckedMeansWritten ==
    \A r \in Reqs : status[r] = "NO_CONTENT" => Frames(r) \subseteq Elements(upstream[target[r]])

\* "one TCP stream to upstream per session": no two live sessions of one id.
OneLiveSessionPerId ==
    \A a, b \in Actors : a # b /\ IsAlive(a) /\ IsAlive(b) => sid[a] # sid[b]

\* "Sessions must have been cleaned up": a session that ended before it was
\* connected does not stay in the table.
DeadEntriesCollected ==
    \A i \in Ids, a \in Actors :
        (sessions[i] = a /\ phase[a] = "failed") ~> sessions[i] # a
=============================================================================

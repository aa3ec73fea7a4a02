----------------------------- MODULE TimedServer -----------------------------
(***************************************************************************)
(* The server with the durations of its timeouts (Config::total_timeout,   *)
(* Config::idle_timeout).  Server lets a timeout fire at any time; here an *)
(* action of Server also says what it does to the sleeping tasks, and a    *)
(* timeout fires when its task has slept long enough.                      *)
(*                                                                         *)
(* Time is discrete.  The clock moves only when every task that could run  *)
(* has run, as under tokio's paused clock in the tests of server.rs: what  *)
(* is shown here is about waiting, not about a machine that is overloaded. *)
(* What depends on others takes any time: connecting, write_all, upstream, *)
(* the client's body, and a client that takes its response.                *)
(***************************************************************************)
EXTENDS Server

CONSTANTS
    TotalTimeout,  \* Config::total_timeout
    IdleTimeout,   \* Config::idle_timeout
    MaxConnect     \* bound: time a connection attempt takes

ASSUME TimedAssumption == TotalTimeout \in Nat /\ IdleTimeout \in Nat /\ MaxConnect \in Nat

VARIABLES
    left,    \* time a timeout task still sleeps
    age,     \* time since the actor was spawned
    fresh,   \* actors whose upstream connection was made at this instant
    quiet,   \* time since data last moved on that connection
    missed   \* actors that were not told of data that moved since the last reset

timeVars  == <<left, age, fresh, quiet, missed>>
timedVars == <<vars, timeVars>>

\* The duration that new_session and on_start give each task.
Timeout == [t \in Timers |-> IF t = "total" THEN TotalTimeout ELSE IdleTimeout]

TimedInit ==
    /\ Init
    /\ left   = [a \in Actors |-> Timeout]
    /\ age    = [a \in Actors |-> 0]
    /\ fresh  = {}
    /\ quiet  = [a \in Actors |-> 0]
    /\ missed = {}

-----------------------------------------------------------------------------
(* Steps of Server that start, end or concern a timeout.                   *)

\* on_start arms both timeouts.
Spawn(r, q, a) ==
    /\ CreateSession(r, q, a)
    /\ left' = [left EXCEPT ![a] = Timeout]
    /\ UNCHANGED <<age, fresh, quiet, missed>>

\* Mutant: the old task is left asleep and no new one is spawned.
RearmNot(a) ==
    /\ missed' = missed \ {a}
    /\ UNCHANGED left

\* Mutant: both timeouts start again.
RearmBoth(a) ==
    /\ left' = [left EXCEPT ![a] = Timeout]
    /\ missed' = missed \ {a}

\* Mutant: the new task sleeps for the other timeout.
RearmTotal(a) ==
    /\ left' = [left EXCEPT ![a]["idle"] = TotalTimeout]
    /\ missed' = missed \ {a}

\* Session::reset_idle_timeout: a new task sleeps for idle_timeout.
Rearm(a) ==
    /\ left' = [left EXCEPT ![a]["idle"] = IdleTimeout]
    /\ missed' = missed \ {a}

Connected(a) ==
    /\ OnStartOk(a)
    /\ Rearm(a)
    /\ fresh' = fresh \cup {a}
    /\ UNCHANGED <<age, quiet>>

Reset(a) ==
    /\ HandleReset(a)
    /\ Rearm(a)
    /\ UNCHANGED <<age, fresh, quiet>>

Slept(a, t) == left[a][t] = 0

Expire(a, t) ==
    /\ Slept(a, t)
    /\ ActorTimeout(a, t)
    /\ UNCHANGED timeVars

\* Data has moved on the connection of a.
Moved(a) == quiet' = [quiet EXCEPT ![a] = 0]

\* The reset that follows a write is dropped when the mailbox is full.
Wrote(a) ==
    /\ WriteOk(a)
    /\ Moved(a)
    /\ missed' = IF HasRoom(a) THEN missed ELSE missed \cup {a}
    /\ UNCHANGED <<left, age, fresh>>

ReadUnit(r) ==
    /\ StreamRead(r)
    /\ Moved(target[r])
    /\ UNCHANGED <<left, age, fresh, missed>>

\* A client that goes away while its stream waits to send the reset.
Hangup(r) ==
    /\ Disconnect(r)
    /\ missed' = IF pc[r] = "get_tell" THEN missed \cup {target[r]} ELSE missed
    /\ UNCHANGED <<left, age, fresh, quiet>>

\* The other steps of Server take no notice of time.  (take_stats, which
\* concerns no session, is left out.)
Untimed ==
    /\ \/ \E r \in Reqs :
             \/ \E q \in Offered : RejectRequest(r, q) \/ JoinSession(r, q)
             \/ Ask(r) \/ AskErr(r)
             \/ BodyFrame(r) \/ BodyErr(r) \/ BodyEnd(r) \/ CountTx(r)
             \/ StreamYield(r) \/ StreamEnd(r) \/ StreamAborted(r)
       \/ \E a \in Actors :
             \/ OnStartErr(a) \/ Kill(a) \/ Drop(a)
             \/ HandleSessionRead(a) \/ HandleSessionWrite(a) \/ WriteErr(a)
             \/ UpstreamSends(a) \/ UpstreamCloses(a)
    /\ UNCHANGED timeVars

-----------------------------------------------------------------------------
(* The clock.                                                              *)

\* The actor's task can make progress.
ActorReady(a) ==
    \/ MayKill(a) \/ phase[a] = "stopped"
    \/ phase[a] = "running" /\ busy[a] = None /\ mailbox[a] # <<>>

\* The handler or stream of r can make progress.
HandlerReady(r) ==
    \/ pc[r] \in {"get_send", "put_send", "get_tell"} /\ HasRoom(target[r])
    \/ pc[r] \in Asking \cup {"get_tell"} /\ ~IsAlive(target[r])
    \/ pc[r] = "put_ok"

\* The time that passes for the actors in S.
Grown(f, S) == [a \in Actors |-> IF a \in S THEN f[a] + 1 ELSE f[a]]

Tick ==
    LET running == {a \in Actors : phase[a] = "running"}
    IN  /\ \A a \in Actors : ~ActorReady(a)
        /\ \A r \in Reqs : ~HandlerReady(r)
        /\ \A a \in Actors : \A t \in timers[a] : ~Slept(a, t)
        /\ \A a \in Actors : phase[a] = "connecting" => age[a] < MaxConnect
        /\ left' = [a \in Actors |-> [t \in Timers |->
                       IF t \in timers[a] THEN left[a][t] - 1 ELSE left[a][t]]]
        /\ age' = Grown(age, {a \in Actors : IsAlive(a)})
        /\ fresh' = {}
        /\ quiet' = Grown(quiet, running)
        /\ UNCHANGED <<missed, vars>>

TimedNext ==
    \/ \E r \in Reqs, q \in Offered, a \in Actors : Spawn(r, q, a)
    \/ \E a \in Actors :
          \/ Connected(a) \/ Reset(a) \/ Wrote(a)
          \/ \E t \in Timers : Expire(a, t)
    \/ \E r \in Reqs : ReadUnit(r) \/ Hangup(r)
    \/ Untimed
    \/ Tick

TimedSpec == TimedInit /\ [][TimedNext]_timedVars

-----------------------------------------------------------------------------
\* "Total lifetime of a session, from creation until it is forcefully closed":
\* no session keeps an upstream connection beyond total_timeout, whatever it
\* is waiting for.  A connection that took longer is closed at once.
TotalBound == \A a \in Actors : phase[a] = "running" => age[a] <= TotalTimeout \/ a \in fresh

\* No session stays open for longer than idle_timeout without data moving in
\* one direction or the other, whatever messages its clients send.
IdleBound == \A a \in Actors : phase[a] = "running" => quiet[a] <= IdleTimeout

HasReset(box) == \E k \in 1..Len(box) : box[k].kind = "reset"

\* A reset for a is in its mailbox, or a stream is about to send one.
ResetPending(a) ==
    \/ HasReset(mailbox[a])
    \/ \E r \in Reqs : pc[r] = "get_tell" /\ target[r] = a

\* The idle task is due exactly idle_timeout after data last moved in either
\* direction, so that a session in use is never cut off by it.  There are two
\* exceptions: the actor is still in write_all, when it takes no notice of
\* what is read meanwhile, and a reset that was lost.
IdleExact ==
    \A a \in Actors :
        phase[a] = "running" /\ a \notin killed \cup missed /\ busy[a] = None /\ ~ResetPending(a)
            => left[a]["idle"] + quiet[a] = IdleTimeout
=============================================================================

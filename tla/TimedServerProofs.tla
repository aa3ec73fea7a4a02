-------------------------- MODULE TimedServerProofs --------------------------
(* Theorems about TimedServer, for every value of its constants. *)
EXTENDS TimedServer, ServerProofs

USE TimedAssumption

\* Every step of TimedServer is one of Server, or only moves the clock.
LEMMA TimedStep == TimedNext => [Next]_vars
<1>1. ASSUME NEW r \in Reqs, NEW q \in Offered, NEW a \in Actors, Spawn(r, q, a) PROVE Next
  BY <1>1 DEF Spawn, Next, RequestStep
<1>2. ASSUME NEW a \in Actors, Connected(a) \/ Reset(a) \/ Wrote(a) PROVE Next
  BY <1>2 DEF Connected, Reset, Wrote, Next, ActorStep
<1>3. ASSUME NEW a \in Actors, NEW t \in Timers, Expire(a, t) PROVE Next
  BY <1>3 DEF Expire, Next, ActorStep
<1>4. ASSUME NEW r \in Reqs, ReadUnit(r) \/ Hangup(r) PROVE Next
  BY <1>4 DEF ReadUnit, Hangup, Next, RequestStep
<1>5. ASSUME Untimed PROVE Next
  BY <1>5 DEF Untimed, Next, RequestStep, ActorStep
<1>6. ASSUME Tick PROVE UNCHANGED vars
  BY <1>6 DEF Tick
<1>. QED BY <1>1, <1>2, <1>3, <1>4, <1>5, <1>6 DEF TimedNext

\* TimedServer implements Server (handlers, actors and streams behave in it as
\* in server.rs without durations), so all that is proved of Server holds.
THEOREM TimedImplementsServer == TimedSpec => Spec
<1>1. TimedInit => Init
  BY DEF TimedInit
<1>2. [TimedNext]_timedVars => [Next]_vars
  BY TimedStep DEF timedVars
<1>. QED BY <1>1, <1>2, PTL DEF TimedSpec, Spec

-----------------------------------------------------------------------------
(* The bounds on the life of a session.                                    *)

\* The types of the clocks.
ClocksOK ==
    /\ left  \in [Actors -> [Timers -> Nat]]
    /\ age   \in [Actors -> Nat]
    /\ quiet \in [Actors -> Nat]
    /\ fresh \subseteq Actors /\ missed \subseteq Actors

\* Nothing is counted before it begins.
NotBegun ==
    \A a \in Actors : /\ phase[a] = "unborn" => age[a] = 0
                      /\ phase[a] \in {"unborn", "connecting"} => quiet[a] = 0

\* The task of total_timeout sleeps until total_timeout after the spawn.
TotalExact ==
    \A a \in Actors : IsAlive(a) /\ "total" \in timers[a] => left[a]["total"] + age[a] = TotalTimeout

\* The idle task is due no later than idle_timeout after data last moved.
IdleDue == \A a \in Actors : phase[a] = "running" => left[a]["idle"] + quiet[a] <= IdleTimeout

\* A reset that the actor is about to handle belongs to this instant.
ResetNow ==
    \A a \in Actors : phase[a] = "running" /\ busy[a] = None /\ ResetPending(a) => quiet[a] = 0

TimedInv == ClocksOK /\ NotBegun /\ TotalExact /\ TotalBound /\ IdleDue /\ ResetNow

\* The initial state satisfies the invariant.
LEMMA TimedInvInit == TimedInit => TimedInv
BY DEF TimedInit, Init, TimedInv, ClocksOK, NotBegun, TotalExact, TotalBound, IdleDue, ResetNow,
       Timeout, Timers, IsAlive

\* A step that begins nothing: no session is created or connected, no task is
\* spawned, and no reset becomes one that the actor is about to handle.
BeginsNothing ==
    \A a \in Actors :
        /\ phase'[a] = phase[a] \/ phase'[a] \in {"stopped", "dropped", "failed"}
        /\ timers'[a] \subseteq timers[a]
        /\ phase'[a] = "running" /\ busy'[a] = None /\ ResetPending(a)' => busy[a] = None /\ ResetPending(a)

\* Such a step, of which the clocks take no notice, keeps the invariant.
LEMMA TimedKept ==
    ASSUME TimedInv, BeginsNothing, UNCHANGED <<left, age, fresh, quiet>>, missed' \subseteq Actors
    PROVE  TimedInv'
<1>1. ClocksOK' /\ NotBegun'
  BY DEF TimedInv, ClocksOK, NotBegun, BeginsNothing
<1>2. TotalExact' /\ TotalBound'
  BY DEF TimedInv, TotalExact, TotalBound, BeginsNothing, IsAlive
<1>3. IdleDue' /\ ResetNow'
  BY DEF TimedInv, IdleDue, ResetNow, BeginsNothing
<1>. QED BY <1>1, <1>2, <1>3 DEF TimedInv

-----------------------------------------------------------------------------
(* Resets in mailboxes.                                                    *)

\* What the rest of a mailbox holds, the mailbox holds.
LEMMA TailReset ==
    ASSUME NEW s \in Seq(Messages), s # <<>>, HasReset(Tail(s))
    PROVE  HasReset(s)
<1>1. PICK k \in 1..Len(Tail(s)) : Tail(s)[k].kind = "reset"
  BY DEF HasReset
<1>2. k + 1 \in 1..Len(s) /\ Tail(s)[k] = s[k + 1]
  BY ONLY s \in Seq(Messages), s # <<>>, k \in 1..Len(Tail(s))
<1>. QED BY <1>1, <1>2 DEF HasReset

\* A message that is added is a reset, or adds none.
LEMMA AppendReset ==
    ASSUME NEW s \in Seq(Messages), NEW m \in Messages
    PROVE  HasReset(Append(s, m)) <=> HasReset(s) \/ m.kind = "reset"
<1>1. /\ Len(Append(s, m)) = Len(s) + 1 /\ Append(s, m)[Len(s) + 1] = m
      /\ \A k \in 1..Len(s) : Append(s, m)[k] = s[k]
      /\ Len(s) \in Nat
  BY ONLY s \in Seq(Messages), m \in Messages
<1>2. 1..(Len(s) + 1) = 1..Len(s) \cup {Len(s) + 1}
  BY <1>1
<1>. QED BY ONLY <1>1, <1>2 DEF HasReset

\* An empty mailbox holds none.
LEMMA EmptyReset == ~HasReset(<<>>)
BY DEF HasReset

\* No reset for a is added, to its mailbox or by a stream.
NoResetAdded(a) ==
    /\ HasReset(mailbox'[a]) => HasReset(mailbox[a])
    /\ \A r \in Reqs : pc'[r] = "get_tell" /\ target'[r] = a => pc[r] = "get_tell" /\ target[r] = a

\* Then what is pending was pending before.
LEMMA PendingBefore ==
    ASSUME NEW a \in Actors, NoResetAdded(a), ResetPending(a)'
    PROVE  ResetPending(a)
BY DEF NoResetAdded, ResetPending

\* Taking a message from a mailbox adds no reset to any.
LEMMA TakeAddsNone ==
    ASSUME BoxOK, NEW a \in Actors, mailbox[a] # <<>>, mailbox' = [mailbox EXCEPT ![a] = Tail(@)]
    PROVE  \A c \in Actors : HasReset(mailbox'[c]) => HasReset(mailbox[c])
<1>1. HasReset(Tail(mailbox[a])) => HasReset(mailbox[a])
  BY TailReset DEF BoxOK
<1>. QED BY <1>1 DEF BoxOK

\* Sending a request to an actor adds no reset.
LEMMA AskAddsNone ==
    ASSUME BoxOK, NEW a \in Actors, NEW kind \in {"read", "write"}, NEW r \in Reqs, Enqueue(a, kind, r)
    PROVE  \A c \in Actors : HasReset(mailbox'[c]) => HasReset(mailbox[c])
<1>. DEFINE m == [kind |-> kind, req |-> r]
<1>1. m \in Messages /\ m.kind # "reset"
  BY DEF Messages
<1>2. HasReset(Append(mailbox[a], m)) => HasReset(mailbox[a])
  BY <1>1, AppendReset DEF BoxOK
<1>. QED BY <1>2 DEF BoxOK, Enqueue

\* A reset that is sent is pending, and adds none to another mailbox.
LEMMA SendAddsOne ==
    ASSUME BoxOK, NEW a \in Actors, Enqueue(a, "reset", None)
    PROVE  /\ HasReset(mailbox'[a])
           /\ \A c \in Actors \ {a} : mailbox'[c] = mailbox[c]
<1>. DEFINE m == [kind |-> "reset", req |-> None]
<1>1. m \in Messages /\ m.kind = "reset"
  BY DEF Messages
<1>2. HasReset(Append(mailbox[a], m))
  BY <1>1, AppendReset DEF BoxOK
<1>. QED BY <1>2 DEF BoxOK, Enqueue

-----------------------------------------------------------------------------
(* The steps.                                                              *)

\* The steps that take no notice of time begin nothing.
LEMMA UntimedBegins ==
    ASSUME TypeInv, Untimed
    PROVE  BeginsNothing
<1>. USE DEF TypeInv, TypeOK, tableVars, timerVars, boxVars, reqVars
<1>0. BoxOK
  BY DEF BoxOK
<1>2. ASSUME UNCHANGED <<phase, timers, busy>>, \A a \in Actors : NoResetAdded(a)
      PROVE  BeginsNothing
  BY <1>2, PendingBefore DEF BeginsNothing
<1>3. ASSUME NEW r \in Reqs, NEW q \in Offered, RejectRequest(r, q) \/ JoinSession(r, q)
      PROVE  BeginsNothing
  BY <1>2, <1>3 DEF RejectRequest, JoinSession, Arrive, Respond, Dispatch, NoResetAdded
<1>4. ASSUME NEW r \in Reqs, Ask(r) PROVE BeginsNothing
  <2>1. target[r] \in Actors
    BY <1>4 DEF Ask, TargetOK, Asking
  <2>2. \A c \in Actors : HasReset(mailbox'[c]) => HasReset(mailbox[c])
    BY <1>0, <1>4, <2>1, AskAddsNone DEF Ask
  <2>. QED BY <1>2, <1>4, <2>2 DEF Ask, NoResetAdded
<1>5. ASSUME NEW r \in Reqs, AskErr(r) \/ BodyFrame(r) \/ BodyErr(r) \/ BodyEnd(r) \/ CountTx(r)
      PROVE  BeginsNothing
  BY <1>2, <1>5 DEF AskErr, BodyFrame, BodyErr, BodyEnd, CountTx, Respond, NoResetAdded
<1>6. ASSUME NEW r \in Reqs, StreamEnd(r) \/ StreamAborted(r)
      PROVE  BeginsNothing
  BY <1>2, <1>6 DEF StreamEnd, StreamAborted, NoResetAdded
<1>7. ASSUME NEW r \in Reqs, StreamYield(r) PROVE BeginsNothing
  <2>1. target[r] \in Actors /\ ResetPending(target[r])
    BY <1>7 DEF StreamYield, TargetOK, Streaming, ResetPending
  <2>2. \A c \in Actors \ {target[r]} : mailbox'[c] = mailbox[c]
    BY <1>0, <1>7, <2>1, SendAddsOne DEF StreamYield
  <2>3. \A c \in Actors \ {target[r]} : NoResetAdded(c)
    BY <1>7, <2>2 DEF StreamYield, NoResetAdded
  <2>4. \A c \in Actors : ResetPending(c)' => ResetPending(c)
    BY <2>1, <2>3, PendingBefore
  <2>. QED BY <1>7, <2>4 DEF StreamYield, BeginsNothing
<1>8. ASSUME NEW a \in Actors, OnStartErr(a) \/ Kill(a) \/ WriteErr(a) \/ Drop(a)
      PROVE  BeginsNothing
  <2>1. /\ phase'[a] \in {"stopped", "dropped", "failed"}
        /\ \A c \in Actors \ {a} : phase'[c] = phase[c] /\ busy'[c] = busy[c] /\ mailbox'[c] = mailbox[c]
        /\ \A c \in Actors : timers'[c] \subseteq timers[c]
        /\ UNCHANGED target
        /\ \A r \in Reqs : pc'[r] = "get_tell" => pc[r] = "get_tell"
    BY <1>8, ZenonT(40) DEF OnStartErr, Kill, WriteErr, CtxStop, LoopEnds, Drop, ReplyWritten
  <2>2. \A c \in Actors \ {a} : NoResetAdded(c)
    BY <2>1 DEF NoResetAdded
  <2>. QED BY <2>1, <2>2, PendingBefore DEF BeginsNothing
<1>9. ASSUME NEW a \in Actors, HandleSessionRead(a) \/ HandleSessionWrite(a)
      PROVE  BeginsNothing
  <2>1. \A c \in Actors : HasReset(mailbox'[c]) => HasReset(mailbox[c])
    BY <1>0, <1>9, TakeAddsNone DEF HandleSessionRead, HandleSessionWrite, Takes
  <2>2. \A r \in Reqs : pc'[r] = "get_tell" => pc[r] = "get_tell"
    BY <1>9, SMTT(30) DEF HandleSessionRead, HandleSessionWrite, Respond
  <2>3. UNCHANGED <<phase, timers, target>>
    BY <1>9 DEF HandleSessionRead, HandleSessionWrite
  <2>4. busy[a] = None /\ \A c \in Actors \ {a} : busy'[c] = busy[c]
    BY <1>9 DEF HandleSessionRead, HandleSessionWrite, Takes
  <2>5. \A c \in Actors : ResetPending(c)' => ResetPending(c)
    BY <2>1, <2>2, <2>3, PendingBefore DEF NoResetAdded
  <2>. QED BY <2>3, <2>4, <2>5 DEF BeginsNothing
<1>10. ASSUME NEW a \in Actors, UpstreamSends(a) \/ UpstreamCloses(a)
       PROVE  BeginsNothing
  BY <1>2, <1>10 DEF UpstreamSends, UpstreamCloses, NoResetAdded
<1>. QED BY <1>3, <1>4, <1>5, <1>6, <1>7, <1>8, <1>9, <1>10 DEF Untimed

\* Nor do the steps by which a timeout fires or a client goes away.
LEMMA FiringBegins ==
    ASSUME TypeInv, (\E a \in Actors, t \in Timers : Expire(a, t)) \/ (\E r \in Reqs : Hangup(r))
    PROVE  BeginsNothing /\ UNCHANGED <<left, age, fresh, quiet>> /\ (missed \subseteq Actors => missed' \subseteq Actors)
<1>. USE DEF TypeInv, TypeOK, tableVars, timerVars, boxVars, reqVars, timeVars
<1>1. ASSUME NEW a \in Actors, NEW t \in Timers, Expire(a, t)
      PROVE  BeginsNothing /\ UNCHANGED timeVars
  BY <1>1, PendingBefore DEF Expire, ActorTimeout, BeginsNothing, NoResetAdded
<1>2. ASSUME NEW r \in Reqs, Hangup(r)
      PROVE  /\ BeginsNothing /\ UNCHANGED <<left, age, fresh, quiet>>
             /\ missed \subseteq Actors => missed' \subseteq Actors
  <2>1. \A c \in Actors : NoResetAdded(c)
    BY <1>2 DEF Hangup, Disconnect, NoResetAdded
  <2>2. BeginsNothing
    BY <1>2, <2>1, PendingBefore DEF Hangup, Disconnect, BeginsNothing
  <2>3. pc[r] = "get_tell" => target[r] \in Actors
    BY DEF TargetOK, Streaming
  <2>. QED BY <1>2, <2>2, <2>3 DEF Hangup
<1>. QED BY <1>1, <1>2

\* A new session: both tasks have their whole time to sleep.
LEMMA SpawnKeeps ==
    ASSUME TypeInv, TimedInv, NEW r \in Reqs, NEW q \in Offered, NEW a \in Actors, Spawn(r, q, a)
    PROVE  TimedInv'
<1>. USE DEF TypeInv, TypeOK, tableVars, timerVars, boxVars
<1>1. /\ phase[a] = "unborn" /\ phase' = [phase EXCEPT ![a] = "connecting"]
      /\ timers' = [timers EXCEPT ![a] = Timers]
      /\ left' = [left EXCEPT ![a] = Timeout]
      /\ UNCHANGED <<age, fresh, quiet, missed, mailbox, busy>>
  BY DEF Spawn, CreateSession, NewSession
<1>2. Timeout \in [Timers -> Nat] /\ Timeout["total"] = TotalTimeout
  BY DEF Timeout, Timers
<1>3. \A c \in Actors : NoResetAdded(c)
  BY <1>1 DEF Spawn, CreateSession, Dispatch, NoResetAdded
<1>4. ClocksOK' /\ NotBegun' /\ TotalBound' /\ IdleDue'
  BY <1>1, <1>2 DEF TimedInv, ClocksOK, NotBegun, TotalBound, IdleDue
<1>5. TotalExact'
  BY <1>1, <1>2 DEF TimedInv, ClocksOK, NotBegun, TotalExact, IsAlive
<1>6. ResetNow'
  BY <1>1, <1>3, PendingBefore DEF TimedInv, ResetNow
<1>. QED BY <1>4, <1>5, <1>6 DEF TimedInv

\* reset_idle_timeout, when data moved at this instant.
LEMMA RearmKeeps ==
    ASSUME TypeInv, TimedInv, NEW a \in Actors, Rearm(a), quiet[a] = 0, UNCHANGED <<age, quiet>>,
           \A c \in Actors : NoResetAdded(c),
           busy' = busy, timers' = [timers EXCEPT ![a] = @ \cup {"idle"}],
           \/ phase[a] = "running" /\ UNCHANGED <<phase, fresh>>
           \/ /\ phase[a] = "connecting" /\ phase' = [phase EXCEPT ![a] = "running"]
              /\ fresh' = fresh \cup {a}
    PROVE  TimedInv'
<1>. USE DEF TypeInv, TypeOK, Rearm
<1>0. "idle" \in Timers /\ "total" \in Timers
  BY DEF Timers
<1>1. ClocksOK'
  BY <1>0 DEF TimedInv, ClocksOK
<1>2. /\ left'[a]["idle"] = IdleTimeout /\ left'[a]["total"] = left[a]["total"]
      /\ \A c \in Actors \ {a} : left'[c] = left[c]
  BY <1>0 DEF TimedInv, ClocksOK
<1>3. NotBegun' /\ TotalBound'
  BY DEF TimedInv, NotBegun, TotalBound
<1>4. TotalExact'
  BY <1>2 DEF TimedInv, TotalExact, IsAlive
<1>5. IdleDue'
  BY <1>2, SMTT(30) DEF TimedInv, ClocksOK, IdleDue
<1>6. ResetNow'
  <2>1. \A c \in Actors : ResetPending(c)' => ResetPending(c)
    BY PendingBefore
  <2>. QED BY <2>1 DEF TimedInv, ResetNow
<1>. QED BY <1>1, <1>3, <1>4, <1>5, <1>6 DEF TimedInv

\* A connection that is made.
LEMMA ConnectedKeeps ==
    ASSUME TypeInv, TimedInv, NEW a \in Actors, Connected(a)
    PROVE  TimedInv'
<1>1. \A c \in Actors : NoResetAdded(c)
  BY DEF Connected, OnStartOk, NoResetAdded, boxVars, reqVars
<1>2. quiet[a] = 0
  BY DEF Connected, OnStartOk, TimedInv, NotBegun
<1>. QED BY <1>1, <1>2, RearmKeeps DEF Connected, OnStartOk, ResetIdleTimeout, boxVars

\* A reset that is handled.
LEMMA ResetKeeps ==
    ASSUME TypeInv, TimedInv, NEW a \in Actors, Reset(a)
    PROVE  TimedInv'
<1>0. BoxOK
  BY DEF BoxOK, TypeInv, TypeOK
<1>1. HasReset(mailbox[a])
  <2>1. mailbox[a] \in Seq(Messages) /\ mailbox[a] # <<>> /\ Head(mailbox[a]).kind = "reset"
    BY <1>0 DEF BoxOK, Reset, HandleReset, Takes
  <2>2. 1 \in 1..Len(mailbox[a]) /\ mailbox[a][1] = Head(mailbox[a])
    BY ONLY <2>1
  <2>. QED BY <2>1, <2>2 DEF HasReset
<1>2. quiet[a] = 0
  BY <1>1 DEF Reset, HandleReset, Takes, TimedInv, ResetNow, ResetPending
<1>3. \A c \in Actors : NoResetAdded(c)
  BY <1>0, TakeAddsNone DEF Reset, HandleReset, Takes, NoResetAdded, reqVars
<1>. QED BY <1>2, <1>3, RearmKeeps DEF Reset, HandleReset, Takes, ResetIdleTimeout, tableVars

\* Data that moves in either direction.
LEMMA MovedKeeps ==
    ASSUME TypeInv, TimedInv, NEW a \in Actors, Moved(a), UNCHANGED <<left, age, fresh, phase, timers>>,
           missed' \subseteq Actors,
           \A c \in Actors \ {a} : NoResetAdded(c) /\ busy'[c] = busy[c]
    PROVE  TimedInv'
<1>. USE DEF TypeInv, TypeOK, Moved
<1>1. ClocksOK' /\ NotBegun' /\ TotalExact' /\ TotalBound'
  BY DEF TimedInv, ClocksOK, NotBegun, TotalExact, TotalBound, IsAlive
<1>2. IdleDue'
  <2>1. \A c \in Actors : left[c]["idle"] \in Nat
    BY DEF TimedInv, ClocksOK, Timers
  <2>. QED BY <2>1, SMTT(30) DEF TimedInv, ClocksOK, IdleDue
<1>3. ResetNow'
  BY PendingBefore DEF TimedInv, ClocksOK, ResetNow
<1>. QED BY <1>1, <1>2, <1>3 DEF TimedInv

\* Data written to upstream, and data read from it.
LEMMA DataKeeps ==
    ASSUME TypeInv, TimedInv, (\E a \in Actors : Wrote(a)) \/ (\E r \in Reqs : ReadUnit(r))
    PROVE  TimedInv'
<1>. USE DEF TypeInv, TypeOK, tableVars, timerVars, boxVars
<1>0. BoxOK /\ missed \subseteq Actors
  BY DEF BoxOK, TimedInv, ClocksOK
<1>1. ASSUME NEW a \in Actors, Wrote(a) PROVE TimedInv'
  <2>1. \A c \in Actors \ {a} : NoResetAdded(c) /\ busy'[c] = busy[c]
    <3>1. \A c \in Actors \ {a} : mailbox'[c] = mailbox[c]
      BY <1>0, <1>1, SendAddsOne DEF Wrote, WriteOk, TrySendReset
    <3>2. \A r \in Reqs : pc'[r] = "get_tell" => pc[r] = "get_tell"
      BY <1>1 DEF Wrote, WriteOk, ReplyWritten
    <3>. QED BY <1>1, <3>1, <3>2 DEF Wrote, WriteOk, NoResetAdded
  <2>2. missed' \subseteq Actors
    BY <1>0, <1>1 DEF Wrote
  <2>. QED BY <1>1, <2>1, <2>2, MovedKeeps DEF Wrote, WriteOk
<1>2. ASSUME NEW r \in Reqs, ReadUnit(r) PROVE TimedInv'
  <2>1. target[r] \in Actors
    BY <1>2 DEF ReadUnit, StreamRead, TargetOK, Streaming
  <2>2. \A c \in Actors \ {target[r]} : NoResetAdded(c) /\ busy'[c] = busy[c]
    BY <1>2 DEF ReadUnit, StreamRead, NoResetAdded
  <2>. QED BY <1>0, <1>2, <2>1, <2>2, MovedKeeps DEF ReadUnit, StreamRead
<1>. QED BY <1>1, <1>2

\* When nothing can run, no reset is under way to an actor that could take it.
LEMMA TickFindsNone ==
    ASSUME TypeInv, Tick, NEW a \in Actors, phase[a] = "running", busy[a] = None
    PROVE  ~ResetPending(a)
<1>1. mailbox[a] = <<>>
  BY DEF Tick, ActorReady
<1>2. ~HasReset(mailbox[a])
  BY <1>1, EmptyReset
<1>3. HasRoom(a)
  BY <1>1, ServerAssumption DEF HasRoom
<1>4. ASSUME NEW r \in Reqs, pc[r] = "get_tell", target[r] = a PROVE FALSE
  BY <1>3, <1>4 DEF Tick, HandlerReady
<1>. QED BY <1>2, <1>4 DEF ResetPending

\* The clock: a running actor has both tasks asleep, and neither is due.
LEMMA TickKeeps ==
    ASSUME TypeInv, TimedInv, DeadlineArmed, Tick
    PROVE  TimedInv'
<1>. USE DEF TypeInv, TypeOK
<1>1. ASSUME NEW a \in Actors, phase[a] = "running"
      PROVE  timers[a] = Timers /\ left[a]["total"] > 0 /\ left[a]["idle"] > 0
  <2>1. a \notin killed
    BY <1>1 DEF Tick, ActorReady, MayKill
  <2>2. timers[a] = Timers
    BY <1>1, <2>1 DEF DeadlineArmed, IsAlive
  <2>3. ~Slept(a, "total") /\ ~Slept(a, "idle")
    BY <2>2 DEF Tick, Timers
  <2>. QED BY <2>2, <2>3 DEF Slept, TimedInv, ClocksOK, Timers
<1>2. \A a \in Actors, t \in Timers :
          left'[a][t] = IF t \in timers[a] THEN left[a][t] - 1 ELSE left[a][t]
  BY DEF Tick
<1>3. ClocksOK'
  <2>1. \A a \in Actors : \A t \in timers[a] : left[a][t] # 0 /\ t \in Timers
    BY DEF Tick, Slept
  <2>2. left' \in [Actors -> [Timers -> Nat]]
    BY <2>1 DEF Tick, TimedInv, ClocksOK
  <2>. QED BY <2>2 DEF Tick, Grown, TimedInv, ClocksOK
<1>4. NotBegun'
  BY DEF Tick, Grown, IsAlive, TimedInv, NotBegun, vars, tableVars
<1>5. TotalExact'
  BY <1>2, SMTT(30) DEF Tick, Grown, TimedInv, ClocksOK, TotalExact, IsAlive, vars, tableVars, timerVars, Timers
<1>6. TotalBound'
  BY <1>1 DEF Tick, Grown, TimedInv, ClocksOK, TotalExact, TotalBound, IsAlive, vars, tableVars, Timers
<1>7. IdleDue'
  BY <1>1, <1>2 DEF Tick, Grown, TimedInv, ClocksOK, IdleDue, vars, tableVars, Timers
<1>8. ResetNow'
  <2>1. \A a \in Actors : ResetPending(a)' <=> ResetPending(a)
    BY DEF Tick, ResetPending, vars, boxVars, reqVars
  <2>. QED BY <2>1, TickFindsNone DEF Tick, ResetNow, vars, tableVars, boxVars
<1>. QED BY <1>3, <1>4, <1>5, <1>6, <1>7, <1>8 DEF TimedInv

\* The bounds hold in every state, for every choice of the two timeouts.
LEMMA TimedInvariant == TimedSpec => []TimedInv
<1>1. ASSUME TypeInv, DeadlineArmed, TimedInv, [TimedNext]_timedVars PROVE TimedInv'
  <2>1. CASE Untimed
    BY <1>1, <2>1, UntimedBegins, TimedKept DEF Untimed, timeVars, TimedInv, ClocksOK
  <2>2. CASE (\E a \in Actors, t \in Timers : Expire(a, t)) \/ (\E r \in Reqs : Hangup(r))
    BY <1>1, <2>2, FiringBegins, TimedKept DEF TimedInv, ClocksOK
  <2>3. CASE \E r \in Reqs, q \in Offered, a \in Actors : Spawn(r, q, a)
    BY <1>1, <2>3, SpawnKeeps
  <2>4. CASE \E a \in Actors : Connected(a) \/ Reset(a)
    BY <1>1, <2>4, ConnectedKeeps, ResetKeeps
  <2>5. CASE (\E a \in Actors : Wrote(a)) \/ (\E r \in Reqs : ReadUnit(r))
    BY <1>1, <2>5, DataKeeps
  <2>6. CASE Tick
    BY <1>1, <2>6, TickKeeps
  <2>7. CASE UNCHANGED timedVars
    <3>1. BeginsNothing /\ UNCHANGED timeVars
      BY <2>7 DEF timedVars, vars, tableVars, timerVars, boxVars, reqVars, BeginsNothing, ResetPending
    <3>. QED BY <1>1, <3>1, TimedKept DEF timeVars, TimedInv, ClocksOK
  <2>. QED BY <1>1, <2>1, <2>2, <2>3, <2>4, <2>5, <2>6, <2>7 DEF TimedNext
<1>. QED BY <1>1, TimedInvInit, TimedImplementsServer, TypeInvariant, DeadlineCorrect, PTL DEF TimedSpec

\* No session keeps its upstream connection beyond total_timeout: the task of
\* on_start is never replaced, and kill cuts short whatever the actor awaits.
THEOREM TotalCorrect == TimedSpec => []TotalBound
<1>1. TimedInv => TotalBound
  BY DEF TimedInv
<1>. QED BY <1>1, TimedInvariant, PTL

\* No session stays open for longer than idle_timeout without data moving:
\* only data that moved leads to reset_idle_timeout, at the same instant.
THEOREM IdleCorrect == TimedSpec => []IdleBound
<1>1. TimedInv => IdleBound
  BY DEF TimedInv, IdleDue, IdleBound, ClocksOK, Timers
<1>. QED BY <1>1, TimedInvariant, PTL

-----------------------------------------------------------------------------
(* The idle timeout is exact.                                              *)

\* What is left of a mailbox once a request is taken holds the same resets.
LEMMA TailKeepsReset ==
    ASSUME NEW s \in Seq(Messages), s # <<>>, Head(s).kind # "reset", HasReset(s)
    PROVE  HasReset(Tail(s))
<1>1. PICK k \in 1..Len(s) : s[k].kind = "reset"
  BY DEF HasReset
<1>2. k # 1
  BY ONLY s \in Seq(Messages), s # <<>>, Head(s).kind # "reset", s[k].kind = "reset"
<1>3. k - 1 \in 1..Len(Tail(s)) /\ Tail(s)[k - 1] = s[k]
  BY ONLY s \in Seq(Messages), s # <<>>, k \in 1..Len(s), k # 1
<1>. QED BY <1>1, <1>3 DEF HasReset

\* No reset for a is lost.
NoResetLost(a) ==
    /\ HasReset(mailbox[a]) => HasReset(mailbox'[a])
    /\ \A r \in Reqs : pc[r] = "get_tell" /\ target[r] = a =>
                          (pc'[r] = "get_tell" /\ target'[r] = a) \/ HasReset(mailbox'[a])

\* A step that loses no reset of an actor that can take one, unless it says so.
LosesNothing ==
    /\ missed \subseteq missed' /\ killed \subseteq killed'
    /\ \A a \in Actors : phase'[a] = "running" /\ busy'[a] = None /\ a \notin missed' =>
                            phase[a] = "running" /\ busy[a] = None /\ NoResetLost(a)

\* Such a step, of which the clocks take no notice, leaves the timeout exact.
LEMMA ExactKept ==
    ASSUME IdleExact, LosesNothing, UNCHANGED <<left, quiet>>
    PROVE  IdleExact'
BY DEF IdleExact, LosesNothing, NoResetLost, ResetPending

\* The steps that take no notice of time lose no reset: a stream that is
\* aborted with a reset to send belongs to a session that is dropped.
LEMMA UntimedLoses ==
    ASSUME TypeInv, AbortOK, Untimed
    PROVE  LosesNothing
<1>. USE DEF TypeInv, TypeOK, tableVars, timerVars, boxVars, reqVars, timeVars
<1>0. BoxOK /\ UNCHANGED missed
  BY DEF BoxOK, Untimed
<1>2. ASSUME UNCHANGED <<phase, killed, mailbox, busy>>,
             \A r \in Reqs : pc[r] = "get_tell" =>
                                \/ pc'[r] = "get_tell" /\ target'[r] = target[r]
                                \/ target[r] \in Actors /\ phase[target[r]] = "dropped"
      PROVE  LosesNothing
  BY <1>0, <1>2 DEF LosesNothing, NoResetLost
<1>3. ASSUME NEW r \in Reqs, NEW q \in Offered, RejectRequest(r, q) \/ JoinSession(r, q)
      PROVE  LosesNothing
  BY <1>2, <1>3 DEF RejectRequest, JoinSession, Arrive, Respond, Dispatch
<1>4. ASSUME NEW a \in Actors, NEW m \in Messages, mailbox' = [mailbox EXCEPT ![a] = Append(@, m)]
      PROVE  \A c \in Actors : HasReset(mailbox[c]) => HasReset(mailbox'[c])
  <2>1. HasReset(mailbox[a]) => HasReset(Append(mailbox[a], m))
    BY <1>0, AppendReset DEF BoxOK
  <2>. QED BY <1>0, <1>4, <2>1 DEF BoxOK
<1>5. ASSUME NEW r \in Reqs, Ask(r) PROVE LosesNothing
  <2>1. target[r] \in Actors
    BY <1>5 DEF Ask, TargetOK, Asking
  <2>2. \A c \in Actors : HasReset(mailbox[c]) => HasReset(mailbox'[c])
    BY <1>4, <1>5, <2>1 DEF Ask, Enqueue, Messages
  <2>. QED BY <1>0, <1>5, <2>2 DEF Ask, LosesNothing, NoResetLost
<1>6. ASSUME NEW r \in Reqs, AskErr(r) \/ BodyFrame(r) \/ BodyErr(r) \/ BodyEnd(r) \/ CountTx(r)
      PROVE  LosesNothing
  BY <1>2, <1>6 DEF AskErr, BodyFrame, BodyErr, BodyEnd, CountTx, Respond, Asking
<1>7. ASSUME NEW r \in Reqs, StreamEnd(r) \/ StreamAborted(r)
      PROVE  LosesNothing
  BY <1>2, <1>7 DEF StreamEnd, StreamAborted, AbortOK
<1>8. ASSUME NEW r \in Reqs, StreamYield(r) PROVE LosesNothing
  <2>1. target[r] \in Actors
    BY <1>8 DEF StreamYield, TargetOK, Streaming
  <2>2. \A c \in Actors : HasReset(mailbox[c]) => HasReset(mailbox'[c])
    BY <1>4, <1>8, <2>1 DEF StreamYield, Enqueue, Messages
  <2>3. IsAlive(target[r]) => HasReset(mailbox'[target[r]])
    BY <1>0, <1>8, <2>1, SendAddsOne DEF StreamYield
  <2>. QED BY <1>0, <1>8, <2>2, <2>3 DEF StreamYield, LosesNothing, NoResetLost, IsAlive
<1>9. ASSUME NEW a \in Actors, OnStartErr(a) \/ Kill(a) \/ WriteErr(a) \/ Drop(a)
      PROVE  LosesNothing
  <2>1. /\ phase'[a] # "running"
        /\ \A c \in Actors \ {a} : phase'[c] = phase[c] /\ busy'[c] = busy[c] /\ mailbox'[c] = mailbox[c]
        /\ UNCHANGED <<target, killed>>
        /\ \A r \in Reqs : pc[r] = "get_tell" => pc'[r] = "get_tell"
    BY <1>9 DEF OnStartErr, Kill, WriteErr, CtxStop, LoopEnds, Drop, ReplyWritten
  <2>. QED BY <1>0, <2>1 DEF LosesNothing, NoResetLost
<1>10. ASSUME NEW a \in Actors, HandleSessionRead(a) \/ HandleSessionWrite(a)
       PROVE  LosesNothing
  <2>0. /\ mailbox[a] \in Seq(Messages) /\ mailbox[a] # <<>> /\ Head(mailbox[a]).kind # "reset"
        /\ mailbox' = [mailbox EXCEPT ![a] = Tail(@)]
        /\ phase[a] = "running" /\ busy[a] = None
        /\ UNCHANGED <<phase, killed, target>>
    BY <1>10 DEF HandleSessionRead, HandleSessionWrite, Takes
  <2>1. \A c \in Actors : HasReset(mailbox[c]) => HasReset(mailbox'[c])
    BY <2>0, TailKeepsReset
  <2>2. \A r \in Reqs : pc[r] = "get_tell" => pc'[r] = "get_tell"
    BY <1>10 DEF HandleSessionRead, HandleSessionWrite, Respond
  <2>3. \A c \in Actors \ {a} : busy'[c] = busy[c]
    BY <1>10 DEF HandleSessionRead, HandleSessionWrite
  <2>. QED BY <1>0, <2>0, <2>1, <2>2, <2>3 DEF LosesNothing, NoResetLost
<1>11. ASSUME NEW a \in Actors, UpstreamSends(a) \/ UpstreamCloses(a)
       PROVE  LosesNothing
  BY <1>2, <1>11 DEF UpstreamSends, UpstreamCloses
<1>. QED BY <1>3, <1>5, <1>6, <1>7, <1>8, <1>9, <1>10, <1>11 DEF Untimed

\* A reset that could not be sent, or whose sender goes away, is recorded.
LEMMA HangupLoses ==
    ASSUME TypeInv, NEW r \in Reqs, Hangup(r)
    PROVE  LosesNothing
BY DEF TypeInv, TypeOK, Hangup, Disconnect, LosesNothing, NoResetLost,
       tableVars, timerVars, boxVars

\* A step that concerns the clocks of a alone, after which a is exempt or due
\* in idle_timeout, leaves the timeout exact.
LEMMA ExactElsewhere ==
    ASSUME TypeInv, IdleExact, NEW a \in Actors,
           missed \ {a} \subseteq missed' /\ killed \subseteq killed',
           \A c \in Actors \ {a} : /\ phase'[c] = phase[c] /\ busy'[c] = busy[c] /\ NoResetLost(c)
                                   /\ left'[c] = left[c] /\ quiet'[c] = quiet[c],
           \/ phase'[a] # "running" \/ a \in killed' \cup missed' \/ ResetPending(a)'
           \/ left'[a]["idle"] + quiet'[a] = IdleTimeout
    PROVE  IdleExact'
BY DEF IdleExact, NoResetLost, ResetPending

\* Sessions that begin, connect, are reset or killed, and data that moves.
LEMMA ExactActor ==
    ASSUME TypeInv, TimedInv, IdleExact, NEW a \in Actors,
           \/ \E r \in Reqs, q \in Offered : Spawn(r, q, a)
           \/ Connected(a) \/ Reset(a) \/ Wrote(a)
           \/ \E t \in Timers : Expire(a, t)
           \/ \E r \in Reqs : ReadUnit(r) /\ target[r] = a
    PROVE  IdleExact'
<1>. USE DEF TypeInv, TypeOK, tableVars, timerVars, boxVars, reqVars, timeVars
<1>0. BoxOK /\ left \in [Actors -> [Timers -> Nat]] /\ quiet \in [Actors -> Nat] /\ "idle" \in Timers
  BY DEF BoxOK, TimedInv, ClocksOK, Timers
<1>1. ASSUME NEW r \in Reqs, NEW q \in Offered, Spawn(r, q, a) PROVE IdleExact'
  BY <1>0, <1>1, ExactElsewhere DEF Spawn, CreateSession, NewSession, Arrive, Dispatch, NoResetLost
<1>2. CASE Connected(a)
  <2>1. quiet'[a] = 0
    BY <1>2 DEF Connected, OnStartOk, TimedInv, NotBegun
  <2>2. left'[a]["idle"] = IdleTimeout
    BY <1>0, <1>2 DEF Connected, Rearm
  <2>3. left'[a]["idle"] + quiet'[a] = IdleTimeout
    BY <2>1, <2>2
  <2>4. \A c \in Actors : NoResetLost(c)
    BY <1>2 DEF Connected, OnStartOk, NoResetLost
  <2>5. \A c \in Actors \ {a} : left'[c] = left[c]
    BY <1>0, <1>2 DEF Connected, Rearm
  <2>. QED BY <1>2, <2>3, <2>4, <2>5, ExactElsewhere DEF Connected, OnStartOk, Rearm
<1>3. CASE Reset(a)
  <2>1. ResetPending(a) /\ phase[a] = "running" /\ busy[a] = None
    <3>1. mailbox[a] \in Seq(Messages) /\ mailbox[a] # <<>> /\ Head(mailbox[a]).kind = "reset"
      BY <1>3 DEF Reset, HandleReset, Takes
    <3>2. 1 \in 1..Len(mailbox[a]) /\ mailbox[a][1] = Head(mailbox[a])
      BY ONLY <3>1
    <3>. QED BY <1>3, <3>1, <3>2 DEF Reset, HandleReset, Takes, ResetPending, HasReset
  <2>2. quiet'[a] = 0
    BY <1>3, <2>1 DEF Reset, TimedInv, ResetNow
  <2>3. left'[a]["idle"] = IdleTimeout
    BY <1>0, <1>3 DEF Reset, Rearm
  <2>4. left'[a]["idle"] + quiet'[a] = IdleTimeout
    BY <2>2, <2>3
  <2>5. \A c \in Actors \ {a} : NoResetLost(c) /\ left'[c] = left[c]
    BY <1>0, <1>3 DEF Reset, HandleReset, Rearm, NoResetLost
  <2>. QED BY <1>3, <2>4, <2>5, ExactElsewhere DEF Reset, HandleReset, Rearm
<1>4. CASE Wrote(a)
  <2>1. HasReset(mailbox'[a]) \/ a \in missed'
    BY <1>0, <1>4, SendAddsOne DEF Wrote, WriteOk, TrySendReset
  <2>2. \A c \in Actors \ {a} : mailbox'[c] = mailbox[c]
    BY <1>0, <1>4, SendAddsOne DEF Wrote, WriteOk, TrySendReset
  <2>3. \A r \in Reqs : pc[r] = "get_tell" => pc'[r] = "get_tell"
    BY <1>4 DEF Wrote, WriteOk, ReplyWritten
  <2>4. \A c \in Actors \ {a} : NoResetLost(c)
    BY <1>4, <2>2, <2>3 DEF Wrote, WriteOk, NoResetLost
  <2>. QED BY <1>0, <1>4, <2>1, <2>4, ExactElsewhere DEF Wrote, WriteOk, Moved, ResetPending
<1>5. ASSUME NEW t \in Timers, Expire(a, t) PROVE IdleExact'
  BY <1>0, <1>5, ExactElsewhere DEF Expire, ActorTimeout, SendKill, NoResetLost
<1>6. ASSUME NEW r \in Reqs, ReadUnit(r), target[r] = a PROVE IdleExact'
  <2>1. ResetPending(a)'
    BY <1>6 DEF ReadUnit, StreamRead, ResetPending
  <2>2. \A c \in Actors : NoResetLost(c)
    BY <1>6 DEF ReadUnit, StreamRead, NoResetLost
  <2>. QED BY <1>0, <1>6, <2>1, <2>2, ExactElsewhere DEF ReadUnit, StreamRead, Moved
<1>. QED BY <1>1, <1>2, <1>3, <1>4, <1>5, <1>6

\* The clock: what the task sleeps less, the connection has been quiet more.
LEMMA ExactTick ==
    ASSUME TypeInv, TimedInv, DeadlineArmed, IdleExact, Tick
    PROVE  IdleExact'
<1>1. ASSUME NEW a \in Actors, phase[a] = "running", a \notin killed
      PROVE  /\ left'[a]["idle"] = left[a]["idle"] - 1
             /\ quiet'[a] = quiet[a] + 1
  BY <1>1 DEF Tick, Grown, DeadlineArmed, IsAlive, Timers
<1>2. /\ UNCHANGED <<phase, killed, missed, busy>>
      /\ \A a \in Actors : ResetPending(a)' <=> ResetPending(a)
  BY DEF Tick, ResetPending, vars, tableVars, timerVars, boxVars, reqVars
<1>3. \A a \in Actors : left[a]["idle"] \in Nat /\ quiet[a] \in Nat
  BY DEF TimedInv, ClocksOK, Timers
<1>. QED BY <1>1, <1>2, <1>3 DEF IdleExact

\* The idle timeout of a session is due exactly idle_timeout after data last
\* moved in either direction, unless a reset was lost or is yet to be handled:
\* reset_idle_timeout is called for every move of data, and for nothing else.
THEOREM IdleExactCorrect == TimedSpec => []IdleExact
<1>1. TimedInit => IdleExact
  BY DEF TimedInit, Init, IdleExact
<1>2. ASSUME TypeInv, DeadlineArmed, AbortOK, TimedInv, IdleExact, [TimedNext]_timedVars PROVE IdleExact'
  <2>1. CASE Untimed
    BY <1>2, <2>1, UntimedLoses, ExactKept DEF Untimed, timeVars
  <2>2. CASE \E r \in Reqs : Hangup(r)
    BY <1>2, <2>2, HangupLoses, ExactKept DEF Hangup
  <2>3. CASE \E a \in Actors : \/ \E r \in Reqs, q \in Offered : Spawn(r, q, a)
                               \/ Connected(a) \/ Reset(a) \/ Wrote(a)
                               \/ \E t \in Timers : Expire(a, t)
    BY <1>2, <2>3, ExactActor
  <2>4. ASSUME NEW r \in Reqs, ReadUnit(r) PROVE IdleExact'
    <3>1. target[r] \in Actors
      BY <1>2, <2>4 DEF ReadUnit, StreamRead, TypeInv, TargetOK, Streaming
    <3>. QED BY <1>2, <2>4, <3>1, ExactActor
  <2>5. CASE Tick
    BY <1>2, <2>5, ExactTick
  <2>6. CASE UNCHANGED timedVars
    BY <1>2, <2>6 DEF timedVars, timeVars, vars, tableVars, timerVars, boxVars, reqVars, IdleExact, ResetPending
  <2>. QED BY <1>2, <2>1, <2>2, <2>3, <2>4, <2>5, <2>6 DEF TimedNext
<1>. QED BY <1>1, <1>2, TimedInvariant, TimedImplementsServer, TypeInvariant, DeadlineCorrect,
            AbortInvariant, PTL DEF TimedSpec
=============================================================================

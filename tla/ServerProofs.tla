---------------------------- MODULE ServerProofs ----------------------------
(* Theorems about Server, for every value of its constants. *)
EXTENDS Server, FiniteSetTheorems, TLAPS

\* A handler that got past the lookup has a session.
TargetOK == \A r \in Reqs : pc[r] \in Asking \cup Streaming \cup {"body", "put_ok"} => target[r] \in Actors

TypeInv == TypeOK /\ TargetOK

USE ServerAssumption

\* The initial state has the types.
LEMMA TypeInit == Init => TypeInv
BY DEF Init, TypeInv, TypeOK, TargetOK, Phases, Timers, Counters, Codes, Messages, Asking, Streaming, Locations

\* The mailbox part of the type invariant.
BoxOK ==
    /\ mailbox \in [Actors -> Seq(Messages)]
    /\ \A a \in Actors : Len(mailbox[a]) <= MailboxCap

\* Appending to a sequence of numbers or messages.
LEMMA AppendOK ==
    ASSUME NEW S, NEW s \in Seq(S), NEW e \in S
    PROVE  Append(s, e) \in Seq(S) /\ Len(Append(s, e)) = Len(s) + 1
OBVIOUS

\* The tail of a nonempty sequence.
LEMMA TailOK ==
    ASSUME NEW S, NEW s \in Seq(S), s # <<>>
    PROVE  Head(s) \in S /\ Tail(s) \in Seq(S) /\ Len(Tail(s)) = Len(s) - 1
OBVIOUS

\* Adding one to one value of a function.
LEMMA BumpOK ==
    ASSUME NEW D, NEW f \in [D -> Nat], NEW d \in D
    PROVE  [f EXCEPT ![d] = @ + 1] \in [D -> Nat]
OBVIOUS

\* Sending to a mailbox that has room keeps it within its capacity.
LEMMA EnqueueOK ==
    ASSUME BoxOK, NEW a \in Actors, HasRoom(a), NEW kind \in {"read", "write", "reset"},
           NEW r \in Reqs \cup {None}, Enqueue(a, kind, r)
    PROVE  BoxOK'
<1>. DEFINE m == [kind |-> kind, req |-> r]
<1>1. m \in Messages
  BY DEF Messages
<1>2. Append(mailbox[a], m) \in Seq(Messages) /\ Len(Append(mailbox[a], m)) = Len(mailbox[a]) + 1
  BY <1>1, AppendOK DEF BoxOK
<1>3. Len(mailbox[a]) \in Nat
  BY DEF BoxOK
<1>. QED BY <1>2, <1>3 DEF BoxOK, Enqueue, HasRoom

\* Taking a message leaves a mailbox of messages.
LEMMA DequeueOK ==
    ASSUME BoxOK, NEW a \in Actors, mailbox[a] # <<>>, mailbox' = [mailbox EXCEPT ![a] = Tail(@)]
    PROVE  BoxOK' /\ Head(mailbox[a]) \in Messages
<1>1. /\ Head(mailbox[a]) \in Messages
      /\ Tail(mailbox[a]) \in Seq(Messages)
      /\ Len(Tail(mailbox[a])) = Len(mailbox[a]) - 1
  BY TailOK DEF BoxOK
<1>2. Len(mailbox[a]) \in Nat
  BY DEF BoxOK
<1>. QED BY <1>1, <1>2 DEF BoxOK

\* Every step of a handler or stream keeps the types.
LEMMA TypeRequest ==
    ASSUME TypeInv, NEW r \in Reqs, RequestStep(r)
    PROVE  TypeInv'
<1>. USE DEF TypeInv, TypeOK, TargetOK, tableVars, timerVars, boxVars, lockVars, upVars, reqVars, statVars
<1>1. ASSUME NEW q \in Offered, RejectRequest(r, q) PROVE TypeInv'
  BY <1>1 DEF RejectRequest, Arrive, Respond, Locations, Codes, Asking, Streaming, Requests
<1>2. ASSUME NEW q \in Offered, JoinSession(r, q) PROVE TypeInv'
  BY <1>2 DEF JoinSession, Arrive, Dispatch, WellFormed, LiveEntry, Locations, Codes, Asking, Streaming, Requests
<1>3. ASSUME NEW q \in Offered, NEW a \in Actors, CreateSession(r, q, a) PROVE TypeInv'
  BY <1>3 DEF CreateSession, NewSession, Arrive, Dispatch, WellFormed, Phases, Locations, Codes, Asking, Streaming, Requests
<1>4. ASSUME Ask(r) PROVE TypeInv'
  <2>1. BoxOK'
    BY <1>4, EnqueueOK DEF Ask, BoxOK, Asking
  <2>. QED BY <1>4, <2>1 DEF Ask, BoxOK, Locations, Codes, Asking, Streaming, Requests
<1>5. ASSUME AskErr(r) PROVE TypeInv'
  BY <1>5 DEF AskErr, Respond, Locations, Codes, Asking, Streaming, Requests
<1>6. ASSUME BodyFrame(r) PROVE TypeInv'
  BY <1>6 DEF BodyFrame, Locations, Codes, Asking, Streaming, Requests
<1>7. ASSUME BodyErr(r) PROVE TypeInv'
  BY <1>7 DEF BodyErr, Respond, Locations, Codes, Asking, Streaming, Requests
<1>8. ASSUME BodyEnd(r) PROVE TypeInv'
  BY <1>8 DEF BodyEnd, Respond, Locations, Codes, Asking, Streaming, Requests
<1>9. ASSUME CountTx(r) PROVE TypeInv'
  <2>1. stats' \in [Counters -> Nat] /\ next' \in [Reqs -> Nat]
    BY <1>9, BumpOK DEF CountTx, Counters
  <2>. QED BY <1>9, <2>1 DEF CountTx, Locations, Codes, Asking, Streaming, Requests
<1>10. ASSUME StreamRead(r) PROVE TypeInv'
  <2>1. stats' \in [Counters -> Nat] /\ taken' \in [Actors -> Nat]
    BY <1>10, BumpOK DEF StreamRead, Counters, Streaming
  <2>. QED BY <1>10, <2>1 DEF StreamRead, Locations, Codes, Asking, Streaming, Requests
<1>11. ASSUME StreamYield(r) PROVE TypeInv'
  <2>1. target[r] \in Actors
    BY <1>11 DEF StreamYield, Streaming
  <2>2. BoxOK'
    BY <1>11, <2>1, EnqueueOK DEF StreamYield, BoxOK
  <2>3. body' \in [Reqs -> Seq(Nat)]
    BY <1>11, <2>1, AppendOK DEF StreamYield, YieldFrame
  <2>. QED BY <1>11, <2>2, <2>3 DEF StreamYield, BoxOK, Locations, Codes, Asking, Streaming, Requests
<1>12. ASSUME StreamEnd(r) PROVE TypeInv'
  BY <1>12 DEF StreamEnd, ReleaseGuard, Locations, Codes, Asking, Streaming, Requests
<1>13. ASSUME StreamAborted(r) PROVE TypeInv'
  BY <1>13 DEF StreamAborted, ReleaseGuard, Locations, Codes, Asking, Streaming, Requests
<1>14. ASSUME Disconnect(r) PROVE TypeInv'
  BY <1>14 DEF Disconnect, ReleaseGuard, Locations, Codes, Asking, Streaming, Requests
<1>. QED BY ONLY RequestStep(r), <1>1, <1>2, <1>3, <1>4, <1>5, <1>6, <1>7, <1>8, <1>9, <1>10, <1>11, <1>12, <1>13, <1>14 DEF RequestStep

\* Every step of an actor, its timeouts or its upstream keeps the types.
LEMMA TypeActor ==
    ASSUME TypeInv, NEW a \in Actors, ActorStep(a)
    PROVE  TypeInv'
<1>. USE DEF TypeInv, TypeOK, TargetOK, tableVars, timerVars, boxVars, lockVars, upVars, reqVars, statVars
<1>1. ASSUME OnStartOk(a) PROVE TypeInv'
  BY <1>1 DEF OnStartOk, ResetIdleTimeout, Phases, Timers
<1>2. ASSUME OnStartErr(a) PROVE TypeInv'
  BY <1>2, SMTT(30) DEF OnStartErr, Phases
<1>3. ASSUME NEW t \in Timers, ActorTimeout(a, t) PROVE TypeInv'
  BY <1>3 DEF ActorTimeout, SendKill
<1>4. ASSUME Kill(a) PROVE TypeInv'
  BY <1>4, SMTT(30) DEF Kill, LoopEnds, Phases
<1>5. ASSUME Drop(a) PROVE TypeInv'
  BY <1>5 DEF Drop, AbortReader, RemoveEntry, Phases
<1>6. ASSUME HandleSessionRead(a) PROVE TypeInv'
  <2>1. BoxOK' /\ Head(mailbox[a]).req \in Reqs \cup {None}
    BY <1>6, DequeueOK DEF HandleSessionRead, Takes, BoxOK, Messages
  <2>2. reader' \in [Actors -> Reqs \cup {None}] /\ abort' \in [Actors -> Reqs \cup {None}]
    BY <1>6, <2>1 DEF HandleSessionRead, SaveAbortHandle
  <2>. DEFINE r == Head(mailbox[a]).req
  <2>3. /\ UNCHANGED target
        /\ \/ UNCHANGED <<pc, status>>
           \/ /\ pc[r] = "get_wait" /\ pc' = [pc EXCEPT ![r] = "get_first"]
              /\ status' = [status EXCEPT ![r] = "OK"]
           \/ /\ pc' = [pc EXCEPT ![r] = "done"]
              /\ status' = [status EXCEPT ![r] = "TOO_MANY_REQUESTS"]
    BY <1>6 DEF HandleSessionRead, Respond
  <2>. HIDE DEF r
  <2>4. pc' \in [Reqs -> Locations] /\ status' \in [Reqs -> Codes \cup {None}] /\ TargetOK'
    <3>1. pc \in [Reqs -> Locations] /\ status \in [Reqs -> Codes \cup {None}] /\ TargetOK
      OBVIOUS
    <3>2. pc' \in [Reqs -> Locations] /\ status' \in [Reqs -> Codes \cup {None}]
      BY ONLY <2>3, <3>1 DEF Locations, Codes, Streaming
    <3>3. TargetOK'
      BY ONLY <2>3, <3>1 DEF TargetOK, Asking, Streaming
    <3>. QED BY <3>2, <3>3
  <2>. QED BY <1>6, <2>1, <2>2, <2>4 DEF HandleSessionRead, BoxOK
<1>7. ASSUME HandleSessionWrite(a) PROVE TypeInv'
  <2>1. BoxOK' /\ Head(mailbox[a]).req \in Reqs \cup {None}
    BY <1>7, DequeueOK DEF HandleSessionWrite, Takes, BoxOK, Messages
  <2>. QED BY <1>7, <2>1 DEF HandleSessionWrite, BoxOK
<1>8. ASSUME HandleReset(a) PROVE TypeInv'
  BY <1>8, SMTT(30) DEF HandleReset, Takes, ResetIdleTimeout, Timers
<1>9. ASSUME WriteOk(a) PROVE TypeInv'
  <2>1. BoxOK'
    BY <1>9, EnqueueOK DEF WriteOk, TrySendReset, BoxOK
  <2>2. <<busy[a], next[busy[a]]>> \in Reqs \X Nat
    BY <1>9 DEF WriteOk
  <2>3. upstream' \in [Actors -> Seq(Reqs \X Nat)]
    BY <1>9, <2>2, AppendOK DEF WriteOk
  <2>. QED BY <1>9, <2>1, <2>3 DEF WriteOk, BoxOK, ReplyWritten, Locations, Codes, Asking, Streaming, Requests
<1>10. ASSUME WriteErr(a) PROVE TypeInv'
  BY <1>10, SMTT(30) DEF WriteErr, CtxStop, LoopEnds, ReplyWritten, Phases, Locations, Codes, Asking, Streaming, Requests
<1>11. ASSUME UpstreamSends(a) PROVE TypeInv'
  BY <1>11, SMTT(30) DEF UpstreamSends
<1>12. ASSUME UpstreamCloses(a) PROVE TypeInv'
  BY <1>12 DEF UpstreamCloses
<1>. QED BY ONLY ActorStep(a), <1>1, <1>2, <1>3, <1>4, <1>5, <1>6, <1>7, <1>8, <1>9, <1>10, <1>11, <1>12 DEF ActorStep

\* TypeInv is an invariant.
LEMMA TypeInvariant == Spec => []TypeInv
<1>1. TypeInv /\ [Next]_vars => TypeInv'
  <2>. SUFFICES ASSUME TypeInv, [Next]_vars PROVE TypeInv'
    OBVIOUS
  <2>1. ASSUME TakeStats PROVE TypeInv'
    <3>. DEFINE f == IF takes % 2 = 0 THEN "tx" ELSE "rx"
    <3>1. f \in Counters
      BY DEF Counters
    <3>2. stats' \in [Counters -> Nat] /\ reported' \in [Counters -> Nat] /\ takes' \in Nat
      BY <2>1, <3>1, SMTT(30) DEF TakeStats, Zero, TypeInv, TypeOK
    <3>. QED BY <2>1, <3>2 DEF TakeStats, TypeInv, TypeOK, TargetOK,
               tableVars, timerVars, boxVars, lockVars, upVars, reqVars
  <2>2. CASE UNCHANGED vars
    BY <2>2 DEF TypeInv, TypeOK, TargetOK, vars, tableVars, timerVars, boxVars, lockVars,
                upVars, reqVars, statVars
  <2>. QED BY <2>1, <2>2, TypeRequest, TypeActor DEF Next
<1>. QED BY <1>1, TypeInit, PTL DEF Spec

\* No step of any handler, actor or stream gives a variable a value outside
\* its type, and no mailbox ever exceeds its capacity.
THEOREM TypeCorrect == Spec => []TypeOK
BY TypeInvariant, PTL DEF TypeInv

-----------------------------------------------------------------------------
(* The table of sessions.                                                  *)

\* An actor that was spawned has a session id.
BornHasId == \A a \in Actors : phase[a] # "unborn" => sid[a] \in Ids

RegistryInv == EntriesOwned /\ LiveReachable /\ BornHasId

\* A live actor connects, fails or stops; the table does not change.
Moves(a) ==
    /\ IsAlive(a)
    /\ UNCHANGED <<sessions, sid>>
    /\ \E p \in {"running", "stopped", "failed"} : phase' = [phase EXCEPT ![a] = p]

\* What a step may do to the table and to the actors' phases.
LEMMA TableStep ==
    ASSUME [Next]_vars
    PROVE  \/ \E r \in Reqs, q \in Offered, a \in Actors : CreateSession(r, q, a)
           \/ \E a \in Actors : Moves(a)
           \/ \E a \in Actors : Drop(a)
           \/ UNCHANGED tableVars
<1>. USE DEF tableVars
<1>1. ASSUME NEW r \in Reqs, RequestStep(r)
      PROVE  (\E q \in Offered, a \in Actors : CreateSession(r, q, a)) \/ UNCHANGED tableVars
  BY <1>1 DEF RequestStep, RejectRequest, JoinSession, Ask, AskErr, BodyFrame, BodyErr, BodyEnd, CountTx,
              StreamRead, StreamYield, StreamEnd, StreamAborted, Disconnect
<1>2. ASSUME NEW a \in Actors, ActorStep(a)
      PROVE  Moves(a) \/ Drop(a) \/ UNCHANGED tableVars
  <2>1. OnStartOk(a) \/ OnStartErr(a) \/ Kill(a) \/ WriteErr(a) => Moves(a)
    BY DEF OnStartOk, OnStartErr, Kill, MayKill, WriteErr, CtxStop, LoopEnds, Moves, IsAlive
  <2>2. ASSUME NEW t \in Timers, ActorTimeout(a, t) PROVE UNCHANGED tableVars
    BY <2>2 DEF ActorTimeout
  <2>3. HandleSessionRead(a) \/ HandleSessionWrite(a) \/ HandleReset(a) \/ WriteOk(a)
           \/ UpstreamSends(a) \/ UpstreamCloses(a) => UNCHANGED tableVars
    BY DEF HandleSessionRead, HandleSessionWrite, HandleReset, WriteOk, UpstreamSends, UpstreamCloses
  <2>. QED BY <1>2, <2>1, <2>2, <2>3 DEF ActorStep
<1>3. TakeStats \/ UNCHANGED vars => UNCHANGED tableVars
  BY DEF TakeStats, vars
<1>. QED BY <1>1, <1>2, <1>3 DEF Next

\* Every step keeps what is known of the table and of the sessions.
LEMMA RegistryStep ==
    ASSUME TypeInv, RegistryInv, [Next]_vars
    PROVE  RegistryInv'
<1>. USE DEF TypeInv, TypeOK, RegistryInv, EntriesOwned, LiveReachable, BornHasId, IsAlive
<1>1. ASSUME NEW r \in Reqs, NEW q \in Offered, NEW c \in Actors, CreateSession(r, q, c)
      PROVE  RegistryInv'
  <2>1. /\ q.id \in Ids /\ phase[c] = "unborn"
        /\ sessions' = [sessions EXCEPT ![q.id] = c]
        /\ phase' = [phase EXCEPT ![c] = "connecting"]
        /\ sid' = [sid EXCEPT ![c] = q.id]
    BY <1>1 DEF CreateSession, NewSession, WellFormed, Requests
  <2>2. sessions[q.id] = None \/ ~IsAlive(sessions[q.id])
    BY <1>1 DEF CreateSession, NewSession, Missing, LiveEntry
  <2>3. EntriesOwned' /\ BornHasId'
    BY <2>1, SMTT(30)
  <2>4. ASSUME NEW a \in Actors, IsAlive(a)'
        PROVE  \/ (sessions[sid[a]] = a)'
               \/ \E b \in Actors \ {a} : (sid[b] = sid[a] /\ phase[b] = "dropped")'
    <3>1. CASE a = c
      BY <2>1, <3>1
    <3>2. CASE a # c /\ sessions[sid[a]] = a
      BY <2>1, <2>2, <2>4, <3>2
    <3>3. ASSUME a # c, NEW b \in Actors \ {a}, sid[b] = sid[a], phase[b] = "dropped"
          PROVE  (sid[b] = sid[a] /\ phase[b] = "dropped")'
      BY <2>1, <3>3
    <3>4. IsAlive(a) \/ a = c
      BY <2>1, <2>4
    <3>. QED BY <3>1, <3>2, <3>3, <3>4
  <2>. QED BY <2>3, <2>4
<1>2. ASSUME NEW c \in Actors, Moves(c) PROVE RegistryInv'
  <2>1. PICK p \in {"running", "stopped", "failed"} : phase' = [phase EXCEPT ![c] = p]
    BY <1>2 DEF Moves
  <2>. QED BY <1>2, <2>1 DEF Moves
<1>3. ASSUME NEW c \in Actors, Drop(c) PROVE RegistryInv'
  <2>1. /\ phase[c] = "stopped" /\ phase' = [phase EXCEPT ![c] = "dropped"]
        /\ sessions' = [sessions EXCEPT ![sid[c]] = None]
        /\ sid' = sid
    BY <1>3 DEF Drop, RemoveEntry
  <2>2. EntriesOwned' /\ BornHasId'
    BY <2>1
  <2>3. LiveReachable'
    BY <2>1
  <2>. QED BY <2>2, <2>3
<1>4. CASE UNCHANGED tableVars
  BY <1>4 DEF tableVars
<1>. QED BY <1>1, <1>2, <1>3, <1>4, TableStep

\* The invariant of the table holds in every state.
LEMMA RegistryInvariant == Spec => []RegistryInv
<1>1. Init => RegistryInv
  BY DEF Init, RegistryInv, EntriesOwned, LiveReachable, BornHasId, IsAlive
<1>2. TypeInv /\ RegistryInv /\ [Next]_vars => RegistryInv'
  BY RegistryStep
<1>. QED BY <1>1, <1>2, TypeInvariant, PTL DEF Spec

\* The table never refers to a session that was dropped or that has another
\* id, although Session::drop removes the entry without looking at it.
THEOREM EntriesCorrect == Spec => []EntriesOwned
<1>1. RegistryInv => EntriesOwned
  BY DEF RegistryInv
<1>. QED BY <1>1, RegistryInvariant, PTL

\* A live session that is not in the table had another session with its id
\* dropped before.
THEOREM RegistryCorrect == Spec => []LiveReachable
<1>1. RegistryInv => LiveReachable
  BY DEF RegistryInv
<1>. QED BY <1>1, RegistryInvariant, PTL

\* No step but the drop of another session of the id takes a live session out
\* of the table: a lookup replaces only an entry whose session is dead.
LEMMA LeavesStep ==
    ASSUME TypeInv, RegistryInv, [Next]_vars, NEW a \in Actors, IsAlive(a)', IsAlive(a) => Filed(a)
    PROVE  Filed(a)' \/ DropOfAnother(a)
<1>. USE DEF TypeInv, TypeOK, RegistryInv, EntriesOwned, BornHasId, IsAlive, Filed
<1>1. ASSUME NEW r \in Reqs, NEW q \in Offered, NEW c \in Actors, CreateSession(r, q, c)
      PROVE  Filed(a)'
  <2>1. /\ q.id \in Ids /\ phase[c] = "unborn"
        /\ sessions' = [sessions EXCEPT ![q.id] = c]
        /\ phase' = [phase EXCEPT ![c] = "connecting"]
        /\ sid' = [sid EXCEPT ![c] = q.id]
    BY <1>1 DEF CreateSession, NewSession, WellFormed, Requests
  <2>2. sessions[q.id] = None \/ ~IsAlive(sessions[q.id])
    BY <1>1 DEF CreateSession, NewSession, Missing, LiveEntry
  <2>3. CASE a = c
    BY <2>1, <2>3
  <2>4. CASE a # c
    BY <2>1, <2>2, <2>4
  <2>. QED BY <2>3, <2>4
<1>2. ASSUME NEW c \in Actors, Moves(c) PROVE Filed(a)'
  BY <1>2 DEF Moves
<1>3. ASSUME NEW c \in Actors, Drop(c) PROVE Filed(a)' \/ DropOfAnother(a)
  <2>1. /\ phase[c] = "stopped" /\ phase' = [phase EXCEPT ![c] = "dropped"]
        /\ sessions' = [sessions EXCEPT ![sid[c]] = None]
        /\ sid' = sid
    BY <1>3 DEF Drop, RemoveEntry
  <2>2. c # a /\ Filed(a)
    BY <2>1
  <2>3. CASE sid[c] = sid[a]
    BY <2>1, <2>2, <2>3 DEF DropOfAnother
  <2>4. CASE sid[c] # sid[a]
    BY <2>1, <2>2, <2>4
  <2>. QED BY <2>3, <2>4
<1>4. CASE UNCHANGED tableVars
  BY <1>4 DEF tableVars
<1>. QED BY <1>1, <1>2, <1>3, <1>4, TableStep

\* A live session leaves the table exactly in the step in which Session::drop
\* of another session of its id runs, whatever that entry refers to by then.
THEOREM LeavesCorrect == Spec => LeavesByDrop
<1>1. ASSUME TypeInv, RegistryInv, [Next]_vars
      PROVE  [\A a \in Actors : IsAlive(a)' /\ (IsAlive(a) => Filed(a)) => Filed(a)' \/ DropOfAnother(a)]_vars
  BY <1>1, LeavesStep
<1>. QED BY <1>1, TypeInvariant, RegistryInvariant, PTL DEF Spec, LeavesByDrop

-----------------------------------------------------------------------------
(* The timeouts.                                                           *)

\* Every step keeps the timeouts of a live session armed.
LEMMA DeadlineStep ==
    ASSUME TypeInv, DeadlineArmed, [Next]_vars
    PROVE  DeadlineArmed'
<1>. USE DEF TypeInv, TypeOK, DeadlineArmed, IsAlive, timerVars
<1>1. ASSUME NEW r \in Reqs, NEW q \in Offered, NEW c \in Actors, CreateSession(r, q, c)
      PROVE  DeadlineArmed'
  BY <1>1 DEF CreateSession, NewSession
<1>2. ASSUME NEW c \in Actors, OnStartOk(c) \/ HandleReset(c) PROVE DeadlineArmed'
  <2>1. Timers \cup {"idle"} = Timers
    BY DEF Timers
  <2>. QED BY <1>2, <2>1 DEF OnStartOk, HandleReset, ResetIdleTimeout, tableVars
<1>3. ASSUME NEW c \in Actors, NEW t \in Timers, ActorTimeout(c, t) PROVE DeadlineArmed'
  BY <1>3 DEF ActorTimeout, SendKill, tableVars
<1>4. ASSUME NEW c \in Actors, Drop(c) PROVE DeadlineArmed'
  BY <1>4 DEF Drop
<1>5. ASSUME NEW c \in Actors, OnStartErr(c) \/ Kill(c) \/ WriteErr(c) PROVE DeadlineArmed'
  BY <1>5 DEF OnStartErr, Kill, WriteErr, CtxStop, LoopEnds
<1>6. ASSUME UNCHANGED <<phase, timerVars>> PROVE DeadlineArmed'
  BY <1>6
<1>7. ASSUME NEW r \in Reqs, RequestStep(r)
      PROVE  (\E q \in Offered, a \in Actors : CreateSession(r, q, a)) \/ UNCHANGED <<phase, timerVars>>
  BY <1>7 DEF RequestStep, RejectRequest, JoinSession, Ask, AskErr, BodyFrame, BodyErr, BodyEnd, CountTx,
              StreamRead, StreamYield, StreamEnd, StreamAborted, Disconnect, tableVars
<1>8. ASSUME NEW c \in Actors, HandleSessionRead(c) \/ HandleSessionWrite(c) \/ WriteOk(c)
               \/ UpstreamSends(c) \/ UpstreamCloses(c)
      PROVE  UNCHANGED <<phase, timerVars>>
  BY <1>8 DEF HandleSessionRead, HandleSessionWrite, WriteOk, UpstreamSends, UpstreamCloses, tableVars
<1>9. TakeStats \/ UNCHANGED vars => UNCHANGED <<phase, timerVars>>
  BY DEF TakeStats, vars, tableVars
<1>. QED BY ONLY [Next]_vars, <1>1, <1>2, <1>3, <1>4, <1>5, <1>6, <1>7, <1>8, <1>9 DEF Next, ActorStep

\* A session that is alive and was not killed has both its timeouts pending,
\* whatever order resets, timeouts and connection attempts come in.
THEOREM DeadlineCorrect == Spec => []DeadlineArmed
<1>1. Init => DeadlineArmed
  BY DEF Init, DeadlineArmed, IsAlive
<1>2. TypeInv /\ DeadlineArmed /\ [Next]_vars => DeadlineArmed'
  BY DeadlineStep
<1>. QED BY <1>1, <1>2, TypeInvariant, PTL DEF Spec

-----------------------------------------------------------------------------
(* Mailboxes and the readers of the connections.                           *)

\* Where a handler is while the actor has its message.
Awaiting(kind) == IF kind = "read" THEN "get_wait" ELSE "put_wait"

\* An actor whose loop has ended has no messages and is in no handler.
BoxAlive ==
    \A a \in Actors : /\ mailbox[a] # <<>> => IsAlive(a)
                      /\ busy[a] # None => phase[a] = "running"

\* A message of a request is in the mailbox of the actor that the request
\* found, and the handler awaits the reply or is gone.
MessageOK ==
    \A a \in Actors : \A k \in 1..Len(mailbox[a]) :
        LET m == mailbox[a][k]
        IN  m.kind # "reset" => /\ m.req \in Reqs
                                /\ target[m.req] = a
                                /\ pc[m.req] \in {Awaiting(m.kind), "gone"}

\* The same for the request whose frame the actor is writing.
BusyOK ==
    \A a \in Actors : busy[a] # None => /\ target[busy[a]] = a
                                        /\ pc[busy[a]] \in {"put_wait", "gone"}

\* A request has at most one message under way.
OneMessage ==
    \A a \in Actors : \A j, k \in 1..Len(mailbox[a]) :
        mailbox[a][j].kind # "reset" /\ mailbox[a][k].kind # "reset" =>
            /\ mailbox[a][j].req = mailbox[a][k].req => j = k
            /\ mailbox[a][j].req # busy[a]

MailInv == BoxAlive /\ MessageOK /\ BusyOK /\ OneMessage

\* Request r has a message under way.
Held(r) ==
    \E a \in Actors : \/ busy[a] = r
                      \/ \E k \in 1..Len(mailbox[a]) : mailbox[a][k].kind # "reset" /\ mailbox[a][k].req = r

\* A request whose message is under way waits for the answer of a live actor,
\* or its client is gone.
LEMMA HeldAwaits ==
    ASSUME MailInv, NEW r \in Reqs, Held(r)
    PROVE  pc[r] \in {"get_wait", "put_wait", "gone"} /\ target[r] \in Actors /\ IsAlive(target[r])
<1>1. PICK a \in Actors : \/ busy[a] = r
                          \/ \E k \in 1..Len(mailbox[a]) : mailbox[a][k].kind # "reset" /\ mailbox[a][k].req = r
  BY DEF Held
<1>2. CASE busy[a] = r
  BY <1>2 DEF MailInv, BusyOK, BoxAlive, IsAlive
<1>3. ASSUME NEW k \in 1..Len(mailbox[a]), mailbox[a][k].kind # "reset", mailbox[a][k].req = r
      PROVE  pc[r] \in {"get_wait", "put_wait", "gone"} /\ target[r] \in Actors /\ IsAlive(target[r])
  <2>1. target[r] = a /\ pc[r] \in {"get_wait", "put_wait", "gone"}
    BY <1>3 DEF MailInv, MessageOK, Awaiting
  <2>2. mailbox[a] # <<>>
    BY <1>3
  <2>. QED BY <2>1, <2>2 DEF MailInv, BoxAlive
<1>. QED BY <1>1, <1>2, <1>3

\* The messages of requests that a mailbox holds were there before.
NoneAdded ==
    \A a \in Actors : \A k \in 1..Len(mailbox'[a]) : mailbox'[a][k].kind # "reset" =>
        k \in 1..Len(mailbox[a]) /\ mailbox'[a][k] = mailbox[a][k]

\* A step that adds no message of a request, and that moves only handlers
\* which have no message under way (or which vanish), keeps MailInv.
LEMMA MailKept ==
    ASSUME MailInv, NoneAdded, BoxAlive',
           \A a \in Actors : busy'[a] \in {busy[a], None},
           busy \in [Actors -> Reqs \cup {None}],
           \A s \in Reqs : Held(s)' => target'[s] = target[s] /\ pc'[s] \in {pc[s], "gone"}
    PROVE  MailInv'
<1>1. MessageOK'
  <2>1. SUFFICES ASSUME NEW a \in Actors, NEW k \in 1..Len(mailbox'[a]), mailbox'[a][k].kind # "reset"
                 PROVE  /\ mailbox'[a][k].req \in Reqs
                        /\ target'[mailbox'[a][k].req] = a
                        /\ pc'[mailbox'[a][k].req] \in {Awaiting(mailbox'[a][k].kind), "gone"}
    BY DEF MessageOK, Awaiting
  <2>2. k \in 1..Len(mailbox[a]) /\ mailbox'[a][k] = mailbox[a][k]
    BY <2>1 DEF NoneAdded
  <2>3. /\ mailbox[a][k].req \in Reqs
        /\ target[mailbox[a][k].req] = a
        /\ pc[mailbox[a][k].req] \in {Awaiting(mailbox[a][k].kind), "gone"}
    BY <2>1, <2>2 DEF MailInv, MessageOK
  <2>4. Held(mailbox[a][k].req)'
    BY <2>1, <2>2 DEF Held
  <2>. QED BY <2>2, <2>3, <2>4
<1>2. BusyOK'
  <2>1. SUFFICES ASSUME NEW a \in Actors, busy'[a] # None
                 PROVE  target'[busy'[a]] = a /\ pc'[busy'[a]] \in {"put_wait", "gone"}
    BY DEF BusyOK
  <2>2. Held(busy[a])' /\ busy'[a] = busy[a] /\ busy[a] \in Reqs
    BY <2>1 DEF Held
  <2>. QED BY <2>1, <2>2 DEF MailInv, BusyOK
<1>3. OneMessage'
  <2>1. SUFFICES ASSUME NEW a \in Actors, NEW j \in 1..Len(mailbox'[a]), NEW k \in 1..Len(mailbox'[a]),
                        mailbox'[a][j].kind # "reset", mailbox'[a][k].kind # "reset"
                 PROVE  /\ mailbox'[a][j].req = mailbox'[a][k].req => j = k
                        /\ mailbox'[a][j].req # busy'[a]
    BY DEF OneMessage
  <2>2. /\ j \in 1..Len(mailbox[a]) /\ mailbox'[a][j] = mailbox[a][j]
        /\ k \in 1..Len(mailbox[a]) /\ mailbox'[a][k] = mailbox[a][k]
    BY <2>1 DEF NoneAdded
  <2>3. mailbox[a][j].req \in Reqs
    BY <2>1, <2>2 DEF MailInv, MessageOK
  <2>4. busy'[a] \in {busy[a], None}
    OBVIOUS
  <2>5. OneMessage
    BY DEF MailInv
  <2>. QED BY ONLY <2>1, <2>2, <2>3, <2>4, <2>5, ServerAssumption DEF OneMessage
<1>. QED BY <1>1, <1>2, <1>3 DEF MailInv

\* Enqueueing a reset adds no message of a request.
LEMMA ResetAdded ==
    ASSUME BoxOK, NEW a \in Actors, Enqueue(a, "reset", None)
    PROVE  NoneAdded /\ \A c \in Actors \ {a} : mailbox'[c] = mailbox[c]
<1>. DEFINE e == [kind |-> "reset", req |-> None]
<1>1. mailbox' = [mailbox EXCEPT ![a] = Append(mailbox[a], e)] /\ e.kind = "reset"
  BY DEF Enqueue
<1>. HIDE DEF e
<1>2. /\ Len(mailbox'[a]) = Len(mailbox[a]) + 1 /\ Len(mailbox[a]) \in Nat
      /\ mailbox'[a][Len(mailbox[a]) + 1] = e
      /\ \A k \in 1..Len(mailbox[a]) : mailbox'[a][k] = mailbox[a][k]
  BY <1>1 DEF BoxOK
<1>3. \A c \in Actors \ {a} : mailbox'[c] = mailbox[c]
  BY <1>1 DEF BoxOK
<1>. QED BY <1>1, <1>2, <1>3 DEF NoneAdded

\* Taking the message at the head of a mailbox.  The handler of a read may
\* answer the request, the handler of a write becomes busy with it.
LEMMA MessageTaken ==
    ASSUME TypeInv, MailInv, NEW a \in Actors, NEW kind, Takes(a, kind),
           mailbox' = [mailbox EXCEPT ![a] = Tail(@)],
           UNCHANGED <<phase, target>>,
           \/ UNCHANGED pc
           \/ kind = "read" /\ \A s \in Reqs \ {Head(mailbox[a]).req} : pc'[s] = pc[s],
           \/ UNCHANGED busy
           \/ kind = "write" /\ busy' = [busy EXCEPT ![a] = Head(mailbox[a]).req] /\ UNCHANGED pc
    PROVE  MailInv'
<1>. DEFINE r == Head(mailbox[a]).req
<1>1. /\ Len(mailbox[a]) \in Nat /\ 1 \in 1..Len(mailbox[a])
      /\ mailbox[a][1].kind = kind /\ mailbox[a][1].req = r
      /\ phase[a] = "running" /\ busy[a] = None
  BY DEF Takes, TypeInv, TypeOK
<1>2. /\ \A k \in 1..Len(mailbox'[a]) : k + 1 \in 1..Len(mailbox[a]) /\ k + 1 # 1
                                         /\ mailbox'[a][k] = mailbox[a][k + 1]
      /\ \A c \in Actors \ {a} : mailbox'[c] = mailbox[c]
  <2>1. mailbox[a] \in Seq(Messages) /\ mailbox[a] # <<>> /\ mailbox \in [Actors -> Seq(Messages)]
    BY DEF Takes, TypeInv, TypeOK
  <2>. QED BY ONLY <2>1, mailbox' = [mailbox EXCEPT ![a] = Tail(@)], a \in Actors
<1>3. kind # "reset" => r \in Reqs /\ target[r] = a /\ pc[r] \in {Awaiting(kind), "gone"}
  BY <1>1 DEF MailInv, MessageOK
<1>4. ASSUME NEW c \in Actors, NEW k \in 1..Len(mailbox'[c]), mailbox'[c][k].kind # "reset"
      PROVE  /\ kind # "reset" => mailbox'[c][k].req # r
             /\ \E j \in 1..Len(mailbox[c]) : /\ mailbox'[c][k] = mailbox[c][j]
                                              /\ j = IF c = a THEN k + 1 ELSE k
  <2>1. CASE c = a
    <3>1. k + 1 \in 1..Len(mailbox[a]) /\ k + 1 # 1 /\ mailbox'[a][k] = mailbox[a][k + 1]
      BY <1>2, <2>1
    <3>2. OneMessage
      BY DEF MailInv
    <3>. QED BY ONLY <1>1, <1>4, <2>1, <3>1, <3>2, a \in Actors DEF OneMessage
  <2>2. CASE c # a
    <3>1. mailbox'[c] = mailbox[c] /\ target[mailbox[c][k].req] = c
      BY <1>2, <1>4, <2>2 DEF MailInv, MessageOK
    <3>. QED BY <1>3, <2>2, <3>1
  <2>. QED BY <2>1, <2>2
<1>. HIDE DEF r
<1>5. BoxAlive'
  BY <1>1, <1>2 DEF MailInv, BoxAlive, IsAlive, TypeInv, TypeOK, r
<1>6. MessageOK'
  <2>1. SUFFICES ASSUME NEW c \in Actors, NEW k \in 1..Len(mailbox'[c]), mailbox'[c][k].kind # "reset"
                 PROVE  /\ mailbox'[c][k].req \in Reqs
                        /\ target'[mailbox'[c][k].req] = c
                        /\ pc'[mailbox'[c][k].req] \in {Awaiting(mailbox'[c][k].kind), "gone"}
    BY DEF MessageOK, Awaiting
  <2>2. PICK j \in 1..Len(mailbox[c]) : mailbox'[c][k] = mailbox[c][j]
    BY <1>4, <2>1
  <2>3. /\ mailbox[c][j].req \in Reqs /\ target[mailbox[c][j].req] = c
        /\ pc[mailbox[c][j].req] \in {Awaiting(mailbox[c][j].kind), "gone"}
    BY <2>1, <2>2 DEF MailInv, MessageOK
  <2>4. kind # "reset" => mailbox'[c][k].req # r
    BY <1>4, <2>1
  <2>. QED BY <2>2, <2>3, <2>4 DEF r
<1>7. BusyOK'
  <2>1. SUFFICES ASSUME NEW c \in Actors, busy'[c] # None
                 PROVE  target'[busy'[c]] = c /\ pc'[busy'[c]] \in {"put_wait", "gone"}
    BY DEF BusyOK
  <2>2. CASE c = a
    BY <1>1, <1>3, <2>1, <2>2 DEF r, TypeInv, TypeOK, Awaiting
  <2>3. CASE c # a
    <3>1. busy'[c] = busy[c] /\ busy[c] \in Reqs
      BY <2>1, <2>3 DEF TypeInv, TypeOK
    <3>2. target[busy[c]] = c /\ pc[busy[c]] \in {"put_wait", "gone"}
      BY <2>1, <3>1 DEF MailInv, BusyOK
    <3>. QED BY <1>3, <2>3, <3>1, <3>2 DEF r
  <2>. QED BY <2>2, <2>3
<1>8. OneMessage'
  <2>1. SUFFICES ASSUME NEW c \in Actors, NEW j \in 1..Len(mailbox'[c]), NEW k \in 1..Len(mailbox'[c]),
                        mailbox'[c][j].kind # "reset", mailbox'[c][k].kind # "reset"
                 PROVE  /\ mailbox'[c][j].req = mailbox'[c][k].req => j = k
                        /\ mailbox'[c][j].req # busy'[c]
    BY ZenonT(40) DEF OneMessage
  <2>2. PICK jj \in 1..Len(mailbox[c]) : mailbox'[c][j] = mailbox[c][jj] /\ jj = IF c = a THEN j + 1 ELSE j
    BY <1>4, <2>1
  <2>3. PICK kk \in 1..Len(mailbox[c]) : mailbox'[c][k] = mailbox[c][kk] /\ kk = IF c = a THEN k + 1 ELSE k
    BY <1>4, <2>1
  <2>4. /\ mailbox[c][jj].req = mailbox[c][kk].req => jj = kk
        /\ mailbox[c][jj].req # busy[c]
    <3>1. OneMessage
      BY DEF MailInv
    <3>. QED BY ONLY <2>1, <2>2, <2>3, <3>1 DEF OneMessage
  <2>5. jj = kk => j = k
    BY <2>1, <2>2, <2>3
  <2>6. kind # "reset" => mailbox'[c][j].req # r
    BY <1>4, <2>1
  <2>7. busy'[c] = busy[c] \/ (kind = "write" /\ c = a /\ busy'[c] = r)
    BY DEF r, TypeInv, TypeOK
  <2>. QED BY <2>2, <2>3, <2>4, <2>5, <2>6, <2>7
<1>. QED BY <1>5, <1>6, <1>7, <1>8 DEF MailInv

\* A handler that asks puts its only message at the end of the mailbox.
LEMMA AskSends ==
    ASSUME TypeInv, MailInv, NEW r \in Reqs, Ask(r)
    PROVE  MailInv'
<1>. DEFINE a == target[r]
            kind == IF pc[r] = "get_send" THEN "read" ELSE "write"
            e == [kind |-> kind, req |-> r]
<1>1. /\ a \in Actors /\ IsAlive(a) /\ pc[r] \in {"get_send", "put_send"}
      /\ mailbox' = [mailbox EXCEPT ![a] = Append(mailbox[a], e)]
      /\ pc' = [pc EXCEPT ![r] = Awaiting(kind)]
      /\ UNCHANGED <<phase, busy, target>>
  BY DEF Ask, Enqueue, TypeInv, TargetOK, TypeOK, Asking, Awaiting, tableVars
<1>2. e.kind = kind /\ e.req = r /\ kind \in {"read", "write"}
  OBVIOUS
<1>3. mailbox \in [Actors -> Seq(Messages)] /\ pc \in [Reqs -> Locations]
  BY DEF TypeInv, TypeOK
<1>4. ~Held(r)
  BY <1>1, HeldAwaits
<1>. HIDE DEF a, kind, e
<1>5. /\ Len(mailbox[a]) \in Nat /\ Len(mailbox'[a]) = Len(mailbox[a]) + 1
      /\ mailbox'[a][Len(mailbox[a]) + 1] = e
      /\ \A k \in 1..Len(mailbox[a]) : mailbox'[a][k] = mailbox[a][k]
      /\ \A c \in Actors \ {a} : mailbox'[c] = mailbox[c]
  BY <1>1, <1>3
<1>6. ASSUME NEW c \in Actors, NEW k \in 1..Len(mailbox'[c]), mailbox'[c][k].kind # "reset"
      PROVE  \/ c = a /\ k = Len(mailbox[a]) + 1 /\ mailbox'[c][k] = e
             \/ /\ k \in 1..Len(mailbox[c]) /\ mailbox'[c][k] = mailbox[c][k]
                /\ mailbox[c][k].req # r /\ mailbox[c][k].req \in Reqs
                /\ target[mailbox[c][k].req] = c
                /\ pc[mailbox[c][k].req] \in {Awaiting(mailbox[c][k].kind), "gone"}
  <2>1. CASE k \in 1..Len(mailbox[c])
    <3>1. mailbox'[c][k] = mailbox[c][k]
      BY <1>5, <2>1
    <3>2. mailbox[c][k].req # r
      BY <1>4, <1>6, <2>1, <3>1 DEF Held
    <3>. QED BY <1>6, <2>1, <3>1, <3>2 DEF MailInv, MessageOK
  <2>2. CASE k \notin 1..Len(mailbox[c])
    BY <1>5, <1>6, <2>2
  <2>. QED BY <2>1, <2>2
<1>7. BoxAlive'
  BY <1>1, <1>5 DEF MailInv, BoxAlive, IsAlive
<1>8. MessageOK'
  <2>1. SUFFICES ASSUME NEW c \in Actors, NEW k \in 1..Len(mailbox'[c]), mailbox'[c][k].kind # "reset"
                 PROVE  /\ mailbox'[c][k].req \in Reqs
                        /\ target'[mailbox'[c][k].req] = c
                        /\ pc'[mailbox'[c][k].req] \in {Awaiting(mailbox'[c][k].kind), "gone"}
    BY DEF MessageOK, Awaiting
  <2>. QED BY <1>1, <1>2, <1>3, <1>6, <2>1 DEF a
<1>9. BusyOK'
  BY <1>1, <1>3, <1>4 DEF MailInv, BusyOK, Held, TypeInv, TypeOK
<1>10. OneMessage'
  <2>1. SUFFICES ASSUME NEW c \in Actors, NEW j \in 1..Len(mailbox'[c]), NEW k \in 1..Len(mailbox'[c]),
                        mailbox'[c][j].kind # "reset", mailbox'[c][k].kind # "reset"
                 PROVE  /\ mailbox'[c][j].req = mailbox'[c][k].req => j = k
                        /\ mailbox'[c][j].req # busy'[c]
    BY DEF OneMessage
  <2>2. busy'[c] = busy[c] /\ busy[c] # r
    BY <1>1, <1>4 DEF Held
  <2>3. OneMessage
    BY DEF MailInv
  <2>4. ASSUME j \in 1..Len(mailbox[c]), k \in 1..Len(mailbox[c]),
               mailbox'[c][j] = mailbox[c][j], mailbox'[c][k] = mailbox[c][k]
        PROVE  /\ mailbox[c][j].req = mailbox[c][k].req => j = k
               /\ mailbox[c][j].req # busy[c]
    BY ONLY <2>1, <2>3, <2>4 DEF OneMessage
  <2>5. ASSUME j \in 1..Len(mailbox[c]), mailbox'[c][j] = mailbox[c][j]
        PROVE  mailbox[c][j].req # busy[c]
    BY ONLY <2>1, <2>3, <2>5 DEF OneMessage
  <2>. QED BY <1>2, <1>6, <2>1, <2>2, <2>4, <2>5, SMTT(30)
<1>. QED BY <1>7, <1>8, <1>9, <1>10 DEF MailInv

\* Steps of handlers and streams that leave the mailboxes alone.
LEMMA HandlerMoves ==
    ASSUME TypeInv, MailInv, NEW r \in Reqs, UNCHANGED boxVars,
           \A s \in Reqs \ {r} : pc'[s] = pc[s] /\ target'[s] = target[s],
           ~Held(r) \/ (pc'[r] = "gone" /\ target'[r] = target[r]),
           \A a \in Actors : phase[a] # "unborn" => phase'[a] = phase[a]
    PROVE  MailInv'
<1>1. NoneAdded /\ \A s \in Reqs : Held(s)' = Held(s)
  BY DEF NoneAdded, Held, boxVars
<1>2. BoxAlive'
  BY DEF MailInv, BoxAlive, IsAlive, boxVars
<1>. QED BY <1>1, <1>2, MailKept DEF TypeInv, TypeOK, boxVars

\* The loop of actor a ends, after a reply to r in the case of WriteErr.
LEMMA BoxCleared ==
    ASSUME TypeInv, MailInv, NEW a \in Actors,
           mailbox' = [mailbox EXCEPT ![a] = <<>>],
           busy' = [busy EXCEPT ![a] = None],
           \A c \in Actors \ {a} : phase'[c] = phase[c],
           UNCHANGED target,
           \A s \in Reqs : busy[a] # s => pc'[s] = pc[s]
    PROVE  MailInv'
<1>1. /\ mailbox'[a] = <<>> /\ \A c \in Actors \ {a} : mailbox'[c] = mailbox[c]
      /\ busy'[a] = None /\ \A c \in Actors \ {a} : busy'[c] = busy[c]
  BY DEF TypeInv, TypeOK
<1>2. NoneAdded
  BY <1>1 DEF NoneAdded
<1>3. BoxAlive'
  BY <1>1 DEF MailInv, BoxAlive, IsAlive
<1>4. ASSUME NEW s \in Reqs, Held(s)' PROVE busy[a] # s
  <2>1. SUFFICES ASSUME busy[a] = s PROVE FALSE
    OBVIOUS
  <2>2. target[s] = a
    BY <2>1 DEF MailInv, BusyOK
  <2>3. PICK c \in Actors : \/ busy'[c] = s
                            \/ \E k \in 1..Len(mailbox'[c]) : mailbox'[c][k].kind # "reset" /\ mailbox'[c][k].req = s
    BY <1>4 DEF Held
  <2>4. c # a
    BY <1>1, <2>3
  <2>. QED BY <1>1, <2>2, <2>3, <2>4 DEF MailInv, BusyOK, MessageOK
<1>. QED BY <1>1, <1>2, <1>3, <1>4, MailKept DEF TypeInv, TypeOK

\* Every step of a handler or stream keeps MailInv.
LEMMA MailRequest ==
    ASSUME TypeInv, MailInv, NEW r \in Reqs, RequestStep(r)
    PROVE  MailInv'
<1>. USE DEF TypeInv, TypeOK
<1>1. ASSUME NEW q \in Offered, \/ RejectRequest(r, q) \/ JoinSession(r, q)
                                \/ \E a \in Actors : CreateSession(r, q, a)
      PROVE  MailInv'
  <2>1. ~Held(r)
    BY <1>1, HeldAwaits DEF RejectRequest, JoinSession, CreateSession, NewSession, Arrive
  <2>2. /\ UNCHANGED boxVars
        /\ \A s \in Reqs \ {r} : pc'[s] = pc[s] /\ target'[s] = target[s]
    BY <1>1 DEF RejectRequest, JoinSession, CreateSession, NewSession, Respond, Dispatch
  <2>3. \A a \in Actors : phase[a] # "unborn" => phase'[a] = phase[a]
    BY <1>1 DEF RejectRequest, JoinSession, CreateSession, NewSession, tableVars
  <2>. QED BY <2>1, <2>2, <2>3, HandlerMoves
<1>2. CASE Ask(r)
  BY <1>2, AskSends
<1>3. CASE AskErr(r)
  <2>1. ~Held(r)
    BY <1>3, HeldAwaits DEF AskErr
  <2>. QED BY <1>3, <2>1, HandlerMoves DEF AskErr, Respond, tableVars
<1>4. CASE BodyFrame(r) \/ BodyErr(r) \/ BodyEnd(r) \/ CountTx(r)
  <2>1. ~Held(r)
    BY <1>4, HeldAwaits DEF BodyFrame, BodyErr, BodyEnd, CountTx
  <2>. QED BY <1>4, <2>1, HandlerMoves DEF BodyFrame, BodyErr, BodyEnd, CountTx, Respond, tableVars
<1>5. CASE StreamRead(r) \/ StreamEnd(r) \/ StreamAborted(r)
  <2>1. ~Held(r)
    BY <1>5, HeldAwaits DEF StreamRead, StreamEnd, StreamAborted, Streaming
  <2>. QED BY <1>5, <2>1, HandlerMoves DEF StreamRead, StreamEnd, StreamAborted, tableVars
<1>6. CASE StreamYield(r)
  <2>1. ~Held(r) /\ target[r] \in Actors /\ BoxOK
    BY <1>6, HeldAwaits DEF StreamYield, TargetOK, Streaming, BoxOK
  <2>2. CASE UNCHANGED mailbox
    BY <1>6, <2>1, <2>2, HandlerMoves DEF StreamYield, boxVars, tableVars
  <2>3. CASE IsAlive(target[r]) /\ Enqueue(target[r], "reset", None)
    <3>1. NoneAdded /\ \A c \in Actors \ {target[r]} : mailbox'[c] = mailbox[c]
      BY <2>1, <2>3, ResetAdded
    <3>2. busy' = busy /\ phase' = phase /\ target' = target /\ pc' = [pc EXCEPT ![r] = "get_more"]
      BY <1>6 DEF StreamYield, tableVars
    <3>3. BoxAlive'
      BY <2>3, <3>1, <3>2 DEF MailInv, BoxAlive, IsAlive
    <3>4. ASSUME NEW s \in Reqs, Held(s)' PROVE Held(s)
      <4>1. PICK c \in Actors :
              \/ busy'[c] = s
              \/ \E k \in 1..Len(mailbox'[c]) : mailbox'[c][k].kind # "reset" /\ mailbox'[c][k].req = s
        BY <3>4 DEF Held
      <4>2. CASE busy'[c] = s
        BY <3>2, <4>2, Zenon DEF Held
      <4>3. ASSUME NEW k \in 1..Len(mailbox'[c]), mailbox'[c][k].kind # "reset", mailbox'[c][k].req = s
            PROVE  Held(s)
        <5>1. k \in 1..Len(mailbox[c]) /\ mailbox'[c][k] = mailbox[c][k]
          BY <3>1, <4>3, Zenon DEF NoneAdded
        <5>2. mailbox[c][k].kind # "reset" /\ mailbox[c][k].req = s
          BY <4>3, <5>1
        <5>. QED BY <5>1, <5>2, Zenon DEF Held
      <4>. QED BY <4>1, <4>2, <4>3, Zenon
    <3>. QED BY <2>1, <3>1, <3>2, <3>3, <3>4, MailKept
  <2>. QED BY <1>6, <2>2, <2>3 DEF StreamYield
<1>7. CASE Disconnect(r)
  BY <1>7, HandlerMoves DEF Disconnect, tableVars
<1>. QED BY ONLY RequestStep(r), <1>1, <1>2, <1>3, <1>4, <1>5, <1>6, <1>7 DEF RequestStep

\* A write that ends well adds no message of a request.
LEMMA WriteAdds ==
    ASSUME TypeInv, NEW a \in Actors, WriteOk(a)
    PROVE  NoneAdded /\ \A c \in Actors \ {a} : mailbox'[c] = mailbox[c]
<1>1. CASE Enqueue(a, "reset", None)
  BY <1>1, ResetAdded DEF BoxOK, TypeInv, TypeOK
<1>2. CASE UNCHANGED mailbox
  BY <1>2 DEF NoneAdded
<1>. QED BY <1>1, <1>2 DEF WriteOk, TrySendReset

\* Once its frame is written a request has no message under way.
LEMMA WriteReleases ==
    ASSUME TypeInv, MailInv, NEW a \in Actors, NEW b \in Reqs, busy[a] = b, WriteOk(a)
    PROVE  ~Held(b)'
<1>. USE DEF TypeInv, TypeOK
<1>1. busy' = [busy EXCEPT ![a] = None]
  BY DEF WriteOk
<1>2. SUFFICES ASSUME NEW c \in Actors, NEW k \in 1..Len(mailbox'[c]),
                      mailbox'[c][k].kind # "reset", mailbox'[c][k].req = b
               PROVE  FALSE
  <2>1. \A c \in Actors : busy'[c] # b
    BY <1>1 DEF MailInv, BusyOK
  <2>. QED BY <2>1 DEF Held
<1>3. k \in 1..Len(mailbox[c]) /\ mailbox'[c][k] = mailbox[c][k]
  BY <1>2, WriteAdds DEF NoneAdded
<1>4. c = a
  <2>1. target[b] = a
    BY DEF MailInv, BusyOK
  <2>2. target[b] = c
    BY <1>2, <1>3, SMTT(30) DEF MailInv, MessageOK
  <2>. QED BY <2>1, <2>2
<1>5. OneMessage
  BY DEF MailInv
<1>. QED BY ONLY <1>2, <1>3, <1>4, <1>5, busy[a] = b, a \in Actors DEF OneMessage

\* Every step of an actor keeps MailInv.
LEMMA MailActor ==
    ASSUME TypeInv, MailInv, NEW a \in Actors, ActorStep(a)
    PROVE  MailInv'
<1>. USE DEF TypeInv, TypeOK
<1>1. CASE OnStartErr(a)
  <2>1. busy[a] = None
    BY <1>1 DEF OnStartErr, MailInv, BoxAlive
  <2>2. busy' = [busy EXCEPT ![a] = None]
    BY <1>1, <2>1 DEF OnStartErr
  <2>. QED BY <1>1, <2>2, BoxCleared DEF OnStartErr, reqVars
<1>2. CASE Kill(a)
  BY <1>2, BoxCleared DEF Kill, LoopEnds, reqVars
<1>3. CASE WriteErr(a)
  BY <1>3, BoxCleared DEF WriteErr, CtxStop, LoopEnds, ReplyWritten
<1>4. CASE HandleSessionRead(a)
  <2>1. UNCHANGED pc \/ \A s \in Reqs \ {Head(mailbox[a]).req} : pc'[s] = pc[s]
    BY <1>4 DEF HandleSessionRead, Respond
  <2>. QED BY <1>4, <2>1, MessageTaken DEF HandleSessionRead, tableVars
<1>5. CASE HandleSessionWrite(a)
  BY <1>5, MessageTaken DEF HandleSessionWrite, tableVars, reqVars
<1>6. CASE HandleReset(a)
  BY <1>6, MessageTaken DEF HandleReset, tableVars, reqVars
<1>7. CASE WriteOk(a)
  <2>. PICK b \in Reqs : busy[a] = b
    BY <1>7 DEF WriteOk
  <2>1. /\ phase[a] = "running" /\ UNCHANGED <<phase, target>>
        /\ busy' = [busy EXCEPT ![a] = None]
        /\ \A s \in Reqs \ {b} : pc'[s] = pc[s]
    BY <1>7 DEF WriteOk, ReplyWritten, tableVars
  <2>2. NoneAdded /\ \A c \in Actors \ {a} : mailbox'[c] = mailbox[c]
    BY <1>7, WriteAdds
  <2>3. BoxAlive'
    BY <2>1, <2>2 DEF MailInv, BoxAlive, IsAlive
  <2>4. ~Held(b)'
    BY <1>7, WriteReleases
  <2>. QED BY <2>1, <2>2, <2>3, <2>4, MailKept
<1>8. ASSUME UNCHANGED <<boxVars, pc, target>>, \A c \in Actors : IsAlive(c) => phase'[c] \in {phase[c], "running"}
      PROVE  MailInv'
  <2>1. NoneAdded
    BY <1>8 DEF NoneAdded, boxVars
  <2>2. BoxAlive'
    BY <1>8 DEF MailInv, BoxAlive, IsAlive, boxVars
  <2>. QED BY <1>8, <2>1, <2>2, MailKept DEF boxVars
<1>9. OnStartOk(a) \/ Drop(a) => MailInv'
  BY <1>8 DEF OnStartOk, Drop, IsAlive, reqVars
<1>10. (\E t \in Timers : ActorTimeout(a, t)) \/ UpstreamSends(a) \/ UpstreamCloses(a) => MailInv'
  BY <1>8 DEF ActorTimeout, UpstreamSends, UpstreamCloses, tableVars, reqVars
<1>. QED BY ONLY ActorStep(a), <1>1, <1>2, <1>3, <1>4, <1>5, <1>6, <1>7, <1>9, <1>10 DEF ActorStep

\* MailInv is an invariant.
LEMMA MailInvariant == Spec => []MailInv
<1>1. Init => MailInv
  BY DEF Init, MailInv, BoxAlive, MessageOK, BusyOK, OneMessage
<1>2. TypeInv /\ MailInv /\ [Next]_vars => MailInv'
  <2>1. TakeStats \/ UNCHANGED vars => UNCHANGED <<mailbox, busy, pc, target, phase>>
    BY DEF TakeStats, vars, tableVars, boxVars, reqVars
  <2>2. MailInv /\ UNCHANGED <<mailbox, busy, pc, target, phase>> => MailInv'
    BY DEF MailInv, BoxAlive, MessageOK, BusyOK, OneMessage, IsAlive, Awaiting
  <2>. QED BY <2>1, <2>2, MailRequest, MailActor DEF Next
<1>. QED BY <1>1, <1>2, TypeInvariant, PTL DEF Spec

ReaderInv == OneReader /\ NoLeakedLock /\ AbortCoversReader


\* A handler that does not stream, and does not begin to, does not matter.
LEMMA ReaderKept ==
    ASSUME TypeInv, ReaderInv, NEW r \in Reqs,
           UNCHANGED <<reader, abort, aborted>>,
           \A s \in Reqs \ {r} : pc'[s] = pc[s] /\ target'[s] = target[s],
           \/ pc[r] \notin Streaming /\ pc'[r] \notin Streaming
           \/ pc[r] \in Streaming /\ pc'[r] \in Streaming /\ target'[r] = target[r],
           \A a \in Actors : phase[a] # phase'[a] => reader[a] = None \/ (phase'[a] # "dropped" /\ phase[a] # "dropped")
    PROVE  ReaderInv'
<1>. USE DEF TypeInv, TypeOK, ReaderInv
<1>1. OneReader'
  BY DEF OneReader
<1>2. NoLeakedLock'
  BY DEF NoLeakedLock, OneReader
<1>3. AbortCoversReader'
  BY DEF AbortCoversReader
<1>. QED BY <1>1, <1>2, <1>3

\* A stream ends or is dropped, and its guard with it.
LEMMA GuardReleased ==
    ASSUME TypeInv, ReaderInv, NEW r \in Reqs, ReleaseGuard(r),
           UNCHANGED <<abort, aborted, phase, target>>,
           NEW l \in {"done", "gone"}, pc' = [pc EXCEPT ![r] = l]
    PROVE  ReaderInv'
<1>. USE DEF TypeInv, TypeOK, ReaderInv, ReleaseGuard
<1>1. \A s \in Reqs : pc'[s] \in Streaming => s # r /\ pc[s] \in Streaming
  BY DEF Streaming
<1>2. OneReader'
  BY <1>1 DEF OneReader, TargetOK
<1>3. NoLeakedLock'
  BY DEF NoLeakedLock
<1>4. AbortCoversReader'
  BY DEF AbortCoversReader
<1>. QED BY <1>2, <1>3, <1>4

\* Every step of a handler or stream keeps ReaderInv.
LEMMA ReaderRequest ==
    ASSUME TypeInv, ReaderInv, NEW r \in Reqs, RequestStep(r)
    PROVE  ReaderInv'
<1>. USE DEF TypeInv, TypeOK, lockVars, tableVars
<1>1. ASSUME NEW q \in Offered, RejectRequest(r, q) \/ JoinSession(r, q) PROVE ReaderInv'
  BY <1>1, ReaderKept, ZenonT(40) DEF RejectRequest, JoinSession, Arrive, Respond, Dispatch, Streaming
<1>2. ASSUME NEW q \in Offered, NEW a \in Actors, CreateSession(r, q, a) PROVE ReaderInv'
  BY <1>2, ReaderKept DEF CreateSession, NewSession, Arrive, Dispatch, Streaming
<1>3. CASE Ask(r) \/ AskErr(r)
  BY <1>3, ReaderKept DEF Ask, AskErr, Respond, Asking, Streaming
<1>4. CASE BodyFrame(r) \/ BodyErr(r) \/ BodyEnd(r) \/ CountTx(r)
  BY <1>4, ReaderKept DEF BodyFrame, BodyErr, BodyEnd, CountTx, Respond, Streaming
<1>5. CASE StreamRead(r) \/ StreamYield(r)
  BY <1>5, ReaderKept DEF StreamRead, StreamYield, Streaming
<1>6. CASE StreamEnd(r) \/ StreamAborted(r) \/ Disconnect(r)
  BY <1>6, GuardReleased DEF StreamEnd, StreamAborted, Disconnect
<1>. QED BY ONLY RequestStep(r), <1>1, <1>2, <1>3, <1>4, <1>5, <1>6 DEF RequestStep

\* The actor gives the lock to the request at the head of its mailbox.
LEMMA ReaderGranted ==
    ASSUME TypeInv, MailInv, ReaderInv, NEW a \in Actors, HandleSessionRead(a)
    PROVE  ReaderInv'
<1>. DEFINE r == Head(mailbox[a]).req
<1>1. /\ r \in Reqs /\ target[r] = a /\ phase[a] = "running"
      /\ UNCHANGED <<aborted, phase, target>>
  <2>1. /\ 1 \in 1..Len(mailbox[a]) /\ mailbox[a][1] = Head(mailbox[a]) /\ Head(mailbox[a]).kind = "read"
        /\ phase[a] = "running"
    BY DEF HandleSessionRead, Takes, TypeInv, TypeOK
  <2>. QED BY <2>1 DEF MailInv, MessageOK, HandleSessionRead, tableVars
<1>2. \/ /\ reader[a] = None /\ pc[r] = "get_wait"
         /\ reader' = [reader EXCEPT ![a] = r]
         /\ abort' = [abort EXCEPT ![a] = r]
         /\ pc' = [pc EXCEPT ![r] = "get_first"]
      \/ /\ reader[a] = None
         /\ abort' = [abort EXCEPT ![a] = r]
         /\ UNCHANGED <<reader, pc>>
      \/ /\ pc[r] = "get_wait" /\ pc' = [pc EXCEPT ![r] = "done"]
         /\ UNCHANGED <<reader, abort>>
      \/ UNCHANGED <<reader, abort, pc>>
  BY DEF HandleSessionRead, TryLock, SaveAbortHandle, Respond
<1>. HIDE DEF r
<1>. USE DEF TypeInv, TypeOK, ReaderInv
<1>3. OneReader'
  BY <1>1, <1>2, SMTT(30) DEF OneReader, Streaming, TargetOK
<1>4. NoLeakedLock'
  <2>1. pc[r] = "get_wait" => \A c \in Actors : reader[c] # r
    BY <1>1 DEF NoLeakedLock, Streaming
  <2>2. SUFFICES ASSUME NEW c \in Actors, NEW s \in Reqs, reader'[c] = s
                 PROVE  pc'[s] \in Streaming /\ target[s] = c
    BY <1>1, <1>2, SMTT(30) DEF NoLeakedLock
  <2>3. CASE c = a /\ reader' # reader
    BY <1>1, <1>2, <2>2, <2>3 DEF Streaming
  <2>4. CASE reader'[c] = reader[c]
    BY <1>1, <1>2, <2>1, <2>2, <2>4, SMTT(30) DEF NoLeakedLock, Streaming
  <2>. QED BY <1>2, <2>3, <2>4
<1>5. AbortCoversReader'
  BY <1>1, <1>2, SMTT(30) DEF AbortCoversReader
<1>. QED BY <1>3, <1>4, <1>5

\* Every step of an actor keeps ReaderInv.
LEMMA ReaderActor ==
    ASSUME TypeInv, MailInv, ReaderInv, NEW a \in Actors, ActorStep(a)
    PROVE  ReaderInv'
<1>. USE DEF TypeInv, TypeOK, lockVars, tableVars, reqVars
<1>1. CASE HandleSessionRead(a)
  BY <1>1, ReaderGranted
<1>2. CASE Drop(a)
  <2>1. /\ UNCHANGED <<reader, pc, target>> /\ phase' = [phase EXCEPT ![a] = "dropped"] /\ phase[a] = "stopped"
        /\ aborted' = aborted \cup ({abort[a]} \ {None})
        /\ abort' = [abort EXCEPT ![a] = None]
    BY <1>2 DEF Drop, AbortReader
  <2>2. OneReader' /\ NoLeakedLock'
    BY <2>1 DEF ReaderInv, OneReader, NoLeakedLock
  <2>3. AbortCoversReader'
    BY <2>1 DEF ReaderInv, AbortCoversReader
  <2>. QED BY <2>2, <2>3 DEF ReaderInv
<1>3. CASE WriteOk(a) \/ WriteErr(a)
  <2>1. PICK b \in Reqs : busy[a] = b
    BY <1>3 DEF WriteOk, WriteErr
  <2>2. pc' = [pc EXCEPT ![b] = IF @ = "put_wait" THEN "put_ok" ELSE @] /\ UNCHANGED <<reader, abort, aborted, target>>
    BY <1>3, <2>1 DEF WriteOk, WriteErr, ReplyWritten
  <2>3. phase' = phase \/ (phase[a] = "running" /\ phase' = [phase EXCEPT ![a] = "stopped"])
    BY <1>3 DEF WriteOk, WriteErr, CtxStop, LoopEnds
  <2>. QED BY <2>2, <2>3, ReaderKept DEF Streaming
<1>4. ASSUME UNCHANGED <<reader, abort, aborted, pc, target>>,
             \A c \in Actors : phase[c] # phase'[c] => phase'[c] # "dropped" /\ phase[c] # "dropped"
      PROVE  ReaderInv'
  BY <1>4 DEF ReaderInv, OneReader, NoLeakedLock, AbortCoversReader
<1>5. OnStartOk(a) \/ OnStartErr(a) \/ Kill(a) => ReaderInv'
  BY <1>4 DEF OnStartOk, OnStartErr, Kill, MayKill, LoopEnds
<1>6. (\E t \in Timers : ActorTimeout(a, t)) \/ HandleSessionWrite(a) \/ HandleReset(a)
         \/ UpstreamSends(a) \/ UpstreamCloses(a) => ReaderInv'
  BY <1>4 DEF ActorTimeout, HandleSessionWrite, HandleReset, UpstreamSends, UpstreamCloses
<1>. QED BY ONLY ActorStep(a), <1>1, <1>2, <1>3, <1>5, <1>6 DEF ActorStep

\* The invariant of the read lock holds in every state.
LEMMA ReaderInvariant == Spec => []ReaderInv
<1>1. Init => ReaderInv
  BY DEF Init, ReaderInv, OneReader, NoLeakedLock, AbortCoversReader, Streaming
<1>2. TypeInv /\ MailInv /\ ReaderInv /\ [Next]_vars => ReaderInv'
  <2>1. TakeStats \/ UNCHANGED vars => UNCHANGED <<reader, abort, aborted, pc, target, phase>>
    BY DEF TakeStats, vars, tableVars, lockVars, reqVars
  <2>2. ReaderInv /\ UNCHANGED <<reader, abort, aborted, pc, target, phase>> => ReaderInv'
    BY DEF ReaderInv, OneReader, NoLeakedLock, AbortCoversReader
  <2>. QED BY <2>1, <2>2, ReaderRequest, ReaderActor DEF Next
<1>. QED BY <1>1, <1>2, TypeInvariant, MailInvariant, PTL DEF Spec

\* At most one response reads from an upstream connection at a time: a stream
\* that may still read holds the lock of the connection.
THEOREM OneReaderCorrect == Spec => []OneReader
<1>1. ReaderInv => OneReader
  BY DEF ReaderInv
<1>. QED BY <1>1, ReaderInvariant, PTL

\* The lock never outlives the response that holds it, however that response
\* ends and wherever its client goes away.
THEOREM LockCorrect == Spec => []NoLeakedLock
<1>1. ReaderInv => NoLeakedLock
  BY DEF ReaderInv
<1>. QED BY <1>1, ReaderInvariant, PTL

\* Whenever a Session is dropped, the abort handle it keeps is the one of the
\* stream that still reads: no long poll survives its session.
THEOREM ReaderCorrect == Spec => []AbortCoversReader
<1>1. ReaderInv => AbortCoversReader
  BY DEF ReaderInv
<1>. QED BY <1>1, ReaderInvariant, PTL

\* An abort handle belongs to a stream of its session, and is used only once
\* the session is dropped.
AbortOK ==
    /\ \A a \in Actors : abort[a] # None => target[abort[a]] = a /\ pc[abort[a]] # "new"
    /\ \A r \in aborted : pc[r] # "new" /\ target[r] \in Actors /\ phase[target[r]] = "dropped"

\* A step that leaves the abort handles alone.
AbortsUntouched ==
    /\ UNCHANGED <<abort, aborted>>
    /\ \A s \in Reqs : pc[s] # "new" => pc'[s] # "new" /\ target'[s] = target[s]
    /\ \A a \in Actors : phase[a] = "dropped" => phase'[a] = "dropped"

\* Such a step keeps the invariant.
LEMMA AbortKept ==
    ASSUME TypeInv, AbortOK, AbortsUntouched
    PROVE  AbortOK'
BY DEF TypeInv, TypeOK, AbortOK, AbortsUntouched

\* A step of a request leaves the abort handles alone.
LEMMA AbortRequest ==
    ASSUME TypeInv, NEW r \in Reqs, RequestStep(r)
    PROVE  AbortsUntouched
<1>1. ASSUME NEW q \in Offered,
             RejectRequest(r, q) \/ JoinSession(r, q) \/ (\E a \in Actors : CreateSession(r, q, a))
      PROVE  AbortsUntouched
  BY <1>1 DEF RejectRequest, JoinSession, CreateSession, NewSession, Arrive, Respond, Dispatch,
              TypeInv, TypeOK, tableVars, lockVars, reqVars, AbortsUntouched
<1>2. CASE Ask(r) \/ AskErr(r) \/ BodyFrame(r) \/ BodyErr(r) \/ BodyEnd(r) \/ CountTx(r)
  BY <1>2 DEF Ask, AskErr, BodyFrame, BodyErr, BodyEnd, CountTx, Respond,
              TypeInv, TypeOK, tableVars, lockVars, reqVars, AbortsUntouched
<1>3. CASE StreamRead(r) \/ StreamYield(r) \/ StreamEnd(r) \/ StreamAborted(r) \/ Disconnect(r)
  BY <1>3 DEF StreamRead, StreamYield, StreamEnd, StreamAborted, Disconnect,
              TypeInv, TypeOK, tableVars, lockVars, reqVars, AbortsUntouched
<1>. QED BY <1>1, <1>2, <1>3 DEF RequestStep

\* A step of an actor saves the handle of a stream it grants, and uses it when
\* the session is dropped.
LEMMA AbortActor ==
    ASSUME TypeInv, MailInv, AbortOK, NEW a \in Actors, ActorStep(a)
    PROVE  AbortOK'
<1>. USE DEF TypeInv, TypeOK, tableVars, lockVars, reqVars
<1>1. CASE HandleSessionRead(a)
  <2>. DEFINE r == Head(mailbox[a]).req
  <2>0. mailbox[a] \in Seq(Messages) /\ mailbox[a] # <<>> /\ Head(mailbox[a]).kind # "reset"
    BY <1>1 DEF HandleSessionRead, Takes
  <2>1. r \in Reqs /\ target[r] = a
    <3>1. 1 \in 1..Len(mailbox[a]) /\ mailbox[a][1] = Head(mailbox[a])
      BY ONLY <2>0
    <3>. QED BY ONLY MailInv, a \in Actors, <2>0, <3>1 DEF MailInv, MessageOK
  <2>2. abort' \in {abort, [abort EXCEPT ![a] = r]} /\ UNCHANGED <<aborted, target, phase>>
    BY <1>1 DEF HandleSessionRead, SaveAbortHandle
  <2>3. pc[r] # "new" /\ \A s \in Reqs : pc[s] # "new" => pc'[s] # "new"
    BY <1>1, SMTT(30) DEF HandleSessionRead, Respond
  <2>. HIDE DEF r
  <2>4. \A c \in Actors : abort'[c] = abort[c] \/ (c = a /\ abort'[c] = r)
    BY <2>2
  <2>5. \A c \in Actors : abort[c] # None => abort[c] \in Reqs
    OBVIOUS
  <2>. QED BY <2>1, <2>2, <2>3, <2>4, <2>5 DEF AbortOK
<1>2. CASE Drop(a)
  BY <1>2 DEF Drop, AbortReader, AbortOK
<1>3. CASE ~HandleSessionRead(a) /\ ~Drop(a)
  <2>1. AbortsUntouched
    BY <1>3, SMTT(30) DEF AbortsUntouched, ActorStep, OnStartOk, OnStartErr, ActorTimeout, Kill, LoopEnds, MayKill,
                HandleSessionWrite, HandleReset, WriteOk, WriteErr, CtxStop, ReplyWritten,
                UpstreamSends, UpstreamCloses
  <2>. QED BY <2>1, AbortKept
<1>. QED BY <1>1, <1>2, <1>3

\* A stream that was aborted belongs to a session that is dropped.
LEMMA AbortInvariant == Spec => []AbortOK
<1>1. Init => AbortOK
  BY DEF Init, AbortOK
<1>2. ASSUME TypeInv, MailInv, AbortOK, [Next]_vars PROVE AbortOK'
  <2>1. CASE TakeStats \/ UNCHANGED vars
    BY <1>2, <2>1 DEF TakeStats, vars, tableVars, lockVars, reqVars, AbortOK
  <2>. QED BY <1>2, <2>1, AbortRequest, AbortKept, AbortActor DEF Next
<1>. QED BY <1>1, <1>2, TypeInvariant, MailInvariant, PTL DEF Spec

-----------------------------------------------------------------------------
(* What upstream has of the bodies of write requests.                      *)

\* Of request r, a sequence of frames has those with numbers 1 to n only.
Has(frames, r, n) ==
    /\ \A m \in 1..n : \E j \in 1..Len(frames) : frames[j] = <<r, m>>
    /\ \A j \in 1..Len(frames) : frames[j][1] = r => frames[j][2] \in 1..n

\* Upstream has frames 1 to n of request r, and no other frame of it.
Upto(r, n) == Has(upstream[target[r]], r, n)

\* A handler that reads the body, or that asks, has all frames before the next
\* one upstream, unless the session has ended; so does a message of a handler
\* that is gone.  Between the reply and the next turn of the loop one frame
\* more is upstream.
Progress(r) ==
    /\ next[r] >= 1
    /\ IF pc[r] = "new" THEN target[r] = None /\ next[r] = 1 ELSE req[r] \in Requests
    /\ target[r] # None => phase[target[r]] # "unborn"
    /\ status[r] = "NO_CONTENT" => pc[r] = "done" /\ target[r] \in Actors /\ next[r] > req[r].frames
    /\ pc[r] \in Asking \cup {"body"} \/ status[r] = "NO_CONTENT" =>
           (IsAlive(target[r]) => Upto(r, next[r] - 1))
    /\ pc[r] = "put_ok" => (IsAlive(target[r]) => Upto(r, next[r]))
    /\ Held(r) => Upto(r, next[r] - 1)

WriteInv == FramesInOrder /\ \A r \in Reqs : Progress(r)

\* A step that adds no message of a request puts none under way.
LEMMA NoneHeld ==
    ASSUME NoneAdded, \A c \in Actors : busy'[c] \in {busy[c], None}, NEW s \in Reqs, Held(s)'
    PROVE  Held(s)
<1>1. PICK c \in Actors :
        \/ busy'[c] = s
        \/ \E k \in 1..Len(mailbox'[c]) : mailbox'[c][k].kind # "reset" /\ mailbox'[c][k].req = s
  BY DEF Held
<1>2. CASE busy'[c] = s
  <2>1. busy[c] = s
    BY <1>2
  <2>. QED BY <2>1 DEF Held
<1>3. ASSUME NEW k \in 1..Len(mailbox'[c]), mailbox'[c][k].kind # "reset", mailbox'[c][k].req = s
      PROVE  Held(s)
  <2>1. k \in 1..Len(mailbox[c]) /\ mailbox'[c][k] = mailbox[c][k]
    BY <1>3, Zenon DEF NoneAdded
  <2>2. mailbox[c][k].kind # "reset" /\ mailbox[c][k].req = s
    BY <1>3, <2>1
  <2>. QED BY <2>1, <2>2, Zenon DEF Held
<1>. QED BY <1>1, <1>2, <1>3, Zenon

\* Only the handler of a request puts a message of it under way.
LEMMA HeldStep ==
    ASSUME TypeInv, [Next]_vars, NEW s \in Reqs, Held(s)'
    PROVE  Held(s) \/ Ask(s)
<1>. USE DEF TypeInv, TypeOK
<1>1. ASSUME NEW r \in Reqs, Ask(r) PROVE Held(s) \/ r = s
  <2>. DEFINE a == target[r]
              e == [kind |-> IF pc[r] = "get_send" THEN "read" ELSE "write", req |-> r]
  <2>1. a \in Actors /\ mailbox' = [mailbox EXCEPT ![a] = Append(mailbox[a], e)] /\ busy' = busy /\ e.req = r
    BY <1>1 DEF Ask, Enqueue, TargetOK, Asking
  <2>. HIDE DEF a, e
  <2>2. ASSUME NEW c \in Actors, NEW k \in 1..Len(mailbox'[c])
        PROVE  mailbox'[c][k] = e \/ (k \in 1..Len(mailbox[c]) /\ mailbox'[c][k] = mailbox[c][k])
    <3>1. mailbox \in [Actors -> Seq(Messages)]
      OBVIOUS
    <3>2. CASE c = a
      BY ONLY <2>1, <2>2, <3>1, <3>2
    <3>3. CASE c # a
      BY ONLY <2>1, <2>2, <3>1, <3>3
    <3>. QED BY <3>2, <3>3
  <2>3. PICK c \in Actors :
          \/ busy'[c] = s
          \/ \E k \in 1..Len(mailbox'[c]) : mailbox'[c][k].kind # "reset" /\ mailbox'[c][k].req = s
    BY DEF Held
  <2>4. CASE busy'[c] = s
    BY <2>1, <2>4 DEF Held
  <2>5. ASSUME NEW k \in 1..Len(mailbox'[c]), mailbox'[c][k].kind # "reset", mailbox'[c][k].req = s, r # s
        PROVE  Held(s)
    <3>1. k \in 1..Len(mailbox[c]) /\ mailbox'[c][k] = mailbox[c][k]
      BY <2>1, <2>2, <2>5
    <3>2. mailbox[c][k].kind # "reset" /\ mailbox[c][k].req = s
      BY <2>5, <3>1
    <3>. QED BY <3>1, <3>2, Zenon DEF Held
  <2>. QED BY <2>3, <2>4, <2>5
<1>2. ASSUME NEW a \in Actors, mailbox[a] # <<>>, mailbox' = [mailbox EXCEPT ![a] = Tail(@)],
             \/ UNCHANGED busy
             \/ Head(mailbox[a]).kind # "reset" /\ busy' = [busy EXCEPT ![a] = Head(mailbox[a]).req]
      PROVE  Held(s)
  <2>1. /\ \A k \in 1..Len(mailbox'[a]) : k + 1 \in 1..Len(mailbox[a]) /\ mailbox'[a][k] = mailbox[a][k + 1]
        /\ \A c \in Actors \ {a} : mailbox'[c] = mailbox[c]
    <3>1. mailbox[a] \in Seq(Messages) /\ mailbox \in [Actors -> Seq(Messages)]
      OBVIOUS
    <3>. QED BY ONLY <3>1, <1>2
  <2>2. 1 \in 1..Len(mailbox[a]) /\ Head(mailbox[a]) = mailbox[a][1]
    BY <1>2
  <2>3. PICK c \in Actors :
          \/ busy'[c] = s
          \/ \E k \in 1..Len(mailbox'[c]) : mailbox'[c][k].kind # "reset" /\ mailbox'[c][k].req = s
    BY DEF Held
  <2>4. CASE busy'[c] = s
    BY <1>2, <2>2, <2>4, SMTT(30) DEF Held
  <2>5. ASSUME NEW k \in 1..Len(mailbox'[c]), mailbox'[c][k].kind # "reset", mailbox'[c][k].req = s
        PROVE  Held(s)
    <3>1. CASE c = a
      <4>1. k + 1 \in 1..Len(mailbox[a]) /\ mailbox[a][k + 1].kind # "reset" /\ mailbox[a][k + 1].req = s
        BY <2>1, <2>5, <3>1
      <4>. QED BY <4>1, Zenon DEF Held
    <3>2. CASE c # a
      BY <2>1, <2>5, <3>2 DEF Held
    <3>. QED BY <3>1, <3>2
  <2>. QED BY <2>3, <2>4, <2>5
<1>3. ASSUME NEW a \in Actors, HandleSessionRead(a) \/ HandleSessionWrite(a) \/ HandleReset(a) PROVE Held(s)
  BY <1>2, <1>3 DEF HandleSessionRead, HandleSessionWrite, HandleReset, Takes
<1>4. ASSUME NEW a \in Actors, OnStartErr(a) \/ Kill(a) \/ WriteErr(a) PROVE Held(s)
  <2>1. mailbox' = [mailbox EXCEPT ![a] = <<>>] /\ \A c \in Actors : busy'[c] \in {busy[c], None}
    BY <1>4 DEF OnStartErr, Kill, WriteErr, CtxStop, LoopEnds
  <2>2. NoneAdded
    BY <2>1, SMTT(30) DEF NoneAdded
  <2>. QED BY <2>1, <2>2, NoneHeld
<1>5. ASSUME NEW a \in Actors, WriteOk(a) PROVE Held(s)
  <2>1. NoneAdded /\ \A c \in Actors : busy'[c] \in {busy[c], None}
    BY <1>5, WriteAdds DEF WriteOk
  <2>. QED BY <2>1, NoneHeld
<1>6. ASSUME NEW r \in Reqs, StreamYield(r) PROVE Held(s)
  <2>1. BoxOK /\ target[r] \in Actors /\ busy' = busy
    BY <1>6 DEF BoxOK, StreamYield, TargetOK, Streaming
  <2>2. NoneAdded
    <3>1. CASE UNCHANGED mailbox
      BY <3>1 DEF NoneAdded
    <3>2. CASE Enqueue(target[r], "reset", None)
      BY <2>1, <3>2, ResetAdded
    <3>. QED BY <1>6, <3>1, <3>2 DEF StreamYield
  <2>. QED BY <2>1, <2>2, NoneHeld
<1>7. UNCHANGED boxVars => Held(s)
  BY DEF boxVars, Held
<1>8. ASSUME NEW r \in Reqs, RequestStep(r) PROVE Ask(r) \/ StreamYield(r) \/ UNCHANGED boxVars
  BY <1>8 DEF RequestStep, RejectRequest, JoinSession, CreateSession, AskErr, BodyFrame, BodyErr, BodyEnd, CountTx,
              StreamRead, StreamEnd, StreamAborted, Disconnect
<1>9. ASSUME NEW a \in Actors, ActorStep(a)
      PROVE  \/ HandleSessionRead(a) \/ HandleSessionWrite(a) \/ HandleReset(a)
             \/ OnStartErr(a) \/ Kill(a) \/ WriteErr(a) \/ WriteOk(a) \/ UNCHANGED boxVars
  BY <1>9 DEF ActorStep, OnStartOk, ActorTimeout, Drop, UpstreamSends, UpstreamCloses
<1>10. TakeStats \/ UNCHANGED vars => UNCHANGED boxVars
  BY DEF TakeStats, vars, boxVars
<1>. QED BY ONLY [Next]_vars, <1>1, <1>3, <1>4, <1>5, <1>6, <1>7, <1>8, <1>9, <1>10 DEF Next

\* Request s neither starts nor has a frame written or counted.
Quiet(s) ==
    /\ next'[s] = next[s] /\ target'[s] = target[s]
    /\ \/ pc'[s] = pc[s] /\ status'[s] = status[s] /\ req'[s] = req[s]
       \/ /\ pc'[s] \in {"done", "gone"} \cup Streaming /\ status'[s] # "NO_CONTENT"
          /\ (pc[s] # "new" /\ req'[s] = req[s]) \/ req'[s] \in Requests
       \/ pc[s] \in Asking \cup {"body"} /\ pc'[s] \in Asking \cup {"body"} /\ status'[s] = status[s] /\ req'[s] = req[s]

\* Request s finds a session or spawns one.
Starts(s) == \E q \in Offered : JoinSession(s, q) \/ \E a \in Actors : CreateSession(s, q, a)

\* What a step may do to a request.
LEMMA RequestMoves ==
    ASSUME TypeInv, [Next]_vars, NEW s \in Reqs, status[s] = "NO_CONTENT" => pc[s] = "done"
    PROVE  \/ Quiet(s) \/ Starts(s) \/ BodyEnd(s) \/ CountTx(s)
           \/ \E a \in Actors : busy[a] = s /\ (WriteOk(a) \/ WriteErr(a))
<1>. USE DEF TypeInv, TypeOK
<1>1. ASSUME NEW r \in Reqs, RequestStep(r), r # s PROVE Quiet(s)
  <2>1. UNCHANGED <<pc[s], status[s], req[s], next[s], target[s]>>
    BY <1>1 DEF RequestStep, RejectRequest, JoinSession, CreateSession, Arrive, Respond, Dispatch, Ask, AskErr,
                BodyFrame, BodyErr, BodyEnd, CountTx, StreamRead, StreamYield, StreamEnd, StreamAborted, Disconnect
  <2>. QED BY <2>1 DEF Quiet
<1>2. ASSUME RequestStep(s) PROVE Quiet(s) \/ Starts(s) \/ BodyEnd(s) \/ CountTx(s)
  <2>1. ASSUME NEW q \in Offered, RejectRequest(s, q) PROVE Quiet(s)
    BY <2>1 DEF RejectRequest, Arrive, Respond, Quiet
  <2>2. Ask(s) \/ BodyFrame(s) => Quiet(s)
    BY DEF Ask, BodyFrame, Quiet, Asking
  <2>3. AskErr(s) \/ BodyErr(s) => Quiet(s)
    BY DEF AskErr, BodyErr, Respond, Quiet, Asking
  <2>4. StreamRead(s) \/ StreamYield(s) \/ StreamEnd(s) \/ StreamAborted(s) \/ Disconnect(s) => Quiet(s)
    BY DEF StreamRead, StreamYield, StreamEnd, StreamAborted, Disconnect, Quiet, Streaming
  <2>. QED BY ONLY <1>2, <2>1, <2>2, <2>3, <2>4 DEF RequestStep, Starts
<1>3. ASSUME NEW a \in Actors, WriteOk(a) \/ WriteErr(a), busy[a] # s PROVE Quiet(s)
  BY <1>3 DEF WriteOk, WriteErr, ReplyWritten, Quiet
<1>4. ASSUME NEW a \in Actors, HandleSessionRead(a) PROVE Quiet(s)
  <2>. DEFINE r == Head(mailbox[a]).req
  <2>1. /\ UNCHANGED <<target, next, req>>
        /\ \/ UNCHANGED <<pc, status>>
           \/ /\ pc[r] = "get_wait" /\ pc' = [pc EXCEPT ![r] = "get_first"]
              /\ status' = [status EXCEPT ![r] = "OK"]
           \/ /\ pc[r] = "get_wait" /\ pc' = [pc EXCEPT ![r] = "done"]
              /\ status' = [status EXCEPT ![r] = "TOO_MANY_REQUESTS"]
    BY <1>4 DEF HandleSessionRead, Respond
  <2>. HIDE DEF r
  <2>. QED BY <2>1 DEF Quiet, Streaming
<1>5. UNCHANGED reqVars => Quiet(s)
  BY DEF reqVars, Quiet
<1>6. ASSUME NEW a \in Actors, ActorStep(a)
      PROVE  WriteOk(a) \/ WriteErr(a) \/ HandleSessionRead(a) \/ UNCHANGED reqVars
  BY <1>6 DEF ActorStep, OnStartOk, OnStartErr, ActorTimeout, Kill, Drop, HandleSessionWrite, HandleReset,
              UpstreamSends, UpstreamCloses
<1>7. TakeStats \/ UNCHANGED vars => UNCHANGED reqVars
  BY DEF TakeStats, vars
<1>. QED BY ONLY [Next]_vars, <1>1, <1>2, <1>3, <1>4, <1>5, <1>6, <1>7 DEF Next

\* Only a write changes what upstream has.
LEMMA UpstreamStep ==
    ASSUME [Next]_vars
    PROVE  UNCHANGED upstream \/ \E a \in Actors : WriteOk(a)
<1>1. ASSUME NEW r \in Reqs, RequestStep(r) PROVE UNCHANGED upstream
  BY <1>1 DEF RequestStep, RejectRequest, JoinSession, CreateSession, Ask, AskErr, BodyFrame, BodyErr, BodyEnd, CountTx,
              StreamRead, StreamYield, StreamEnd, StreamAborted, Disconnect, upVars
<1>2. ASSUME NEW a \in Actors, ActorStep(a) PROVE WriteOk(a) \/ UNCHANGED upstream
  BY <1>2 DEF ActorStep, OnStartOk, OnStartErr, ActorTimeout, Kill, Drop, HandleSessionRead, HandleSessionWrite, HandleReset,
              WriteErr, UpstreamSends, UpstreamCloses, upVars
<1>3. TakeStats \/ UNCHANGED vars => UNCHANGED upstream
  BY DEF TakeStats, vars, upVars
<1>. QED BY <1>1, <1>2, <1>3 DEF Next

\* No actor comes to life but by being spawned.
LEMMA AliveStep ==
    ASSUME TypeInv, [Next]_vars, NEW a \in Actors
    PROVE  (IsAlive(a)' => IsAlive(a) \/ phase[a] = "unborn") /\ (phase'[a] = "unborn" => phase[a] = "unborn")
<1>. USE DEF TypeInv, TypeOK, IsAlive
<1>1. ASSUME NEW r \in Reqs, NEW q \in Offered, NEW c \in Actors, CreateSession(r, q, c)
      PROVE  (IsAlive(a)' => IsAlive(a) \/ phase[a] = "unborn") /\ (phase'[a] = "unborn" => phase[a] = "unborn")
  BY <1>1 DEF CreateSession, NewSession
<1>2. ASSUME NEW c \in Actors, Moves(c)
      PROVE  (IsAlive(a)' => IsAlive(a) \/ phase[a] = "unborn") /\ (phase'[a] = "unborn" => phase[a] = "unborn")
  BY <1>2 DEF Moves
<1>3. ASSUME NEW c \in Actors, Drop(c)
      PROVE  (IsAlive(a)' => IsAlive(a) \/ phase[a] = "unborn") /\ (phase'[a] = "unborn" => phase[a] = "unborn")
  BY <1>3 DEF Drop
<1>. QED BY <1>1, <1>2, <1>3, TableStep DEF tableVars

\* A frame of another request does not matter.
LEMMA HasOther ==
    ASSUME NEW up \in Seq(Reqs \X Nat), NEW e \in Reqs \X Nat, NEW r, NEW n \in Nat, e[1] # r, Has(up, r, n)
    PROVE  Has(Append(up, e), r, n)
<1>. DEFINE upp == Append(up, e)
<1>1. /\ \A j \in 1..Len(up) : j \in 1..Len(upp) /\ upp[j] = up[j]
      /\ \A j \in 1..Len(upp) : upp[j] = e \/ (j \in 1..Len(up) /\ upp[j] = up[j])
  OBVIOUS
<1>. HIDE DEF upp
<1>2. \A m \in 1..n : \E j \in 1..Len(upp) : upp[j] = <<r, m>>
  BY <1>1 DEF Has
<1>3. \A j \in 1..Len(upp) : upp[j][1] = r => upp[j][2] \in 1..n
  BY <1>1 DEF Has
<1>. QED BY <1>2, <1>3 DEF Has, upp

\* The next frame of a request extends what there is of it, in order.
LEMMA HasNext ==
    ASSUME NEW up \in Seq(Reqs \X Nat), NEW r \in Reqs, NEW n \in Nat, n >= 1, Has(up, r, n - 1), InOrder(up)
    PROVE  Has(Append(up, <<r, n>>), r, n) /\ InOrder(Append(up, <<r, n>>))
<1>. DEFINE e == <<r, n>>
            upp == Append(up, e)
<1>1. /\ Len(upp) = Len(up) + 1 /\ Len(up) \in Nat /\ upp[Len(up) + 1] = e
      /\ \A j \in 1..Len(up) : j \in 1..Len(upp) /\ upp[j] = up[j]
  OBVIOUS
<1>2. e[1] = r /\ e[2] = n
  OBVIOUS
<1>3. /\ \A m \in 1..(n - 1) : \E j \in 1..Len(up) : up[j] = <<r, m>>
      /\ \A j \in 1..Len(up) : up[j][1] = r => up[j][2] \in 1..(n - 1)
  BY DEF Has
<1>4. \A j \in 1..Len(upp) : j = Len(up) + 1 \/ j \in 1..Len(up)
  BY <1>1
<1>5. \A m \in 1..n : m = n \/ m \in 1..(n - 1)
  OBVIOUS
<1>. HIDE DEF upp
<1>6. \A m \in 1..n : \E j \in 1..Len(upp) : upp[j] = <<r, m>>
  <2>. TAKE m \in 1..n
  <2>1. CASE m = n
    BY <1>1, <2>1
  <2>2. CASE m \in 1..(n - 1)
    BY <1>1, <1>3, <2>2
  <2>. QED BY <1>5, <2>1, <2>2
<1>. HIDE DEF e
<1>7. \A j \in 1..Len(upp) : upp[j][1] = r => upp[j][2] \in 1..n
  <2>. TAKE j \in 1..Len(upp)
  <2>1. CASE j = Len(up) + 1
    BY <1>1, <1>2, <2>1
  <2>2. CASE j \in 1..Len(up)
    <3>1. upp[j] = up[j] /\ (up[j][1] = r => up[j][2] \in 1..(n - 1))
      BY <1>1, <1>3, <2>2
    <3>. QED BY <3>1
  <2>. QED BY <1>4, <2>1, <2>2
<1>8. ASSUME NEW j \in 1..Len(upp)
      PROVE  /\ upp[j][2] >= 1
             /\ \A m \in 1..(upp[j][2] - 1) : \E i \in 1..(j - 1) : upp[i] = <<upp[j][1], m>>
             /\ \A i \in 1..(j - 1) : upp[i][1] = upp[j][1] => upp[i][2] < upp[j][2]
  <2>1. CASE j = Len(up) + 1
    <3>1. upp[j] = e /\ j - 1 = Len(up)
      BY <1>1, <2>1
    <3>2. \A m \in 1..(n - 1) : \E i \in 1..(j - 1) : upp[i] = <<r, m>>
      BY <1>1, <1>3, <3>1
    <3>3. ASSUME NEW i \in 1..(j - 1), upp[i][1] = r PROVE upp[i][2] < n
      <4>1. upp[i] = up[i] /\ up[i][2] \in 1..(n - 1)
        BY <1>1, <1>3, <3>1, <3>3
      <4>. QED BY <4>1
    <3>. QED BY <1>2, <3>1, <3>2, <3>3
  <2>2. CASE j \in 1..Len(up)
    <3>1. /\ up[j][2] >= 1
          /\ \A m \in 1..(up[j][2] - 1) : \E i \in 1..(j - 1) : up[i] = <<up[j][1], m>>
          /\ \A i \in 1..(j - 1) : up[i][1] = up[j][1] => up[i][2] < up[j][2]
      BY <2>2 DEF InOrder
    <3>2. upp[j] = up[j] /\ \A i \in 1..(j - 1) : upp[i] = up[i]
      BY <1>1, <2>2
    <3>. QED BY ONLY <3>1, <3>2
  <2>. QED BY <1>4, <2>1, <2>2
<1>. QED BY <1>6, <1>7, <1>8 DEF Has, InOrder, upp, e

\* A step that writes no frame of s leaves what upstream has of s.
LEMMA UptoStep ==
    ASSUME TypeInv, [Next]_vars, NEW s \in Reqs, NEW n \in Nat, Upto(s, n),
           target[s] \in Actors, target'[s] = target[s],
           \A a \in Actors : WriteOk(a) => busy[a] # s
    PROVE  Upto(s, n)'
<1>1. CASE UNCHANGED upstream
  BY <1>1 DEF Upto
<1>2. ASSUME NEW a \in Actors, WriteOk(a) PROVE Upto(s, n)'
  <2>. DEFINE up == upstream[target[s]]
              e  == <<busy[a], next[busy[a]]>>
  <2>1. upstream' = [upstream EXCEPT ![a] = Append(upstream[a], e)] /\ e[1] # s
    BY <1>2 DEF WriteOk
  <2>2. upstream \in [Actors -> Seq(Reqs \X Nat)] /\ up \in Seq(Reqs \X Nat)
    BY DEF TypeInv, TypeOK
  <2>. HIDE DEF e
  <2>3. CASE a # target[s]
    <3>1. upstream'[target[s]] = upstream[target[s]]
      BY <2>1, <2>2, <2>3
    <3>. QED BY <3>1 DEF Upto
  <2>4. CASE a = target[s]
    <3>1. upstream'[target[s]] = Append(up, e)
      BY <2>1, <2>2, <2>4
    <3>2. e \in Reqs \X Nat
      BY <1>2 DEF e, WriteOk, TypeInv, TypeOK
    <3>. QED BY <2>1, <2>2, <3>1, <3>2, HasOther DEF Upto
  <2>. QED BY <2>3, <2>4
<1>. QED BY <1>1, <1>2, UpstreamStep

\* The frame that is written is the next one, right after those upstream.
LEMMA FrameWritten ==
    ASSUME TypeInv, MailInv, WriteInv, NEW a \in Actors, NEW b \in Reqs, busy[a] = b, WriteOk(a),
           NEW n \in Nat, next[b] = n
    PROVE  FramesInOrder' /\ Upto(b, n)'
<1>1. target[b] = a /\ Upto(b, n - 1) /\ n >= 1
  <2>1. Held(b) /\ target[b] = a
    BY DEF Held, MailInv, BusyOK
  <2>. QED BY <2>1 DEF WriteInv, Progress
<1>2. /\ upstream' = [upstream EXCEPT ![a] = Append(upstream[a], <<b, n>>)]
      /\ UNCHANGED target
  BY DEF WriteOk
<1>3. upstream \in [Actors -> Seq(Reqs \X Nat)] /\ upstream[a] \in Seq(Reqs \X Nat)
  BY DEF TypeInv, TypeOK
<1>4. upstream'[a] = Append(upstream[a], <<b, n>>) /\ \A c \in Actors \ {a} : upstream'[c] = upstream[c]
  BY <1>2, <1>3
<1>5. Has(upstream[a], b, n - 1) /\ InOrder(upstream[a])
  BY <1>1 DEF Upto, WriteInv, FramesInOrder
<1>6. Has(upstream'[a], b, n) /\ InOrder(upstream'[a])
  <2>1. Has(Append(upstream[a], <<b, n>>), b, n) /\ InOrder(Append(upstream[a], <<b, n>>))
    BY <1>1, <1>3, <1>5, HasNext
  <2>. QED BY <1>4, <2>1
<1>7. \A f \in Elements(upstream'[a]) : f \in Elements(upstream[a]) \/ f[1] = b
  <2>. SUFFICES ASSUME NEW j \in 1..Len(upstream'[a])
                PROVE  upstream'[a][j] \in Elements(upstream[a]) \/ upstream'[a][j][1] = b
    BY <1>3, <1>4 DEF Elements
  <2>1. CASE j \in 1..Len(upstream[a])
    BY <1>3, <1>4, <2>1 DEF Elements
  <2>2. CASE j \notin 1..Len(upstream[a])
    BY <1>3, <1>4, <2>2
  <2>. QED BY <2>1, <2>2
<1>8. \A c \in Actors : \A f \in Elements(upstream'[c]) : target[f[1]] = c
  BY <1>1, <1>4, <1>7 DEF WriteInv, FramesInOrder
<1>9. \A c \in Actors : InOrder(upstream'[c])
  BY <1>4, <1>6 DEF WriteInv, FramesInOrder
<1>. QED BY <1>1, <1>2, <1>6, <1>8, <1>9 DEF FramesInOrder, Upto, Elements

\* Every step keeps the order of the frames.
LEMMA FramesStep ==
    ASSUME TypeInv, MailInv, WriteInv, [Next]_vars
    PROVE  FramesInOrder'
<1>1. ASSUME NEW a \in Actors, WriteOk(a) PROVE FramesInOrder'
  <2>1. busy[a] \in Reqs /\ next[busy[a]] \in Nat
    BY <1>1 DEF WriteOk, TypeInv, TypeOK
  <2>. QED BY <1>1, <2>1, FrameWritten
<1>2. CASE UNCHANGED upstream
  <2>1. ASSUME NEW s \in Reqs, target[s] \in Actors PROVE target'[s] = target[s]
    <3>1. pc[s] # "new" /\ (status[s] = "NO_CONTENT" => pc[s] = "done")
      BY <2>1 DEF WriteInv, Progress
    <3>2. ~Starts(s)
      BY <3>1 DEF Starts, JoinSession, CreateSession, Arrive
    <3>3. \/ Quiet(s) \/ BodyEnd(s) \/ CountTx(s)
          \/ \E a \in Actors : busy[a] = s /\ (WriteOk(a) \/ WriteErr(a))
      BY <3>1, <3>2, RequestMoves
    <3>. QED BY <3>3 DEF Quiet, BodyEnd, CountTx, WriteOk, WriteErr
  <2>2. ASSUME NEW a \in Actors, NEW f \in Elements(upstream[a])
        PROVE  f[1] \in Reqs /\ target[f[1]] = a
    <3>1. f \in Reqs \X Nat
      BY <2>2 DEF TypeInv, TypeOK, Elements
    <3>2. target[f[1]] = a
      BY <2>2 DEF WriteInv, FramesInOrder
    <3>. QED BY <3>1, <3>2
  <2>3. FramesInOrder
    BY DEF WriteInv
  <2>. QED BY ONLY <1>2, <2>1, <2>2, <2>3 DEF FramesInOrder, Elements
<1>. QED BY <1>1, <1>2, UpstreamStep

\* Every step keeps the progress of every request.
LEMMA ProgressStep ==
    ASSUME TypeInv, MailInv, WriteInv, [Next]_vars, NEW s \in Reqs
    PROVE  Progress(s)'
<1>. PICK n \in Nat : n = next[s]
  BY DEF TypeInv, TypeOK
<1>0. Progress(s) /\ n = next[s] /\ target[s] \in Actors \cup {None}
  BY DEF WriteInv, TypeInv, TypeOK
<1>1. Held(s)' => Held(s) \/ Ask(s)
  BY HeldStep
<1>2. Held(s) => pc[s] \in {"get_wait", "put_wait", "gone"} /\ target[s] \in Actors
  BY HeldAwaits
<1>3. \A a \in Actors : /\ IsAlive(a)' => IsAlive(a) \/ phase[a] = "unborn"
                        /\ phase'[a] = "unborn" => phase[a] = "unborn"
  BY AliveStep
<1>4. pc[s] \in Asking \cup {"body", "put_ok"} => target[s] \in Actors
  BY DEF TypeInv, TargetOK
<1>5. CASE Quiet(s) /\ \A a \in Actors : WriteOk(a) => busy[a] # s
  <2>1. next'[s] = n /\ target'[s] = target[s]
    BY <1>5 DEF Quiet
  <2>2. ASSUME NEW m \in Nat, target[s] \in Actors, Upto(s, m) PROVE Upto(s, m)'
    BY <1>5, <2>1, <2>2, UptoStep
  <2>3. target[s] \in Actors => phase'[target[s]] # "unborn" /\ (IsAlive(target[s])' => IsAlive(target[s]))
    <3>. SUFFICES ASSUME NEW a \in Actors, target[s] = a
                  PROVE  phase'[a] # "unborn" /\ (IsAlive(a)' => IsAlive(a))
      BY <2>1 DEF IsAlive
    <3>1. phase[a] # "unborn"
      BY <1>0 DEF Progress
    <3>. QED BY <1>3, <3>1
  <2>4. Held(s)' => target[s] \in Actors /\ Upto(s, n - 1)
    <3>1. Ask(s) => pc[s] \in Asking /\ IsAlive(target[s])
      BY DEF Ask, Asking
    <3>. QED BY <1>0, <1>1, <1>2, <1>4, <3>1 DEF Progress
  <2>5. n - 1 \in Nat /\ n \in Nat
    BY <1>0 DEF Progress
  <2>6. CASE pc'[s] = pc[s] /\ status'[s] = status[s] /\ req'[s] = req[s]
    BY <1>0, <1>4, <2>1, <2>2, <2>3, <2>4, <2>5, <2>6 DEF Progress, IsAlive
  <2>7. CASE /\ pc'[s] \in {"done", "gone"} \cup Streaming /\ status'[s] # "NO_CONTENT"
             /\ (pc[s] # "new" /\ req'[s] = req[s]) \/ req'[s] \in Requests
    BY <1>0, <2>1, <2>2, <2>3, <2>4, <2>5, <2>7 DEF Progress, Streaming, Asking
  <2>8. CASE pc[s] \in Asking \cup {"body"} /\ pc'[s] \in Asking \cup {"body"} /\ status'[s] = status[s] /\ req'[s] = req[s]
    BY <1>0, <1>4, <2>1, <2>2, <2>3, <2>4, <2>5, <2>8 DEF Progress, IsAlive, Asking
  <2>. QED BY <1>5, <2>6, <2>7, <2>8 DEF Quiet
<1>6. CASE Starts(s)
  <2>1. PICK a \in Actors : /\ pc[s] = "new" /\ pc'[s] \in {"get_send", "body"} /\ target'[s] = a
                            /\ phase'[a] # "unborn" /\ UNCHANGED <<next, status, upstream>>
                            /\ req'[s] \in Requests
    <3>1. ASSUME NEW q \in Offered, JoinSession(s, q)
          PROVE  /\ sessions[q.id] \in Actors /\ pc[s] = "new" /\ pc'[s] \in {"get_send", "body"}
                 /\ target'[s] = sessions[q.id]
                 /\ phase'[sessions[q.id]] # "unborn" /\ UNCHANGED <<next, status, upstream>>
                 /\ req'[s] \in Requests
      BY <3>1 DEF JoinSession, Arrive, Dispatch, WellFormed, LiveEntry, IsAlive, Requests, TypeInv, TypeOK, tableVars, upVars
    <3>2. ASSUME NEW q \in Offered, NEW a \in Actors, CreateSession(s, q, a)
          PROVE  /\ pc[s] = "new" /\ pc'[s] \in {"get_send", "body"} /\ target'[s] = a
                 /\ phase'[a] # "unborn" /\ UNCHANGED <<next, status, upstream>>
                 /\ req'[s] \in Requests
      BY <3>2 DEF CreateSession, NewSession, Arrive, Dispatch, TypeInv, TypeOK, upVars
    <3>. QED BY <1>6, <3>1, <3>2 DEF Starts
  <2>2. n = 1 /\ target[s] = None /\ status[s] # "NO_CONTENT" /\ ~Held(s)'
    BY <1>0, <1>1, <1>2, <2>1 DEF Progress, Ask
  <2>3. Upto(s, 0)'
    <3>1. ASSUME NEW j \in 1..Len(upstream[a]) PROVE upstream[a][j][1] # s
      <4>1. upstream[a][j] \in Elements(upstream[a])
        BY <3>1, SMTT(30) DEF Elements, TypeInv, TypeOK
      <4>. QED BY <2>2, <4>1 DEF WriteInv, FramesInOrder
    <3>. QED BY <2>1, <3>1 DEF Upto, Has
  <2>. QED BY <2>1, <2>2, <2>3 DEF Progress, Asking
<1>7. CASE BodyEnd(s)
  <2>1. /\ pc[s] = "body" /\ pc'[s] = "done" /\ n > req[s].frames
        /\ UNCHANGED <<next, target, req, phase, upstream, boxVars>>
    BY <1>7 DEF BodyEnd, Respond, TypeInv, TypeOK, tableVars, upVars
  <2>2. Upto(s, n - 1)' = Upto(s, n - 1) /\ Held(s)' = Held(s) /\ IsAlive(target[s])' = IsAlive(target[s])
    BY <2>1 DEF Upto, Held, IsAlive, boxVars
  <2>. QED BY <1>0, <1>4, <2>1, <2>2 DEF Progress, Asking
<1>8. CASE CountTx(s)
  <2>1. /\ pc[s] = "put_ok" /\ pc'[s] = "body" /\ next'[s] = n + 1
        /\ UNCHANGED <<target, status, req, phase, upstream, boxVars>>
    BY <1>8 DEF CountTx, TypeInv, TypeOK, tableVars, upVars
  <2>2. Upto(s, n)' = Upto(s, n) /\ ~Held(s)' /\ IsAlive(target[s])' = IsAlive(target[s])
    BY <1>1, <1>2, <1>8, <2>1 DEF Upto, Ask, CountTx, IsAlive
  <2>3. n + 1 - 1 = n /\ n + 1 >= 1
    BY <1>0
  <2>. QED BY <1>0, <1>4, <2>1, <2>2, <2>3 DEF Progress, Asking
<1>9. ASSUME NEW a \in Actors, busy[a] = s, WriteOk(a) \/ WriteErr(a) PROVE Progress(s)'
  <2>1. /\ pc[s] \in {"put_wait", "gone"} /\ pc'[s] \in {"put_ok", "gone"} /\ target[s] = a
        /\ phase[a] = "running" /\ UNCHANGED <<next, target, req, status>>
    BY <1>9 DEF WriteOk, WriteErr, ReplyWritten, TypeInv, TypeOK, MailInv, BusyOK
  <2>2. Held(s) /\ Upto(s, n - 1) /\ status[s] # "NO_CONTENT"
    BY <1>0, <1>9, <2>1 DEF Held, Progress
  <2>3. CASE WriteOk(a)
    <3>1. Upto(s, n)' /\ ~Held(s)' /\ phase' = phase
      BY <1>9, <2>3, FrameWritten, WriteReleases DEF WriteOk, tableVars
    <3>. QED BY <1>0, <2>1, <2>2, <3>1 DEF Progress, Asking
  <2>4. CASE WriteErr(a)
    <3>1. phase'[a] = "stopped" /\ UNCHANGED upstream
      BY <2>4 DEF WriteErr, CtxStop, LoopEnds, TypeInv, TypeOK, upVars
    <3>2. Upto(s, n - 1)'
      BY <2>1, <2>2, <3>1 DEF Upto
    <3>. QED BY <1>0, <2>1, <2>2, <3>1, <3>2 DEF Progress, Asking, IsAlive
  <2>. QED BY <1>9, <2>3, <2>4
<1>10. status[s] = "NO_CONTENT" => pc[s] = "done"
  BY <1>0 DEF Progress
<1>. QED BY <1>5, <1>6, <1>7, <1>8, <1>9, <1>10, RequestMoves

\* The invariant of the writes holds in every state.
LEMMA WriteInvariant == Spec => []WriteInv
<1>1. Init => WriteInv
  <2>1. Init => FramesInOrder
    BY DEF Init, FramesInOrder, InOrder, Elements
  <2>2. ASSUME Init, NEW r \in Reqs PROVE Progress(r)
    <3>1. ~Held(r)
      BY <2>2 DEF Init, Held
    <3>2. next[r] = 1 /\ pc[r] = "new" /\ target[r] = None /\ status[r] = None
      BY <2>2 DEF Init
    <3>. QED BY <3>1, <3>2 DEF Progress, Asking
  <2>. QED BY <2>1, <2>2 DEF WriteInv
<1>2. TypeInv /\ MailInv /\ WriteInv /\ [Next]_vars => WriteInv'
  BY FramesStep, ProgressStep DEF WriteInv
<1>. QED BY <1>1, <1>2, TypeInvariant, MailInvariant, PTL DEF Spec

\* Upstream receives the frames of each request in order, none twice and none
\* missing before another, on the connection of the session it found, however
\* requests interleave and wherever a client goes away.
THEOREM FramesCorrect == Spec => []FramesInOrder
<1>1. WriteInv => FramesInOrder
  BY DEF WriteInv
<1>. QED BY <1>1, WriteInvariant, PTL

\* A request that was answered NO_CONTENT has all its frames upstream, unless
\* the session has stopped.
THEOREM AckedCorrect == Spec => []AckedOrStopped
<1>1. TypeInv /\ WriteInv => AckedOrStopped
  <2>. SUFFICES ASSUME TypeInv, WriteInv, NEW r \in Reqs, status[r] = "NO_CONTENT", IsAlive(target[r]),
                       NEW f \in Frames(r)
                PROVE  f \in Elements(upstream[target[r]])
    BY DEF AckedOrStopped
  <2>1. Upto(r, next[r] - 1) /\ next[r] > req[r].frames /\ next[r] \in Nat
    BY DEF WriteInv, Progress, TypeInv, TypeOK
  <2>2. PICK m \in 1..req[r].frames : f = <<r, m>>
    BY DEF Frames
  <2>3. m \in 1..(next[r] - 1)
    <3>1. req[r].frames \in Nat
      BY DEF WriteInv, Progress, Requests
    <3>. QED BY <2>1, <2>2, <3>1
  <2>4. upstream[target[r]] \in Seq(Reqs \X Nat)
    BY DEF WriteInv, Progress, TypeInv, TypeOK
  <2>5. PICK j \in 1..Len(upstream[target[r]]) : upstream[target[r]][j] = f
    BY <2>1, <2>2, <2>3 DEF Upto, Has
  <2>. QED BY <2>4, <2>5 DEF Elements
<1>. QED BY <1>1, TypeInvariant, WriteInvariant, PTL
-----------------------------------------------------------------------------
(* What responses have of the units that upstream sends.                   *)

\* No unit is in two responses or in one before it is read, and none is in no
\* response as long as no response of the session was cut off.
UnitInv ==
    /\ \A s \in Reqs : pc[s] = "new" => target[s] = None /\ body[s] = <<>>
    /\ \A a \in Actors, u \in Nat, r \in Reqs :
          Carries(r, a, u) => u \in 1..taken[a] /\ \A s \in Reqs : Carries(s, a, u) => s = r
    /\ \A a \in Actors : (\A s \in Reqs : target[s] = a => ~Cut(s)) =>
           \A u \in 1..taken[a] : \E r \in Reqs : Carries(r, a, u)

\* No response takes up a unit; one that drops a unit is cut off.
NoUnit ==
    /\ UNCHANGED <<taken, body>>
    /\ \A s \in Reqs : /\ target'[s] = target[s] \/ (pc[s] = "new" /\ pc'[s] # "get_tell")
                       /\ pc'[s] = "get_tell" => pc[s] = "get_tell"
                       /\ pc[s] = "get_tell" => pc'[s] = "get_tell" \/ Cut(s)'
                       /\ pc'[s] = "new" => pc[s] = "new" /\ target'[s] = target[s]
                       /\ Cut(s) => Cut(s)'

\* Only the reads and yields of the streams move units.
LEMMA UnitStep ==
    ASSUME TypeInv, MailInv, [Next]_vars
    PROVE  NoUnit \/ \E r \in Reqs : StreamRead(r) \/ StreamYield(r)
<1>. USE DEF TypeInv, TypeOK, Cut
<1>1. ASSUME NEW r \in Reqs, RequestStep(r), ~StreamRead(r), ~StreamYield(r) PROVE NoUnit
  <2>1. /\ UNCHANGED <<taken, body, aborted>>
        /\ \A s \in Reqs \ {r} : target'[s] = target[s] /\ pc'[s] = pc[s]
    BY <1>1 DEF RequestStep, RejectRequest, JoinSession, CreateSession, Arrive, Respond, Dispatch, Ask, AskErr,
                BodyFrame, BodyErr, BodyEnd, CountTx, StreamEnd, StreamAborted, Disconnect, upVars, lockVars
  <2>2. pc'[r] \notin {"new", "get_tell"} /\ pc[r] # "gone" /\ (pc[r] = "get_tell" => pc'[r] = "gone" \/ r \in aborted)
    <3>1. ASSUME NEW q \in Offered, RejectRequest(r, q) \/ JoinSession(r, q) \/ \E a \in Actors : CreateSession(r, q, a)
          PROVE  pc[r] = "new" /\ pc'[r] \in {"done", "get_send", "body"}
      BY <3>1 DEF RejectRequest, JoinSession, CreateSession, Arrive, Respond, Dispatch
    <3>2. Ask(r) \/ AskErr(r) => pc[r] \in Asking /\ pc'[r] \in {"get_wait", "put_wait", "done"}
      BY DEF Ask, AskErr, Respond, Asking
    <3>3. BodyFrame(r) \/ BodyErr(r) \/ BodyEnd(r) \/ CountTx(r) =>
              pc[r] \in {"body", "put_ok"} /\ pc'[r] \in {"put_send", "done", "body"}
      BY DEF BodyFrame, BodyErr, BodyEnd, CountTx, Respond
    <3>4. StreamEnd(r) \/ StreamAborted(r) =>
              pc'[r] = "done" /\ pc[r] # "gone" /\ (pc[r] = "get_tell" => r \in aborted)
      BY DEF StreamEnd, StreamAborted, Streaming
    <3>5. Disconnect(r) => pc'[r] = "gone" /\ pc[r] # "gone"
      BY DEF Disconnect
    <3>. QED BY ONLY <1>1, <3>1, <3>2, <3>3, <3>4, <3>5 DEF RequestStep, Asking
  <2>3. target'[r] = target[r] \/ pc[r] = "new"
    BY <1>1 DEF RequestStep, RejectRequest, JoinSession, CreateSession, Arrive, Ask, AskErr,
                BodyFrame, BodyErr, BodyEnd, CountTx, StreamEnd, StreamAborted, Disconnect
  <2>. QED BY <2>1, <2>2, <2>3 DEF NoUnit
<1>2. ASSUME NEW a \in Actors, HandleSessionRead(a) PROVE NoUnit
  <2>. DEFINE r == Head(mailbox[a]).req
  <2>1. /\ UNCHANGED <<target, taken, body, aborted>>
        /\ \/ UNCHANGED pc
           \/ pc[r] = "get_wait" /\ \E l \in {"get_first", "done"} : pc' = [pc EXCEPT ![r] = l]
    BY <1>2 DEF HandleSessionRead, Respond, upVars
  <2>. HIDE DEF r
  <2>. QED BY <2>1 DEF NoUnit
<1>3. ASSUME NEW a \in Actors, WriteOk(a) \/ WriteErr(a) PROVE NoUnit
  BY <1>3 DEF WriteOk, WriteErr, ReplyWritten, NoUnit, upVars, lockVars
<1>4. ASSUME NEW a \in Actors, Drop(a) PROVE NoUnit
  BY <1>4 DEF Drop, AbortReader, NoUnit, upVars, reqVars
<1>5. UNCHANGED <<taken, aborted, reqVars>> => NoUnit
  BY DEF NoUnit, reqVars
<1>6. ASSUME NEW a \in Actors, ActorStep(a)
      PROVE  HandleSessionRead(a) \/ WriteOk(a) \/ WriteErr(a) \/ Drop(a) \/ UNCHANGED <<taken, aborted, reqVars>>
  BY <1>6 DEF ActorStep, OnStartOk, OnStartErr, ActorTimeout, Kill, HandleSessionWrite, HandleReset,
              UpstreamSends, UpstreamCloses, upVars, lockVars
<1>7. TakeStats \/ UNCHANGED vars => UNCHANGED <<taken, aborted, reqVars>>
  BY DEF TakeStats, vars, upVars, lockVars
<1>. QED BY ONLY [Next]_vars, <1>1, <1>2, <1>3, <1>4, <1>5, <1>6, <1>7 DEF Next

\* Appending to a sequence adds one element.
LEMMA ElementsAppend ==
    ASSUME NEW S, NEW s \in Seq(S), NEW e \in S
    PROVE  Elements(Append(s, e)) = Elements(s) \cup {e}
<1>. DEFINE t == Append(s, e)
<1>1. /\ Len(s) \in Nat /\ DOMAIN s = 1..Len(s) /\ DOMAIN t = 1..(Len(s) + 1)
      /\ t[Len(s) + 1] = e /\ \A k \in 1..Len(s) : t[k] = s[k]
  OBVIOUS
<1>. HIDE DEF t
<1>2. \A k \in DOMAIN t : t[k] = e \/ (k \in DOMAIN s /\ t[k] = s[k])
  BY <1>1
<1>3. \A k \in DOMAIN s : k \in DOMAIN t /\ t[k] = s[k]
  BY <1>1
<1>4. Len(s) + 1 \in DOMAIN t
  BY <1>1
<1>5. Elements(t) \subseteq Elements(s) \cup {e}
  BY <1>2 DEF Elements
<1>6. Elements(s) \cup {e} \subseteq Elements(t)
  BY <1>1, <1>3, <1>4 DEF Elements
<1>. QED BY <1>5, <1>6 DEF t

\* A step that moves no unit keeps UnitInv.
LEMMA UnitKept ==
    ASSUME TypeInv, UnitInv, NoUnit
    PROVE  UnitInv'
<1>1. ASSUME NEW a \in Actors, NEW u \in Nat, NEW r \in Reqs, Carries(r, a, u)'
      PROVE  Carries(r, a, u)
  <2>1. CASE target'[r] = target[r]
    BY <1>1, <2>1 DEF Carries, NoUnit, Elements
  <2>2. CASE target'[r] # target[r]
    <3>1. pc[r] = "new" /\ pc'[r] # "get_tell" /\ body'[r] = <<>>
      BY <2>2 DEF NoUnit, UnitInv
    <3>. QED BY <1>1, <3>1 DEF Carries, Elements
  <2>. QED BY <2>1, <2>2
<1>2. ASSUME NEW a \in Actors, NEW u \in Nat, NEW r \in Reqs, Carries(r, a, u), target'[r] = a => ~Cut(r)'
      PROVE  Carries(r, a, u)'
  <2>1. target'[r] = target[r]
    BY <1>2 DEF Carries, NoUnit, UnitInv
  <2>. QED BY <1>2, <2>1 DEF Carries, NoUnit, Elements
<1>3. \A s \in Reqs : (pc[s] = "new" => target[s] = None /\ body[s] = <<>>)'
  BY DEF NoUnit, UnitInv
<1>4. \A a \in Actors, u \in Nat, r \in Reqs :
          (Carries(r, a, u) => u \in 1..taken[a] /\ \A s \in Reqs : Carries(s, a, u) => s = r)'
  BY <1>1 DEF NoUnit, UnitInv
<1>5. ASSUME NEW a \in Actors, \A s \in Reqs : target'[s] = a => ~Cut(s)', NEW u \in 1..taken'[a]
      PROVE  \E r \in Reqs : Carries(r, a, u)'
  <2>1. \A s \in Reqs : target[s] = a => ~Cut(s)
    BY <1>5 DEF NoUnit, UnitInv
  <2>2. u \in 1..taken[a] /\ u \in Nat
    BY <1>5 DEF NoUnit
  <2>3. PICK r \in Reqs : Carries(r, a, u)
    BY <2>1, <2>2 DEF UnitInv
  <2>. QED BY <1>2, <1>5, <2>2, <2>3
<1>. QED BY <1>3, <1>4, <1>5 DEF UnitInv

\* The stream that reads takes up the unit that comes next.
LEMMA UnitRead ==
    ASSUME TypeInv, ReaderInv, UnitInv, NEW r \in Reqs, StreamRead(r)
    PROVE  UnitInv'
<1>. PICK a \in Actors : a = target[r]
  BY DEF StreamRead, TypeInv, TargetOK, Streaming
<1>. PICK n \in Nat : n = taken[a]
  BY DEF TypeInv, TypeOK
<1>1. /\ pc[r] \in {"get_first", "get_more"} /\ pc' = [pc EXCEPT ![r] = "get_tell"]
      /\ taken' = [taken EXCEPT ![a] = n + 1]
      /\ UNCHANGED <<target, body, aborted>>
  BY DEF StreamRead, lockVars
<1>2. /\ pc'[r] = "get_tell" /\ \A s \in Reqs \ {r} : pc'[s] = pc[s]
      /\ taken'[a] = n + 1 /\ \A c \in Actors \ {a} : taken'[c] = taken[c]
  BY <1>1 DEF TypeInv, TypeOK
<1>3. \A s \in Reqs : target[s] = a /\ pc[s] = "get_tell" => FALSE
  BY <1>1 DEF ReaderInv, OneReader, Streaming
<1>4. ASSUME NEW s \in Reqs, NEW c \in Actors, NEW u \in Nat
      PROVE  Carries(s, c, u)' <=> Carries(s, c, u) \/ (s = r /\ c = a /\ u = n + 1)
  <2>1. CASE s = r
    BY <1>1, <1>2, <2>1 DEF Carries, Elements
  <2>2. CASE s # r
    BY <1>1, <1>2, <1>3, <2>2 DEF Carries, Elements
  <2>. QED BY <2>1, <2>2
<1>5. \A s \in Reqs : Cut(s)' = Cut(s) /\ (pc'[s] = "new" => pc[s] = "new")
  BY <1>1, <1>2 DEF Cut
<1>6. \A s \in Reqs : ~Carries(s, a, n + 1)
  <2>1. n + 1 \in Nat /\ n + 1 \notin 1..taken[a]
    OBVIOUS
  <2>. QED BY <2>1 DEF UnitInv
<1>7. \A s \in Reqs : (pc[s] = "new" => target[s] = None /\ body[s] = <<>>)'
  BY <1>1, <1>5 DEF UnitInv
<1>8. \A c \in Actors, u \in Nat, s \in Reqs :
          Carries(s, c, u)' => u \in 1..taken'[c] /\ \A t \in Reqs : Carries(t, c, u)' => t = s
  <2>. TAKE c \in Actors, u \in Nat, s \in Reqs
  <2>. HAVE Carries(s, c, u)'
  <2>1. CASE c = a /\ u = n + 1
    BY <1>2, <1>4, <1>6, <2>1
  <2>2. CASE ~(c = a /\ u = n + 1)
    <3>1. u \in 1..taken[c] /\ \A t \in Reqs : Carries(t, c, u) => t = s
      BY <1>4, <2>2 DEF UnitInv
    <3>2. u \in 1..taken'[c]
      BY <1>2, <3>1
    <3>. QED BY <1>4, <2>2, <3>1, <3>2
  <2>. QED BY <2>1, <2>2
<1>9. ASSUME NEW c \in Actors, \A s \in Reqs : target'[s] = c => ~Cut(s)', NEW u \in 1..taken'[c]
      PROVE  \E s \in Reqs : Carries(s, c, u)'
  <2>0. u \in Nat
    BY <1>2, <1>9 DEF TypeInv, TypeOK
  <2>1. CASE c = a /\ u = n + 1
    BY <1>4, <2>0, <2>1
  <2>2. CASE ~(c = a /\ u = n + 1)
    <3>1. u \in 1..taken[c]
      BY <1>2, <1>9, <2>2
    <3>2. \A s \in Reqs : target[s] = c => ~Cut(s)
      BY <1>1, <1>5, <1>9
    <3>3. PICK s \in Reqs : Carries(s, c, u)
      BY <3>1, <3>2 DEF UnitInv
    <3>. QED BY <1>4, <2>0, <3>3
  <2>. QED BY <2>1, <2>2
<1>. QED BY <1>7, <1>8, <1>9 DEF UnitInv

\* The stream that yields has the unit it has read in its body.
LEMMA UnitYield ==
    ASSUME TypeInv, UnitInv, NEW r \in Reqs, StreamYield(r)
    PROVE  UnitInv'
<1>. PICK a \in Actors : a = target[r]
  BY DEF StreamYield, TypeInv, TargetOK, Streaming
<1>1. /\ pc[r] = "get_tell" /\ pc' = [pc EXCEPT ![r] = "get_more"]
      /\ body' = [body EXCEPT ![r] = Append(body[r], taken[a])]
      /\ UNCHANGED <<target, taken, aborted>>
  BY DEF StreamYield, YieldFrame, lockVars, upVars
<1>2. /\ pc'[r] = "get_more" /\ \A s \in Reqs \ {r} : pc'[s] = pc[s] /\ body'[s] = body[s]
      /\ body'[r] = Append(body[r], taken[a])
  BY <1>1 DEF TypeInv, TypeOK
<1>3. Elements(body'[r]) = Elements(body[r]) \cup {taken[a]}
  <2>1. body[r] \in Seq(Nat) /\ taken[a] \in Nat
    BY DEF TypeInv, TypeOK
  <2>. QED BY <1>2, <2>1, ElementsAppend
<1>4. ASSUME NEW s \in Reqs, NEW c \in Actors, NEW u \in Nat
      PROVE  Carries(s, c, u)' <=> Carries(s, c, u)
  <2>1. CASE s = r
    BY <1>1, <1>2, <1>3, <2>1 DEF Carries, Elements
  <2>2. CASE s # r
    BY <1>1, <1>2, <2>2 DEF Carries, Elements
  <2>. QED BY <2>1, <2>2
<1>5. \A s \in Reqs : Cut(s)' = Cut(s)
  BY <1>1, <1>2 DEF Cut
<1>6. \A s \in Reqs : (pc[s] = "new" => target[s] = None /\ body[s] = <<>>)'
  BY <1>1, <1>2 DEF UnitInv
<1>7. \A c \in Actors : \A u \in 1..taken[c] : u \in Nat
  BY DEF TypeInv, TypeOK
<1>. QED BY <1>1, <1>4, <1>5, <1>6, <1>7 DEF UnitInv

\* The invariant of the units holds in every state.
LEMMA UnitInvariant == Spec => []UnitInv
<1>1. Init => UnitInv
  BY DEF Init, UnitInv, Carries, Elements
<1>2. TypeInv /\ MailInv /\ ReaderInv /\ UnitInv /\ [Next]_vars => UnitInv'
  BY UnitStep, UnitKept, UnitRead, UnitYield
<1>. QED BY <1>1, <1>2, TypeInvariant, MailInvariant, ReaderInvariant, PTL DEF Spec

\* Every unit read from upstream is in exactly one response, as long as no
\* response was cut off by its client or by the end of the session: neither
\* the hand-over of the connection from one GET to the next nor a full mailbox
\* loses or repeats one.
THEOREM UnitsCorrect == Spec => []NoUnitLost
<1>1. TypeInv /\ UnitInv => NoUnitLost
  <2>. SUFFICES ASSUME TypeInv, UnitInv, NEW a \in Actors, \A r \in Reqs : target[r] = a => ~Cut(r),
                       NEW u \in 1..taken[a]
                PROVE  Cardinality({r \in Reqs : Carries(r, a, u)}) = 1
    BY DEF NoUnitLost
  <2>1. u \in Nat
    BY DEF TypeInv, TypeOK
  <2>2. PICK r \in Reqs : Carries(r, a, u)
    BY DEF UnitInv
  <2>3. {s \in Reqs : Carries(s, a, u)} = {r}
    BY <2>1, <2>2 DEF UnitInv
  <2>. QED BY <2>3, FS_Singleton
<1>. QED BY <1>1, TypeInvariant, UnitInvariant, PTL

-----------------------------------------------------------------------------
(* The statistics.                                                         *)

\* How many frames of each request were counted.
Past == [r \in Reqs |-> next[r] - 1]

\* The counts add up, and they are counts of finite sets.
StatsInv ==
    /\ IsFiniteSet(Counted(Past)) /\ IsFiniteSet(Counted(taken))
    /\ \A r \in Reqs : next[r] > 0
    /\ StatsConserved

\* What is counted of x.
LEMMA CountedIn ==
    ASSUME NEW S, NEW f \in [S -> Nat], NEW p
    PROVE  p \in Counted(f) <=> \E x \in S : \E n \in 1..f[x] : p = <<x, n>>
BY DEF Counted

\* One more of x is one more in all.
LEMMA CountedBump ==
    ASSUME NEW S, NEW f \in [S -> Nat], NEW g \in [S -> Nat], NEW x \in S,
           g[x] = f[x] + 1, \A y \in S \ {x} : g[y] = f[y],
           IsFiniteSet(Counted(f))
    PROVE  IsFiniteSet(Counted(g)) /\ Cardinality(Counted(g)) = Cardinality(Counted(f)) + 1
<1>. DEFINE e == <<x, f[x] + 1>>
<1>1. e \notin Counted(f)
  BY CountedIn
<1>2. ASSUME NEW p PROVE p \in Counted(g) <=> p \in Counted(f) \cup {e}
  <2>1. ASSUME p \in Counted(g) PROVE p \in Counted(f) \cup {e}
    <3>1. PICK y \in S : \E n \in 1..g[y] : p = <<y, n>>
      BY <2>1, CountedIn
    <3>2. PICK n \in 1..g[y] : p = <<y, n>>
      BY <3>1
    <3>3. n \in 1..f[y] \/ (y = x /\ n = f[x] + 1)
      BY <3>2
    <3>. QED BY <3>2, <3>3, CountedIn
  <2>2. ASSUME p \in Counted(f) PROVE p \in Counted(g)
    <3>1. PICK y \in S : \E n \in 1..f[y] : p = <<y, n>>
      BY <2>2, CountedIn
    <3>2. PICK n \in 1..f[y] : p = <<y, n>>
      BY <3>1
    <3>3. n \in 1..g[y]
      BY <3>2
    <3>. QED BY <3>2, <3>3, CountedIn
  <2>3. e \in Counted(g)
    <3>1. f[x] + 1 \in 1..g[x]
      OBVIOUS
    <3>. QED BY <3>1, CountedIn
  <2>. QED BY <2>1, <2>2, <2>3
<1>. HIDE DEF e
<1>3. Counted(g) = Counted(f) \cup {e}
  BY <1>2
<1>. QED BY <1>1, <1>3, FS_AddElement

\* Nothing is counted at first.
LEMMA StatsInit == Init => StatsInv
<1>. SUFFICES ASSUME Init PROVE StatsInv
  OBVIOUS
<1>1. Past = [r \in Reqs |-> 0] /\ taken = [a \in Actors |-> 0] /\ \A r \in Reqs : next[r] = 1
  BY DEF Init, Past
<1>2. ASSUME NEW S PROVE Counted([x \in S |-> 0]) = {}
  BY DEF Counted
<1>3. Counted(Past) = {} /\ Counted(taken) = {}
  BY <1>1, <1>2
<1>4. \A f \in Counters : reported[f] = 0 /\ stats[f] = 0
  BY DEF Init
<1>5. IsFiniteSet({}) /\ Cardinality({}) = 0
  BY FS_EmptySet
<1>. QED BY <1>1, <1>3, <1>4, <1>5 DEF StatsInv, StatsConserved, Past, Counters

\* A frame is counted when its request goes on to the next one.
LEMMA StatsTx ==
    ASSUME TypeInv, StatsInv, NEW r \in Reqs, CountTx(r)
    PROVE  StatsInv'
<1>. USE DEF TypeInv, TypeOK
<1>1. UNCHANGED <<taken, reported>> /\ next' = [next EXCEPT ![r] = @ + 1] /\ stats' = [stats EXCEPT !["tx"] = @ + 1]
  BY DEF CountTx, upVars
<1>2. Past \in [Reqs -> Nat] /\ Past' \in [Reqs -> Nat] /\ Past'[r] = Past[r] + 1
  BY <1>1 DEF StatsInv, Past
<1>3. \A s \in Reqs \ {r} : Past'[s] = Past[s]
  BY <1>1 DEF Past
<1>4. IsFiniteSet(Counted(Past))
  BY DEF StatsInv
<1>5. IsFiniteSet(Counted(Past')) /\ Cardinality(Counted(Past')) = Cardinality(Counted(Past)) + 1
  <2>1. PICK f, g : f = Past /\ g = Past'
    OBVIOUS
  <2>2. f \in [Reqs -> Nat] /\ g \in [Reqs -> Nat] /\ g[r] = f[r] + 1
    BY ONLY <1>2, <2>1
  <2>3. (\A s \in Reqs \ {r} : g[s] = f[s]) /\ IsFiniteSet(Counted(f))
    BY ONLY <1>3, <1>4, <2>1
  <2>4. IsFiniteSet(Counted(g)) /\ Cardinality(Counted(g)) = Cardinality(Counted(f)) + 1
    BY ONLY <2>2, <2>3, CountedBump, r \in Reqs
  <2>. QED BY ONLY <2>1, <2>4
<1>6. stats'["tx"] = stats["tx"] + 1 /\ stats'["rx"] = stats["rx"] /\ stats["tx"] \in Nat /\ reported["tx"] \in Nat
  BY <1>1 DEF Counters
<1>7. \A s \in Reqs : next'[s] > 0
  BY <1>1 DEF StatsInv
<1>8. reported["tx"] + stats["tx"] = Cardinality(Counted(Past)) /\ reported["rx"] + stats["rx"] = Cardinality(Counted(taken))
  BY DEF StatsInv, StatsConserved, Past
<1>9. reported'["tx"] + stats'["tx"] = Cardinality(Counted(Past')) /\ reported'["rx"] + stats'["rx"] = Cardinality(Counted(taken'))
  BY <1>1, <1>5, <1>6, <1>8
<1>. QED BY <1>1, <1>5, <1>7, <1>9 DEF StatsInv, StatsConserved, Past

\* A unit is counted when the stream reads it.
LEMMA StatsRx ==
    ASSUME TypeInv, StatsInv, NEW r \in Reqs, StreamRead(r)
    PROVE  StatsInv'
<1>. USE DEF TypeInv, TypeOK
<1>1. PICK a \in Actors : a = target[r]
  BY DEF StreamRead, TargetOK, Streaming
<1>2. UNCHANGED <<next, reported>> /\ taken' = [taken EXCEPT ![a] = @ + 1] /\ stats' = [stats EXCEPT !["rx"] = @ + 1]
  BY <1>1 DEF StreamRead
<1>3. taken' \in [Actors -> Nat] /\ taken'[a] = taken[a] + 1 /\ \A c \in Actors \ {a} : taken'[c] = taken[c]
  BY <1>2
<1>4. IsFiniteSet(Counted(taken))
  BY DEF StatsInv
<1>5. IsFiniteSet(Counted(taken')) /\ Cardinality(Counted(taken')) = Cardinality(Counted(taken)) + 1
  <2>1. PICK f, g : f = taken /\ g = taken'
    OBVIOUS
  <2>2. f \in [Actors -> Nat] /\ g \in [Actors -> Nat] /\ g[a] = f[a] + 1
    BY <1>3, <2>1
  <2>3. (\A c \in Actors \ {a} : g[c] = f[c]) /\ IsFiniteSet(Counted(f))
    BY ONLY <1>3, <1>4, <2>1
  <2>4. IsFiniteSet(Counted(g)) /\ Cardinality(Counted(g)) = Cardinality(Counted(f)) + 1
    BY ONLY <2>2, <2>3, CountedBump
  <2>. QED BY ONLY <2>1, <2>4
<1>6. stats'["rx"] = stats["rx"] + 1 /\ stats'["tx"] = stats["tx"] /\ stats["rx"] \in Nat /\ reported["rx"] \in Nat
  BY <1>2 DEF Counters
<1>7. reported["tx"] + stats["tx"] = Cardinality(Counted(Past)) /\ reported["rx"] + stats["rx"] = Cardinality(Counted(taken))
  BY DEF StatsInv, StatsConserved, Past
<1>8. Past' = Past /\ \A s \in Reqs : next'[s] > 0
  BY <1>2 DEF Past, StatsInv
<1>9. reported'["tx"] + stats'["tx"] = Cardinality(Counted(Past')) /\ reported'["rx"] + stats'["rx"] = Cardinality(Counted(taken'))
  BY <1>2, <1>5, <1>6, <1>7, <1>8
<1>. QED BY <1>4, <1>5, <1>8, <1>9 DEF StatsInv, StatsConserved, Past

\* take_stats moves a count from what is counted to what is reported.
LEMMA StatsTaken ==
    ASSUME TypeInv, StatsInv, TakeStats
    PROVE  StatsInv'
<1>1. UNCHANGED <<next, taken>>
  BY DEF TakeStats, upVars, reqVars
<1>2. PICK f \in Counters : reported' = [reported EXCEPT ![f] = @ + stats[f]] /\ stats' = [stats EXCEPT ![f] = 0]
  BY DEF TakeStats, Zero, Counters
<1>3. \A g \in Counters : reported'[g] + stats'[g] = reported[g] + stats[g]
  BY <1>2 DEF TypeInv, TypeOK
<1>. QED BY <1>1, <1>3 DEF StatsInv, StatsConserved, Past, Counters

\* Any other step leaves the counts and what they count alone.
LEMMA StatsKept ==
    ASSUME [Next]_vars
    PROVE  \/ UNCHANGED <<next, taken, stats, reported>>
           \/ TakeStats
           \/ \E r \in Reqs : CountTx(r) \/ StreamRead(r)
<1>. USE DEF tableVars, timerVars, boxVars, lockVars, upVars, reqVars, statVars
<1>1. CASE UNCHANGED vars
  BY <1>1 DEF vars
<1>2. ASSUME NEW r \in Reqs, RequestStep(r)
      PROVE  UNCHANGED <<next, taken, stats, reported>> \/ CountTx(r) \/ StreamRead(r)
  BY <1>2 DEF RequestStep, RejectRequest, JoinSession, CreateSession, NewSession, Arrive, Dispatch, Respond,
              Ask, AskErr, BodyFrame, BodyErr, BodyEnd, StreamYield, StreamEnd, StreamAborted, Disconnect
<1>3. ASSUME NEW a \in Actors, ActorStep(a)
      PROVE  UNCHANGED <<next, taken, stats, reported>>
  BY <1>3 DEF ActorStep, OnStartOk, OnStartErr, ActorTimeout, Kill, Drop, HandleSessionRead, HandleSessionWrite,
              HandleReset, WriteOk, WriteErr, UpstreamSends, UpstreamCloses
<1>. QED BY <1>1, <1>2, <1>3 DEF Next

\* take_stats loses no count and repeats none, although it swaps the two
\* counters one after the other while handlers and streams add to them: what
\* was reported and what is still counted add up to the frames acknowledged
\* and the units read.
THEOREM StatsCorrect == Spec => []StatsConserved
<1>1. TypeInv /\ StatsInv /\ [Next]_vars => StatsInv'
  <2>. SUFFICES ASSUME TypeInv, StatsInv, [Next]_vars PROVE StatsInv'
    OBVIOUS
  <2>1. CASE UNCHANGED <<next, taken, stats, reported>>
    BY <2>1 DEF StatsInv, StatsConserved, Past
  <2>. QED BY <2>1, StatsKept, StatsTaken, StatsTx, StatsRx
<1>2. StatsInv => StatsConserved
  BY DEF StatsInv
<1>. QED BY <1>1, <1>2, StatsInit, TypeInvariant, PTL DEF Spec
=============================================================================

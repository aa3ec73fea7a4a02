---------------------------- MODULE TunnelProofs ----------------------------
(***************************************************************************)
(* Theorems about Tunnel, for every value of its constants.  What is       *)
(* proved of Server and of Client holds of the two sides of a tunnel,      *)
(* because each takes only steps of its own specification.                 *)
(***************************************************************************)
EXTENDS Tunnel, SequenceTheorems, TLAPS

SP == INSTANCE ServerProofs
CP == INSTANCE ClientProofs WITH eof <- ended

-----------------------------------------------------------------------------
(* Each side is an instance of its component.                              *)

\* The constants of the tunnel are possible ones for the server.
LEMMA ServerConstants == SP!ServerAssumption
<1>1. ASSUME NEW q \in Offered PROVE q \in SP!Requests
  <2>1. /\ q = [method |-> q.method, id |-> q.id, frames |-> q.frames]
        /\ q.method \in {"GET", "POST", "PATCH"} /\ q.id \in Ids /\ q.frames \in Sizes \cup {0}
    BY DEF Offered
  <2>2. q.method \in SP!Methods /\ q.id \in Ids \cup {None} /\ q.frames \in Nat
    BY <2>1, TunnelAssumption DEF SP!Methods
  <2>. HIDE DEF Ids
  <2>. QED BY <2>1, <2>2 DEF SP!Requests
<1>. QED BY <1>1, TunnelAssumption DEF SP!ServerAssumption, MaxTakes

\* And for the client.
LEMMA ClientConstants == CP!ClientAssumption
BY TunnelAssumption DEF CP!ClientAssumption, MaxFrames

\* The requests of the client.
LEMMA Requested ==
    /\ \A k \in 1..MaxChunks : W(k) \in Reqs
    /\ \A k \in 1..MaxGets : G(k) \in Reqs
    /\ \A r \in Reqs : (\E k \in 1..MaxChunks : r = W(k)) \/ (\E k \in 1..MaxGets : r = G(k))
    /\ \A j, k : W(j) # G(k) /\ (W(j) = W(k) => j = k) /\ (G(j) = G(k) => j = k)
BY DEF Reqs, W, G

\* The arrival of a request.
LEMMA SameArrival ==
    ASSUME NEW r, NEW q
    PROVE  /\ S!RejectRequest(r, q) => SP!RejectRequest(r, q)
           /\ S!JoinSession(r, q) => SP!JoinSession(r, q)
           /\ \A a : S!CreateSession(r, q, a) => SP!CreateSession(r, q, a)
BY DEF S!RejectRequest, S!JoinSession, S!CreateSession, S!Arrive, S!WellFormed, S!Missing, S!CanCreate, S!LiveEntry,
       S!IsAlive, S!Respond, S!Dispatch, S!NewSession, S!Timers,
       S!tableVars, S!timerVars, S!boxVars, S!lockVars, S!upVars, S!statVars,
       SP!RejectRequest, SP!JoinSession, SP!CreateSession, SP!Arrive, SP!WellFormed, SP!Missing, SP!CanCreate, SP!LiveEntry,
       SP!IsAlive, SP!Respond, SP!Dispatch, SP!NewSession, SP!Timers,
       SP!tableVars, SP!timerVars, SP!boxVars, SP!lockVars, SP!upVars, SP!statVars

\* A step of a handler or a stream.
LEMMA SameHandler ==
    ASSUME NEW r
    PROVE  /\ S!Ask(r) => SP!Ask(r)
           /\ S!AskErr(r) => SP!AskErr(r)
           /\ S!BodyFrame(r) => SP!BodyFrame(r)
           /\ S!BodyEnd(r) => SP!BodyEnd(r)
           /\ S!CountTx(r) => SP!CountTx(r)
           /\ S!StreamRead(r) => SP!StreamRead(r)
           /\ S!StreamYield(r) => SP!StreamYield(r)
           /\ S!StreamEnd(r) => SP!StreamEnd(r)
           /\ S!StreamAborted(r) => SP!StreamAborted(r)
<1>. USE DEF S!IsAlive, S!HasRoom, S!Enqueue, S!Respond, S!Asking, S!Streaming, S!ReleaseGuard, S!YieldFrame,
             S!tableVars, S!timerVars, S!boxVars, S!lockVars, S!upVars, S!statVars,
             SP!IsAlive, SP!HasRoom, SP!Enqueue, SP!Respond, SP!Asking, SP!Streaming, SP!ReleaseGuard, SP!YieldFrame,
             SP!tableVars, SP!timerVars, SP!boxVars, SP!lockVars, SP!upVars, SP!statVars
<1>1. S!Ask(r) => SP!Ask(r)
  BY DEF S!Ask, SP!Ask
<1>2. S!AskErr(r) => SP!AskErr(r)
  BY DEF S!AskErr, SP!AskErr
<1>3. (S!BodyFrame(r) => SP!BodyFrame(r)) /\ (S!BodyEnd(r) => SP!BodyEnd(r)) /\ (S!CountTx(r) => SP!CountTx(r))
  BY DEF S!BodyFrame, S!BodyEnd, S!CountTx, SP!BodyFrame, SP!BodyEnd, SP!CountTx
<1>4. (S!StreamRead(r) => SP!StreamRead(r)) /\ (S!StreamYield(r) => SP!StreamYield(r))
  BY DEF S!StreamRead, S!StreamYield, SP!StreamRead, SP!StreamYield
<1>5. (S!StreamEnd(r) => SP!StreamEnd(r)) /\ (S!StreamAborted(r) => SP!StreamAborted(r))
  BY DEF S!StreamEnd, S!StreamAborted, SP!StreamEnd, SP!StreamAborted
<1>. QED BY ONLY <1>1, <1>2, <1>3, <1>4, <1>5

\* A step of an actor or of upstream.
LEMMA SameActor ==
    ASSUME NEW a
    PROVE  /\ S!OnStartOk(a) => SP!OnStartOk(a)
           /\ S!OnStartErr(a) => SP!OnStartErr(a)
           /\ S!ActorTimeout(a, "total") => SP!ActorTimeout(a, "total")
           /\ S!Kill(a) => SP!Kill(a)
           /\ S!Drop(a) => SP!Drop(a)
           /\ S!HandleSessionRead(a) => SP!HandleSessionRead(a)
           /\ S!HandleSessionWrite(a) => SP!HandleSessionWrite(a)
           /\ S!HandleReset(a) => SP!HandleReset(a)
           /\ S!WriteOk(a) => SP!WriteOk(a)
           /\ S!WriteErr(a) => SP!WriteErr(a)
           /\ S!UpstreamSends(a) => SP!UpstreamSends(a)
           /\ S!UpstreamCloses(a) => SP!UpstreamCloses(a)
<1>. USE DEF S!ResetIdleTimeout, S!LoopEnds, S!SendKill, S!MayKill, S!RemoveEntry, S!AbortReader, S!Takes, S!TryLock,
             S!SaveAbortHandle, S!Respond, S!ReplyWritten, S!HasRoom, S!Enqueue, S!TrySendReset, S!CtxStop,
             S!tableVars, S!timerVars, S!boxVars, S!lockVars, S!upVars, S!reqVars, S!statVars,
             SP!ResetIdleTimeout, SP!LoopEnds, SP!SendKill, SP!MayKill, SP!RemoveEntry, SP!AbortReader, SP!Takes, SP!TryLock,
             SP!SaveAbortHandle, SP!Respond, SP!ReplyWritten, SP!HasRoom, SP!Enqueue, SP!TrySendReset, SP!CtxStop,
             SP!tableVars, SP!timerVars, SP!boxVars, SP!lockVars, SP!upVars, SP!reqVars, SP!statVars
<1>1. (S!OnStartOk(a) => SP!OnStartOk(a)) /\ (S!OnStartErr(a) => SP!OnStartErr(a))
  BY DEF S!OnStartOk, S!OnStartErr, SP!OnStartOk, SP!OnStartErr
<1>2. S!ActorTimeout(a, "total") => SP!ActorTimeout(a, "total")
  BY DEF S!ActorTimeout, SP!ActorTimeout
<1>3. (S!Kill(a) => SP!Kill(a)) /\ (S!Drop(a) => SP!Drop(a))
  BY DEF S!Kill, S!Drop, SP!Kill, SP!Drop
<1>4. S!HandleSessionRead(a) => SP!HandleSessionRead(a)
  BY DEF S!HandleSessionRead, SP!HandleSessionRead
<1>5. (S!HandleSessionWrite(a) => SP!HandleSessionWrite(a)) /\ (S!HandleReset(a) => SP!HandleReset(a))
  BY DEF S!HandleSessionWrite, S!HandleReset, SP!HandleSessionWrite, SP!HandleReset
<1>6. (S!WriteOk(a) => SP!WriteOk(a)) /\ (S!WriteErr(a) => SP!WriteErr(a))
  BY DEF S!WriteOk, S!WriteErr, SP!WriteOk, SP!WriteErr
<1>7. (S!UpstreamSends(a) => SP!UpstreamSends(a)) /\ (S!UpstreamCloses(a) => SP!UpstreamCloses(a))
  BY DEF S!UpstreamSends, S!UpstreamCloses, SP!UpstreamSends, SP!UpstreamCloses
<1>. QED BY ONLY <1>1, <1>2, <1>3, <1>4, <1>5, <1>6, <1>7

\* A step of a pump or of the application.
LEMMA SameClient ==
    /\ (C!OutSend => CP!OutSend) /\ (C!OutAck => CP!OutAck) /\ (C!OutFail => CP!OutFail)
    /\ (C!InAsk => CP!InAsk) /\ (C!InHead => CP!InHead) /\ (C!InFail => CP!InFail)
    /\ (C!InFrame => CP!InFrame) /\ (C!InBodyEnd => CP!InBodyEnd)
    /\ (C!InSend => CP!InSend) /\ (C!InSent => CP!InSent)
    /\ (C!PollRead => CP!PollRead) /\ (C!PollWrite => CP!PollWrite)
<1>. USE DEF C!Running, C!Fail, C!WriteRequest, C!ClearFirst, C!AfterBody, C!Put, C!Flushed, C!Failure, C!Pending, C!Returned,
             C!appVars, C!outVars, C!inVars, C!gotVars,
             CP!Running, CP!Fail, CP!WriteRequest, CP!ClearFirst, CP!AfterBody, CP!Put, CP!Flushed, CP!Failure, CP!Pending, CP!Returned,
             CP!appVars, CP!outVars, CP!inVars, CP!gotVars
<1>1. (C!OutSend => CP!OutSend) /\ (C!OutAck => CP!OutAck) /\ (C!OutFail => CP!OutFail)
  BY DEF C!OutSend, C!OutAck, C!OutFail, CP!OutSend, CP!OutAck, CP!OutFail
<1>2. (C!InAsk => CP!InAsk) /\ (C!InHead => CP!InHead) /\ (C!InFail => CP!InFail)
  BY DEF C!InAsk, C!InHead, C!InFail, CP!InAsk, CP!InHead, CP!InFail
<1>3. (C!InFrame => CP!InFrame) /\ (C!InBodyEnd => CP!InBodyEnd)
  BY DEF C!InFrame, C!InBodyEnd, CP!InFrame, CP!InBodyEnd
<1>4. C!InSend => CP!InSend
  BY DEF C!InSend, CP!InSend
<1>5. (C!InSent => CP!InSent) /\ (C!PollWrite => CP!PollWrite)
  BY DEF C!InSent, C!PollWrite, CP!InSent, CP!PollWrite
<1>6. C!PollRead => CP!PollRead
  BY DEF C!PollRead, CP!PollRead
<1>. QED BY ONLY <1>1, <1>2, <1>3, <1>4, <1>5, <1>6

\* What an arriving request is.
WriteQ(k) == [method |-> requests[k].method, id |-> Id, frames |-> pieces[k]]
GetQ      == [method |-> "GET", id |-> Id, frames |-> 0]

\* Request r arrives as q.
Arriving(r, q) ==
    \/ SP!RejectRequest(r, q)
    \/ SP!JoinSession(r, q)
    \/ \E a \in Actors : NextSession(a) /\ SP!CreateSession(r, q, a)

Handling(r) ==
    \/ SP!Ask(r) \/ SP!AskErr(r) \/ SP!BodyFrame(r) \/ SP!BodyEnd(r) \/ SP!CountTx(r)
    \/ SP!StreamRead(r) \/ SP!StreamYield(r) \/ SP!StreamEnd(r) \/ SP!StreamAborted(r)

Living(a) ==
    \/ SP!OnStartOk(a) \/ SP!OnStartErr(a) \/ SP!ActorTimeout(a, "total") \/ SP!Kill(a) \/ SP!Drop(a)
    \/ SP!HandleSessionRead(a) \/ SP!HandleSessionWrite(a) \/ SP!HandleReset(a)
    \/ SP!WriteOk(a) \/ SP!WriteErr(a) \/ SP!UpstreamSends(a) \/ SP!UpstreamCloses(a)

\* The steps of the server's side.
LEMMA ServerCases ==
    ASSUME ServerStep
    PROVE  /\ UNCHANGED <<clientVars, linkVars>>
           /\ \/ \E k \in 1..Len(requests) : Arriving(W(k), WriteQ(k))
              \/ \E k \in 1..gets : Arriving(G(k), GetQ)
              \/ \E r \in Reqs : Handling(r)
              \/ \E a \in Actors : Living(a)
<1>1. ASSUME NEW r, NEW q, Arrives(r, q) PROVE Arriving(r, q)
  BY <1>1, SameArrival DEF Arrives, Arriving
<1>2. ASSUME NEW r, Handles(r) PROVE Handling(r)
  BY <1>2, SameHandler DEF Handles, Handling
<1>3. ASSUME NEW a, Lives(a) PROVE Living(a)
  BY <1>3, SameActor DEF Lives, Living
<1>. QED BY <1>1, <1>2, <1>3, Zenon DEF ServerStep, WriteArrives, GetArrives, WriteQ, GetQ

\* The steps of the client's side.
LEMMA ClientCases ==
    ASSUME ClientStep
    PROVE  /\ UNCHANGED serverVars
           /\ \/ /\ outgoing = "wait" /\ status[W(Len(requests))] = "NO_CONTENT" /\ CP!OutAck
                 /\ UNCHANGED linkVars
              \/ /\ outgoing = "wait" /\ status[W(Len(requests))] = "BAD_REQUEST" /\ CP!OutFail
                 /\ UNCHANGED linkVars
              \/ CP!InAsk /\ seen' = 0 /\ UNCHANGED <<pieces, got>>
              \/ /\ incoming = "head" /\ status[G(gets)] = "OK" /\ CP!InHead
                 /\ UNCHANGED linkVars
              \/ /\ incoming = "head" /\ status[G(gets)] \in {"BAD_REQUEST", "TOO_MANY_REQUESTS"} /\ CP!InFail
                 /\ UNCHANGED linkVars
              \/ /\ incoming = "body" /\ seen < Len(body[G(gets)]) /\ CP!InFrame
                 /\ seen' = seen + 1
                 /\ got' = Append(got, <<target[G(gets)], body[G(gets)][seen + 1]>>)
                 /\ UNCHANGED pieces
              \/ /\ incoming = "body" /\ pc[G(gets)] = "done" /\ seen = Len(body[G(gets)]) /\ CP!InBodyEnd
                 /\ UNCHANGED linkVars
              \/ \E n \in Sizes : CP!PollWrite /\ pieces' = Append(pieces, n) /\ UNCHANGED <<got, seen>>
              \/ (CP!OutSend \/ CP!InSend \/ CP!InSent \/ CP!PollRead) /\ UNCHANGED linkVars
BY SameClient, Zenon DEF ClientStep, WriteAnswered, GetSent, GetAnswered, FrameArrives, BodyEnds, ChunkWritten

\* The client's side of a tunnel behaves as Client says.
THEOREM ImplementsClient == Spec => CP!Spec
<1>1. Init => CP!Init
  BY DEF Init, C!Init, CP!Init
<1>2. ASSUME ServerStep PROVE UNCHANGED CP!vars
  BY <1>2, ServerCases DEF clientVars, CP!vars, CP!appVars, CP!outVars, CP!inVars, CP!gotVars
<1>3. ASSUME ClientStep PROVE CP!Next
  BY <1>3, ClientCases, Zenon DEF CP!Next, CP!Application
<1>4. UNCHANGED vars => UNCHANGED CP!vars
  BY DEF vars, clientVars, CP!vars, CP!appVars, CP!outVars, CP!inVars, CP!gotVars
<1>5. [Next]_vars => [CP!Next]_(CP!vars)
  BY <1>2, <1>3, <1>4 DEF Next
<1>. QED BY <1>1, <1>5, PTL DEF Spec, CP!Spec

\* The chunks under way are the ones the application has written, and there
\* are no more requests than the server may get.
LinkInv ==
    /\ pieces \in Seq(Sizes) /\ Len(pieces) = written /\ written <= MaxChunks
    /\ Len(requests) + Len(requestQ) <= written
    /\ gets <= MaxGets
    /\ gets = 0 => incoming \in {"ask", "dropped"}

\* What is known of the client's side.
ClientInv == CP!TypeOK /\ CP!WriteInv /\ CP!ReadInv /\ LinkInv

\* Every step keeps LinkInv.
LEMMA LinkStep ==
    ASSUME CP!TypeOK, LinkInv, [Next]_vars
    PROVE  LinkInv'
<1>. USE TunnelAssumption DEF LinkInv, CP!TypeOK, CP!DataOK
<1>1. UNCHANGED <<pieces, written, requests, requestQ, gets>> /\ (incoming' = incoming \/ gets # 0) => LinkInv'
  OBVIOUS
<1>2. CASE ServerStep
  BY <1>1, <1>2, ServerCases DEF clientVars, linkVars
<1>3. CASE CP!OutFail /\ UNCHANGED linkVars
  BY <1>3 DEF CP!OutFail, CP!Fail, linkVars
<1>4. CASE CP!InFail /\ UNCHANGED linkVars
  BY <1>4 DEF CP!InFail, CP!Fail, linkVars
<1>5. CASE CP!InAsk /\ UNCHANGED pieces
  BY <1>5 DEF CP!InAsk, CP!outVars
<1>6. ASSUME NEW n \in Sizes, CP!PollWrite, pieces' = Append(pieces, n) PROVE LinkInv'
  BY <1>6 DEF CP!PollWrite, CP!inVars
<1>7. CASE CP!OutSend /\ UNCHANGED linkVars
  BY <1>7 DEF CP!OutSend, CP!inVars, linkVars
<1>8. CASE (CP!OutAck \/ CP!InHead \/ CP!InBodyEnd \/ CP!InSend \/ CP!InSent \/ CP!PollRead) /\ UNCHANGED linkVars
  <2>1. UNCHANGED <<pieces, written, requests, requestQ, gets>>
    BY <1>8, Zenon DEF CP!OutAck, CP!InHead, CP!InBodyEnd, CP!InSend, CP!InSent, CP!PollRead, CP!outVars, CP!inVars, linkVars
  <2>2. incoming' = incoming \/ incoming \in {"head", "body", "send", "fail", "sent", "failed"}
    BY <1>8 DEF CP!OutAck, CP!InHead, CP!InBodyEnd, CP!InSend, CP!InSent, CP!PollRead, CP!inVars
  <2>. QED BY <1>1, <2>1, <2>2
<1>9. CASE CP!InFrame /\ UNCHANGED pieces
  BY <1>1, <1>9 DEF CP!InFrame, CP!outVars
<1>10. CASE UNCHANGED vars
  BY <1>1, <1>10 DEF vars, clientVars, linkVars
<1>11. ASSUME ClientStep PROVE LinkInv'
  BY ONLY <1>11, ClientCases, <1>3, <1>4, <1>5, <1>6, <1>7, <1>8, <1>9
<1>. QED BY <1>2, <1>10, <1>11 DEF Next

\* ClientInv holds in every state.
LEMMA ClientInvariant == Spec => []ClientInv
<1>1. Init => LinkInv
  BY TunnelAssumption DEF Init, C!Init, LinkInv
<1>2. CP!TypeOK /\ LinkInv /\ [Next]_vars => LinkInv'
  BY LinkStep
<1>3. Spec => []CP!TypeOK
  BY ImplementsClient, CP!TypeCorrect, ClientConstants, PTL
<1>4. Spec => []CP!WriteInv
  BY ImplementsClient, CP!WriteInvariant, ClientConstants, PTL
<1>5. Spec => []CP!ReadInv
  BY ImplementsClient, CP!ReadInvariant, ClientConstants, PTL
<1>. QED BY <1>1, <1>2, <1>3, <1>4, <1>5, PTL DEF Spec, ClientInv

\* A request that arrives is one that the server may get.
LEMMA OfferedOK ==
    ASSUME ClientInv
    PROVE  /\ \A k \in 1..Len(requests) : k \in 1..MaxChunks /\ k \in 1..Len(pieces) /\ WriteQ(k) \in Offered /\ W(k) \in Reqs
           /\ \A k \in 1..gets : k \in 1..MaxGets /\ G(k) \in Reqs
           /\ GetQ \in Offered
<1>. USE TunnelAssumption DEF ClientInv, LinkInv, CP!TypeOK, CP!DataOK
<1>1. GetQ \in Offered
  BY DEF GetQ, Offered, Ids
<1>2. ASSUME NEW k \in 1..Len(requests)
      PROVE  k \in 1..MaxChunks /\ k \in 1..Len(pieces) /\ WriteQ(k) \in Offered
  <2>1. k \in 1..MaxChunks /\ k \in 1..Len(pieces)
    OBVIOUS
  <2>2. requests[k] \in [method : {"POST", "PATCH"}, chunk : Nat]
    <3>1. requests \in Seq([method : {"POST", "PATCH"}, chunk : Nat])
      OBVIOUS
    <3>2. ASSUME NEW T, NEW s \in Seq(T), NEW j \in 1..Len(s) PROVE s[j] \in T
      OBVIOUS
    <3>. QED BY ONLY <3>1, <3>2, k \in 1..Len(requests)
  <2>3. requests[k].method \in {"POST", "PATCH"}
    BY ONLY <2>2
  <2>4. pieces[k] \in Sizes
    BY <2>1
  <2>. QED BY <2>1, <2>3, <2>4 DEF WriteQ, Offered, Ids
<1>3. \A k \in 1..gets : k \in 1..MaxGets
  OBVIOUS
<1>. QED BY ONLY <1>1, <1>2, <1>3, Requested

\* A step of the tunnel is one of the server or leaves the server alone.
LEMMA ServerNext ==
    ASSUME ClientInv, [Next]_vars
    PROVE  [SP!Next]_(SP!vars)
<1>1. ASSUME ServerStep PROVE SP!Next
  <2>1. ASSUME NEW r \in Reqs, NEW q \in Offered, Arriving(r, q) PROVE SP!RequestStep(r)
    BY <2>1, Zenon DEF Arriving, SP!RequestStep
  <2>2. ASSUME NEW r \in Reqs, Handling(r) PROVE SP!RequestStep(r)
    BY <2>2, Zenon DEF Handling, SP!RequestStep
  <2>3. ASSUME NEW a \in Actors, Living(a) PROVE SP!ActorStep(a)
    <3>1. "total" \in SP!Timers
      BY DEF SP!Timers
    <3>. QED BY <2>3, <3>1, Zenon DEF Living, SP!ActorStep
  <2>. QED BY <1>1, <2>1, <2>2, <2>3, ServerCases, OfferedOK, Zenon DEF SP!Next
<1>2. ASSUME ClientStep \/ UNCHANGED vars PROVE UNCHANGED SP!vars
  BY <1>2, ClientCases DEF vars, serverVars, SP!vars, SP!tableVars, SP!timerVars, SP!boxVars, SP!lockVars, SP!upVars, SP!reqVars, SP!statVars
<1>. QED BY <1>1, <1>2 DEF Next

\* The server's side of a tunnel behaves as Server says.
THEOREM ImplementsServer == Spec => SP!Spec
<1>1. Init => SP!Init
  BY DEF Init, S!Init, SP!Init, S!Counters, SP!Counters
<1>2. ClientInv /\ [Next]_vars => [SP!Next]_(SP!vars)
  BY ServerNext
<1>. QED BY <1>1, <1>2, ClientInvariant, PTL DEF Spec, SP!Spec

\* What is known of the server's side.
ServerInv == SP!TypeInv /\ SP!RegistryInv /\ SP!MailInv /\ SP!ReaderInv /\ SP!AbortOK /\ SP!WriteInv /\ SP!UnitInv

\* ServerInv holds in every state.
LEMMA ServerInvariant == Spec => []ServerInv
<1>1. Spec => []SP!TypeInv /\ []SP!RegistryInv
  BY ImplementsServer, SP!TypeInvariant, SP!RegistryInvariant, ServerConstants, PTL
<1>2. Spec => []SP!MailInv /\ []SP!ReaderInv /\ []SP!AbortOK
  BY ImplementsServer, SP!MailInvariant, SP!ReaderInvariant, SP!AbortInvariant, ServerConstants, PTL
<1>3. Spec => []SP!WriteInv /\ []SP!UnitInv
  BY ImplementsServer, SP!WriteInvariant, SP!UnitInvariant, ServerConstants, PTL
<1>. QED BY <1>1, <1>2, <1>3, PTL DEF ServerInv

-----------------------------------------------------------------------------
(* What the server makes of one request.                                   *)

Writing == {"body", "put_send", "put_wait", "put_ok"}
Getting == {"get_send", "get_wait", "get_first", "get_more", "get_tell"}

\* Nothing happens to request s.
Same(s) == UNCHANGED <<pc[s], status[s], req[s], target[s]>>

\* The handler or the stream of s goes on.
Going(s) ==
    /\ UNCHANGED <<req[s], target[s]>>
    /\ status'[s] \in {status[s], "OK"}
    /\ \/ pc[s] \in Writing /\ pc'[s] \in Writing
       \/ pc[s] \in Getting /\ pc'[s] \in Getting \cup {"done"}

\* GET s finds that another response holds the lock of the connection.
Refused(s) ==
    /\ UNCHANGED <<req[s], target[s]>>
    /\ pc[s] = "get_wait" /\ pc'[s] = "done" /\ status'[s] = "TOO_MANY_REQUESTS"
    /\ target[s] \in Actors /\ reader[target[s]] # None

\* What a step of the server may do to request s.
LEMMA RequestCases ==
    ASSUME ServerInv, ServerStep, NEW s \in Reqs
    PROVE  \/ Same(s)
           \/ \E k \in 1..Len(requests) : s = W(k) /\ Arriving(s, WriteQ(k))
           \/ \E k \in 1..gets : s = G(k) /\ Arriving(s, GetQ)
           \/ Going(s) \/ SP!AskErr(s) \/ SP!BodyEnd(s) \/ Refused(s)
<1>. USE DEF ServerInv, SP!TypeInv, SP!TypeOK
<1>1. ASSUME NEW r, r # s, NEW q, Arriving(r, q) PROVE Same(s)
  BY <1>1 DEF Arriving, SP!RejectRequest, SP!JoinSession, SP!CreateSession, SP!Arrive, SP!Respond, SP!Dispatch, Same
<1>2. ASSUME NEW r, r # s, Handling(r) PROVE Same(s)
  BY <1>2 DEF Handling, SP!Ask, SP!AskErr, SP!Respond, SP!BodyFrame, SP!BodyEnd, SP!CountTx,
              SP!StreamRead, SP!StreamYield, SP!StreamEnd, SP!StreamAborted, Same
<1>3. ASSUME Handling(s) PROVE Going(s) \/ SP!AskErr(s) \/ SP!BodyEnd(s)
  BY <1>3 DEF Handling, SP!Ask, SP!BodyFrame, SP!CountTx, SP!StreamRead, SP!StreamYield, SP!StreamEnd, SP!StreamAborted,
              SP!Streaming, Going, Writing, Getting
<1>4. ASSUME NEW a \in Actors, SP!HandleSessionRead(a) PROVE Same(s) \/ Going(s) \/ Refused(s)
  <2>. DEFINE r == Head(mailbox[a]).req
  <2>1. /\ UNCHANGED <<req, target>>
        /\ \/ UNCHANGED <<pc, status>>
           \/ /\ pc[r] = "get_wait"
              /\ pc' = [pc EXCEPT ![r] = "get_first"]
              /\ status' = [status EXCEPT ![r] = "OK"]
           \/ /\ reader[a] # None /\ pc[r] = "get_wait"
              /\ pc' = [pc EXCEPT ![r] = "done"]
              /\ status' = [status EXCEPT ![r] = "TOO_MANY_REQUESTS"]
    BY <1>4 DEF SP!HandleSessionRead, SP!Respond, SP!TryLock
  <2>2. target[r] = a
    <3>1. mailbox[a] # <<>> /\ Head(mailbox[a]).kind = "read"
      BY <1>4 DEF SP!HandleSessionRead, SP!Takes
    <3>2. 1 \in 1..Len(mailbox[a]) /\ Head(mailbox[a]) = mailbox[a][1]
      BY <3>1
    <3>. QED BY <3>1, <3>2 DEF SP!MailInv, SP!MessageOK
  <2>. HIDE DEF r
  <2>3. CASE r # s
    BY <2>1, <2>3 DEF Same
  <2>4. CASE r = s
    BY <2>1, <2>2, <2>4 DEF Same, Going, Refused, Getting
  <2>. QED BY <2>3, <2>4
<1>5. ASSUME NEW a \in Actors, SP!WriteOk(a) \/ SP!WriteErr(a) PROVE Same(s) \/ Going(s)
  BY <1>5 DEF SP!WriteOk, SP!WriteErr, SP!ReplyWritten, Same, Going, Writing
<1>6. ASSUME NEW a \in Actors, Living(a) PROVE Same(s) \/ Going(s) \/ Refused(s)
  <2>1. \/ SP!HandleSessionRead(a) \/ SP!WriteOk(a) \/ SP!WriteErr(a)
        \/ UNCHANGED SP!reqVars
    BY <1>6 DEF Living, SP!OnStartOk, SP!OnStartErr, SP!ActorTimeout, SP!Kill, SP!Drop, SP!HandleSessionWrite, SP!HandleReset,
                SP!UpstreamSends, SP!UpstreamCloses
  <2>2. UNCHANGED SP!reqVars => Same(s)
    BY DEF SP!reqVars, Same
  <2>. QED BY <1>4, <1>5, <2>1, <2>2
<1>. QED BY ONLY ServerStep, ServerCases, <1>1, <1>2, <1>3, <1>6

\* A session that has ended stays so.
LEMMA EndedStep ==
    ASSUME ServerInv, ClientInv, [Next]_vars
    PROVE  Ended \subseteq Ended'
<1>. USE DEF ServerInv, SP!TypeInv, SP!TypeOK, Ended
<1>1. \/ \E r \in Reqs, q \in Offered, a \in Actors : SP!CreateSession(r, q, a)
      \/ \E a \in Actors : SP!Moves(a)
      \/ \E a \in Actors : SP!Drop(a)
      \/ UNCHANGED SP!tableVars
  BY ONLY ServerNext, SP!TableStep, ServerConstants, ClientInv, [Next]_vars
<1>2. ASSUME NEW r \in Reqs, NEW q \in Offered, NEW a \in Actors, SP!CreateSession(r, q, a) PROVE Ended \subseteq Ended'
  BY <1>2 DEF SP!CreateSession, SP!NewSession
<1>3. ASSUME NEW a \in Actors, SP!Moves(a) PROVE Ended \subseteq Ended'
  BY <1>3 DEF SP!Moves, SP!IsAlive
<1>4. ASSUME NEW a \in Actors, SP!Drop(a) PROVE Ended \subseteq Ended'
  BY <1>4 DEF SP!Drop
<1>5. CASE UNCHANGED SP!tableVars
  BY <1>5 DEF SP!tableVars
<1>. QED BY <1>1, <1>2, <1>3, <1>4, <1>5

\* A session that a request found is alive, or has ended.
LEMMA FoundEnded ==
    ASSUME ServerInv, NEW r \in Reqs, target[r] \in Actors, ~SP!IsAlive(target[r])
    PROVE  target[r] \in Ended
<1>1. phase[target[r]] # "unborn"
  <2>1. target[r] # None
    BY TunnelAssumption
  <2>. QED BY <2>1 DEF ServerInv, SP!WriteInv, SP!Progress
<1>2. phase[target[r]] \in SP!Phases
  BY DEF ServerInv, SP!TypeInv, SP!TypeOK
<1>. QED BY <1>1, <1>2 DEF SP!Phases, SP!IsAlive, Ended

-----------------------------------------------------------------------------
(* Why a request fails.                                                    *)

\* The GET requests follow one another, and one is refused only after a
\* session has ended.
GetsOK(k) ==
    /\ pc[G(k)] \in {"new", "done"} \cup Getting
    /\ pc[G(k)] # "new" => k <= gets
    /\ k < gets \/ (k = gets /\ incoming = "ask") => pc[G(k)] = "done"
    /\ status[G(k)] \in {"BAD_REQUEST", "TOO_MANY_REQUESTS"} => Ended # {}

\* Requests carry the chunks, the client counts as acknowledged what the server
\* answered NO_CONTENT, and a write is refused only after a session has ended,
\* or because it is empty.
WritesOK(k) ==
    /\ pc[W(k)] \in {"new", "done"} \cup Writing
    /\ pc[W(k)] # "new" => k <= Len(requests) /\ req[W(k)] = WriteQ(k)
    /\ k <= acks => status[W(k)] = "NO_CONTENT"
    /\ status[W(k)] = "BAD_REQUEST" => Ended # {} \/ (k <= Len(requests) /\ pieces[k] = 0)

CauseInv ==
    /\ \A k \in 1..MaxGets : GetsOK(k)
    /\ \A k \in 1..MaxChunks : WritesOK(k)
    /\ FailsForCause

\* GETs are served one at a time.
LEMMA OneGet ==
    ASSUME ClientInv, CauseInv, NEW r \in Reqs, pc[r] \in Getting
    PROVE  gets \in 1..MaxGets /\ r = G(gets) /\ incoming # "ask"
<1>. USE TunnelAssumption
<1>1. ASSUME NEW k \in 1..MaxChunks, r = W(k) PROVE FALSE
  BY <1>1 DEF CauseInv, WritesOK, Writing, Getting
<1>2. PICK k \in 1..MaxGets : r = G(k)
  BY <1>1, Requested
<1>3. GetsOK(k)
  BY DEF CauseInv
<1>. QED BY <1>2, <1>3 DEF GetsOK, Getting, ClientInv, LinkInv, CP!TypeOK, CP!DataOK

\* A GET is never answered BAD_REQUEST by the lookup.
LEMMA GetFound ==
    ASSUME NEW s, Arriving(s, GetQ)
    PROVE  pc[s] = "new" /\ pc' = [pc EXCEPT ![s] = "get_send"] /\ status' = status
<1>1. SP!WellFormed(GetQ) /\ SP!CanCreate(GetQ) /\ GetQ.method = "GET"
  BY TunnelAssumption DEF SP!WellFormed, SP!CanCreate, GetQ, Ids
<1>. QED BY <1>1 DEF Arriving, SP!RejectRequest, SP!JoinSession, SP!CreateSession, SP!Arrive, SP!Dispatch

\* A step of the server keeps what is known of the GET requests.
LEMMA GetServer ==
    ASSUME ServerInv, ClientInv, CauseInv, ServerStep, NEW k \in 1..MaxGets
    PROVE  GetsOK(k)'
<1>. DEFINE s == G(k)
<1>. USE DEF ServerInv, SP!TypeInv, SP!TypeOK
<1>1. s \in Reqs /\ \A j : s # W(j)
  BY Requested
<1>2. UNCHANGED <<gets, incoming>>
  BY ServerCases DEF clientVars
<1>3. Ended \subseteq Ended'
  BY EndedStep DEF Next
<1>4. GetsOK(k)
  BY DEF CauseInv
<1>5. CASE Same(s)
  BY <1>2, <1>3, <1>4, <1>5 DEF Same, GetsOK
<1>6. ASSUME NEW j \in 1..gets, s = G(j), Arriving(s, GetQ) PROVE GetsOK(k)'
  <2>1. j = k
    BY <1>6, Requested
  <2>. QED BY <1>1, <1>2, <1>3, <1>4, <1>6, <2>1, GetFound DEF GetsOK, Getting
<1>7. CASE Going(s)
  BY <1>2, <1>3, <1>4, <1>7 DEF Going, GetsOK, Writing, Getting
<1>8. CASE SP!AskErr(s)
  <2>1. target[s] \in Actors /\ ~SP!IsAlive(target[s])
    BY <1>1, <1>8 DEF SP!AskErr, SP!TargetOK
  <2>2. Ended' # {}
    BY <1>1, <1>3, <2>1, FoundEnded
  <2>3. pc[s] \in SP!Asking /\ pc'[s] = "done"
    BY <1>1, <1>8 DEF SP!AskErr, SP!Respond
  <2>. QED BY <1>2, <1>4, <2>2, <2>3 DEF GetsOK, SP!Asking
<1>9. CASE SP!BodyEnd(s)
  BY <1>4, <1>9 DEF SP!BodyEnd, GetsOK, Getting
<1>10. CASE Refused(s)
  <2>. DEFINE t == reader[target[s]]
  <2>1. t \in Reqs /\ pc[t] \in Getting /\ pc[s] \in Getting /\ pc[s] # pc[t]
    <3>1. pc[s] = "get_wait" /\ target[s] \in Actors /\ t # None
      BY ONLY <1>10 DEF Refused
    <3>2. t \in Reqs
      BY <3>1
    <3>3. SP!NoLeakedLock
      BY DEF SP!ReaderInv
    <3>4. pc[t] \in SP!Streaming
      BY ONLY <3>1, <3>3 DEF SP!NoLeakedLock
    <3>. HIDE DEF s, t
    <3>. QED BY ONLY <3>1, <3>2, <3>4 DEF SP!Streaming, Getting
  <2>2. t = s
    <3>. HIDE DEF s, t
    <3>. QED BY <1>1, <2>1, OneGet
  <2>. QED BY <2>1, <2>2
<1>. HIDE DEF s
<1>. QED BY ONLY <1>1, <1>5, <1>6, <1>7, <1>8, <1>9, <1>10, RequestCases, ServerInv, ServerStep

\* The first write request is a POST, and the others are not.
LEMMA MethodOK ==
    ASSUME ClientInv, NEW k \in 1..Len(requests)
    PROVE  WriteQ(k).id = Id /\ WriteQ(k).method = IF k = 1 THEN "POST" ELSE "PATCH"
<1>1. requests[k] = [method |-> IF k = 1 THEN "POST" ELSE "PATCH", chunk |-> k]
  BY Zenon DEF ClientInv, CP!WriteInv, CP!WritesSerial
<1>2. requests[k].method = IF k = 1 THEN "POST" ELSE "PATCH"
  BY ONLY <1>1
<1>. QED BY ONLY <1>2 DEF WriteQ

\* A PATCH that is refused comes after the end of a session.
LEMMA PatchRefused ==
    ASSUME ServerInv, ClientInv, CauseInv, NEW k \in 1..Len(requests), SP!RejectRequest(W(k), WriteQ(k))
    PROVE  Ended # {}
<1>. USE TunnelAssumption DEF ServerInv, SP!TypeInv, SP!TypeOK
<1>1. WriteQ(k).id = Id /\ WriteQ(k).method = IF k = 1 THEN "POST" ELSE "PATCH"
  BY MethodOK
<1>2. Len(requests) \in {acks, acks + 1}
  BY Zenon DEF ClientInv, CP!WriteInv, CP!WritesSerial
<1>3. ~SP!LiveEntry(Id) /\ k # 1
  <2>1. SP!WellFormed(WriteQ(k))
    BY <1>1 DEF SP!WellFormed, Ids
  <2>2. SP!Missing(WriteQ(k)) /\ ~SP!CanCreate(WriteQ(k))
    BY <2>1 DEF SP!RejectRequest
  <2>. QED BY <1>1, <2>2 DEF SP!Missing, SP!CanCreate
<1>4. k - 1 \in 1..MaxChunks /\ k - 1 <= acks
  <2>1. k \in 1..MaxChunks /\ acks \in Nat
    BY OfferedOK DEF ClientInv, CP!TypeOK, CP!DataOK
  <2>. QED BY <1>2, <1>3, <2>1
<1>. DEFINE r == W(k - 1)
            a == target[r]
<1>5. r \in Reqs /\ a \in Actors
  <2>1. r \in Reqs /\ WritesOK(k - 1)
    BY <1>4, Requested DEF CauseInv
  <2>2. status[r] = "NO_CONTENT"
    BY <1>4, <2>1 DEF WritesOK
  <2>. QED BY <2>1, <2>2 DEF SP!WriteInv, SP!Progress
<1>6. ASSUME Ended = {} PROVE FALSE
  <2>1. SP!IsAlive(a) /\ \A b \in Actors : phase[b] # "dropped"
    BY <1>5, <1>6, FoundEnded DEF Ended
  <2>2. phase[a] # "unborn"
    BY <2>1 DEF SP!IsAlive
  <2>3. sid[a] = Id
    BY <1>5, <2>2 DEF SP!RegistryInv, SP!BornHasId, Ids
  <2>4. sessions[Id] = a
    BY <1>5, <2>1, <2>3 DEF SP!RegistryInv, SP!LiveReachable
  <2>. HIDE DEF a, r
  <2>5. a # None
    BY <1>5
  <2>. QED BY <1>3, <2>1, <2>4, <2>5 DEF SP!LiveEntry
<1>. QED BY <1>6

\* A step of the server keeps what is known of the write requests.
LEMMA WriteServer ==
    ASSUME ServerInv, ClientInv, CauseInv, ServerStep, NEW k \in 1..MaxChunks
    PROVE  WritesOK(k)'
<1>. DEFINE s == W(k)
<1>. USE DEF ServerInv, SP!TypeInv, SP!TypeOK
<1>1. s \in Reqs /\ \A j : s # G(j)
  BY Requested
<1>2. UNCHANGED <<requests, acks, pieces>> /\ WriteQ(k)' = WriteQ(k)
  BY ServerCases DEF clientVars, linkVars, WriteQ
<1>3. Ended \subseteq Ended'
  BY EndedStep DEF Next
<1>4. WritesOK(k)
  BY DEF CauseInv
<1>5. k <= acks => pc[s] = "done"
  BY <1>1, <1>4 DEF WritesOK, SP!WriteInv, SP!Progress
<1>6. CASE Same(s)
  BY <1>2, <1>3, <1>4, <1>6 DEF Same, WritesOK
<1>7. ASSUME NEW j \in 1..Len(requests), s = W(j), Arriving(s, WriteQ(j)) PROVE WritesOK(k)'
  <2>1. j = k
    BY <1>7, Requested
  <2>2. pc[s] = "new" /\ req'[s] = WriteQ(k)
    BY <1>1, <1>7, <2>1 DEF Arriving, SP!RejectRequest, SP!JoinSession, SP!CreateSession, SP!Arrive
  <2>3. CASE SP!RejectRequest(s, WriteQ(k))
    <3>1. Ended' # {}
      BY <1>3, <1>7, <2>1, <2>3, PatchRefused
    <3>2. pc'[s] = "done" /\ status'[s] = "BAD_REQUEST"
      BY <1>1, <2>3 DEF SP!RejectRequest, SP!Respond
    <3>. QED BY <1>2, <1>4, <1>5, <1>7, <2>1, <2>2, <3>1, <3>2 DEF WritesOK
  <2>4. CASE SP!JoinSession(s, WriteQ(k)) \/ \E a \in Actors : SP!CreateSession(s, WriteQ(k), a)
    <3>1. WriteQ(k).method # "GET"
      BY <1>7, <2>1, MethodOK
    <3>2. pc'[s] = "body" /\ status' = status
      BY <1>1, <2>4, <3>1 DEF SP!JoinSession, SP!CreateSession, SP!Dispatch
    <3>. QED BY <1>2, <1>3, <1>4, <1>5, <1>7, <2>1, <2>2, <3>2 DEF WritesOK, Writing
  <2>. QED BY <1>7, <2>1, <2>3, <2>4 DEF Arriving
<1>8. CASE Going(s)
  BY <1>2, <1>3, <1>4, <1>5, <1>8 DEF Going, WritesOK, Writing, Getting
<1>9. CASE SP!AskErr(s)
  <2>1. target[s] \in Actors /\ ~SP!IsAlive(target[s])
    BY <1>1, <1>9 DEF SP!AskErr, SP!TargetOK
  <2>2. Ended' # {}
    BY <1>1, <1>3, <2>1, FoundEnded
  <2>3. pc[s] \in SP!Asking /\ pc'[s] = "done" /\ req' = req
    BY <1>1, <1>9 DEF SP!AskErr, SP!Respond
  <2>. QED BY <1>2, <1>4, <1>5, <2>2, <2>3 DEF WritesOK, SP!Asking
<1>10. CASE SP!BodyEnd(s)
  <2>1. /\ pc[s] = "body" /\ pc'[s] = "done" /\ req' = req
        /\ status'[s] = IF req[s].frames = 0 THEN "BAD_REQUEST" ELSE "NO_CONTENT"
    BY <1>1, <1>10 DEF SP!BodyEnd, SP!Respond
  <2>2. req[s].frames = pieces[k]
    BY <1>4, <2>1 DEF WritesOK, WriteQ
  <2>. QED BY <1>2, <1>4, <1>5, <2>1, <2>2 DEF WritesOK
<1>11. CASE Refused(s)
  BY <1>4, <1>11 DEF Refused, WritesOK, Writing
<1>. HIDE DEF s
<1>. QED BY ONLY <1>1, <1>6, <1>7, <1>8, <1>9, <1>10, <1>11, RequestCases, ServerInv, ServerStep

\* A step of the client that sends nothing, and is told nothing, keeps CauseInv.
LEMMA CauseKept ==
    ASSUME ClientInv, CauseInv, UNCHANGED <<serverVars, requests, acks, gets, pieces>>,
           incoming' = "ask" => incoming = "ask", io' = "ending" => io = "ending"
    PROVE  CauseInv'
<1>1. UNCHANGED <<pc, req, status, Ended>>
  BY DEF serverVars, Ended
<1>2. ASSUME NEW k \in 1..MaxGets PROVE GetsOK(k)'
  BY <1>1 DEF CauseInv, GetsOK
<1>3. ASSUME NEW k \in 1..MaxChunks PROVE WritesOK(k)'
  BY <1>1 DEF CauseInv, WritesOK, WriteQ
<1>4. FailsForCause'
  BY <1>1 DEF CauseInv, FailsForCause
<1>. QED BY <1>2, <1>3, <1>4 DEF CauseInv

\* A pump fails when it is told of a request that was refused.
LEMMA CauseFail ==
    ASSUME ClientInv, CauseInv, UNCHANGED <<serverVars, linkVars>>, CP!Fail,
           Ended # {} \/ \E k \in 1..Len(requests) : pieces[k] = 0
    PROVE  CauseInv'
<1>1. UNCHANGED <<pc, req, status, Ended, requests, acks, gets, pieces>> /\ incoming' = "dropped"
  BY DEF serverVars, linkVars, Ended, CP!Fail
<1>2. ASSUME NEW k \in 1..MaxGets PROVE GetsOK(k)'
  BY <1>1 DEF CauseInv, GetsOK
<1>3. ASSUME NEW k \in 1..MaxChunks PROVE WritesOK(k)'
  BY <1>1 DEF CauseInv, WritesOK, WriteQ
<1>4. FailsForCause'
  BY <1>1 DEF FailsForCause
<1>. QED BY <1>2, <1>3, <1>4 DEF CauseInv

\* The client writes or sends one more chunk: what is known of those before
\* is not affected.
LEMMA CauseGrows ==
    ASSUME ClientInv, CauseInv, UNCHANGED <<serverVars, acks, gets, incoming, io>>,
           Len(requests') >= Len(requests), \A k \in 1..Len(requests) : requests'[k] = requests[k] /\ pieces'[k] = pieces[k],
           Len(requests') \in Nat
    PROVE  CauseInv'
<1>0. Len(requests) \in Nat
  BY DEF ClientInv, CP!TypeOK, CP!DataOK
<1>1. UNCHANGED <<pc, req, status, Ended>>
  BY DEF serverVars, Ended
<1>2. ASSUME NEW k \in 1..MaxGets PROVE GetsOK(k)'
  BY <1>1 DEF CauseInv, GetsOK
<1>3. ASSUME NEW k \in 1..MaxChunks PROVE WritesOK(k)'
  <2>1. WritesOK(k)
    BY DEF CauseInv
  <2>2. k <= Len(requests) => k \in 1..Len(requests) /\ WriteQ(k)' = WriteQ(k) /\ pieces'[k] = pieces[k] /\ k <= Len(requests')
    BY <1>0 DEF WriteQ
  <2>. QED BY <1>1, <2>1, <2>2 DEF WritesOK
<1>4. FailsForCause'
  <2>1. ASSUME NEW k \in 1..Len(requests), pieces[k] = 0 PROVE k \in 1..Len(requests') /\ pieces'[k] = 0
    BY <1>0, <2>1
  <2>. QED BY <1>1, <2>1 DEF CauseInv, FailsForCause
<1>. QED BY <1>2, <1>3, <1>4 DEF CauseInv

\* Every step of the client keeps CauseInv.
LEMMA CauseClient ==
    ASSUME ServerInv, ClientInv, CauseInv, ClientStep
    PROVE  CauseInv'
<1>. USE TunnelAssumption
<1>1. UNCHANGED serverVars
  BY ClientCases
<1>2. /\ requests \in Seq([method : {"POST", "PATCH"}, chunk : Nat]) /\ Len(requests) \in Nat /\ acks \in Nat /\ gets \in Nat
      /\ outgoing = "wait" => Len(requests) = acks + 1
      /\ pieces \in Seq(Sizes) /\ Len(pieces) = written /\ Len(requests) <= written /\ written <= MaxChunks /\ written \in Nat
  BY DEF ClientInv, LinkInv, CP!TypeOK, CP!DataOK, CP!WriteInv, CP!PumpOK
<1>3. outgoing = "wait" => Len(requests) \in 1..MaxChunks
  BY <1>2
<1>4. CASE outgoing = "wait" /\ status[W(Len(requests))] = "NO_CONTENT" /\ CP!OutAck /\ UNCHANGED linkVars
  <2>1. UNCHANGED <<requests, gets, incoming, io, pieces, pc, req, status, Ended>> /\ acks' = acks + 1
    BY <1>1, <1>4 DEF CP!OutAck, CP!inVars, linkVars, serverVars, Ended
  <2>2. ASSUME NEW k \in 1..MaxGets PROVE GetsOK(k)'
    BY <2>1 DEF CauseInv, GetsOK
  <2>3. ASSUME NEW k \in 1..MaxChunks PROVE WritesOK(k)'
    <3>1. WritesOK(k) /\ WriteQ(k)' = WriteQ(k)
      BY <2>1 DEF CauseInv, WriteQ
    <3>2. k <= acks' => k <= acks \/ k = Len(requests)
      BY <1>2, <1>4, <2>1
    <3>. QED BY <1>4, <2>1, <3>1, <3>2 DEF WritesOK
  <2>4. FailsForCause'
    BY <2>1 DEF CauseInv, FailsForCause
  <2>. QED BY <2>2, <2>3, <2>4 DEF CauseInv
<1>5. CASE outgoing = "wait" /\ status[W(Len(requests))] = "BAD_REQUEST" /\ CP!OutFail /\ UNCHANGED linkVars
  <2>1. Ended # {} \/ \E k \in 1..Len(requests) : pieces[k] = 0
    <3>1. WritesOK(Len(requests))
      BY <1>3, <1>5 DEF CauseInv
    <3>2. Len(requests) \in 1..Len(requests)
      BY <1>3, <1>5
    <3>. QED BY <1>5, <3>1, <3>2 DEF WritesOK
  <2>. QED BY <1>1, <1>5, <2>1, CauseFail DEF CP!OutFail
<1>6. CASE CP!InAsk /\ seen' = 0 /\ UNCHANGED <<pieces, got>>
  <2>1. /\ UNCHANGED <<requests, acks, io, pieces, pc, req, status, Ended>>
        /\ gets' = gets + 1 /\ incoming = "ask" /\ incoming' = "head"
    BY <1>1, <1>6 DEF CP!InAsk, CP!outVars, serverVars, Ended
  <2>2. ASSUME NEW k \in 1..MaxGets PROVE GetsOK(k)'
    <3>1. GetsOK(k)
      BY DEF CauseInv
    <3>2. k < gets' => k < gets \/ k = gets
      BY <1>2, <2>1
    <3>3. k <= gets => k <= gets'
      BY <1>2, <2>1
    <3>. QED BY <2>1, <3>1, <3>2, <3>3 DEF GetsOK
  <2>3. ASSUME NEW k \in 1..MaxChunks PROVE WritesOK(k)'
    BY <2>1 DEF CauseInv, WritesOK, WriteQ
  <2>4. FailsForCause'
    BY <2>1 DEF CauseInv, FailsForCause
  <2>. QED BY <2>2, <2>3, <2>4 DEF CauseInv
<1>7. CASE incoming = "head" /\ status[G(gets)] \in {"BAD_REQUEST", "TOO_MANY_REQUESTS"} /\ CP!InFail /\ UNCHANGED linkVars
  <2>1. Ended # {}
    <3>1. gets \in 1..MaxGets
      BY <1>2, <1>7 DEF ClientInv, LinkInv
    <3>. QED BY <1>7, <3>1 DEF CauseInv, GetsOK
  <2>. QED BY <1>1, <1>7, <2>1, CauseFail DEF CP!InFail
<1>8. CASE incoming = "body" /\ pc[G(gets)] = "done" /\ seen = Len(body[G(gets)]) /\ CP!InBodyEnd /\ UNCHANGED linkVars
  <2>1. UNCHANGED <<requests, acks, gets, io, pieces, pc, req, status, Ended>>
    BY <1>1, <1>8 DEF CP!InBodyEnd, CP!outVars, linkVars, serverVars, Ended
  <2>2. ASSUME NEW k \in 1..MaxGets PROVE GetsOK(k)'
    BY <1>8, <2>1 DEF CauseInv, GetsOK
  <2>3. ASSUME NEW k \in 1..MaxChunks PROVE WritesOK(k)'
    BY <2>1 DEF CauseInv, WritesOK, WriteQ
  <2>4. FailsForCause'
    BY <2>1 DEF CauseInv, FailsForCause
  <2>. QED BY <2>2, <2>3, <2>4 DEF CauseInv
<1>9. ASSUME NEW n \in Sizes, CP!PollWrite, pieces' = Append(pieces, n) PROVE CauseInv'
  <2>1. UNCHANGED <<requests, acks, gets, incoming, io>>
    BY <1>9 DEF CP!PollWrite, CP!inVars
  <2>2. \A k \in 1..Len(requests) : pieces'[k] = pieces[k]
    BY <1>2, <1>9
  <2>. QED BY <1>1, <1>2, <2>1, <2>2, CauseGrows
<1>10. CASE CP!OutSend /\ UNCHANGED linkVars
  <2>1. UNCHANGED <<acks, gets, incoming, io, pieces>> /\ requests' = Append(requests, CP!WriteRequest(Head(requestQ)))
    BY <1>10 DEF CP!OutSend, CP!inVars, linkVars
  <2>. DEFINE e == CP!WriteRequest(Head(requestQ))
  <2>2. requests' = Append(requests, e)
    BY <2>1
  <2>. HIDE DEF e
  <2>3. Len(requests') = Len(requests) + 1 /\ \A k \in 1..Len(requests) : requests'[k] = requests[k]
    BY <1>2, <2>2
  <2>. QED BY <1>1, <1>2, <2>1, <2>3, CauseGrows
<1>11. CASE (CP!InHead \/ CP!InSend \/ CP!InSent \/ CP!PollRead) /\ UNCHANGED linkVars
  <2>1. UNCHANGED <<requests, acks, gets, io, pieces>>
    BY <1>11, Zenon DEF CP!InHead, CP!InSend, CP!InSent, CP!PollRead, CP!outVars, linkVars
  <2>2. incoming' = "ask" => incoming = "ask"
    BY <1>11 DEF CP!InHead, CP!InSend, CP!InSent, CP!PollRead
  <2>. QED BY <1>1, <2>1, <2>2, CauseKept
<1>12. CASE CP!InFrame /\ UNCHANGED pieces
  BY <1>1, <1>12, CauseKept DEF CP!InFrame, CP!outVars
<1>. QED BY ONLY ClientStep, ClientCases, <1>4, <1>5, <1>6, <1>7, <1>8, <1>9, <1>10, <1>11, <1>12

\* CauseInv holds in every state.
LEMMA CauseInvariant == Spec => []CauseInv
<1>1. Init => CauseInv
  <2>1. ASSUME Init, NEW k \in 1..MaxGets PROVE GetsOK(k)
    BY <2>1, Requested, TunnelAssumption DEF Init, S!Init, C!Init, GetsOK
  <2>2. ASSUME Init, NEW k \in 1..MaxChunks PROVE WritesOK(k)
    BY <2>2, Requested, TunnelAssumption DEF Init, S!Init, C!Init, WritesOK
  <2>3. Init => FailsForCause
    BY DEF Init, C!Init, FailsForCause
  <2>. QED BY <2>1, <2>2, <2>3 DEF CauseInv
<1>2. ASSUME ServerInv, ClientInv, CauseInv, [Next]_vars PROVE CauseInv'
  <2>1. CASE ServerStep
    <3>1. UNCHANGED <<io, requests, pieces>> /\ Ended \subseteq Ended'
      BY <1>2, <2>1, ServerCases, EndedStep DEF clientVars, linkVars
    <3>2. FailsForCause'
      BY <1>2, <3>1 DEF CauseInv, FailsForCause
    <3>. QED BY <1>2, <2>1, <3>2, GetServer, WriteServer DEF CauseInv
  <2>2. CASE ClientStep
    BY <1>2, <2>2, CauseClient
  <2>3. CASE UNCHANGED vars
    BY <1>2, <2>3, CauseKept DEF vars, clientVars, linkVars
  <2>. QED BY <1>2, <2>1, <2>2, <2>3 DEF Next
<1>. QED BY <1>1, <1>2, ServerInvariant, ClientInvariant, PTL DEF Spec

\* As long as HTTP works, the client's task fails only after a session has
\* ended or was not established, or after the application has written zero
\* bytes: the pumps of a tunnel and the server's handlers and actors never
\* make each other fail.
THEOREM CauseCorrect == Spec => []FailsForCause
<1>1. CauseInv => FailsForCause
  BY DEF CauseInv
<1>. QED BY <1>1, CauseInvariant, PTL

-----------------------------------------------------------------------------
(* The sessions of a tunnel.                                               *)

Born == {a \in Actors : phase[a] # "unborn"}

\* Sessions are born in order, the table has the last one or none, and one is
\* born only when none was before or one of those has ended.
LineInv ==
    /\ \A a, b \in Actors : a < b /\ b \in Born => a \in Born
    /\ sessions[Id] # None => \A b \in Born : b <= sessions[Id]
    /\ \A a, b \in Born : b < a => \E d \in Ended : d < a

\* What a step may do to the table and to the sessions.
LEMMA LineCases ==
    ASSUME ClientInv, [Next]_vars
    PROVE  \/ \E r \in Reqs, q \in Offered, a \in Actors : NextSession(a) /\ SP!CreateSession(r, q, a)
           \/ \E a \in Actors : SP!Moves(a)
           \/ \E a \in Actors : SP!Drop(a)
           \/ UNCHANGED SP!tableVars
<1>. USE DEF SP!tableVars
<1>1. ASSUME NEW r \in Reqs, NEW q \in Offered, Arriving(r, q)
      PROVE  (\E a \in Actors : NextSession(a) /\ SP!CreateSession(r, q, a)) \/ UNCHANGED SP!tableVars
  BY <1>1 DEF Arriving, SP!RejectRequest, SP!JoinSession
<1>2. ASSUME NEW r \in Reqs, Handling(r) PROVE UNCHANGED SP!tableVars
  BY <1>2 DEF Handling, SP!Ask, SP!AskErr, SP!BodyFrame, SP!BodyEnd, SP!CountTx,
              SP!StreamRead, SP!StreamYield, SP!StreamEnd, SP!StreamAborted
<1>3. ASSUME NEW a \in Actors, Living(a) PROVE SP!Moves(a) \/ SP!Drop(a) \/ UNCHANGED SP!tableVars
  <2>1. SP!OnStartOk(a) \/ SP!OnStartErr(a) \/ SP!Kill(a) \/ SP!WriteErr(a) => SP!Moves(a)
    BY DEF SP!OnStartOk, SP!OnStartErr, SP!Kill, SP!MayKill, SP!WriteErr, SP!CtxStop, SP!LoopEnds, SP!Moves, SP!IsAlive
  <2>2. SP!ActorTimeout(a, "total") \/ SP!HandleSessionRead(a) \/ SP!HandleSessionWrite(a) \/ SP!HandleReset(a)
           \/ SP!WriteOk(a) \/ SP!UpstreamSends(a) \/ SP!UpstreamCloses(a) => UNCHANGED SP!tableVars
    BY DEF SP!ActorTimeout, SP!HandleSessionRead, SP!HandleSessionWrite, SP!HandleReset, SP!WriteOk, SP!UpstreamSends, SP!UpstreamCloses
  <2>. QED BY <1>3, <2>1, <2>2 DEF Living
<1>4. CASE ClientStep \/ UNCHANGED vars
  BY <1>4, ClientCases DEF vars, serverVars
<1>5. CASE ServerStep
  <2>1. CASE \E k \in 1..Len(requests) : Arriving(W(k), WriteQ(k))
    BY <1>1, <2>1, OfferedOK, Zenon
  <2>2. CASE \E k \in 1..gets : Arriving(G(k), GetQ)
    BY <1>1, <2>2, OfferedOK, Zenon
  <2>. QED BY ONLY <1>2, <1>3, <1>5, <2>1, <2>2, ServerCases
<1>. QED BY <1>4, <1>5 DEF Next

\* A session that is created comes after all others.
LEMMA BornLast ==
    ASSUME LineInv, NEW a \in Actors, a \notin Born, NextSession(a)
    PROVE  \A b \in Actors : b \in Born <=> b < a
<1>1. Actors \subseteq Int
  BY TunnelAssumption DEF Actors
<1>2. ASSUME NEW b \in Actors, b \in Born PROVE b < a
  BY <1>1, <1>2 DEF LineInv
<1>3. ASSUME NEW b \in Actors, b < a PROVE b \in Born
  BY <1>1, <1>3 DEF NextSession, Born
<1>. QED BY <1>2, <1>3

\* The first session is created when there is none, any other when one has
\* ended.
LEMMA BornAfter ==
    ASSUME ServerInv, NEW r, NEW q \in Offered, NEW a \in Actors, SP!CreateSession(r, q, a), Born # {}
    PROVE  Ended # {}
<1>. USE TunnelAssumption DEF ServerInv, SP!TypeInv, SP!TypeOK
<1>1. SUFFICES ASSUME Ended = {} PROVE FALSE
  OBVIOUS
<1>2. q.id = Id
  BY DEF Offered, Ids
<1>3. ~SP!LiveEntry(Id)
  BY <1>2 DEF SP!CreateSession, SP!Missing
<1>4. PICK b \in Actors : phase[b] # "unborn"
  BY DEF Born
<1>5. SP!IsAlive(b) /\ \A c \in Actors : phase[c] # "dropped"
  BY <1>1, <1>4 DEF SP!IsAlive, SP!Phases, Ended
<1>6. sid[b] = Id
  BY <1>4 DEF SP!RegistryInv, SP!BornHasId, Ids
<1>7. sessions[Id] = b /\ b # None
  BY <1>5, <1>6 DEF SP!RegistryInv, SP!LiveReachable
<1>. QED BY <1>3, <1>5, <1>7 DEF SP!LiveEntry

\* Every step keeps LineInv.
LEMMA LineStep ==
    ASSUME ServerInv, ClientInv, LineInv, [Next]_vars
    PROVE  LineInv'
<1>. USE TunnelAssumption DEF ServerInv, SP!TypeInv, SP!TypeOK
<1>0. Actors \subseteq Int /\ Id \in Ids /\ Ended \subseteq Born /\ None \notin Actors
  BY SMTT(30) DEF Actors, Ids, Ended, Born
<1>1. Ended \subseteq Ended'
  BY EndedStep
<1>2. ASSUME Born' = Born, sessions'[Id] \in {sessions[Id], None} PROVE LineInv'
  BY <1>1, <1>2 DEF LineInv
<1>3. ASSUME NEW r \in Reqs, NEW q \in Offered, NEW a \in Actors, NextSession(a), SP!CreateSession(r, q, a)
      PROVE  LineInv'
  <2>1. q.id = Id
    BY DEF Offered, Ids
  <2>2. a \notin Born /\ phase' = [phase EXCEPT ![a] = "connecting"] /\ sessions' = [sessions EXCEPT ![Id] = a]
    BY <1>3, <2>1 DEF SP!CreateSession, SP!NewSession, Born
  <2>3. Born' = Born \cup {a} /\ sessions'[Id] = a
    BY <1>0, <2>2 DEF Born
  <2>4. \A b \in Actors : b \in Born <=> b < a
    BY <1>3, <2>2, BornLast
  <2>5. \A b, c \in Actors : b < c /\ c \in Born' => b \in Born'
    BY <1>0, <2>3, <2>4
  <2>6. \A b \in Born' : b <= sessions'[Id]
    BY <1>0, <2>3, <2>4 DEF Born
  <2>7. ASSUME NEW b \in Born', NEW c \in Born', c < b PROVE \E d \in Ended' : d < b
    <3>1. CASE b = a
      <4>1. c \in Born
        BY <1>0, <2>3, <2>7, <3>1 DEF Born
      <4>2. PICK d \in Ended : TRUE
        BY <1>3, <4>1, BornAfter
      <4>3. d \in Actors /\ d < a
        BY <1>0, <2>4, <4>2 DEF Ended
      <4>. QED BY <1>1, <3>1, <4>2, <4>3
    <3>2. CASE b # a
      <4>1. b \in Born /\ b \in Actors
        BY <2>3, <3>2 DEF Born
      <4>2. c \in Actors /\ c # a
        BY <1>0, <2>3, <2>4, <2>7, <4>1 DEF Born
      <4>3. c \in Born
        BY <2>3, <4>2 DEF Born
      <4>. QED BY <1>1, <2>7, <4>1, <4>3 DEF LineInv
    <3>. QED BY <3>1, <3>2
  <2>. QED BY <2>5, <2>6, <2>7 DEF LineInv
<1>4. ASSUME NEW a \in Actors, SP!Moves(a) PROVE LineInv'
  <2>1. PICK p \in {"running", "stopped", "failed"} : phase' = [phase EXCEPT ![a] = p]
    BY <1>4 DEF SP!Moves
  <2>2. phase[a] # "unborn" /\ sessions' = sessions
    BY <1>4 DEF SP!Moves, SP!IsAlive
  <2>. QED BY <1>2, <2>1, <2>2 DEF Born
<1>5. ASSUME NEW a \in Actors, SP!Drop(a) PROVE LineInv'
  <2>1. phase[a] = "stopped" /\ phase' = [phase EXCEPT ![a] = "dropped"] /\ sessions' = [sessions EXCEPT ![sid[a]] = None]
    BY <1>5 DEF SP!Drop, SP!RemoveEntry
  <2>. QED BY <1>0, <1>2, <2>1 DEF Born
<1>6. CASE UNCHANGED SP!tableVars
  BY <1>2, <1>6 DEF SP!tableVars, Born
<1>. QED BY <1>3, <1>4, <1>5, <1>6, LineCases

-----------------------------------------------------------------------------
(* What upstream receives.                                                 *)

\* A handler writes the frames of its chunk and no more.
BoundOK(k) ==
    /\ pc[W(k)] # "new" => next[W(k)] <= pieces[k] + 1
    /\ pc[W(k)] \in {"put_send", "put_wait", "put_ok"} => next[W(k)] <= pieces[k]
    /\ status[W(k)] = "NO_CONTENT" => pieces[k] > 0

\* Later chunks go to later sessions, or to the same one.
TargetsInOrder ==
    \A j, k \in 1..MaxChunks : j < k /\ target[W(j)] # None /\ target[W(k)] # None => target[W(j)] <= target[W(k)]

\* Of the chunks that were sent, in order, a connection has some.
ChunksInOrder(up) ==
    /\ \A i \in 1..Len(up) : \E k \in 1..Len(requests) : up[i][1] = W(k)
    /\ \A i, j \in 1..Len(up) : i < j => up[i][1][2] <= up[j][1][2]

ReceiveInv ==
    /\ \A k \in 1..MaxChunks : BoundOK(k)
    /\ TargetsInOrder
    /\ \A a \in Actors : ChunksInOrder(upstream[a])

\* The write request that is not answered is the last one: those before were
\* acknowledged, and those after have not arrived.
LEMMA OneWrite ==
    ASSUME ServerInv, ClientInv, CauseInv, NEW k \in 1..MaxChunks, pc[W(k)] # "done", pc[W(k)] # "new" \/ k <= Len(requests)
    PROVE  /\ k = Len(requests)
           /\ \A j \in 1..MaxChunks : j < k => status[W(j)] = "NO_CONTENT" /\ pc[W(j)] = "done" /\ target[W(j)] \in Actors
           /\ \A j \in 1..MaxChunks : j > k => pc[W(j)] = "new" /\ target[W(j)] = None
<1>. USE TunnelAssumption
<1>1. /\ Len(requests) \in Nat /\ acks \in Nat /\ Len(requests) \in {acks, acks + 1}
  BY DEF ClientInv, CP!TypeOK, CP!DataOK, CP!WriteInv, CP!WritesSerial
<1>2. ASSUME NEW j \in 1..MaxChunks
      PROVE  /\ W(j) \in Reqs /\ WritesOK(j)
             /\ j <= acks => status[W(j)] = "NO_CONTENT" /\ pc[W(j)] = "done" /\ target[W(j)] \in Actors
             /\ pc[W(j)] = "new" => target[W(j)] = None
  <2>1. W(j) \in Reqs /\ WritesOK(j)
    BY Requested DEF CauseInv
  <2>2. j <= acks => status[W(j)] = "NO_CONTENT"
    BY <2>1 DEF WritesOK
  <2>. QED BY <2>1, <2>2 DEF ServerInv, SP!WriteInv, SP!Progress
<1>3. k <= Len(requests) /\ ~(k <= acks)
  BY <1>2 DEF WritesOK
<1>4. k = Len(requests) /\ k = acks + 1
  BY <1>1, <1>3
<1>5. ASSUME NEW j \in 1..MaxChunks, j > k PROVE pc[W(j)] = "new" /\ target[W(j)] = None
  <2>1. ~(j <= Len(requests))
    BY <1>4, <1>5
  <2>. QED BY <1>2, <2>1 DEF WritesOK
<1>6. ASSUME NEW j \in 1..MaxChunks, j < k PROVE j <= acks
  BY <1>1, <1>4, <1>6
<1>. QED BY <1>2, <1>4, <1>5, <1>6

\* The frames of a chunk that was sent are a number.
LEMMA FramesNat ==
    ASSUME ClientInv, NEW k \in 1..MaxChunks, k <= Len(requests)
    PROVE  k \in 1..Len(pieces) /\ k \in 1..Len(requests) /\ pieces[k] \in Nat
<1>1. Len(requests) \in Nat /\ pieces \in Seq(Sizes) /\ MaxChunks \in Nat
  BY TunnelAssumption DEF ClientInv, LinkInv, CP!TypeOK, CP!DataOK
<1>2. k \in 1..Len(requests)
  BY <1>1
<1>3. k \in 1..Len(pieces)
  BY <1>2, OfferedOK
<1>4. pieces[k] \in Sizes
  BY ONLY <1>1, <1>3
<1>. QED BY <1>2, <1>3, <1>4, TunnelAssumption

\* What a step of the server may do to the frames of a request.
LEMMA FrameCases ==
    ASSUME ServerInv, ServerStep, NEW s \in Reqs
    PROVE  \/ UNCHANGED <<pc[s], next[s], status[s]>>
           \/ /\ next'[s] = next[s] /\ status'[s] \in {status[s], "OK", "BAD_REQUEST", "TOO_MANY_REQUESTS"}
              /\ \/ pc'[s] \in {"done", "body"} \cup Getting
                 \/ pc[s] \in {"put_send", "put_wait"} /\ pc'[s] \in {"put_wait", "put_ok"}
           \/ SP!BodyFrame(s) \/ SP!BodyEnd(s) \/ SP!CountTx(s)
<1>. USE DEF ServerInv, SP!TypeInv, SP!TypeOK
<1>. DEFINE Kept == UNCHANGED <<pc[s], next[s], status[s]>>
            Moved == /\ next'[s] = next[s] /\ status'[s] \in {status[s], "OK", "BAD_REQUEST", "TOO_MANY_REQUESTS"}
                     /\ \/ pc'[s] \in {"done", "body"} \cup Getting
                        \/ pc[s] \in {"put_send", "put_wait"} /\ pc'[s] \in {"put_wait", "put_ok"}
<1>1. ASSUME NEW r, NEW q, Arriving(r, q) PROVE Kept \/ Moved
  <2>1. CASE r # s
    BY <1>1, <2>1 DEF Arriving, SP!RejectRequest, SP!JoinSession, SP!CreateSession, SP!Arrive, SP!Respond, SP!Dispatch
  <2>2. CASE r = s
    BY <1>1, <2>2 DEF Arriving, SP!RejectRequest, SP!JoinSession, SP!CreateSession, SP!Arrive, SP!Respond, SP!Dispatch, Getting
  <2>. QED BY <2>1, <2>2
<1>2. ASSUME NEW r, r # s, Handling(r) PROVE Kept
  BY <1>2 DEF Handling, SP!Ask, SP!AskErr, SP!Respond, SP!BodyFrame, SP!BodyEnd, SP!CountTx,
              SP!StreamRead, SP!StreamYield, SP!StreamEnd, SP!StreamAborted
<1>3. ASSUME Handling(s) PROVE Moved \/ SP!BodyFrame(s) \/ SP!BodyEnd(s) \/ SP!CountTx(s)
  BY <1>3 DEF Handling, SP!Ask, SP!AskErr, SP!Respond, SP!StreamRead, SP!StreamYield, SP!StreamEnd, SP!StreamAborted, Getting
<1>4. ASSUME NEW a \in Actors, SP!HandleSessionRead(a) PROVE Kept \/ Moved
  <2>. DEFINE r == Head(mailbox[a]).req
  <2>1. /\ UNCHANGED next
        /\ \/ UNCHANGED <<pc, status>>
           \/ \E l \in {"get_first", "done"} : pc' = [pc EXCEPT ![r] = l]
        /\ \/ UNCHANGED status
           \/ \E c \in {"OK", "TOO_MANY_REQUESTS"} : status' = [status EXCEPT ![r] = c]
    BY <1>4 DEF SP!HandleSessionRead, SP!Respond
  <2>. HIDE DEF r
  <2>2. CASE r # s
    BY <2>1, <2>2
  <2>3. CASE r = s
    BY <2>1, <2>3 DEF Getting
  <2>. QED BY <2>2, <2>3
<1>5. ASSUME NEW a \in Actors, SP!WriteOk(a) \/ SP!WriteErr(a) PROVE Kept \/ Moved
  BY <1>5 DEF SP!WriteOk, SP!WriteErr, SP!ReplyWritten
<1>6. ASSUME NEW a \in Actors, Living(a) PROVE Kept \/ Moved
  <2>1. SP!HandleSessionRead(a) \/ SP!WriteOk(a) \/ SP!WriteErr(a) \/ UNCHANGED SP!reqVars
    BY <1>6 DEF Living, SP!OnStartOk, SP!OnStartErr, SP!ActorTimeout, SP!Kill, SP!Drop, SP!HandleSessionWrite, SP!HandleReset,
                SP!UpstreamSends, SP!UpstreamCloses
  <2>2. UNCHANGED SP!reqVars => Kept
    BY DEF SP!reqVars
  <2>. QED BY <1>4, <1>5, <2>1, <2>2
<1>. QED BY ONLY ServerStep, ServerCases, <1>1, <1>2, <1>3, <1>6

\* The handler of a chunk writes only its frames.
LEMMA BoundStep ==
    ASSUME ServerInv, ClientInv, CauseInv, CauseInv', ClientInv', ServerStep, NEW k \in 1..MaxChunks, BoundOK(k)
    PROVE  BoundOK(k)'
<1>. USE TunnelAssumption DEF ServerInv, SP!TypeInv, SP!TypeOK
<1>. DEFINE s == W(k)
<1>1. s \in Reqs /\ next[s] \in Nat
  BY Requested
<1>2. UNCHANGED <<requests, pieces>> /\ WriteQ(k)' = WriteQ(k)
  BY ServerCases DEF clientVars, linkVars, WriteQ
<1>3. pc[s] # "new" => k <= Len(requests) /\ req[s].frames = pieces[k]
  <2>1. WritesOK(k)
    BY DEF CauseInv
  <2>2. WriteQ(k).frames = pieces[k]
    BY ONLY DEF WriteQ
  <2>. QED BY ONLY <2>1, <2>2 DEF WritesOK
<1>4. pc'[s] # "new" => k <= Len(requests)
  BY <1>2 DEF CauseInv, WritesOK
<1>5. k <= Len(requests) => pieces[k] \in Nat
  BY FramesNat
<1>6. (pc[s] = "new" => next[s] = 1) /\ (status[s] = "NO_CONTENT" => pc[s] = "done")
  BY <1>1 DEF SP!WriteInv, SP!Progress
<1>7. CASE UNCHANGED <<pc[s], next[s], status[s]>>
  BY <1>2, <1>7 DEF BoundOK
<1>8. CASE /\ next'[s] = next[s] /\ status'[s] \in {status[s], "OK", "BAD_REQUEST", "TOO_MANY_REQUESTS"}
           /\ \/ pc'[s] \in {"done", "body"} \cup Getting
              \/ pc[s] \in {"put_send", "put_wait"} /\ pc'[s] \in {"put_wait", "put_ok"}
  <2>1. pc'[s] # "new" => next'[s] <= pieces[k] + 1
    BY <1>1, <1>4, <1>5, <1>6, <1>8 DEF BoundOK
  <2>2. pc'[s] \in {"put_send", "put_wait", "put_ok"} => next'[s] <= pieces[k]
    BY <1>8 DEF BoundOK, Getting
  <2>3. status'[s] = "NO_CONTENT" => pieces[k] > 0
    BY <1>8 DEF BoundOK
  <2>. QED BY <1>2, <2>1, <2>2, <2>3 DEF BoundOK
<1>9. CASE SP!BodyFrame(s)
  BY <1>1, <1>2, <1>3, <1>9 DEF SP!BodyFrame, BoundOK
<1>10. CASE SP!BodyEnd(s)
  BY <1>1, <1>2, <1>3, <1>5, <1>10 DEF SP!BodyEnd, SP!Respond, BoundOK
<1>11. CASE SP!CountTx(s)
  BY <1>1, <1>2, <1>3, <1>5, <1>11 DEF SP!CountTx, BoundOK
<1>. HIDE DEF s
<1>. QED BY ONLY <1>1, <1>7, <1>8, <1>9, <1>10, <1>11, FrameCases, ServerInv, ServerStep

\* A request finds the last session, or creates one that then is the last.
LEMMA TargetCases ==
    ASSUME ServerInv, ClientInv, LineInv, ServerStep, NEW s \in Reqs, target'[s] # target[s]
    PROVE  /\ pc[s] = "new"
           /\ (\E k \in 1..Len(requests) : s = W(k)) \/ (\E k \in 1..gets : s = G(k))
           /\ target'[s] \in Actors /\ \A b \in Born : b <= target'[s]
           /\ \A r \in Reqs \ {s} : target'[r] = target[r]
<1>. USE TunnelAssumption DEF ServerInv, SP!TypeInv, SP!TypeOK
<1>1. ASSUME NEW r, NEW q \in Offered, Arriving(r, q), r \in Reqs
      PROVE  /\ r = s /\ pc[s] = "new"
             /\ target'[s] \in Actors /\ \A b \in Born : b <= target'[s]
             /\ \A t \in Reqs \ {s} : target'[t] = target[t]
  <2>1. q.id = Id /\ Id \in Ids
    BY DEF Offered, Ids
  <2>2. CASE SP!RejectRequest(r, q)
    BY <2>2 DEF SP!RejectRequest
  <2>3. CASE SP!JoinSession(r, q)
    <3>1. pc[r] = "new" /\ target' = [target EXCEPT ![r] = sessions[Id]] /\ sessions[Id] # None
      BY <2>1, <2>3 DEF SP!JoinSession, SP!Arrive, SP!Dispatch, SP!LiveEntry
    <3>2. sessions[Id] \in Actors /\ \A b \in Born : b <= sessions[Id]
      BY <2>1, <3>1 DEF LineInv
    <3>. QED BY <1>1, <3>1, <3>2
  <2>4. ASSUME NEW a \in Actors, NextSession(a), SP!CreateSession(r, q, a)
        PROVE  /\ r = s /\ pc[s] = "new"
               /\ target'[s] \in Actors /\ \A b \in Born : b <= target'[s]
               /\ \A t \in Reqs \ {s} : target'[t] = target[t]
    <3>1. pc[r] = "new" /\ target' = [target EXCEPT ![r] = a] /\ a \notin Born
      BY <2>4 DEF SP!CreateSession, SP!NewSession, SP!Arrive, SP!Dispatch, Born
    <3>2. \A b \in Born : b <= a
      <4>1. \A b \in Actors : b \in Born <=> b < a
        BY <2>4, <3>1, BornLast
      <4>2. Born \subseteq Actors /\ Actors \subseteq Int
        BY DEF Born, Actors
      <4>. QED BY <4>1, <4>2
    <3>. QED BY <1>1, <3>1, <3>2
  <2>. QED BY <1>1, <2>2, <2>3, <2>4 DEF Arriving
<1>2. ASSUME NEW r \in Reqs, Handling(r) PROVE FALSE
  BY <1>2 DEF Handling, SP!Ask, SP!AskErr, SP!BodyFrame, SP!BodyEnd, SP!CountTx,
              SP!StreamRead, SP!StreamYield, SP!StreamEnd, SP!StreamAborted
<1>3. ASSUME NEW a \in Actors, Living(a) PROVE FALSE
  BY <1>3 DEF Living, SP!OnStartOk, SP!OnStartErr, SP!ActorTimeout, SP!Kill, SP!Drop, SP!HandleSessionRead, SP!HandleSessionWrite,
              SP!HandleReset, SP!WriteOk, SP!WriteErr, SP!UpstreamSends, SP!UpstreamCloses, SP!reqVars
<1>4. CASE \E k \in 1..Len(requests) : Arriving(W(k), WriteQ(k))
  BY <1>1, <1>4, OfferedOK
<1>5. CASE \E k \in 1..gets : Arriving(G(k), GetQ)
  BY <1>1, <1>5, OfferedOK
<1>. QED BY ONLY ServerStep, ServerCases, <1>2, <1>3, <1>4, <1>5

\* A session that a request found was born.
LEMMA FoundBorn ==
    ASSUME ServerInv, NEW r \in Reqs, target[r] # None
    PROVE  target[r] \in Born
BY DEF ServerInv, SP!TypeInv, SP!TypeOK, SP!WriteInv, SP!Progress, Born

\* Later chunks go to later sessions.
LEMMA TargetStep ==
    ASSUME ServerInv, ClientInv, CauseInv, LineInv, TargetsInOrder, ServerStep
    PROVE  TargetsInOrder'
<1>1. SUFFICES ASSUME NEW j \in 1..MaxChunks, NEW k \in 1..MaxChunks, j < k, target'[W(j)] # None, target'[W(k)] # None
               PROVE  target'[W(j)] <= target'[W(k)]
  BY DEF TargetsInOrder
<1>2. W(j) \in Reqs /\ W(k) \in Reqs /\ W(j) # W(k) /\ \A i : W(j) # G(i) /\ W(k) # G(i)
  BY <1>1, Requested
<1>3. CASE target'[W(k)] # target[W(k)]
  <2>1. target'[W(j)] = target[W(j)] /\ \A b \in Born : b <= target'[W(k)]
    BY <1>2, <1>3, TargetCases
  <2>. QED BY <1>1, <1>2, <2>1, FoundBorn
<1>4. CASE target'[W(j)] # target[W(j)]
  <2>1. pc[W(j)] = "new" /\ target'[W(k)] = target[W(k)]
    BY <1>2, <1>4, TargetCases
  <2>2. j <= Len(requests)
    <3>1. PICK i \in 1..Len(requests) : W(j) = W(i)
      BY <1>2, <1>4, TargetCases
    <3>. QED BY <3>1, Requested
  <2>3. target[W(k)] = None
    BY <1>1, <2>1, <2>2, OneWrite
  <2>. QED BY <1>1, <2>1, <2>3
<1>. QED BY <1>1, <1>3, <1>4 DEF TargetsInOrder

\* What the actor a is writing is the next frame of the last write request.
LEMMA WriteFacts ==
    ASSUME ServerInv, ClientInv, CauseInv, ReceiveInv, NEW a \in Actors, SP!WriteOk(a)
    PROVE  LET k == Len(requests)
               n == next[W(k)]
           IN  /\ k \in 1..MaxChunks /\ target[W(k)] = a /\ pc[W(k)] = "put_wait"
               /\ n \in 1..pieces[k] /\ SP!Has(upstream[a], W(k), n - 1)
               /\ upstream' = [upstream EXCEPT ![a] = Append(@, <<W(k), n>>)]
               /\ SP!IsAlive(a)
<1>. USE TunnelAssumption DEF ServerInv, SP!TypeInv, SP!TypeOK
<1>. DEFINE r == busy[a]
<1>1. /\ r \in Reqs /\ r # None /\ SP!IsAlive(a)
      /\ upstream' = [upstream EXCEPT ![a] = Append(@, <<r, next[r]>>)]
  BY DEF SP!WriteOk, SP!IsAlive
<1>2. target[r] = a /\ pc[r] \in {"put_wait", "gone"}
  BY <1>1 DEF SP!MailInv, SP!BusyOK
<1>3. ASSUME NEW k \in 1..MaxGets, r = G(k) PROVE FALSE
  BY <1>2, <1>3 DEF CauseInv, GetsOK, Getting
<1>4. PICK k \in 1..MaxChunks : r = W(k)
  BY <1>1, <1>3, Requested
<1>5. pc[r] = "put_wait"
  BY <1>2, <1>4 DEF CauseInv, WritesOK, Writing
<1>6. k = Len(requests)
  BY <1>4, <1>5, OneWrite
<1>7. next[r] <= pieces[k] /\ next[r] \in Nat /\ pieces[k] \in Nat
  <2>1. BoundOK(k)
    BY DEF ReceiveInv
  <2>. QED BY <1>1, <1>4, <1>5, <1>6, <2>1, FramesNat, SMTT(30) DEF BoundOK
<1>8. next[r] >= 1 /\ SP!Has(upstream[a], r, next[r] - 1)
  <2>1. SP!Held(r)
    BY DEF SP!Held
  <2>. QED BY <1>1, <1>2, <2>1 DEF SP!WriteInv, SP!Progress, SP!Upto
<1>. HIDE DEF r
<1>. QED BY <1>1, <1>2, <1>4, <1>5, <1>6, <1>7, <1>8

\* A frame that upstream has is one of a chunk that was sent, and went to the
\* session that the request of the chunk found.
LEMMA FrameFrom ==
    ASSUME ServerInv, ClientInv, ReceiveInv, NEW a \in Actors, NEW i \in 1..Len(upstream[a])
    PROVE  LET j == upstream[a][i][1][2]
           IN  /\ j \in 1..Len(requests) /\ j \in 1..MaxChunks
               /\ upstream[a][i] = <<W(j), upstream[a][i][2]>> /\ upstream[a][i][2] \in Nat /\ target[W(j)] = a
<1>1. PICK j \in 1..Len(requests) : upstream[a][i][1] = W(j)
  BY DEF ReceiveInv, ChunksInOrder
<1>2. upstream[a] \in Seq(Reqs \X Nat)
  BY DEF ServerInv, SP!TypeInv, SP!TypeOK
<1>3. upstream[a][i] \in Reqs \X Nat /\ i \in DOMAIN upstream[a]
  BY ONLY <1>2, i \in 1..Len(upstream[a])
<1>4. upstream[a][i] = <<upstream[a][i][1], upstream[a][i][2]>> /\ upstream[a][i][2] \in Nat
  BY ONLY <1>3
<1>5. j = upstream[a][i][1][2]
  BY <1>1 DEF W
<1>6. target[W(j)] = a
  BY <1>1, <1>3 DEF ServerInv, SP!WriteInv, SP!FramesInOrder, SP!Elements
<1>7. j \in 1..MaxChunks
  BY OfferedOK
<1>. QED BY ONLY <1>1, <1>4, <1>5, <1>6, <1>7

\* Upstream receives the chunks in order.
LEMMA ChunkStep ==
    ASSUME ServerInv, ClientInv, CauseInv, ReceiveInv, NEW a \in Actors, SP!WriteOk(a), UNCHANGED requests, NEW c \in Actors
    PROVE  ChunksInOrder(upstream[c])'
<1>. DEFINE k == Len(requests)
            n == next[W(k)]
<1>1. /\ k \in 1..MaxChunks /\ n \in Nat
      /\ upstream' = [upstream EXCEPT ![a] = Append(@, <<W(k), n>>)]
  BY WriteFacts
<1>2. upstream \in [Actors -> Seq(Reqs \X Nat)] /\ W(k) \in Reqs
  BY <1>1, Requested DEF ServerInv, SP!TypeInv, SP!TypeOK
<1>3. CASE c # a
  BY <1>1, <1>2, <1>3 DEF ReceiveInv, ChunksInOrder
<1>4. CASE c = a
  <2>. DEFINE up == upstream[a]
  <2>1. up \in Seq(Reqs \X Nat) /\ <<W(k), n>> \in Reqs \X Nat /\ upstream'[c] = Append(up, <<W(k), n>>)
    BY <1>1, <1>2, <1>4
  <2>. HIDE DEF n, k
  <2>2. /\ Len(up) \in Nat /\ Len(upstream'[c]) = Len(up) + 1 /\ upstream'[c][Len(up) + 1] = <<W(k), n>>
        /\ \A i \in 1..Len(up) : upstream'[c][i] = up[i]
    BY ONLY <2>1
  <2>3. \A i \in 1..Len(up) : up[i][1][2] \in 1..Len(requests) /\ up[i][1] = W(up[i][1][2])
    <3>. HIDE DEF up
    <3>1. SUFFICES ASSUME NEW i \in 1..Len(upstream[a])
                   PROVE  upstream[a][i][1][2] \in 1..Len(requests) /\ upstream[a][i][1] = W(upstream[a][i][1][2])
      BY DEF up
    <3>2. upstream[a][i] = <<W(upstream[a][i][1][2]), upstream[a][i][2]>> /\ upstream[a][i][1][2] \in 1..Len(requests)
      BY FrameFrom
    <3>. QED BY ONLY <3>2
  <2>4. <<W(k), n>>[1] = W(k) /\ W(k)[2] = k
    BY DEF W
  <2>5. k \in Nat /\ k = Len(requests) /\ k >= 1
    BY <1>1 DEF k
  <2>6. ASSUME NEW i \in 1..Len(upstream'[c]) PROVE \E j \in 1..Len(requests') : upstream'[c][i][1] = W(j)
    <3>1. CASE i \in 1..Len(up)
      BY <2>2, <2>3, <3>1, ZenonT(40)
    <3>2. CASE i = Len(up) + 1
      BY <2>2, <2>4, <2>5, <3>2
    <3>. QED BY <2>2, <2>6, <3>1, <3>2
  <2>7. ASSUME NEW i \in 1..Len(upstream'[c]), NEW j \in 1..Len(upstream'[c]), i < j
        PROVE  upstream'[c][i][1][2] <= upstream'[c][j][1][2]
    <3>1. i \in 1..Len(up)
      BY <2>2, <2>7
    <3>2. CASE j \in 1..Len(up)
      BY <2>2, <2>7, <3>1, <3>2 DEF ReceiveInv, ChunksInOrder
    <3>3. CASE j = Len(up) + 1
      <4>1. up[i][1][2] \in 1..Len(requests) /\ upstream'[c][i][1][2] = up[i][1][2] /\ upstream'[c][j][1][2] = k
        BY <2>2, <2>3, <2>4, <3>1, <3>3
      <4>. QED BY <2>5, <4>1
    <3>. QED BY <2>2, <3>2, <3>3
  <2>. QED BY <2>6, <2>7 DEF ChunksInOrder
<1>. QED BY <1>3, <1>4

\* Every step keeps ReceiveInv.
LEMMA ReceiveStep ==
    ASSUME ServerInv, ClientInv, CauseInv, LineInv, ReceiveInv, ClientInv', CauseInv', [Next]_vars
    PROVE  ReceiveInv'
<1>. USE TunnelAssumption
<1>1. CASE ServerStep
  <2>1. UNCHANGED requests
    BY <1>1, ServerCases DEF clientVars
  <2>2. UNCHANGED upstream \/ \E a \in Actors : SP!WriteOk(a)
    BY ONLY ClientInv, [Next]_vars, ServerNext, SP!UpstreamStep, ServerConstants
  <2>3. \A c \in Actors : ChunksInOrder(upstream[c])'
    <3>1. CASE UNCHANGED upstream
      BY <2>1, <3>1 DEF ReceiveInv, ChunksInOrder
    <3>. QED BY <2>1, <2>2, <3>1, ChunkStep
  <2>4. TargetsInOrder'
    BY <1>1, TargetStep DEF ReceiveInv
  <2>5. \A k \in 1..MaxChunks : BoundOK(k)'
    BY <1>1, BoundStep DEF ReceiveInv
  <2>. QED BY <2>3, <2>4, <2>5 DEF ReceiveInv
<1>2. CASE ClientStep \/ UNCHANGED vars
  <2>1. UNCHANGED <<pc, next, status, target, upstream>>
    BY <1>2, ClientCases DEF vars, serverVars
  <2>2. /\ Len(requests) \in Nat /\ Len(requests') \in Nat /\ Len(requests) <= Len(requests')
        /\ \A k \in 1..Len(requests) : pieces'[k] = pieces[k]
    <3>1. /\ requests \in Seq([method : {"POST", "PATCH"}, chunk : Nat]) /\ pieces \in Seq(Sizes)
          /\ \A k \in 1..Len(requests) : k \in 1..Len(pieces)
      BY OfferedOK DEF ClientInv, LinkInv, CP!TypeOK, CP!DataOK
    <3>2. UNCHANGED pieces \/ \E n \in Sizes : pieces' = Append(pieces, n)
      BY <1>2, ClientCases DEF linkVars, vars
    <3>3. UNCHANGED requests \/ \E e : requests' = Append(requests, e)
      <4>1. CP!OutSend => \E e : requests' = Append(requests, e)
        BY DEF CP!OutSend
      <4>2. CP!OutAck \/ CP!OutFail \/ CP!InAsk \/ CP!InHead \/ CP!InFail \/ CP!InFrame \/ CP!InBodyEnd
              \/ CP!PollWrite \/ CP!InSend \/ CP!InSent \/ CP!PollRead => UNCHANGED requests
        BY Zenon DEF CP!OutAck, CP!OutFail, CP!InAsk, CP!InHead, CP!InFail, CP!InFrame, CP!InBodyEnd,
               CP!PollWrite, CP!InSend, CP!InSent, CP!PollRead, CP!Fail, CP!outVars
      <4>3. UNCHANGED vars => UNCHANGED requests
        BY DEF vars, clientVars
      <4>. QED BY ONLY <1>2, ClientCases, <4>1, <4>2, <4>3
    <3>4. \A k \in 1..Len(requests) : pieces'[k] = pieces[k]
      BY <3>1, <3>2, SMTT(30)
    <3>5. Len(requests) \in Nat /\ Len(requests') \in Nat /\ Len(requests) <= Len(requests')
      BY ONLY <3>1, <3>3
    <3>. QED BY <3>4, <3>5
  <2>3. ASSUME NEW c \in Actors PROVE ChunksInOrder(upstream[c])'
    <3>1. \A k \in 1..Len(requests) : k \in 1..Len(requests')
      BY <2>2
    <3>. QED BY <2>1, <3>1 DEF ReceiveInv, ChunksInOrder
  <2>4. TargetsInOrder'
    BY <2>1 DEF ReceiveInv, TargetsInOrder
  <2>5. ASSUME NEW k \in 1..MaxChunks PROVE BoundOK(k)'
    <3>1. CASE pc[W(k)] = "new"
      <4>1. status[W(k)] # "NO_CONTENT"
        BY <3>1, Requested DEF ServerInv, SP!WriteInv, SP!Progress
      <4>. QED BY <2>1, <3>1, <4>1 DEF BoundOK
    <3>2. CASE pc[W(k)] # "new"
      <4>1. k \in 1..Len(requests)
        BY <3>2, FramesNat DEF CauseInv, WritesOK
      <4>. QED BY <2>1, <2>2, <4>1 DEF ReceiveInv, BoundOK
    <3>. QED BY <3>1, <3>2
  <2>. QED BY <2>3, <2>4, <2>5 DEF ReceiveInv
<1>. QED BY <1>1, <1>2 DEF Next

\* What upstream has was sent before, and on no later connection.
LEMMA SentBefore ==
    ASSUME ServerInv, ClientInv, CauseInv, ReceiveInv, NEW a \in Actors, SP!WriteOk(a),
           NEW d \in Actors, NEW i \in 1..Len(upstream[d])
    PROVE  /\ d <= a
           /\ upstream[d][i][1][2] \in 1..Len(requests)
           /\ upstream[d][i][1][2] = Len(requests) => d = a
<1>. DEFINE j == upstream[d][i][1][2]
            k == Len(requests)
<1>1. j \in 1..k /\ j \in 1..MaxChunks /\ target[W(j)] = d
  BY FrameFrom
<1>2. k \in 1..MaxChunks /\ target[W(k)] = a
  BY WriteFacts
<1>3. a \in Int /\ d \in Int /\ None # a /\ None # d
  BY TunnelAssumption DEF Actors
<1>. HIDE DEF j
<1>4. CASE j = k
  BY <1>1, <1>2, <1>3, <1>4 DEF j
<1>5. CASE j < k
  BY <1>1, <1>2, <1>3, <1>5 DEF ReceiveInv, TargetsInOrder, j
<1>. QED BY <1>1, <1>4, <1>5 DEF j

\* The frames of the chunk before the last are all upstream on the connection
\* of its session, if that is still alive, and they are some.
LEMMA BeforeLast ==
    ASSUME ServerInv, ClientInv, CauseInv, ReceiveInv, NEW a \in Actors, SP!WriteOk(a), Len(requests) > 1
    PROVE  LET j == Len(requests) - 1
           IN  /\ j \in 1..MaxChunks /\ target[W(j)] \in Actors /\ pieces[j] \in Nat \ {0}
               /\ target[W(j)] = a => SP!Has(upstream[a], W(j), pieces[j])
<1>. USE TunnelAssumption DEF ServerInv, SP!TypeInv, SP!TypeOK
<1>. DEFINE k == Len(requests)
            j == k - 1
<1>1. k \in 1..MaxChunks /\ pc[W(k)] = "put_wait" /\ SP!IsAlive(a)
  BY WriteFacts
<1>2. j \in 1..MaxChunks /\ j < k /\ j <= Len(requests)
  BY <1>1
<1>3. status[W(j)] = "NO_CONTENT" /\ pc[W(j)] = "done" /\ target[W(j)] \in Actors
  BY <1>1, <1>2, OneWrite
<1>4. W(j) \in Reqs /\ BoundOK(j) /\ WritesOK(j) /\ pieces[j] \in Nat
  BY <1>2, Requested, FramesNat DEF ReceiveInv, CauseInv
<1>5. pieces[j] > 0 /\ next[W(j)] <= pieces[j] + 1 /\ next[W(j)] \in Nat
  BY <1>3, <1>4 DEF BoundOK
<1>6. req[W(j)].frames = pieces[j]
  <2>1. WriteQ(j).frames = pieces[j]
    BY ONLY DEF WriteQ
  <2>2. req[W(j)] = WriteQ(j)
    BY <1>3, <1>4 DEF WritesOK
  <2>. QED BY ONLY <2>1, <2>2
<1>7. next[W(j)] > pieces[j] /\ (SP!IsAlive(target[W(j)]) => SP!Has(upstream[target[W(j)]], W(j), next[W(j)] - 1))
  BY <1>3, <1>4, <1>6 DEF SP!WriteInv, SP!Progress, SP!Upto
<1>8. next[W(j)] - 1 = pieces[j]
  BY <1>4, <1>5, <1>7, SMTT(30)
<1>9. target[W(j)] = a => SP!Has(upstream[a], W(j), pieces[j])
  BY <1>1, <1>7, <1>8, Zenon
<1>10. pieces[j] \in Nat \ {0}
  BY <1>4, <1>5
<1>. QED BY ONLY <1>2, <1>3, <1>9, <1>10

\* A connection begins with a whole chunk, the first one or after the end of
\* an earlier session.
LEMMA BeginsOK ==
    ASSUME ServerInv, ClientInv, CauseInv, LineInv, ReceiveInv, NEW a \in Actors, SP!WriteOk(a), upstream[a] = <<>>
    PROVE  LET k == Len(requests)
           IN  /\ next[W(k)] = 1
               /\ k = 1 \/ \E d \in Ended : d < a
               /\ \A d \in Actors : \A i \in 1..Len(upstream[d]) : upstream[d][i][1][2] < k
<1>. USE TunnelAssumption
<1>. DEFINE k == Len(requests)
            n == next[W(k)]
<1>1. k \in 1..MaxChunks /\ n \in 1..pieces[k] /\ SP!Has(upstream[a], W(k), n - 1) /\ target[W(k)] = a /\ a \in Born
  <2>1. a \in Born
    BY DEF SP!WriteOk, Born
  <2>. QED BY <2>1, WriteFacts
<1>2. Len(upstream[a]) = 0
  OBVIOUS
<1>3. n = 1
  <2>1. n \in Nat \ {0}
    BY <1>1
  <2>2. n - 1 > 0 => n - 1 \in 1..(n - 1)
    <3>. HIDE DEF n
    <3>. QED BY ONLY <2>1
  <2>3. \A m \in 1..(n - 1) : \E j \in 1..Len(upstream[a]) : upstream[a][j] = <<W(k), m>>
    BY <1>1 DEF SP!Has
  <2>4. n - 1 = 0
    <3>1. \A m : m \notin 1..(n - 1)
      BY ONLY <1>2, <2>3
    <3>. HIDE DEF n
    <3>. QED BY ONLY <2>1, <2>2, <3>1
  <2>. HIDE DEF n
  <2>. QED BY ONLY <2>1, <2>4
<1>4. ASSUME NEW d \in Actors, NEW i \in 1..Len(upstream[d]) PROVE upstream[d][i][1][2] < k
  <2>1. upstream[d][i][1][2] \in 1..k /\ (upstream[d][i][1][2] = k => d = a)
    BY SentBefore
  <2>2. d # a
    BY <1>2, <1>4
  <2>. QED BY <1>1, <2>1, <2>2
<1>5. ASSUME k # 1 PROVE \E d \in Ended : d < a
  <2>. DEFINE b == target[W(k - 1)]
  <2>1. k - 1 \in 1..MaxChunks /\ b \in Actors /\ pieces[k - 1] \in Nat \ {0} /\ (b = a => SP!Has(upstream[a], W(k - 1), pieces[k - 1]))
    <3>1. k \in Nat \ {0}
      BY <1>1
    <3>2. Len(requests) > 1
      <4>1. \A x \in Nat \ {0} : x # 1 => x > 1
        OBVIOUS
      <4>. QED BY ONLY <1>5, <3>1, <4>1 DEF k
    <3>. QED BY <3>2, BeforeLast
  <2>2. b # a
    BY <1>2, <2>1 DEF SP!Has
  <2>3. b < a
    <3>1. b \in Int /\ a \in Int /\ b # None /\ a # None
      BY <2>1 DEF Actors
    <3>. QED BY <1>1, <2>1, <2>2, <3>1 DEF ReceiveInv, TargetsInOrder
  <2>4. b \in Born
    <3>1. W(k - 1) \in Reqs /\ b # None
      BY <2>1, Requested
    <3>. QED BY <3>1, FoundBorn
  <2>. QED BY <1>1, <2>3, <2>4 DEF LineInv
<1>. QED BY <1>3, <1>4, <1>5

\* The last frame with the last number comes last.
LEMMA LastFrame ==
    ASSUME NEW up \in Seq(Reqs \X Nat), SP!InOrder(up), NEW r, NEW m \in Nat, up # <<>>,
           up[Len(up)] = <<r, m>>, NEW n \in Nat \ {0}, SP!Has(up, r, n)
    PROVE  m = n
<1>1. Len(up) \in Nat \ {0} /\ Len(up) \in 1..Len(up)
  OBVIOUS
<1>2. m \in 1..n
  BY <1>1, SMTT(30) DEF SP!Has
<1>3. PICK i \in 1..Len(up) : up[i] = <<r, n>>
  <2>1. n \in 1..n
    OBVIOUS
  <2>. QED BY ONLY <2>1, SP!Has(up, r, n) DEF SP!Has
<1>4. CASE i = Len(up)
  BY <1>3, <1>4
<1>5. CASE i \in 1..(Len(up) - 1)
  <2>1. up[i][1] = r /\ up[i][2] = n /\ up[Len(up)][1] = r /\ up[Len(up)][2] = m
    BY <1>3
  <2>2. n < m
    BY <1>1, <1>5, <2>1 DEF SP!InOrder
  <2>. QED BY <1>2, <2>2
<1>. QED BY <1>1, <1>3, <1>4, <1>5

\* On a connection that was used before, a frame follows the one before it, or
\* all frames of the chunk before.
LEMMA FollowsOK ==
    ASSUME ServerInv, ClientInv, CauseInv, ReceiveInv, NEW a \in Actors, SP!WriteOk(a), upstream[a] # <<>>
    PROVE  LET k == Len(requests)
               last == upstream[a][Len(upstream[a])]
           IN  \/ last = <<W(k), next[W(k)] - 1>>
               \/ next[W(k)] = 1 /\ k > 1 /\ last = <<W(k - 1), pieces[k - 1]>>
<1>. USE TunnelAssumption
<1>. DEFINE up == upstream[a]
            l == Len(up)
            k == Len(requests)
            n == next[W(k)]
            j == up[l][1][2]
            m == up[l][2]
<1>1. up \in Seq(Reqs \X Nat) /\ SP!InOrder(up)
  BY DEF ServerInv, SP!TypeInv, SP!TypeOK, SP!WriteInv, SP!FramesInOrder
<1>2. l \in 1..l /\ l \in Nat
  BY <1>1
<1>3. k \in 1..MaxChunks /\ target[W(k)] = a /\ n \in 1..pieces[k] /\ SP!Has(up, W(k), n - 1) /\ pieces[k] \in Nat
  BY WriteFacts, FramesNat
<1>4. j \in 1..k /\ j \in 1..MaxChunks /\ up[l] = <<W(j), m>> /\ m \in Nat /\ target[W(j)] = a
  BY <1>2, FrameFrom
<1>5. \A i \in 1..l : up[i][1][2] <= j
  <2>1. \A i \in 1..l : up[i][1][2] \in 1..k
    BY FrameFrom
  <2>. QED BY <1>2, <1>4, <2>1, SMTT(30) DEF ReceiveInv, ChunksInOrder
<1>. HIDE DEF up, l, j, m, n
<1>6. CASE j = k
  <2>1. n # 1
    <3>1. up[l][1] = W(k) /\ up[l][2] = m
      BY <1>4, <1>6
    <3>. QED BY <1>2, <1>3, <3>1 DEF SP!Has, l
  <2>2. n - 1 \in Nat \ {0}
    BY <1>3, <2>1
  <2>3. m = n - 1
    BY <1>1, <1>2, <1>3, <1>4, <1>6, <2>2, LastFrame DEF l, up
  <2>. QED BY <1>4, <1>6, <2>3 DEF up, l, n
<1>7. CASE j < k
  <2>1. n = 1
    <3>1. SUFFICES ASSUME n # 1 PROVE FALSE
      OBVIOUS
    <3>2. n - 1 \in 1..(n - 1)
      BY <1>3, <3>1
    <3>3. PICK i \in 1..l : up[i] = <<W(k), n - 1>>
      BY <1>3, <3>2 DEF SP!Has, l
    <3>4. up[i][1][2] = k
      BY <3>3 DEF W
    <3>. QED BY <1>3, <1>4, <1>5, <1>7, <3>3, <3>4
  <2>. DEFINE p == pieces[k - 1]
              b == target[W(k - 1)]
  <2>2. k > 1 /\ k - 1 \in 1..MaxChunks /\ b \in Actors /\ p \in Nat \ {0} /\ (b = a => SP!Has(up, W(k - 1), p))
    BY <1>3, <1>4, <1>7, BeforeLast DEF up
  <2>3. b = a
    <3>1. b \in Int /\ a \in Int /\ b # None /\ a # None
      BY <2>2 DEF Actors
    <3>2. b <= a
      BY <1>3, <2>2, <3>1 DEF ReceiveInv, TargetsInOrder
    <3>3. a <= b
      <4>1. CASE j = k - 1
        BY <1>4, <3>1, <4>1
      <4>2. CASE j < k - 1
        BY <1>4, <2>2, <3>1, <4>2 DEF ReceiveInv, TargetsInOrder
      <4>. QED BY <1>3, <1>4, <1>7, <4>1, <4>2
    <3>. QED BY <3>1, <3>2, <3>3
  <2>4. SP!Has(up, W(k - 1), p)
    BY <2>2, <2>3
  <2>5. j = k - 1
    <3>1. PICK i \in 1..l : up[i] = <<W(k - 1), p>>
      <4>1. p \in 1..p
        BY <2>2
      <4>. QED BY ONLY <2>4, <4>1 DEF SP!Has, l
    <3>2. up[i][1][2] = k - 1
      BY <3>1 DEF W
    <3>. QED BY <1>3, <1>4, <1>5, <1>7, <3>1, <3>2
  <2>6. m = p
    <3>. HIDE DEF p
    <3>. QED BY <1>1, <1>2, <1>4, <2>2, <2>4, <2>5, LastFrame DEF l, up
  <2>. QED BY <1>4, <2>1, <2>2, <2>5, <2>6 DEF up, l, n
<1>. QED BY <1>3, <1>4, <1>6, <1>7

\* A function on the first n numbers is a sequence of length n.
LEMMA SeqFun ==
    ASSUME NEW T, NEW n \in Nat, NEW f \in [1..n -> T]
    PROVE  f \in Seq(T) /\ Len(f) = n
<1>1. f \in Seq(T)
  BY SeqDef
<1>2. Len(f) \in Nat /\ DOMAIN f = 1..Len(f)
  BY <1>1, LenProperties
<1>. QED BY <1>1, <1>2

\* The frames of a connection, as Pipe sees them.
LEMMA PairsOK ==
    ASSUME NEW up \in Seq(Reqs \X Nat)
    PROVE  LET ch == [i \in 1..Len(up) |-> <<up[i][1][2], up[i][2]>>]
           IN  /\ ch \in Seq(Nat \X Nat) /\ Len(ch) = Len(up)
               /\ \A i \in 1..Len(up) : ch[i] = <<up[i][1][2], up[i][2]>>
               /\ ch = <<>> <=> up = <<>>
<1>. DEFINE ch == [i \in 1..Len(up) |-> <<up[i][1][2], up[i][2]>>]
<1>1. ASSUME NEW i \in 1..Len(up) PROVE <<up[i][1][2], up[i][2]>> \in Nat \X Nat
  <2>1. up[i] \in Reqs \X Nat
    OBVIOUS
  <2>2. up[i][1] \in Reqs /\ up[i][2] \in Nat
    BY ONLY <2>1
  <2>3. up[i][1][2] \in Nat
    BY <2>2, TunnelAssumption, SMTT(30) DEF Reqs, W, G
  <2>. QED BY <2>2, <2>3
<1>2. Len(up) \in Nat /\ (up = <<>> <=> Len(up) = 0)
  OBVIOUS
<1>3. ch \in [1..Len(up) -> Nat \X Nat] /\ \A i \in 1..Len(up) : ch[i] = <<up[i][1][2], up[i][2]>>
  BY ONLY <1>1
<1>. HIDE DEF ch
<1>4. ch \in Seq(Nat \X Nat) /\ Len(ch) = Len(up)
  BY ONLY <1>2, <1>3, SeqFun
<1>5. ch = <<>> <=> up = <<>>
  BY ONLY <1>2, <1>4
<1>. QED BY ONLY <1>3, <1>4, <1>5 DEF ch

\* The same for the frames that upstream has.
LEMMA ChunksOK ==
    ASSUME ServerInv, NEW a \in Actors
    PROVE  /\ Chunks(a) \in Seq(Nat \X Nat) /\ Len(Chunks(a)) = Len(upstream[a])
           /\ \A i \in 1..Len(upstream[a]) : Chunks(a)[i] = <<upstream[a][i][1][2], upstream[a][i][2]>>
           /\ Chunks(a) = <<>> <=> upstream[a] = <<>>
<1>1. upstream[a] \in Seq(Reqs \X Nat)
  BY DEF ServerInv, SP!TypeInv, SP!TypeOK
<1>. QED BY ONLY <1>1, PairsOK DEF Chunks

\* What upstream receives grows as Pipe says.
LEMMA ChunksGrow ==
    ASSUME ServerInv, ServerInv', ClientInv, CauseInv, ReceiveInv, NEW a \in Actors, SP!WriteOk(a)
    PROVE  LET k == Len(requests)
               n == next[W(k)]
           IN  [c \in Actors |-> Chunks(c)]' = [[c \in Actors |-> Chunks(c)] EXCEPT ![a] = Append(@, <<k, n>>)]
<1>. DEFINE k == Len(requests)
            n == next[W(k)]
            e == <<k, n>>
            up == upstream[a]
<1>1. /\ k \in Nat /\ n \in Nat /\ W(k) \in Reqs
      /\ upstream' = [upstream EXCEPT ![a] = Append(@, <<W(k), n>>)]
  BY WriteFacts, Requested
<1>2. upstream \in [Actors -> Seq(Reqs \X Nat)]
  BY DEF ServerInv, SP!TypeInv, SP!TypeOK
<1>3. ASSUME NEW c \in Actors, c # a PROVE Chunks(c)' = Chunks(c)
  BY <1>1, <1>2, <1>3 DEF Chunks
<1>4. Chunks(a)' = Append(Chunks(a), e)
  <2>1. up \in Seq(Reqs \X Nat) /\ <<W(k), n>> \in Reqs \X Nat /\ upstream'[a] = Append(up, <<W(k), n>>)
    BY <1>1, <1>2
  <2>2. Chunks(a) \in Seq(Nat \X Nat) /\ Len(Chunks(a)) = Len(up) /\ \A i \in 1..Len(up) : Chunks(a)[i] = <<up[i][1][2], up[i][2]>>
    BY ChunksOK
  <2>3. /\ Chunks(a)' \in Seq(Nat \X Nat) /\ Len(Chunks(a)') = Len(upstream'[a])
        /\ \A i \in 1..Len(upstream'[a]) : Chunks(a)'[i] = <<upstream'[a][i][1][2], upstream'[a][i][2]>>
    <3>1. upstream'[a] \in Seq(Reqs \X Nat)
      BY DEF ServerInv, SP!TypeInv, SP!TypeOK
    <3>. QED BY ONLY <3>1, PairsOK DEF Chunks
  <2>4. e \in Nat \X Nat /\ W(k)[2] = k
    BY <1>1 DEF W
  <2>. HIDE DEF k, n, up
  <2>5. /\ Len(up) \in Nat /\ Len(upstream'[a]) = Len(up) + 1 /\ Len(up) + 1 \in 1..(Len(up) + 1)
        /\ upstream'[a][Len(up) + 1] = <<W(k), n>> /\ \A i \in 1..Len(up) : upstream'[a][i] = up[i]
    BY ONLY <2>1
  <2>6. /\ Append(Chunks(a), e) \in Seq(Nat \X Nat) /\ Len(Append(Chunks(a), e)) = Len(up) + 1
        /\ Append(Chunks(a), e)[Len(up) + 1] = e /\ \A i \in 1..Len(up) : Append(Chunks(a), e)[i] = Chunks(a)[i]
    <3>. HIDE DEF e
    <3>. QED BY ONLY <2>2, <2>4, AppendProperties
  <2>7. ASSUME NEW i \in 1..Len(Chunks(a)') PROVE Chunks(a)'[i] = Append(Chunks(a), e)[i]
    <3>1. CASE i \in 1..Len(up)
      BY <2>2, <2>3, <2>5, <2>6, <3>1
    <3>2. CASE i = Len(up) + 1
      <4>1. Chunks(a)'[i] = <<upstream'[a][i][1][2], upstream'[a][i][2]>> /\ upstream'[a][i] = <<W(k), n>>
        BY ONLY <2>3, <2>5, <3>2
      <4>2. <<W(k), n>>[1][2] = k /\ <<W(k), n>>[2] = n
        BY ONLY <2>4
      <4>3. Chunks(a)'[i] = e
        BY ONLY <4>1, <4>2
      <4>. HIDE DEF e
      <4>. QED BY ONLY <2>6, <3>2, <4>3
    <3>3. i \in 1..Len(up) \/ i = Len(up) + 1
      BY ONLY <2>3, <2>5, <2>7
    <3>. QED BY ONLY <3>1, <3>2, <3>3
  <2>. QED BY ONLY <2>3, <2>5, <2>6, <2>7, SeqEqual, SMTT(30)
<1>. HIDE DEF k, n, e
<1>5. [c \in Actors |-> Chunks(c)]' = [[c \in Actors |-> Chunks(c)] EXCEPT ![a] = Append(@, e)]
  BY <1>3, <1>4
<1>. QED BY ONLY <1>5 DEF k, n, e

\* The frame that an actor writes is the one that Pipe lets upstream receive.
LEMMA ReceiveMaps ==
    ASSUME ServerInv, ServerInv', ClientInv, CauseInv, LineInv, ReceiveInv, NEW a \in Actors, SP!WriteOk(a),
           UNCHANGED <<pieces, read, got>>
    PROVE  \E k \in 1..Len(pieces) : \E n \in 1..pieces[k] : P!Receive(a, k, n)
<1>. DEFINE k == Len(requests)
            n == next[W(k)]
            R == [c \in Actors |-> Chunks(c)]
<1>1. k \in 1..MaxChunks /\ n \in 1..pieces[k] /\ k \in 1..Len(pieces)
  <2>1. k \in 1..MaxChunks /\ n \in 1..pieces[k]
    BY WriteFacts
  <2>. QED BY <2>1, FramesNat
<1>2. R' = [R EXCEPT ![a] = Append(@, <<k, n>>)]
  BY ChunksGrow
<1>3. phase[a] = "running" /\ UNCHANGED <<phase, sent>>
  BY DEF SP!WriteOk, SP!tableVars
<1>4. ASSUME NEW d \in Actors
      PROVE  /\ R[d] = Chunks(d) /\ (Chunks(d) = <<>> <=> upstream[d] = <<>>) /\ Len(R[d]) = Len(upstream[d])
             /\ upstream[d] # <<>> => /\ Len(upstream[d]) \in 1..Len(upstream[d])
                                      /\ Chunks(d)[Len(upstream[d])] =
                                            <<upstream[d][Len(upstream[d])][1][2], upstream[d][Len(upstream[d])][2]>>
  <2>1. R[d] = Chunks(d) /\ Len(Chunks(d)) = Len(upstream[d]) /\ (Chunks(d) = <<>> <=> upstream[d] = <<>>)
    BY ChunksOK
  <2>2. upstream[d] # <<>> => Len(upstream[d]) \in 1..Len(upstream[d])
    BY DEF ServerInv, SP!TypeInv, SP!TypeOK
  <2>. QED BY <2>1, <2>2, ChunksOK
<1>. HIDE DEF R
<1>5. ASSUME NEW d \in Actors, R[d] # <<>>
      PROVE  d <= a /\ (upstream[a] = <<>> => R[d][Len(R[d])][1] < k)
  <2>. DEFINE i == Len(upstream[d])
  <2>1. i \in 1..Len(upstream[d]) /\ R[d][Len(R[d])] = <<upstream[d][i][1][2], upstream[d][i][2]>>
    BY <1>4, <1>5
  <2>2. R[d][Len(R[d])][1] = upstream[d][i][1][2]
    BY ONLY <2>1
  <2>3. d <= a
    BY <2>1, SentBefore
  <2>4. upstream[a] = <<>> => upstream[d][i][1][2] < k
    BY <2>1, BeginsOK
  <2>. QED BY ONLY <2>2, <2>3, <2>4
<1>6. ASSUME R[a] = <<>>
      PROVE  n = 1 /\ (k = 1 \/ \E d \in Ended : d < a) /\ \A d \in Actors : R[d] # <<>> => R[d][Len(R[d])][1] < k
  <2>1. upstream[a] = <<>>
    BY <1>4, <1>6
  <2>. QED BY <1>5, <2>1, BeginsOK
<1>7. ASSUME R[a] # <<>>
      PROVE  LET last == R[a][Len(R[a])]
             IN  last = <<k, n - 1>> \/ (n = 1 /\ k > 1 /\ last = <<k - 1, pieces[k - 1]>>)
  <2>. DEFINE l == upstream[a][Len(upstream[a])]
  <2>1. upstream[a] # <<>> /\ R[a][Len(R[a])] = <<l[1][2], l[2]>>
    BY <1>4, <1>7
  <2>2. l = <<W(k), n - 1>> \/ (n = 1 /\ k > 1 /\ l = <<W(k - 1), pieces[k - 1]>>)
    BY <2>1, FollowsOK
  <2>. HIDE DEF l, n, k
  <2>. QED BY ONLY <2>1, <2>2 DEF W
<1>8. a \in {c \in Actors : phase[c] # "unborn"}
  BY <1>3
<1>9. UNCHANGED <<pieces, {c \in Actors : phase[c] # "unborn"}, Ended, sent, [j \in 1..Len(read) |-> got[read[j]]]>>
  BY <1>3 DEF Ended
<1>. HIDE DEF k, n
<1>10. P!Receive(a, k, n)
  BY ONLY <1>2, <1>5, <1>6, <1>7, <1>8, <1>9 DEF P!Receive, P!Begins, P!Follows, R
<1>. QED BY <1>1, <1>10

-----------------------------------------------------------------------------
(* What the client receives.                                               *)

\* Unit q comes after unit p: the next one of the same connection, or the
\* first one of a later connection.
Succeeds(p, q) == (p[1] = q[1] /\ q[2] = p[2] + 1) \/ (p[1] < q[1] /\ q[2] = 1)

\* The units the client has received.
GotInv ==
    /\ got \in Seq(Actors \X Nat) /\ Len(got) = frames /\ seen \in Nat
    /\ \A k \in 1..Len(got) : got[k][1] \in Born /\ got[k][2] \in 1..taken[got[k][1]]
    /\ \A k \in 1..Len(got) : k > 1 => Succeeds(got[k - 1], got[k])
    /\ got # <<>> => got[1][2] = 1
    /\ \A a \in Actors : taken[a] <= sent[a] /\ (a \notin Born => taken[a] = 0)

\* What the client has passed on to the application, or is about to, it has
\* received.
PassedInv ==
    /\ Len(read) <= Len(got)
    /\ \A k \in 1..Len(responseQ) : responseQ[k] = CP!Failure \/ responseQ[k] <= Len(got)

\* The client has received nothing from a connection after c.
Upto(c) == got # <<>> => got[Len(got)][1] <= c

\* The last unit of c that the client has received, unless it has received
\* one of a later connection.
Got(c) == IF got # <<>> /\ got[Len(got)][1] = c THEN got[Len(got)][2] ELSE 0

\* How many units of c are on their way to the client.
Flight(c) ==
    IF gets > 0 /\ target[G(gets)] = c
    THEN Len(body[G(gets)]) - seen + (IF pc[G(gets)] = "get_tell" THEN 1 ELSE 0)
    ELSE 0

BodyOK(k) ==
    /\ pc[G(k)] \in {"new", "get_send", "get_wait", "get_first"} => body[G(k)] = <<>>
    /\ body[G(k)] # <<>> => target[G(k)] \in Actors

\* What is left of the response to the last GET are the units after those the
\* client has received.
RestOK(g) ==
    /\ seen <= Len(body[g])
    /\ incoming = "ask" => seen = Len(body[g])
    /\ target[g] \in Actors =>
          /\ Upto(target[g])
          /\ \A i \in 1..Len(body[g]) : i > seen => body[g][i] = Got(target[g]) + (i - seen)
          /\ pc[g] \in SP!Streaming => taken[target[g]] = Got(target[g]) + Flight(target[g])

ReadSideInv ==
    /\ GotInv
    /\ \A k \in 1..MaxGets : BodyOK(k)
    /\ gets > 0 => RestOK(G(gets))
    /\ \A c \in Actors : SP!IsAlive(c) /\ Upto(c) => taken[c] = Got(c) + Flight(c)

\* The stream of a GET has not yielded anything.
Early == {"new", "get_send", "get_wait", "get_first"}

\* Request s takes up no unit; one that has a unit in hand keeps it, or its
\* session has ended.  A request that arrives finds the last session.
Quiet(s) ==
    /\ body'[s] = body[s]
    /\ pc'[s] \in Early => pc[s] \in Early
    /\ pc'[s] = "get_tell" => pc[s] = "get_tell"
    /\ pc[s] = "get_tell" /\ pc'[s] # "get_tell" => ~SP!IsAlive(target[s]) /\ pc'[s] \notin SP!Streaming
    /\ pc'[s] \in SP!Streaming => pc[s] \in SP!Streaming \/ (pc[s] = "get_wait" /\ SP!IsAlive(target[s]))
    /\ \/ target'[s] = target[s]
       \/ pc[s] = "new" /\ pc'[s] \notin SP!Streaming /\ target'[s] \in Actors /\ \A b \in Born : b <= target'[s]

\* What a step of the server may do to the units of the responses.
LEMMA UnitCases ==
    ASSUME ServerInv, ClientInv, LineInv, ServerStep
    PROVE  \/ \E r \in Reqs : SP!StreamRead(r) \/ SP!StreamYield(r)
           \/ UNCHANGED taken /\ \A s \in Reqs : Quiet(s)
<1>. USE TunnelAssumption DEF ServerInv, SP!TypeInv, SP!TypeOK
<1>1. ASSUME NEW r \in Reqs, NEW q \in Offered, Arriving(r, q) PROVE UNCHANGED taken /\ \A s \in Reqs : Quiet(s)
  <2>1. UNCHANGED <<taken, body>>
    BY <1>1 DEF Arriving, SP!RejectRequest, SP!JoinSession, SP!CreateSession, SP!upVars
  <2>2. pc[r] = "new" /\ \E l \in {"done", "get_send", "body"} : pc' = [pc EXCEPT ![r] = l]
    BY <1>1 DEF Arriving, SP!RejectRequest, SP!JoinSession, SP!CreateSession, SP!Arrive, SP!Respond, SP!Dispatch
  <2>3. ASSUME NEW s \in Reqs PROVE Quiet(s)
    <3>1. /\ pc'[s] = pc[s] \/ (pc[s] = "new" /\ pc'[s] \in {"done", "get_send", "body"})
      BY <2>2
    <3>2. CASE target'[s] = target[s]
      BY <2>1, <3>1, <3>2 DEF Quiet, Early, SP!Streaming
    <3>3. CASE target'[s] # target[s]
      <4>1. pc[s] = "new" /\ target'[s] \in Actors /\ \A b \in Born : b <= target'[s]
        BY <3>3, TargetCases
      <4>. QED BY <2>1, <3>1, <4>1 DEF Quiet, Early, SP!Streaming
    <3>. QED BY <3>2, <3>3
  <2>. QED BY <2>1, <2>3
<1>2. ASSUME NEW r \in Reqs, Handling(r), ~SP!StreamRead(r), ~SP!StreamYield(r) PROVE UNCHANGED taken /\ \A s \in Reqs : Quiet(s)
  <2>1. UNCHANGED <<taken, body, target>>
    BY <1>2 DEF Handling, SP!Ask, SP!AskErr, SP!BodyFrame, SP!BodyEnd, SP!CountTx, SP!StreamEnd, SP!StreamAborted, SP!upVars
  <2>2. \E l \in SP!Locations : pc' = [pc EXCEPT ![r] = l]
    BY <1>2 DEF Handling, SP!Ask, SP!AskErr, SP!BodyFrame, SP!BodyEnd, SP!CountTx, SP!StreamEnd, SP!StreamAborted, SP!Respond,
       SP!Locations, SP!Asking
  <2>3. \/ pc[r] = "get_send" /\ pc'[r] = "get_wait"
        \/ pc[r] \in {"put_send", "put_wait", "body", "put_ok"} /\ pc'[r] \in {"put_wait", "put_send", "done", "body"}
        \/ pc[r] \in {"get_send", "get_wait", "get_more", "get_first"} /\ pc'[r] = "done"
        \/ pc[r] = "get_tell" /\ pc'[r] = "done" /\ r \in aborted
    BY <1>2 DEF Handling, SP!Ask, SP!AskErr, SP!BodyFrame, SP!BodyEnd, SP!CountTx, SP!StreamEnd, SP!StreamAborted, SP!Respond,
       SP!Asking, SP!Streaming
  <2>4. r \in aborted => ~SP!IsAlive(target[r])
    BY DEF SP!AbortOK, SP!IsAlive
  <2>5. Quiet(r)
    BY <2>1, <2>3, <2>4 DEF Quiet, Early, SP!Streaming
  <2>6. ASSUME NEW s \in Reqs, s # r PROVE Quiet(s)
    BY <2>1, <2>2, <2>6 DEF Quiet
  <2>. QED BY <2>1, <2>5, <2>6
<1>3. ASSUME NEW a \in Actors, Living(a) PROVE UNCHANGED taken /\ \A s \in Reqs : Quiet(s)
  <2>1. UNCHANGED <<taken, body, target>>
    BY <1>3 DEF Living, SP!OnStartOk, SP!OnStartErr, SP!ActorTimeout, SP!Kill, SP!Drop, SP!HandleSessionRead, SP!HandleSessionWrite,
                SP!HandleReset, SP!WriteOk, SP!WriteErr, SP!UpstreamSends, SP!UpstreamCloses, SP!reqVars, SP!upVars
  <2>2. CASE UNCHANGED pc
    BY <2>1, <2>2 DEF Quiet
  <2>3. CASE SP!HandleSessionRead(a)
    <3>. DEFINE r == Head(mailbox[a]).req
    <3>1. r \in Reqs /\ target[r] = a /\ SP!IsAlive(a)
      <4>1. mailbox[a] # <<>> /\ Head(mailbox[a]).kind = "read" /\ phase[a] = "running"
        BY <2>3 DEF SP!HandleSessionRead, SP!Takes
      <4>2. 1 \in 1..Len(mailbox[a]) /\ Head(mailbox[a]) = mailbox[a][1]
        BY <4>1
      <4>. QED BY <4>1, <4>2 DEF SP!MailInv, SP!MessageOK, SP!IsAlive
    <3>2. UNCHANGED pc \/ (pc[r] = "get_wait" /\ \E l \in {"get_first", "done"} : pc' = [pc EXCEPT ![r] = l])
      BY <2>3 DEF SP!HandleSessionRead, SP!Respond
    <3>. HIDE DEF r
    <3>3. Quiet(r)
      BY <2>1, <3>1, <3>2 DEF Quiet, Early, SP!Streaming
    <3>4. ASSUME NEW s \in Reqs, s # r PROVE Quiet(s)
      BY <2>1, <3>2, <3>4 DEF Quiet
    <3>. QED BY <2>1, <3>3, <3>4
  <2>4. CASE SP!WriteOk(a) \/ SP!WriteErr(a)
    <3>1. \A s \in Reqs : pc'[s] = pc[s] \/ (pc[s] = "put_wait" /\ pc'[s] = "put_ok")
      BY <2>4, SMTT(30) DEF SP!WriteOk, SP!WriteErr, SP!ReplyWritten
    <3>. QED BY <2>1, <3>1 DEF Quiet, Early, SP!Streaming
  <2>5. SP!HandleSessionRead(a) \/ SP!WriteOk(a) \/ SP!WriteErr(a) \/ UNCHANGED pc
    BY <1>3 DEF Living, SP!OnStartOk, SP!OnStartErr, SP!ActorTimeout, SP!Kill, SP!Drop, SP!HandleSessionWrite,
                SP!HandleReset, SP!UpstreamSends, SP!UpstreamCloses, SP!reqVars
  <2>. QED BY <2>2, <2>3, <2>4, <2>5
<1>4. CASE \E k \in 1..Len(requests) : Arriving(W(k), WriteQ(k))
  BY <1>1, <1>4, OfferedOK, Zenon
<1>5. CASE \E k \in 1..gets : Arriving(G(k), GetQ)
  BY <1>1, <1>5, OfferedOK, Zenon
<1>. QED BY ONLY ServerStep, ServerCases, <1>2, <1>3, <1>4, <1>5

\* The connection that the client has received from last was opened.
LEMMA LastGot ==
    ASSUME GotInv, got # <<>>
    PROVE  LET l == Len(got)
           IN  /\ l \in Nat \ {0} /\ l \in 1..l
               /\ got[l] = <<got[l][1], got[l][2]>> /\ got[l][1] \in Born /\ got[l][1] \in Actors /\ got[l][2] \in Nat
<1>1. got \in Seq(Actors \X Nat)
  BY DEF GotInv
<1>2. Len(got) \in Nat \ {0} /\ Len(got) \in 1..Len(got)
  BY ONLY <1>1, got # <<>>
<1>3. got[Len(got)] \in Actors \X Nat
  BY ONLY <1>1, <1>2
<1>4. got[Len(got)] = <<got[Len(got)][1], got[Len(got)][2]>> /\ got[Len(got)][1] \in Actors /\ got[Len(got)][2] \in Nat
  BY ONLY <1>3
<1>. QED BY <1>2, <1>4 DEF GotInv

\* The number of the last unit is a number.
LEMMA GotNat ==
    ASSUME GotInv, NEW c \in Actors
    PROVE  Got(c) \in Nat /\ (c \notin Born => Got(c) = 0)
<1>1. CASE got = <<>>
  BY <1>1 DEF Got
<1>2. CASE got # <<>>
  <2>1. got[Len(got)][1] \in Born /\ got[Len(got)][2] \in Nat
    BY <1>2, LastGot
  <2>. QED BY <1>2, <2>1 DEF Got
<1>. QED BY <1>1, <1>2

\* A step in which no stream takes up or yields a unit, and the client
\* receives none and sends no GET.
Calm ==
    /\ UNCHANGED <<got, seen, gets, frames, taken>>
    /\ incoming' = "ask" => incoming = "ask" \/ seen = Len(body[G(gets)])
    /\ \A k \in 1..MaxGets : Quiet(G(k))
    /\ \A a \in Actors : sent[a] <= sent'[a]
    /\ Born \subseteq Born'
    /\ \A a \in Actors : SP!IsAlive(a)' => SP!IsAlive(a) \/ a \notin Born

\* Such a step keeps what is known of the last response.
LEMMA RestKept ==
    ASSUME ServerInv, ClientInv, ReadSideInv, Calm, gets > 0
    PROVE  RestOK(G(gets))'
<1>. USE TunnelAssumption DEF ServerInv, SP!TypeInv, SP!TypeOK
<1>. DEFINE g == G(gets)
            t == target[g]
<1>1. gets \in 1..MaxGets /\ g \in Reqs
  BY Requested DEF ClientInv, LinkInv, CP!TypeOK, CP!DataOK
<1>2. BodyOK(gets) /\ RestOK(g) /\ Quiet(g) /\ GotInv /\ UNCHANGED <<got, seen, gets, taken>>
  BY <1>1 DEF ReadSideInv, Calm
<1>3. body'[g] = body[g] /\ Len(body[g]) \in Nat /\ seen \in Nat
  BY <1>1, <1>2 DEF Quiet, GotInv
<1>4. seen <= Len(body[g]) /\ (incoming' = "ask" => seen = Len(body[g]))
  BY <1>2 DEF RestOK, Calm
<1>5. ASSUME target'[g] \in Actors, target'[g] # t
      PROVE  /\ body[g] = <<>> /\ Upto(target'[g]) /\ pc'[g] \notin SP!Streaming
  <2>1. body[g] = <<>> /\ pc'[g] \notin SP!Streaming /\ \A b \in Born : b <= target'[g]
    BY <1>2, <1>5 DEF Quiet, BodyOK
  <2>. QED BY <1>2, <2>1, LastGot DEF Upto
<1>6. ASSUME t \in Actors, target'[g] = t, pc'[g] \in SP!Streaming
      PROVE  taken[t] = Got(t) + (Len(body[g]) - seen + (IF pc'[g] = "get_tell" THEN 1 ELSE 0))
  <2>1. CASE pc[g] \in SP!Streaming
    <3>1. taken[t] = Got(t) + Flight(t)
      BY <1>2, <1>6, <2>1 DEF RestOK
    <3>2. pc'[g] = "get_tell" <=> pc[g] = "get_tell"
      BY <1>2, <1>6 DEF Quiet
    <3>. QED BY <3>1, <3>2 DEF Flight
  <2>2. CASE pc[g] = "get_wait" /\ SP!IsAlive(t)
    <3>1. body[g] = <<>> /\ seen = 0 /\ pc'[g] # "get_tell" /\ Upto(t)
      BY <1>2, <1>3, <1>4, <1>6, <2>2 DEF BodyOK, Quiet, RestOK
    <3>2. taken[t] = Got(t) + Flight(t)
      BY <1>6, <2>2, <3>1 DEF ReadSideInv
    <3>. QED BY <2>2, <3>1, <3>2 DEF Flight
  <2>. QED BY <1>2, <1>6, <2>1, <2>2 DEF Quiet
<1>7. ASSUME target'[g] \in Actors
      PROVE  /\ Upto(target'[g])
             /\ \A i \in 1..Len(body[g]) : i > seen => body[g][i] = Got(target'[g]) + (i - seen)
             /\ pc'[g] \in SP!Streaming =>
                   taken[target'[g]] = Got(target'[g]) + (Len(body[g]) - seen + (IF pc'[g] = "get_tell" THEN 1 ELSE 0))
  <2>1. CASE target'[g] = t
    BY <1>2, <1>6, <1>7, <2>1 DEF RestOK
  <2>2. CASE target'[g] # t
    BY <1>5, <1>7, <2>2
  <2>. QED BY <2>1, <2>2
<1>. HIDE DEF g
<1>8. g' = g /\ (\A c : Upto(c)' = Upto(c) /\ Got(c)' = Got(c))
  BY <1>2 DEF g, Upto, Got
<1>9. target'[g] \in Actors => Flight(target[g])' = Len(body[g]) - seen + (IF pc'[g] = "get_tell" THEN 1 ELSE 0)
  BY <1>2, <1>3, <1>8 DEF Flight, g
<1>. QED BY <1>2, <1>3, <1>4, <1>7, <1>8, <1>9 DEF RestOK, g

\* And what is known of the units of the live sessions.
LEMMA FlightKept ==
    ASSUME ServerInv, ClientInv, ReadSideInv, Calm, NEW c \in Actors, SP!IsAlive(c)', Upto(c)
    PROVE  taken[c] = Got(c) + Flight(c)'
<1>. USE TunnelAssumption DEF ServerInv, SP!TypeInv, SP!TypeOK
<1>. DEFINE g == G(gets)
<1>1. GotInv /\ UNCHANGED gets /\ gets \in Nat /\ taken[c] \in Nat
  BY DEF ReadSideInv, Calm, ClientInv, CP!TypeOK, CP!DataOK
<1>2. ASSUME gets > 0
      PROVE  /\ g \in Reqs /\ Quiet(g) /\ g' = g /\ UNCHANGED <<seen, body[g]>>
             /\ seen \in Nat /\ Len(body[g]) \in Nat /\ seen <= Len(body[g])
             /\ pc[g] \in Early => body[g] = <<>>
  <2>1. gets \in 1..MaxGets
    BY <1>2 DEF ClientInv, LinkInv, CP!TypeOK, CP!DataOK
  <2>2. g \in Reqs /\ BodyOK(gets) /\ RestOK(g) /\ Quiet(g)
    BY <1>2, <2>1, Requested DEF ReadSideInv, Calm
  <2>3. g' = g /\ UNCHANGED seen /\ body'[g] = body[g]
    BY <1>1, <2>2 DEF Quiet, Calm
  <2>. QED BY <1>1, <2>2, <2>3 DEF BodyOK, RestOK, Early, GotInv
<1>3. ASSUME gets > 0, target'[g] # target[g]
      PROVE  /\ body[g] = <<>> /\ seen = 0 /\ pc[g] # "get_tell" /\ pc'[g] # "get_tell"
  BY <1>2, <1>3 DEF Quiet, Early, SP!Streaming
<1>4. CASE SP!IsAlive(c)
  <2>1. taken[c] = Got(c) + Flight(c)
    BY <1>4 DEF ReadSideInv
  <2>2. Flight(c)' = Flight(c)
    <3>1. CASE gets = 0
      BY <1>1, <3>1 DEF Flight
    <3>2. CASE gets > 0 /\ target'[g] # target[g]
      <4>1. Len(body[g]) = 0 /\ seen = 0 /\ pc[g] # "get_tell" /\ pc'[g] # "get_tell"
        BY <1>3, <3>2
      <4>2. Flight(c) = 0
        BY <4>1 DEF Flight
      <4>3. Flight(c)' = 0
        BY <1>1, <1>2, <3>2, <4>1 DEF Flight
      <4>. QED BY <4>2, <4>3
    <3>3. CASE gets > 0 /\ target'[g] = target[g]
      <4>1. target[g] = c => (pc'[g] = "get_tell" <=> pc[g] = "get_tell")
        BY <1>2, <1>4, <3>3 DEF Quiet
      <4>. QED BY <1>1, <1>2, <3>3, <4>1 DEF Flight
    <3>. QED BY <1>1, <3>1, <3>2, <3>3
  <2>. QED BY <2>1, <2>2
<1>5. CASE c \notin Born
  <2>1. taken[c] = 0 /\ Got(c) = 0
    BY <1>1, <1>5, GotNat DEF GotInv
  <2>2. Flight(c)' = 0
    <3>1. CASE gets > 0 /\ target'[g] = c
      <4>1. target[g] # c
        <5>1. g \in Reqs /\ c # None
          BY <1>2, <3>1
        <5>. HIDE DEF g
        <5>2. target[g] # None => target[g] \in Born
          BY ONLY ServerInv, <5>1, FoundBorn
        <5>. QED BY ONLY <1>5, <5>1, <5>2
      <4>2. Len(body[g]) = 0 /\ seen = 0 /\ pc'[g] # "get_tell"
        BY <1>3, <3>1, <4>1
      <4>. QED BY <1>1, <1>2, <3>1, <4>2 DEF Flight
    <3>2. CASE ~(gets > 0 /\ target'[g] = c)
      BY <1>1, <3>2 DEF Flight
    <3>. QED BY <3>1, <3>2
  <2>. QED BY <2>1, <2>2
<1>. QED BY <1>4, <1>5 DEF Calm

\* A calm step keeps what is known of the units.
LEMMA ReadKept ==
    ASSUME ServerInv, ServerInv', ClientInv, ReadSideInv, Calm
    PROVE  ReadSideInv'
<1>. USE TunnelAssumption DEF ServerInv, SP!TypeInv, SP!TypeOK
<1>1. UNCHANGED <<got, seen, gets, frames, taken>> /\ gets \in Nat
  BY DEF Calm, ClientInv, CP!TypeOK, CP!DataOK
<1>2. GotInv'
  <2>1. \A a \in Actors : taken'[a] <= sent'[a] /\ (a \notin Born' => taken'[a] = 0)
    BY <1>1 DEF ReadSideInv, GotInv, Calm
  <2>2. \A k \in 1..Len(got) : got[k][1] \in Born' /\ got[k][2] \in 1..taken'[got[k][1]]
    BY <1>1 DEF ReadSideInv, GotInv, Calm
  <2>3. (\A k \in 1..Len(got) : k > 1 => Succeeds(got[k - 1], got[k])) /\ (got # <<>> => got[1][2] = 1)
    BY DEF ReadSideInv, GotInv
  <2>4. got \in Seq(Actors \X Nat) /\ Len(got) = frames /\ seen \in Nat
    BY DEF ReadSideInv, GotInv
  <2>. QED BY ONLY <1>1, <2>1, <2>2, <2>3, <2>4, Zenon DEF GotInv, Succeeds
<1>3. ASSUME NEW k \in 1..MaxGets PROVE BodyOK(k)'
  <2>1. BodyOK(k) /\ Quiet(G(k))
    BY DEF ReadSideInv, Calm
  <2>. QED BY <2>1 DEF BodyOK, Quiet, Early
<1>4. gets' > 0 => RestOK(G(gets))'
  BY <1>1, RestKept
<1>5. ASSUME NEW c \in Actors, SP!IsAlive(c)', Upto(c)' PROVE taken'[c] = Got(c)' + Flight(c)'
  <2>1. Upto(c) /\ Got(c)' = Got(c) /\ taken'[c] = taken[c]
    BY <1>1, <1>5 DEF Upto, Got
  <2>. QED BY <1>5, <2>1, FlightKept
<1>. QED BY <1>2, <1>3, <1>4, <1>5 DEF ReadSideInv

\* The response with a stream is that to the last GET.
LEMMA StreamFacts ==
    ASSUME ServerInv, ClientInv, CauseInv, ReadSideInv, NEW r \in Reqs, pc[r] \in SP!Streaming
    PROVE  /\ gets \in 1..MaxGets /\ gets > 0 /\ r = G(gets) /\ incoming # "ask"
           /\ target[r] \in Actors /\ target[r] \in Born /\ taken[target[r]] \in Nat
           /\ BodyOK(gets) /\ RestOK(r) /\ GotInv
           /\ body[r] \in Seq(Nat) /\ Len(body[r]) \in Nat /\ seen \in Nat /\ seen <= Len(body[r])
           /\ taken[target[r]] = Got(target[r]) + (Len(body[r]) - seen + (IF pc[r] = "get_tell" THEN 1 ELSE 0))
<1>. USE TunnelAssumption
<1>1. gets \in 1..MaxGets /\ r = G(gets) /\ incoming # "ask"
  BY OneGet DEF SP!Streaming, Getting
<1>2. target[r] \in Actors
  BY DEF ServerInv, SP!TypeInv, SP!TargetOK, SP!Streaming
<1>3. target[r] \in Born
  BY <1>2, FoundBorn
<1>4. gets > 0 /\ BodyOK(gets) /\ RestOK(r) /\ GotInv
  BY <1>1 DEF ReadSideInv
<1>5. body[r] \in Seq(Nat) /\ Len(body[r]) \in Nat /\ taken[target[r]] \in Nat
  BY <1>2 DEF ServerInv, SP!TypeInv, SP!TypeOK
<1>6. seen \in Nat /\ seen <= Len(body[r])
  BY <1>4 DEF RestOK, GotInv
<1>7. taken[target[r]] = Got(target[r]) + Flight(target[r])
  BY <1>2, <1>4 DEF RestOK
<1>8. Flight(target[r]) = Len(body[r]) - seen + (IF pc[r] = "get_tell" THEN 1 ELSE 0)
  BY <1>1, <1>4 DEF Flight
<1>. QED BY <1>1, <1>2, <1>3, <1>4, <1>5, <1>6, <1>7, <1>8

\* A stream takes up a unit.
LEMMA ReadStream ==
    ASSUME ServerInv, ServerInv', ClientInv, CauseInv, ReadSideInv, NEW r \in Reqs, SP!StreamRead(r),
           UNCHANGED <<got, seen, gets, frames, incoming>>
    PROVE  ReadSideInv'
<1>. USE TunnelAssumption DEF ServerInv, SP!TypeInv, SP!TypeOK
<1>. DEFINE t == target[r]
<1>1. /\ pc[r] \in {"get_first", "get_more"} /\ taken[t] < sent[t]
      /\ taken' = [taken EXCEPT ![t] = @ + 1] /\ pc' = [pc EXCEPT ![r] = "get_tell"]
      /\ UNCHANGED <<target, body, sent, phase>>
  BY DEF SP!StreamRead, SP!tableVars
<1>2. /\ gets \in 1..MaxGets /\ gets > 0 /\ r = G(gets) /\ incoming # "ask"
      /\ t \in Actors /\ t \in Born /\ taken[t] \in Nat
      /\ BodyOK(gets) /\ RestOK(r) /\ GotInv
      /\ body[r] \in Seq(Nat) /\ Len(body[r]) \in Nat /\ seen \in Nat /\ seen <= Len(body[r])
      /\ taken[t] = Got(t) + (Len(body[r]) - seen)
  <2>1. pc[r] \in SP!Streaming /\ pc[r] # "get_tell"
    BY <1>1 DEF SP!Streaming
  <2>2. taken[t] = Got(t) + (Len(body[r]) - seen + 0) /\ Len(body[r]) \in Nat /\ seen \in Nat
    BY <2>1, StreamFacts
  <2>3. Len(body[r]) - seen + 0 = Len(body[r]) - seen
    BY ONLY <2>2
  <2>. QED BY <2>1, <2>2, <2>3, StreamFacts
<1>3. Born' = Born
  BY <1>1 DEF Born
<1>4. (\A c : Upto(c)' = Upto(c) /\ Got(c)' = Got(c)) /\ G(gets)' = G(gets)
  BY DEF Upto, Got
<1>. HIDE DEF t
<1>5. \A a \in Actors : taken[a] \in Nat /\ taken'[a] \in Nat /\ taken[a] <= taken'[a] /\ (a # t => taken'[a] = taken[a])
  <2>1. taken \in [Actors -> Nat]
    OBVIOUS
  <2>. QED BY ONLY <1>1, <1>2, <2>1
<1>6. GotInv'
  <2>1. ASSUME NEW a \in Actors PROVE taken'[a] <= sent'[a] /\ (a \notin Born' => taken'[a] = 0)
    <3>1. CASE a = t
      BY <1>1, <1>2, <1>3, <3>1, SMTT(30)
    <3>2. CASE a # t
      BY <1>1, <1>2, <1>3, <1>5, <3>2 DEF GotInv
    <3>. QED BY <3>1, <3>2
  <2>2. ASSUME NEW k \in 1..Len(got) PROVE got[k][1] \in Born' /\ got[k][2] \in 1..taken'[got[k][1]]
    <3>1. got[k][1] \in Born /\ got[k][2] \in 1..taken[got[k][1]]
      BY <1>2 DEF GotInv
    <3>2. got[k][1] \in Actors
      BY <3>1 DEF Born
    <3>3. \A x, y \in Nat : x <= y => \A z \in 1..x : z \in 1..y
      OBVIOUS
    <3>. QED BY ONLY <1>3, <1>5, <3>1, <3>2, <3>3
  <2>3. (\A k \in 1..Len(got) : k > 1 => Succeeds(got[k - 1], got[k])) /\ (got # <<>> => got[1][2] = 1)
    BY <1>2 DEF GotInv
  <2>4. got \in Seq(Actors \X Nat) /\ Len(got) = frames /\ seen \in Nat
    BY <1>2 DEF GotInv
  <2>5. UNCHANGED <<got, seen, frames>>
    OBVIOUS
  <2>. QED BY ONLY <2>1, <2>2, <2>3, <2>4, <2>5, Zenon DEF GotInv, Succeeds
<1>7. ASSUME NEW k \in 1..MaxGets PROVE BodyOK(k)'
  <2>1. BodyOK(k) /\ G(k) \in Reqs /\ (pc'[G(k)] = pc[G(k)] \/ pc'[G(k)] = "get_tell")
    BY <1>1, Requested DEF ReadSideInv
  <2>. QED BY <1>1, <2>1 DEF BodyOK
<1>8. pc'[r] = "get_tell" /\ taken'[t] = Got(t) + (Len(body[r]) - seen + 1)
  <2>1. pc'[r] = "get_tell" /\ taken'[t] = taken[t] + 1
    <3>1. pc \in [Reqs -> SP!Locations] /\ taken \in [Actors -> Nat]
      OBVIOUS
    <3>. QED BY ONLY <1>1, <1>2, <3>1, r \in Reqs
  <2>2. Got(t) \in Nat
    BY <1>2, GotNat
  <2>3. \A g, l, n \in Nat : g + (l - n) + 1 = g + (l - n + 1)
    OBVIOUS
  <2>4. Got(t) + (Len(body[r]) - seen) + 1 = Got(t) + (Len(body[r]) - seen + 1)
    BY ONLY <1>2, <2>2, <2>3
  <2>. QED BY ONLY <1>2, <2>1, <2>4
<1>9. ASSUME NEW c, c = t PROVE Flight(c)' = Len(body[r]) - seen + 1
  BY <1>1, <1>2, <1>4, <1>8, <1>9 DEF Flight, t
<1>10. RestOK(G(gets))'
  BY <1>1, <1>2, <1>4, <1>8, <1>9 DEF RestOK, t
<1>11. ASSUME NEW c \in Actors, SP!IsAlive(c)', Upto(c)' PROVE taken'[c] = Got(c)' + Flight(c)'
  <2>1. CASE c = t
    BY <1>4, <1>8, <1>9, <2>1
  <2>2. CASE c # t
    <3>1. SP!IsAlive(c) /\ Upto(c)
      BY <1>1, <1>4, <1>11 DEF SP!IsAlive
    <3>2. Flight(c) = 0 /\ Flight(c)' = 0
      BY <1>1, <1>2, <1>4, <2>2 DEF Flight, t
    <3>. QED BY <1>4, <1>5, <2>2, <3>1, <3>2 DEF ReadSideInv
  <2>. QED BY <2>1, <2>2
<1>. QED BY <1>6, <1>7, <1>10, <1>11 DEF ReadSideInv

\* A stream yields the unit it has taken up.
LEMMA ReadYield ==
    ASSUME ServerInv, ServerInv', ClientInv, CauseInv, ReadSideInv, NEW r \in Reqs, SP!StreamYield(r),
           UNCHANGED <<got, seen, gets, frames, incoming>>
    PROVE  ReadSideInv'
<1>. USE TunnelAssumption DEF ServerInv, SP!TypeInv, SP!TypeOK
<1>. DEFINE t == target[r]
            b == body[r]
<1>1. /\ pc[r] = "get_tell" /\ pc' = [pc EXCEPT ![r] = "get_more"]
      /\ body' = [body EXCEPT ![r] = Append(@, taken[t])]
      /\ UNCHANGED <<target, taken, sent, phase>>
  BY DEF SP!StreamYield, SP!YieldFrame, SP!tableVars, SP!upVars
<1>2. /\ gets \in 1..MaxGets /\ gets > 0 /\ r = G(gets) /\ incoming # "ask"
      /\ t \in Actors /\ t \in Born /\ taken[t] \in Nat
      /\ BodyOK(gets) /\ RestOK(r) /\ GotInv
      /\ b \in Seq(Nat) /\ Len(b) \in Nat /\ seen \in Nat /\ seen <= Len(b)
      /\ taken[t] = Got(t) + (Len(b) - seen + 1)
  <2>1. pc[r] \in SP!Streaming
    BY <1>1 DEF SP!Streaming
  <2>. QED BY <1>1, <2>1, StreamFacts
<1>3. Born' = Born
  BY <1>1 DEF Born
<1>4. (\A c : Upto(c)' = Upto(c) /\ Got(c)' = Got(c)) /\ G(gets)' = G(gets)
  BY DEF Upto, Got
<1>5. /\ body'[r] = Append(b, taken[t]) /\ Len(body'[r]) = Len(b) + 1
      /\ \A i \in 1..Len(b) : body'[r][i] = b[i]
      /\ body'[r][Len(b) + 1] = taken[t] /\ pc'[r] = "get_more"
  <2>1. body'[r] = Append(b, taken[t]) /\ pc'[r] = "get_more"
    BY <1>1
  <2>. QED BY ONLY <1>2, <2>1
<1>. HIDE DEF t, b
<1>6. GotInv'
  BY <1>1, <1>2, <1>3 DEF GotInv, Succeeds
<1>7. ASSUME NEW k \in 1..MaxGets PROVE BodyOK(k)'
  <2>1. CASE k = gets
    BY <1>1, <1>2, <1>5, <2>1 DEF BodyOK, t
  <2>2. CASE k # gets
    <3>1. BodyOK(k) /\ G(k) \in Reqs /\ G(k) # r
      BY <1>2, <2>2, Requested DEF ReadSideInv
    <3>. QED BY <1>1, <3>1 DEF BodyOK
  <2>. QED BY <2>1, <2>2
<1>8. ASSUME NEW c, c = t PROVE Flight(c)' = Len(b) - seen + 1
  <2>1. Flight(c)' = Len(body'[r]) - seen + 0
    BY <1>1, <1>2, <1>4, <1>5, <1>8 DEF Flight, t
  <2>. QED BY ONLY <1>2, <1>5, <2>1
<1>9. RestOK(G(gets))'
  <2>1. ASSUME NEW i \in 1..Len(body'[r]), i > seen PROVE body'[r][i] = Got(t) + (i - seen)
    <3>1. CASE i \in 1..Len(b)
      <4>1. b[i] = Got(t) + (i - seen)
        BY <1>2, <2>1, <3>1 DEF RestOK, t, b
      <4>. QED BY <1>5, <3>1, <4>1
    <3>2. CASE i = Len(b) + 1
      <4>1. Len(b) + 1 - seen = Len(b) - seen + 1
        BY <1>2
      <4>. QED BY ONLY <1>2, <1>5, <3>2, <4>1
    <3>3. i \in 1..Len(b) \/ i = Len(b) + 1
      BY ONLY <1>2, <1>5, <2>1
    <3>. QED BY ONLY <3>1, <3>2, <3>3
  <2>2. seen <= Len(body'[r])
    BY ONLY <1>2, <1>5
  <2>3. Upto(t)
    BY <1>2 DEF RestOK, t
  <2>. QED BY <1>1, <1>2, <1>4, <1>8, <2>1, <2>2, <2>3 DEF RestOK, t
<1>10. ASSUME NEW c \in Actors, SP!IsAlive(c)', Upto(c)' PROVE taken'[c] = Got(c)' + Flight(c)'
  <2>1. CASE c = t
    BY <1>1, <1>2, <1>4, <1>8, <2>1
  <2>2. CASE c # t
    <3>1. SP!IsAlive(c) /\ Upto(c)
      BY <1>1, <1>4, <1>10 DEF SP!IsAlive
    <3>2. Flight(c) = 0 /\ Flight(c)' = 0
      BY <1>1, <1>2, <1>4, <2>2 DEF Flight, t
    <3>. QED BY <1>1, <1>4, <2>2, <3>1, <3>2 DEF ReadSideInv
  <2>. QED BY <2>1, <2>2
<1>. QED BY <1>6, <1>7, <1>9, <1>10 DEF ReadSideInv

\* Sessions that live were alive before, or are new.
LEMMA BornStep ==
    ASSUME ServerInv, ClientInv, [Next]_vars
    PROVE  /\ Born \subseteq Born'
           /\ \A a \in Actors : SP!IsAlive(a)' => SP!IsAlive(a) \/ a \notin Born
<1>. USE DEF ServerInv, SP!TypeInv, SP!TypeOK, Born, SP!IsAlive
<1>1. ASSUME NEW r \in Reqs, NEW q \in Offered, NEW a \in Actors, SP!CreateSession(r, q, a)
      PROVE  phase' = [phase EXCEPT ![a] = "connecting"] /\ phase[a] = "unborn"
  BY <1>1 DEF SP!CreateSession, SP!NewSession
<1>2. ASSUME NEW a \in Actors, SP!Moves(a)
      PROVE  phase[a] \in {"connecting", "running"} /\ \E l \in {"running", "stopped", "failed"} : phase' = [phase EXCEPT ![a] = l]
  BY <1>2 DEF SP!Moves
<1>3. ASSUME NEW a \in Actors, SP!Drop(a)
      PROVE  phase[a] = "stopped" /\ phase' = [phase EXCEPT ![a] = "dropped"]
  BY <1>3 DEF SP!Drop
<1>4. UNCHANGED SP!tableVars => UNCHANGED phase
  BY DEF SP!tableVars
<1>. QED BY <1>1, <1>2, <1>3, <1>4, LineCases

\* Upstream does not take back what it has sent.
LEMMA SentStep ==
    ASSUME ServerInv, ServerStep
    PROVE  UNCHANGED sent \/ \E a \in Actors : SP!UpstreamSends(a)
<1>. USE DEF SP!upVars
<1>1. ASSUME NEW r, NEW q, Arriving(r, q) PROVE UNCHANGED sent
  BY <1>1 DEF Arriving, SP!RejectRequest, SP!JoinSession, SP!CreateSession
<1>2. ASSUME NEW r, Handling(r) PROVE UNCHANGED sent
  BY <1>2 DEF Handling, SP!Ask, SP!AskErr, SP!BodyFrame, SP!BodyEnd, SP!CountTx,
              SP!StreamRead, SP!StreamYield, SP!StreamEnd, SP!StreamAborted
<1>3. ASSUME NEW a \in Actors, Living(a), ~SP!UpstreamSends(a) PROVE UNCHANGED sent
  BY <1>3 DEF Living, SP!OnStartOk, SP!OnStartErr, SP!ActorTimeout, SP!Kill, SP!Drop, SP!HandleSessionRead, SP!HandleSessionWrite,
              SP!HandleReset, SP!WriteOk, SP!WriteErr, SP!UpstreamCloses
<1>. QED BY ONLY ServerStep, ServerCases, <1>1, <1>2, <1>3

\* A step of the server keeps what is known of the units.
LEMMA ReadServer ==
    ASSUME ServerInv, ServerInv', ClientInv, CauseInv, LineInv, ReadSideInv, ServerStep
    PROVE  ReadSideInv'
<1>1. UNCHANGED <<got, seen, gets, frames, incoming>>
  BY ServerCases DEF clientVars, linkVars
<1>2. ASSUME NEW r \in Reqs, SP!StreamRead(r) \/ SP!StreamYield(r) PROVE ReadSideInv'
  BY <1>1, <1>2, ReadStream, ReadYield
<1>3. ASSUME UNCHANGED taken, \A s \in Reqs : Quiet(s) PROVE ReadSideInv'
  <2>1. ASSUME NEW a \in Actors PROVE sent[a] <= sent'[a]
    <3>1. sent \in [Actors -> Nat]
      BY DEF ServerInv, SP!TypeInv, SP!TypeOK
    <3>2. UNCHANGED sent \/ \E c \in Actors : sent' = [sent EXCEPT ![c] = @ + 1]
      BY SentStep DEF SP!UpstreamSends
    <3>. QED BY ONLY <3>1, <3>2, a \in Actors
  <2>2. \A k \in 1..MaxGets : Quiet(G(k))
    BY <1>3, Requested
  <2>3. /\ Born \subseteq Born'
        /\ \A a \in Actors : SP!IsAlive(a)' => SP!IsAlive(a) \/ a \notin Born
    BY BornStep DEF Next
  <2>4. Calm
    BY <1>1, <1>3, <2>1, <2>2, <2>3 DEF Calm
  <2>. QED BY <2>4, ReadKept
<1>. QED BY <1>2, <1>3, UnitCases

\* A step of the client in which it receives nothing and sends no GET.
LEMMA ClientCalm ==
    ASSUME UNCHANGED serverVars, UNCHANGED <<got, seen, gets, frames>>,
           incoming' = "ask" => incoming = "ask" \/ seen = Len(body[G(gets)]), ServerInv
    PROVE  Calm
<1>. USE DEF ServerInv, SP!TypeInv, SP!TypeOK
<1>1. UNCHANGED <<taken, body, pc, target, sent, phase>>
  BY DEF serverVars
<1>2. \A s : Quiet(s)
  BY <1>1 DEF Quiet
<1>3. Born' = Born /\ (\A a \in Actors : sent[a] <= sent'[a]) /\ \A a : SP!IsAlive(a)' = SP!IsAlive(a)
  BY <1>1 DEF Born, SP!IsAlive
<1>. QED BY <1>1, <1>2, <1>3 DEF Calm

\* The client sends the next GET, after it has seen the whole response to the
\* one before.
LEMMA ReadAsk ==
    ASSUME ServerInv, ClientInv, ClientInv', CauseInv, ReadSideInv, UNCHANGED serverVars, CP!InAsk, seen' = 0, UNCHANGED got
    PROVE  ReadSideInv'
<1>. USE TunnelAssumption DEF ServerInv, SP!TypeInv, SP!TypeOK
<1>1. UNCHANGED <<taken, body, pc, target, sent, phase, frames, got>>
  BY DEF serverVars, CP!InAsk
<1>2. /\ incoming = "ask" /\ incoming' = "head" /\ gets' = gets + 1
      /\ gets \in Nat /\ gets + 1 \in 1..MaxGets
  BY DEF CP!InAsk, ClientInv, LinkInv, CP!TypeOK, CP!DataOK
<1>3. Born' = Born /\ \A c : Upto(c)' = Upto(c) /\ Got(c)' = Got(c) /\ SP!IsAlive(c)' = SP!IsAlive(c)
  BY <1>1 DEF Born, Upto, Got, SP!IsAlive
<1>4. GotInv'
  BY <1>1, <1>3 DEF ReadSideInv, GotInv, Succeeds
<1>5. \A k \in 1..MaxGets : BodyOK(k)'
  BY <1>1 DEF ReadSideInv, BodyOK
<1>. DEFINE n == G(gets + 1)
<1>6. n \in Reqs /\ target[n] = None /\ body[n] = <<>> /\ pc[n] = "new" /\ G(gets)' = n
  <2>1. n \in Reqs /\ GetsOK(gets + 1) /\ G(gets)' = n
    BY <1>2, Requested DEF CauseInv
  <2>2. pc[n] = "new"
    BY <1>2, <2>1 DEF GetsOK
  <2>. QED BY <2>1, <2>2 DEF SP!UnitInv
<1>7. RestOK(G(gets))'
  BY <1>1, <1>2, <1>6 DEF RestOK
<1>8. ASSUME NEW c \in Actors PROVE Flight(c) = 0 /\ Flight(c)' = 0
  <2>1. Flight(c)' = 0
    BY <1>1, <1>6 DEF Flight
  <2>2. ASSUME gets = 0 PROVE Flight(c) = 0
    BY ONLY <2>2 DEF Flight
  <2>3. ASSUME gets > 0 PROVE Flight(c) = 0
    <3>1. gets \in 1..MaxGets /\ gets > 0
      BY <1>2, <2>3
    <3>2. GetsOK(gets) /\ RestOK(G(gets)) /\ G(gets) \in Reqs
      BY <3>1, Requested DEF CauseInv, ReadSideInv
    <3>3. pc[G(gets)] = "done" /\ seen = Len(body[G(gets)]) /\ Len(body[G(gets)]) \in Nat
      BY <1>2, <3>2 DEF GetsOK, RestOK
    <3>. QED BY ONLY <3>3 DEF Flight
  <2>. QED BY <1>2, <2>1, <2>2, <2>3
<1>9. ASSUME NEW c \in Actors, SP!IsAlive(c)', Upto(c)' PROVE taken'[c] = Got(c)' + Flight(c)'
  BY <1>1, <1>3, <1>8, <1>9 DEF ReadSideInv
<1>. QED BY <1>4, <1>5, <1>7, <1>9 DEF ReadSideInv

\* The next frame of a response.
LEMMA FrameFacts ==
    ASSUME ServerInv, ClientInv, ReadSideInv, incoming = "body", seen < Len(body[G(gets)])
    PROVE  LET g == G(gets)
               t == target[g]
               u == body[g][seen + 1]
           IN  /\ gets \in 1..MaxGets /\ gets > 0 /\ g \in Reqs /\ GotInv /\ RestOK(g)
               /\ t \in Actors /\ t \in Born /\ Upto(t) /\ u = Got(t) + 1 /\ u \in 1..taken[t]
               /\ seen \in Nat /\ Len(body[g]) \in Nat /\ seen + 1 \in 1..Len(body[g])
<1>. USE TunnelAssumption DEF ServerInv, SP!TypeInv, SP!TypeOK
<1>. DEFINE g == G(gets)
            t == target[g]
            u == body[g][seen + 1]
<1>1. gets \in 1..MaxGets /\ gets > 0 /\ g \in Reqs
  <2>1. gets \in Nat /\ gets # 0 /\ gets <= MaxGets
    BY DEF ClientInv, LinkInv, CP!TypeOK, CP!DataOK
  <2>2. gets \in 1..MaxGets /\ gets > 0
    BY ONLY <2>1, TunnelAssumption
  <2>. QED BY <2>2, Requested
<1>2. GotInv /\ BodyOK(gets) /\ RestOK(g)
  BY <1>1 DEF ReadSideInv
<1>3. seen \in Nat /\ Len(body[g]) \in Nat /\ seen + 1 \in 1..Len(body[g]) /\ body[g] \in Seq(Nat) /\ body[g] # <<>>
  <2>1. seen \in Nat /\ body[g] \in Seq(Nat) /\ seen < Len(body[g])
    BY <1>1, <1>2 DEF GotInv
  <2>. QED BY ONLY <2>1
<1>4. t \in Actors /\ t \in Born
  <2>1. t \in Actors /\ t # None
    BY <1>2, <1>3 DEF BodyOK
  <2>. HIDE DEF g
  <2>. QED BY <1>1, <2>1, FoundBorn
<1>5. Upto(t) /\ u = Got(t) + (seen + 1 - seen)
  BY <1>2, <1>3, <1>4 DEF RestOK
<1>6. u = Got(t) + 1
  <2>1. seen + 1 - seen = 1
    BY ONLY <1>3
  <2>. QED BY ONLY <1>5, <2>1
<1>7. u \in 1..taken[t]
  <2>1. u \in Nat
    BY ONLY <1>3
  <2>2. SP!Carries(g, t, u)
    BY <1>3 DEF SP!Carries, SP!Elements
  <2>. QED BY <1>1, <1>4, <2>1, <2>2, SMTT(30) DEF SP!UnitInv
<1>. QED BY <1>1, <1>2, <1>3, <1>4, <1>5, <1>6, <1>7

\* The client receives the next frame of a response.
LEMMA ReadFrame ==
    ASSUME ServerInv, ClientInv, ReadSideInv, UNCHANGED serverVars,
           incoming = "body", seen < Len(body[G(gets)]), CP!InFrame, seen' = seen + 1,
           got' = Append(got, <<target[G(gets)], body[G(gets)][seen + 1]>>)
    PROVE  ReadSideInv'
<1>. USE TunnelAssumption DEF ServerInv, SP!TypeInv, SP!TypeOK
<1>. DEFINE g == G(gets)
            t == target[g]
            u == body[g][seen + 1]
            l == Len(got)
<1>1. UNCHANGED <<taken, body, pc, target, sent, phase, gets>> /\ incoming' = "send" /\ frames' = frames + 1
  BY DEF serverVars, CP!InFrame
<1>2. /\ gets \in 1..MaxGets /\ gets > 0 /\ g \in Reqs /\ GotInv /\ RestOK(g)
      /\ t \in Actors /\ t \in Born /\ Upto(t) /\ u = Got(t) + 1 /\ u \in 1..taken[t]
      /\ seen \in Nat /\ Len(body[g]) \in Nat /\ seen + 1 \in 1..Len(body[g])
  BY FrameFacts
<1>3. Born' = Born /\ g' = g /\ (\A c : SP!IsAlive(c)' = SP!IsAlive(c))
  BY <1>1 DEF Born, SP!IsAlive
<1>4. got \in Seq(Actors \X Nat) /\ l = frames /\ Actors \subseteq Int /\ taken[t] \in Nat /\ u \in Nat
  BY <1>2, SMTT(30) DEF GotInv, Actors
<1>5. /\ got' \in Seq(Actors \X Nat) /\ l \in Nat /\ Len(got') = l + 1 /\ got' # <<>> /\ l + 1 \in 1..(l + 1)
      /\ got'[l + 1] = <<t, u>> /\ \A k \in 1..l : got'[k] = got[k]
  <2>. DEFINE e == <<t, u>>
  <2>1. e \in Actors \X Nat /\ got' = Append(got, e)
    BY <1>2, <1>4
  <2>. HIDE DEF e
  <2>2. got' \in Seq(Actors \X Nat) /\ Len(got') = l + 1 /\ got' # <<>> /\ got'[l + 1] = e /\ \A k \in 1..l : got'[k] = got[k]
    BY ONLY <1>4, <2>1, AppendProperties
  <2>3. l \in Nat /\ l + 1 \in 1..(l + 1)
    BY ONLY <1>4
  <2>. QED BY ONLY <2>2, <2>3 DEF e
<1>6. ASSUME got # <<>>
      PROVE  l \in 1..l /\ got[l][1] \in Actors /\ got[l][2] \in Nat /\ got[l][1] <= t /\ Succeeds(got[l], <<t, u>>)
  <2>1. l \in 1..l /\ got[l][1] \in Actors /\ got[l][2] \in Nat /\ got[l][1] <= t
    BY <1>2, <1>6, LastGot DEF Upto
  <2>2. CASE got[l][1] = t
    BY <1>2, <1>6, <2>1, <2>2 DEF Got, Succeeds
  <2>3. CASE got[l][1] < t
    BY <1>2, <1>4, <1>6, <2>1, <2>3 DEF Got, Succeeds
  <2>4. got[l][1] \in Int /\ t \in Int
    BY <1>2, <1>4, <2>1
  <2>5. got[l][1] = t \/ got[l][1] < t
    BY ONLY <2>1, <2>4
  <2>. QED BY ONLY <2>1, <2>2, <2>3, <2>5
<1>7. ASSUME got = <<>> PROVE l = 0 /\ u = 1
  BY <1>2, <1>7 DEF Got
<1>. HIDE DEF g, t, u, l
<1>8. GotInv'
  <2>1. ASSUME NEW k \in 1..Len(got') PROVE k \in 1..l \/ k = l + 1
    BY ONLY <1>5, <2>1
  <2>2. ASSUME NEW k \in 1..Len(got') PROVE got'[k][1] \in Born' /\ got'[k][2] \in 1..taken'[got'[k][1]]
    <3>1. CASE k \in 1..l
      BY <1>1, <1>2, <1>3, <1>5, <3>1 DEF GotInv, l
    <3>2. CASE k = l + 1
      <4>1. got'[k] = <<t, u>>
        BY ONLY <1>5, <3>2
      <4>2. got'[k][1] = t /\ got'[k][2] = u
        BY ONLY <4>1
      <4>. QED BY <1>1, <1>2, <1>3, <4>2
    <3>. QED BY <2>1, <3>1, <3>2
  <2>3. ASSUME NEW k \in 1..Len(got'), k > 1 PROVE Succeeds(got[k - 1], got[k])'
    <3>1. CASE k \in 1..l
      <4>1. k - 1 \in 1..l
        BY <1>5, <2>3, <3>1
      <4>2. got'[k - 1] = got[k - 1] /\ got'[k] = got[k] /\ Succeeds(got[k - 1], got[k])
        BY <1>2, <1>5, <2>3, <3>1, <4>1 DEF GotInv, l
      <4>. QED BY ONLY <4>2 DEF Succeeds
    <3>2. CASE k = l + 1
      <4>1. k - 1 = l /\ l # 0
        BY ONLY <1>5, <2>3, <3>2
      <4>2. got # <<>>
        BY <1>7, <4>1
      <4>3. got'[k - 1] = got[l] /\ got'[k] = <<t, u>> /\ Succeeds(got[l], <<t, u>>)
        BY ONLY <1>5, <1>6, <3>2, <4>1, <4>2
      <4>. QED BY ONLY <4>3 DEF Succeeds
    <3>. QED BY <2>1, <3>1, <3>2
  <2>4. got'[1][2] = 1
    <3>1. CASE got = <<>>
      BY <1>5, <1>7, <3>1
    <3>2. CASE got # <<>>
      <4>1. 1 \in 1..l
        BY <1>6, <3>2
      <4>. QED BY <1>2, <1>5, <3>2, <4>1 DEF GotInv
    <3>. QED BY <3>1, <3>2
  <2>5. Len(got') = frames' /\ seen' \in Nat
    BY <1>1, <1>2, <1>4, <1>5
  <2>6. \A a \in Actors : taken'[a] <= sent'[a] /\ (a \notin Born' => taken'[a] = 0)
    BY <1>1, <1>2, <1>3 DEF GotInv
  <2>. QED BY ONLY <1>5, <2>2, <2>3, <2>4, <2>5, <2>6 DEF GotInv
<1>9. \A k \in 1..MaxGets : BodyOK(k)'
  BY <1>1 DEF ReadSideInv, BodyOK
<1>. DEFINE x == IF pc[g] = "get_tell" THEN 1 ELSE 0
<1>10. Got(t) \in Nat /\ x \in Nat
  BY <1>2, GotNat
<1>11. \A p, l1, l2, y \in Nat : p + (l1 - l2 + y) = (p + 1) + (l1 - (l2 + 1) + y)
  OBVIOUS
<1>. HIDE DEF x
<1>12. ASSUME NEW c \in Actors
       PROVE  /\ Upto(c)' <=> t <= c
              /\ Got(c)' = IF t = c THEN u ELSE 0
  <2>1. got'[Len(got')][1] = t /\ got'[Len(got')][2] = u
    BY <1>5, SMTT(30)
  <2>. QED BY <1>5, <2>1 DEF Upto, Got
<1>13. ASSUME NEW c
       PROVE  Flight(c)' = IF target[g] = c THEN Len(body[g]) - (seen + 1) + x ELSE 0
  BY <1>1, <1>2, <1>3 DEF Flight, g, x
<1>14. RestOK(G(gets))'
  <2>1. seen' <= Len(body'[g]) /\ incoming' # "ask"
    BY <1>1, <1>2
  <2>2. ASSUME NEW i \in 1..Len(body[g]), i > seen + 1 PROVE body[g][i] = u + (i - (seen + 1))
    <3>1. body[g][i] = Got(t) + (i - seen)
      <4>1. i > seen
        BY ONLY <1>2, <2>2
      <4>2. RestOK(g) /\ target[g] \in Actors
        BY ONLY <1>2 DEF t
      <4>3. \A j \in 1..Len(body[g]) : j > seen => body[g][j] = Got(target[g]) + (j - seen)
        BY ONLY <4>2 DEF RestOK
      <4>. QED BY ONLY <2>2, <4>1, <4>3 DEF t
    <3>2. i \in Nat
      BY <1>2
    <3>. QED BY ONLY <1>2, <1>10, <3>1, <3>2
  <2>3. pc[g] \in SP!Streaming => taken[t] = u + (Len(body[g]) - (seen + 1) + x)
    <3>1. pc[g] \in SP!Streaming => taken[t] = Got(t) + (Len(body[g]) - seen + x)
      BY <1>2 DEF RestOK, Flight, g, t, x
    <3>2. Got(t) + (Len(body[g]) - seen + x) = u + (Len(body[g]) - (seen + 1) + x)
      <4>1. Len(body[g]) \in Nat /\ seen \in Nat /\ u = Got(t) + 1
        BY ONLY <1>2
      <4>. QED BY ONLY <1>10, <1>11, <4>1
    <3>. QED BY ONLY <3>1, <3>2
  <2>4. ASSUME NEW c, c = t
        PROVE  Upto(c)' /\ Got(c)' = u /\ Flight(c)' = Len(body[g]) - (seen + 1) + x
    <3>1. c \in Actors /\ t \in Int /\ target[g] = c
      BY <1>2, <1>4, <2>4 DEF t
    <3>. QED BY <1>12, <1>13, <2>4, <3>1
  <2>5. target'[G(gets)'] = t /\ G(gets)' = g /\ body'[g] = body[g] /\ pc'[g] = pc[g] /\ taken' = taken /\ seen' = seen + 1
    BY <1>1, <1>3 DEF g, t
  <2>. QED BY ONLY <2>1, <2>2, <2>3, <2>4, <2>5 DEF RestOK
<1>15. ASSUME NEW c \in Actors, SP!IsAlive(c)', Upto(c)' PROVE taken'[c] = Got(c)' + Flight(c)'
  <2>1. t <= c /\ SP!IsAlive(c) /\ taken'[c] = taken[c]
    BY <1>1, <1>3, <1>12, <1>15
  <2>2. Upto(c)
    <3>1. ASSUME got # <<>> PROVE got[l][1] <= c
      <4>1. got[l][1] \in Int /\ t \in Int /\ c \in Int /\ got[l][1] <= t
        BY <1>2, <1>4, <1>6, <3>1
      <4>. QED BY ONLY <2>1, <4>1
    <3>. QED BY <3>1 DEF Upto, l
  <2>3. taken[c] = Got(c) + Flight(c)
    BY <2>1, <2>2 DEF ReadSideInv
  <2>4. CASE c = t
    <3>1. Flight(c) = Len(body[g]) - seen + x
      BY <1>2, <2>4 DEF Flight, g, t, x
    <3>2. Flight(c)' = Len(body[g]) - (seen + 1) + x
      BY <1>13, <2>4 DEF t
    <3>3. Got(c)' = Got(c) + 1 /\ Got(c) \in Nat
      BY <1>2, <1>12, <2>4, GotNat
    <3>4. Got(c) + (Len(body[g]) - seen + x) = (Got(c) + 1) + (Len(body[g]) - (seen + 1) + x)
      <4>1. Len(body[g]) \in Nat /\ seen \in Nat
        BY ONLY <1>2
      <4>. QED BY ONLY <1>10, <1>11, <3>3, <4>1
    <3>. QED BY ONLY <2>1, <2>3, <3>1, <3>2, <3>3, <3>4, Zenon
  <2>5. CASE c # t
    <3>1. Got(c) = 0
      <4>1. CASE got = <<>>
        BY <4>1 DEF Got
      <4>2. CASE got # <<>>
        <5>1. got[l][1] # c
          <6>1. got[l][1] \in Int /\ t \in Int /\ c \in Int /\ got[l][1] <= t
            BY <1>2, <1>4, <1>6, <4>2
          <6>. QED BY ONLY <2>1, <2>5, <6>1
        <5>. QED BY <5>1 DEF Got, l
      <4>. QED BY <4>1, <4>2
    <3>2. Flight(c) = 0 /\ Flight(c)' = 0
      BY <1>2, <1>13, <2>5 DEF Flight, g, t
    <3>3. Got(c)' = 0
      BY <1>12, <2>5
    <3>. QED BY <2>1, <2>3, <3>1, <3>2, <3>3
  <2>. QED BY <2>4, <2>5
<1>. QED BY <1>8, <1>9, <1>14, <1>15 DEF ReadSideInv

\* A step of the client keeps what is known of the units.
LEMMA ReadClient ==
    ASSUME ServerInv, ServerInv', ClientInv, ClientInv', CauseInv, ReadSideInv, ClientStep
    PROVE  ReadSideInv'
<1>1. UNCHANGED serverVars
  BY ClientCases
<1>2. ASSUME UNCHANGED <<got, seen, gets, frames>>, incoming' = "ask" => incoming = "ask" \/ seen = Len(body[G(gets)])
      PROVE  ReadSideInv'
  BY <1>1, <1>2, ClientCalm, ReadKept
<1>3. CASE CP!InAsk /\ seen' = 0 /\ UNCHANGED <<pieces, got>>
  BY <1>1, <1>3, ReadAsk
<1>4. CASE /\ incoming = "body" /\ seen < Len(body[G(gets)]) /\ CP!InFrame
           /\ seen' = seen + 1
           /\ got' = Append(got, <<target[G(gets)], body[G(gets)][seen + 1]>>)
           /\ UNCHANGED pieces
  BY <1>1, <1>4, ReadFrame
<1>5. CASE /\ incoming = "body" /\ pc[G(gets)] = "done" /\ seen = Len(body[G(gets)]) /\ CP!InBodyEnd
           /\ UNCHANGED linkVars
  BY <1>2, <1>5 DEF CP!InBodyEnd, linkVars
<1>6. CASE (CP!OutFail \/ CP!InFail) /\ UNCHANGED linkVars
  BY <1>2, <1>6 DEF CP!OutFail, CP!InFail, CP!Fail, linkVars
<1>7. CASE (CP!OutAck \/ CP!OutSend \/ CP!InHead \/ CP!InSend \/ CP!InSent \/ CP!PollRead) /\ UNCHANGED linkVars
  <2>1. UNCHANGED <<got, seen, gets, frames>>
    BY <1>7, Zenon DEF CP!OutAck, CP!OutSend, CP!InHead, CP!InSend, CP!InSent, CP!PollRead, CP!inVars, linkVars
  <2>2. incoming' # "ask" \/ incoming' = incoming
    BY <1>7 DEF CP!OutAck, CP!OutSend, CP!InHead, CP!InSend, CP!InSent, CP!PollRead, CP!inVars
  <2>. QED BY <1>2, <2>1, <2>2
<1>8. CASE CP!PollWrite /\ UNCHANGED <<got, seen>>
  BY <1>2, <1>8 DEF CP!PollWrite, CP!inVars
<1>. QED BY ONLY ClientStep, ClientCases, <1>3, <1>4, <1>5, <1>6, <1>7, <1>8

\* What the application reads, or will, the client has received.
LEMMA PassedStep ==
    ASSUME ClientInv, GotInv, GotInv', PassedInv, [Next]_vars
    PROVE  PassedInv'
<1>. USE DEF ClientInv, CP!TypeOK, CP!DataOK
<1>1. read \in Seq(Nat) /\ responseQ \in Seq(Nat) /\ frames \in Nat /\ Len(got) = frames /\ Len(got') = frames'
  BY DEF GotInv
<1>2. ASSUME UNCHANGED <<read, responseQ>>, frames' \in {frames, frames + 1} PROVE PassedInv'
  <2>1. ASSUME NEW k \in 1..Len(responseQ) PROVE responseQ[k] \in Nat
    BY ONLY <1>1, <2>1
  <2>2. Len(read) \in Nat /\ Len(read) <= frames /\ \A k \in 1..Len(responseQ) : responseQ[k] = CP!Failure \/ responseQ[k] <= frames
    BY <1>1 DEF PassedInv
  <2>3. frames' \in Nat /\ frames <= frames' /\ \A n \in Nat : n <= frames => n <= frames'
    BY ONLY <1>1, <1>2
  <2>4. Len(read) <= frames' /\ \A k \in 1..Len(responseQ) : responseQ[k] = CP!Failure \/ responseQ[k] <= frames'
    BY ONLY <2>1, <2>2, <2>3
  <2>. QED BY ONLY <1>1, <1>2, <2>4 DEF PassedInv, CP!Failure
<1>3. CASE CP!InSend
  <2>1. UNCHANGED <<read, frames>> /\ (UNCHANGED responseQ \/ \E e \in {frames, CP!Failure} : responseQ' = Append(responseQ, e))
    BY <1>3 DEF CP!InSend, CP!Put, CP!gotVars
  <2>2. ASSUME NEW e \in {frames, CP!Failure}, responseQ' = Append(responseQ, e)
        PROVE  PassedInv'
    <3>1. e \in Nat /\ (e = CP!Failure \/ e <= frames)
      BY <1>1 DEF CP!Failure
    <3>2. /\ Len(responseQ') = Len(responseQ) + 1 /\ responseQ'[Len(responseQ) + 1] = e /\ Len(responseQ) \in Nat
          /\ \A k \in 1..Len(responseQ) : responseQ'[k] = responseQ[k]
      BY ONLY <1>1, <2>2, <3>1
    <3>3. ASSUME NEW k \in 1..Len(responseQ') PROVE responseQ'[k] = CP!Failure \/ responseQ'[k] <= frames
      <4>1. CASE k \in 1..Len(responseQ)
        BY <1>1, <3>2, <4>1 DEF PassedInv
      <4>2. CASE k = Len(responseQ) + 1
        BY ONLY <3>1, <3>2, <4>2
      <4>3. k \in 1..Len(responseQ) \/ k = Len(responseQ) + 1
        BY ONLY <3>2, <3>3
      <4>. QED BY <4>1, <4>2, <4>3
    <3>. QED BY <1>1, <2>1, <3>3 DEF PassedInv, CP!Failure
  <2>. QED BY <1>2, <2>1, <2>2
<1>4. CASE CP!PollRead
  <2>1. CASE UNCHANGED <<read, responseQ, frames>>
    BY <1>2, <2>1
  <2>2. CASE responseQ # <<>> /\ responseQ' = Tail(responseQ) /\ UNCHANGED frames
    <3>1. \A k \in 1..Len(responseQ') : k + 1 \in 1..Len(responseQ) /\ responseQ'[k] = responseQ[k + 1]
      BY ONLY <1>1, <2>2
    <3>2. \A k \in 1..Len(responseQ') : responseQ'[k] = CP!Failure \/ responseQ'[k] <= Len(got')
      BY <1>1, <2>2, <3>1 DEF PassedInv, CP!Failure
    <3>3. Len(read') <= Len(got')
      <4>1. CASE UNCHANGED read
        BY <1>1, <2>2, <4>1 DEF PassedInv
      <4>2. CASE Head(responseQ) # CP!Failure /\ read' = Append(read, Head(responseQ))
        <5>1. 1 \in 1..Len(responseQ) /\ Head(responseQ) = responseQ[1] /\ responseQ[1] \in Nat /\ Len(read) \in Nat
          BY ONLY <1>1, <2>2
        <5>2. responseQ[1] = Len(read) + 1 /\ responseQ[1] <= Len(got)
          BY <4>2, <5>1 DEF CP!ReadInv, CP!QueueOK, PassedInv
        <5>3. Len(read') = Len(read) + 1
          BY ONLY <1>1, <4>2, <5>1
        <5>. QED BY <1>1, <2>2, <5>2, <5>3
      <4>. QED BY <1>4, <2>2, <4>1, <4>2 DEF CP!PollRead
    <3>. QED BY <3>2, <3>3 DEF PassedInv, CP!Failure
  <2>. QED BY <1>4, <2>1, <2>2 DEF CP!PollRead
<1>5. CASE CP!InFrame
  BY <1>2, <1>5 DEF CP!InFrame, CP!gotVars
<1>6. CASE CP!OutFail \/ CP!InFail
  BY <1>2, <1>6 DEF CP!OutFail, CP!InFail, CP!Fail, CP!gotVars
<1>7. CASE CP!OutAck \/ CP!OutSend \/ CP!InAsk \/ CP!InHead \/ CP!InBodyEnd \/ CP!InSent \/ CP!PollWrite
  <2>1. UNCHANGED <<read, responseQ, frames>>
    BY <1>7, Zenon DEF CP!OutAck, CP!OutSend, CP!InAsk, CP!InHead, CP!InBodyEnd, CP!InSent, CP!PollWrite, CP!inVars, CP!gotVars
  <2>. QED BY <1>2, <2>1
<1>8. CASE ServerStep \/ UNCHANGED vars
  <2>1. UNCHANGED <<read, responseQ, frames>>
    BY <1>8, ServerCases DEF vars, clientVars
  <2>. QED BY <1>2, <2>1
<1>9. ASSUME ClientStep PROVE PassedInv'
  BY ONLY <1>9, ClientCases, <1>3, <1>4, <1>5, <1>6, <1>7
<1>. QED BY <1>8, <1>9 DEF Next

-----------------------------------------------------------------------------
(* The tunnel implements Pipe.                                             *)

\* What makes the steps of a tunnel those of a pipe.
PipeInv == LineInv /\ ReceiveInv /\ ReadSideInv /\ PassedInv

\* PipeInv holds at first.
LEMMA PipeBegins == Init => PipeInv
<1>. SUFFICES ASSUME Init PROVE PipeInv
  OBVIOUS
<1>. USE TunnelAssumption DEF Init, S!Init, C!Init
<1>1. Id \in Ids /\ Born = {} /\ sessions[Id] = None
  BY DEF Ids, Born
<1>2. LineInv
  BY <1>1 DEF LineInv
<1>3. \A k \in 1..MaxChunks : BoundOK(k) /\ target[W(k)] = None
  BY Requested DEF BoundOK
<1>4. \A a \in Actors : ChunksInOrder(upstream[a])
  BY DEF ChunksInOrder
<1>5. ReceiveInv
  BY <1>3, <1>4 DEF ReceiveInv, TargetsInOrder
<1>6. GotInv
  BY DEF GotInv
<1>7. \A k \in 1..MaxGets : BodyOK(k)
  BY Requested DEF BodyOK
<1>8. ReadSideInv
  BY <1>6, <1>7 DEF ReadSideInv, SP!IsAlive
<1>9. PassedInv
  BY DEF PassedInv
<1>. QED BY <1>2, <1>5, <1>8, <1>9 DEF PipeInv

\* PipeInv holds in every state.
LEMMA PipeInvariant == Spec => []PipeInv
<1>1. /\ ServerInv /\ ServerInv' /\ ClientInv /\ ClientInv' /\ CauseInv /\ CauseInv' /\ PipeInv /\ [Next]_vars
      => PipeInv'
  <2>. SUFFICES ASSUME ServerInv, ServerInv', ClientInv, ClientInv', CauseInv, CauseInv', PipeInv, [Next]_vars
                PROVE  PipeInv'
    OBVIOUS
  <2>1. LineInv /\ ReceiveInv /\ ReadSideInv /\ PassedInv
    BY DEF PipeInv
  <2>2. LineInv' /\ ReceiveInv'
    BY <2>1, LineStep, ReceiveStep
  <2>3. ReadSideInv'
    <3>1. CASE ServerStep
      BY <2>1, <3>1, ReadServer
    <3>2. CASE ClientStep
      BY <2>1, <3>2, ReadClient
    <3>3. CASE UNCHANGED vars
      <4>1. UNCHANGED serverVars /\ UNCHANGED <<got, seen, gets, frames, incoming>>
        BY <3>3 DEF vars, clientVars, linkVars
      <4>2. Calm
        BY <4>1, ClientCalm
      <4>. QED BY <2>1, <4>2, ReadKept
    <3>. QED BY <3>1, <3>2, <3>3 DEF Next
  <2>4. PassedInv'
    BY <2>1, <2>3, PassedStep DEF ReadSideInv
  <2>. QED BY <2>2, <2>3, <2>4 DEF PipeInv
<1>. QED BY <1>1, PipeBegins, ServerInvariant, ClientInvariant, CauseInvariant, PTL DEF Spec

\* A step of the server is one of the pipe, or one that nobody sees.
LEMMA PipeServer ==
    ASSUME ServerInv, ServerInv', ClientInv, CauseInv, PipeInv, ServerStep
    PROVE  [P!PipeNext]_(P!pipeVars)
<1>. USE TunnelAssumption DEF ServerInv, SP!TypeInv, SP!TypeOK
<1>. DEFINE opened == {c \in Actors : phase[c] # "unborn"}
            R == [c \in Actors |-> Chunks(c)]
            V == [j \in 1..Len(read) |-> got[read[j]]]
<1>1. UNCHANGED <<pieces, read, got>>
  BY ServerCases DEF clientVars, linkVars
<1>2. UNCHANGED V
  BY <1>1
<1>3. UNCHANGED upstream => UNCHANGED R
  BY DEF Chunks
<1>4. opened = Born /\ opened' = Born'
  BY DEF Born
<1>. HIDE DEF opened, R, V
<1>5. ASSUME NEW a \in Actors, SP!WriteOk(a) PROVE P!PipeNext
  <2>1. \E k \in 1..Len(pieces) : \E n \in 1..pieces[k] : P!Receive(a, k, n)
    BY <1>1, <1>5, ReceiveMaps DEF PipeInv
  <2>. QED BY ONLY <2>1, a \in Actors DEF P!PipeNext
<1>6. ASSUME NEW a \in Actors, SP!UpstreamSends(a) PROVE P!PipeNext
  <2>1. phase[a] = "running" /\ sent' = [sent EXCEPT ![a] = @ + 1] /\ UNCHANGED <<phase, upstream>>
    BY <1>6 DEF SP!UpstreamSends, SP!tableVars
  <2>2. a \in opened /\ UNCHANGED <<pieces, opened, Ended, R, V>>
    BY <1>1, <1>2, <1>3, <2>1 DEF opened, Ended
  <2>3. P!Send(a)
    BY ONLY <2>1, <2>2 DEF P!Send, opened, R, V
  <2>. QED BY ONLY <2>3, a \in Actors DEF P!PipeNext
<1>7. ASSUME UNCHANGED upstream, UNCHANGED sent PROVE [P!PipeNext]_(P!pipeVars)
  <2>1. UNCHANGED <<pieces, R, V, sent>>
    BY <1>1, <1>2, <1>3, <1>7
  <2>2. ASSUME NEW r \in Reqs, NEW q \in Offered, NEW a \in Actors, NextSession(a), SP!CreateSession(r, q, a) PROVE P!PipeNext
    <3>1. phase[a] = "unborn" /\ phase' = [phase EXCEPT ![a] = "connecting"]
      BY <2>2 DEF SP!CreateSession, SP!NewSession
    <3>2. opened' = opened \cup {a} /\ Ended' = Ended /\ a \notin Born
      BY <3>1, SMTT(30) DEF opened, Ended, Born
    <3>3. \A d \in opened : d < a
      BY <1>4, <2>2, <3>2, BornLast DEF PipeInv, Born
    <3>4. opened # {} => Ended # {}
      BY <1>4, <2>2, BornAfter
    <3>5. P!Open(a)
      BY ONLY <2>1, <3>2, <3>3, <3>4 DEF P!Open, opened, R, V
    <3>. QED BY ONLY <3>5, a \in Actors DEF P!PipeNext
  <2>3. ASSUME UNCHANGED opened, UNCHANGED Ended PROVE UNCHANGED P!pipeVars
    BY ONLY <2>1, <2>3 DEF P!pipeVars, opened, R, V
  <2>4. ASSUME NEW a \in Actors, SP!Moves(a) PROVE [P!PipeNext]_(P!pipeVars)
    <3>1. phase[a] \in {"connecting", "running"}
      BY <2>4 DEF SP!Moves, SP!IsAlive
    <3>2. CASE phase' = [phase EXCEPT ![a] = "running"]
      <4>1. UNCHANGED opened /\ UNCHANGED Ended
        BY <3>1, <3>2 DEF opened, Ended
      <4>. QED BY ONLY <2>3, <4>1
    <3>3. CASE \E l \in {"stopped", "failed"} : phase' = [phase EXCEPT ![a] = l]
      <4>1. UNCHANGED opened /\ Ended' = Ended \cup {a} /\ a \in opened \ Ended
        BY <3>1, <3>3 DEF opened, Ended
      <4>2. P!End(a)
        BY ONLY <2>1, <4>1 DEF P!End, opened, R, V
      <4>. QED BY ONLY <4>2, a \in Actors DEF P!PipeNext
    <3>. QED BY <2>4, <3>2, <3>3 DEF SP!Moves
  <2>5. ASSUME NEW a \in Actors, SP!Drop(a) PROVE UNCHANGED P!pipeVars
    <3>1. phase[a] = "stopped" /\ phase' = [phase EXCEPT ![a] = "dropped"]
      BY <2>5 DEF SP!Drop
    <3>2. UNCHANGED opened /\ UNCHANGED Ended
      BY <3>1 DEF opened, Ended
    <3>. QED BY ONLY <2>3, <3>2
  <2>6. ASSUME UNCHANGED SP!tableVars PROVE UNCHANGED P!pipeVars
    <3>1. UNCHANGED opened /\ UNCHANGED Ended
      BY <2>6 DEF SP!tableVars, opened, Ended
    <3>. QED BY ONLY <2>3, <3>1
  <2>7. [Next]_vars
    BY DEF Next
  <2>. QED BY ONLY <2>2, <2>4, <2>5, <2>6, <2>7, LineCases, ClientInv
<1>8. UNCHANGED upstream \/ \E a \in Actors : SP!WriteOk(a)
  <2>1. [Next]_vars
    BY DEF Next
  <2>. QED BY ONLY ClientInv, <2>1, ServerNext, SP!UpstreamStep, ServerConstants
<1>. QED BY ONLY <1>5, <1>6, <1>7, <1>8, SentStep, ServerInv, ServerStep

\* What the application has read, as Pipe sees it.
LEMMA ViewOK ==
    ASSUME ClientInv, GotInv, PassedInv
    PROVE  LET V == [j \in 1..Len(read) |-> got[read[j]]]
           IN  /\ V \in Seq(Actors \X Nat) /\ Len(V) = Len(read) /\ Len(read) \in Nat
               /\ \A j \in 1..Len(read) : read[j] = j /\ j \in 1..Len(got) /\ V[j] = got[j]
<1>. DEFINE V == [j \in 1..Len(read) |-> got[read[j]]]
<1>1. Len(read) \in Nat /\ Len(got) \in Nat /\ Len(read) <= Len(got) /\ got \in Seq(Actors \X Nat)
  BY DEF ClientInv, CP!TypeOK, CP!DataOK, GotInv, PassedInv
<1>2. \A j \in 1..Len(read) : read[j] = j
  BY DEF ClientInv, CP!ReadInv, CP!ReadOK
<1>3. \A j \in 1..Len(read) : j \in 1..Len(got)
  BY ONLY <1>1
<1>4. \A j \in 1..Len(got) : got[j] \in Actors \X Nat
  BY ONLY <1>1
<1>5. V \in [1..Len(read) -> Actors \X Nat] /\ \A j \in 1..Len(read) : V[j] = got[j]
  BY ONLY <1>2, <1>3, <1>4
<1>. HIDE DEF V
<1>6. V \in Seq(Actors \X Nat) /\ Len(V) = Len(read)
  BY ONLY <1>1, <1>5, SeqFun
<1>. QED BY ONLY <1>1, <1>2, <1>3, <1>5, <1>6 DEF V

\* The application reads the next unit.
LEMMA ReadMaps ==
    ASSUME ServerInv, ClientInv, ClientInv', GotInv, PassedInv, PassedInv', UNCHANGED serverVars, UNCHANGED <<pieces, got>>,
           GotInv', read' = Append(read, Len(read) + 1)
    PROVE  P!PipeNext
<1>. DEFINE V == [j \in 1..Len(read) |-> got[read[j]]]
            h == Len(read) + 1
            c == got[h][1]
            u == got[h][2]
<1>1. /\ V \in Seq(Actors \X Nat) /\ Len(V) = Len(read) /\ Len(read) \in Nat
      /\ \A j \in 1..Len(read) : read[j] = j /\ j \in 1..Len(got) /\ V[j] = got[j]
  BY ViewOK
<1>2. Len(read') = h /\ h \in Nat /\ h \in 1..h /\ \A j \in 1..Len(read) : j \in 1..h
  <2>1. read \in Seq(Nat) /\ Len(read) + 1 \in Nat
    BY DEF ClientInv, CP!TypeOK, CP!DataOK
  <2>. QED BY <2>1
<1>3. V' = Append(V, got[h]) /\ h \in 1..Len(got) /\ got[h] \in Actors \X Nat
  <2>1. /\ V' \in Seq(Actors \X Nat) /\ Len(V') = Len(read') /\ Len(read') \in Nat
        /\ \A j \in 1..Len(read') : read'[j] = j /\ j \in 1..Len(got') /\ V'[j] = got'[j]
    <3>1. /\ read' \in Seq(Nat) /\ Len(read') <= Len(got) /\ got \in Seq(Actors \X Nat)
          /\ \A j \in 1..Len(read') : read'[j] = j
      BY DEF ClientInv, CP!TypeOK, CP!DataOK, CP!ReadInv, CP!ReadOK, GotInv, PassedInv
    <3>2. Len(read') \in Nat /\ Len(got) \in Nat /\ \A j \in 1..Len(read') : j \in 1..Len(got)
      BY ONLY <3>1
    <3>3. \A j \in 1..Len(got) : got[j] \in Actors \X Nat
      BY ONLY <3>1
    <3>4. got' = got
      OBVIOUS
    <3>5. V' \in [1..Len(read') -> Actors \X Nat] /\ \A j \in 1..Len(read') : V'[j] = got[j]
      BY ONLY <3>1, <3>2, <3>3, <3>4
    <3>. HIDE DEF V
    <3>6. V' \in Seq(Actors \X Nat) /\ Len(V') = Len(read')
      BY ONLY <3>2, <3>5, SeqFun
    <3>. QED BY ONLY <3>1, <3>2, <3>4, <3>5, <3>6
  <2>. HIDE DEF V
  <2>2. h \in 1..Len(got) /\ V'[h] = got[h]
    BY <1>2, <2>1
  <2>3. got[h] \in Actors \X Nat
    <3>1. got \in Seq(Actors \X Nat)
      BY DEF GotInv
    <3>. HIDE DEF h
    <3>. QED BY ONLY <2>2, <3>1
  <2>. DEFINE e == got[h]
  <2>4. e \in Actors \X Nat /\ V'[h] = e
    BY ONLY <2>2, <2>3
  <2>. HIDE DEF e
  <2>5. /\ Append(V, e) \in Seq(Actors \X Nat) /\ Len(Append(V, e)) = Len(V) + 1
        /\ Append(V, e)[Len(V) + 1] = e /\ \A j \in 1..Len(V) : Append(V, e)[j] = V[j]
    BY ONLY <1>1, <2>4, AppendProperties
  <2>6. ASSUME NEW j \in 1..Len(V') PROVE V'[j] = Append(V, e)[j]
    <3>1. CASE j \in 1..Len(V)
      <4>1. V'[j] = got'[j] /\ V[j] = got[j] /\ got' = got
        BY <1>1, <2>1, <2>6, <3>1
      <4>. QED BY ONLY <2>5, <3>1, <4>1
    <3>2. CASE j = h
      BY ONLY <1>1, <2>4, <2>5, <3>2
    <3>3. j \in 1..Len(V) \/ j = h
      BY ONLY <1>1, <1>2, <2>1, <2>6
    <3>. QED BY ONLY <3>1, <3>2, <3>3
  <2>7. Len(V') = Len(Append(V, e))
    BY ONLY <1>1, <1>2, <2>1, <2>5
  <2>8. V' = Append(V, e)
    BY ONLY <2>1, <2>5, <2>6, <2>7, SeqEqual
  <2>. QED BY ONLY <2>2, <2>3, <2>8 DEF e
<1>4. got[h] = <<c, u>> /\ c \in Actors /\ u \in Nat
  <2>. HIDE DEF h
  <2>. QED BY ONLY <1>3
<1>. HIDE DEF V
<1>5. u \in 1..sent[c]
  <2>1. u \in 1..taken[c] /\ taken[c] <= sent[c]
    BY <1>3, <1>4 DEF GotInv
  <2>2. taken[c] \in Nat /\ sent[c] \in Nat
    BY <1>4 DEF ServerInv, SP!TypeInv, SP!TypeOK
  <2>. HIDE DEF c, u
  <2>. QED BY ONLY <2>1, <2>2
<1>6. ASSUME V = <<>> PROVE u = 1
  <2>1. h = 1 /\ got # <<>>
    BY <1>1, <1>3, <1>6
  <2>. QED BY <2>1 DEF GotInv
<1>7. ASSUME V # <<>>
      PROVE  LET last == V[Len(V)]
             IN  \/ last[1] = c /\ u = last[2] + 1
                 \/ last[1] # c /\ last[1] < c /\ u = 1
  <2>. DEFINE last == V[Len(V)]
  <2>1. Len(V) \in Nat \ {0} /\ Len(V) \in 1..Len(read) /\ h - 1 = Len(V) /\ h > 1
    BY ONLY <1>1, <1>7
  <2>2. last = got[h - 1] /\ last \in Actors \X Nat
    <3>1. V[Len(V)] = got[Len(V)] /\ V[Len(V)] \in Actors \X Nat
      BY ONLY <1>1, <2>1
    <3>. QED BY ONLY <2>1, <3>1
  <2>3. Succeeds(got[h - 1], got[h])
    BY <1>3, <2>1 DEF GotInv
  <2>4. last[1] \in Int /\ c \in Int
    BY <1>4, <2>2, TunnelAssumption DEF Actors
  <2>5. (last[1] = c /\ u = last[2] + 1) \/ (last[1] < c /\ u = 1)
    BY ONLY <2>2, <2>3 DEF Succeeds
  <2>. HIDE DEF last, c, u
  <2>6. \/ last[1] = c /\ u = last[2] + 1
        \/ last[1] # c /\ last[1] < c /\ u = 1
    BY ONLY <2>4, <2>5
  <2>. QED BY ONLY <2>6 DEF last
<1>8. UNCHANGED <<pieces, {a \in Actors : phase[a] # "unborn"}, Ended, [a \in Actors |-> Chunks(a)], sent>>
  <2>1. UNCHANGED <<phase, upstream, sent, pieces>>
    BY DEF serverVars
  <2>. QED BY <2>1 DEF Ended, Chunks
<1>9. V' = Append(V, <<c, u>>)
  BY ONLY <1>3, <1>4
<1>. HIDE DEF c, u, h
<1>10. PICK d \in Actors : d = c
  BY ONLY <1>4
<1>11. PICK v \in 1..sent[d] : v = u
  BY ONLY <1>5, <1>10
<1>12. P!Read(d, v)
  BY ONLY <1>5, <1>6, <1>7, <1>8, <1>9, <1>10, <1>11 DEF P!Read, V
<1>. QED BY ONLY <1>12, d \in Actors, v \in 1..sent[d], Zenon DEF P!PipeNext

\* A step of the client is one of the pipe, or one that nobody sees.
LEMMA PipeClient ==
    ASSUME ServerInv, ClientInv, ClientInv', PipeInv, PipeInv', ClientStep
    PROVE  [P!PipeNext]_(P!pipeVars)
<1>. DEFINE opened == {c \in Actors : phase[c] # "unborn"}
            R == [c \in Actors |-> Chunks(c)]
            V == [j \in 1..Len(read) |-> got[read[j]]]
<1>1. UNCHANGED serverVars
  BY ClientCases
<1>2. UNCHANGED <<opened, Ended, R, sent>>
  <2>1. UNCHANGED <<phase, upstream, sent>>
    BY <1>1 DEF serverVars
  <2>. QED BY <2>1 DEF Ended, Chunks
<1>3. GotInv /\ GotInv' /\ PassedInv /\ PassedInv'
  BY DEF PipeInv, ReadSideInv
<1>4. ASSUME UNCHANGED <<pieces, V>> PROVE UNCHANGED P!pipeVars
  <2>. HIDE DEF opened, R, V
  <2>. QED BY ONLY <1>2, <1>4 DEF P!pipeVars, opened, R, V
<1>5. ASSUME NEW n \in Sizes, CP!PollWrite, pieces' = Append(pieces, n), UNCHANGED <<got, seen>> PROVE P!PipeNext
  <2>1. UNCHANGED read
    BY <1>5 DEF CP!PollWrite, CP!gotVars
  <2>2. UNCHANGED V
    BY <1>5, <2>1
  <2>. HIDE DEF opened, R, V
  <2>3. P!Write(n)
    BY ONLY <1>2, <1>5, <2>2 DEF P!Write, opened, R, V
  <2>. QED BY ONLY <2>3, n \in Sizes DEF P!PipeNext
<1>6. CASE CP!PollRead /\ UNCHANGED linkVars
  <2>1. CASE UNCHANGED read
    BY <1>4, <1>6, <2>1 DEF linkVars
  <2>2. CASE responseQ # <<>> /\ Head(responseQ) # CP!Failure /\ read' = Append(read, Head(responseQ))
    <3>1. responseQ \in Seq(Nat)
      BY DEF ClientInv, CP!TypeOK, CP!DataOK
    <3>2. 1 \in 1..Len(responseQ) /\ Head(responseQ) = responseQ[1]
      BY ONLY <2>2, <3>1
    <3>3. Head(responseQ) = Len(read) + 1
      BY <2>2, <3>2 DEF ClientInv, CP!ReadInv, CP!QueueOK
    <3>. QED BY <1>1, <1>3, <1>6, <2>2, <3>3, ReadMaps DEF linkVars
  <2>. QED BY <1>6, <2>1, <2>2 DEF CP!PollRead
<1>7. ASSUME UNCHANGED <<pieces, read>>, \E e : got' = Append(got, e), CP!InFrame PROVE UNCHANGED V
  <2>1. got \in Seq(Actors \X Nat) /\ \A j \in 1..Len(read) : read[j] = j /\ j \in 1..Len(got)
    BY <1>3, ViewOK DEF GotInv
  <2>2. \A j \in 1..Len(got) : got'[j] = got[j]
    BY ONLY <1>7, <2>1
  <2>. QED BY ONLY <1>7, <2>1, <2>2
<1>8. CASE CP!InFrame /\ got' = Append(got, <<target[G(gets)], body[G(gets)][seen + 1]>>) /\ UNCHANGED pieces
  <2>1. UNCHANGED read
    BY <1>8 DEF CP!InFrame, CP!gotVars
  <2>. QED BY <1>4, <1>7, <1>8, <2>1
<1>9. CASE (CP!OutFail \/ CP!InFail) /\ UNCHANGED linkVars
  BY <1>4, <1>9 DEF CP!OutFail, CP!InFail, CP!Fail, CP!gotVars, linkVars
<1>10. CASE \/ CP!InAsk /\ UNCHANGED <<pieces, got>>
            \/ (CP!OutAck \/ CP!OutSend \/ CP!InHead \/ CP!InBodyEnd \/ CP!InSend \/ CP!InSent) /\ UNCHANGED linkVars
  <2>1. UNCHANGED <<pieces, got, read>>
    BY <1>10, Zenon DEF CP!InAsk, CP!OutAck, CP!OutSend, CP!InHead, CP!InBodyEnd, CP!InSend, CP!InSent, CP!gotVars, linkVars
  <2>. QED BY <1>4, <2>1
<1>. QED BY ONLY ClientStep, ClientCases, <1>5, <1>6, <1>8, <1>9, <1>10

\* A tunnel implements Pipe: whatever pumps, handlers, actors and timeouts do,
\* upstream and the application see an ordered stream in each direction,
\* without a gap or a repetition in any one connection, and the tunnel goes on
\* with a later connection only after an earlier one has ended.
THEOREM PipeCorrect == Spec => ImplementsPipe
<1>1. Init => P!PipeInit
  <2>. SUFFICES ASSUME Init PROVE P!PipeInit
    OBVIOUS
  <2>. USE DEF Init, S!Init, C!Init
  <2>1. pieces = <<>> /\ sent = [a \in Actors |-> 0]
    OBVIOUS
  <2>2. {a \in Actors : phase[a] # "unborn"} = {} /\ Ended = {}
    BY DEF Ended
  <2>3. ASSUME NEW a \in Actors PROVE Chunks(a) = <<>>
    <3>1. upstream[a] = <<>> /\ <<>> \in Seq(Reqs \X Nat)
      OBVIOUS
    <3>. QED BY ONLY <3>1, PairsOK DEF Chunks
  <2>4. [a \in Actors |-> Chunks(a)] = [a \in Actors |-> <<>>]
    BY <2>3
  <2>5. [k \in 1..Len(read) |-> got[read[k]]] = <<>>
    <3>1. Len(read) = 0
      OBVIOUS
    <3>. DEFINE V == [k \in 1..Len(read) |-> got[read[k]]]
    <3>2. V \in [1..0 -> Nat]
      BY <3>1
    <3>. HIDE DEF V
    <3>3. V \in Seq(Nat) /\ Len(V) = 0
      BY ONLY <3>2, SeqFun
    <3>4. V = <<>>
      BY ONLY <3>3
    <3>. QED BY ONLY <3>4 DEF V
  <2>. QED BY ONLY <2>1, <2>2, <2>4, <2>5 DEF P!PipeInit
<1>2. /\ ServerInv /\ ServerInv' /\ ClientInv /\ ClientInv' /\ CauseInv /\ PipeInv /\ PipeInv' /\ [Next]_vars
      => [P!PipeNext]_(P!pipeVars)
  <2>. SUFFICES ASSUME ServerInv, ServerInv', ClientInv, ClientInv', CauseInv, PipeInv, PipeInv', [Next]_vars
                PROVE  [P!PipeNext]_(P!pipeVars)
    OBVIOUS
  <2>1. CASE ServerStep
    BY <2>1, PipeServer
  <2>2. CASE ClientStep
    BY <2>2, PipeClient
  <2>3. CASE UNCHANGED vars
    <3>1. UNCHANGED <<pieces, phase, upstream, sent, read, got>>
      BY <2>3 DEF vars, serverVars, clientVars, linkVars
    <3>. QED BY ONLY <3>1 DEF P!pipeVars, Ended, Chunks
  <2>. QED BY <2>1, <2>2, <2>3 DEF Next
<1>. QED BY <1>1, <1>2, ServerInvariant, ClientInvariant, CauseInvariant, PipeInvariant, PTL
         DEF Spec, ImplementsPipe, P!PipeSpec
=============================================================================

---------------------------- MODULE ClientProofs ----------------------------
(* Theorems about Client, for every value of its constants. *)
EXTENDS Client, TLAPS

USE ClientAssumption

\* Every action by name, for the steps that have one case per action.
LEMMA NextCases ==
    ASSUME [Next]_vars
    PROVE  \/ OutSend \/ OutAck \/ OutFail \/ OutEnd
           \/ InAsk \/ InHead \/ InFail \/ InFrame \/ InBodyEnd \/ InBodyErr \/ InSend \/ InSent
           \/ ConnOk \/ ConnErr \/ IoOk \/ IoErr \/ IoAborted
           \/ PollEnded \/ PollRead \/ PollWrite \/ PollShutdown \/ DropConnection
           \/ UNCHANGED vars
BY DEF Next, Application

\* Appending a number to a sequence of numbers.
LEMMA AppendNat ==
    ASSUME NEW s \in Seq(Nat), NEW e \in Nat
    PROVE  Append(s, e) \in Seq(Nat) /\ Len(Append(s, e)) = Len(s) + 1 /\ Len(s) \in Nat
OBVIOUS

\* A sequence of one element.
LEMMA Single ==
    ASSUME NEW e
    PROVE  Head(<<e>>) = e /\ Tail(<<e>>) = <<>> /\ Len(<<e>>) = 1 /\ <<e>> # <<>>
OBVIOUS

\* The failure of a part of the task empties the request channel.
LEMMA FailStep ==
    ASSUME DataOK, Fail, conn' \in {conn, "err"}
    PROVE  DataOK'
<1>1. /\ io' = "ending" /\ incoming' = "dropped" /\ outgoing' = "dropped" /\ requestQ' = <<>>
      /\ app' = app /\ written' = written /\ acks' = acks /\ gets' = gets /\ frames' = frames
      /\ responseQ' = responseQ /\ read' = read /\ requests' = requests
  BY Zenon DEF Fail, appVars, gotVars
<1>. QED BY <1>1 DEF DataOK, Returned, Working, Flushed

\* Every step keeps the types and the bound of the response channel.
LEMMA TypeStep ==
    ASSUME TypeOK, [Next]_vars
    PROVE  TypeOK'
<1>. USE DEF TypeOK, DataOK, Returned, Working, Flushed, appVars, outVars, inVars, gotVars
<1>0. FlagsOK'
  BY NextCases, Zenon
     DEF OutSend, OutAck, OutFail, OutEnd, InAsk, InHead, InFail, InFrame, InBodyEnd, InBodyErr, InSend, InSent,
         ConnOk, ConnErr, IoOk, IoErr, IoAborted, PollEnded, PollRead, PollWrite, PollShutdown,
         DropConnection, Fail, ClearFirst, FlagsOK, vars
<1>. SUFFICES DataOK'
  BY <1>0
<1>1. CASE OutSend
  <2>1. requests' \in Seq([method : {"POST", "PATCH"}, chunk : Nat]) /\ requestQ' \in Seq(Nat)
    <3>1. Head(requestQ) \in Nat /\ Tail(requestQ) \in Seq(Nat)
      BY <1>1 DEF OutSend
    <3>2. WriteRequest(Head(requestQ)) \in [method : {"POST", "PATCH"}, chunk : Nat]
      BY <3>1 DEF WriteRequest
    <3>. QED BY <1>1, <3>1, <3>2 DEF OutSend
  <2>. QED BY <1>1, <2>1 DEF OutSend
<1>2. CASE OutAck \/ OutEnd
  <2>1. /\ acks' \in {acks, acks + 1} /\ outgoing' \in {"recv", "ok"}
        /\ UNCHANGED <<app, written, requestQ, requests, incoming, gets, frames, responseQ, read, conn, io>>
    BY <1>2, Zenon DEF OutAck, OutEnd
  <2>2. DataOK
    OBVIOUS
  <2>. QED BY ONLY <2>1, <2>2 DEF DataOK, Returned, Working, Flushed
<1>3. CASE InAsk \/ InHead \/ InFrame \/ InBodyEnd \/ InBodyErr
  <2>1. /\ incoming \in Working /\ incoming' \in Working /\ gets' \in {gets, gets + 1} /\ frames' \in {frames, frames + 1}
        /\ UNCHANGED <<app, written, requestQ, outgoing, requests, acks, responseQ, read, conn, io>>
    BY <1>3, Zenon DEF InAsk, InHead, InFrame, InBodyEnd, AfterBody, InBodyErr
  <2>2. DataOK
    OBVIOUS
  <2>. QED BY ONLY <2>1, <2>2 DEF DataOK, Returned, Working, Flushed
<1>4. CASE InSend
  <2>1. responseQ' \in Seq(Nat) /\ Len(responseQ') <= ResponseCap + 1
    <3>1. \/ UNCHANGED responseQ
          \/ Len(responseQ) <= ResponseCap /\ (responseQ' = Append(responseQ, frames) \/ responseQ' = Append(responseQ, 0))
      BY <1>4 DEF InSend, Put, Failure
    <3>2. /\ Append(responseQ, frames) \in Seq(Nat) /\ Append(responseQ, 0) \in Seq(Nat)
          /\ Len(Append(responseQ, frames)) = Len(responseQ) + 1
          /\ Len(Append(responseQ, 0)) = Len(responseQ) + 1
          /\ Len(responseQ) \in Nat
      BY AppendNat
    <3>3. ResponseCap \in Nat /\ Len(responseQ) <= ResponseCap + 1 /\ responseQ \in Seq(Nat)
      BY ClientAssumption
    <3>4. responseQ' \in Seq(Nat)
      BY ONLY <3>1, <3>2, <3>3, Zenon
    <3>. QED BY ONLY <3>1, <3>2, <3>3, <3>4
  <2>2. incoming' \in {"sent", "failed", "ok"}
    BY <1>4 DEF InSend
  <2>. QED BY <1>4, <2>1, <2>2 DEF InSend
<1>11. CASE InSent
  BY <1>11 DEF InSent
<1>5. CASE ConnOk \/ IoOk \/ IoErr
  <2>1. /\ conn' \in {conn, "ok"} /\ io' \in {io, "ok", "err"}
        /\ UNCHANGED <<app, written, requestQ, outgoing, requests, acks, incoming, gets, frames, responseQ, read>>
    BY <1>5, Zenon DEF ConnOk, IoOk, IoErr
  <2>2. DataOK
    OBVIOUS
  <2>. QED BY ONLY <2>1, <2>2 DEF DataOK, Returned, Working, Flushed
<1>10. CASE IoAborted
  BY <1>10 DEF IoAborted
<1>6. CASE PollRead
  <2>1. responseQ' \in Seq(Nat) /\ Len(responseQ') <= Len(responseQ) /\ Len(responseQ') \in Nat /\ read' \in Seq(Nat)
    <3>1. CASE responseQ # <<>> /\ responseQ' = Tail(responseQ)
      <4>1. Head(responseQ) \in Nat /\ Tail(responseQ) \in Seq(Nat) /\ Len(Tail(responseQ)) <= Len(responseQ)
        BY <3>1
      <4>2. read' = read \/ read' = Append(read, Head(responseQ))
        BY <1>6, <3>1 DEF PollRead
      <4>3. Append(read, Head(responseQ)) \in Seq(Nat)
        BY <4>1, AppendNat
      <4>4. Len(Tail(responseQ)) \in Nat /\ Len(responseQ) \in Nat
        BY <4>1
      <4>5. read \in Seq(Nat)
        OBVIOUS
      <4>6. read' \in Seq(Nat) /\ responseQ' \in Seq(Nat)
        BY ONLY <3>1, <4>1, <4>2, <4>3, <4>5, Zenon
      <4>. QED BY ONLY <3>1, <4>1, <4>4, <4>5, <4>6
    <3>. QED BY <1>6, <3>1, SMTT(30) DEF PollRead
  <2>2. Len(responseQ) \in Nat /\ ResponseCap \in Nat
    BY ClientAssumption
  <2>. QED BY <1>6, <2>1, <2>2 DEF PollRead
<1>7. CASE PollEnded \/ PollShutdown \/ DropConnection
  <2>1. /\ app' \in {"open", "dropped", "panicked"} /\ app # "dropped"
        /\ UNCHANGED <<written, requestQ, outgoing, requests, acks, incoming, gets, frames, responseQ, read, conn, io>>
    BY <1>7, Zenon DEF PollEnded, PollShutdown, DropConnection, Pending
  <2>. QED BY <2>1
<1>12. CASE PollWrite
  BY <1>12 DEF PollWrite
<1>8. CASE OutFail \/ InFail \/ ConnErr
  BY <1>8, FailStep DEF OutFail, InFail, ConnErr
<1>9. CASE UNCHANGED vars
  BY <1>9 DEF vars
<1>. QED BY NextCases, <1>1, <1>2, <1>3, <1>4, <1>5, <1>6, <1>7, <1>8, <1>9, <1>10, <1>11, <1>12

\* Whatever the proxy answers, the response channel holds at most one item
\* beyond its buffer and pump_incoming goes on only when that item was taken;
\* every variable keeps its type.
THEOREM TypeCorrect == Spec => []TypeOK
<1>1. Init => TypeOK
  <2>1. Init => FlagsOK
    BY Zenon DEF Init, FlagsOK
  <2>2. Init => DataOK
    BY DEF Init, DataOK, Returned, Working, Flushed
  <2>. QED BY <2>1, <2>2 DEF TypeOK
<1>2. TypeOK /\ [Next]_vars => TypeOK'
  BY TypeStep
<1>. QED BY <1>1, <1>2, PTL DEF Spec

-----------------------------------------------------------------------------
(* Writes.                                                                 *)

\* The pump knows whether anything was acknowledged, and waits for exactly
\* one acknowledgement at a time; the channel holds the last chunk or none.
PumpOK ==
    /\ first <=> acks = 0
    /\ outgoing = "wait" => Len(requests) = acks + 1
    /\ outgoing \in {"recv", "ok"} => Len(requests) = acks
    /\ Running => requestQ = <<>> \/ requestQ = <<written>>

WriteInv == WritesSerial /\ NoChunkLost /\ PumpOK

\* Every step of the pump, the task and the application keeps WriteInv.
LEMMA WriteStep ==
    ASSUME TypeOK, WriteInv, [Next]_vars
    PROVE  WriteInv'
<1>. USE DEF TypeOK, DataOK, WriteInv, WritesSerial, NoChunkLost, PumpOK, Running, Returned
<1>1. CASE OutSend
  <2>1. /\ requestQ = <<written>> /\ written = Len(requests) + 1 /\ Len(requests) = acks
        /\ requests' = Append(requests, WriteRequest(written))
        /\ requestQ' = <<>> /\ outgoing' = "wait"
        /\ UNCHANGED <<written, first, acks, io>>
    <3>1. requestQ = <<written>> /\ outgoing = "recv" /\ Running
      BY <1>1 DEF OutSend
    <3>2. Head(requestQ) = written /\ Tail(requestQ) = <<>> /\ Len(requestQ) = 1
      BY <3>1, Single
    <3>. QED BY <1>1, <3>1, <3>2 DEF OutSend
  <2>2. /\ Len(requests') = Len(requests) + 1
        /\ requests'[Len(requests) + 1] = WriteRequest(written)
        /\ \A k \in 1..Len(requests) : requests'[k] = requests[k]
    BY <2>1
  <2>3. WriteRequest(written) = [method |-> IF written = 1 THEN "POST" ELSE "PATCH", chunk |-> written]
    BY <2>1 DEF WriteRequest
  <2>4. WritesSerial'
    BY <2>1, <2>2, <2>3
  <2>5. (first <=> acks = 0)'
    BY <2>1, Zenon
  <2>. QED BY <2>1, <2>2, <2>4, <2>5
<1>2. CASE OutAck
  BY <1>2 DEF OutAck, ClearFirst
<1>3. CASE OutEnd
  BY <1>3 DEF OutEnd, NoMoreChunks
<1>4. CASE OutFail \/ InFail \/ ConnErr
  <2>1. UNCHANGED <<requests, acks, first>> /\ outgoing' = "dropped" /\ ~Running'
    BY <1>4 DEF OutFail, InFail, ConnErr, Fail
  <2>2. (first <=> acks = 0)'
    BY <2>1, Zenon
  <2>. QED BY <2>1, <2>2
<1>5. CASE IoAborted
  BY <1>5 DEF IoAborted
<1>6. CASE PollWrite
  BY <1>6 DEF PollWrite
<1>7. CASE \/ InAsk \/ InHead \/ InFrame \/ InBodyEnd \/ InBodyErr \/ InSend \/ InSent \/ ConnOk \/ IoOk \/ IoErr
           \/ PollEnded \/ PollRead \/ PollShutdown \/ DropConnection \/ UNCHANGED vars
  <2>1. UNCHANGED outVars /\ (Running' => Running)
    BY <1>7 DEF InAsk, InHead, InFrame, InBodyEnd, InBodyErr, InSend, InSent, ConnOk, IoOk, IoErr,
                PollEnded, PollRead, PollShutdown, DropConnection, vars
  <2>. QED BY <2>1 DEF outVars
<1>. QED BY NextCases, <1>1, <1>2, <1>3, <1>4, <1>5, <1>6, <1>7

\* The invariant of pump_outgoing holds in every state.
LEMMA WriteInvariant == Spec => []WriteInv
<1>1. Init => WriteInv
  BY DEF Init, WriteInv, WritesSerial, NoChunkLost, PumpOK
<1>2. TypeOK /\ WriteInv /\ [Next]_vars => WriteInv'
  BY WriteStep
<1>. QED BY <1>1, <1>2, TypeCorrect, PTL DEF Spec

\* The chunks that the application writes are sent in order, one request for
\* each, the next one only after the acknowledgement of the one before; only
\* the first may create a session.
THEOREM WritesCorrect == Spec => []WritesSerial
<1>1. WriteInv => WritesSerial
  BY DEF WriteInv
<1>. QED BY <1>1, WriteInvariant, PTL

\* No chunk that poll_write has accepted is lost while the I/O task runs, and
\* the pump returns only when all of them were acknowledged.
THEOREM ChunksCorrect == Spec => []NoChunkLost
<1>1. WriteInv => NoChunkLost
  BY DEF WriteInv
<1>. QED BY <1>1, WriteInvariant, PTL

-----------------------------------------------------------------------------
(* The end of the I/O task.                                                *)

\* The application has read, or will find in the channel, the error of a body.
ErrorPassedOn == failed \/ \E k \in 1..Len(responseQ) : responseQ[k] = Failure

EndOK ==
    /\ incoming \in {"failed", "ok"} => app = "dropped" \/ ErrorPassedOn
    /\ incoming = "dropped" => io \in {"ending", "err", "aborted"}
    /\ outgoing = "ok" => closed
    /\ io = "ending" => incoming = "dropped"

EndInv == EofOnlyOnFailure /\ OkOnlyWhenClosed /\ EndOK

\* Every step keeps what is known of the end of the pumps and of the task.
LEMMA EndStep ==
    ASSUME TypeOK, EndInv, [Next]_vars
    PROVE  EndInv'
<1>. USE DEF TypeOK, DataOK, EndInv, EofOnlyOnFailure, OkOnlyWhenClosed, EndOK, ErrorPassedOn, Running, Returned
<1>1. CASE OutFail \/ InFail \/ ConnErr
  BY <1>1 DEF OutFail, InFail, ConnErr, Fail, appVars, gotVars
<1>2. CASE OutEnd
  BY <1>2 DEF OutEnd, NoMoreChunks, appVars, inVars, gotVars
<1>3. CASE InSend
  <2>1. CASE app # "dropped" /\ incoming = "fail"
    <3>1. responseQ' = Append(responseQ, Failure)
      BY <1>3, <2>1 DEF InSend, Put
    <3>2. Len(responseQ') = Len(responseQ) + 1 /\ responseQ'[Len(responseQ')] = Failure /\ Len(responseQ) \in Nat
      BY <3>1
    <3>3. ErrorPassedOn'
      <4>1. Len(responseQ') \in 1..Len(responseQ') /\ responseQ'[Len(responseQ')] = Failure
        BY <3>2
      <4>. QED BY ONLY <4>1, Zenon DEF ErrorPassedOn
    <3>4. incoming' = "failed" /\ io = "run" /\ UNCHANGED <<app, closed, outgoing, failed, eof, io>>
      BY <1>3, <2>1 DEF InSend, appVars, outVars, gotVars
    <3>. QED BY <3>3, <3>4
  <2>2. CASE app # "dropped" /\ incoming = "send"
    BY <1>3, <2>2 DEF InSend, Put, appVars, outVars, gotVars
  <2>3. CASE app = "dropped"
    BY <1>3, <2>3 DEF InSend, appVars, outVars, gotVars
  <2>. QED BY <1>3, <2>1, <2>2, <2>3 DEF InSend
<1>4. CASE PollRead
  <2>1. CASE responseQ # <<>> /\ responseQ' = Tail(responseQ)
    <3>1. /\ Head(responseQ) = responseQ[1] /\ Len(responseQ) \in Nat /\ Len(responseQ') = Len(responseQ) - 1
          /\ \A k \in 1..Len(responseQ') : responseQ'[k] = responseQ[k + 1]
      BY <2>1
    <3>2. ErrorPassedOn => ErrorPassedOn'
      <4>1. ASSUME NEW k \in 1..Len(responseQ), responseQ[k] = Failure, k # 1
            PROVE  k - 1 \in 1..Len(responseQ') /\ responseQ'[k - 1] = Failure
        <5>1. k - 1 \in 1..Len(responseQ') /\ (k - 1) + 1 = k
          BY ONLY <3>1, <4>1
        <5>2. \A j \in 1..Len(responseQ') : responseQ'[j] = responseQ[j + 1]
          BY ONLY <3>1, Zenon
        <5>3. responseQ'[k - 1] = responseQ[(k - 1) + 1]
          BY ONLY <5>1, <5>2, Zenon
        <5>. QED BY ONLY <4>1, <5>1, <5>3, Zenon
      <4>2. ASSUME responseQ[1] = Failure PROVE failed'
        BY <1>4, <2>1, <3>1, <4>2, Zenon DEF PollRead
      <4>3. failed => failed'
        BY <1>4 DEF PollRead
      <4>. QED BY <4>1, <4>2, <4>3
    <3>3. /\ UNCHANGED <<eof, app, closed, incoming, outgoing, io>> /\ io # "ok"
          /\ failed => failed'
      BY <1>4, <2>1 DEF PollRead, Pending, appVars, outVars
    <3>. QED BY <3>2, <3>3
  <2>2. CASE responseQ = <<>>
    BY <1>4, <2>2 DEF PollRead, Pending, appVars, outVars
  <2>. QED BY <1>4, <2>1, <2>2 DEF PollRead
<1>5. CASE IoOk
  BY <1>5 DEF IoOk, appVars, outVars, inVars, gotVars
<1>6. CASE IoErr \/ IoAborted
  BY <1>6 DEF IoErr, IoAborted, appVars, outVars, inVars, gotVars
<1>7. CASE PollEnded
  BY <1>7 DEF PollEnded, outVars, inVars, gotVars
<1>8. CASE PollShutdown \/ DropConnection
  <2>1. /\ UNCHANGED <<incoming, outgoing, responseQ, failed, eof, io>>
        /\ (closed => closed') /\ app' \in {app, "dropped"}
    BY <1>8, Zenon DEF PollShutdown, DropConnection, outVars, inVars, gotVars
  <2>. QED BY <2>1
<1>9. CASE OutSend \/ OutAck \/ PollWrite
  <2>1. UNCHANGED <<app, closed, incoming, responseQ, failed, eof, io>> /\ outgoing' \in {"wait", "recv", outgoing}
    BY <1>9, Zenon DEF OutSend, OutAck, PollWrite, appVars, inVars, gotVars
  <2>. QED BY <2>1
<1>10. CASE InAsk \/ InHead \/ InFrame \/ InBodyEnd \/ InBodyErr \/ InSent
  <2>1. /\ UNCHANGED <<app, closed, outgoing, responseQ, failed, eof, io>> /\ io = "run"
        /\ (incoming' = "ok" /\ incoming = "failed") \/ incoming' \notin {"ok", "failed", "dropped"}
    BY <1>10, Zenon DEF InSent, InAsk, InHead, InFrame, InBodyEnd, AfterBody, InBodyErr, appVars, outVars, gotVars
  <2>. QED BY <2>1
<1>11. CASE ConnOk \/ UNCHANGED vars
  <2>1. UNCHANGED <<app, closed, incoming, outgoing, responseQ, failed, eof, io>>
    BY <1>11, Zenon DEF ConnOk, vars, appVars, outVars, inVars, gotVars
  <2>. QED BY <2>1
<1>. QED BY NextCases, <1>1, <1>2, <1>3, <1>4, <1>5, <1>6, <1>7, <1>8, <1>9, <1>10, <1>11

\* The invariant of the end of the task holds in every state.
LEMMA EndInvariant == Spec => []EndInv
<1>1. Init => EndInv
  BY DEF Init, EndInv, EofOnlyOnFailure, OkOnlyWhenClosed, EndOK
<1>2. TypeOK /\ EndInv /\ [Next]_vars => EndInv'
  BY EndStep
<1>. QED BY <1>1, <1>2, TypeCorrect, PTL DEF Spec

\* The application is told end of file only after a failure.
THEOREM EofCorrect == Spec => []EofOnlyOnFailure
<1>1. EndInv => EofOnlyOnFailure
  BY DEF EndInv
<1>. QED BY <1>1, EndInvariant, PTL

\* The task ends with Ok only after the application is gone, or has closed its
\* side of the tunnel and a response body has failed.
THEOREM EndCorrect == Spec => []OkOnlyWhenClosed
<1>1. EndInv => OkOnlyWhenClosed
  BY DEF EndInv
<1>. QED BY <1>1, EndInvariant, PTL

-----------------------------------------------------------------------------
(* Reads.                                                                  *)

\* The error of a body is in the channel.
ErrorQueued == \E k \in 1..Len(responseQ) : responseQ[k] = Failure

\* What has been read, and what is in the channel, item by item.
ReadOK == \A k \in 1..Len(read) : read[k] = k

QueueOK ==
    \A k \in 1..Len(responseQ) :
        responseQ[k] = Len(read) + k \/ (responseQ[k] = Failure /\ k = Len(responseQ))

Errors == IF ErrorQueued THEN 1 ELSE 0

\* All frames are accounted for as long as the pump goes on.
FramesOK ==
    Running /\ incoming # "ok" =>
        frames + Errors = Len(read) + Len(responseQ) + (IF incoming = "send" THEN 1 ELSE 0)

\* A pump that still sends frames has not passed on an error.
NoErrorYet == incoming \in Working \cup {"sent"} => ~ErrorQueued

ReadInv == ReadOK /\ QueueOK /\ FramesOK /\ NoErrorYet

\* Item by item or as one sequence, it is the same.
LEMMA ReadInvOrder ==
    ASSUME TypeOK, ReadInv
    PROVE  ReadsInOrder
<1>. DEFINE passed == read \o responseQ
<1>1. /\ read \in Seq(Nat) /\ responseQ \in Seq(Nat) /\ frames \in Nat
      /\ Len(read) \in Nat /\ Len(responseQ) \in Nat
  BY DEF TypeOK, DataOK
<1>2. /\ Len(passed) = Len(read) + Len(responseQ)
      /\ \A k \in 1..Len(passed) : passed[k] = IF k <= Len(read) THEN read[k] ELSE responseQ[k - Len(read)]
  BY <1>1
<1>3. ASSUME NEW k \in 1..Len(passed)
      PROVE  passed[k] = k \/ (passed[k] = Failure /\ k = Len(passed))
  <2>1. CASE k <= Len(read)
    BY <1>1, <1>2, <2>1 DEF ReadInv, ReadOK
  <2>2. CASE k > Len(read)
    <3>1. k - Len(read) \in 1..Len(responseQ) /\ passed[k] = responseQ[k - Len(read)]
      BY <1>1, <1>2, <2>2
    <3>2. \/ responseQ[k - Len(read)] = Len(read) + (k - Len(read))
          \/ responseQ[k - Len(read)] = Failure /\ k - Len(read) = Len(responseQ)
      BY <3>1 DEF ReadInv, QueueOK
    <3>. QED BY <1>1, <1>2, <3>1, <3>2
  <2>. QED BY <1>1, <1>2, <2>1, <2>2
<1>. HIDE DEF passed
<1>. QED BY <1>1, <1>2, <1>3 DEF ReadInv, ReadOK, FramesOK, Errors, ErrorQueued, ReadsInOrder, passed

\* pump_incoming puts an item in the channel.
LEMMA ReadPut ==
    ASSUME TypeOK, ReadInv, InSend
    PROVE  ReadInv'
<1>1. /\ read \in Seq(Nat) /\ responseQ \in Seq(Nat) /\ frames \in Nat /\ Running
      /\ Len(read) \in Nat /\ Len(responseQ) \in Nat /\ incoming \in {"send", "fail"} /\ ~ErrorQueued
      /\ frames = Len(read) + Len(responseQ) + (IF incoming = "send" THEN 1 ELSE 0)
      /\ UNCHANGED <<read, frames, io>>
  BY DEF TypeOK, DataOK, ReadInv, FramesOK, NoErrorYet, Errors, Working, InSend, gotVars
<1>2. CASE UNCHANGED responseQ /\ incoming' = "ok"
  BY <1>1, <1>2 DEF ReadInv, ReadOK, QueueOK, FramesOK, NoErrorYet, Working, ErrorQueued, Running
<1>3. ASSUME NEW item \in Nat, responseQ' = Append(responseQ, item),
             \/ incoming = "send" /\ item = frames /\ incoming' = "sent"
             \/ incoming = "fail" /\ item = Failure /\ incoming' = "failed"
      PROVE  ReadInv'
  <2>1. /\ Len(responseQ') = Len(responseQ) + 1
        /\ \A k \in 1..Len(responseQ) : responseQ'[k] = responseQ[k] /\ responseQ[k] # Failure
        /\ responseQ'[Len(responseQ) + 1] = item
    BY <1>1, <1>3 DEF ErrorQueued
  <2>2. ErrorQueued' <=> item = Failure
    <3>1. Len(responseQ) + 1 \in 1..Len(responseQ')
      BY <1>1, <2>1
    <3>2. \A k \in 1..Len(responseQ') : k \in 1..Len(responseQ) \/ k = Len(responseQ) + 1
      BY <1>1, <2>1
    <3>. QED BY ONLY <2>1, <3>1, <3>2 DEF ErrorQueued
  <2>3. QueueOK'
    <3>1. ASSUME NEW k \in 1..Len(responseQ)
          PROVE  responseQ'[k] = Len(read) + k
      BY <1>1, <2>1, <3>1 DEF ReadInv, QueueOK
    <3>2. item = Len(read) + (Len(responseQ) + 1) \/ item = Failure
      BY <1>1, <1>3
    <3>3. \A k \in 1..Len(responseQ') : k \in 1..Len(responseQ) \/ k = Len(responseQ')
      BY <1>1, <2>1
    <3>. QED BY ONLY <1>1, <2>1, <3>1, <3>2, <3>3 DEF QueueOK
  <2>4. ReadOK' /\ NoErrorYet'
    BY <1>1, <1>3, <2>2 DEF ReadInv, ReadOK, NoErrorYet, Working, Failure
  <2>5. FramesOK'
    <3>1. Failure = 0
      BY DEF Failure
    <3>2. Errors' = IF item = Failure THEN 1 ELSE 0
      BY <2>2 DEF Errors
    <3>3. CASE incoming = "send"
      <4>1. incoming' = "sent" /\ item = frames /\ frames = Len(read) + Len(responseQ) + 1
        BY <1>1, <1>3, <3>3
      <4>2. Errors' = 0
        BY <1>1, <3>1, <3>2, <4>1
      <4>. QED BY ONLY <1>1, <2>1, <4>1, <4>2 DEF FramesOK
    <3>4. CASE incoming = "fail"
      <4>1. incoming' = "failed" /\ Errors' = 1 /\ frames = Len(read) + Len(responseQ)
        BY <1>1, <1>3, <3>2, <3>4
      <4>. QED BY ONLY <1>1, <2>1, <4>1 DEF FramesOK
    <3>. QED BY <1>1, <3>3, <3>4
  <2>. QED BY <2>3, <2>4, <2>5 DEF ReadInv
<1>. QED BY <1>1, <1>2, <1>3 DEF InSend, Put, Failure

\* The application takes an item from the channel.
LEMMA ReadTake ==
    ASSUME TypeOK, ReadInv, PollRead
    PROVE  ReadInv'
<1>1. /\ read \in Seq(Nat) /\ responseQ \in Seq(Nat) /\ frames \in Nat
      /\ Len(read) \in Nat /\ Len(responseQ) \in Nat
      /\ UNCHANGED <<incoming, frames, io>>
  BY DEF TypeOK, DataOK, PollRead
<1>. DEFINE l == Len(responseQ)
            n == Len(read)
<1>2. l \in Nat /\ n \in Nat /\ frames \in Nat /\ UNCHANGED <<incoming, frames, io>>
  BY ONLY <1>1
<1>3. CASE UNCHANGED <<responseQ, read>>
  BY <1>1, <1>3 DEF ReadInv, ReadOK, QueueOK, FramesOK, NoErrorYet, Errors, ErrorQueued, Running
<1>4. CASE responseQ # <<>> /\ responseQ' = Tail(responseQ)
  <2>1. /\ Head(responseQ) = responseQ[1] /\ Len(responseQ') = Len(responseQ) - 1 /\ Len(responseQ) >= 1
        /\ \A k \in 1..Len(responseQ') : responseQ'[k] = responseQ[k + 1]
    BY <1>1, <1>4
  <2>2. responseQ[1] = Len(read) + 1 \/ (responseQ[1] = Failure /\ Len(responseQ) = 1)
    <3>1. 1 \in 1..Len(responseQ)
      BY ONLY <1>2, <2>1
    <3>2. \A k \in 1..Len(responseQ) : responseQ[k] = Len(read) + k \/ (responseQ[k] = Failure /\ k = Len(responseQ))
      BY ONLY ReadInv DEF ReadInv, QueueOK
    <3>3. responseQ[1] = Len(read) + 1 \/ (responseQ[1] = Failure /\ 1 = Len(responseQ))
      BY ONLY <3>1, <3>2
    <3>. QED BY ONLY <3>3
  <2>3. CASE responseQ[1] = Failure
    <3>1. UNCHANGED read /\ Len(responseQ) = 1 /\ Len(responseQ') = 0
      <4>1. UNCHANGED read
        <5>1. Head(responseQ) = Failure
          BY ONLY <2>1, <2>3
        <5>. QED BY ONLY <1>4, <5>1, PollRead DEF PollRead
      <4>2. Len(responseQ) = 1
        BY ONLY <1>2, <2>2, <2>3 DEF Failure
      <4>. QED BY ONLY <2>1, <4>1, <4>2
    <3>2. ErrorQueued /\ ~ErrorQueued'
      <4>1. 1 \in 1..Len(responseQ) /\ \A k : k \notin 1..Len(responseQ')
        BY ONLY <3>1
      <4>. QED BY ONLY <2>3, <4>1 DEF ErrorQueued
    <3>3. Errors = 1 /\ Errors' = 0
      BY ONLY <3>2 DEF Errors
    <3>4. ReadOK' /\ QueueOK'
      <4>1. \A k : k \notin 1..Len(responseQ')
        BY ONLY <3>1
      <4>. QED BY ONLY ReadInv, <3>1, <4>1 DEF ReadInv, ReadOK, QueueOK
    <3>5. FramesOK'
      BY ONLY ReadInv, <1>2, <3>1, <3>3 DEF ReadInv, FramesOK, Running
    <3>6. NoErrorYet'
      BY ONLY <3>2 DEF NoErrorYet
    <3>. QED BY ONLY <3>4, <3>5, <3>6 DEF ReadInv
  <2>4. CASE responseQ[1] # Failure
    <3>1. read' = Append(read, responseQ[1]) /\ responseQ[1] = Len(read) + 1
      <4>1. Head(responseQ) = responseQ[1] /\ Head(responseQ) # Failure
        BY ONLY <2>1, <2>4
      <4>2. read' = Append(read, Head(responseQ))
        BY ONLY <1>4, <4>1, PollRead DEF PollRead
      <4>. QED BY ONLY <2>2, <2>4, <4>1, <4>2
    <3>2. Len(read') = Len(read) + 1 /\ read'[Len(read) + 1] = responseQ[1] /\ \A k \in 1..Len(read) : read'[k] = read[k]
      BY <1>1, <3>1
    <3>3. ErrorQueued' <=> ErrorQueued
      <4>1. ASSUME NEW k \in 1..Len(responseQ), responseQ[k] = Failure PROVE ErrorQueued'
        <5>1. k - 1 \in 1..Len(responseQ') /\ responseQ'[k - 1] = Failure
          BY <1>1, <2>1, <2>4, <4>1
        <5>. QED BY <5>1 DEF ErrorQueued
      <4>2. ASSUME NEW k \in 1..Len(responseQ'), responseQ'[k] = Failure PROVE ErrorQueued
        <5>1. k + 1 \in 1..Len(responseQ) /\ responseQ[k + 1] = Failure
          BY <1>1, <2>1, <4>2
        <5>. QED BY <5>1 DEF ErrorQueued
      <4>. QED BY <4>1, <4>2 DEF ErrorQueued, Failure
    <3>4. ReadOK'
      BY <1>1, <3>1, <3>2 DEF ReadInv, ReadOK
    <3>5. QueueOK'
      <4>1. ASSUME NEW k \in 1..Len(responseQ')
            PROVE  responseQ'[k] = Len(read') + k \/ (responseQ'[k] = Failure /\ k = Len(responseQ'))
        <5>1. k + 1 \in 1..Len(responseQ) /\ responseQ'[k] = responseQ[k + 1]
          BY <1>1, <2>1
        <5>2. responseQ[k + 1] = Len(read) + (k + 1) \/ (responseQ[k + 1] = Failure /\ k + 1 = Len(responseQ))
          BY <5>1 DEF ReadInv, QueueOK
        <5>3. k \in Nat /\ Len(read') = Len(read) + 1 /\ Len(responseQ') = Len(responseQ) - 1
          BY <1>1, <2>1, <3>2
        <5>. QED BY ONLY <1>1, <5>1, <5>2, <5>3
      <4>. QED BY <4>1 DEF QueueOK, Failure
    <3>6. FramesOK' /\ NoErrorYet'
      <4>1. Errors' = Errors /\ Errors \in Nat
        BY <3>3 DEF Errors
      <4>2. FramesOK'
        <5>1. Running /\ incoming # "ok" => frames + Errors = n + l + (IF incoming = "send" THEN 1 ELSE 0)
          BY ONLY ReadInv DEF ReadInv, FramesOK
        <5>2. Len(read') = n + 1 /\ Len(responseQ') = l - 1 /\ (Running' <=> Running)
          BY ONLY <1>2, <2>1, <3>2 DEF Running
        <5>3. \A x, y, z \in Nat : (x + 1) + (y - 1) + z = x + y + z
          OBVIOUS
        <5>4. (n + 1) + (l - 1) + (IF incoming = "send" THEN 1 ELSE 0) = n + l + (IF incoming = "send" THEN 1 ELSE 0)
          BY ONLY <1>2, <5>3
        <5>. HIDE DEF l, n
        <5>. QED BY ONLY <1>2, <4>1, <5>1, <5>2, <5>4 DEF FramesOK
      <4>3. NoErrorYet'
        BY ONLY ReadInv, <1>2, <3>3 DEF ReadInv, NoErrorYet
      <4>. QED BY ONLY <4>2, <4>3
    <3>. QED BY ONLY <3>4, <3>5, <3>6 DEF ReadInv
  <2>. QED BY <2>3, <2>4
<1>. QED BY <1>3, <1>4 DEF PollRead

\* Every step keeps the order of what is read.
LEMMA ReadStep ==
    ASSUME TypeOK, ReadInv, [Next]_vars
    PROVE  ReadInv'
<1>. USE DEF ReadInv, ReadOK, QueueOK, FramesOK, NoErrorYet, Errors, ErrorQueued, Working, Running
<1>1. CASE OutFail \/ InFail \/ ConnErr \/ IoAborted
  BY <1>1 DEF OutFail, InFail, ConnErr, IoAborted, Fail, gotVars
<1>2. CASE InFrame
  BY <1>2 DEF InFrame, gotVars, TypeOK, DataOK
<1>3. CASE InAsk \/ InHead \/ InBodyEnd \/ InBodyErr \/ InSent
  BY <1>3 DEF InAsk, InHead, InBodyEnd, AfterBody, InBodyErr, InSent, gotVars
<1>4. CASE OutSend \/ OutAck \/ OutEnd \/ ConnOk \/ IoOk \/ IoErr \/ PollEnded \/ PollWrite
           \/ PollShutdown \/ DropConnection \/ UNCHANGED vars
  <2>1. UNCHANGED <<read, responseQ, incoming, frames>> /\ (Running' => Running)
    BY <1>4 DEF OutSend, OutAck, OutEnd, ConnOk, IoOk, IoErr, PollEnded, PollWrite, PollShutdown,
                DropConnection, vars, inVars, gotVars
  <2>. QED BY <2>1
<1>. QED BY NextCases, ReadPut, ReadTake, <1>1, <1>2, <1>3, <1>4

\* ReadInv holds in every state.
LEMMA ReadInvariant == Spec => []ReadInv
<1>1. Init => ReadInv
  BY DEF Init, ReadInv, ReadOK, QueueOK, FramesOK, NoErrorYet, Errors, ErrorQueued, Working, Running
<1>2. TypeOK /\ ReadInv /\ [Next]_vars => ReadInv'
  BY ReadStep
<1>. QED BY <1>1, <1>2, TypeCorrect, PTL DEF Spec

\* The application reads the frames in the order in which they were received,
\* each of them once, and none is missing while the pump goes on.
THEOREM ReadsCorrect == Spec => []ReadsInOrder
<1>1. TypeOK /\ ReadInv => ReadsInOrder
  BY ReadInvOrder
<1>. QED BY <1>1, ReadInvariant, TypeCorrect, PTL
=============================================================================

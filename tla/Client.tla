------------------------------- MODULE Client -------------------------------
(***************************************************************************)
(* The client side of one tunnel (src/src/client.rs): a ProxyConnection,   *)
(* which the application reads and writes like a stream, and its I/O task, *)
(* which drives the HTTP connection and the two pumps.  pump_incoming      *)
(* repeats GET requests and passes the frames of their bodies on through a *)
(* channel; pump_outgoing takes chunks from a channel and sends each in a  *)
(* request of its own.                                                     *)
(*                                                                         *)
(* Chunks and frames are numbered in the order in which they are written   *)
(* and received.  The proxy may answer a request in any way, or never.     *)
(***************************************************************************)
EXTENDS Integers, Sequences

CONSTANTS
    ResponseCap,  \* buffer of the response channel (1 in start_proxy)
    MaxChunks,    \* bound: chunks the application writes
    MaxFrames,    \* bound: frames in the bodies of GET responses
    MaxGets       \* bound: GET requests

ASSUME ClientAssumption ==
    /\ ResponseCap \in Nat \ {0}
    /\ MaxChunks \in Nat /\ MaxFrames \in Nat /\ MaxGets \in Nat

VARIABLES
    app,         \* the application's side of the ProxyConnection
    closed,      \* request_tx was shut down or dropped
    written,     \* chunks poll_write has accepted
    requestQ,    \* the channel of pump_outgoing, of capacity 1
    outgoing,    \* where pump_outgoing is
    first,       \* its local variable of that name
    requests,    \* the write requests it has sent
    acks,        \* NO_CONTENT responses it has received
    incoming,    \* where pump_incoming is
    gets,        \* GET requests it has sent
    frames,      \* data frames it has received
    responseQ,   \* the response channel: frames, and Failure for an Err
    read,        \* frames the application has read
    failed,      \* the application has read Failure
    eof,         \* the application was told end of file
    conn,        \* the future that drives the HTTP connection(s)
    io,          \* the I/O task
    joined       \* its JoinHandle has returned the task's result

appVars == <<app, closed, joined>>
outVars == <<written, requestQ, outgoing, first, requests, acks>>
inVars  == <<incoming, gets, frames, responseQ>>
gotVars == <<read, failed, eof>>
vars == <<appVars, outVars, inVars, gotVars, conn, io>>

Failure == 0

\* A pump is dropped when the I/O task ends before it has returned.
Returned == {"ok", "dropped"}

Init ==
    /\ app = "open" /\ closed = FALSE /\ joined = FALSE
    /\ written = 0 /\ requestQ = <<>> /\ outgoing = "recv" /\ first = TRUE
    /\ requests = <<>> /\ acks = 0
    /\ incoming = "ask" /\ gets = 0 /\ frames = 0 /\ responseQ = <<>>
    /\ read = <<>> /\ failed = FALSE /\ eof = FALSE
    /\ conn = "up" /\ io = "run"

\* The task that try_join(conn, try_join(incoming, outgoing)) runs in is being
\* polled.  It goes on until it is aborted, also when its handle was dropped.
Running == io = "run"

\* A part of try_join has failed: the other parts are dropped, and the task
\* is about to publish the error.
Fail ==
    /\ io' = "ending"
    /\ incoming' = "dropped" /\ outgoing' = "dropped" /\ requestQ' = <<>>
    /\ UNCHANGED <<appVars, written, first, requests, acks, gets, frames, responseQ, gotVars>>

-----------------------------------------------------------------------------
(* pump_outgoing *)

\* create_write_request
WriteRequest(c) == [method |-> IF first THEN "POST" ELSE "PATCH", chunk |-> c]

\* request_rx.recv() yields a chunk, which is sent.
OutSend ==
    /\ Running /\ outgoing = "recv" /\ requestQ # <<>>
    /\ requests' = Append(requests, WriteRequest(Head(requestQ)))
    /\ requestQ' = Tail(requestQ)
    /\ outgoing' = "wait"
    /\ UNCHANGED <<appVars, written, first, acks, inVars, gotVars, conn, io>>

\* Mutant: the flag is not cleared.
ClearFirstNot == UNCHANGED first

ClearFirst == first' = FALSE

\* The response is NO_CONTENT.
OutAck ==
    /\ Running /\ outgoing = "wait" /\ conn = "up"
    /\ acks' = acks + 1
    /\ ClearFirst
    /\ outgoing' = "recv"
    /\ UNCHANGED <<appVars, written, requestQ, requests, inVars, gotVars, conn, io>>

\* The request cannot be built, the status is another one, or the HTTP
\* connection has failed.
OutFail ==
    /\ Running
    /\ outgoing = "wait" \/ (outgoing = "recv" /\ requestQ # <<>>)
    /\ Fail
    /\ UNCHANGED conn

\* Mutant: a shutdown ends the pump whatever the channel holds.
NoMoreChunksClosed == closed

\* Mutant: an empty channel ends the pump (try_recv).
NoMoreChunksNow == requestQ = <<>>

\* Mutant: a connection that never wrote is not shut down.
NoMoreChunksOnceUsed == requestQ = <<>> /\ closed /\ ~first

\* request_rx.recv() yields None.
NoMoreChunks == requestQ = <<>> /\ closed

OutEnd ==
    /\ Running /\ outgoing = "recv" /\ NoMoreChunks
    /\ outgoing' = "ok"
    /\ UNCHANGED <<appVars, written, requestQ, first, requests, acks, inVars, gotVars, conn, io>>

-----------------------------------------------------------------------------
(* pump_incoming *)

InAsk ==
    /\ Running /\ incoming = "ask" /\ gets < MaxGets
    /\ gets' = gets + 1
    /\ incoming' = "head"
    /\ UNCHANGED <<appVars, outVars, frames, responseQ, gotVars, conn, io>>

\* The status is a success.
InHead ==
    /\ Running /\ incoming = "head" /\ conn = "up"
    /\ incoming' = "body"
    /\ UNCHANGED <<appVars, outVars, gets, frames, responseQ, gotVars, conn, io>>

\* As OutFail.
InFail ==
    /\ Running /\ incoming \in {"ask", "head"}
    /\ Fail
    /\ UNCHANGED conn

InFrame ==
    /\ Running /\ incoming = "body" /\ frames < MaxFrames
    /\ frames' = frames + 1
    /\ incoming' = "send"
    /\ UNCHANGED <<appVars, outVars, gets, responseQ, gotVars, conn, io>>

\* Mutant: the end of a body is taken for the end of the stream.
AfterBodyEnd == "ok"

\* The pump goes on with the next GET.
AfterBody == "ask"

\* The body has ended, or a frame is empty.
InBodyEnd ==
    /\ Running /\ incoming = "body"
    /\ incoming' = AfterBody
    /\ UNCHANGED <<appVars, outVars, gets, frames, responseQ, gotVars, conn, io>>

InBodyErr ==
    /\ Running /\ incoming = "body"
    /\ incoming' = "fail"
    /\ UNCHANGED <<appVars, outVars, gets, frames, responseQ, gotVars, conn, io>>

\* Mutant: a frame that does not fit is dropped (try_send).
PutDropping(item) ==
    responseQ' = IF Len(responseQ) < ResponseCap THEN Append(responseQ, item) ELSE responseQ

Put(item) == responseQ' = Append(responseQ, item)

\* response_tx.send(..) of a frame, or of the error of the body; it fails once
\* the ProxyConnection was dropped.
InSend ==
    /\ Running /\ incoming \in {"send", "fail"}
    /\ \/ /\ app # "dropped"
          /\ Put(IF incoming = "send" THEN frames ELSE Failure)
          /\ incoming' = IF incoming = "send" THEN "sent" ELSE "failed"
       \/ /\ app = "dropped"
          /\ incoming' = "ok"
          /\ UNCHANGED responseQ
    /\ UNCHANGED <<appVars, outVars, gets, frames, gotVars, conn, io>>

\* Mutant: send does not wait for the receiver.
FlushedAlways == TRUE

\* The channel takes an item beyond its buffer, but the sender is then parked
\* until the receiver has taken one or is gone.
Flushed == Len(responseQ) <= ResponseCap \/ app = "dropped"

\* The .await of that send returns.
InSent ==
    /\ Running /\ incoming \in {"sent", "failed"} /\ Flushed
    /\ incoming' = IF incoming = "sent" THEN "body" ELSE "ok"
    /\ UNCHANGED <<appVars, outVars, gets, frames, responseQ, gotVars, conn, io>>

-----------------------------------------------------------------------------
(* The I/O task *)

\* The HTTP connection is closed without an error.
ConnOk ==
    /\ Running /\ conn = "up"
    /\ conn' = "ok"
    /\ UNCHANGED <<appVars, outVars, inVars, gotVars, io>>

ConnErr ==
    /\ Running /\ conn = "up"
    /\ conn' = "err"
    /\ Fail

\* Every part of try_join has returned Ok.
IoOk ==
    /\ Running /\ conn = "ok" /\ incoming = "ok" /\ outgoing = "ok"
    /\ io' = "ok"
    /\ UNCHANGED <<appVars, outVars, inVars, gotVars, conn>>

\* The runtime has dropped the future and now publishes its result.
IoErr ==
    /\ io = "ending"
    /\ io' = "err"
    /\ UNCHANGED <<appVars, outVars, inVars, gotVars, conn>>

\* The abort that Drop requested takes effect.
IoAborted ==
    /\ Running /\ app = "dropped"
    /\ io' = "aborted"
    /\ incoming' = "dropped" /\ outgoing' = "dropped" /\ requestQ' = <<>>
    /\ UNCHANGED <<appVars, written, first, requests, acks, gets, frames, responseQ, gotVars, conn>>

-----------------------------------------------------------------------------
(* The application.  Every poll begins with check_err!.                    *)

\* check_err! lets the poll go on.
Pending == app = "open" /\ io \in {"run", "ending"}

\* check_err! finds that the task has ended: the error is returned, an Ok(())
\* is unreachable!, and a handle that was joined before panics when polled.
PollEnded ==
    /\ app = "open" /\ io \in {"ok", "err"}
    /\ joined' = TRUE
    /\ app' = IF joined \/ io = "ok" THEN "panicked" ELSE "open"
    /\ UNCHANGED <<closed, outVars, inVars, gotVars, conn, io>>

\* poll_read: the next frame, the error of a body, or the end of the channel.
PollRead ==
    /\ Pending
    /\ \/ /\ responseQ # <<>> /\ responseQ' = Tail(responseQ) /\ UNCHANGED eof
          /\ IF Head(responseQ) = Failure
             THEN failed' = TRUE /\ UNCHANGED read
             ELSE read' = Append(read, Head(responseQ)) /\ UNCHANGED failed
       \/ /\ responseQ = <<>> /\ incoming \in Returned
          /\ eof' = TRUE
          /\ UNCHANGED <<responseQ, read, failed>>
    /\ UNCHANGED <<appVars, outVars, incoming, gets, frames, conn, io>>

\* poll_write and poll_write_vectored; an error of the channel changes nothing.
PollWrite ==
    /\ Pending
    /\ ~closed /\ outgoing \notin Returned /\ requestQ = <<>> /\ written < MaxChunks
    /\ written' = written + 1
    /\ requestQ' = Append(requestQ, written')
    /\ UNCHANGED <<appVars, outgoing, first, requests, acks, inVars, gotVars, conn, io>>

\* poll_shutdown closes the channel; poll_flush does nothing.
PollShutdown ==
    /\ Pending /\ ~closed
    /\ closed' = TRUE
    /\ UNCHANGED <<app, joined, outVars, inVars, gotVars, conn, io>>

DropConnection ==
    /\ app = "open"
    /\ app' = "dropped" /\ closed' = TRUE
    /\ UNCHANGED <<joined, outVars, inVars, gotVars, conn, io>>

Application == PollEnded \/ PollRead \/ PollWrite \/ PollShutdown \/ DropConnection

Next ==
    \/ OutSend \/ OutAck \/ OutFail \/ OutEnd
    \/ InAsk \/ InHead \/ InFail \/ InFrame \/ InBodyEnd \/ InBodyErr \/ InSend \/ InSent
    \/ ConnOk \/ ConnErr \/ IoOk \/ IoErr \/ IoAborted
    \/ Application

Spec == Init /\ [][Next]_vars

(***************************************************************************)
(* The runtime polls the pump when it can make progress, and the server    *)
(* answers every write request in one way or another.  Nothing is assumed  *)
(* of the answers to GET requests, of the application or of an abort.      *)
(***************************************************************************)
FairSpec ==
    /\ Spec
    /\ WF_vars(OutSend) /\ WF_vars(outgoing = "wait" /\ (OutAck \/ OutFail)) /\ WF_vars(OutEnd)

-----------------------------------------------------------------------------
FlagsOK ==
    /\ closed \in BOOLEAN /\ joined \in BOOLEAN /\ first \in BOOLEAN
    /\ failed \in BOOLEAN /\ eof \in BOOLEAN

\* Where pump_incoming is when it is not waiting for the response channel.
Working == {"ask", "head", "body", "send", "fail"}

DataOK ==
    /\ app \in {"open", "dropped", "panicked"}
    /\ written \in Nat /\ acks \in Nat /\ gets \in Nat /\ frames \in Nat
    /\ requestQ \in Seq(Nat) /\ responseQ \in Seq(Nat) /\ read \in Seq(Nat)
    /\ Len(responseQ) <= ResponseCap + 1
    /\ incoming \in Working => Flushed
    /\ requests \in Seq([method : {"POST", "PATCH"}, chunk : Nat])
    /\ outgoing \in {"recv", "wait"} \cup Returned
    /\ incoming \in Working \cup {"sent", "failed"} \cup Returned
    /\ conn \in {"up", "ok", "err"}
    /\ io \in {"run", "ending", "ok", "err", "aborted"}

\* Every variable has its type, and the response channel never holds more than
\* one item beyond its buffer, whatever the proxy sends: the pump goes on only
\* when it holds no more than the buffer.
TypeOK == FlagsOK /\ DataOK

\* The k-th write request carries the k-th chunk, it is sent only when all
\* before it were acknowledged, and only the first one may create a session.
WritesSerial ==
    /\ \A k \in 1..Len(requests) :
          requests[k] = [method |-> IF k = 1 THEN "POST" ELSE "PATCH", chunk |-> k]
    /\ Len(requests) \in {acks, acks + 1}

\* As long as the task runs, every chunk that poll_write accepted was sent or
\* is in the channel, and the pump returns only when all were acknowledged.
NoChunkLost ==
    /\ Running => written = Len(requests) + Len(requestQ)
    /\ Running /\ outgoing = "ok" => acks = written

\* The application reads the frames in the order they were received, and
\* each of them once: what it has read, what is in the channel (before the
\* error of a body, if that is there) and what the pump is sending are all
\* the frames.
ReadsInOrder ==
    LET passed == read \o responseQ
        errors == IF \E k \in 1..Len(responseQ) : responseQ[k] = Failure THEN 1 ELSE 0
    IN  /\ \A k \in 1..Len(passed) : passed[k] = k \/ (passed[k] = Failure /\ k = Len(passed))
        /\ \A k \in 1..Len(read) : read[k] = k
        /\ Running /\ incoming # "ok" =>
              frames + errors = Len(passed) + (IF incoming = "send" THEN 1 ELSE 0)

\* End of file is never reported on a tunnel that works: the body of a GET
\* has failed, or the task has.
EofOnlyOnFailure == eof => failed \/ io \in {"ending", "err"}

\* The task ends with Ok only if the application is gone, or has shut down
\* its side and the body of a GET has failed.
OkOnlyWhenClosed ==
    io = "ok" => app = "dropped" \/ (closed /\ (failed \/ \E k \in 1..Len(responseQ) : responseQ[k] = Failure))

-----------------------------------------------------------------------------
(* Liveness, under FairSpec.                                               *)

\* After a shutdown the chunks still in the channel are sent and the pump
\* ends, unless the task fails first.
ShutdownDrains == closed ~> outgoing \in Returned

-----------------------------------------------------------------------------
(* What comments say and the code does not guarantee.                      *)

\* "The I/O task will never exit with Ok(()) unless it's gracefully closed.
\* It's never gracefully closed unless ProxyConnection is dropped."
OkOnlyWhenDropped == io = "ok" => app = "dropped"
=============================================================================

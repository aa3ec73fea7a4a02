------------------------------- MODULE Tunnel -------------------------------
(***************************************************************************)
(* One tunnel end to end: a Client and the Server, which meet in their     *)
(* HTTP requests.  Every request of the tunnel carries the same session    *)
(* id.  Write request k and GET request k of the client are requests W(k)  *)
(* and G(k) of the server; a request arrives some time after it was sent,  *)
(* and a response, or a frame of its body, is seen some time after it was  *)
(* made.                                                                   *)
(*                                                                         *)
(* HTTP itself does not fail here: that ends the client's task, and with   *)
(* it the tunnel, as Client shows.  Sessions do: they time out, they are   *)
(* not established, or upstream refuses data.  The application reads and   *)
(* writes when it likes.                                                   *)
(***************************************************************************)
EXTENDS Integers, Sequences, FiniteSets, FiniteSetsExt

CONSTANTS
    None,         \* absence of a value
    MailboxCap,   \* capacity of an actor's mailbox
    ResponseCap,  \* buffer of the client's response channel
    Sizes,        \* frames in which a chunk may be sent on; 0 for an empty write
    MaxSessions,  \* bound: sessions the server creates
    MaxUnits,     \* bound: units that upstream sends in all
    MaxChunks,    \* bound: chunks the application writes
    MaxGets       \* bound: GET requests of the client

Id        == "session"
Ids       == {Id}
Actors    == 1..MaxSessions
W(k)      == <<"write", k>>
G(k)      == <<"get", k>>
Reqs      == {W(k) : k \in 1..MaxChunks} \cup {G(k) : k \in 1..MaxGets}
Offered   == [method : {"GET", "POST", "PATCH"}, id : Ids, frames : Sizes \cup {0}]
MaxTakes  == 0
MaxFrames == MaxUnits

ASSUME TunnelAssumption ==
    /\ None \notin Ids /\ None \notin Actors /\ None \notin Reqs
    /\ None \notin {"OK", "NO_CONTENT", "BAD_REQUEST", "TOO_MANY_REQUESTS"}
    /\ MailboxCap \in Nat \ {0} /\ ResponseCap \in Nat \ {0} /\ Sizes \subseteq Nat
    /\ MaxSessions \in Nat /\ MaxUnits \in Nat /\ MaxChunks \in Nat /\ MaxGets \in Nat

VARIABLES
    sessions, phase, sid, timers, killed, mailbox, busy, reader, abort, aborted,
    upstream, sent, taken, eof, pc, req, target, next, status, body, stats, reported, takes,
    app, closed, written, requestQ, outgoing, first, requests, acks, incoming, gets, frames,
    responseQ, read, failed, ended, conn, io, joined,
    pieces,  \* for each chunk the application has written, its frames
    got,     \* <<connection, unit>> of each frame the client has received
    seen     \* how many of them in the response to its last GET

serverVars ==
    <<sessions, phase, sid, timers, killed, mailbox, busy, reader, abort, aborted,
      upstream, sent, taken, eof, pc, req, target, next, status, body, stats, reported, takes>>
clientVars ==
    <<app, closed, written, requestQ, outgoing, first, requests, acks, incoming, gets, frames,
      responseQ, read, failed, ended, conn, io, joined>>
linkVars == <<pieces, got, seen>>
vars == <<serverVars, clientVars, linkVars>>

S == INSTANCE Server
C == INSTANCE Client WITH eof <- ended

Init == S!Init /\ C!Init /\ pieces = <<>> /\ got = <<>> /\ seen = 0

-----------------------------------------------------------------------------
(* The server's side.                                                      *)

\* Sessions are numbered in the order in which they are created.
NextSession(a) == \A b \in Actors : phase[b] = "unborn" => a <= b

Arrives(r, q) ==
    \/ S!RejectRequest(r, q)
    \/ S!JoinSession(r, q)
    \/ \E a \in Actors : NextSession(a) /\ S!CreateSession(r, q, a)

WriteArrives(k) == Arrives(W(k), [method |-> requests[k].method, id |-> Id, frames |-> pieces[k]])

GetArrives(k) == Arrives(G(k), [method |-> "GET", id |-> Id, frames |-> 0])

Handles(r) ==
    \/ S!Ask(r) \/ S!AskErr(r)
    \/ S!BodyFrame(r) \/ S!BodyEnd(r) \/ S!CountTx(r)
    \/ S!StreamRead(r) \/ S!StreamYield(r) \/ S!StreamEnd(r) \/ S!StreamAborted(r)

\* Both timeouts kill an actor in the same way, so one stands for both; the
\* last session the bound allows does not end.  What upstream sends is
\* noticed only by a stream that reads, so it waits for one.
Lives(a) ==
    \/ S!OnStartOk(a)
    \/ a < MaxSessions /\ (S!OnStartErr(a) \/ S!WriteErr(a) \/ S!ActorTimeout(a, "total"))
    \/ S!Kill(a) \/ S!Drop(a)
    \/ S!HandleSessionRead(a) \/ S!HandleSessionWrite(a) \/ S!HandleReset(a)
    \/ S!WriteOk(a)
    \/ reader[a] # None /\ MapThenSumSet(LAMBDA b : sent[b], Actors) < MaxUnits /\ S!UpstreamSends(a)
    \/ reader[a] # None /\ S!UpstreamCloses(a)

ServerStep ==
    /\ \/ \E k \in 1..Len(requests) : WriteArrives(k)
       \/ \E k \in 1..gets : GetArrives(k)
       \/ \E r \in Reqs : Handles(r)
       \/ \E a \in Actors : Lives(a)
    /\ UNCHANGED <<clientVars, linkVars>>

-----------------------------------------------------------------------------
(* The client's side.                                                      *)

\* pump_outgoing sees the response to its request.
WriteAnswered ==
    /\ LET code == status[W(Len(requests))]
       IN  \/ outgoing = "wait" /\ code = "NO_CONTENT" /\ C!OutAck
           \/ outgoing = "wait" /\ code = "BAD_REQUEST" /\ C!OutFail
    /\ UNCHANGED linkVars

\* pump_incoming sends the next GET.
GetSent ==
    /\ C!InAsk
    /\ seen' = 0
    /\ UNCHANGED <<pieces, got>>

\* pump_incoming sees the head of the response to its request.
GetAnswered ==
    /\ \/ incoming = "head" /\ status[G(gets)] = "OK" /\ C!InHead
       \/ incoming = "head" /\ status[G(gets)] \in {"BAD_REQUEST", "TOO_MANY_REQUESTS"} /\ C!InFail
    /\ UNCHANGED linkVars

\* pump_incoming sees the next frame of the body.
FrameArrives ==
    /\ incoming = "body" /\ seen < Len(body[G(gets)])
    /\ C!InFrame
    /\ seen' = seen + 1
    /\ got' = Append(got, <<target[G(gets)], body[G(gets)][seen + 1]>>)
    /\ UNCHANGED pieces

BodyEnds ==
    /\ incoming = "body" /\ pc[G(gets)] = "done" /\ seen = Len(body[G(gets)])
    /\ C!InBodyEnd
    /\ UNCHANGED linkVars

\* The application writes a chunk, which will be sent on in n frames.
ChunkWritten(n) ==
    /\ C!PollWrite
    /\ pieces' = Append(pieces, n)
    /\ UNCHANGED <<got, seen>>

ClientStep ==
    /\ \/ WriteAnswered \/ GetSent \/ GetAnswered \/ FrameArrives \/ BodyEnds
       \/ \E n \in Sizes : ChunkWritten(n)
       \/ /\ C!OutSend \/ C!InSend \/ C!InSent \/ C!PollRead
          /\ UNCHANGED linkVars
    /\ UNCHANGED serverVars

Next == ServerStep \/ ClientStep

Spec == Init /\ [][Next]_vars

-----------------------------------------------------------------------------
\* Sessions that have ended, or were never established.
Ended == {a \in Actors : phase[a] \in {"stopped", "dropped", "failed"}}

\* The frames that upstream has received on the connection of a, as pairs of
\* a chunk and a number.
Chunks(a) == [j \in 1..Len(upstream[a]) |-> <<upstream[a][j][1][2], upstream[a][j][2]>>]

P == INSTANCE Pipe WITH
        Connections <- Actors,
        opened   <- {a \in Actors : phase[a] # "unborn"},
        ended    <- Ended,
        received <- [a \in Actors |-> Chunks(a)],
        read     <- [k \in 1..Len(read) |-> got[read[k]]]

\* The tunnel implements Pipe: application and upstream see an ordered stream
\* in each direction, without a gap or a repetition in any one connection,
\* whatever pumps, handlers, actors and timeouts do in between.
ImplementsPipe == P!PipeSpec

\* As long as HTTP works, the client's task fails only for a cause: a session
\* has ended, or the application has written zero bytes (which the server
\* refuses as an empty body).  In particular a GET is never refused because
\* the stream of the GET before it still holds the read lock.
FailsForCause ==
    io = "ending" => Ended # {} \/ \E k \in 1..Len(requests) : pieces[k] = 0

\* "Subsequent PATCH requests with the same session ID will push data to the
\* same TCP connection": all chunks of a tunnel reach one connection.
OneConnection == \A a, b \in Actors : upstream[a] # <<>> /\ upstream[b] # <<>> => a = b
=============================================================================

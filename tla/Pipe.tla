-------------------------------- MODULE Pipe --------------------------------
(***************************************************************************)
(* What a tunnel promises, seen from its two ends: the application that    *)
(* reads and writes a ProxyConnection, and the upstream host that accepts  *)
(* connections from the server.  Connections are numbered in the order in  *)
(* which the server starts to open them.                                   *)
(*                                                                         *)
(* In each direction the data arrives in order, and within one connection  *)
(* without a gap and without a repetition.  When a connection has ended    *)
(* the tunnel may go on with a later one, and what was under way may be    *)
(* lost; it never goes back.                                               *)
(***************************************************************************)
EXTENDS Integers, Sequences

CONSTANTS
    Connections,  \* a set of numbers
    Sizes         \* frames in which a chunk may be sent on

VARIABLES
    pieces,    \* for each chunk the application has written, its frames
    opened,    \* connections the server has started to open
    ended,     \* connections that have ended or were never established
    received,  \* <<chunk, frame>> that upstream has received on each connection
    sent,      \* units that upstream has sent on each connection
    read       \* <<connection, unit>> in the order the application read them

pipeVars == <<pieces, opened, ended, received, sent, read>>

PipeInit ==
    /\ pieces = <<>> /\ opened = {} /\ ended = {}
    /\ received = [c \in Connections |-> <<>>]
    /\ sent = [c \in Connections |-> 0]
    /\ read = <<>>

Write(n) ==
    /\ pieces' = Append(pieces, n)
    /\ UNCHANGED <<opened, ended, received, sent, read>>

\* A further connection is opened only after one has ended.
Open(c) ==
    /\ \A d \in opened : d < c
    /\ opened # {} => ended # {}
    /\ opened' = opened \cup {c}
    /\ UNCHANGED <<pieces, ended, received, sent, read>>

End(c) ==
    /\ c \in opened \ ended
    /\ ended' = ended \cup {c}
    /\ UNCHANGED <<pieces, opened, received, sent, read>>

\* Frame n of chunk k is the next one after those received on c.
Follows(c, k, n) ==
    LET last == received[c][Len(received[c])]
    IN  \/ last = <<k, n - 1>>
        \/ n = 1 /\ k > 1 /\ last = <<k - 1, pieces[k - 1]>>

\* A connection begins with a whole chunk, later than those received before:
\* the first one, unless an earlier connection has ended.
Begins(c, k, n) ==
    /\ n = 1
    /\ \A d \in Connections : received[d] # <<>> => received[d][Len(received[d])][1] < k
    /\ k = 1 \/ \E d \in ended : d < c

\* Upstream receives frame n of chunk k on c, and has received nothing on a
\* later connection.
Receive(c, k, n) ==
    /\ c \in opened
    /\ \A d \in Connections : received[d] # <<>> => d <= c
    /\ IF received[c] = <<>> THEN Begins(c, k, n) ELSE Follows(c, k, n)
    /\ received' = [received EXCEPT ![c] = Append(@, <<k, n>>)]
    /\ UNCHANGED <<pieces, opened, ended, sent, read>>

Send(c) ==
    /\ c \in opened
    /\ sent' = [sent EXCEPT ![c] = @ + 1]
    /\ UNCHANGED <<pieces, opened, ended, received, read>>

\* The application reads unit u of connection c: the next one of the
\* connection it read from last, or the first one of a later connection.
Read(c, u) ==
    /\ u \in 1..sent[c]
    /\ IF read # <<>> /\ read[Len(read)][1] = c
       THEN u = read[Len(read)][2] + 1
       ELSE u = 1 /\ (read # <<>> => read[Len(read)][1] < c)
    /\ read' = Append(read, <<c, u>>)
    /\ UNCHANGED <<pieces, opened, ended, received, sent>>

PipeNext ==
    \/ \E n \in Sizes : Write(n)
    \/ \E c \in Connections :
          \/ Open(c) \/ End(c) \/ Send(c)
          \/ \E k \in 1..Len(pieces) : \E n \in 1..pieces[k] : Receive(c, k, n)
          \/ \E u \in 1..sent[c] : Read(c, u)

PipeSpec == PipeInit /\ [][PipeNext]_pipeVars
=============================================================================

------------------------------ MODULE Listener ------------------------------
(***************************************************************************)
(* The program domain_fronting_server: it checks its arguments, loads the  *)
(* certificate, binds, and then accepts connections in a loop that also    *)
(* reports.  Each connection gets a task of its own, which performs the    *)
(* TLS handshake and serves HTTP/1.1 requests (these are what Server       *)
(* describes).  When main returns or panics, all tasks end.                *)
(***************************************************************************)
EXTENDS Naturals, Sequences, FiniteSets

CONSTANTS
    Clients,      \* the TCP connections that clients open
    None,         \* absence of a value
    ReportEvery,  \* the time between reports (5 seconds)
    MaxTime       \* bound: the clock

ASSUME ListenerAssumption ==
    /\ None \notin Nat
    /\ ReportEvery \in Nat \ {0} /\ MaxTime \in Nat

VARIABLES
    args,         \* the arguments: those for TLS that are given, whether the timeouts are durations
    main,         \* where main is
    acceptor,     \* tls_acceptor is Some
    backlog,      \* connections that were not accepted yet
    conn,         \* the state of a connection
    secured,      \* connections with a completed TLS handshake
    accepted,     \* connections accepted so far
    since,        \* connections_since_report
    reported,     \* connections in all reports so far
    reports,      \* reports so far
    last,         \* last_report
    now           \* the clock

startVars  == <<args, acceptor>>
connVars   == <<backlog, conn, secured>>
reportVars == <<accepted, since, reported, reports, last>>
vars == <<startVars, main, connVars, reportVars, now>>

TlsArgs == {"cert_path", "key_path", "hostname"}

Init ==
    /\ args \in [tls : SUBSET TlsArgs, durations : BOOLEAN]
    /\ main = "start" /\ acceptor = FALSE
    /\ backlog = <<>> /\ conn = [c \in Clients |-> "away"] /\ secured = {}
    /\ accepted = 0 /\ since = 0 /\ reported = 0 /\ reports = 0 /\ last = None /\ now = 0

\* main is over, and every task and connection with it.
Exit(how) ==
    /\ main' = how
    /\ backlog' = <<>>
    /\ conn' = [c \in Clients |-> IF conn[c] = "away" THEN "away" ELSE "closed"]
    /\ UNCHANGED secured

-----------------------------------------------------------------------------
(* Start.                                                                  *)

\* Mutant: no TLS unless every argument for it is there.
PlainUnlessComplete == args.tls # TlsArgs

\* The match on (cert_path, key_path, hostname): plain TCP.
Plain == args.tls = {}

CheckArgs ==
    /\ main = "start"
    /\ \/ Plain /\ main' = "bind"
       \/ args.tls = TlsArgs /\ main' = "load"
       \/ ~Plain /\ args.tls # TlsArgs /\ main' = "error"
    /\ UNCHANGED <<startVars, connVars, reportVars, now>>

\* load_tls_config
LoadTls ==
    /\ main = "load"
    /\ \/ main' = "bind" /\ acceptor' = TRUE
       \/ main' = "error" /\ UNCHANGED acceptor
    /\ UNCHANGED <<args, connVars, reportVars, now>>

\* TcpListener::bind, then Config::new, whose Duration::from_secs_f32 panics
\* for a number that is not a duration.
Bind ==
    /\ main = "bind"
    /\ \/ args.durations /\ main' = "accept"
       \/ ~args.durations /\ main' = "panic"
       \/ main' = "error"
    /\ UNCHANGED <<startVars, connVars, reportVars, now>>

-----------------------------------------------------------------------------
(* The accept loop.                                                        *)

\* Mutant: the handshake is awaited in the loop.
AcceptsInline == \A c \in Clients : conn[c] # "handshake"

\* The loop is in accept, whatever the tasks it has spawned do.
Accepts == TRUE

\* Mutant: every connection is reported.
ReportDueAlways == TRUE

\* last_report.is_none_or(|t| t.elapsed() >= 5 s)
ReportDue == last # None => now - last >= ReportEvery

\* Mutant: the connections before this one are forgotten.
CountOnly == 1

\* connections_since_report += 1, before the report is considered.
Count == since + 1

\* Report the connections, this one included, or go on counting.
Report ==
    /\ accepted' = accepted + 1
    /\ \/ /\ ReportDue
          /\ reported' = reported + Count /\ reports' = reports + 1
          /\ since' = 0 /\ last' = now
       \/ /\ ~ReportDue
          /\ since' = Count
          /\ UNCHANGED <<reported, reports, last>>

\* accept returns a connection: count, report, and spawn its task.
Accept ==
    LET c == Head(backlog)
    IN  /\ main = "accept" /\ backlog # <<>> /\ Accepts
        /\ backlog' = Tail(backlog)
        /\ conn' = [conn EXCEPT ![c] = IF acceptor THEN "handshake" ELSE "serving"]
        /\ Report
        /\ UNCHANGED <<startVars, main, secured, now>>

\* accept().await? returns an error, such as too many open files.
AcceptErr ==
    /\ main = "accept"
    /\ Exit("error")
    /\ UNCHANGED <<startVars, reportVars, now>>

-----------------------------------------------------------------------------
(* The task of a connection.                                               *)

\* TlsAcceptor::accept
Handshake(c) ==
    /\ conn[c] = "handshake"
    /\ \/ conn' = [conn EXCEPT ![c] = "serving"] /\ secured' = secured \cup {c}
       \/ conn' = [conn EXCEPT ![c] = "closed"] /\ UNCHANGED secured
    /\ UNCHANGED <<startVars, main, backlog, reportVars, now>>

\* serve_connection returns; an error is only logged.
ServeEnds(c) ==
    /\ conn[c] = "serving"
    /\ conn' = [conn EXCEPT ![c] = "closed"]
    /\ UNCHANGED <<startVars, main, backlog, secured, reportVars, now>>

-----------------------------------------------------------------------------
(* The environment.                                                        *)

\* A client connects to the bound port.
ClientConnects(c) ==
    /\ main = "accept" /\ conn[c] = "away"
    /\ conn' = [conn EXCEPT ![c] = "backlog"]
    /\ backlog' = Append(backlog, c)
    /\ UNCHANGED <<startVars, main, secured, reportVars, now>>

Tick ==
    /\ main = "accept" /\ now < MaxTime
    /\ now' = now + 1
    /\ UNCHANGED <<startVars, main, connVars, reportVars>>

Next ==
    \/ CheckArgs \/ LoadTls \/ Bind
    \/ Accept \/ AcceptErr
    \/ \E c \in Clients : Handshake(c) \/ ServeEnds(c) \/ ClientConnects(c)
    \/ Tick

Spec == Init /\ [][Next]_vars

\* The runtime polls main when a connection waits; nothing is assumed of the
\* clients, which may leave a handshake or a request unfinished for ever.
FairSpec == Spec /\ WF_vars(Accept)

-----------------------------------------------------------------------------
\* Every variable has its type.
TypeOK ==
    /\ args \in [tls : SUBSET TlsArgs, durations : BOOLEAN]
    /\ main \in {"start", "load", "bind", "accept", "error", "panic"}
    /\ acceptor \in BOOLEAN
    /\ backlog \in Seq(Clients) /\ secured \subseteq Clients
    /\ conn \in [Clients -> {"away", "backlog", "handshake", "serving", "closed"}]
    /\ accepted \in Nat /\ since \in Nat /\ reported \in Nat /\ reports \in Nat
    /\ last \in Nat \cup {None} /\ now \in Nat

\* "If omitted, plain TCP is used": a program that was given any of the
\* arguments for TLS never serves a request in the clear.
NoDowngrade ==
    \A c \in Clients : conn[c] = "serving" /\ args.tls # {} => c \in secured

\* Every connection accepted is in exactly one report or still counted.
ReportsAddUp == reported + since = accepted

\* However fast connections come, there is at most one report at the start
\* and one for each period that has passed since.
ReportsBounded == reports * ReportEvery <= now + ReportEvery

\* A client is accepted, or the program ends, whatever the other clients do:
\* one that never finishes its handshake holds up nobody.
Accepted == \A c \in Clients : conn[c] = "backlog" ~> conn[c] # "backlog"
=============================================================================

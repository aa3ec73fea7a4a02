-------------------------- MODULE ListenerProofs ---------------------------
(* Theorems about Listener, for every value of its constants. *)
EXTENDS Listener, TLAPS

USE ListenerAssumption

\* The head and the rest of a queue, and a queue with one more.
LEMMA QueueOK ==
    ASSUME NEW S, NEW s \in Seq(S), NEW e \in S
    PROVE  Append(s, e) \in Seq(S) /\ (s # <<>> => Head(s) \in S /\ Tail(s) \in Seq(S))
OBVIOUS

\* Every step keeps the types.
LEMMA TypeStep ==
    ASSUME TypeOK, [Next]_vars
    PROVE  TypeOK'
<1>. USE DEF TypeOK, startVars, connVars, reportVars
<1>1. CASE CheckArgs \/ LoadTls \/ Bind
  BY <1>1 DEF CheckArgs, LoadTls, Bind
<1>2. CASE Accept
  <2>1. Head(backlog) \in Clients /\ Tail(backlog) \in Seq(Clients)
    BY <1>2, QueueOK DEF Accept
  <2>2. conn' \in [Clients -> {"away", "backlog", "handshake", "serving", "closed"}]
    BY <1>2, <2>1 DEF Accept
  <2>3. accepted' \in Nat /\ since' \in Nat /\ reported' \in Nat /\ reports' \in Nat /\ last' \in Nat \cup {None}
    BY <1>2 DEF Accept, Report, Count
  <2>. QED BY <1>2, <2>1, <2>2, <2>3 DEF Accept
<1>3. CASE AcceptErr
  BY <1>3 DEF AcceptErr, Exit
<1>4. ASSUME NEW c \in Clients, Handshake(c) \/ ServeEnds(c) PROVE TypeOK'
  BY <1>4 DEF Handshake, ServeEnds
<1>5. ASSUME NEW c \in Clients, ClientConnects(c) PROVE TypeOK'
  BY <1>5, QueueOK DEF ClientConnects
<1>6. CASE Tick \/ UNCHANGED vars
  BY <1>6 DEF Tick, vars
<1>. QED BY <1>1, <1>2, <1>3, <1>4, <1>5, <1>6 DEF Next

\* Every variable keeps its type.
LEMMA TypeInvariant == Spec => []TypeOK
<1>1. Init => TypeOK
  <2>1. Init => acceptor \in BOOLEAN
    BY Zenon DEF Init
  <2>. QED BY <2>1 DEF Init, TypeOK
<1>. QED BY <1>1, TypeStep, PTL DEF Spec

-----------------------------------------------------------------------------
\* main gets to bind with an acceptor if and only if it was given arguments
\* for TLS, and only a handshake leads to a served connection then.
StartOK ==
    /\ main = "start" => ~acceptor
    /\ main = "load" => args.tls # {}
    /\ main \in {"bind", "accept"} => (acceptor <=> args.tls # {})
    /\ \A c \in Clients : /\ conn[c] \in {"backlog", "handshake", "serving"} => main = "accept"
                          /\ conn[c] = "serving" /\ acceptor => c \in secured

\* Every step keeps StartOK.
LEMMA StartStep ==
    ASSUME TypeOK, StartOK, [Next]_vars
    PROVE  StartOK'
<1>. USE DEF TypeOK, StartOK, startVars, connVars
<1>1. CASE CheckArgs \/ LoadTls \/ Bind
  <2>1. UNCHANGED <<args, conn, secured>> /\ main \notin {"accept"}
    BY <1>1 DEF CheckArgs, LoadTls, Bind
  <2>2. CASE CheckArgs
    BY <2>1, <2>2 DEF CheckArgs, Plain, TlsArgs
  <2>3. CASE LoadTls
    BY <2>1, <2>3 DEF LoadTls
  <2>4. CASE Bind
    BY <2>1, <2>4 DEF Bind
  <2>. QED BY <1>1, <2>2, <2>3, <2>4
<1>2. CASE Accept
  <2>1. Head(backlog) \in Clients
    BY <1>2, QueueOK DEF Accept
  <2>. QED BY <1>2, <2>1 DEF Accept
<1>3. CASE AcceptErr
  BY <1>3 DEF AcceptErr, Exit
<1>4. ASSUME NEW c \in Clients, Handshake(c) \/ ServeEnds(c) \/ ClientConnects(c) PROVE StartOK'
  BY <1>4 DEF Handshake, ServeEnds, ClientConnects
<1>5. CASE Tick \/ UNCHANGED vars
  BY <1>5 DEF Tick, vars
<1>. QED BY <1>1, <1>2, <1>3, <1>4, <1>5 DEF Next

\* A server that was given any of the arguments for TLS never serves a request
\* in the clear: it has them all and an acceptor, or it ends before it binds.
THEOREM DowngradeCorrect == Spec => []NoDowngrade
<1>1. Init => StartOK
  BY DEF Init, StartOK
<1>2. StartOK => NoDowngrade
  BY DEF StartOK, NoDowngrade
<1>. QED BY <1>1, <1>2, StartStep, TypeInvariant, PTL DEF Spec

-----------------------------------------------------------------------------
\* The reports are as many as the time of the last one allows.
ReportOK ==
    /\ reported + since = accepted
    /\ last = None => reports = 0
    /\ last # None => last <= now /\ reports * ReportEvery <= last + ReportEvery

\* A report that is due keeps them so.
LEMMA ReportStep ==
    ASSUME TypeOK, ReportOK, Report, UNCHANGED now
    PROVE  ReportOK'
<1>. USE DEF TypeOK, ReportOK
<1>1. CASE ReportDue
  <2>1. reported' = reported + since + 1 /\ reports' = reports + 1 /\ since' = 0 /\ last' = now /\ accepted' = accepted + 1
    BY <1>1 DEF Report, Count
  <2>2. reports' * ReportEvery = reports * ReportEvery + ReportEvery /\ reports * ReportEvery \in Nat
    BY <2>1
  <2>3. reports * ReportEvery <= now
    BY <1>1, <2>2 DEF ReportDue
  <2>. QED BY <2>1, <2>2, <2>3
<1>2. CASE ~ReportDue
  BY <1>2 DEF Report, Count
<1>. QED BY <1>1, <1>2

\* The invariant of the reports holds in every state.
LEMMA ReportInvariant == Spec => []ReportOK
<1>1. Init => ReportOK
  BY DEF Init, ReportOK
<1>2. TypeOK /\ ReportOK /\ [Next]_vars => ReportOK'
  <2>. SUFFICES ASSUME TypeOK, ReportOK, [Next]_vars PROVE ReportOK'
    OBVIOUS
  <2>1. CASE Accept
    BY <2>1, ReportStep DEF Accept
  <2>2. CASE Tick
    BY <2>2 DEF Tick, reportVars, ReportOK, TypeOK
  <2>3. CASE ~Accept /\ ~Tick
    <3>1. UNCHANGED <<reportVars, now>>
      BY <2>3 DEF Next, CheckArgs, LoadTls, Bind, AcceptErr, Handshake, ServeEnds, ClientConnects, vars
    <3>. QED BY <3>1 DEF reportVars, ReportOK
  <2>. QED BY <2>1, <2>2, <2>3
<1>. QED BY <1>1, <1>2, TypeInvariant, PTL DEF Spec

\* No connection that was accepted is missing from the reports or in two.
THEOREM CountsCorrect == Spec => []ReportsAddUp
<1>1. ReportOK => ReportsAddUp
  BY DEF ReportOK, ReportsAddUp
<1>. QED BY <1>1, ReportInvariant, PTL

\* There are no more reports than the time allows, however many connections
\* come and whenever they do.
THEOREM ReportsCorrect == Spec => []ReportsBounded
<1>1. TypeOK /\ ReportOK => ReportsBounded
  BY DEF TypeOK, ReportOK, ReportsBounded
<1>. QED BY <1>1, ReportInvariant, TypeInvariant, PTL
=============================================================================

--------------------------- MODULE ConnectProofs ----------------------------
(* Theorems about Connect, for every value of its constants. *)
EXTENDS Connect, TLAPS

USE ConnectAssumption

\* From the ALPN check on, the call is one whose list fits, every stream is
\* connected, and each TLS session has a protocol of the list or none.
Passed == stage \in {"tls", "http"} \/ Up

SetupInv ==
    /\ stage \in Stages
    /\ stage \in {"tcp", "alpn", "tls", "http"} \/ Up => call \in Calls
    /\ Up => stage = "end"
    /\ secured \in Seq(Alpn \cup {None})
    /\ ~Passed /\ stage # "end" => secured = <<>>
    /\ Passed => /\ opened = Streams
                 /\ call.tls => AlpnMatches
                 /\ \A k \in 1..Len(secured) : secured[k] \in call.alpn \cup {None}
    /\ stage = "http" \/ Up => Len(secured) = (IF call.tls THEN Streams ELSE 0)
    /\ stage = "tls" => call.tls /\ Len(secured) < Streams

\* Every step of the set-up keeps SetupInv.
LEMMA SetupStep ==
    ASSUME SetupInv, [Next]_vars
    PROVE  SetupInv'
<1>. USE DEF SetupInv, Passed, Up, Streams, AlpnMatches, Stages
<1>1. ASSUME NEW a \in Addrs, NEW b \in Addrs, Resolve(<<a, b>>) PROVE SetupInv'
  BY <1>1 DEF Resolve
<1>2. ASSUME NEW e \in Errors, ResolveErr(e) PROVE SetupInv'
  BY <1>2 DEF ResolveErr, Fail
<1>3. ASSUME NEW c \in Calls, Call(c) PROVE SetupInv'
  <2>1. stage = "call" /\ call' = c /\ stage' \in {"alpn", "tcp"} /\ UNCHANGED <<opened, secured, outcome>>
    BY <1>3 DEF Call
  <2>. QED BY <2>1
<1>4. CASE ResolvePanics \/ StdioBail \/ TcpErr \/ TlsErr \/ HandshakeErr
  BY <1>4 DEF ResolvePanics, StdioBail, TcpErr, TlsErr, HandshakeErr, Fail
<1>5. CASE TcpConnect
  BY <1>5 DEF TcpConnect
<1>6. CASE CheckAlpn
  <2>1. call \in Calls /\ call.tls \in BOOLEAN /\ secured = <<>>
    BY <1>6 DEF CheckAlpn, Calls
  <2>. QED BY <1>6, <2>1 DEF CheckAlpn, AfterAlpn, Fail
<1>7. ASSUME NEW p \in Alpn \cup {None}, TlsConnect(p) PROVE SetupInv'
  <2>1. /\ stage = "tls" /\ p \in call.alpn \cup {None} /\ secured' = Append(secured, p)
        /\ stage' = (IF Len(secured') = Streams THEN "http" ELSE "tls")
        /\ UNCHANGED <<call, opened, outcome>>
    BY <1>7 DEF TlsConnect
  <2>2. /\ secured' \in Seq(Alpn \cup {None}) /\ Len(secured') = Len(secured) + 1
        /\ Len(secured) \in Nat
        /\ \A k \in 1..Len(secured') : secured'[k] \in call.alpn \cup {None}
    BY <2>1
  <2>. QED BY <2>1, <2>2
<1>8. ASSUME NEW i \in 1..2, Handshake(i) PROVE SetupInv'
  BY <1>8 DEF Handshake
<1>9. CASE UNCHANGED vars
  BY <1>9 DEF vars
<1>. QED BY <1>1, <1>2, <1>3, <1>4, <1>5, <1>6, <1>7, <1>8, <1>9 DEF Next

\* The invariant of the set-up holds in every state.
LEMMA SetupInvariant == Spec => []SetupInv
<1>1. Init => SetupInv
  BY DEF Init, SetupInv, Passed, Up, Stages
<1>2. SetupInv /\ [Next]_vars => SetupInv'
  BY SetupStep
<1>. QED BY <1>1, <1>2, PTL DEF Spec

\* A tunnel over TLS has a session on each of its streams, one over plain HTTP
\* on none.
THEOREM SecuredCorrect == Spec => []EveryStreamSecured
<1>1. SetupInv => EveryStreamSecured
  BY DEF SetupInv, Passed, EveryStreamSecured
<1>. QED BY <1>1, SetupInvariant, PTL

\* HTTP/1.1 is never spoken on a TLS session that has negotiated HTTP/2.
THEOREM SetupCorrect == Spec => []NoHttp1OverH2
<1>1. SetupInv => NoHttp1OverH2
  <2>. SUFFICES ASSUME SetupInv, Up PROVE NoHttp1OverH2
    BY DEF NoHttp1OverH2
  <2>1. call \in Calls /\ Len(secured) = (IF call.tls THEN opened ELSE 0)
    BY DEF SetupInv, Passed
  <2>2. ASSUME call.http = 1, NEW k \in 1..Len(secured) PROVE secured[k] # "h2"
    <3>1. call.tls
      BY <2>1, <2>2
    <3>2. "h2" \notin call.alpn
      BY <2>2, <3>1 DEF SetupInv, Passed, AlpnMatches
    <3>3. secured[k] \in call.alpn \cup {None}
      BY <2>2 DEF SetupInv, Passed
    <3>. QED BY <3>2, <3>3
  <2>. QED BY <2>2 DEF NoHttp1OverH2
<1>. QED BY <1>1, SetupInvariant, PTL
-----------------------------------------------------------------------------
(* Types.  That no more streams are opened than a call needs is what bounds *)
(* the connections of a set-up.                                            *)

TypeInv ==
    /\ TypeOK
    /\ stage \in {"resolve", "call"} => opened = 0
    /\ stage = "tcp" => opened < Streams

\* Every step keeps the types.
LEMMA TypeStep ==
    ASSUME SetupInv, TypeInv, [Next]_vars
    PROVE  TypeInv'
<1>. USE DEF TypeInv, TypeOK, Stages, Errors
<1>1. ASSUME NEW a \in Addrs, NEW b \in Addrs, Resolve(<<a, b>>) PROVE TypeInv'
  <2>1. Port \in Ports \cup {80, 443}
    BY DEF Port, Fronts
  <2>2. Head(<<a, b>>) \in Addrs
    OBVIOUS
  <2>. QED BY <1>1, <2>1, <2>2 DEF Resolve
<1>2. ASSUME NEW e \in Errors, ResolveErr(e) PROVE TypeInv'
  BY <1>2 DEF ResolveErr, Fail
<1>3. ASSUME NEW c \in Calls, Call(c) PROVE TypeInv'
  <2>1. stage = "call" /\ call' = c /\ stage' \in {"alpn", "tcp"}
    BY <1>3 DEF Call
  <2>2. Streams' \in {1, 2}
    BY DEF Streams
  <2>. QED BY <1>3, <2>1, <2>2 DEF Call
<1>4. CASE ResolvePanics \/ StdioBail \/ TcpErr \/ TlsErr \/ HandshakeErr
  <2>1. stage' = "end" /\ outcome' \in Errors /\ UNCHANGED <<user, front, addr, call, opened, secured, shaken>>
    BY <1>4 DEF ResolvePanics, StdioBail, TcpErr, TlsErr, HandshakeErr, Fail
  <2>. QED BY <2>1
<1>5. CASE TcpConnect
  <2>1. Streams \in {1, 2} /\ Streams' = Streams
    BY <1>5 DEF Streams, TcpConnect
  <2>. QED BY <1>5, <2>1 DEF TcpConnect
<1>6. CASE CheckAlpn
  <2>1. Streams \in {1, 2} /\ stage' \in {"tls", "http", "end"} /\ outcome' \in {outcome, "MisconfiguredAlpn"}
    BY <1>6 DEF Streams, CheckAlpn, AfterAlpn, Fail
  <2>. QED BY <1>6, <2>1 DEF CheckAlpn
<1>7. ASSUME NEW p \in Alpn \cup {None}, TlsConnect(p) PROVE TypeInv'
  <2>1. stage' \in {"http", "tls"} /\ secured' \in Seq(Alpn \cup {None})
    BY <1>7 DEF TlsConnect
  <2>. QED BY <1>7, <2>1 DEF TlsConnect
<1>8. ASSUME NEW i \in 1..2, Handshake(i) PROVE TypeInv'
  <2>1. /\ stage = "http" /\ stage' \in {"http", "end"} /\ outcome' \in {outcome, "ok"}
        /\ shaken' \subseteq 1..2
    BY <1>8 DEF Handshake
  <2>. QED BY <1>8, <2>1 DEF Handshake
<1>9. CASE UNCHANGED vars
  BY <1>9 DEF vars, Streams
<1>. QED BY <1>1, <1>2, <1>3, <1>4, <1>5, <1>6, <1>7, <1>8, <1>9 DEF Next

LEMMA TypeInvariant == Spec => []TypeInv
<1>1. Init => TypeInv
  BY DEF Init, TypeInv, TypeOK, Stages
<1>2. SetupInv /\ TypeInv /\ [Next]_vars => TypeInv'
  BY TypeStep
<1>. QED BY <1>1, <1>2, SetupInvariant, PTL DEF Spec

\* Every variable has its type: the address always has a port, and a set-up
\* holds at most two streams.
THEOREM TypeCorrect == Spec => []TypeOK
<1>1. TypeInv => TypeOK
  BY DEF TypeInv
<1>. QED BY <1>1, TypeInvariant, PTL

-----------------------------------------------------------------------------
(* The client programs.                                                    *)

\* A program has resolved the front with its own port and, once it has called
\* connect, has done so with TLS as the front asks and with an ALPN list that
\* fits.
ProgramInv ==
    user # "library" =>
        /\ outcome # "MisconfiguredAlpn"
        /\ stage \notin {"resolve", "end"} \/ Up => addr.port = Port
        /\ stage \in {"tcp", "alpn", "tls", "http"} \/ Up =>
               (call.tls <=> Tls) /\ (call.tls => AlpnMatches)

\* What a program calls.
LEMMA ProgramCall ==
    ASSUME user \in Users, user # "library", NEW c \in Calls, Call(c)
    PROVE  (c.tls <=> Tls) /\ (c.tls => ((c.http = 2) <=> ("h2" \in c.alpn)))
<1>1. c \in {Https(1, {}), Https(2, {"h2"}), PlainHttp} /\ (c = PlainHttp <=> ~Tls)
  <2>1. CASE user = "example"
    BY <2>1 DEF Call, ExampleCall, Https, PlainHttp
  <2>2. CASE user # "example"
    BY <2>2 DEF Call, StdioCall, Https, PlainHttp
  <2>. QED BY <2>1, <2>2
<1>. QED BY <1>1 DEF Https, PlainHttp

\* Every step keeps ProgramInv.
LEMMA ProgramStep ==
    ASSUME SetupInv, TypeInv, ProgramInv, [Next]_vars
    PROVE  ProgramInv'
<1>. SUFFICES ASSUME user' # "library" PROVE ProgramInv'
  BY DEF ProgramInv
<1>0. UNCHANGED <<user, front>> /\ user # "library" /\ user \in Users /\ Tls' = Tls /\ Port' = Port
  <2>1. UNCHANGED <<user, front>>
    BY DEF Next, vars, Resolve, ResolveErr, ResolvePanics, Call, StdioBail, TcpConnect, TcpErr,
           CheckAlpn, TlsConnect, TlsErr, Handshake, HandshakeErr
  <2>. QED BY <2>1 DEF Tls, Port, TypeInv, TypeOK
<1>. USE <1>0 DEF ProgramInv, Up
<1>1. ASSUME NEW a \in Addrs, NEW b \in Addrs, Resolve(<<a, b>>) PROVE ProgramInv'
  BY <1>1 DEF Resolve, SetupInv
<1>2. ASSUME NEW e \in Errors, ResolveErr(e) PROVE ProgramInv'
  BY <1>2 DEF ResolveErr, Fail
<1>3. ASSUME NEW c \in Calls, Call(c) PROVE ProgramInv'
  <2>1. stage = "call" /\ call' = c /\ stage' \in {"alpn", "tcp"} /\ UNCHANGED <<addr, outcome>>
    BY <1>3 DEF Call
  <2>2. (call'.tls <=> Tls') /\ (call'.tls => AlpnMatches')
    BY <1>3, <2>1, ProgramCall DEF AlpnMatches
  <2>. QED BY <2>1, <2>2
<1>4. CASE ResolvePanics \/ StdioBail \/ TcpErr \/ TlsErr \/ HandshakeErr
  BY <1>4 DEF ResolvePanics, StdioBail, TcpErr, TlsErr, HandshakeErr, Fail
<1>5. CASE TcpConnect
  BY <1>5 DEF TcpConnect, AlpnMatches
<1>6. CASE CheckAlpn
  <2>1. call.tls => AlpnMatches
    BY <1>6 DEF CheckAlpn
  <2>2. stage = "alpn" /\ stage' \in {"tls", "http"} /\ UNCHANGED <<addr, call, outcome>>
    BY <1>6, <2>1 DEF CheckAlpn, AfterAlpn
  <2>. QED BY <2>1, <2>2 DEF AlpnMatches
<1>7. ASSUME NEW p \in Alpn \cup {None}, TlsConnect(p) PROVE ProgramInv'
  BY <1>7 DEF TlsConnect, AlpnMatches
<1>8. ASSUME NEW i \in 1..2, Handshake(i) PROVE ProgramInv'
  BY <1>8 DEF Handshake, AlpnMatches
<1>9. CASE UNCHANGED vars
  BY <1>9 DEF vars, AlpnMatches
<1>. QED BY <1>1, <1>2, <1>3, <1>4, <1>5, <1>6, <1>7, <1>8, <1>9 DEF Next

\* The client programs use TLS, and the port of HTTPS by default, unless the
\* front asks for HTTP, and are never refused for their own ALPN list.
THEOREM ProgramsCorrect == Spec => []ProgramsConsistent
<1>1. Init => ProgramInv
  BY DEF Init, ProgramInv, Up
<1>2. SetupInv /\ TypeInv /\ ProgramInv /\ [Next]_vars => ProgramInv'
  BY ProgramStep
<1>3. ProgramInv => ProgramsConsistent
  BY DEF ProgramInv, ProgramsConsistent, Port
<1>. QED BY <1>1, <1>2, <1>3, SetupInvariant, TypeInvariant, PTL DEF Spec
=============================================================================

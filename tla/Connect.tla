------------------------------ MODULE Connect -------------------------------
(***************************************************************************)
(* How a tunnel is set up, from a DomainFronting configuration to the      *)
(* ProxyConnection whose life Client describes: proxy_config (src/lib.rs), *)
(* the connect functions of ProxyConfig (src/client.rs), the TLS handshake *)
(* (src/tls_stream.rs), and the two client programs that call them.        *)
(*                                                                         *)
(* HTTP/1.1 takes two streams, HTTP/2 one.  Any step of any stream may     *)
(* fail, which ends the set-up with an error and drops all streams.        *)
(***************************************************************************)
EXTENDS Naturals, Sequences

CONSTANTS
    Hosts,  \* hosts a front may name
    Ports,  \* explicit ports a front may name
    Addrs,  \* IP addresses
    None    \* absence of a value

ASSUME ConnectAssumption ==
    /\ Ports \subseteq Nat
    /\ None \notin Hosts \cup Ports \cup Addrs
    /\ None \notin {"http", "https", "h2", "http/1.1", "ok", "MisconfiguredAlpn"}

VARIABLES
    user,     \* who sets up the tunnel
    front,    \* DomainFronting::front
    addr,     \* ProxyConfig::addr
    call,     \* the connect function called, with the ALPN list of its TLS configuration
    stage,    \* what is awaited
    opened,   \* streams that are connected
    secured,  \* for each TLS session in turn, the protocol it has negotiated
    shaken,   \* streams with a completed HTTP handshake
    outcome   \* None, "ok" or the error

vars == <<user, front, addr, call, stage, opened, secured, shaken, outcome>>

Users   == {"library", "example", "stdio", "stdio_http2"}
Fronts  == [scheme : {"http", "https", None}, host : Hosts \cup {None}, port : Ports \cup {None}]
Alpn    == {"h2", "http/1.1"}
Stages  == {"resolve", "call", "tcp", "alpn", "tls", "http", "end"}
Errors  == {"Dns", "EmptyDnsResponse", "Connection", "MisconfiguredAlpn", "Tls", "Hyper", "bail", "panic"}

\* A call: HTTP version, whether over TLS, whether on streams that the caller
\* provides, and the ALPN list.  Plain HTTP/2 only exists on such streams.
Calls ==
    { c \in [http : {1, 2}, tls : BOOLEAN, provided : BOOLEAN, alpn : SUBSET Alpn] :
          c.tls \/ (c.alpn = {} /\ (c.http = 2 => c.provided)) }

Init ==
    /\ user \in Users /\ front \in Fronts
    /\ addr = None /\ call = None /\ stage = "resolve"
    /\ opened = 0 /\ secured = <<>> /\ shaken = {} /\ outcome = None

Fail(error) == stage' = "end" /\ outcome' = error

-----------------------------------------------------------------------------
(* DomainFronting.                                                         *)

\* TLS unless HTTP is asked for.
Tls == front.scheme # "http"

\* Mutant: there is no default.
PortNoDefault == front.port

Port == IF front.port # None THEN front.port ELSE IF Tls THEN 443 ELSE 80

\* proxy_config takes the first address the resolver finds.
Resolve(addrs) ==
    /\ stage = "resolve" /\ addrs # <<>>
    /\ addr' = [ip |-> Head(addrs), port |-> Port]
    /\ stage' = "call"
    /\ UNCHANGED <<user, front, call, opened, secured, shaken, outcome>>

ResolveErr(error) ==
    /\ stage = "resolve" /\ error \in {"Dns", "EmptyDnsResponse"}
    /\ Fail(error)
    /\ UNCHANGED <<user, front, addr, call, opened, secured, shaken>>

\* DefaultDnsResolver::resolve calls block_in_place, which panics on a
\* runtime of one thread; the client programs have one of several.
ResolvePanics ==
    /\ stage = "resolve" /\ user = "library"
    /\ Fail("panic")
    /\ UNCHANGED <<user, front, addr, call, opened, secured, shaken>>

-----------------------------------------------------------------------------
(* The callers.                                                            *)

Https(version, alpn) == [http |-> version, tls |-> TRUE, provided |-> FALSE, alpn |-> alpn]

PlainHttp == [http |-> 1, tls |-> FALSE, provided |-> FALSE, alpn |-> {}]

\* domain_fronting: HTTP/1.1.
ExampleCall == IF Tls THEN Https(1, {}) ELSE PlainHttp

\* Mutant: the ALPN list is left empty.
StdioCallNoAlpn ==
    IF ~Tls THEN PlainHttp ELSE IF user = "stdio_http2" THEN Https(2, {}) ELSE Https(1, {})

\* domain_fronting_stdio, with or without --http2.
StdioCall ==
    IF ~Tls THEN PlainHttp ELSE IF user = "stdio_http2" THEN Https(2, {"h2"}) ELSE Https(1, {})

Call(c) ==
    /\ stage = "call"
    /\ ~(user = "stdio_http2" /\ ~Tls)
    /\ CASE user = "library" -> TRUE
         [] user = "example" -> c = ExampleCall
         [] OTHER            -> c = StdioCall
    /\ call' = c
    /\ stage' = IF c.provided THEN "alpn" ELSE "tcp"
    /\ UNCHANGED <<user, front, addr, opened, secured, shaken, outcome>>

\* "HTTP/2 requires TLS"
StdioBail ==
    /\ stage = "call" /\ user = "stdio_http2" /\ ~Tls
    /\ Fail("bail")
    /\ UNCHANGED <<user, front, addr, call, opened, secured, shaken>>

-----------------------------------------------------------------------------
(* ProxyConfig::connect_* and ProxyConnection::*_from_stream(s).           *)

Streams == IF call.http = 1 THEN 2 ELSE 1

\* TcpStream::connect(self.addr), for one stream after the other.
TcpConnect ==
    /\ stage = "tcp"
    /\ opened' = opened + 1
    /\ stage' = IF opened' = Streams THEN "alpn" ELSE "tcp"
    /\ UNCHANGED <<user, front, addr, call, secured, shaken, outcome>>

TcpErr ==
    /\ stage = "tcp"
    /\ Fail("Connection")
    /\ UNCHANGED <<user, front, addr, call, opened, secured, shaken>>

\* Mutant: only HTTP/2 is checked.
AlpnMatchesHttp2Only == call.http = 2 => "h2" \in call.alpn

\* The ALPN list has h2 if and only if HTTP/2 will be spoken.
AlpnMatches == (call.http = 2) <=> ("h2" \in call.alpn)

\* Mutant: HTTP/1.1 goes on with the streams it was given, without TLS.
AfterAlpnPlain == IF call.tls /\ call.http = 2 THEN "tls" ELSE "http"

AfterAlpn == IF call.tls THEN "tls" ELSE "http"

\* The *_over_stream(s) functions begin here, on all their streams.
CheckAlpn ==
    /\ stage = "alpn"
    /\ opened' = Streams
    /\ IF call.tls /\ ~AlpnMatches
       THEN Fail("MisconfiguredAlpn")
       ELSE stage' = AfterAlpn /\ UNCHANGED outcome
    /\ UNCHANGED <<user, front, addr, call, secured, shaken>>

\* TlsStream::connect_with_config for the next stream.  The host of the front
\* must be a server name; the server picks a protocol of the list, or none.
TlsConnect(protocol) ==
    /\ stage = "tls" /\ front.host # None
    /\ protocol \in call.alpn \cup {None}
    /\ secured' = Append(secured, protocol)
    /\ stage' = IF Len(secured') = Streams THEN "http" ELSE "tls"
    /\ UNCHANGED <<user, front, addr, call, opened, shaken, outcome>>

TlsErr ==
    /\ stage = "tls"
    /\ Fail("Tls")
    /\ UNCHANGED <<user, front, addr, call, opened, secured, shaken>>

\* The HTTP handshakes; the two of HTTP/1.1 run concurrently (try_join).
\* After the last one start_proxy spawns the I/O task.
Handshake(i) ==
    /\ stage = "http" /\ i \in 1..Streams /\ i \notin shaken
    /\ shaken' = shaken \cup {i}
    /\ IF shaken' = 1..Streams
       THEN stage' = "end" /\ outcome' = "ok"
       ELSE UNCHANGED <<stage, outcome>>
    /\ UNCHANGED <<user, front, addr, call, opened, secured>>

HandshakeErr ==
    /\ stage = "http"
    /\ Fail("Hyper")
    /\ UNCHANGED <<user, front, addr, call, opened, secured, shaken>>

Next ==
    \/ \E a, b \in Addrs : Resolve(<<a, b>>)
    \/ \E e \in Errors : ResolveErr(e)
    \/ ResolvePanics
    \/ \E c \in Calls : Call(c)
    \/ StdioBail
    \/ TcpConnect \/ TcpErr \/ CheckAlpn
    \/ \E p \in Alpn \cup {None} : TlsConnect(p)
    \/ TlsErr
    \/ \E i \in 1..2 : Handshake(i)
    \/ HandshakeErr

Spec == Init /\ [][Next]_vars

-----------------------------------------------------------------------------
\* Every variable has its type; in particular the address has a port even if
\* the front has none.
TypeOK ==
    /\ user \in Users /\ front \in Fronts /\ stage \in Stages
    /\ addr \in [ip : Addrs, port : Ports \cup {80, 443}] \cup {None}
    /\ call \in Calls \cup {None}
    /\ opened \in 0..2 /\ shaken \subseteq 1..2
    /\ secured \in Seq(Alpn \cup {None})
    /\ outcome \in Errors \cup {"ok", None}

Up == outcome = "ok"

\* A tunnel never speaks HTTP/1.1 on a TLS session that has negotiated HTTP/2,
\* whatever the caller's TLS configuration and the server's choice.
NoHttp1OverH2 == Up /\ call.http = 1 => \A k \in 1..Len(secured) : secured[k] # "h2"

\* A tunnel over TLS has a TLS session on each of its streams, one over plain
\* HTTP on none: no direction of an HTTP/1.1 tunnel is left in the clear.
EveryStreamSecured == Up => Len(secured) = (IF call.tls THEN opened ELSE 0)

\* The client programs use TLS, and the port of HTTPS by default, unless the
\* front asks for HTTP, and they never trip over their own ALPN list.
ProgramsConsistent ==
    user # "library" =>
        /\ outcome # "MisconfiguredAlpn"
        /\ Up => /\ call.tls <=> Tls
                 /\ front.port = None => addr.port = (IF call.tls THEN 443 ELSE 80)
=============================================================================

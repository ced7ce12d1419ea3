---------------------------- MODULE MCHandshake ----------------------------
(* Greetings and requests as SOCKS browsers send them, and what browsers   *)
(* say that use an HTTP proxy.                                             *)
EXTENDS HttpRelay

NoAuth == <<5, 1, 0>>
NoAuthOrPassword == <<5, 2, 0, 2>>

Request(cmd, atyp, rest) == <<5, cmd, 0, atyp>> \o rest

Ipv4V ==
    { Request(1, 1, <<93, 184, 216, 34, hi, lo>>) : hi \in {0, 1, 255}, lo \in {0, 80} }
DomainV ==
    { Request(1, 3, <<n>> \o [i \in 1..n |-> 96 + i] \o <<1, 187>>) : n \in {1, 2, 11} }
Ipv6V == { Request(1, 4, [i \in 1..18 |-> i]) }

OneOrTwoMethods == {NoAuth, NoAuthOrPassword}
Connects == Ipv4V \cup DomainV \cup Ipv6V
LeftoversV == {0, 1, 2, 3, 5, 8}

-----------------------------------------------------------------------------
Tokens(kind, s) == [i \in DOMAIN s |-> Token(kind, <<s[i]>>)]
Line(name, value) == Tokens("name", name) \o Tokens("value", value) \o <<Eol>>
Start(start, url) == <<Token("start", <<start>>)>> \o Tokens("url", url) \o <<Eol>>
Bytes2 == Tokens("byte", <<"x", "y">>)

HostLine == Line(<<"Ho", "st">>, <<"a">>)
HostPortLine == Line(<<"Ho", "st">>, <<"b", ":", "8", "1">>)

Get == Start("GET", <<"http://a", "/p">>) \o HostLine \o <<Eol>>
GetOther == Start("GET", <<"/q">>) \o HostPortLine \o <<Eol>>
GetNoHost == Start("GET", <<"/q">>) \o <<Eol>>
Post == Start("POST", <<"http://a", "/p">>) \o Line(<<"Length">>, <<"2">>)
        \o HostLine \o <<Eol>> \o Bytes2
PostChunked == Start("POST", <<"/p">>) \o HostLine \o Line(<<"Chunked">>, <<"yes">>)
        \o <<Eol, Token("size", <<"2">>)>> \o Bytes2
        \o <<Token("size", <<"1">>), Token("byte", <<"z">>), Token("size", <<"0">>)>>
        \o Line(<<"Trail">>, <<"er">>) \o <<Eol>>
Connect == Start("CONNECT", <<"b", ":", "8", "1">>) \o <<Eol>>
Garbage == Start("GET", <<"/p">>) \o Bytes2

HostA == [host |-> <<"a">>, port |-> 80]
HostB == [host |-> <<"b">>, port |-> 81]

Ok(lines, rest) == Start("200", <<>>) \o lines \o <<Eol>> \o rest
OkLength == Ok(Line(<<"Length">>, <<"2">>) \o Line(<<"X", "-Y">>, <<"1">>), Bytes2)
OkChunked == Ok(Line(<<"Chunked">>, <<"yes">>),
                <<Token("size", <<"2">>)>> \o Bytes2 \o <<Token("size", <<"0">>), Eol>>)
OkUntilClosed == Ok(<<>>, Bytes2 \o Bytes2)
NotModified == Start("304", <<>>) \o <<Eol>>

Talk(requests, hosts, responses) ==
    [requests |-> requests, hosts |-> hosts, responses |-> responses]

TalksV ==
    { Talk(Get, <<HostA>>, OkUntilClosed),
      Talk(Get \o GetOther, <<HostA, HostB>>, OkLength \o OkChunked),
      Talk(Post \o Get, <<HostA, HostA>>, NotModified \o OkLength),
      Talk(PostChunked \o GetOther, <<HostA, HostB>>, OkChunked \o OkLength),
      Talk(Connect, <<HostB>>, <<>>),
      Talk(GetNoHost, <<>>, <<>>),
      Talk(Get \o Garbage, <<HostA>>, OkLength \o Bytes2),
      Talk(Garbage, <<>>, <<>>) }
=============================================================================

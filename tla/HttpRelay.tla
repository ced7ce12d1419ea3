----------------------------- MODULE HttpRelay -----------------------------
(***************************************************************************)
(* A browser that uses the client as an HTTP proxy.  Handshake finds that  *)
(* its first byte opens no SOCKS greeting; from then on each chunk goes to *)
(* HttpParser (common/include/http_parse.h), which finds the host to ask   *)
(* for.  The server's HttpSession parses the request again and writes it   *)
(* anew for the target, and the client does the same with the response.    *)
(*                                                                         *)
(* A message is a sequence of tokens <<kind, pieces>>, and chunks end      *)
(* between any two of them: a URL, a name and a value have several pieces, *)
(* so that each may be cut.  llhttp, which HttpParser wraps, is not in     *)
(* src; it is modelled by the callbacks that HttpParser expects of it.     *)
(* Chunks arrive in the order they were sent: Tunnel models how.           *)
(***************************************************************************)
EXTENDS Handshake, Integers, SequencesExt, FiniteSetsExt, TLC

CONSTANTS
    Talks,   \* what browsers say, the hosts they mean, and what they are told:
             \* [requests, hosts, responses]
    MaxCuts  \* bound: how often a chunk ends before all that was sent

ASSUME MaxCutsIsNat == MaxCuts \in Nat

Unbounded == 99   \* more than any body of Talks

VARIABLES
    unread,     \* sent by the browser and not yet read by the client
    said,       \* history: all that the browser says
    asked,      \* http_request_parser_ of the client
    pending,    \* pending_buf_
    syns,       \* the targets of the SYN frames, in order
    server,     \* http_parse_request_ of the server
    toTarget,   \* written to the target
    answer,     \* what the target will say
    unsent,     \* said by the target and not yet read by the server
    answered,   \* http_response_parser_ of the client
    toBrowser,  \* written to the browser
    shut,       \* the browser's connection was closed
    lost,       \* history: a chunk was read and dropped
    piped,      \* history: a chunk held two requests
    cuts        \* how often a chunk ended early

httpVars == <<unread, said, asked, pending, syns, server, toTarget, answer,
              unsent, answered, toBrowser, shut, lost, piped, cuts>>
socksVars == <<input, request, read_buf, whole>>
allVars == <<sessionVars, httpVars>>

Token(kind, pieces) == <<kind, pieces>>
Eol == Token("eol", <<>>)
Established == <<200>>
BadGateway == <<502>>

(* stoi, of the digits of a port or a length.                              *)
Digit == ("0" :> 0) @@ ("1" :> 1) @@ ("2" :> 2) @@ ("3" :> 3) @@ ("4" :> 4) @@
         ("8" :> 8)
stoi(s) == FoldLeft(LAMBDA n, d : 10 * n + Digit[d], 0, s)

-----------------------------------------------------------------------------
(* HttpParser: its fields, and where llhttp is in the message.             *)

NewMessage == [start |-> <<>>, target |-> <<>>, headers |-> <<>>]

NewParser(type) ==
    [type |-> type, at |-> "start", line |-> FALSE, left |-> 0, span |-> <<>>,
     message |-> NewMessage, name |-> <<>>, value |-> <<>>, in_value |-> FALSE,
     chunked |-> FALSE, error |-> FALSE, paused |-> FALSE, events |-> <<>>]

get_header(m, name) ==
    LET Named == {i \in DOMAIN m.headers : m.headers[i][1] = name}
    IN  IF Named = {} THEN <<>> ELSE m.headers[Min(Named)][2]

has_header(m, name) == \E i \in DOMAIN m.headers : m.headers[i][1] = name

Emit(p, event) == [p EXCEPT !.events = Append(@, event)]

on_message_begin(p, start) ==
    [p EXCEPT !.message = [NewMessage EXCEPT !.start = start],
              !.name = <<>>, !.value = <<>>, !.in_value = FALSE, !.at = "url"]

on_url(p, piece) == [p EXCEPT !.message.target = @ \o piece]

(* The header that ended, if a value was seen, goes to the message.        *)
Pushed(p) == [p EXCEPT !.message.headers = Append(@, <<p.name, p.value>>),
                       !.name = <<>>, !.value = <<>>, !.in_value = FALSE]

on_header_field(p, piece) ==
    [(IF p.in_value THEN Pushed(p) ELSE p) EXCEPT !.name = @ \o piece, !.line = TRUE]

on_header_value(p, piece) ==
    [p EXCEPT !.in_value = TRUE, !.value = @ \o piece]

on_body(p) ==
    IF p.span = <<>> THEN p
    ELSE [Emit(p, [is |-> "body", span |-> p.span, chunked |-> p.chunked])
            EXCEPT !.span = <<>>]

on_message_complete(p) ==
    [Emit(p, [is |-> "complete", chunked |-> p.chunked]) EXCEPT !.at = "start"]

(* What follows the headers is llhttp's to decide: chunks, a known length, *)
(* all that comes after a response, nothing, or a pause for a CONNECT.     *)
BodyFollows(p) ==
    LET m == p.message
    IN  CASE m.start = <<"CONNECT">> ->
                 [on_message_complete(p) EXCEPT !.paused = TRUE]
          [] p.chunked -> [p EXCEPT !.at = "size"]
          [] has_header(m, <<"Length">>) /\ stoi(get_header(m, <<"Length">>)) > 0 ->
                 [p EXCEPT !.at = "body", !.left = stoi(get_header(m, <<"Length">>))]
          [] /\ p.type = "Response" /\ ~has_header(m, <<"Length">>)
             /\ m.start \notin {<<"204">>, <<"304">>} ->
                 [p EXCEPT !.at = "body", !.left = Unbounded]
          [] OTHER -> on_message_complete(p)

on_headers_complete(p) ==
    LET q == IF p.name # <<>> \/ p.in_value THEN Pushed(p) ELSE p
        r == [q EXCEPT !.chunked = has_header(q.message, <<"Chunked">>)]
    IN  BodyFollows(Emit(r, [is |-> "headers", message |-> r.message]))

(* A byte of the body; the last one of a body or of a chunk ends its span. *)
BodyByte(p, piece) ==
    LET q == [p EXCEPT !.span = @ \o piece, !.left = @ - 1]
    IN  IF q.left > 0 THEN q
        ELSE IF p.at = "body" THEN on_message_complete(on_body(q))
        ELSE [on_body(q) EXCEPT !.at = "size"]

llhttp_execute(p, token) ==
    LET kind == token[1]
        piece == token[2]
    IN  CASE p.error \/ p.paused -> p
          [] p.at = "start" /\ kind = "start" -> on_message_begin(p, piece)
          [] p.at = "url" /\ kind = "url" -> on_url(p, piece)
          [] p.at = "url" /\ kind = "eol" -> [p EXCEPT !.at = "headers"]
          [] p.at \in {"headers", "trailers"} /\ kind = "name" ->
                 on_header_field(p, piece)
          [] p.at \in {"headers", "trailers"} /\ kind = "value" /\ p.line ->
                 on_header_value(p, piece)
          [] p.at \in {"headers", "trailers"} /\ kind = "eol" /\ p.line ->
                 [p EXCEPT !.line = FALSE]
          [] p.at = "headers" /\ kind = "eol" -> on_headers_complete(p)
          [] p.at = "trailers" /\ kind = "eol" -> on_message_complete(p)
          [] p.at = "size" /\ kind = "size" ->
                 [p EXCEPT !.at = IF stoi(piece) = 0 THEN "trailers" ELSE "data",
                           !.left = stoi(piece)]
          [] p.at \in {"body", "data"} /\ kind = "byte" -> BodyByte(p, piece)
          [] OTHER -> [Emit(p, [is |-> "error"]) EXCEPT !.error = TRUE]

(* feed: the callbacks of a chunk, in order.  What follows a pause is kept *)
(* in remaining_after_upgrade_, which nobody takes.                        *)
feed(p, chunk) ==
    LET q == on_body(FoldLeft(llhttp_execute, [p EXCEPT !.events = <<>>], chunk))
    IN  IF q.paused THEN [q EXCEPT !.paused = FALSE] ELSE q

-----------------------------------------------------------------------------
(* Writing a message anew.                                                 *)

(* Of an absolute URL the scheme and the host are dropped.                 *)
ToOriginForm(url) ==
    CASE url = <<>> -> <<"/">>
      [] url[1] = "http://a" -> IF Len(url) = 1 THEN <<"/">> ELSE Tail(url)
      [] OTHER -> url

serialize_headers_only(m) ==
    <<Token("start", m.start)>>
    \o (IF m.target = <<>> THEN <<>> ELSE <<Token("url", m.target)>>)
    \o <<Eol>>
    \o FlattenSeq([i \in DOMAIN m.headers |->
           <<Token("name", m.headers[i][1]), Token("value", m.headers[i][2]), Eol>>])
    \o <<Eol>>

(* The size of a span that is a chunk, in figures.                         *)
SizeOf(span) == <<CHOOSE d \in DOMAIN Digit : Digit[d] = Len(span)>>

Bare(span) == [i \in DOMAIN span |-> Token("byte", <<span[i]>>)]

\* Faulty: a span is sent as it is, without its size.
BodyUnsized(span, chunked) == Bare(span)

Body(span, chunked) ==
    IF chunked THEN <<Token("size", SizeOf(span))>> \o Bare(span) ELSE Bare(span)

(* on_headers_complete, on_body and on_message_complete as HttpSession and *)
(* the client's response parser set them.                                  *)
Written(out, e) ==
    CASE e.is = "headers" -> out \o serialize_headers_only(e.message)
      [] e.is = "body" -> out \o Body(e.span, e.chunked)
      [] e.is = "complete" /\ e.chunked -> out \o <<Token("size", <<"0">>), Eol>>
      [] OTHER -> out

WithOriginForm(events) ==
    [i \in DOMAIN events |->
        IF events[i].is = "headers"
        THEN [events[i] EXCEPT !.message.target = ToOriginForm(@)]
        ELSE events[i]]

Failed(p) == \E i \in DOMAIN p.events : p.events[i].is = "error"

-----------------------------------------------------------------------------
HttpInit ==
    /\ SocksInit
    /\ unread = <<>> /\ said = <<>> /\ pending = <<>> /\ syns = <<>>
    /\ toTarget = <<>> /\ answer = <<>> /\ unsent = <<>> /\ toBrowser = <<>>
    /\ asked = NewParser("Request")
    /\ server = NewParser("Request")
    /\ answered = NewParser("Response")
    /\ shut = FALSE /\ lost = FALSE /\ piped = FALSE /\ cuts = 0

(* The browser does not speak SOCKS; a CONNECT is the last thing it says   *)
(* in HTTP.                                                                *)
BrowserSpeaksHttp ==
    /\ browser = "greets"
    /\ read_buf[0] = Min(Leftovers)   \* nothing below looks at read_buf
    /\ browser' = "http"
    /\ \E t \in Talks : /\ unread' = t.requests /\ said' = t.requests
                        /\ answer' = t.responses
    /\ UNCHANGED <<socksVars, phase, protocol, target, replies, asked, pending, syns,
                   server, toTarget, unsent, answered, toBrowser, shut, lost, piped, cuts>>

\* Faulty: the host of the URL, and always the default port.
HostOfUrl(m) ==
    [host |-> IF m.target # <<>> /\ m.target[1] = "http://a" THEN <<"a">>
              ELSE get_header(m, <<"Ho", "st">>),
     port |-> 80]

(* on_headers_complete of the request parser: the host the browser names,  *)
(* then request_remote_connect.  A request without one closes the socket.  *)
HostOf(m) ==
    LET s == IF m.start = <<"CONNECT">> THEN m.target ELSE get_header(m, <<"Ho", "st">>)
        Colons == {i \in DOMAIN s : s[i] = ":"}
    IN  IF Colons = {} THEN [host |-> s, port |-> 80]
        ELSE [host |-> SubSeq(s, 1, Min(Colons) - 1),
              port |-> stoi(SubSeq(s, Min(Colons) + 1, Len(s)))]

OnRequest(s, e) ==
    CASE e.is = "headers" /\ HostOf(e.message).host = <<>> -> [s EXCEPT !.shut = TRUE]
      [] e.is = "headers" ->
             [s EXCEPT !.syns = Append(@, HostOf(e.message)), !.phase = "Connecting",
                       !.protocol = IF e.message.start = <<"CONNECT">>
                                    THEN "HttpsConnect" ELSE "HttpPlain"]
      [] e.is = "error" -> [s EXCEPT !.shut = TRUE]
      [] OTHER -> s

Cuts(n, all) ==
    /\ cuts' = IF n < Len(all) THEN cuts + 1 ELSE cuts
    /\ cuts' <= MaxCuts

Taken(n) == SubSeq(unread, 1, n)

ReadsHttp(n) ==
    /\ browser = "http" /\ ~shut
    /\ n \in 1..Len(unread)
    /\ unread' = SubSeq(unread, n + 1, Len(unread))
    /\ Cuts(n, unread)

(* consume_pending: the first chunk ends the greeting, each is parsed, and *)
(* kept only then.                                                         *)
ReadRequest(n) ==
    /\ phase \in {"WaitGreetingVersion", "WaitHttpRequestHeaders"}
    /\ ReadsHttp(n)
    /\ LET p == feed(asked, Taken(n))
           s == FoldLeft(OnRequest, [syns |-> syns, phase |-> "WaitHttpRequestHeaders",
                                     protocol |-> protocol, shut |-> shut], p.events)
       IN  /\ asked' = p
           /\ syns' = s.syns /\ phase' = s.phase
           /\ protocol' = s.protocol /\ shut' = s.shut
           /\ target' = IF s.syns = <<>> THEN target ELSE Last(s.syns)
    /\ pending' = Append(pending, Taken(n))
    /\ piped' = (piped \/ \E i \in 2..n : unread[i][1] = "start")
    /\ UNCHANGED <<browser, socksVars, replies, said, server, toTarget, answer, unsent,
                   answered, toBrowser, lost>>

(* A chunk that is read before the SYNACK arrives is dropped.              *)
ReadTooEarly(n) ==
    /\ phase = "Connecting"
    /\ ReadsHttp(n)
    /\ lost' = TRUE
    /\ UNCHANGED <<browser, socksVars, phase, protocol, target, replies, said, asked,
                   pending, syns, server, toTarget, answer, unsent, answered, toBrowser,
                   shut, piped>>

(* HttpSession::revP2pData: the chunks of DATA frames go to the target.    *)
http_revP2pData(chunks) ==
    LET Received(s, chunk) ==
            LET p == feed(s.parser, chunk)
            IN  [parser |-> p, bad |-> s.bad \/ Failed(p),
                 out |-> FoldLeft(Written, s.out, WithOriginForm(p.events))]
        s == FoldLeft(Received, [parser |-> server, out |-> toTarget, bad |-> FALSE],
                      chunks)
    IN  /\ server' = s.parser
        /\ toTarget' = s.out
        /\ shut' = (shut \/ s.bad)

(* process_data of a session that is Connected.                            *)
ReadMore(n) ==
    /\ phase = "Connected" /\ protocol = "HttpPlain"
    /\ ReadsHttp(n)
    /\ http_revP2pData(<<Taken(n)>>)
    /\ UNCHANGED <<browser, socksVars, phase, protocol, target, replies, said, asked,
                   pending, syns, answer, unsent, answered, toBrowser, lost, piped>>

(* p2p_synack: http_connected sends what was kept, https_connected only    *)
(* says so to the browser.                                                 *)
HttpConnected ==
    /\ browser = "http" /\ phase = "Connecting" /\ ~shut
    /\ phase' = "Connected"
    /\ IF protocol = "HttpPlain"
       THEN /\ http_revP2pData(pending)
            /\ pending' = <<>>
            /\ UNCHANGED replies
       ELSE /\ replies' = Append(replies, Established)
            /\ UNCHANGED <<pending, server, toTarget, shut>>
    /\ UNCHANGED <<browser, socksVars, protocol, target, unread, said, asked, syns,
                   answer, unsent, answered, toBrowser, lost, piped, cuts>>

HttpRefused ==
    /\ browser = "http" /\ phase = "Connecting" /\ ~shut
    /\ phase' = "Closed"
    /\ replies' = Append(replies, BadGateway)
    /\ shut' = TRUE
    /\ UNCHANGED <<browser, socksVars, protocol, target, unread, said, asked, pending,
                   syns, server, toTarget, answer, unsent, answered, toBrowser, lost, piped, cuts>>

(* The target may answer as soon as it was told something.                 *)
TargetAnswers ==
    /\ toTarget # <<>> /\ answer # <<>> /\ ~shut
    /\ answer' = <<>>
    /\ unsent' = answer
    /\ UNCHANGED <<sessionVars, unread, said, asked, pending, syns, server, toTarget,
                   answered, toBrowser, shut, lost, piped, cuts>>

(* p2p_data: the client parses the response and writes it anew.            *)
Relay(n) ==
    /\ ~shut /\ n \in 1..Len(unsent)
    /\ unsent' = SubSeq(unsent, n + 1, Len(unsent))
    /\ Cuts(n, unsent)
    /\ LET p == feed(answered, SubSeq(unsent, 1, n))
       IN  /\ answered' = p
           /\ toBrowser' = FoldLeft(Written, toBrowser, p.events)
           /\ shut' = Failed(p)
    /\ UNCHANGED <<sessionVars, unread, said, asked, pending, syns, server, toTarget,
                   answer, lost, piped>>

HttpNext ==
    \/ SocksNext /\ UNCHANGED httpVars
    \/ BrowserSpeaksHttp \/ HttpConnected \/ HttpRefused \/ TargetAnswers
    \/ \E n \in 1..Len(unread) : ReadRequest(n) \/ ReadTooEarly(n) \/ ReadMore(n)
    \/ \E n \in 1..Len(unsent) : Relay(n)

HttpSpec == HttpInit /\ [][HttpNext]_allVars

-----------------------------------------------------------------------------
(* Properties.                                                             *)

(* What a stream says, whatever its pieces and chunks: a chunk's size is   *)
(* no part of it, and what follows the last chunk is left out.             *)
InTrailers(s, i) ==
    LET Ends == {j \in 1..(i - 1) : s[j] = Token("size", <<"0">>)}
    IN  Ends # {} /\ \A j \in Max(Ends)..i : s[j][1] # "start"

Said(s) ==
    LET Units(i) ==
            CASE InTrailers(s, i) -> <<>>
              [] s[i] = Token("size", <<"0">>) \/ s[i] = Eol -> <<s[i]>>
              [] s[i][1] = "size" -> <<>>
              [] OTHER -> [k \in DOMAIN s[i][2] |-> Token(s[i][1], <<s[i][2][k]>>)]
    IN  FlattenSeq([i \in DOMAIN s |-> Units(i)])

InOriginForm(s) == SelectSeq(s, LAMBDA t : t # Token("url", <<"http://a">>))

(* Every size is followed by as many bytes, and in a message whose headers *)
(* announce chunks every byte is part of one.                              *)
HeadOf(s, i) == Max({j \in 1..i : s[j][1] = "start"})

IsWellChunked(s) ==
    /\ \A i \in DOMAIN s : s[i][1] = "size" =>
          LET n == stoi(s[i][2])
          IN  /\ i + n <= Len(s)
              /\ \A j \in (i + 1)..(i + n) : s[j][1] = "byte"
              /\ i + n < Len(s) => s[i + n + 1][1] # "byte"
    /\ \A i \in DOMAIN s :
          (s[i][1] = "byte" /\ \E j \in HeadOf(s, i)..i : s[j] = Token("name", <<"Chunked">>))
             => \E j \in HeadOf(s, i)..i : s[j][1] = "size" /\ i - j <= stoi(s[j][2])

(* However the request is cut into chunks, the target is told what the     *)
(* browser said, in origin form, unless a chunk was dropped; and all of it *)
(* once everything is read (HttpParser, HttpSession, pending_buf_).        *)
TargetIsToldTheRequest ==
    (~lost /\ protocol # "HttpsConnect" /\ syns # <<>>) =>
        LET want == InOriginForm(Said(said))
        IN  /\ IsPrefix(Said(toTarget), want)
            /\ IsWellChunked(toTarget)
            /\ (phase = "Connected" /\ unread = <<>> /\ ~shut) => Said(toTarget) = want

(* And the browser is told what the target said (http_response_parser_).   *)
BrowserIsToldTheResponse ==
    (toBrowser # <<>> /\ answer = <<>>) =>
        \E t \in Talks :
            /\ t.requests = said
            /\ IsPrefix(Said(toBrowser), Said(t.responses))
            /\ IsWellChunked(toBrowser)
            /\ (unsent = <<>> /\ ~shut) => Said(toBrowser) = Said(t.responses)

(* So neither side can tell how the other's words were cut and packed.     *)
RelaysWhatIsSaid == TargetIsToldTheRequest /\ BrowserIsToldTheResponse

(* The hosts asked for are those the browser means, from its first request *)
(* on, and it has one stream, unless a chunk brought more than one request *)
(* before the first was asked for: then each takes a stream, and those     *)
(* before the last are never used (on_headers_complete of the requests).   *)
HostsAreAsked ==
    browser = "http" =>
        /\ \E t \in Talks : t.requests = said /\ IsPrefix(syns, t.hosts)
        /\ Len(syns) > 1 => piped
=============================================================================

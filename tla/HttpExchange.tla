---------------------------- MODULE HttpExchange ----------------------------
(***************************************************************************)
(* One connection of an Engine, from a client's requests to the answers it *)
(* reads: http_parser::parse_packet, Engine::ServeHTTP, Context, Router    *)
(* and http_response, on text.                                             *)
(*                                                                         *)
(* Text is a sequence of tokens: words, blanks, colons, and the two        *)
(* characters of a line end, which a packet may separate.  Packets cut the *)
(* text anywhere.  Requests are well-formed; a field of one is a sequence  *)
(* of words.  An answer reaches the client whole (how it is sent is        *)
(* ThreadWorker's part), and the client reads it by its Content-Length.    *)
(*                                                                         *)
(* The router exists.  Engine does not make one: see the README.           *)
(***************************************************************************)
EXTENDS Naturals, Sequences, FiniteSets, SequencesExt

CONSTANTS
    Requests,     \* the requests a client may send
    Handlers,     \* the handlers: code, content type and text of the answer
    Paths,        \* the paths that handlers may be registered for
    MaxRequests,  \* a client sends at most so many requests
    MaxPacket     \* a receive returns at most so many tokens

ASSUME BoundsAssumption == MaxRequests \in Nat /\ MaxPacket \in Nat \ {0}

SP == " "
CR == "\r"
LF == "\n"
COLON == ":"
CRLF == <<CR, LF>>

VARIABLES
    routes,            \* handlers_ of the router
    running,           \* Engine::Run has been called
    sent,              \* the requests the client has sent
    pending,           \* their text that the server has not received
    raw_http_request,  \* the parser's text
    parsed,            \* the requests given to the engine
    wire,              \* the text of answers that the client has not read
    answers            \* what the client has read

vars == <<routes, running, sent, pending, raw_http_request, parsed, wire, answers>>

Init ==
    /\ routes = [k \in {} |-> CHOOSE h \in Handlers : TRUE]
    /\ running = FALSE
    /\ sent = <<>>
    /\ pending = <<>>
    /\ raw_http_request = <<>>
    /\ parsed = <<>>
    /\ wire = <<>>
    /\ answers = <<>>

-----------------------------------------------------------------------------
(* The parser *)

(* The numbers of a finite set, the smallest first. *)
Rank(S, i) == Cardinality({j \in S : j <= i})

Ascending(S) == [k \in 1 .. Cardinality(S) |-> CHOOSE i \in S : Rank(S, i) = k]

(* The places of a delimiter in a text. *)
Places(s, delimiter) ==
    {i \in 1 .. Len(s) - Len(delimiter) + 1 :
        SubSeq(s, i, i + Len(delimiter) - 1) = delimiter}

(* The segments between the occurrences of a delimiter that cannot overlap *)
(* itself.                                                                 *)
split(s, delimiter) ==
    LET ends == Ascending(Places(s, delimiter))
        From(k) == IF k = 1 THEN 1 ELSE ends[k - 1] + Len(delimiter)
        To(k) == IF k > Len(ends) THEN Len(s) ELSE ends[k] - 1
    IN  [k \in 1 .. Len(ends) + 1 |-> SubSeq(s, From(k), To(k))]

trim_whitespace(s) ==
    LET solid == {i \in 1 .. Len(s) : s[i] \notin {SP, CR, LF}}
    IN  IF solid = {} THEN <<>> ELSE SubSeq(s, Min(solid), Max(solid))

Complete(s) == IsSuffix(CRLF \o CRLF, s)

Header(line) == <<line[1], trim_whitespace(line[2])>>

(* The request that a complete text is taken for. *)
Parse(s) ==
    LET lines == split(s, CRLF)
        first == split(lines[1], <<SP>>)
        fields == [k \in 1 .. Len(lines) - 1 |-> split(lines[k + 1], <<COLON>>)]
        pairs == Ascending({k \in 1 .. Len(fields) : Len(fields[k]) = 2})
    IN  [method |-> first[1], url |-> first[2], version |-> first[3],
         headers |-> [k \in 1 .. Len(pairs) |-> Header(fields[pairs[k]])]]

-----------------------------------------------------------------------------
(* http_response *)

(* A mutant: the length of the text, one short. *)
LengthOneShort(text) == ToString(Len(text) - 1)

ContentLength(text) == ToString(Len(text))

(* What a handler does with a fresh response by Context::String or HTML:   *)
(* the status is set and not its text, which is OK in every answer.        *)
Respond(h) ==
    [version |-> "HTTP/1.0", status |-> h.code, status_text |-> "OK",
     header_list |-> << <<"Content-Type", h.type>> >>, body |-> h.text]

(* send: one more header, and the text of all. *)
Serialize(r) ==
    LET Line(k, v) == <<k, COLON, v>> \o CRLF
        lines == Append(r.header_list, <<"Content-Length", ContentLength(r.body)>>)
    IN  <<r.version, SP, r.status, SP, r.status_text>> \o CRLF
        \o FlattenSeq([k \in 1 .. Len(lines) |-> Line(lines[k][1], lines[k][2])])
        \o CRLF
        \o r.body

-----------------------------------------------------------------------------
(* Router and Engine *)

(* A mutant: the method is left out of the key. *)
PathKey(method, path) == path

RouteKey(method, path) == method \o <<"-">> \o path

NotFoundHandler ==
    [code |-> "404", type |-> "text/plain", text |-> <<"<h1>404", SP, "Not Found</h1>">>]

(* Router::handle: the handler that answers. *)
Found(r) ==
    LET key == RouteKey(r.method, r.url)
    IN  IF key \in DOMAIN routes THEN routes[key] ELSE NotFoundHandler

addRoute(method, path, h) ==
    /\ ~ running
    /\ LET key == RouteKey(method, path)
       IN  routes' = [k \in DOMAIN routes \cup {key} |-> IF k = key THEN h ELSE routes[k]]
    /\ UNCHANGED <<running, sent, pending, raw_http_request, parsed, wire, answers>>

Get(path, h) == addRoute(<<"GET">>, path, h)

Post(path, h) == addRoute(<<"POST">>, path, h)

Run ==
    /\ ~ running
    /\ running' = TRUE
    /\ UNCHANGED <<routes, sent, pending, raw_http_request, parsed, wire, answers>>

(* Handlers differ from a line's end and from the names of the headers     *)
(* that are sent, and to_string writes no two lengths the same.            *)
Values == STRING \ {CR, LF, "Content-Type", "Content-Length"}

ASSUME HandlersAssumption ==
    Handlers \subseteq [code : Values, type : Values, text : Seq(STRING)]

ASSUME LengthsAssumption ==
    \A h \in Handlers \cup {NotFoundHandler} :
        /\ ToString(Len(h.text)) \in Values
        /\ \A m \in 0 .. Len(h.text) : ToString(m) = ToString(Len(h.text)) => m = Len(h.text)

ASSUME PathsAssumption == Paths \subseteq Seq(STRING)

-----------------------------------------------------------------------------
(* The client *)

Words == STRING \ {CR, LF}

(* A request as the protocol writes it, without a body: the words of the   *)
(* first line are separated by the only blanks in it, there is no colon in *)
(* the name of a header, and no blank around its value.                    *)
WellFormed(r) ==
    /\ r.method \in Seq(Words \ {SP, "-"})
    /\ r.url \in Seq(Words \ {SP})
    /\ r.version \in Seq(Words \ {SP})
    /\ r.headers \in Seq(Seq(Words \ {COLON}) \X Seq(Words))
    /\ \A k \in 1 .. Len(r.headers) :
         LET value == r.headers[k][2]
         IN  value # <<>> => value[1] # SP /\ value[Len(value)] # SP
    /\ r.body = <<>>

ASSUME RequestsAssumption == \A r \in Requests : WellFormed(r)

HeaderText(name, value) == name \o <<COLON, SP>> \o value \o CRLF

Text(r) ==
    r.method \o <<SP>> \o r.url \o <<SP>> \o r.version \o CRLF
    \o FlattenSeq([k \in 1 .. Len(r.headers) |-> HeaderText(r.headers[k][1], r.headers[k][2])])
    \o CRLF \o r.body

Send(r) ==
    /\ running
    /\ Len(sent) = Len(answers)
    /\ Len(sent) < MaxRequests
    /\ sent' = Append(sent, r)
    /\ pending' = pending \o Text(r)
    /\ UNCHANGED <<routes, running, raw_http_request, parsed, wire, answers>>

(* The client takes a head of the text, up to an empty line, and after it  *)
(* as many tokens as the head says.                                        *)
Field(head, name) == head[(CHOOSE i \in DOMAIN head : head[i] = name) + 2]

HeadLengths(s) == {n \in 4 .. Len(s) : SubSeq(s, n - 3, n) = CRLF \o CRLF}

Read ==
    /\ HeadLengths(wire) # {}
    /\ \E n \in {Min(HeadLengths(wire))} :
       \E head \in {SubSeq(wire, 1, n)}, m \in 0 .. Len(wire) - n :
         /\ ToString(m) = Field(head, "Content-Length")
         /\ answers' = Append(answers, [code |-> head[3], type |-> Field(head, "Content-Type"),
                                        text |-> SubSeq(wire, n + 1, n + m)])
         /\ wire' = SubSeq(wire, n + m + 1, Len(wire))
    /\ UNCHANGED <<routes, running, sent, pending, raw_http_request, parsed>>

-----------------------------------------------------------------------------
(* handle_client *)

(* A mutant: the text of a request is not cleared. *)
AfterRequestKeep(s) == s

AfterRequest(s) == <<>>

(* The next tokens leave the network. *)
Arrive(n) ==
    /\ n <= Len(pending)
    /\ pending' = SubSeq(pending, n + 1, Len(pending))

(* One receive: parse_packet and, if it completes a request, the answer. *)
Packet(n) ==
    /\ Arrive(n)
    /\ \E s \in {raw_http_request \o SubSeq(pending, 1, n)} :
         \/ /\ Complete(s)
            /\ \E request \in {Parse(s)} :
                 /\ parsed' = Append(parsed, request)
                 /\ wire' = wire \o Serialize(Respond(Found(request)))
            /\ raw_http_request' = AfterRequest(s)
         \/ /\ ~ Complete(s)
            /\ raw_http_request' = s
            /\ UNCHANGED <<parsed, wire>>
    /\ UNCHANGED <<routes, running, sent, answers>>

-----------------------------------------------------------------------------
Next ==
    \/ \E p \in Paths, h \in Handlers : Get(p, h) \/ Post(p, h)
    \/ Run
    \/ \E r \in Requests : Send(r)
    \/ \E n \in 1 .. MaxPacket : Packet(n)
    \/ Read

Spec == Init /\ [][Next]_vars

(* What was sent arrives, and the client reads. *)
FairSpec ==
    /\ Spec
    /\ WF_pending(\E n \in 1 .. MaxPacket : Arrive(n))
    /\ WF_vars(Read)

-----------------------------------------------------------------------------
(* What Engine::Get and Engine::Post can register. *)
Keys == {<<"GET">>, <<"POST">>} \X Paths

(* Every variable has the values the code gives it; requests are parsed    *)
(* before they are answered, and answers are whole.                        *)
TypeOK ==
    /\ DOMAIN routes \subseteq {RouteKey(k[1], k[2]) : k \in Keys}
    /\ \A k \in DOMAIN routes : routes[k] \in Handlers
    /\ running \in BOOLEAN
    /\ Range(sent) \subseteq Requests
    /\ Len(answers) <= Len(parsed)
    /\ Range(answers) \subseteq Handlers \cup {NotFoundHandler}
    /\ wire = <<>> <=> Len(answers) = Len(parsed)

(* The engine is given the requests as they were sent, each once and in    *)
(* order, wherever packets cut them: with all the headers whose values     *)
(* have no colon, in their order, and with no body                         *)
(* (http_parser.cpp:71-102).                                               *)
AsParsed(r) ==
    LET kept == Ascending({k \in 1 .. Len(r.headers) : COLON \notin Range(r.headers[k][2])})
    IN  [method |-> r.method, url |-> r.url, version |-> r.version,
         headers |-> [k \in 1 .. Len(kept) |-> r.headers[kept[k]]]]

ParsedAsSent ==
    /\ Len(parsed) <= Len(sent)
    /\ \A i \in 1 .. Len(parsed) : parsed[i] = AsParsed(sent[i])

KeyOf(r) == <<r.method, r.url>>

(* The handlers, by method and path. *)
Registered ==
    [k \in {k \in Keys : RouteKey(k[1], k[2]) \in DOMAIN routes} |-> routes[RouteKey(k[1], k[2])]]

(* The exchange implements the service: every request is answered, by the  *)
(* handler of its method and path (Router.cpp:6-17, Context.h:37-60,       *)
(* http_message.cpp:13-22).                                                *)
Service == INSTANCE HttpService WITH
    Key <- KeyOf, NotFound <- NotFoundHandler,
    routes <- Registered

ImplementsService == Service!Spec
=============================================================================

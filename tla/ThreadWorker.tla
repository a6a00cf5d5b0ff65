---------------------------- MODULE ThreadWorker ----------------------------
(***************************************************************************)
(* thread_worker (BaseNet/http_server.cpp) with the sockets it drives      *)
(* (socket.cpp) and the response it sends (http_message.h): one thread     *)
(* with its own io_uring and buffer ring, three kinds of coroutine frame   *)
(* and an event loop that resumes them.                                    *)
(*                                                                         *)
(*   accept_client    one frame, awaits the multishot accept               *)
(*   handle_client    one frame per connection, awaits a receive           *)
(*   client_socket::send  one detached frame per response, awaits a send   *)
(*                                                                         *)
(* Only the event loop runs frames, one at a time; a frame's step goes     *)
(* from the completion that resumes it to its next suspension.  Clients    *)
(* and the kernel run beside it: connections, data, resets and completions *)
(* happen between any two steps, handle_client's parsing included.         *)
(*                                                                         *)
(* A connection is used once.  What a client sends is counted in packets,  *)
(* each received by one completion; whether the parser has a complete      *)
(* request after a packet is left open.  The Engine is given a router,     *)
(* which Engine::Engine does not make, and a handler for each route that   *)
(* answers once, as Context's String and HTML do.                          *)
(***************************************************************************)
EXTENDS IoUring, BufferRing, FiniteSets

CONSTANTS
    Conns,       \* the connections clients make
    Fds,         \* the descriptors the process may have for them
    MaxPackets,  \* a client sends at most so many packets
    MaxShort,    \* a response is cut short at most so often
    Faults,      \* what goes wrong in the instance, see below
    Phantom,     \* the handler started for a failed accept
    NoFd,        \* not a descriptor of the process
    None         \* no connection

(* "reset"       a client resets its connection                            *)
(* "abort"       an accept fails: the peer has gone, or a rule refuses it  *)
(* "short"       the kernel sends a part of a response                     *)
(* "submit"      io_uring_submit_and_wait fails, as on a signal            *)
(* "eof_buffer"  the kernel gives a buffer away with an end of file        *)
FaultKinds == {"reset", "abort", "short", "submit", "eof_buffer"}

ASSUME BoundsAssumption == MaxPackets \in Nat \ {0} /\ MaxShort \in Nat
ASSUME FaultsAssumption == Faults \subseteq FaultKinds
ASSUME ConnsAssumption ==
    /\ IsFiniteSet(Conns) /\ Phantom \notin Conns /\ None \notin Conns
    /\ Phantom # None
ASSUME FdsAssumption == NoFd \notin Fds

VARIABLES
    peer,       \* the state of each client
    left,       \* packets each client may still send
    backlog,    \* connections that wait to be accepted
    file,       \* the connection behind each open descriptor, or None
    content,    \* whose bytes each buffer holds, or None
    delivered,  \* the responses the kernel sent on each connection
    loop,       \* what the event loop is doing, "dead" once it terminated
    current,    \* the handler that is parsing, and the buffer it borrowed
    live,       \* the handlers whose frame exists
    sock,       \* the descriptor in each handler's client_socket
    parsed,     \* requests parsed on each connection so far
    senders,    \* the send frames that exist, as <<connection, request>>
    heap,       \* the parts of the response messages still allocated
    shorts      \* how often each response has been cut short

clientVars == <<peer, left, backlog>>
netVars == <<file, content, delivered>>
frameVars == <<live, sock, parsed, senders, heap, shorts>>

vars == <<uringVars, ringVars, clientVars, netVars, loop, current, frameVars>>

Handlers == Conns \cup {Phantom}

Requests == 1 .. MaxPackets

(* A mutant: the message is a local variable, gone when send returns.      *)
MessageLocal(c, r) == {}

(* http_response::send allocates a std::string, and that its characters. *)
Message(c, r) == {<<"object", c, r>>, <<"chars", c, r>>}

NoBuf == NumBuffers  \* completion without IORING_CQE_F_BUFFER

Idle == [conn |-> None, buf |-> NoBuf]

-----------------------------------------------------------------------------
(* Frames, the requests they await and the completions that resume them *)

Acceptor == [kind |-> "accept", conn |-> Phantom, req |-> 0]

Receiver(h) == [kind |-> "recv", conn |-> h, req |-> 0]

Sender(c, r) == [kind |-> "send", conn |-> c, req |-> r]

Request(frame, fd) == [data |-> frame, fd |-> fd]

Completion(frame, res) ==
    [data |-> frame, res |-> res, buf |-> NoBuf, fd |-> NoFd, more |-> FALSE]

Alive == loop # "dead"

(* io_uring_get_sqe is not checked: a full queue means a null entry. *)
Prepare(sqes, next) ==
    IF HasRoom(Len(sqes))
    THEN sq' = sq \o sqes /\ loop' = next
    ELSE sq' = sq /\ loop' = "dead"

Init ==
    /\ UringInit(<<Request(Acceptor, NoFd)>>)
    /\ register_buffer_ring
    /\ peer = [c \in Conns |-> "idle"]
    /\ left = [c \in Conns |-> MaxPackets]
    /\ backlog = {}
    /\ file = [f \in Fds |-> None]
    /\ content = [b \in BufferIds |-> None]
    /\ delivered = [c \in Conns |-> {}]
    /\ loop = "submit"
    /\ current = Idle
    /\ live = {}
    /\ sock = [h \in Handlers |-> NoFd]
    /\ parsed = [c \in Conns |-> 0]
    /\ senders = {}
    /\ heap = {}
    /\ shorts = [c \in Conns |-> [r \in Requests |-> 0]]

-----------------------------------------------------------------------------
(* Clients; what they do once the process has terminated is left out. *)

Connect(c) ==
    /\ Alive
    /\ peer[c] = "idle"
    /\ peer' = [peer EXCEPT ![c] = "up"]
    /\ backlog' = backlog \cup {c}
    /\ UNCHANGED <<left, uringVars, ringVars, netVars, loop, current, frameVars>>

Close(c) ==
    /\ Alive
    /\ peer[c] = "up"
    /\ peer' = [peer EXCEPT ![c] = "closed"]
    /\ UNCHANGED <<left, backlog, uringVars, ringVars, netVars, loop, current,
                   frameVars>>

Reset(c) ==
    /\ Alive
    /\ "reset" \in Faults
    /\ peer[c] \in {"up", "closed"}
    /\ peer' = [peer EXCEPT ![c] = "reset"]
    /\ UNCHANGED <<left, backlog, uringVars, ringVars, netVars, loop, current,
                   frameVars>>

-----------------------------------------------------------------------------
(* The kernel *)

FreeFds == {f \in Fds : file[f] = None}

(* A connection is accepted; without IORING_CQE_F_MORE the multishot       *)
(* request ends with it.                                                   *)
CompleteAccept(c) ==
    /\ Alive
    /\ c \in backlog
    /\ backlog' = backlog \ {c}
    /\ \E r \in kernel, f \in FreeFds, more \in BOOLEAN :
        LET e == [Completion(Acceptor, "ok") EXCEPT !.fd = f, !.more = more]
        IN  /\ r.data = Acceptor
            /\ file' = [file EXCEPT ![f] = c]
            /\ IF more THEN CompleteMore(r, e) ELSE Complete(r, e)
    /\ UNCHANGED <<peer, left, sq, batch, ringVars, content, delivered, loop,
                   current, frameVars>>

(* No descriptor left, or the connection is gone or refused ("refused" is  *)
(* -EPERM, the -1 that accept_client tests for).  The kernel reserves the  *)
(* descriptor before it looks for a connection, so that a full table fails *)
(* an accept that nobody is waiting for.  At most one handler of a failed  *)
(* accept at a time.                                                       *)
FailAccept ==
    /\ Alive
    /\ Phantom \notin live
    /\ \A i \in 1 .. Len(cq) : cq[i].res # "error" \/ cq[i].data # Acceptor
    /\ \E r \in kernel, res \in {"error", "refused"} :
        /\ r.data = Acceptor
        /\ "abort" \in Faults \/ (FreeFds = {} /\ res = "error")
        /\ Complete(r, Completion(Acceptor, res))
    /\ UNCHANGED <<sq, batch, ringVars, clientVars, netVars, loop, current,
                   frameVars>>

(* Data: the kernel picks a buffer, fills it, and posts its id. *)
Receive(h) ==
    /\ Alive
    /\ SelectBuffer
    /\ \E r \in kernel :
        /\ r.data = Receiver(h)
        /\ r.to # None
        /\ peer[r.to] \in {"up", "closed"}
        /\ left[r.to] > 0
        /\ left' = [left EXCEPT ![r.to] = @ - 1]
        /\ content' = [content EXCEPT ![NextBuffer] = r.to]
        /\ Complete(r, [Completion(Receiver(h), "data")
                            EXCEPT !.buf = NextBuffer])
    /\ UNCHANGED <<peer, backlog, sq, batch, file, delivered, loop, current,
                   frameVars>>

(* End of file; some kernels keep the buffer they picked for it. *)
ReceiveEof(h) ==
    /\ Alive
    /\ HasBuffer
    /\ \E r \in kernel :
        /\ r.data = Receiver(h)
        /\ r.to # None
        /\ peer[r.to] = "closed"
        /\ \/ /\ Complete(r, Completion(Receiver(h), "eof"))
              /\ UNCHANGED ringVars
           \/ /\ "eof_buffer" \in Faults
              /\ Complete(r, [Completion(Receiver(h), "eof")
                                  EXCEPT !.buf = NextBuffer])
              /\ SelectBuffer
    /\ UNCHANGED <<clientVars, sq, batch, netVars, loop, current, frameVars>>

(* -ENOBUFS, -ECONNRESET, or -EBADF for the handler of a failed accept. *)
FailReceive(h) ==
    /\ Alive
    /\ \E r \in kernel :
        /\ r.data = Receiver(h)
        /\ \/ ~HasBuffer
           \/ r.to = None
           \/ r.to # None /\ peer[r.to] = "reset"
        /\ Complete(r, Completion(Receiver(h), "error"))
    /\ UNCHANGED <<sq, batch, ringVars, clientVars, netVars, loop, current,
                   frameVars>>

(* The response leaves on the connection the request was submitted for:    *)
(* "all" brings what was sent to the response's length, "some" does not.   *)
CompleteSend(c, q, res) ==
    /\ Alive
    /\ res = "some" => "short" \in Faults /\ shorts[c][q] < MaxShort
    /\ \E r \in kernel :
        /\ r.data = Sender(c, q)
        /\ r.to # None
        /\ peer[r.to] \in {"up", "closed"}
        /\ delivered' = [delivered EXCEPT ![r.to] =
                            IF res = "all" THEN @ \cup {<<c, q>>} ELSE @]
        /\ Complete(r, Completion(Sender(c, q), res))
    /\ shorts' = [shorts EXCEPT ![c][q] = IF res = "some" THEN @ + 1 ELSE @]
    /\ UNCHANGED <<sq, batch, ringVars, clientVars, file, content, loop,
                   current, live, sock, parsed, senders, heap>>

FailSend(c, q) ==
    /\ Alive
    /\ \E r \in kernel :
        /\ r.data = Sender(c, q)
        /\ r.to = None \/ (r.to # None /\ peer[r.to] \in {"closed", "reset"})
        /\ Complete(r, Completion(Sender(c, q), "error"))
    /\ UNCHANGED <<sq, batch, ringVars, clientVars, netVars, loop, current,
                   frameVars>>

-----------------------------------------------------------------------------
(* event_loop *)

(* The file behind a descriptor when its request is submitted. *)
FileOf(fd) == IF fd \in Fds THEN file[fd] ELSE None

Submit ==
    /\ loop = "submit"
    /\ loop' = "wait"
    /\ submit_and_wait({[data |-> sq[i].data, to |-> FileOf(sq[i].fd)] :
                            i \in 1 .. Len(sq)})
    /\ UNCHANGED <<cq, batch, ringVars, clientVars, netVars, current, frameVars>>

(* submit_and_wait throws, and unhandled_exception terminates. *)
SubmitFails ==
    /\ loop = "submit"
    /\ "submit" \in Faults
    /\ loop' = "dead"
    /\ UNCHANGED <<uringVars, ringVars, clientVars, netVars, current, frameVars>>

StartBatch ==
    /\ loop = "wait"
    /\ begin_end
    /\ loop' = "visit"
    /\ UNCHANGED <<sq, kernel, cq, ringVars, clientVars, netVars, current,
                   frameVars>>

EndBatch ==
    /\ loop = "visit"
    /\ batch = 0
    /\ loop' = "submit"
    /\ UNCHANGED <<uringVars, ringVars, clientVars, netVars, current, frameVars>>

(* The completion's results go to the frame's sqe_data, the completion is  *)
(* marked seen, and the frame is resumed.                                  *)
Resume(frame, res) ==
    /\ loop = "visit"
    /\ cqe_seen
    /\ Current.data = frame
    /\ Current.res = res
    /\ UNCHANGED kernel

-----------------------------------------------------------------------------
(* accept_client *)

(* A mutant: the multishot accept is taken to last for ever. *)
RearmNever == <<>>

(* await_resume arms the multishot accept again when it has ended. *)
Rearm == IF Current.more THEN <<>> ELSE <<Request(Acceptor, NoFd)>>

(* A result other than -1 becomes the client_socket of a new handler,      *)
(* which runs to its first receive.                                        *)
StartHandler(h, fd) ==
    /\ live' = live \cup {h}
    /\ sock' = [sock EXCEPT ![h] = fd]
    /\ Prepare(Rearm \o <<Request(Receiver(h), fd)>>, "visit")
    /\ UNCHANGED <<ringVars, clientVars, netVars, current, parsed, senders,
                   heap, shorts>>

Accepted(c) ==
    /\ Resume(Acceptor, "ok")
    /\ Current.fd \in Fds /\ file[Current.fd] = c
    /\ StartHandler(c, Current.fd)

(* -EMFILE, -ECONNABORTED, ...: a handler for a descriptor nobody has. *)
AcceptedError ==
    /\ Resume(Acceptor, "error")
    /\ StartHandler(Phantom, NoFd)

AcceptedRefused ==
    /\ Resume(Acceptor, "refused")
    /\ Prepare(Rearm, "visit")
    /\ UNCHANGED <<ringVars, clientVars, netVars, current, frameVars>>

-----------------------------------------------------------------------------
(* handle_client *)

(* Data arrived: borrow the buffer; parse_packet reads it next. *)
Received(h) ==
    /\ Resume(Receiver(h), "data")
    /\ borrow_buffer(Current.buf)
    /\ current' = [conn |-> h, buf |-> Current.buf]
    /\ loop' = "parse"
    /\ UNCHANGED <<sq, clientVars, netVars, frameVars>>

(* A mutant: the client_socket is destroyed and its descriptor stays open. *)
LeakSocket(h) == UNCHANGED file

(* ~file_descriptor *)
CloseSocket(h) == file' = [file EXCEPT ![sock[h]] = None]

(* Length 0: the loop is left without returning a buffer. *)
Break == UNCHANGED ringVars

(* The frame ends, and the last reference to its client_socket closes the  *)
(* descriptor.                                                             *)
ReceivedEof(h) ==
    /\ Resume(Receiver(h), "eof")
    /\ Break
    /\ live' = live \ {h}
    /\ CloseSocket(h)
    /\ UNCHANGED <<sq, clientVars, content, delivered, loop, current,
                   sock, parsed, senders, heap, shorts>>

(* A negative length is taken for a size: parse_packet's reserve throws    *)
(* and unhandled_exception terminates the process.                         *)
ReceivedError(h) ==
    /\ Resume(Receiver(h), "error")
    /\ loop' = "dead"
    /\ UNCHANGED <<sq, ringVars, clientVars, netVars, current, frameVars>>

(* The end of the loop body: return the buffer and await the next packet,  *)
(* after the requests made in the body.                                    *)
NextPacket(h, made) ==
    /\ return_buffer(current.buf)
    /\ current' = Idle
    /\ Prepare(made \o <<Request(Receiver(h), sock[h])>>, "visit")

(* The packet does not complete a request. *)
ParsePart(h) ==
    /\ loop = "parse"
    /\ current.conn = h
    /\ NextPacket(h, <<>>)
    /\ UNCHANGED <<kernel, cq, batch, clientVars, netVars, frameVars>>

(* A mutant: the response keeps the socket of another connection. *)
AnySocket(h) == CHOOSE fd \in Fds : \E g \in live : sock[g] = fd

(* response->set_socket(client_socket) *)
ResponseSocket(h) == sock[h]

(* A mutant: the lazy task of send is not resumed. *)
ResponseNotResumed(h, q) == <<>>

(* A mutant: the header and the body are sent apart. *)
ResponseInParts(h, q) ==
    LET r == Request(Sender(h, q), ResponseSocket(h)) IN <<r, r>>

(* http_response::send: header and body are one message, and one send. *)
Response(h, q) == <<Request(Sender(h, q), ResponseSocket(h))>>

(* The packet completes a request: ServeHTTP answers it by a send that is  *)
(* queued at once and awaited by a frame of its own.                       *)
ParseRequest(h) ==
    /\ loop = "parse"
    /\ current.conn = h
    /\ h \in Conns
    /\ LET q == parsed[h] + 1
       IN  /\ parsed' = [parsed EXCEPT ![h] = q]
           /\ senders' = senders \cup {<<h, q>>}
           /\ heap' = heap \cup Message(h, q)
           /\ NextPacket(h, Response(h, q))
    /\ UNCHANGED <<kernel, cq, batch, clientVars, netVars, live, sock, shorts>>

-----------------------------------------------------------------------------
(* client_socket::send, one frame per response *)

(* A mutant: nothing is deleted. *)
KeepChars(c, q) == UNCHANGED heap

(* await_resume deletes the characters that were sent from; deleting them  *)
(* again either goes unnoticed or aborts, see DeletedTwice.                *)
DeleteChars(c, q) == heap' = heap \ {<<"chars", c, q>>}

(* A mutant: a detached frame that ends is not destroyed. *)
KeepFrame(c, q) == UNCHANGED senders

(* final_suspend destroys the detached frame. *)
EndSend(c, q) == senders' = senders \ {<<c, q>>}

SentAll(c, q) ==
    /\ Resume(Sender(c, q), "all")
    /\ DeleteChars(c, q)
    /\ EndSend(c, q)
    /\ UNCHANGED <<sq, ringVars, clientVars, netVars, loop, current, live,
                   sock, parsed, shorts>>

(* A negative result ends the send; nobody looks at what it returns. *)
SentError(c, q) ==
    /\ Resume(Sender(c, q), "error")
    /\ DeleteChars(c, q)
    /\ EndSend(c, q)
    /\ UNCHANGED <<sq, ringVars, clientVars, netVars, loop, current, live,
                   sock, parsed, shorts>>

(* What the frame finds in the client_socket it points to: its descriptor, *)
(* or, once handle_client has ended and freed it, that or nothing.         *)
SocketRead(c) == IF c \in live THEN {sock[c]} ELSE {sock[c], NoFd}

(* A part was sent: send again, from the middle of the deleted characters. *)
SentSome(c, q) ==
    /\ Resume(Sender(c, q), "some")
    /\ DeleteChars(c, q)
    /\ \E fd \in SocketRead(c) :
        Prepare(<<Request(Sender(c, q), fd)>>, "visit")
    /\ UNCHANGED <<ringVars, clientVars, netVars, current, live, sock, parsed,
                   senders, shorts>>

(* The second completion deletes a pointer into the middle of them, and    *)
(* the allocator notices.                                                  *)
DeletedTwice(c, q) ==
    /\ Resume(Sender(c, q), Current.res)
    /\ <<"chars", c, q>> \notin heap
    /\ loop' = "dead"
    /\ UNCHANGED <<sq, ringVars, clientVars, netVars, current, frameVars>>

-----------------------------------------------------------------------------
Client ==
    \E c \in Conns : Connect(c) \/ Close(c) \/ Reset(c)

KernelReceive(h) == Receive(h) \/ ReceiveEof(h) \/ FailReceive(h)

KernelSend(c, q) ==
    \/ \E res \in {"all", "some"} : CompleteSend(c, q, res)
    \/ FailSend(c, q)

Kernel ==
    \/ \E c \in Conns : CompleteAccept(c)
    \/ FailAccept
    \/ \E h \in Handlers : KernelReceive(h)
    \/ \E c \in Conns, q \in Requests : KernelSend(c, q)

AcceptClient ==
    \/ \E c \in Conns : Accepted(c)
    \/ AcceptedError \/ AcceptedRefused

HandleClient(h) ==
    Received(h) \/ ReceivedEof(h) \/ ReceivedError(h) \/ ParsePart(h)
        \/ ParseRequest(h)

Send(c, q) ==
    SentAll(c, q) \/ SentError(c, q) \/ SentSome(c, q) \/ DeletedTwice(c, q)

EventLoop ==
    \/ Submit \/ SubmitFails \/ StartBatch \/ EndBatch
    \/ AcceptClient
    \/ \E h \in Handlers : HandleClient(h)
    \/ \E c \in Conns, q \in Requests : Send(c, q)

Next == Client \/ Kernel \/ EventLoop

Spec == Init /\ [][Next]_vars

(* The thread runs; the kernel accepts, receives and sends what it can.    *)
(* Clients owe nothing, and the faults need not happen.                    *)
Fairness ==
    /\ WF_vars(EventLoop)
    /\ \A c \in Conns : WF_vars(CompleteAccept(c))
    /\ \A h \in Handlers : WF_vars(KernelReceive(h))
    /\ \A c \in Conns, q \in Requests : WF_vars(KernelSend(c, q))

FairSpec == Spec /\ Fairness

-----------------------------------------------------------------------------
(* Every variable has the values the code and the kernel give it, and the  *)
(* completions the event loop still has to visit are there.                *)
FrameIds == [kind : {"accept", "recv", "send"}, conn : Handlers, req : Nat]

Sqes == [data : FrameIds, fd : Fds \cup {NoFd}]

Results == {"ok", "refused", "data", "eof", "all", "some", "error"}

Cqes ==
    {e \in [data : FrameIds, res : Results, buf : BufferIds \cup {NoBuf},
            fd : Fds \cup {NoFd}, more : BOOLEAN] :
        e.res = "data" => e.buf \in BufferIds}

TypeOK ==
    /\ sq \in Seq(Sqes)
    /\ kernel \subseteq [data : FrameIds, to : Conns \cup {None}]
    /\ cq \in Seq(Cqes)
    /\ batch \in 0 .. Len(cq)
    /\ RingTypeOK
    /\ peer \in [Conns -> {"idle", "up", "closed", "reset"}]
    /\ left \in [Conns -> 0 .. MaxPackets]
    /\ backlog \subseteq Conns
    /\ file \in [Fds -> Conns \cup {None}]
    /\ content \in [BufferIds -> Conns \cup {None}]
    /\ delivered \in [Conns -> SUBSET (Conns \X Requests)]
    /\ loop \in {"submit", "wait", "visit", "parse", "dead"}
    /\ current \in [conn : Handlers \cup {None}, buf : BufferIds \cup {NoBuf}]
    /\ loop = "parse" => current.buf \in BufferIds
    /\ live \subseteq Handlers
    /\ sock \in [Handlers -> Fds \cup {NoFd}]
    /\ parsed \in [Conns -> Nat]
    /\ senders \subseteq Conns \X Nat
    /\ heap \subseteq {"object", "chars"} \X Conns \X Nat
    /\ shorts \in [Conns -> [Requests -> 0 .. MaxShort]]

(* A frame that is suspended has exactly one request under way, and a      *)
(* frame that runs or is gone has none: otherwise it would sleep for ever, *)
(* or a completion would resume a destroyed frame or one frame twice       *)
(* (http_server.cpp:130-144; socket.cpp:90-107, 136-141, 210-216).         *)
Frames ==
    {Acceptor} \cup {Receiver(h) : h \in Handlers}
        \cup {Sender(c, q) : c \in Conns, q \in Requests}

Waiting ==
    {Acceptor} \cup {Receiver(h) : h \in live \ {current.conn}}
        \cup {Sender(p[1], p[2]) : p \in senders}

UnderWay(frame) ==
    Cardinality({i \in 1 .. Len(sq) : sq[i].data = frame})
        + Cardinality({r \in kernel : r.data = frame})
        + Cardinality({i \in 1 .. Len(cq) : cq[i].data = frame /\ ~cq[i].more})

FramesMatchRequests ==
    Alive => \A frame \in Frames :
                 UnderWay(frame) = IF frame \in Waiting THEN 1 ELSE 0

(* No ring entry is lost: each is offered to the kernel, named by a        *)
(* completion not yet seen, or borrowed by the handler that parses; and    *)
(* none is offered twice.  (The entries are conserved; which buffer an     *)
(* entry names is another matter, see ParsesOwnBytes.)  A kernel that      *)
(* gives a buffer away at end of file takes entries out for good           *)
(* (buffer_ring.cpp:32-43, http_server.cpp:62-64, 120).                    *)
EntriesInUse ==
    Cardinality({i \in 1 .. Len(cq) : cq[i].buf # NoBuf})
        + (IF current = Idle THEN 0 ELSE 1)

EntriesConserved ==
    Alive =>
        /\ offered + EntriesInUse <= NumBuffers
        /\ "eof_buffer" \notin Faults => offered + EntriesInUse = NumBuffers

(* An open descriptor has one owner, the accept completion that brings it  *)
(* or the handler that will close it, and a handler's descriptor is still  *)
(* the connection it was started for: no leak, no early or double close,   *)
(* no use of a descriptor number after the kernel gave it to another       *)
(* connection (http_server.cpp:44-52, 62-64; file_descriptor.cpp:17-21).   *)
Brings(i, fd) == cq[i].res = "ok" /\ cq[i].fd = fd

Closes(h, fd) == h \in live /\ sock[h] = fd

OpenIffOwned ==
    \A fd \in Fds :
        file[fd] # None <=> \/ \E i \in 1 .. Len(cq) : Brings(i, fd)
                            \/ \E h \in Handlers : Closes(h, fd)

OneOwner ==
    \A fd \in Fds :
        /\ \A i, j \in 1 .. Len(cq) : Brings(i, fd) /\ Brings(j, fd) => i = j
        /\ \A g, h \in Handlers : Closes(g, fd) /\ Closes(h, fd) => g = h
        /\ \A i \in 1 .. Len(cq), h \in Handlers :
              ~(Brings(i, fd) /\ Closes(h, fd))

HandlersHaveTheirs ==
    \A c \in Conns : c \in live => sock[c] \in Fds /\ file[sock[c]] = c

DescriptorsOwned ==
    Alive => OpenIffOwned /\ OneOwner /\ HandlersHaveTheirs

(* A response is only ever sent on the connection its request came from,   *)
(* although its send is submitted by descriptor number and outlives the    *)
(* handler (http_server.cpp:72-74, socket.cpp:223-233).                    *)
OwnConnectionOnly ==
    /\ \A r \in kernel : r.data.kind = "send" => r.to = r.data.conn
    /\ \A c \in Conns : \A m \in delivered[c] : m[1] = c

(* The bytes a handler parses are those its own client sent.               *)
ParsesOwnBytes ==
    loop = "parse" => content[current.buf] = current.conn

(* The characters of a response exist for as long as the kernel may read   *)
(* them, unless the response has been sent in part: await_resume deletes   *)
(* them after any completion (http_message.h:62, socket.cpp:218-221,       *)
(* 230-233).                                                               *)
MessageHeldWhileSending ==
    Alive => \A r \in kernel :
        r.data.kind = "send" /\ shorts[r.data.conn][r.data.req] = 0
            => <<"chars", r.data.conn, r.data.req>> \in heap

(* The characters of a response are deleted by the end of its send,        *)
(* however it ends.  The std::string object is not: nobody deletes it      *)
(* (http_message.h:63, 73; socket.cpp:218-221).                            *)
CharactersReleased ==
    Alive => \A m \in heap : m[1] = "chars" => <<m[2], m[3]>> \in senders

(* The event loop never needs more submission entries between two submits  *)
(* than two for each connection, so a queue of that size is never full     *)
(* when the wrapper takes an entry without looking (io_uring.cpp:77-97,    *)
(* http_server.cpp:127-129).                                               *)
SubmissionsBounded == Len(sq) <= 2 * Cardinality(Conns)

(* With a buffer and a descriptor for each connection, submission entries  *)
(* as above, and no fault, nothing terminates the process: in particular   *)
(* no receive fails for want of a buffer.                                  *)
NeverDown == Alive

-----------------------------------------------------------------------------
(* A client that connects is accepted. *)
ConnectionsAccepted == \A c \in Conns : c \in backlog ~> c \notin backlog

(* When a client closes, the server closes too and the descriptor is free. *)
ClosedIsClosed ==
    \A c \in Conns :
        peer[c] = "closed" ~> c \notin backlog /\ \A f \in Fds : file[f] # c

(* A parsed request is answered, unless the client goes before. *)
RequestsAnswered ==
    \A c \in Conns, q \in Requests :
        parsed[c] >= q ~> <<c, q>> \in delivered[c] \/ peer[c] # "up"
=============================================================================

------------------------- MODULE ThreadWorkerProofs -------------------------
(***************************************************************************)
(* Proofs about ThreadWorker, for every number of connections, packets,    *)
(* buffers, descriptors and entries, and under every combination of the    *)
(* faults.                                                                 *)
(***************************************************************************)
EXTENDS ThreadWorker, TLAPS, FiniteSetTheorems

-----------------------------------------------------------------------------
(* What the constructors of requests and completions return *)

LEMMA FrameTypes ==
    /\ Acceptor \in FrameIds
    /\ \A h \in Handlers : Receiver(h) \in FrameIds
    /\ \A c \in Conns, q \in Nat : Sender(c, q) \in FrameIds
  BY DEF FrameIds, Acceptor, Receiver, Sender, Handlers

LEMMA RequestType ==
    ASSUME NEW f \in FrameIds, NEW fd \in Fds \cup {NoFd}
    PROVE  Request(f, fd) \in Sqes
  BY DEF Request, Sqes

LEMMA CompletionType ==
    ASSUME NEW f \in FrameIds, NEW res \in Results, res # "data"
    PROVE  Completion(f, res) \in Cqes
  BY DEF Completion, Cqes

LEMMA BufferArithmetic ==
    /\ \A n \in Nat : Slot(n) \in BufferIds
    /\ NoBuf \notin BufferIds
    /\ BufferIds \subseteq Nat
  BY NumBuffersAssumption DEF Slot, BufferIds, NoBuf

(* Taking the completion the iterator stands on. *)
LEMMA SeenType ==
    ASSUME TypeOK, cqe_seen
    PROVE  /\ Current \in Cqes
           /\ cq' \in Seq(Cqes)
           /\ batch' \in 0 .. Len(cq')
  BY DEF TypeOK, cqe_seen, Current

LEMMA CompleteType ==
    ASSUME TypeOK, NEW e \in Cqes, cq' = Append(cq, e), batch' = batch
    PROVE  cq' \in Seq(Cqes) /\ batch' \in 0 .. Len(cq')
  BY DEF TypeOK

LEMMA PrepareType ==
    ASSUME TypeOK, NEW sqes \in Seq(Sqes), NEW next, Prepare(sqes, next)
    PROVE  sq' \in Seq(Sqes) /\ loop' \in {next, "dead"}
  <1>1. sq \in Seq(Sqes) /\ sq \o sqes \in Seq(Sqes)
    BY DEF TypeOK
  <1> QED  BY <1>1 DEF Prepare

-----------------------------------------------------------------------------
LEMMA WorkerTypeInit == Init => TypeOK
  <1> SUFFICES ASSUME Init PROVE TypeOK
    OBVIOUS
  <1>1. sq \in Seq(Sqes)
    BY FrameTypes, RequestType DEF Init, UringInit
  <1>2. kernel = {} /\ cq \in Seq(Cqes) /\ batch \in 0 .. Len(cq)
    BY DEF Init, UringInit
  <1>3. RingTypeOK
    BY NumBuffersAssumption
    DEF Init, register_buffer_ring, setup_buffer_ring, RingTypeOK, BufferIds
  <1>4. current \in [conn : Handlers \cup {None}, buf : BufferIds \cup {NoBuf}]
    BY DEF Init, Idle
  <1>5. shorts \in [Conns -> [Requests -> 0 .. MaxShort]]
    BY BoundsAssumption DEF Init
  <1>6. left \in [Conns -> 0 .. MaxPackets] /\ parsed \in [Conns -> Nat]
    BY BoundsAssumption DEF Init
  <1>7. /\ peer \in [Conns -> {"idle", "up", "closed", "reset"}]
        /\ backlog \subseteq Conns
        /\ file \in [Fds -> Conns \cup {None}]
        /\ content \in [BufferIds -> Conns \cup {None}]
        /\ delivered \in [Conns -> SUBSET (Conns \X Requests)]
        /\ loop = "submit"
        /\ live = {} /\ senders = {} /\ heap = {}
        /\ sock \in [Handlers -> Fds \cup {NoFd}]
    BY DEF Init
  <1> QED  BY <1>1, <1>2, <1>3, <1>4, <1>5, <1>6, <1>7 DEF TypeOK

-----------------------------------------------------------------------------
LEMMA ClientType ==
    ASSUME TypeOK, NEW c \in Conns, Connect(c) \/ Close(c) \/ Reset(c)
    PROVE  TypeOK'
  <1>1. /\ peer' \in [Conns -> {"idle", "up", "closed", "reset"}]
        /\ backlog' \subseteq Conns
    BY DEF TypeOK, Connect, Close, Reset
  <1>2. UNCHANGED <<left, uringVars, ringVars, netVars, loop, current, frameVars>>
    BY DEF Connect, Close, Reset
  <1> QED
    BY <1>1, <1>2
    DEF TypeOK, RingTypeOK, uringVars, ringVars, netVars, frameVars

(* A step of the kernel: one request answered, at most one buffer taken. *)
LEMMA SelectType ==
    ASSUME RingTypeOK, SelectBuffer
    PROVE  RingTypeOK' /\ NextBuffer \in BufferIds
  <1>1. Slot(head + 1) \in BufferIds
    BY BufferArithmetic DEF RingTypeOK
  <1> QED
    BY <1>1 DEF RingTypeOK, SelectBuffer, HasBuffer, NextBuffer

LEMMA AnswerType ==
    ASSUME TypeOK, NEW r, NEW e \in Cqes, batch' = batch,
           Complete(r, e) \/ CompleteMore(r, e)
    PROVE  /\ kernel' \subseteq kernel
           /\ cq' \in Seq(Cqes)
           /\ batch' \in 0 .. Len(cq')
  BY CompleteType DEF Complete, CompleteMore

LEMMA CompleteAcceptType ==
    ASSUME TypeOK, NEW c \in Conns, CompleteAccept(c)
    PROVE  TypeOK'
  <1>1. PICK r \in kernel, f \in FreeFds, more \in BOOLEAN :
          LET e == [Completion(Acceptor, "ok") EXCEPT !.fd = f, !.more = more]
          IN  /\ file' = [file EXCEPT ![f] = c]
              /\ IF more THEN CompleteMore(r, e) ELSE Complete(r, e)
    BY DEF CompleteAccept
  <1> DEFINE e == [Completion(Acceptor, "ok") EXCEPT !.fd = f, !.more = more]
  <1>2. e \in Cqes
    BY FrameTypes DEF Completion, Cqes, Results, FreeFds
  <1>3. UNCHANGED <<peer, left, sq, batch, ringVars, content, delivered, loop,
                    current, frameVars>> /\ backlog' = backlog \ {c}
    BY DEF CompleteAccept
  <1>4. Complete(r, e) \/ CompleteMore(r, e)
    BY <1>1
  <1>5. kernel' \subseteq kernel /\ cq' \in Seq(Cqes) /\ batch' \in 0 .. Len(cq')
    <2> HIDE DEF e
    <2> QED  BY <1>2, <1>3, <1>4, AnswerType
  <1>6. file' \in [Fds -> Conns \cup {None}]
    BY <1>1 DEF TypeOK
  <1> QED
    BY <1>3, <1>5, <1>6 DEF TypeOK, RingTypeOK, ringVars, frameVars

LEMMA FailType ==
    ASSUME TypeOK,
           NEW f \in FrameIds, NEW r \in kernel, NEW res \in Results \ {"data"},
           Complete(r, Completion(f, res)),
           UNCHANGED <<sq, batch, ringVars, clientVars, netVars, loop, current,
                       frameVars>>
    PROVE  TypeOK'
  <1>1. kernel' \subseteq kernel /\ cq' \in Seq(Cqes) /\ batch' \in 0 .. Len(cq')
    BY CompletionType, AnswerType
  <1> QED
    BY <1>1 DEF TypeOK, RingTypeOK, ringVars, clientVars, netVars, frameVars

LEMMA ReceiveType ==
    ASSUME TypeOK, NEW h \in Handlers, Receive(h)
    PROVE  TypeOK'
  <1>1. PICK r \in kernel :
          /\ r.to # None
          /\ left[r.to] > 0
          /\ left' = [left EXCEPT ![r.to] = @ - 1]
          /\ content' = [content EXCEPT ![NextBuffer] = r.to]
          /\ Complete(r, [Completion(Receiver(h), "data") EXCEPT !.buf = NextBuffer])
    BY DEF Receive
  <1>2. RingTypeOK' /\ NextBuffer \in BufferIds
    BY SelectType DEF TypeOK, Receive
  <1> DEFINE e == [Completion(Receiver(h), "data") EXCEPT !.buf = NextBuffer]
  <1>3. e \in Cqes
    BY <1>2, FrameTypes DEF Completion, Cqes, Results
  <1>4. UNCHANGED <<peer, backlog, sq, batch, file, delivered, loop, current,
                    frameVars>>
    BY DEF Receive
  <1>5. kernel' \subseteq kernel /\ cq' \in Seq(Cqes) /\ batch' \in 0 .. Len(cq')
    <2>1. Complete(r, e)
      BY <1>1
    <2> HIDE DEF e
    <2> QED  BY <1>3, <1>4, <2>1, AnswerType
  <1>6. r.to \in Conns
    BY <1>1 DEF TypeOK
  <1>7. /\ left' \in [Conns -> 0 .. MaxPackets]
        /\ content' \in [BufferIds -> Conns \cup {None}]
    BY <1>1, <1>2, <1>6, BoundsAssumption DEF TypeOK
  <1> QED
    BY <1>2, <1>4, <1>5, <1>7 DEF TypeOK, frameVars

LEMMA ReceiveEofType ==
    ASSUME TypeOK, NEW h \in Handlers, ReceiveEof(h)
    PROVE  TypeOK'
  <1> DEFINE e == [Completion(Receiver(h), "eof") EXCEPT !.buf = NextBuffer]
  <1>1. PICK r \in kernel :
          \/ Complete(r, Completion(Receiver(h), "eof")) /\ UNCHANGED ringVars
          \/ Complete(r, e) /\ SelectBuffer
    BY DEF ReceiveEof
  <1>2. UNCHANGED <<clientVars, sq, batch, netVars, loop, current, frameVars>>
    BY DEF ReceiveEof
  <1>3. CASE Complete(r, Completion(Receiver(h), "eof")) /\ UNCHANGED ringVars
    BY <1>2, <1>3, FailType, FrameTypes DEF Results
  <1>4. CASE Complete(r, e) /\ SelectBuffer
    <2>1. RingTypeOK' /\ NextBuffer \in BufferIds
      BY <1>4, SelectType DEF TypeOK
    <2>2. e \in Cqes
      BY <2>1, FrameTypes DEF Completion, Cqes, Results
    <2>3. kernel' \subseteq kernel /\ cq' \in Seq(Cqes) /\ batch' \in 0 .. Len(cq')
      <3> HIDE DEF e
      <3> QED  BY <1>2, <1>4, <2>2, AnswerType
    <2> QED
      BY <1>2, <2>1, <2>3 DEF TypeOK, clientVars, netVars, frameVars
  <1> QED  BY <1>1, <1>3, <1>4

LEMMA CompleteSendType ==
    ASSUME TypeOK, NEW c \in Conns, NEW q \in Requests,
           NEW res \in {"all", "some"}, CompleteSend(c, q, res)
    PROVE  TypeOK'
  <1>1. PICK r \in kernel :
          /\ r.to # None
          /\ delivered' = [delivered EXCEPT ![r.to] =
                              IF res = "all" THEN @ \cup {<<c, q>>} ELSE @]
          /\ Complete(r, Completion(Sender(c, q), res))
    BY DEF CompleteSend
  <1>2. UNCHANGED <<sq, batch, ringVars, clientVars, file, content, loop,
                    current, live, sock, parsed, senders, heap>>
    BY DEF CompleteSend
  <1>3. kernel' \subseteq kernel /\ cq' \in Seq(Cqes) /\ batch' \in 0 .. Len(cq')
    <2>1. Completion(Sender(c, q), res) \in Cqes
      BY FrameTypes, CompletionType DEF Results, Requests
    <2> QED  BY <1>1, <1>2, <2>1, AnswerType
  <1>4. delivered' \in [Conns -> SUBSET (Conns \X Requests)]
    <2>1. r.to \in Conns
      BY <1>1 DEF TypeOK
    <2>2. delivered \in [Conns -> SUBSET (Conns \X Requests)]
      BY DEF TypeOK
    <2>3. delivered[r.to] \cup {<<c, q>>} \in SUBSET (Conns \X Requests)
      BY <2>1, <2>2
    <2> QED  BY <1>1, <2>1, <2>2, <2>3
  <1>5. shorts' \in [Conns -> [Requests -> 0 .. MaxShort]]
    <2>1. shorts \in [Conns -> [Requests -> 0 .. MaxShort]]
      BY DEF TypeOK
    <2>2. shorts' = [shorts EXCEPT ![c] = [shorts[c] EXCEPT ![q] =
                        IF res = "some" THEN shorts[c][q] + 1 ELSE shorts[c][q]]]
      BY DEF CompleteSend
    <2>3. shorts[c] \in [Requests -> 0 .. MaxShort]
      BY <2>1
    <2>4. (IF res = "some" THEN shorts[c][q] + 1 ELSE shorts[c][q]) \in 0 .. MaxShort
      BY <2>3, BoundsAssumption DEF CompleteSend
    <2> QED  BY <2>1, <2>2, <2>3, <2>4
  <1> QED
    BY <1>2, <1>3, <1>4, <1>5
    DEF TypeOK, RingTypeOK, ringVars, clientVars

LEMMA KernelType ==
    ASSUME TypeOK, Kernel
    PROVE  TypeOK'
  <1>1. ASSUME FailAccept PROVE TypeOK'
    BY <1>1, FailType, FrameTypes DEF FailAccept, Results
  <1>2. ASSUME NEW h \in Handlers, FailReceive(h) PROVE TypeOK'
    BY <1>2, FailType, FrameTypes DEF FailReceive, Results
  <1>3. ASSUME NEW c \in Conns, NEW q \in Requests, FailSend(c, q) PROVE TypeOK'
    <2>1. Sender(c, q) \in FrameIds
      BY FrameTypes DEF Requests
    <2> QED  BY <1>3, <2>1, FailType DEF FailSend, Results
  <1> QED
    BY <1>1, <1>2, <1>3, CompleteAcceptType, ReceiveType, ReceiveEofType,
       CompleteSendType
    DEF Kernel, KernelReceive, KernelSend

-----------------------------------------------------------------------------
(* The event loop's own steps *)

LEMMA LoopType ==
    ASSUME TypeOK, Submit \/ SubmitFails \/ StartBatch \/ EndBatch
    PROVE  TypeOK'
  <1>1. CASE Submit
    <2>1. \A i \in 1 .. Len(sq) : sq[i].data \in FrameIds
      <3>1. sq \in Seq(Sqes)
        BY DEF TypeOK
      <3>2. \A i \in 1 .. Len(sq) : sq[i] \in Sqes
        BY <3>1
      <3> QED  BY <3>2 DEF Sqes
    <2>2. \A fd : FileOf(fd) \in Conns \cup {None}
      BY DEF TypeOK, FileOf
    <2>3. kernel' \subseteq [data : FrameIds, to : Conns \cup {None}]
      BY <1>1, <2>1, <2>2 DEF Submit, submit_and_wait, TypeOK
    <2>4. sq' \in Seq(Sqes) /\ loop' = "wait"
      BY <1>1 DEF Submit, submit_and_wait
    <2>5. UNCHANGED <<cq, batch, ringVars, clientVars, netVars, current, frameVars>>
      BY <1>1 DEF Submit
    <2> QED
      BY <2>3, <2>4, <2>5
      DEF TypeOK, RingTypeOK, ringVars, clientVars, netVars, frameVars
  <1>2. CASE SubmitFails \/ EndBatch
    BY <1>2
    DEF SubmitFails, EndBatch, TypeOK, RingTypeOK, uringVars, ringVars,
        clientVars, netVars, frameVars
  <1>3. CASE StartBatch
    <2>1. batch' \in 0 .. Len(cq)
      BY <1>3 DEF StartBatch, begin_end, TypeOK
    <2> QED
      BY <1>3, <2>1
      DEF StartBatch, TypeOK, RingTypeOK, ringVars, clientVars, netVars, frameVars
  <1> QED  BY <1>1, <1>2, <1>3

(* A step that resumes a frame takes a completion and leaves the kernel. *)
LEMMA ResumeType ==
    ASSUME TypeOK, NEW f, NEW res, Resume(f, res)
    PROVE  /\ Current \in Cqes /\ Current.res = res
           /\ cq' \in Seq(Cqes)
           /\ batch' \in 0 .. Len(cq')
           /\ kernel' \subseteq [data : FrameIds, to : Conns \cup {None}]
           /\ loop = "visit"
  BY SeenType DEF Resume, TypeOK

-----------------------------------------------------------------------------
(* accept_client *)

LEMMA RearmType == Rearm \in Seq(Sqes)
  BY FrameTypes, RequestType DEF Rearm

LEMMA StartHandlerType ==
    ASSUME TypeOK, NEW f, NEW res, Resume(f, res),
           NEW h \in Handlers, NEW fd \in Fds \cup {NoFd}, StartHandler(h, fd)
    PROVE  TypeOK'
  <1>1. Rearm \o <<Request(Receiver(h), fd)>> \in Seq(Sqes)
    BY RearmType, FrameTypes, RequestType
  <1>2. sq' \in Seq(Sqes) /\ loop' \in {"visit", "dead"}
    BY <1>1, PrepareType DEF StartHandler
  <1>3. live' \subseteq Handlers /\ sock' \in [Handlers -> Fds \cup {NoFd}]
    BY DEF StartHandler, TypeOK
  <1> QED
    BY <1>2, <1>3, ResumeType
    DEF StartHandler, TypeOK, RingTypeOK, ringVars, clientVars, netVars

LEMMA AcceptClientType ==
    ASSUME TypeOK, AcceptClient
    PROVE  TypeOK'
  <1>1. ASSUME NEW c \in Conns, Accepted(c) PROVE TypeOK'
    BY <1>1, StartHandlerType DEF Accepted, Handlers
  <1>2. CASE AcceptedError
    BY <1>2, StartHandlerType DEF AcceptedError, Handlers
  <1>3. CASE AcceptedRefused
    <2>1. sq' \in Seq(Sqes) /\ loop' \in {"visit", "dead"}
      BY <1>3, RearmType, PrepareType DEF AcceptedRefused
    <2> QED
      BY <1>3, <2>1, ResumeType
      DEF AcceptedRefused, TypeOK, RingTypeOK, ringVars, clientVars, netVars,
          frameVars
  <1> QED  BY <1>1, <1>2, <1>3 DEF AcceptClient

-----------------------------------------------------------------------------
(* handle_client *)

LEMMA ReturnType ==
    ASSUME RingTypeOK, NEW id \in BufferIds, return_buffer(id)
    PROVE  RingTypeOK'
  BY BufferArithmetic DEF RingTypeOK, return_buffer, add_buffer

LEMMA NextPacketType ==
    ASSUME TypeOK, NEW h \in Handlers, NEW made \in Seq(Sqes), loop = "parse",
           NextPacket(h, made)
    PROVE  /\ RingTypeOK'
           /\ sq' \in Seq(Sqes) /\ loop' \in {"visit", "dead"}
           /\ current' = Idle
           /\ Idle \in [conn : Handlers \cup {None}, buf : BufferIds \cup {NoBuf}]
  <1>1. RingTypeOK'
    BY ReturnType DEF NextPacket, TypeOK
  <1>2. Request(Receiver(h), sock[h]) \in Sqes
    BY FrameTypes, RequestType DEF TypeOK
  <1>3. made \o <<Request(Receiver(h), sock[h])>> \in Seq(Sqes)
    BY <1>2
  <1>4. sq' \in Seq(Sqes) /\ loop' \in {"visit", "dead"}
    BY <1>3, PrepareType DEF NextPacket
  <1> QED  BY <1>1, <1>4 DEF NextPacket, Idle

LEMMA ReceivedType ==
    ASSUME TypeOK, NEW h \in Handlers,
           Received(h) \/ ReceivedEof(h) \/ ReceivedError(h)
    PROVE  TypeOK'
  <1>1. CASE Received(h)
    <2>1. Current.buf \in BufferIds
      BY <1>1, ResumeType DEF Received, Cqes
    <2>2. RingTypeOK'
      BY <1>1, <2>1 DEF Received, borrow_buffer, RingTypeOK, TypeOK
    <2>3. /\ current' \in [conn : Handlers \cup {None},
                             buf : BufferIds \cup {NoBuf}]
          /\ current'.buf \in BufferIds
      BY <1>1, <2>1 DEF Received
    <2> QED
      BY <1>1, <2>2, <2>3, ResumeType
      DEF Received, TypeOK, clientVars, netVars, frameVars
  <1>2. CASE ReceivedEof(h)
    <2>1. file' \in [Fds -> Conns \cup {None}] /\ live' \subseteq Handlers
      BY <1>2 DEF ReceivedEof, CloseSocket, TypeOK
    <2> QED
      BY <1>2, <2>1, ResumeType
      DEF ReceivedEof, Break, TypeOK, RingTypeOK, ringVars, clientVars
  <1>3. CASE ReceivedError(h)
    BY <1>3, ResumeType
    DEF ReceivedError, TypeOK, RingTypeOK, ringVars, clientVars, netVars, frameVars
  <1> QED  BY <1>1, <1>2, <1>3

LEMMA ParseType ==
    ASSUME TypeOK, NEW h \in Handlers, ParsePart(h) \/ ParseRequest(h)
    PROVE  TypeOK'
  <1>1. CASE ParsePart(h)
    <2>1. NextPacket(h, <<>>) /\ <<>> \in Seq(Sqes) /\ loop = "parse"
      BY <1>1 DEF ParsePart
    <2> QED
      BY <1>1, <2>1, NextPacketType
      DEF ParsePart, TypeOK, clientVars, netVars, frameVars
  <1>2. CASE ParseRequest(h)
    <2> DEFINE q == parsed[h] + 1
    <2>1. h \in Conns /\ q \in Nat
      BY <1>2 DEF ParseRequest, TypeOK
    <2>2. ResponseSocket(h) \in Fds \cup {NoFd}
      BY DEF ResponseSocket, TypeOK
    <2>3. Response(h, q) \in Seq(Sqes)
      BY <2>1, <2>2, FrameTypes, RequestType DEF Response
    <2>4. /\ NextPacket(h, Response(h, q))
          /\ loop = "parse"
      BY <1>2 DEF ParseRequest
    <2>5. /\ parsed' = [parsed EXCEPT ![h] = q]
          /\ senders' = senders \cup {<<h, q>>}
          /\ heap' = heap \cup Message(h, q)
      BY <1>2 DEF ParseRequest
    <2>6. /\ parsed' \in [Conns -> Nat]
          /\ senders' \subseteq Conns \X Nat
          /\ heap' \subseteq {"object", "chars"} \X Conns \X Nat
      BY <2>1, <2>5 DEF TypeOK, Message
    <2>7. UNCHANGED <<kernel, cq, batch, clientVars, netVars, live, sock, shorts>>
      BY <1>2 DEF ParseRequest
    <2>8. /\ RingTypeOK'
          /\ sq' \in Seq(Sqes) /\ loop' \in {"visit", "dead"}
          /\ current' \in [conn : Handlers \cup {None}, buf : BufferIds \cup {NoBuf}]
      BY <2>3, <2>4, NextPacketType
    <2> QED
      BY <2>6, <2>7, <2>8 DEF TypeOK, clientVars, netVars
  <1> QED  BY <1>1, <1>2

-----------------------------------------------------------------------------
(* client_socket::send *)

LEMMA SendType ==
    ASSUME TypeOK, NEW c \in Conns, NEW q \in Requests, Send(c, q)
    PROVE  TypeOK'
  <1>1. CASE SentAll(c, q) \/ SentError(c, q)
    BY <1>1, ResumeType
    DEF SentAll, SentError, DeleteChars, EndSend, TypeOK, RingTypeOK, ringVars,
        clientVars, netVars
  <1>2. CASE SentSome(c, q)
    <2>1. SocketRead(c) \subseteq Fds \cup {NoFd}
      BY DEF SocketRead, TypeOK, Handlers
    <2>2. PICK fd \in Fds \cup {NoFd} :
            Prepare(<<Request(Sender(c, q), fd)>>, "visit")
      BY <1>2, <2>1 DEF SentSome
    <2>3. <<Request(Sender(c, q), fd)>> \in Seq(Sqes)
      BY FrameTypes, RequestType DEF Requests
    <2>4. sq' \in Seq(Sqes) /\ loop' \in {"visit", "dead"}
      BY <2>2, <2>3, PrepareType
    <2> QED
      BY <1>2, <2>4, ResumeType
      DEF SentSome, DeleteChars, TypeOK, RingTypeOK, ringVars, clientVars, netVars
  <1>3. CASE DeletedTwice(c, q)
    BY <1>3, ResumeType
    DEF DeletedTwice, TypeOK, RingTypeOK, ringVars, clientVars, netVars, frameVars
  <1> QED  BY <1>1, <1>2, <1>3 DEF Send

-----------------------------------------------------------------------------
LEMMA WorkerTypeNext ==
    ASSUME TypeOK, [Next]_vars
    PROVE  TypeOK'
  <1>1. CASE Client
    BY <1>1, ClientType DEF Client
  <1>2. CASE Kernel
    BY <1>2, KernelType
  <1>3. CASE EventLoop
    BY <1>3, LoopType, AcceptClientType, ReceivedType, ParseType, SendType
    DEF EventLoop, HandleClient
  <1>4. CASE UNCHANGED vars
    BY <1>4
    DEF vars, TypeOK, RingTypeOK, uringVars, ringVars, clientVars, netVars,
        frameVars
  <1> QED  BY <1>1, <1>2, <1>3, <1>4 DEF Next

(* Every variable keeps the values the code and the kernel give it: in      *)
(* particular a handler only parses a buffer of the ring, and the event     *)
(* loop never visits more completions than there are.                       *)
THEOREM WorkerTypeCorrect == Spec => []TypeOK
  BY WorkerTypeInit, WorkerTypeNext, PTL DEF Spec

-----------------------------------------------------------------------------
(* Which steps touch a response: all others leave its message and its frame *)
(* alone.                                                                   *)
LEMMA ResponsesKept ==
    ASSUME [Next]_vars
    PROVE  \/ UNCHANGED <<senders, heap>>
           \/ \E h \in Handlers : ParseRequest(h)
           \/ \E c \in Conns, q \in Requests :
                 SentAll(c, q) \/ SentError(c, q) \/ SentSome(c, q)
  <1>1. CASE UNCHANGED vars
    BY <1>1 DEF vars, frameVars
  <1>2. CASE Client
    BY <1>2 DEF Client, Connect, Close, Reset, frameVars
  <1>3. CASE Kernel
    <2>1. ASSUME NEW h \in Handlers, KernelReceive(h)
          PROVE  UNCHANGED <<senders, heap>>
      BY <2>1 DEF KernelReceive, Receive, ReceiveEof, FailReceive, frameVars
    <2>2. ASSUME NEW c \in Conns, NEW q \in Requests, KernelSend(c, q)
          PROVE  UNCHANGED <<senders, heap>>
      BY <2>2 DEF KernelSend, CompleteSend, FailSend, frameVars
    <2>3. ASSUME NEW c \in Conns, CompleteAccept(c)
          PROVE  UNCHANGED <<senders, heap>>
      BY <2>3 DEF CompleteAccept, frameVars
    <2>4. CASE FailAccept
      BY <2>4 DEF FailAccept, frameVars
    <2> QED  BY <1>3, <2>1, <2>2, <2>3, <2>4 DEF Kernel
  <1>4. CASE EventLoop
    <2>1. CASE Submit \/ SubmitFails \/ StartBatch \/ EndBatch \/ AcceptClient
      BY <2>1
      DEF Submit, SubmitFails, StartBatch, EndBatch, AcceptClient, Accepted,
          AcceptedError, AcceptedRefused, StartHandler, frameVars
    <2>2. ASSUME NEW h \in Handlers, HandleClient(h), ~ParseRequest(h)
          PROVE  UNCHANGED <<senders, heap>>
      BY <2>2
      DEF HandleClient, Received, ReceivedEof, ReceivedError, ParsePart, frameVars
    <2>3. ASSUME NEW c \in Conns, NEW q \in Requests, DeletedTwice(c, q)
          PROVE  UNCHANGED <<senders, heap>>
      BY <2>3 DEF DeletedTwice, frameVars
    <2> QED  BY <1>4, <2>1, <2>2, <2>3 DEF EventLoop, Send
  <1> QED  BY <1>1, <1>2, <1>3, <1>4 DEF Next

(* However a send ends, the characters of its response are deleted with its *)
(* frame: no more of them are allocated than there are responses under way, *)
(* whatever fails and however often a response is cut short.                *)
THEOREM ResponsesReleased == Spec => []CharactersReleased
  <1> DEFINE Kept == \A m \in heap : m[1] = "chars" => <<m[2], m[3]>> \in senders
  <1>1. Init => Kept
    BY DEF Init
  <1>2. ASSUME TypeOK, Kept, [Next]_vars
        PROVE  Kept'
    <2>1. CASE UNCHANGED <<senders, heap>>
      BY <1>2, <2>1
    <2>2. ASSUME NEW h \in Handlers, ParseRequest(h)
          PROVE  Kept'
      <3>1. PICK q : /\ senders' = senders \cup {<<h, q>>}
                     /\ heap' = heap \cup Message(h, q)
        BY <2>2 DEF ParseRequest
      <3> QED  BY <1>2, <3>1 DEF Message
    <2>3. ASSUME NEW c \in Conns, NEW q \in Requests,
                 SentAll(c, q) \/ SentError(c, q) \/ SentSome(c, q)
          PROVE  Kept'
      <3>1. /\ heap' = heap \ {<<"chars", c, q>>}
            /\ senders \ {<<c, q>>} \subseteq senders'
        BY <2>3 DEF SentAll, SentError, SentSome, DeleteChars, EndSend
      <3>2. ASSUME NEW m \in heap', m[1] = "chars"
            PROVE  <<m[2], m[3]>> \in senders'
        <4>1. m = <<"chars", m[2], m[3]>>
          BY <1>2, <3>1, <3>2 DEF TypeOK
        <4>2. <<m[2], m[3]>> \in senders /\ <<m[2], m[3]>> # <<c, q>>
          BY <1>2, <3>1, <3>2, <4>1
        <4> QED  BY <3>1, <4>2
      <3> QED  BY <3>2
    <2> QED  BY <1>2, <2>1, <2>2, <2>3, ResponsesKept
  <1>3. Kept => CharactersReleased
    BY DEF CharactersReleased
  <1> QED  BY <1>1, <1>2, <1>3, WorkerTypeCorrect, PTL DEF Spec

-----------------------------------------------------------------------------
(* A step that leaves the worker alive is a step of a worker that was. *)
LEMMA AliveBefore ==
    ASSUME [Next]_vars, Alive'
    PROVE  /\ Alive
           /\ \/ UNCHANGED vars
              \/ Client \/ Kernel
              \/ Submit \/ StartBatch \/ EndBatch
              \/ AcceptClient
              \/ \E h \in Handlers : \/ Received(h) \/ ReceivedEof(h)
                                     \/ ParsePart(h) \/ ParseRequest(h)
              \/ \E c \in Conns, q \in Requests :
                    SentAll(c, q) \/ SentError(c, q) \/ SentSome(c, q)
  <1>1. CASE UNCHANGED vars
    BY <1>1 DEF vars, Alive
  <1>2. CASE Client
    BY <1>2 DEF Client, Connect, Close, Reset
  <1>3. CASE Kernel
    BY <1>3
    DEF Kernel, CompleteAccept, FailAccept, KernelReceive, Receive, ReceiveEof,
        FailReceive, KernelSend, CompleteSend, FailSend
  <1>4. CASE EventLoop
    <2>1. CASE Submit \/ SubmitFails \/ StartBatch \/ EndBatch
      BY <2>1 DEF Submit, SubmitFails, StartBatch, EndBatch, Alive
    <2>2. CASE AcceptClient
      BY <2>2
      DEF AcceptClient, Accepted, AcceptedError, AcceptedRefused, Resume, Alive
    <2>3. ASSUME NEW h \in Handlers, HandleClient(h)
          PROVE  Alive /\ ~ReceivedError(h)
      BY <2>3
      DEF HandleClient, Received, ReceivedEof, ReceivedError, ParsePart,
          ParseRequest, Resume, Alive
    <2>4. ASSUME NEW c \in Conns, NEW q \in Requests, Send(c, q)
          PROVE  Alive /\ ~DeletedTwice(c, q)
      BY <2>4
      DEF Send, SentAll, SentError, SentSome, DeletedTwice, Resume, Alive
    <2> QED  BY <1>4, <2>1, <2>2, <2>3, <2>4 DEF EventLoop, HandleClient, Send
  <1> QED  BY <1>1, <1>2, <1>3, <1>4 DEF Next

-----------------------------------------------------------------------------
(* The entries of the buffer ring *)

(* The completions that name an entry. *)
Filled(s) == {i \in 1 .. Len(s) : s[i].buf # NoBuf}

LEMMA FilledFinite ==
    ASSUME NEW s \in Seq(Cqes)
    PROVE  IsFiniteSet(Filled(s)) /\ Cardinality(Filled(s)) \in Nat
  <1>1. Filled(s) \in SUBSET (1 .. Len(s)) /\ Len(s) \in Nat
    BY DEF Filled
  <1>2. IsFiniteSet(1 .. Len(s))
    BY <1>1, FS_Interval
  <1>3. IsFiniteSet(Filled(s))
    BY <1>1, <1>2, FS_Subset
  <1> QED  BY <1>3, FS_CardinalityType

LEMMA FilledAppend ==
    ASSUME NEW s \in Seq(Cqes), NEW e \in Cqes
    PROVE  Cardinality(Filled(Append(s, e))) =
             Cardinality(Filled(s)) + (IF e.buf # NoBuf THEN 1 ELSE 0)
  <1>1. /\ Len(Append(s, e)) = Len(s) + 1 /\ Len(s) \in Nat
        /\ \A i \in 1 .. Len(s) + 1 :
              Append(s, e)[i] = IF i = Len(s) + 1 THEN e ELSE s[i]
    OBVIOUS
  <1>2. Len(s) + 1 \notin Filled(s)
    BY <1>1 DEF Filled
  <1>3. CASE e.buf # NoBuf
    <2>1. Filled(Append(s, e)) = Filled(s) \cup {Len(s) + 1}
      BY <1>1, <1>3 DEF Filled
    <2> QED  BY <1>2, <1>3, <2>1, FilledFinite, FS_AddElement
  <1>4. CASE e.buf = NoBuf
    <2>1. Filled(Append(s, e)) = Filled(s)
      BY <1>1, <1>4 DEF Filled
    <2> QED  BY <1>4, <2>1, FilledFinite
  <1> QED  BY <1>3, <1>4

LEMMA FilledTail ==
    ASSUME NEW s \in Seq(Cqes), s # <<>>
    PROVE  Cardinality(Filled(Tail(s))) =
             Cardinality(Filled(s)) - (IF Head(s).buf # NoBuf THEN 1 ELSE 0)
  <1>1. /\ Len(Tail(s)) = Len(s) - 1 /\ Len(s) \in Nat \ {0} /\ Head(s) = s[1]
        /\ \A i \in 1 .. Len(s) - 1 : Tail(s)[i] = s[i + 1]
        /\ Tail(s) \in Seq(Cqes)
    OBVIOUS
  <1> DEFINE Shift == [i \in Filled(Tail(s)) |-> i + 1]
  <1>2. Shift \in Bijection(Filled(Tail(s)), Filled(s) \ {1})
    <2>1. \A i \in Filled(Tail(s)) : i \in Nat /\ i + 1 \in Filled(s) \ {1}
      BY <1>1 DEF Filled
    <2>2. \A j \in Filled(s) \ {1} : j - 1 \in Filled(Tail(s)) /\ (j - 1) + 1 = j
      BY <1>1 DEF Filled
    <2>3. Shift \in Injection(Filled(Tail(s)), Filled(s) \ {1})
      BY <2>1 DEF Injection, IsInjective
    <2>4. Shift \in Surjection(Filled(Tail(s)), Filled(s) \ {1})
      BY <2>1, <2>2 DEF Surjection
    <2> QED  BY <2>3, <2>4 DEF Bijection
  <1>3. Cardinality(Filled(s) \ {1}) = Cardinality(Filled(Tail(s)))
    BY <1>1, <1>2, FilledFinite, FS_Bijection DEF ExistsBijection
  <1>4. 1 \in Filled(s) <=> Head(s).buf # NoBuf
    BY <1>1 DEF Filled
  <1>5. IsFiniteSet(Filled(s)) /\ Cardinality(Filled(s)) \in Nat
    BY FilledFinite
  <1>6. CASE 1 \in Filled(s)
    <2>1. Cardinality(Filled(s) \ {1}) = Cardinality(Filled(s)) - 1
      BY <1>5, <1>6, FS_RemoveElement
    <2> QED  BY <1>3, <1>4, <1>6, <2>1
  <1>7. CASE 1 \notin Filled(s)
    <2>1. Filled(s) \ {1} = Filled(s)
      BY <1>7
    <2>2. Cardinality(Filled(Tail(s))) = Cardinality(Filled(s))
      BY <1>3, <2>1
    <2> QED  BY <1>4, <1>5, <1>7, <2>2
  <1> QED  BY <1>6, <1>7

EntriesInv ==
    /\ loop # "parse" => current = Idle
    /\ offered + EntriesInUse <= NumBuffers
    /\ "eof_buffer" \notin Faults => offered + EntriesInUse = NumBuffers
    /\ \A i \in Filled(cq) :
          \/ cq[i].res = "data"
          \/ cq[i].res = "eof" /\ "eof_buffer" \in Faults

(* What a step does to the entries: nothing, as a client's or a submit; a   *)
(* completion is posted without one or with one; a completion that is seen  *)
(* names none, or its entry is borrowed; the borrowed entry is returned.    *)
Untouched == UNCHANGED <<offered, cq, current>> /\ (loop' = "parse" <=> loop = "parse")

Posted ==
    /\ \E e \in Cqes : e.buf = NoBuf /\ cq' = Append(cq, e)
    /\ UNCHANGED <<offered, current, loop>>

PostedWithEntry ==
    /\ offered > 0 /\ offered' = offered - 1
    /\ \E e \in Cqes :
        /\ e.buf # NoBuf /\ cq' = Append(cq, e)
        /\ e.res = "data" \/ (e.res = "eof" /\ "eof_buffer" \in Faults)
    /\ UNCHANGED <<current, loop>>

SeenWithoutData ==
    /\ cqe_seen /\ Current.res # "data"
    /\ UNCHANGED <<offered, current, loop>>

Borrowed ==
    /\ cqe_seen /\ Current.res = "data"
    /\ loop = "visit" /\ loop' = "parse" /\ current' # Idle
    /\ UNCHANGED offered

Returned ==
    /\ loop = "parse" /\ current # Idle /\ loop' = "visit" /\ current' = Idle
    /\ offered' = offered + 1
    /\ UNCHANGED cq

LEMMA EntriesKernel ==
    ASSUME TypeOK, Kernel
    PROVE  Posted \/ PostedWithEntry
  <1>1. ASSUME NEW c \in Conns, CompleteAccept(c) PROVE Posted
    <2>1. PICK r \in kernel, f \in FreeFds, more \in BOOLEAN :
            LET e == [Completion(Acceptor, "ok") EXCEPT !.fd = f, !.more = more]
            IN  IF more THEN CompleteMore(r, e) ELSE Complete(r, e)
      BY <1>1 DEF CompleteAccept
    <2> DEFINE e == [Completion(Acceptor, "ok") EXCEPT !.fd = f, !.more = more]
    <2>2. e \in Cqes /\ e.buf = NoBuf
      BY FrameTypes DEF Completion, Cqes, Results, FreeFds
    <2>3. Complete(r, e) \/ CompleteMore(r, e)
      BY <2>1
    <2> HIDE DEF e
    <2>4. cq' = Append(cq, e)
      BY <2>3 DEF Complete, CompleteMore
    <2> QED  BY <1>1, <2>2, <2>4 DEF CompleteAccept, Posted, ringVars
  <1>2. ASSUME NEW r, NEW f \in FrameIds, NEW res \in Results \ {"data"},
               Complete(r, Completion(f, res)), UNCHANGED <<offered, current, loop>>
        PROVE  Posted
    <2>1. Completion(f, res) \in Cqes /\ Completion(f, res).buf = NoBuf
      BY CompletionType DEF Completion
    <2> QED  BY <1>2, <2>1 DEF Complete, Posted
  <1>3. CASE FailAccept
    BY <1>2, <1>3, FrameTypes DEF FailAccept, Results, ringVars
  <1>4. ASSUME NEW c \in Conns, NEW q \in Requests, KernelSend(c, q) PROVE Posted
    <2>1. Sender(c, q) \in FrameIds
      BY FrameTypes DEF Requests
    <2> QED
      BY <1>2, <1>4, <2>1
      DEF KernelSend, CompleteSend, FailSend, Results, ringVars
  <1>5. ASSUME NEW h \in Handlers, KernelReceive(h)
        PROVE  Posted \/ PostedWithEntry
    <2>1. ASSUME NEW res \in {"data", "eof"}, NEW r,
                 Complete(r, [Completion(Receiver(h), res)
                                  EXCEPT !.buf = NextBuffer]),
                 SelectBuffer, UNCHANGED <<current, loop>>,
                 res = "data" \/ "eof_buffer" \in Faults
          PROVE  PostedWithEntry
      <3> DEFINE e == [Completion(Receiver(h), res) EXCEPT !.buf = NextBuffer]
      <3>1. NextBuffer \in BufferIds
        BY <2>1, SelectType DEF TypeOK
      <3>2. e \in Cqes /\ e.buf # NoBuf /\ e.res = res
        BY <3>1, FrameTypes, BufferArithmetic DEF Completion, Cqes, Results
      <3>3. cq' = Append(cq, e)
        BY <2>1 DEF Complete
      <3> HIDE DEF e
      <3> QED  BY <2>1, <3>2, <3>3 DEF PostedWithEntry, SelectBuffer, HasBuffer
    <2>2. CASE Receive(h)
      BY <2>1, <2>2 DEF Receive
    <2>3. CASE ReceiveEof(h)
      BY <1>2, <2>1, <2>3, FrameTypes DEF ReceiveEof, Results, ringVars
    <2>4. CASE FailReceive(h)
      BY <1>2, <2>4, FrameTypes DEF FailReceive, Results, ringVars
    <2> QED  BY <1>5, <2>2, <2>3, <2>4 DEF KernelReceive
  <1> QED  BY <1>1, <1>3, <1>4, <1>5 DEF Kernel

LEMMA EntriesStep ==
    ASSUME TypeOK, [Next]_vars, Alive'
    PROVE  \/ Untouched \/ Posted \/ PostedWithEntry
           \/ SeenWithoutData \/ Borrowed \/ Returned
  <1>1. CASE UNCHANGED vars
    BY <1>1 DEF vars, uringVars, ringVars, Untouched
  <1>2. CASE Client
    BY <1>2 DEF Client, Connect, Close, Reset, uringVars, ringVars, Untouched
  <1>3. CASE Submit \/ StartBatch \/ EndBatch
    BY <1>3 DEF Submit, StartBatch, EndBatch, uringVars, ringVars, Untouched
  <1>4. CASE AcceptClient
    BY <1>4
    DEF AcceptClient, Accepted, AcceptedError, AcceptedRefused, StartHandler,
        Resume, Prepare, Alive, ringVars, SeenWithoutData
  <1>5. ASSUME NEW c \in Conns, NEW q \in Requests,
               SentAll(c, q) \/ SentError(c, q) \/ SentSome(c, q)
        PROVE  SeenWithoutData
    BY <1>5
    DEF SentAll, SentError, SentSome, Resume, Prepare, Alive, ringVars,
        SeenWithoutData
  <1>6. ASSUME NEW h \in Handlers, Received(h)
        PROVE  Borrowed
    <2>1. Resume(Receiver(h), "data")
      BY <1>6 DEF Received
    <2>2. Current \in Cqes /\ Current.res = "data"
      BY <2>1, ResumeType
    <2>3. Current.buf \in BufferIds
      BY <2>2 DEF Cqes
    <2>4. current' # Idle
      BY <1>6, <2>3, BufferArithmetic DEF Received, Idle
    <2> QED  BY <1>6, <2>1, <2>2, <2>4 DEF Received, borrow_buffer, Resume, Borrowed
  <1>7. ASSUME NEW h \in Handlers, ReceivedEof(h)
        PROVE  SeenWithoutData
    BY <1>7 DEF ReceivedEof, Resume, Break, ringVars, SeenWithoutData
  <1>8. ASSUME NEW h \in Handlers, ParsePart(h) \/ ParseRequest(h)
        PROVE  Returned
    <2>1. current # Idle
      BY <1>8, BufferArithmetic DEF ParsePart, ParseRequest, TypeOK, Idle
    <2> QED
      BY <1>8, <2>1
      DEF ParsePart, ParseRequest, NextPacket, return_buffer, add_buffer, Prepare,
          Alive, Returned
  <1> QED
    BY <1>1, <1>2, <1>3, <1>4, <1>5, <1>6, <1>7, <1>8, EntriesKernel, AliveBefore

LEMMA EntriesNext ==
    ASSUME TypeOK, EntriesInv, [Next]_vars, Alive'
    PROVE  EntriesInv'
  <1> DEFINE Busy == IF current = Idle THEN 0 ELSE 1
  <1> DEFINE Names(s) ==
        \A i \in Filled(s) : \/ s[i].res = "data"
                             \/ s[i].res = "eof" /\ "eof_buffer" \in Faults
  <1>1. /\ EntriesInUse = Cardinality(Filled(cq)) + Busy
        /\ EntriesInUse' = Cardinality(Filled(cq')) + Busy'
        /\ Cardinality(Filled(cq)) \in Nat /\ cq \in Seq(Cqes) /\ offered \in Nat
    <2>1. Cardinality(Filled(cq)) \in Nat /\ cq \in Seq(Cqes) /\ offered \in Nat
      BY FilledFinite DEF TypeOK, RingTypeOK
    <2> QED  BY <2>1 DEF EntriesInUse, Filled
  <1>2. NumBuffers \in Nat
    BY NumBuffersAssumption
  <1>3. ASSUME NEW e \in Cqes, cq' = Append(cq, e),
               \/ e.buf = NoBuf \/ e.res = "data"
               \/ e.res = "eof" /\ "eof_buffer" \in Faults
        PROVE  Names(cq')
    <2>1. \A i \in 1 .. Len(cq') : cq'[i] = IF i = Len(cq) + 1 THEN e ELSE cq[i]
      BY <1>1, <1>3
    <2>2. \A i \in 1 .. Len(cq') : i \in 1 .. Len(cq) \/ i = Len(cq) + 1
      BY <1>1, <1>3
    <2> QED  BY <1>3, <2>1, <2>2 DEF EntriesInv, Filled
  <1>4. ASSUME cqe_seen
        PROVE  /\ Names(cq')
               /\ Cardinality(Filled(cq')) = Cardinality(Filled(cq))
                    - (IF Current.buf # NoBuf THEN 1 ELSE 0)
               /\ Current.buf # NoBuf =>
                    \/ Current.res = "data"
                    \/ Current.res = "eof" /\ "eof_buffer" \in Faults
    <2>1. cq # <<>> /\ cq' = Tail(cq) /\ Current = Head(cq)
      BY <1>4 DEF cqe_seen, TypeOK, Current
    <2>2. /\ \A i \in 1 .. Len(cq') : cq'[i] = cq[i + 1] /\ i + 1 \in 1 .. Len(cq)
          /\ Current = cq[1] /\ 1 \in 1 .. Len(cq)
      BY <1>1, <2>1
    <2>3. Names(cq')
      BY <2>2 DEF EntriesInv, Filled
    <2>4. Cardinality(Filled(cq')) = Cardinality(Filled(cq))
            - (IF Current.buf # NoBuf THEN 1 ELSE 0)
      BY <1>1, <2>1, FilledTail
    <2> QED  BY <2>2, <2>3, <2>4 DEF EntriesInv, Filled
  <1>5. EntriesInv' <=>
          /\ (loop # "parse" => current = Idle)'
          /\ offered' + EntriesInUse' <= NumBuffers
          /\ "eof_buffer" \notin Faults => offered' + EntriesInUse' = NumBuffers
          /\ Names(cq')
    BY DEF EntriesInv
  <1> HIDE DEF Names
  <1>6. CASE Untouched
    <2>1. Names(cq')
      BY <1>6 DEF Untouched, EntriesInv, Names
    <2> QED  BY <1>1, <1>5, <1>6, <2>1 DEF Untouched, EntriesInv
  <1>7. CASE Posted
    <2>1. PICK e \in Cqes : e.buf = NoBuf /\ cq' = Append(cq, e)
      BY <1>7 DEF Posted
    <2>2. Cardinality(Filled(cq')) = Cardinality(Filled(cq))
      BY <1>1, <2>1, FilledAppend
    <2> QED  BY <1>1, <1>3, <1>5, <1>7, <2>1, <2>2 DEF Posted, EntriesInv
  <1>8. CASE PostedWithEntry
    <2>1. PICK e \in Cqes :
            /\ e.buf # NoBuf /\ cq' = Append(cq, e)
            /\ e.res = "data" \/ (e.res = "eof" /\ "eof_buffer" \in Faults)
      BY <1>8 DEF PostedWithEntry
    <2>2. Cardinality(Filled(cq')) = Cardinality(Filled(cq)) + 1
      BY <1>1, <2>1, FilledAppend
    <2>3. Names(cq') /\ (loop # "parse" => current = Idle)'
      BY <1>3, <1>8, <2>1 DEF PostedWithEntry, EntriesInv
    <2>4. offered' + EntriesInUse' = offered + EntriesInUse
      <3>1. offered' = offered - 1 /\ Busy' = Busy /\ Busy \in Nat
        BY <1>8 DEF PostedWithEntry
      <3> HIDE DEF Busy
      <3>2. EntriesInUse \in Nat /\ EntriesInUse' = EntriesInUse + 1
        BY <1>1, <2>2, <3>1
      <3> QED  BY <1>1, <3>1, <3>2
    <2> QED  BY <1>5, <2>3, <2>4 DEF EntriesInv
  <1>9. CASE SeenWithoutData
    BY <1>1, <1>2, <1>4, <1>5, <1>9 DEF SeenWithoutData, EntriesInv
  <1>10. CASE Borrowed
    <2>1. Current.buf # NoBuf
      BY <1>10, SeenType, BufferArithmetic DEF Borrowed, Cqes
    <2> QED  BY <1>1, <1>2, <1>4, <1>5, <1>10, <2>1 DEF Borrowed, EntriesInv
  <1>11. CASE Returned
    <2>1. Names(cq')
      BY <1>11 DEF Returned, EntriesInv, Names
    <2> QED  BY <1>1, <1>2, <1>5, <1>11, <2>1 DEF Returned, EntriesInv
  <1> QED
    BY <1>6, <1>7, <1>8, <1>9, <1>10, <1>11, EntriesStep

LEMMA EntriesAlways == Spec => [](TypeOK /\ (Alive => EntriesInv))
  <1>1. Init => EntriesInv
    <2> SUFFICES ASSUME Init PROVE EntriesInv
      OBVIOUS
    <2>1. cq = <<>> /\ current = Idle /\ offered = NumBuffers
      BY DEF Init, UringInit, register_buffer_ring, setup_buffer_ring
    <2>2. Filled(cq) = {} /\ {i \in 1 .. Len(cq) : cq[i].buf # NoBuf} = {}
      BY <2>1 DEF Filled
    <2>3. EntriesInUse = 0
      BY <2>1, <2>2, FS_EmptySet DEF EntriesInUse
    <2> QED  BY <2>1, <2>2, <2>3, NumBuffersAssumption DEF EntriesInv
  <1>2. ASSUME TypeOK /\ (Alive => EntriesInv), [Next]_vars
        PROVE  (TypeOK /\ (Alive => EntriesInv))'
    BY <1>2, WorkerTypeNext, AliveBefore, EntriesNext
  <1> QED  BY <1>1, <1>2, WorkerTypeInit, PTL DEF Spec

(* No entry of the buffer ring is lost and none is offered twice, for every *)
(* size of the ring: what the kernel may take, what completions name and    *)
(* what the parsing handler has borrowed are together the entries there     *)
(* are, or fewer where the kernel gives buffers away at end of file.        *)
THEOREM RingEntriesConserved == Spec => []EntriesConserved
  <1>1. (Alive => EntriesInv) => EntriesConserved
    BY DEF EntriesInv, EntriesConserved
  <1> QED  BY <1>1, EntriesAlways, PTL
=============================================================================

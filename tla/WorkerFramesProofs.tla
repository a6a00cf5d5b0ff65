------------------------- MODULE WorkerFramesProofs -------------------------
(***************************************************************************)
(* The frames of ThreadWorker and the requests they wait for; then what    *)
(* follows for the descriptors, the responses and the worker as a whole.   *)
(*                                                                         *)
(* The properties of the specification count requests with Cardinality; the*)
(* inductive invariant says the same without counting: a frame's requests  *)
(* in the submission queue, in the kernel and in the completion queue are  *)
(* at most one in all, and there is one if and only if the frame waits.    *)
(* That a frame is never resumed once it is gone rests on who owns which   *)
(* descriptor, and the other way round, so both are proved together.       *)
(*                                                                         *)
(* The rest stands on that invariant: a response is sent on the connection *)
(* its request came from, its characters are there while it is sent, and a *)
(* worker with enough of everything is not terminated by what it does.     *)
(***************************************************************************)
EXTENDS ThreadWorkerProofs, SequenceTheorems

(* Every frame there may ever be; the model's bound on requests plays no    *)
(* part in the invariant.                                                   *)
AllFrames ==
    {Acceptor} \cup {Receiver(h) : h \in Handlers}
        \cup {Sender(c, q) : c \in Conns, q \in Nat}

Asked(s, f) == {i \in 1 .. Len(s) : s[i].data = f}

Held(k, f) == {r \in k : r.data = f}

Answered(s, f) == {i \in 1 .. Len(s) : s[i].data = f /\ ~s[i].more}

AtMostOne(S) == \A x, y \in S : x = y

Somewhere(f) ==
    \/ Asked(sq, f) # {}
    \/ Held(kernel, f) # {}
    \/ Answered(cq, f) # {}

Single(f) ==
    /\ AtMostOne(Asked(sq, f))
    /\ AtMostOne(Held(kernel, f))
    /\ AtMostOne(Answered(cq, f))
    /\ Asked(sq, f) = {} \/ Held(kernel, f) = {}
    /\ Asked(sq, f) = {} \/ Answered(cq, f) = {}
    /\ Held(kernel, f) = {} \/ Answered(cq, f) = {}

OneRequestEach ==
    \A f \in AllFrames : Single(f) /\ (Somewhere(f) <=> f \in Waiting)

OnlyFrames ==
    /\ \A i \in 1 .. Len(sq) : sq[i].data \in AllFrames
    /\ \A r \in kernel : r.data \in AllFrames

-----------------------------------------------------------------------------
(* Frames are told apart by their kind, connection and request *)

LEMMA FramesDiffer ==
    /\ \A h \in Handlers : Receiver(h) # Acceptor
    /\ \A c \in Conns, q \in Nat : Sender(c, q) # Acceptor
    /\ \A h \in Handlers, c \in Conns, q \in Nat : Receiver(h) # Sender(c, q)
    /\ \A g, h \in Handlers : Receiver(g) = Receiver(h) => g = h
    /\ \A c, d \in Conns, p, q \in Nat :
          Sender(c, p) = Sender(d, q) => c = d /\ p = q
  BY DEF Acceptor, Receiver, Sender

LEMMA FrameCases ==
    /\ Acceptor \in AllFrames
    /\ \A h \in Handlers : Receiver(h) \in AllFrames
    /\ \A c \in Conns, q \in Nat : Sender(c, q) \in AllFrames
    /\ \A f \in AllFrames :
          \/ f = Acceptor
          \/ \E h \in Handlers : f = Receiver(h)
          \/ \E c \in Conns, q \in Nat : f = Sender(c, q)
  BY DEF AllFrames

LEMMA WhoWaits ==
    ASSUME TypeOK
    PROVE  /\ Acceptor \in Waiting
           /\ \A h \in Handlers :
                 Receiver(h) \in Waiting <=> h \in live /\ h # current.conn
           /\ \A c \in Conns, q \in Nat :
                 Sender(c, q) \in Waiting <=> <<c, q>> \in senders
  <1>1. \A g \in live : g \in Handlers
    BY DEF TypeOK
  <1>2. \A p \in senders : p = <<p[1], p[2]>> /\ p[1] \in Conns /\ p[2] \in Nat
    BY DEF TypeOK
  <1>3. ASSUME NEW h \in Handlers
        PROVE  Receiver(h) \in Waiting <=> h \in live /\ h # current.conn
    BY <1>1, <1>2, FramesDiffer DEF Waiting
  <1>4. ASSUME NEW c \in Conns, NEW q \in Nat
        PROVE  Sender(c, q) \in Waiting <=> <<c, q>> \in senders
    BY <1>1, <1>2, FramesDiffer DEF Waiting
  <1> QED  BY <1>3, <1>4 DEF Waiting

-----------------------------------------------------------------------------
(* The places a request is in, as the queues change *)

LEMMA AskedTwo ==
    ASSUME NEW a \in Sqes, NEW b \in Sqes, NEW f
    PROVE  /\ Asked(<<>>, f) = {}
           /\ Asked(<<a>>, f) # {} <=> a.data = f
           /\ AtMostOne(Asked(<<a>>, f))
           /\ Asked(<<a, b>>, f) # {} <=> a.data = f \/ b.data = f
           /\ a.data # b.data => AtMostOne(Asked(<<a, b>>, f))
  <1>1. Asked(<<>>, f) = {}
    BY DEF Asked
  <1>2. \A i : i \in Asked(<<a>>, f) <=> i = 1 /\ a.data = f
    BY DEF Asked
  <1>3. \A i : i \in Asked(<<a, b>>, f) <=>
               (i = 1 /\ a.data = f) \/ (i = 2 /\ b.data = f)
    BY DEF Asked
  <1>4. /\ Asked(<<a>>, f) # {} <=> a.data = f
        /\ Asked(<<a, b>>, f) # {} <=> a.data = f \/ b.data = f
    BY <1>2, <1>3
  <1>5. /\ AtMostOne(Asked(<<a>>, f))
        /\ a.data # b.data => AtMostOne(Asked(<<a, b>>, f))
    BY <1>2, <1>3 DEF AtMostOne
  <1> QED  BY <1>1, <1>4, <1>5

LEMMA AskedPair ==
    ASSUME NEW a \in Sqes, NEW b \in Sqes, NEW f, a.data # b.data
    PROVE  /\ AtMostOne(Asked(<<a, b>>, f))
           /\ Asked(<<a, b>>, f) # {} <=> f = b.data \/ f = a.data
  <1>1. \A i : i \in Asked(<<a, b>>, f) <=>
               (i = 1 /\ a.data = f) \/ (i = 2 /\ b.data = f)
    BY DEF Asked
  <1>2. AtMostOne(Asked(<<a, b>>, f))
    BY <1>1 DEF AtMostOne
  <1>3. Asked(<<a, b>>, f) # {} <=> f = b.data \/ f = a.data
    BY <1>1
  <1> QED  BY <1>2, <1>3

LEMMA Concat ==
    ASSUME NEW a \in Sqes, NEW b \in Sqes
    PROVE  <<>> \o <<b>> = <<b>> /\ <<a>> \o <<b>> = <<a, b>>
  <1>1. <<a>> \in Seq(Sqes) /\ <<b>> \in Seq(Sqes) /\ <<a, b>> \in Seq(Sqes)
    OBVIOUS
  <1>2. <<>> \o <<b>> = <<b>>
    BY <1>1, ConcatEmptySeq
  <1>3. /\ Len(<<a>> \o <<b>>) = 2 /\ <<a>> \o <<b>> \in Seq(Sqes)
        /\ (<<a>> \o <<b>>)[1] = a /\ (<<a>> \o <<b>>)[2] = b
    BY <1>1
  <1>4. \A i \in 1 .. 2 : (<<a>> \o <<b>>)[i] = <<a, b>>[i]
    BY <1>3
  <1>5. <<a>> \o <<b>> = <<a, b>>
    BY <1>1, <1>3, <1>4, SeqEqual
  <1> QED  BY <1>2, <1>5

LEMMA AskedConcat ==
    ASSUME NEW s \in Seq(Sqes), NEW t \in Seq(Sqes), NEW f,
           AtMostOne(Asked(s, f)), AtMostOne(Asked(t, f)),
           Asked(s, f) = {} \/ Asked(t, f) = {}
    PROVE  /\ AtMostOne(Asked(s \o t, f))
           /\ Asked(s \o t, f) = {} <=> Asked(s, f) = {} /\ Asked(t, f) = {}
  <1>1. /\ Len(s \o t) = Len(s) + Len(t)
        /\ \A i \in 1 .. Len(s) + Len(t) :
              (s \o t)[i] = IF i <= Len(s) THEN s[i] ELSE t[i - Len(s)]
        /\ Len(s) \in Nat /\ Len(t) \in Nat
    OBVIOUS
  <1>2. \A i \in Asked(s \o t, f) :
           i \in Asked(s, f) \/ i - Len(s) \in Asked(t, f)
    BY <1>1 DEF Asked
  <1>3. /\ \A i \in Asked(s, f) : i \in Asked(s \o t, f)
        /\ \A j \in Asked(t, f) : Len(s) + j \in Asked(s \o t, f)
    BY <1>1 DEF Asked
  <1>4. \A i \in Asked(s \o t, f) : i \in Nat
    BY DEF Asked
  <1>5. AtMostOne(Asked(s \o t, f))
    BY <1>1, <1>2, <1>4 DEF AtMostOne
  <1> QED  BY <1>2, <1>3, <1>5

LEMMA AnsweredAppend ==
    ASSUME NEW s \in Seq(Cqes), NEW e \in Cqes, NEW f
    PROVE  Answered(Append(s, e), f) =
             Answered(s, f) \cup {i \in {Len(s) + 1} : e.data = f /\ ~e.more}
  <1>1. /\ Len(Append(s, e)) = Len(s) + 1
        /\ \A i \in 1 .. Len(s) + 1 :
              Append(s, e)[i] = IF i = Len(s) + 1 THEN e ELSE s[i]
        /\ Len(s) \in Nat
    OBVIOUS
  <1> QED  BY <1>1 DEF Answered

LEMMA AnsweredTail ==
    ASSUME NEW s \in Seq(Cqes), s # <<>>, NEW f, AtMostOne(Answered(s, f))
    PROVE  /\ AtMostOne(Answered(Tail(s), f))
           /\ Answered(Tail(s), f) # {}
                <=> Answered(s, f) # {} /\ ~(Head(s).data = f /\ ~Head(s).more)
  <1>1. /\ Len(Tail(s)) = Len(s) - 1
        /\ \A i \in 1 .. Len(s) - 1 : Tail(s)[i] = s[i + 1]
        /\ Head(s) = s[1] /\ Len(s) \in Nat \ {0}
    OBVIOUS
  <1>2. \A i \in Answered(Tail(s), f) :
           i \in Nat /\ i + 1 \in Answered(s, f) /\ i + 1 # 1
    BY <1>1 DEF Answered
  <1>3. \A i \in Answered(s, f) : i # 1 => i - 1 \in Answered(Tail(s), f)
    BY <1>1 DEF Answered
  <1>4. 1 \in Answered(s, f) <=> Head(s).data = f /\ ~Head(s).more
    BY <1>1 DEF Answered
  <1>5. AtMostOne(Answered(Tail(s), f))
    BY <1>2 DEF AtMostOne
  <1> QED  BY <1>2, <1>3, <1>4, <1>5 DEF AtMostOne

-----------------------------------------------------------------------------
(* How a request moves.  Each lemma is about one frame f: it still has at   *)
(* most one request, and the last clause says whether it has one.           *)

(* The kernel answers a request for good. *)
LEMMA MoveAnswer ==
    ASSUME TypeOK, NEW f, Single(f), NEW r, NEW e \in Cqes, Complete(r, e),
           e.data = r.data, ~e.more, sq' = sq
    PROVE  Single(f)' /\ (Somewhere(f)' <=> Somewhere(f))
  <1>1. Answered(cq', f) =
          Answered(cq, f) \cup {i \in {Len(cq) + 1} : e.data = f /\ ~e.more}
    BY AnsweredAppend DEF TypeOK, Complete
  <1>2. Held(kernel', f) = Held(kernel, f) \ {r} /\ r \in kernel
    BY DEF Complete, Held
  <1>3. r \in Held(kernel, f) <=> r.data = f
    BY <1>2 DEF Held
  <1>4. Asked(sq', f) = Asked(sq, f)
    OBVIOUS
  <1> QED  BY <1>1, <1>2, <1>3, <1>4 DEF Single, Somewhere, AtMostOne

(* It answers a request and goes on with it. *)
LEMMA MoveAnswerMore ==
    ASSUME TypeOK, NEW f, Single(f), NEW r, NEW e \in Cqes, CompleteMore(r, e),
           e.more, sq' = sq
    PROVE  Single(f)' /\ (Somewhere(f)' <=> Somewhere(f))
  <1>1. Answered(cq', f) = Answered(cq, f)
    <2>1. Answered(cq', f) =
            Answered(cq, f) \cup {i \in {Len(cq) + 1} : e.data = f /\ ~e.more}
      BY AnsweredAppend DEF TypeOK, CompleteMore
    <2> QED  BY <2>1
  <1> QED  BY <1>1 DEF CompleteMore, Single, Somewhere

(* The thread submits what it has filled. *)
LEMMA MoveSubmit ==
    ASSUME TypeOK, NEW f, Single(f), Submit
    PROVE  Single(f)' /\ (Somewhere(f)' <=> Somewhere(f))
  <1>1. Asked(sq', f) = {}
    BY DEF Submit, submit_and_wait, Asked
  <1>2. Held(kernel', f) = Held(kernel, f) \cup
          {[data |-> sq[i].data, to |-> FileOf(sq[i].fd)] : i \in Asked(sq, f)}
    <2> DEFINE Made(i) == [data |-> sq[i].data, to |-> FileOf(sq[i].fd)]
    <2>1. kernel' = kernel \cup {Made(i) : i \in 1 .. Len(sq)}
      BY DEF Submit, submit_and_wait
    <2>2. \A i : Made(i).data = sq[i].data
      OBVIOUS
    <2> HIDE DEF Made
    <2>3. Held(kernel', f) = Held(kernel, f) \cup {Made(i) : i \in Asked(sq, f)}
      BY <2>1, <2>2 DEF Held, Asked
    <2> QED  BY <2>3 DEF Made
  <1>3. Answered(cq', f) = Answered(cq, f)
    BY DEF Submit
  <1> QED  BY <1>1, <1>2, <1>3 DEF Single, Somewhere, AtMostOne

(* The thread fills entries, beside any completion. *)
LEMMA MovePrepare ==
    ASSUME TypeOK, NEW f, Single(f), NEW made \in Seq(Sqes), sq' = sq \o made,
           UNCHANGED <<kernel, cq>>,
           AtMostOne(Asked(made, f)), Asked(made, f) = {} \/ ~Somewhere(f)
    PROVE  /\ Single(f)'
           /\ Somewhere(f)' <=> Somewhere(f) \/ Asked(made, f) # {}
  <1>1. /\ AtMostOne(Asked(sq', f))
        /\ Asked(sq', f) = {} <=> Asked(sq, f) = {} /\ Asked(made, f) = {}
    BY AskedConcat DEF TypeOK, Single, Somewhere
  <1> QED  BY <1>1 DEF Single, Somewhere

(* The thread sees a completion, resumes the frame and fills entries. *)
LEMMA MoveResume ==
    ASSUME TypeOK, NEW f, Single(f), NEW made \in Seq(Sqes), sq' = sq \o made,
           cqe_seen, UNCHANGED kernel,
           AtMostOne(Asked(made, f)),
           \/ Asked(made, f) = {}
           \/ ~Somewhere(f)
           \/ Current.data = f /\ ~Current.more
    PROVE  /\ Single(f)'
           /\ Somewhere(f)' <=>
                \/ Somewhere(f) /\ ~(Current.data = f /\ ~Current.more)
                \/ Asked(made, f) # {}
  <1> DEFINE gone == Current.data = f /\ ~Current.more
  <1>1. cq \in Seq(Cqes) /\ cq # <<>> /\ cq' = Tail(cq) /\ Current = Head(cq)
    BY DEF TypeOK, cqe_seen, Current
  <1>2. /\ AtMostOne(Answered(cq', f))
        /\ Answered(cq', f) # {} <=> Answered(cq, f) # {} /\ ~gone
    BY <1>1, AnsweredTail DEF Single
  <1>3. gone => Answered(cq, f) # {}
    <2>1. 1 \in 1 .. Len(cq) /\ Head(cq) = cq[1]
      BY <1>1
    <2> QED  BY <1>1, <2>1 DEF Answered
  <1>4. Asked(sq, f) = {} \/ Asked(made, f) = {}
    BY <1>3 DEF Single, Somewhere
  <1>5. /\ AtMostOne(Asked(sq', f))
        /\ Asked(sq', f) = {} <=> Asked(sq, f) = {} /\ Asked(made, f) = {}
    BY <1>4, AskedConcat DEF TypeOK, Single
  <1> QED  BY <1>2, <1>3, <1>5 DEF Single, Somewhere

-----------------------------------------------------------------------------
(* The inductive invariant *)

(* The event loop runs one frame at a time, and between two packets no      *)
(* handler has a buffer.                                                    *)
Turns ==
    /\ loop # "parse" => current = Idle
    /\ loop = "parse" => current.conn \in live

(* The requests of a connection are numbered as they are parsed. *)
SendersParsed ==
    \A c \in Conns, q \in Nat : <<c, q>> \in senders => q <= parsed[c]

(* Only a successful accept leaves its request in the kernel. *)
MultishotAccepts ==
    \A i \in 1 .. Len(cq) :
        cq[i].more => cq[i].data = Acceptor /\ cq[i].res = "ok"

(* The handler of a failed accept does not exist while another accept that  *)
(* failed waits to be seen.                                                 *)
PhantomOnce ==
    \A i \in 1 .. Len(cq) :
        cq[i].data = Acceptor /\ cq[i].res = "error" => Phantom \notin live

(* A connection has one descriptor at most, and none before it is accepted. *)
AcceptedOnce ==
    /\ \A f, g \in Fds : file[f] # None /\ file[f] = file[g] => f = g
    /\ \A c \in Conns : peer[c] = "idle" => c \notin backlog
    /\ \A c \in Conns, f \in Fds :
          peer[c] = "idle" \/ c \in backlog => file[f] # c

Owned == OpenIffOwned /\ OneOwner /\ HandlersHaveTheirs /\ AcceptedOnce

FramesInv ==
    /\ OneRequestEach
    /\ OnlyFrames
    /\ Turns
    /\ SendersParsed
    /\ MultishotAccepts
    /\ PhantomOnce
    /\ Owned

LEMMA FramesInit == Init => FramesInv
  <1> SUFFICES ASSUME Init PROVE FramesInv
    OBVIOUS
  <1>1. /\ sq = <<Request(Acceptor, NoFd)>> /\ kernel = {} /\ cq = <<>>
        /\ live = {} /\ senders = {} /\ backlog = {} /\ loop = "submit"
        /\ current = Idle
        /\ file = [f \in Fds |-> None] /\ peer = [c \in Conns |-> "idle"]
    BY DEF Init, UringInit
  <1>2. Request(Acceptor, NoFd) \in Sqes /\ Request(Acceptor, NoFd).data = Acceptor
    BY FrameTypes, RequestType DEF Request
  <1>3. OneRequestEach
    <2> SUFFICES ASSUME NEW f \in AllFrames
                 PROVE  Single(f) /\ (Somewhere(f) <=> f \in Waiting)
      BY DEF OneRequestEach
    <2>1. f \in Waiting <=> f = Acceptor
      <3>1. \A h : h \notin live \ {current.conn}
        BY <1>1
      <3>2. \A p : p \notin senders
        BY <1>1
      <3> QED  BY <3>1, <3>2 DEF Waiting
    <2>2. AtMostOne(Asked(sq, f)) /\ (Asked(sq, f) # {} <=> f = Acceptor)
      BY <1>1, <1>2, AskedTwo
    <2>3. Held(kernel, f) = {} /\ Answered(cq, f) = {}
      BY <1>1 DEF Held, Answered
    <2> QED  BY <2>1, <2>2, <2>3 DEF Single, Somewhere, AtMostOne
  <1>4. OnlyFrames
    BY <1>1, <1>2, FrameCases DEF OnlyFrames
  <1>5. Turns /\ SendersParsed /\ MultishotAccepts /\ PhantomOnce
    BY <1>1 DEF Turns, SendersParsed, MultishotAccepts, PhantomOnce
  <1>6. Owned
    BY <1>1, ConnsAssumption
    DEF Owned, OpenIffOwned, OneOwner, HandlersHaveTheirs, AcceptedOnce, Brings,
        Closes
  <1> QED  BY <1>3, <1>4, <1>5, <1>6 DEF FramesInv

-----------------------------------------------------------------------------
(* Steps of the clients and of the kernel *)

LEMMA ClientFrames ==
    ASSUME TypeOK, FramesInv, NEW c \in Conns, Connect(c) \/ Close(c) \/ Reset(c)
    PROVE  FramesInv'
  <1>1. UNCHANGED <<sq, kernel, cq, file, loop, current, live, sock, parsed,
                    senders>>
    BY DEF Connect, Close, Reset, uringVars, netVars, frameVars
  <1>2. /\ \A d \in Conns : peer'[d] = "idle" => peer[d] = "idle" /\ d \notin backlog'
        /\ \A d \in backlog' : d \in backlog \/ peer[d] = "idle"
    <2>1. peer \in [Conns -> {"idle", "up", "closed", "reset"}]
      BY DEF TypeOK
    <2>2. \A d \in Conns : peer[d] = "idle" => d \notin backlog
      BY DEF FramesInv, Owned, AcceptedOnce
    <2>3. CASE Connect(c)
      BY <2>1, <2>2, <2>3 DEF Connect
    <2>4. CASE Close(c) \/ Reset(c)
      BY <2>1, <2>2, <2>4 DEF Close, Reset
    <2> QED  BY <2>3, <2>4
  <1>3. AcceptedOnce'
    BY <1>1, <1>2 DEF FramesInv, Owned, AcceptedOnce
  <1>4. OneRequestEach'
    BY <1>1 DEF FramesInv, OneRequestEach, Single, Somewhere, Waiting
  <1>5. (OpenIffOwned /\ OneOwner /\ HandlersHaveTheirs)'
    BY <1>1 DEF FramesInv, Owned, OpenIffOwned, OneOwner, HandlersHaveTheirs,
                Brings, Closes
  <1> QED
    BY <1>1, <1>3, <1>4, <1>5
    DEF FramesInv, Owned, OnlyFrames, Turns, SendersParsed, MultishotAccepts,
        PhantomOnce

(* What a completion added to the queue leaves as it was. *)
LEMMA EntriesAppend ==
    ASSUME TypeOK, NEW e \in Cqes, cq' = Append(cq, e)
    PROVE  /\ Len(cq) \in Nat /\ Len(cq') = Len(cq) + 1
           /\ \A i \in 1 .. Len(cq) : i \in 1 .. Len(cq') /\ cq'[i] = cq[i]
           /\ cq'[Len(cq) + 1] = e
           /\ \A i \in 1 .. Len(cq') : i \in 1 .. Len(cq) \/ i = Len(cq) + 1
  BY DEF TypeOK

(* Any answer but that of a successful accept. *)
LEMMA AnswerFrames ==
    ASSUME TypeOK, FramesInv, NEW r, NEW e \in Cqes, Complete(r, e),
           e.data = r.data, ~e.more, e.res # "ok",
           e.data = Acceptor => Phantom \notin live,
           UNCHANGED <<sq, peer, backlog, file, loop, current, live, sock,
                       parsed, senders>>
    PROVE  FramesInv'
  <1>1. cq' = Append(cq, e) /\ kernel' \subseteq kernel
    BY DEF Complete
  <1>2. OneRequestEach'
    <2>1. ASSUME NEW f \in AllFrames
          PROVE  (Single(f) /\ (Somewhere(f) <=> f \in Waiting))'
      BY MoveAnswer DEF FramesInv, OneRequestEach, Waiting
    <2> QED  BY <2>1 DEF OneRequestEach
  <1>3. MultishotAccepts' /\ PhantomOnce'
    BY <1>1, EntriesAppend DEF FramesInv, MultishotAccepts, PhantomOnce
  <1>4. \A i \in 1 .. Len(cq'), fd \in Fds :
           Brings(i, fd)' <=> i \in 1 .. Len(cq) /\ Brings(i, fd)
    BY <1>1, EntriesAppend DEF Brings
  <1>5. \A i \in 1 .. Len(cq) : i \in 1 .. Len(cq')
    BY <1>1, EntriesAppend
  <1>6. (OpenIffOwned /\ OneOwner /\ HandlersHaveTheirs)'
    BY <1>4, <1>5
    DEF FramesInv, Owned, OpenIffOwned, OneOwner, HandlersHaveTheirs, Closes
  <1>7. OnlyFrames' /\ Turns' /\ SendersParsed' /\ AcceptedOnce'
    BY <1>1 DEF FramesInv, Owned, OnlyFrames, Turns, SendersParsed, AcceptedOnce
  <1> QED  BY <1>2, <1>3, <1>6, <1>7 DEF FramesInv, Owned

(* A successful accept brings a descriptor that was free, for a connection  *)
(* that had none.                                                           *)
LEMMA CompleteAcceptFrames ==
    ASSUME TypeOK, FramesInv, NEW c \in Conns, CompleteAccept(c)
    PROVE  FramesInv'
  <1>1. PICK r \in kernel, fd \in FreeFds, more \in BOOLEAN :
          LET e == [Completion(Acceptor, "ok") EXCEPT !.fd = fd, !.more = more]
          IN  /\ r.data = Acceptor
              /\ file' = [file EXCEPT ![fd] = c]
              /\ IF more THEN CompleteMore(r, e) ELSE Complete(r, e)
    BY DEF CompleteAccept
  <1> DEFINE e == [Completion(Acceptor, "ok") EXCEPT !.fd = fd, !.more = more]
  <1>2. e \in Cqes
    BY FrameTypes DEF Completion, Cqes, Results, FreeFds
  <1>3. e.data = Acceptor /\ e.res = "ok" /\ e.fd = fd /\ e.more = more
    BY DEF Completion
  <1>4. /\ r.data = Acceptor
        /\ file' = [file EXCEPT ![fd] = c]
        /\ (more /\ CompleteMore(r, e)) \/ (~more /\ Complete(r, e))
    BY <1>1
  <1>5. /\ UNCHANGED <<sq, peer, loop, current, live, sock, parsed, senders>>
        /\ backlog' = backlog \ {c} /\ c \in backlog
    BY DEF CompleteAccept, frameVars
  <1>6. fd \in Fds /\ file[fd] = None /\ c # None
    BY ConnsAssumption DEF FreeFds
  <1> HIDE DEF e
  <1>7. cq' = Append(cq, e) /\ kernel' \subseteq kernel
    BY <1>4 DEF Complete, CompleteMore
  <1>8. OneRequestEach'
    <2>1. ASSUME NEW f \in AllFrames
          PROVE  (Single(f) /\ (Somewhere(f) <=> f \in Waiting))'
      <3>1. Single(f) /\ (Somewhere(f) <=> f \in Waiting)
        BY DEF FramesInv, OneRequestEach
      <3>2. Single(f)' /\ (Somewhere(f)' <=> Somewhere(f))
        BY <1>2, <1>3, <1>4, <1>5, <3>1, MoveAnswer, MoveAnswerMore
      <3> QED  BY <1>5, <3>1, <3>2 DEF Waiting
    <2> QED  BY <2>1 DEF OneRequestEach
  <1>9. MultishotAccepts' /\ PhantomOnce'
    BY <1>2, <1>3, <1>5, <1>7, EntriesAppend
    DEF FramesInv, MultishotAccepts, PhantomOnce
  <1>10. /\ \A g \in Fds : file'[g] = IF g = fd THEN c ELSE file[g]
         /\ \A g \in Fds : file[g] # c
    BY <1>4, <1>5 DEF TypeOK, FramesInv, Owned, AcceptedOnce
  <1>11. AcceptedOnce'
    BY <1>5, <1>6, <1>10 DEF FramesInv, Owned, AcceptedOnce
  <1>12. \A i \in 1 .. Len(cq'), g \in Fds :
           Brings(i, g)' <=>
             (i \in 1 .. Len(cq) /\ Brings(i, g)) \/ (i = Len(cq) + 1 /\ g = fd)
    BY <1>2, <1>3, <1>7, EntriesAppend DEF Brings
  <1>13. /\ \A i \in 1 .. Len(cq) : i \in 1 .. Len(cq') /\ i # Len(cq) + 1
         /\ Len(cq) + 1 \in 1 .. Len(cq')
    BY <1>2, <1>7, EntriesAppend
  <1>14. \A i \in 1 .. Len(cq), h \in Handlers : ~Brings(i, fd) /\ ~Closes(h, fd)
    BY <1>6 DEF FramesInv, Owned, OpenIffOwned
  <1>15. \A h \in Handlers, g \in Fds : Closes(h, g)' <=> Closes(h, g)
    BY <1>5 DEF Closes
  <1>16. OpenIffOwned'
    <2>1. ASSUME NEW g \in Fds
          PROVE  file'[g] # None <=>
                   \/ \E i \in 1 .. Len(cq') : Brings(i, g)'
                   \/ \E h \in Handlers : Closes(h, g)'
      <3>1. file[g] # None <=> \/ \E i \in 1 .. Len(cq) : Brings(i, g)
                               \/ \E h \in Handlers : Closes(h, g)
        BY DEF FramesInv, Owned, OpenIffOwned
      <3> QED  BY <1>6, <1>10, <1>12, <1>13, <1>15, <3>1
    <2> QED  BY <2>1 DEF OpenIffOwned
  <1>17. OneOwner'
    <2> SUFFICES ASSUME NEW g \in Fds
                 PROVE
          /\ \A i, j \in 1 .. Len(cq') : Brings(i, g)' /\ Brings(j, g)' => i = j
          /\ \A h, k \in Handlers : Closes(h, g)' /\ Closes(k, g)' => h = k
          /\ \A i \in 1 .. Len(cq'), h \in Handlers :
                ~(Brings(i, g)' /\ Closes(h, g)')
      BY DEF OneOwner
    <2>1. /\ \A i, j \in 1 .. Len(cq) : Brings(i, g) /\ Brings(j, g) => i = j
          /\ \A h, k \in Handlers : Closes(h, g) /\ Closes(k, g) => h = k
          /\ \A i \in 1 .. Len(cq), h \in Handlers :
                ~(Brings(i, g) /\ Closes(h, g))
      BY DEF FramesInv, Owned, OneOwner
    <2>2. CASE g = fd
      <3>1. \A i \in 1 .. Len(cq') : Brings(i, g)' => i = Len(cq) + 1
        BY <1>12, <1>14, <2>2, ConnsAssumption DEF Handlers
      <3>2. \A h \in Handlers : ~Closes(h, g)'
        BY <1>6, <1>15, <2>2 DEF FramesInv, Owned, OpenIffOwned
      <3> QED  BY <3>1, <3>2
    <2>3. CASE g # fd
      BY <1>12, <1>15, <2>1, <2>3
    <2> QED  BY <2>2, <2>3
  <1>18. HandlersHaveTheirs'
    <2>1. \A d \in live : d \in Conns => sock[d] \in Fds /\ file[sock[d]] = d
      BY DEF FramesInv, Owned, HandlersHaveTheirs
    <2>2. \A d \in live : d \in Conns => sock[d] # fd
      BY <1>6, <2>1, ConnsAssumption
    <2> QED  BY <1>5, <1>10, <2>1, <2>2 DEF HandlersHaveTheirs
  <1>19. OnlyFrames' /\ Turns' /\ SendersParsed'
    BY <1>5, <1>7 DEF FramesInv, OnlyFrames, Turns, SendersParsed
  <1> QED
    BY <1>8, <1>9, <1>11, <1>16, <1>17, <1>18, <1>19 DEF FramesInv, Owned

(* The completions of a receive, without a buffer and with one. *)
LEMMA AnswerPlain ==
    ASSUME NEW h \in Handlers, NEW res \in {"eof", "error"}
    PROVE  LET e == Completion(Receiver(h), res)
           IN  e \in Cqes /\ e.data = Receiver(h) /\ e.res # "ok" /\ ~e.more
  <1>1. Completion(Receiver(h), res) \in Cqes
    BY FrameTypes, CompletionType DEF Results
  <1> QED  BY <1>1 DEF Completion

LEMMA AnswerBuffer ==
    ASSUME NEW h \in Handlers, NEW res \in {"data", "eof"}, NEW b \in BufferIds
    PROVE  LET e == [Completion(Receiver(h), res) EXCEPT !.buf = b]
           IN  e \in Cqes /\ e.data = Receiver(h) /\ e.res # "ok" /\ ~e.more
  BY FrameTypes DEF Completion, Cqes, Results

LEMMA KernelFrames ==
    ASSUME TypeOK, FramesInv, Kernel
    PROVE  FramesInv'
  <1>1. CASE FailAccept
    <2>1. PICK r \in kernel, res \in {"error", "refused"} :
            r.data = Acceptor /\ Complete(r, Completion(Acceptor, res))
      BY <1>1 DEF FailAccept
    <2> DEFINE e == Completion(Acceptor, res)
    <2>2. e \in Cqes /\ e.data = Acceptor /\ e.res = res /\ ~e.more
      BY FrameTypes, CompletionType DEF Completion, Results
    <2>3. UNCHANGED <<sq, peer, backlog, file, loop, current, live, sock, parsed,
                      senders>> /\ Phantom \notin live
      BY <1>1 DEF FailAccept, clientVars, netVars, frameVars
    <2>4. Complete(r, e)
      BY <2>1
    <2> HIDE DEF e
    <2> QED  BY <2>1, <2>2, <2>3, <2>4, AnswerFrames
  <1>2. ASSUME NEW h \in Handlers, KernelReceive(h)
        PROVE  FramesInv'
    <2>1. PICK r \in kernel, e \in Cqes :
            /\ r.data = Receiver(h) /\ e.data = Receiver(h)
            /\ e.res # "ok" /\ ~e.more
            /\ Complete(r, e)
      <3>1. CASE Receive(h)
        <4>1. PICK r \in kernel :
                /\ r.data = Receiver(h)
                /\ Complete(r, [Completion(Receiver(h), "data")
                                    EXCEPT !.buf = NextBuffer])
          BY <3>1 DEF Receive
        <4>2. NextBuffer \in BufferIds
          BY <3>1, SelectType DEF Receive, TypeOK
        <4> QED  BY <4>1, <4>2, AnswerBuffer
      <3>2. CASE ReceiveEof(h)
        <4>1. PICK r \in kernel :
                /\ r.data = Receiver(h)
                /\ \/ Complete(r, Completion(Receiver(h), "eof"))
                   \/ Complete(r, [Completion(Receiver(h), "eof")
                                       EXCEPT !.buf = NextBuffer])
            BY <3>2 DEF ReceiveEof
        <4>2. NextBuffer \in BufferIds
          BY <3>2 DEF TypeOK, RingTypeOK, NextBuffer
        <4> QED  BY <4>1, <4>2, AnswerPlain, AnswerBuffer
      <3>3. CASE FailReceive(h)
        <4>1. PICK r \in kernel :
                /\ r.data = Receiver(h)
                /\ Complete(r, Completion(Receiver(h), "error"))
          BY <3>3 DEF FailReceive
        <4> QED  BY <4>1, AnswerPlain
      <3> QED  BY <1>2, <3>1, <3>2, <3>3 DEF KernelReceive
    <2>2. UNCHANGED <<sq, peer, backlog, file, loop, current, live, sock, parsed,
                      senders>>
      BY <1>2
      DEF KernelReceive, Receive, ReceiveEof, FailReceive, clientVars, netVars,
          frameVars
    <2> QED  BY <2>1, <2>2, AnswerFrames, FramesDiffer
  <1>3. ASSUME NEW c \in Conns, NEW q \in Requests, KernelSend(c, q)
        PROVE  FramesInv'
    <2>1. PICK r \in kernel, res \in {"all", "some", "error"} :
            r.data = Sender(c, q) /\ Complete(r, Completion(Sender(c, q), res))
      BY <1>3 DEF KernelSend, CompleteSend, FailSend
    <2> DEFINE e == Completion(Sender(c, q), res)
    <2>2. e \in Cqes /\ e.data = Sender(c, q) /\ e.res = res /\ ~e.more
      <3>1. Sender(c, q) \in FrameIds
        BY FrameTypes DEF Requests
      <3> QED  BY <3>1, CompletionType DEF Completion, Results
    <2>3. UNCHANGED <<sq, peer, backlog, file, loop, current, live, sock, parsed,
                      senders>>
      BY <1>3
      DEF KernelSend, CompleteSend, FailSend, clientVars, netVars, frameVars
    <2>4. Complete(r, e) /\ q \in Nat
      BY <2>1 DEF Requests
    <2> HIDE DEF e
    <2> QED  BY <2>1, <2>2, <2>3, <2>4, AnswerFrames, FramesDiffer
  <1> QED  BY <1>1, <1>2, <1>3, CompleteAcceptFrames DEF Kernel

-----------------------------------------------------------------------------
(* Steps of the event loop that resume no frame *)

LEMMA LoopFrames ==
    ASSUME TypeOK, FramesInv, Submit \/ StartBatch \/ EndBatch
    PROVE  FramesInv'
  <1>1. /\ UNCHANGED <<cq, peer, backlog, file, current, live, sock, parsed, senders>>
        /\ loop # "parse" /\ loop' # "parse"
    BY DEF Submit, StartBatch, EndBatch, uringVars, clientVars, netVars, frameVars
  <1>2. OneRequestEach'
    <2>1. ASSUME NEW f \in AllFrames
          PROVE  (Single(f) /\ (Somewhere(f) <=> f \in Waiting))'
      <3>1. Single(f) /\ (Somewhere(f) <=> f \in Waiting)
        BY DEF FramesInv, OneRequestEach
      <3>2. Single(f)' /\ (Somewhere(f)' <=> Somewhere(f))
        <4>1. CASE Submit
          BY <3>1, <4>1, MoveSubmit
        <4>2. CASE StartBatch \/ EndBatch
          BY <1>1, <3>1, <4>2
          DEF StartBatch, EndBatch, uringVars, Single, Somewhere
        <4> QED  BY <4>1, <4>2
      <3> QED  BY <1>1, <3>1, <3>2 DEF Waiting
    <2> QED  BY <2>1 DEF OneRequestEach
  <1>3. OnlyFrames'
    <2>1. CASE Submit
      BY <2>1 DEF Submit, submit_and_wait, FramesInv, OnlyFrames
    <2>2. CASE StartBatch \/ EndBatch
      BY <2>2 DEF StartBatch, EndBatch, uringVars, FramesInv, OnlyFrames
    <2> QED  BY <2>1, <2>2
  <1>4. Owned'
    BY <1>1
    DEF FramesInv, Owned, OpenIffOwned, OneOwner, HandlersHaveTheirs,
        AcceptedOnce, Brings, Closes
  <1> QED
    BY <1>1, <1>2, <1>3, <1>4
    DEF FramesInv, Turns, SendersParsed, MultishotAccepts, PhantomOnce

(* The submission queue has room in every step that does not terminate. *)
LEMMA PreparedAlive ==
    ASSUME NEW sqes, NEW next, Prepare(sqes, next), Alive'
    PROVE  sq' = sq \o sqes /\ loop' = next
  BY DEF Prepare, Alive

LEMMA PreparedFrames ==
    ASSUME TypeOK, OnlyFrames, NEW made \in Seq(Sqes), sq' = sq \o made,
           kernel' = kernel,
           \A i \in 1 .. Len(made) : made[i].data \in AllFrames
    PROVE  OnlyFrames'
  <1>1. \A i \in 1 .. Len(sq') :
           \/ i \in 1 .. Len(sq) /\ sq'[i] = sq[i]
           \/ i - Len(sq) \in 1 .. Len(made) /\ sq'[i] = made[i - Len(sq)]
    BY DEF TypeOK
  <1> QED  BY <1>1 DEF OnlyFrames

(* The handler that parses asks for the next packet, after it has answered  *)
(* a request or not.                                                        *)
LEMMA ParseFrames ==
    ASSUME TypeOK, FramesInv, NEW h \in Handlers, ParsePart(h) \/ ParseRequest(h),
           Alive'
    PROVE  FramesInv'
  <1> DEFINE again == Request(Receiver(h), sock[h])
  <1> DEFINE q == parsed[h] + 1
  <1> DEFINE answer == Request(Sender(h, q), sock[h])
  <1>1. /\ UNCHANGED <<kernel, cq, peer, backlog, file, live, sock>>
        /\ loop = "parse" /\ loop' = "visit" /\ current.conn = h /\ current' = Idle
    BY PreparedAlive
    DEF ParsePart, ParseRequest, NextPacket, clientVars, netVars, frameVars
  <1>2. again \in Sqes /\ again.data = Receiver(h)
    BY FrameTypes, RequestType DEF TypeOK, Request
  <1>3. h \in live /\ None \notin live
    BY <1>1, ConnsAssumption DEF FramesInv, Turns, Handlers, TypeOK
  <1>4. ASSUME NEW f \in AllFrames
        PROVE  Single(f) /\ (Somewhere(f) <=> f \in Waiting)
    BY DEF FramesInv, OneRequestEach
  <1>5. Idle.conn = None
    BY DEF Idle
  <1>6. CASE ParsePart(h)
    <2>1. sq' = sq \o <<again>> /\ UNCHANGED <<parsed, senders>>
      <3>1. sq' = sq \o (<<>> \o <<again>>)
        BY <1>6, PreparedAlive DEF ParsePart, NextPacket
      <3> QED  BY <1>2, <1>6, <3>1 DEF ParsePart, frameVars
    <2>2. <<again>> \in Seq(Sqes)
      BY <1>2
    <2> HIDE DEF again
    <2>4. ASSUME NEW f \in AllFrames
          PROVE  (Single(f) /\ (Somewhere(f) <=> f \in Waiting))'
      <3>1. f = Receiver(h) => ~Somewhere(f)
        BY <1>1, <1>4, WhoWaits
      <3>2. /\ AtMostOne(Asked(<<again>>, f))
            /\ Asked(<<again>>, f) # {} <=> f = Receiver(h)
        BY <1>2, AskedTwo
      <3>3. Single(f)' /\ (Somewhere(f)' <=> Somewhere(f) \/ f = Receiver(h))
        BY <1>1, <1>4, <2>1, <2>2, <3>1, <3>2, MovePrepare
      <3>4. f \in Waiting' <=> f \in Waiting \/ f = Receiver(h)
        BY <1>1, <1>3, <1>5, <2>1 DEF Waiting
      <3> QED  BY <1>4, <3>3, <3>4
    <2>5. OneRequestEach'
      BY <2>4 DEF OneRequestEach
    <2>6. OnlyFrames'
      <3>1. \A i \in 1 .. Len(<<again>>) : <<again>>[i].data \in AllFrames
        BY <1>2, FrameCases
      <3> QED  BY <1>1, <2>1, <2>2, <3>1, PreparedFrames DEF FramesInv
    <2>7. Owned'
      BY <1>1
      DEF FramesInv, Owned, OpenIffOwned, OneOwner, HandlersHaveTheirs,
          AcceptedOnce, Brings, Closes
    <2> QED
      BY <1>1, <2>1, <2>5, <2>6, <2>7
      DEF FramesInv, Turns, SendersParsed, MultishotAccepts, PhantomOnce
  <1>7. CASE ParseRequest(h)
    <2>1. /\ h \in Conns /\ q \in Nat
          /\ parsed' = [parsed EXCEPT ![h] = q]
          /\ senders' = senders \cup {<<h, q>>}
      BY <1>7 DEF ParseRequest, TypeOK
    <2>2. answer \in Sqes /\ answer.data = Sender(h, q)
      BY <2>1, FrameTypes, RequestType DEF TypeOK, Request
    <2>3. sq' = sq \o <<answer, again>>
      <3>1. sq' = sq \o (<<answer>> \o <<again>>)
        BY <1>7, PreparedAlive
        DEF ParseRequest, NextPacket, Response, ResponseSocket
      <3> QED  BY <1>2, <2>2, <3>1
    <2>4. <<h, q>> \notin senders
      BY <2>1 DEF FramesInv, SendersParsed, TypeOK
    <2>5. <<answer, again>> \in Seq(Sqes)
      BY <1>2, <2>2
    <2>6. Sender(h, q) # Receiver(h)
      BY <2>1, FramesDiffer
    <2> HIDE DEF again, answer, q
    <2>7. ASSUME NEW f \in AllFrames
          PROVE  (Single(f) /\ (Somewhere(f) <=> f \in Waiting))'
      <3>1. f = Receiver(h) \/ f = Sender(h, q) => ~Somewhere(f)
        BY <1>1, <1>4, <2>1, <2>4, WhoWaits
      <3>2. /\ AtMostOne(Asked(<<answer, again>>, f))
            /\ Asked(<<answer, again>>, f) # {} <=> f = Receiver(h) \/ f = Sender(h, q)
        <4>1. answer \in Sqes /\ again \in Sqes
          BY <1>2, <2>2
        <4>2. answer.data = Sender(h, q) /\ again.data = Receiver(h)
          BY <1>2, <2>2
        <4>3. answer.data # again.data
          BY <2>6, <4>2
        <4>4. /\ AtMostOne(Asked(<<answer, again>>, f))
              /\ Asked(<<answer, again>>, f) # {} <=> f = again.data \/ f = answer.data
          BY <4>1, <4>3, AskedPair, Zenon
        <4> QED  BY <4>2, <4>4
      <3>4. /\ Single(f)'
            /\ Somewhere(f)' <=>
                 Somewhere(f) \/ f = Receiver(h) \/ f = Sender(h, q)
        BY <1>1, <1>4, <2>3, <2>5, <3>1, <3>2, MovePrepare
      <3>5. f \in Waiting' <=> f \in Waiting \/ f = Receiver(h) \/ f = Sender(h, q)
        <4>1. <<h, q>>[1] = h /\ <<h, q>>[2] = q
          OBVIOUS
        <4>2. live' \ {current'.conn} = (live \ {current.conn}) \cup {h}
          BY <1>1, <1>3, <1>5
        <4> QED  BY <2>1, <4>1, <4>2 DEF Waiting
      <3> QED  BY <1>4, <3>4, <3>5
    <2>8. OneRequestEach'
      BY <2>7 DEF OneRequestEach
    <2>9. OnlyFrames'
      <3>1. \A i \in 1 .. Len(<<answer, again>>) :
               <<answer, again>>[i].data \in AllFrames
        BY <1>2, <2>1, <2>2, FrameCases
      <3> QED  BY <1>1, <2>3, <2>5, <3>1, PreparedFrames DEF FramesInv
    <2>10. SendersParsed'
      <3>1. \A c \in Conns : parsed[c] \in Nat /\ parsed'[c] \in Nat
                             /\ parsed[c] <= parsed'[c] /\ parsed'[h] = q
        BY <2>1 DEF TypeOK, q
      <3> QED  BY <2>1, <3>1 DEF FramesInv, SendersParsed
    <2>11. Owned'
      BY <1>1
      DEF FramesInv, Owned, OpenIffOwned, OneOwner, HandlersHaveTheirs,
          AcceptedOnce, Brings, Closes
    <2> QED
      BY <1>1, <2>8, <2>9, <2>10, <2>11
      DEF FramesInv, Turns, MultishotAccepts, PhantomOnce
  <1> QED  BY <1>6, <1>7

-----------------------------------------------------------------------------
(* Steps of the event loop that see a completion and resume its frame *)

LEMMA SeenEntries ==
    ASSUME TypeOK, cqe_seen
    PROVE  /\ Len(cq) \in Nat \ {0} /\ Len(cq') = Len(cq) - 1
           /\ 1 \in 1 .. Len(cq) /\ Current = cq[1]
           /\ \A i \in 1 .. Len(cq') :
                 i + 1 \in 1 .. Len(cq) /\ cq'[i] = cq[i + 1] /\ i + 1 # 1
           /\ \A i \in 1 .. Len(cq) :
                 i # 1 => i - 1 \in 1 .. Len(cq') /\ cq'[i - 1] = cq[i]
  <1>1. cq \in Seq(Cqes) /\ Len(cq) # 0 /\ cq' = Tail(cq) /\ Current = Head(cq)
    BY DEF TypeOK, cqe_seen, Current
  <1> QED  BY <1>1

LEMMA SeenAnswers ==
    ASSUME TypeOK, MultishotAccepts, PhantomOnce, cqe_seen
    PROVE  /\ MultishotAccepts'
           /\ (Phantom \in live' => Phantom \in live) => PhantomOnce'
  <1>1. MultishotAccepts'
    BY SeenEntries DEF MultishotAccepts
  <1>2. ASSUME Phantom \in live' => Phantom \in live
        PROVE  PhantomOnce'
    BY <1>2, SeenEntries DEF PhantomOnce
  <1> QED  BY <1>1, <1>2

LEMMA SeenOwned ==
    ASSUME TypeOK, Owned, cqe_seen, Current.res # "ok",
           UNCHANGED <<file, live, sock, peer, backlog>>
    PROVE  Owned'
  <1>1. \A i \in 1 .. Len(cq'), fd \in Fds : Brings(i, fd)' <=> Brings(i + 1, fd)
    BY SeenEntries DEF Brings
  <1>2. \A fd \in Fds : (\E i \in 1 .. Len(cq') : Brings(i, fd)')
                          <=> (\E i \in 1 .. Len(cq) : Brings(i, fd))
    <2>1. \A fd \in Fds : ~Brings(1, fd)
      BY SeenEntries DEF Brings
    <2>2. \A i \in 1 .. Len(cq), fd \in Fds :
             Brings(i, fd) => i - 1 \in 1 .. Len(cq') /\ Brings(i - 1, fd)'
      BY <2>1, SeenEntries DEF Brings
    <2> QED  BY <1>1, <2>2, SeenEntries
  <1>3. OpenIffOwned'
    BY <1>2 DEF Owned, OpenIffOwned, Closes
  <1>4. OneOwner'
    <2> SUFFICES ASSUME NEW fd \in Fds
                 PROVE
          /\ \A i, j \in 1 .. Len(cq') : Brings(i, fd)' /\ Brings(j, fd)' => i = j
          /\ \A g, h \in Handlers : Closes(g, fd)' /\ Closes(h, fd)' => g = h
          /\ \A i \in 1 .. Len(cq'), h \in Handlers :
                ~(Brings(i, fd)' /\ Closes(h, fd)')
      BY DEF OneOwner
    <2>1. /\ \A i, j \in 1 .. Len(cq) : Brings(i, fd) /\ Brings(j, fd) => i = j
          /\ \A g, h \in Handlers : Closes(g, fd) /\ Closes(h, fd) => g = h
          /\ \A i \in 1 .. Len(cq), h \in Handlers :
                ~(Brings(i, fd) /\ Closes(h, fd))
      BY DEF Owned, OneOwner
    <2>2. \A h \in Handlers : Closes(h, fd)' <=> Closes(h, fd)
      BY DEF Closes
    <2>3. \A i, j \in 1 .. Len(cq') : Brings(i, fd)' /\ Brings(j, fd)' => i = j
      BY <1>1, <2>1, SeenEntries
    <2> QED  BY <1>1, <2>1, <2>2, <2>3, SeenEntries
  <1>5. HandlersHaveTheirs' /\ AcceptedOnce'
    BY DEF Owned, HandlersHaveTheirs, AcceptedOnce
  <1> QED  BY <1>3, <1>4, <1>5 DEF Owned

(* A frame that is resumed was waiting, and it was not asked for anything   *)
(* else.                                                                    *)
LEMMA ResumedFrame ==
    ASSUME TypeOK, FramesInv, NEW f \in AllFrames, NEW res, Resume(f, res)
    PROVE  /\ cqe_seen /\ kernel' = kernel /\ loop = "visit" /\ current = Idle
           /\ Current.data = f /\ Current.res = res
           /\ res # "ok" => ~Current.more
           /\ ~Current.more => f \in Waiting
  <1>1. cqe_seen /\ kernel' = kernel /\ loop = "visit"
          /\ Current.data = f /\ Current.res = res
    BY DEF Resume
  <1>2. current = Idle
    BY <1>1 DEF FramesInv, Turns
  <1>3. res # "ok" => ~Current.more
    BY <1>1, SeenEntries DEF FramesInv, MultishotAccepts
  <1>4. ~Current.more => 1 \in Answered(cq, f)
    BY <1>1, SeenEntries DEF Answered
  <1> QED
    BY <1>1, <1>2, <1>3, <1>4 DEF FramesInv, OneRequestEach, Somewhere

(* No entry is filled: the resumed frame has no request left. *)
LEMMA ResumedQuiet ==
    ASSUME TypeOK, FramesInv, NEW f \in AllFrames, NEW res, res # "ok",
           Resume(f, res), sq' = sq
    PROVE  \A g \in AllFrames :
              Single(g)' /\ (Somewhere(g)' <=> g \in Waiting /\ g # f)
  <1>1. sq \in Seq(Sqes) /\ <<>> \in Seq(Sqes) /\ sq' = sq \o <<>>
    BY DEF TypeOK
  <1>2. \A g : Asked(<<>>, g) = {}
    BY DEF Asked
  <1> SUFFICES ASSUME NEW g \in AllFrames
               PROVE  Single(g)' /\ (Somewhere(g)' <=> g \in Waiting /\ g # f)
    OBVIOUS
  <1>3. Single(g) /\ (Somewhere(g) <=> g \in Waiting)
    BY DEF FramesInv, OneRequestEach
  <1>4. AtMostOne({})
    BY DEF AtMostOne
  <1> QED  BY <1>1, <1>2, <1>3, <1>4, ResumedFrame, MoveResume

(* One entry is filled for it: it waits as before. *)
LEMMA ResumedAgain ==
    ASSUME TypeOK, FramesInv, NEW f \in AllFrames, NEW res, Resume(f, res),
           ~Current.more,
           NEW a \in Sqes, a.data = f, sq' = sq \o <<a>>
    PROVE  \A g \in AllFrames :
              Single(g)' /\ (Somewhere(g)' <=> g \in Waiting)
  <1> SUFFICES ASSUME NEW g \in AllFrames
               PROVE  Single(g)' /\ (Somewhere(g)' <=> g \in Waiting)
    OBVIOUS
  <1>1. /\ <<a>> \in Seq(Sqes)
        /\ AtMostOne(Asked(<<a>>, g))
        /\ Asked(<<a>>, g) # {} <=> g = f
    <2>1. <<a>> \in Seq(Sqes)
      OBVIOUS
    <2>2. AtMostOne(Asked(<<a>>, g)) /\ (Asked(<<a>>, g) # {} <=> a.data = g)
      BY AskedTwo
    <2> QED  BY <2>1, <2>2
  <1>2. Single(g) /\ (Somewhere(g) <=> g \in Waiting)
    BY DEF FramesInv, OneRequestEach
  <1>3. /\ cqe_seen /\ kernel' = kernel /\ Current.data = f /\ f \in Waiting
    BY ResumedFrame
  <1>4. /\ Single(g)'
        /\ Somewhere(g)' <=> (Somewhere(g) /\ ~(Current.data = g /\ ~Current.more))
                             \/ Asked(<<a>>, g) # {}
    BY <1>1, <1>2, <1>3, MoveResume
  <1> QED  BY <1>1, <1>2, <1>3, <1>4

LEMMA ReceivedFrames ==
    ASSUME TypeOK, FramesInv, NEW h \in Handlers, Received(h)
    PROVE  FramesInv'
  <1>1. /\ UNCHANGED <<sq, peer, backlog, file, live, sock, parsed, senders>>
        /\ Resume(Receiver(h), "data")
        /\ loop' = "parse" /\ current'.conn = h
    BY DEF Received, clientVars, netVars, frameVars
  <1>2. /\ cqe_seen /\ kernel' = kernel /\ Current.res = "data"
        /\ current = Idle /\ Receiver(h) \in Waiting
    BY <1>1, FrameCases, ResumedFrame
  <1>3. h \in live /\ None \notin live
    BY <1>2, WhoWaits, ConnsAssumption DEF TypeOK, Handlers
  <1>4. OneRequestEach'
    <2>1. ASSUME NEW f \in AllFrames
          PROVE  (Single(f) /\ (Somewhere(f) <=> f \in Waiting))'
      <3>1. Single(f)' /\ (Somewhere(f)' <=> f \in Waiting /\ f # Receiver(h))
        BY <1>1, FrameCases, ResumedQuiet
      <3>2. live' \ {current'.conn} = (live \ {current.conn}) \ {h}
        BY <1>1, <1>2, <1>3 DEF Idle
      <3>3. \A g \in live : g # h => Receiver(g) # Receiver(h)
        BY FramesDiffer DEF TypeOK
      <3>4. /\ Acceptor # Receiver(h)
            /\ \A p \in senders : Sender(p[1], p[2]) # Receiver(h)
        BY FramesDiffer DEF TypeOK
      <3>5. f \in Waiting' <=> f \in Waiting /\ f # Receiver(h)
        BY <1>1, <3>2, <3>3, <3>4 DEF Waiting
      <3> QED  BY <3>1, <3>5
    <2> QED  BY <2>1 DEF OneRequestEach
  <1>5. MultishotAccepts' /\ PhantomOnce'
    BY <1>1, <1>2, SeenAnswers DEF FramesInv
  <1>6. Owned'
    BY <1>1, <1>2, SeenOwned DEF FramesInv
  <1>7. OnlyFrames' /\ SendersParsed' /\ Turns'
    BY <1>1, <1>2, <1>3 DEF FramesInv, OnlyFrames, SendersParsed, Turns
  <1> QED  BY <1>4, <1>5, <1>6, <1>7 DEF FramesInv

(* The frame that ends is that of a handler which exists, so the descriptor *)
(* it closes is its own.                                                    *)
LEMMA ReceivedEofFrames ==
    ASSUME TypeOK, FramesInv, NEW h \in Handlers, ReceivedEof(h)
    PROVE  FramesInv'
  <1>1. /\ UNCHANGED <<sq, peer, backlog, current, loop, sock, parsed, senders>>
        /\ Resume(Receiver(h), "eof")
        /\ live' = live \ {h} /\ file' = [file EXCEPT ![sock[h]] = None]
    BY DEF ReceivedEof, clientVars, CloseSocket
  <1>2. /\ cqe_seen /\ kernel' = kernel /\ Current.res = "eof"
        /\ current = Idle /\ loop = "visit" /\ Receiver(h) \in Waiting
    BY <1>1, FrameCases, ResumedFrame
  <1>3. h \in live /\ None \notin live
    BY <1>2, WhoWaits, ConnsAssumption DEF TypeOK, Handlers
  <1>4. OneRequestEach'
    <2>1. ASSUME NEW f \in AllFrames
          PROVE  (Single(f) /\ (Somewhere(f) <=> f \in Waiting))'
      <3>1. Single(f)' /\ (Somewhere(f)' <=> f \in Waiting /\ f # Receiver(h))
        BY <1>1, FrameCases, ResumedQuiet
      <3>2. live' \ {current'.conn} = (live \ {current.conn}) \ {h}
        BY <1>1, <1>2, <1>3 DEF Idle
      <3>3. \A g \in live : g # h => Receiver(g) # Receiver(h)
        BY FramesDiffer DEF TypeOK
      <3>4. /\ Acceptor # Receiver(h)
            /\ \A p \in senders : Sender(p[1], p[2]) # Receiver(h)
        BY FramesDiffer DEF TypeOK
      <3>5. f \in Waiting' <=> f \in Waiting /\ f # Receiver(h)
        BY <1>1, <3>2, <3>3, <3>4 DEF Waiting
      <3> QED  BY <3>1, <3>5
    <2> QED  BY <2>1 DEF OneRequestEach
  <1>5. MultishotAccepts' /\ PhantomOnce'
    BY <1>1, <1>2, SeenAnswers DEF FramesInv
  <1>6. Owned'
    <2>1. /\ \A fd \in Fds : file'[fd] = IF fd = sock[h] THEN None ELSE file[fd]
          /\ \A c \in Conns : c # None
      BY <1>1, ConnsAssumption DEF TypeOK
    <2>2. \A g \in Handlers, fd \in Fds :
             Closes(g, fd)' <=> Closes(g, fd) /\ fd # sock[h]
      <3>1. h \in Handlers /\ \A fd \in Fds : fd = sock[h] => Closes(h, fd)
        BY <1>3 DEF Closes
      <3>2. \A g \in Handlers, fd \in Fds :
               Closes(g, fd) /\ fd = sock[h] => g = h
        BY <3>1 DEF FramesInv, Owned, OneOwner
      <3> QED  BY <1>1, <3>1, <3>2 DEF Closes
    <2>3. \A i \in 1 .. Len(cq), fd \in Fds : Brings(i, fd) => i # 1 /\ fd # sock[h]
      <3>1. \A i \in 1 .. Len(cq), fd \in Fds : ~(Brings(i, fd) /\ Closes(h, fd))
        BY DEF FramesInv, Owned, OneOwner
      <3> QED  BY <1>2, <1>3, <3>1, SeenEntries DEF Brings, Closes
    <2>4. /\ \A i \in 1 .. Len(cq'), fd \in Fds : Brings(i, fd)' <=> Brings(i + 1, fd)
          /\ \A i \in 1 .. Len(cq), fd \in Fds :
                Brings(i, fd) => i - 1 \in 1 .. Len(cq') /\ Brings(i - 1, fd)'
      BY <1>2, <2>3, SeenEntries DEF Brings
    <2>5. OpenIffOwned'
      <3>1. ASSUME NEW fd \in Fds
            PROVE  file'[fd] # None <=>
                     \/ \E i \in 1 .. Len(cq') : Brings(i, fd)'
                     \/ \E g \in Handlers : Closes(g, fd)'
        <4>1. file[fd] # None <=> \/ \E i \in 1 .. Len(cq) : Brings(i, fd)
                                  \/ \E g \in Handlers : Closes(g, fd)
          BY DEF FramesInv, Owned, OpenIffOwned
        <4>2. (\E i \in 1 .. Len(cq') : Brings(i, fd)')
                <=> (\E i \in 1 .. Len(cq) : Brings(i, fd))
          BY <1>2, <2>4, SeenEntries
        <4>3. (\E i \in 1 .. Len(cq) : Brings(i, fd)) => fd # sock[h]
          BY <2>3
        <4>4. fd = sock[h] => \A g \in Handlers : ~Closes(g, fd)'
          BY <2>2
        <4>5. fd # sock[h] => \A g \in Handlers : Closes(g, fd)' <=> Closes(g, fd)
          BY <2>2
        <4> QED  BY <2>1, <4>1, <4>2, <4>3, <4>4, <4>5
      <3> QED  BY <3>1 DEF OpenIffOwned
    <2>6. OneOwner'
      <3> SUFFICES ASSUME NEW fd \in Fds
                   PROVE
            /\ \A i, j \in 1 .. Len(cq') : Brings(i, fd)' /\ Brings(j, fd)' => i = j
            /\ \A g, k \in Handlers : Closes(g, fd)' /\ Closes(k, fd)' => g = k
            /\ \A i \in 1 .. Len(cq'), g \in Handlers :
                  ~(Brings(i, fd)' /\ Closes(g, fd)')
        BY DEF OneOwner
      <3>1. /\ \A i, j \in 1 .. Len(cq) : Brings(i, fd) /\ Brings(j, fd) => i = j
            /\ \A g, k \in Handlers : Closes(g, fd) /\ Closes(k, fd) => g = k
            /\ \A i \in 1 .. Len(cq), g \in Handlers :
                  ~(Brings(i, fd) /\ Closes(g, fd))
        BY DEF FramesInv, Owned, OneOwner
      <3>2. \A i, j \in 1 .. Len(cq') : Brings(i, fd)' /\ Brings(j, fd)' => i = j
        BY <1>2, <2>4, <3>1, SeenEntries
      <3> QED  BY <1>2, <2>2, <2>4, <3>1, <3>2, SeenEntries
    <2>7. HandlersHaveTheirs'
      <3>1. ASSUME NEW c \in Conns, c \in live'
            PROVE  sock'[c] \in Fds /\ file'[sock'[c]] = c
        <4>1. c \in live /\ c # h /\ sock[c] \in Fds /\ file[sock[c]] = c
          BY <1>1, <3>1 DEF FramesInv, Owned, HandlersHaveTheirs
        <4>2. c \in Handlers /\ Closes(c, sock[c])
          BY <4>1 DEF Closes, Handlers
        <4>3. sock[c] = sock[h] => Closes(h, sock[c])
          BY <1>3 DEF Closes
        <4>4. sock[c] # sock[h]
          BY <4>1, <4>2, <4>3 DEF FramesInv, Owned, OneOwner
        <4> QED  BY <1>1, <2>1, <4>1, <4>4
      <3> QED  BY <3>1 DEF HandlersHaveTheirs
    <2>8. AcceptedOnce'
      BY <1>1, <2>1 DEF FramesInv, Owned, AcceptedOnce
    <2> QED  BY <2>5, <2>6, <2>7, <2>8 DEF Owned
  <1>7. OnlyFrames' /\ SendersParsed' /\ Turns'
    BY <1>1, <1>2 DEF FramesInv, OnlyFrames, SendersParsed, Turns
  <1> QED  BY <1>4, <1>5, <1>6, <1>7 DEF FramesInv

LEMMA SentFrames ==
    ASSUME TypeOK, FramesInv, NEW c \in Conns, NEW q \in Requests,
           SentAll(c, q) \/ SentError(c, q) \/ SentSome(c, q), Alive'
    PROVE  FramesInv'
  <1>1. Sender(c, q) \in AllFrames /\ q \in Nat
    BY FrameCases DEF Requests
  <1>2. PICK res \in {"all", "error", "some"} :
          /\ Resume(Sender(c, q), res)
          /\ SentSome(c, q) => res = "some"
    BY DEF SentAll, SentError, SentSome
  <1>3. /\ cqe_seen /\ kernel' = kernel /\ Current.res = res /\ ~Current.more
        /\ current = Idle /\ loop = "visit" /\ Sender(c, q) \in Waiting
    BY <1>1, <1>2, ResumedFrame
  <1>4. /\ UNCHANGED <<peer, backlog, file, live, current, sock, parsed>>
        /\ senders' \subseteq senders /\ loop' = "visit"
    BY <1>3, PreparedAlive
    DEF SentAll, SentError, SentSome, EndSend, clientVars, netVars
  <1>5. OneRequestEach' /\ OnlyFrames'
    <2>1. CASE SentAll(c, q) \/ SentError(c, q)
      <3>1. sq' = sq /\ senders' = senders \ {<<c, q>>}
        BY <2>1 DEF SentAll, SentError, EndSend
      <3>2. ASSUME NEW f \in AllFrames
            PROVE  (Single(f) /\ (Somewhere(f) <=> f \in Waiting))'
        <4>1. Single(f)' /\ (Somewhere(f)' <=> f \in Waiting /\ f # Sender(c, q))
          BY <1>1, <1>2, <3>1, ResumedQuiet
        <4>2. \A p \in senders :
                 p # <<c, q>> => Sender(p[1], p[2]) # Sender(c, q)
          <5>1. \A p \in senders : p = <<p[1], p[2]>> /\ p[1] \in Conns /\ p[2] \in Nat
            BY DEF TypeOK
          <5> QED  BY <1>1, <5>1, FramesDiffer
        <4>3. /\ Acceptor # Sender(c, q)
              /\ \A g \in live : Receiver(g) # Sender(c, q)
          BY <1>1, FramesDiffer DEF TypeOK
        <4>4. <<c, q>>[1] = c /\ <<c, q>>[2] = q
          OBVIOUS
        <4>5. f \in Waiting' <=> f \in Waiting /\ f # Sender(c, q)
          BY <1>4, <3>1, <4>2, <4>3, <4>4 DEF Waiting
        <4> QED  BY <4>1, <4>5
      <3> QED  BY <1>3, <3>1, <3>2 DEF OneRequestEach, FramesInv, OnlyFrames
    <2>2. CASE SentSome(c, q)
      <3>1. PICK fd \in SocketRead(c) :
              sq' = sq \o <<Request(Sender(c, q), fd)>>
        BY <2>2, PreparedAlive DEF SentSome
      <3>2. /\ Request(Sender(c, q), fd) \in Sqes
            /\ Request(Sender(c, q), fd).data = Sender(c, q)
        <4>1. fd \in Fds \cup {NoFd}
          BY DEF SocketRead, TypeOK, Handlers
        <4> QED  BY <1>1, <4>1, FrameTypes, RequestType DEF Request
      <3> DEFINE a == Request(Sender(c, q), fd)
      <3> HIDE DEF a
      <3>3. senders' = senders
        BY <2>2 DEF SentSome
      <3>4. ASSUME NEW f \in AllFrames
            PROVE  (Single(f) /\ (Somewhere(f) <=> f \in Waiting))'
        <4>1. Single(f)' /\ (Somewhere(f)' <=> f \in Waiting)
          BY <1>1, <1>2, <1>3, <3>1, <3>2, ResumedAgain
        <4> QED  BY <1>4, <3>3, <4>1 DEF Waiting
      <3>5. OnlyFrames'
        <4>1. a \in Sqes /\ a.data \in AllFrames /\ sq' = sq \o <<a>>
          BY <1>1, <3>1, <3>2 DEF a
        <4>2. <<a>> \in Seq(Sqes) /\ \A i \in 1 .. Len(<<a>>) : <<a>>[i].data \in AllFrames
          BY <4>1
        <4> QED  BY <1>3, <4>1, <4>2, PreparedFrames DEF FramesInv
      <3> QED  BY <3>4, <3>5 DEF OneRequestEach
    <2> QED  BY <2>1, <2>2
  <1>6. MultishotAccepts' /\ PhantomOnce'
    BY <1>3, <1>4, SeenAnswers DEF FramesInv
  <1>7. Owned'
    BY <1>3, <1>4, SeenOwned DEF FramesInv
  <1>8. SendersParsed' /\ Turns'
    BY <1>3, <1>4 DEF FramesInv, SendersParsed, Turns
  <1> QED  BY <1>5, <1>6, <1>7, <1>8 DEF FramesInv

(* An accept that ended is made again when its result is looked at. *)
LEMMA AcceptedRefusedFrames ==
    ASSUME TypeOK, FramesInv, AcceptedRefused, Alive'
    PROVE  FramesInv'
  <1>1. /\ Resume(Acceptor, "refused")
        /\ sq' = sq \o Rearm /\ loop' = "visit"
        /\ UNCHANGED <<peer, backlog, file, current, live, sock, parsed, senders>>
    BY PreparedAlive DEF AcceptedRefused, clientVars, netVars, frameVars
  <1>2. /\ cqe_seen /\ kernel' = kernel /\ Current.res = "refused" /\ ~Current.more
        /\ current = Idle
    BY <1>1, FrameCases, ResumedFrame
  <1> DEFINE a == Request(Acceptor, NoFd)
  <1>3. sq' = sq \o <<a>> /\ a \in Sqes /\ a.data = Acceptor
    BY <1>1, <1>2, FrameTypes, RequestType DEF Rearm, Request
  <1> HIDE DEF a
  <1>4. OneRequestEach'
    <2>1. ASSUME NEW f \in AllFrames
          PROVE  (Single(f) /\ (Somewhere(f) <=> f \in Waiting))'
      <3>1. Single(f)' /\ (Somewhere(f)' <=> f \in Waiting)
        BY <1>1, <1>2, <1>3, FrameCases, ResumedAgain
      <3> QED  BY <1>1, <3>1 DEF Waiting
    <2> QED  BY <2>1 DEF OneRequestEach
  <1>5. OnlyFrames'
    <2>1. <<a>> \in Seq(Sqes) /\ \A i \in 1 .. Len(<<a>>) : <<a>>[i].data \in AllFrames
      BY <1>3, FrameCases
    <2> QED  BY <1>2, <1>3, <2>1, PreparedFrames DEF FramesInv
  <1>6. MultishotAccepts' /\ PhantomOnce'
    BY <1>1, <1>2, SeenAnswers DEF FramesInv
  <1>7. Owned'
    BY <1>1, <1>2, SeenOwned DEF FramesInv
  <1>8. SendersParsed' /\ Turns'
    BY <1>1, <1>2 DEF FramesInv, SendersParsed, Turns
  <1> QED  BY <1>4, <1>5, <1>6, <1>7, <1>8 DEF FramesInv

(* A handler is only started for a connection that has none. *)
LEMMA NewHandler ==
    ASSUME TypeOK, FramesInv
    PROVE  /\ \A c \in Conns : Accepted(c) => c \notin live
           /\ AcceptedError => Phantom \notin live
  <1>1. ASSUME NEW c \in Conns, Accepted(c), c \in live
        PROVE  FALSE
    <2> DEFINE fd == Current.fd
    <2>1. /\ Resume(Acceptor, "ok") /\ fd \in Fds /\ file[fd] = c
          /\ c \in Handlers /\ c # None
      BY <1>1, ConnsAssumption DEF Accepted, Handlers
    <2>2. Brings(1, fd) /\ 1 \in 1 .. Len(cq)
      BY <2>1, SeenEntries DEF Resume, Brings
    <2>3. sock[c] \in Fds /\ file[sock[c]] = c
      BY <1>1 DEF FramesInv, Owned, HandlersHaveTheirs
    <2>4. sock[c] = fd
      BY <2>1, <2>3 DEF FramesInv, Owned, AcceptedOnce
    <2> QED  BY <1>1, <2>1, <2>2, <2>4 DEF FramesInv, Owned, OneOwner, Closes
  <1>2. ASSUME AcceptedError
        PROVE  Phantom \notin live
    <2>1. Resume(Acceptor, "error")
      BY <1>2 DEF AcceptedError
    <2> QED  BY <2>1, SeenEntries DEF Resume, FramesInv, PhantomOnce
  <1> QED  BY <1>1, <1>2

(* A new handler waits for its first packet; it did not exist before. *)
LEMMA StartFrames ==
    ASSUME TypeOK, FramesInv, NEW res, Resume(Acceptor, res),
           NEW h \in Handlers, h \notin live, NEW fd \in Fds \cup {NoFd},
           StartHandler(h, fd), Alive'
    PROVE  /\ OneRequestEach' /\ OnlyFrames' /\ Turns' /\ SendersParsed'
           /\ UNCHANGED <<peer, backlog, file>>
           /\ live' = live \cup {h} /\ sock' = [sock EXCEPT ![h] = fd]
  <1> DEFINE a == Request(Acceptor, NoFd)
  <1> DEFINE b == Request(Receiver(h), fd)
  <1>1. /\ UNCHANGED <<peer, backlog, file, current, parsed, senders>>
        /\ live' = live \cup {h} /\ sock' = [sock EXCEPT ![h] = fd]
        /\ loop' = "visit"
        /\ sq' = sq \o (Rearm \o <<b>>)
    BY PreparedAlive DEF StartHandler, clientVars, netVars
  <1>2. /\ cqe_seen /\ kernel' = kernel /\ Current.data = Acceptor
        /\ current = Idle /\ loop = "visit"
    BY FrameCases, ResumedFrame
  <1>3. /\ a \in Sqes /\ a.data = Acceptor
        /\ b \in Sqes /\ b.data = Receiver(h)
    BY FrameTypes, RequestType DEF Request
  <1>4. Rearm = IF Current.more THEN <<>> ELSE <<a>>
    BY DEF Rearm
  <1>5. None \notin Handlers
    BY ConnsAssumption DEF Handlers
  <1> HIDE DEF a, b
  <1> DEFINE made == IF Current.more THEN <<b>> ELSE <<a, b>>
  <1>6. /\ sq' = sq \o made /\ made \in Seq(Sqes)
        /\ \A i \in 1 .. Len(made) : made[i].data \in AllFrames
    <2>1. /\ <<b>> \in Seq(Sqes) /\ <<a, b>> \in Seq(Sqes)
          /\ <<>> \o <<b>> = <<b>> /\ <<a>> \o <<b>> = <<a, b>>
      <3>1. <<b>> \in Seq(Sqes) /\ <<a, b>> \in Seq(Sqes)
        BY <1>3
      <3> QED  BY <1>3, <3>1, Concat
    <2>2. /\ \A i \in 1 .. Len(<<b>>) : <<b>>[i].data \in AllFrames
          /\ \A i \in 1 .. Len(<<a, b>>) : <<a, b>>[i].data \in AllFrames
      BY <1>3, FrameCases
    <2> QED  BY <1>1, <1>4, <2>1, <2>2
  <1>7. ASSUME NEW f \in AllFrames
        PROVE  /\ AtMostOne(Asked(made, f))
               /\ Asked(made, f) # {}
                    <=> f = Receiver(h) \/ (f = Acceptor /\ ~Current.more)
    <2>1. AtMostOne(Asked(<<b>>, f)) /\ (Asked(<<b>>, f) # {} <=> b.data = f)
      BY <1>3, AskedTwo
    <2>2. /\ a.data # b.data => AtMostOne(Asked(<<a, b>>, f))
          /\ Asked(<<a, b>>, f) # {} <=> a.data = f \/ b.data = f
      BY <1>3, AskedTwo
    <2>3. a.data # b.data
      BY <1>3, FramesDiffer
    <2> QED  BY <1>3, <2>1, <2>2, <2>3
  <1> HIDE DEF made
  <1>8. OneRequestEach'
    <2>1. ASSUME NEW f \in AllFrames
          PROVE  (Single(f) /\ (Somewhere(f) <=> f \in Waiting))'
      <3>1. Single(f) /\ (Somewhere(f) <=> f \in Waiting)
        BY DEF FramesInv, OneRequestEach
      <3>2. f = Receiver(h) => ~Somewhere(f)
        BY <3>1, WhoWaits
      <3>3. /\ Single(f)'
            /\ Somewhere(f)' <=>
                 \/ Somewhere(f) /\ ~(Current.data = f /\ ~Current.more)
                 \/ Asked(made, f) # {}
        BY <1>2, <1>6, <1>7, <3>1, <3>2, MoveResume
      <3>4. Acceptor \in Waiting
        BY WhoWaits
      <3>5. Somewhere(f)' <=> f \in Waiting \/ f = Receiver(h)
        BY <1>2, <1>7, <3>1, <3>3, <3>4
      <3>6. live' \ {current'.conn} = (live \ {current.conn}) \cup {h}
        BY <1>1, <1>2, <1>5 DEF Idle
      <3>7. f \in Waiting' <=> f \in Waiting \/ f = Receiver(h)
        BY <1>1, <3>6 DEF Waiting
      <3> QED  BY <3>3, <3>5, <3>7
    <2> QED  BY <2>1 DEF OneRequestEach
  <1>9. OnlyFrames'
    BY <1>2, <1>6, PreparedFrames DEF FramesInv
  <1>10. Turns' /\ SendersParsed'
    BY <1>1, <1>2 DEF FramesInv, Turns, SendersParsed
  <1> QED  BY <1>1, <1>8, <1>9, <1>10

(* The descriptor goes from the completion that brings it to the handler    *)
(* that will close it.                                                      *)
LEMMA AcceptedFrames ==
    ASSUME TypeOK, FramesInv, NEW c \in Conns, Accepted(c), Alive'
    PROVE  FramesInv'
  <1> DEFINE fd == Current.fd
  <1>1. /\ Resume(Acceptor, "ok") /\ StartHandler(c, fd)
        /\ fd \in Fds /\ file[fd] = c /\ c \in Handlers /\ c # None
    BY ConnsAssumption DEF Accepted, Handlers
  <1>2. cqe_seen /\ kernel' = kernel /\ Current.res = "ok"
    BY <1>1, FrameCases, ResumedFrame
  <1>3. Brings(1, fd) /\ 1 \in 1 .. Len(cq)
    BY <1>2, SeenEntries DEF Brings
  <1>4. c \notin live
    BY NewHandler
  <1>5. /\ OneRequestEach' /\ OnlyFrames' /\ Turns' /\ SendersParsed'
        /\ UNCHANGED <<peer, backlog, file>>
        /\ live' = live \cup {c} /\ sock' = [sock EXCEPT ![c] = fd]
    BY <1>1, <1>4, StartFrames
  <1> HIDE DEF fd
  <1>6. /\ \A h \in Handlers : sock'[h] = IF h = c THEN fd ELSE sock[h]
        /\ \A h, g : Closes(h, g) => h # c
    BY <1>1, <1>4, <1>5 DEF TypeOK, Closes
  <1>7. \A h \in Handlers, g \in Fds :
           Closes(h, g)' <=> (h = c /\ g = fd) \/ Closes(h, g)
    BY <1>5, <1>6 DEF Closes
  <1>8. /\ \A i \in 1 .. Len(cq'), g \in Fds : Brings(i, g)' <=> Brings(i + 1, g)
        /\ \A i \in 1 .. Len(cq), g \in Fds :
              i # 1 /\ Brings(i, g) => i - 1 \in 1 .. Len(cq') /\ Brings(i - 1, g)'
        /\ \A g \in Fds : Brings(1, g) => g = fd
    BY <1>2, <1>3, SeenEntries DEF Brings
  <1>9. /\ \A i \in 1 .. Len(cq) : Brings(i, fd) => i = 1
        /\ \A h \in Handlers : ~Closes(h, fd)
    BY <1>1, <1>3 DEF FramesInv, Owned, OneOwner
  <1>10. OpenIffOwned'
    <2>1. ASSUME NEW g \in Fds
          PROVE  file'[g] # None <=>
                   \/ \E i \in 1 .. Len(cq') : Brings(i, g)'
                   \/ \E h \in Handlers : Closes(h, g)'
      <3>1. file[g] # None <=> \/ \E i \in 1 .. Len(cq) : Brings(i, g)
                               \/ \E h \in Handlers : Closes(h, g)
        BY DEF FramesInv, Owned, OpenIffOwned
      <3>2. CASE g = fd
        BY <1>1, <1>5, <1>7, <3>2
      <3>3. CASE g # fd
        <4>1. (\E i \in 1 .. Len(cq') : Brings(i, g)')
                <=> (\E i \in 1 .. Len(cq) : Brings(i, g))
          BY <1>2, <1>8, <3>3, SeenEntries
        <4> QED  BY <1>5, <1>7, <3>1, <3>3, <4>1
      <3> QED  BY <3>2, <3>3
    <2> QED  BY <2>1 DEF OpenIffOwned
  <1>11. OneOwner'
    <2> SUFFICES ASSUME NEW g \in Fds
                 PROVE
          /\ \A i, j \in 1 .. Len(cq') : Brings(i, g)' /\ Brings(j, g)' => i = j
          /\ \A h, k \in Handlers : Closes(h, g)' /\ Closes(k, g)' => h = k
          /\ \A i \in 1 .. Len(cq'), h \in Handlers :
                ~(Brings(i, g)' /\ Closes(h, g)')
      BY DEF OneOwner
    <2>1. /\ \A i, j \in 1 .. Len(cq) : Brings(i, g) /\ Brings(j, g) => i = j
          /\ \A h, k \in Handlers : Closes(h, g) /\ Closes(k, g) => h = k
          /\ \A i \in 1 .. Len(cq), h \in Handlers :
                ~(Brings(i, g) /\ Closes(h, g))
      BY DEF FramesInv, Owned, OneOwner
    <2>2. \A i, j \in 1 .. Len(cq') : Brings(i, g)' /\ Brings(j, g)' => i = j
      <3>1. \A i \in 1 .. Len(cq') : i + 1 \in 1 .. Len(cq) /\ i \in Nat
        BY <1>2, SeenEntries
      <3> QED  BY <1>8, <2>1, <3>1
    <2>3. CASE g = fd
      <3>1. \A i \in 1 .. Len(cq') : ~Brings(i, g)'
        BY <1>2, <1>8, <1>9, <2>3, SeenEntries
      <3>2. \A h \in Handlers : Closes(h, g)' => h = c
        BY <1>7, <1>9, <2>3
      <3> QED  BY <2>2, <3>1, <3>2
    <2>4. CASE g # fd
      BY <1>2, <1>7, <1>8, <2>1, <2>2, <2>4, SeenEntries
    <2> QED  BY <2>3, <2>4
  <1>12. HandlersHaveTheirs'
    BY <1>1, <1>5, <1>6 DEF FramesInv, Owned, HandlersHaveTheirs, Handlers
  <1>13. AcceptedOnce'
    BY <1>5 DEF FramesInv, Owned, AcceptedOnce
  <1>14. MultishotAccepts' /\ PhantomOnce'
    BY <1>2, <1>5, SeenAnswers, ConnsAssumption DEF FramesInv
  <1> QED
    BY <1>5, <1>10, <1>11, <1>12, <1>13, <1>14 DEF FramesInv, Owned

(* The handler of a failed accept owns no descriptor. *)
LEMMA AcceptedErrorFrames ==
    ASSUME TypeOK, FramesInv, AcceptedError, Alive'
    PROVE  FramesInv'
  <1>1. /\ Resume(Acceptor, "error") /\ StartHandler(Phantom, NoFd)
        /\ Phantom \in Handlers
    BY DEF AcceptedError, Handlers
  <1>2. /\ cqe_seen /\ kernel' = kernel /\ Current.res = "error"
        /\ Current.data = Acceptor /\ ~Current.more
    BY <1>1, FrameCases, ResumedFrame
  <1>3. Phantom \notin live
    BY NewHandler
  <1>4. /\ OneRequestEach' /\ OnlyFrames' /\ Turns' /\ SendersParsed'
        /\ UNCHANGED <<peer, backlog, file>>
        /\ live' = live \cup {Phantom} /\ sock' = [sock EXCEPT ![Phantom] = NoFd]
    BY <1>1, <1>3, StartFrames
  <1>5. /\ \A h \in Handlers : sock'[h] = IF h = Phantom THEN NoFd ELSE sock[h]
        /\ \A h, g : Closes(h, g) => h # Phantom
    BY <1>1, <1>3, <1>4 DEF TypeOK, Closes
  <1>6. \A h \in Handlers, g \in Fds : Closes(h, g)' <=> Closes(h, g)
    BY <1>4, <1>5, FdsAssumption DEF Closes
  <1>7. /\ \A i \in 1 .. Len(cq'), g \in Fds : Brings(i, g)' <=> Brings(i + 1, g)
        /\ \A i \in 1 .. Len(cq), g \in Fds :
              Brings(i, g) => i - 1 \in 1 .. Len(cq') /\ Brings(i - 1, g)'
    BY <1>2, SeenEntries DEF Brings
  <1>8. OpenIffOwned'
    <2>1. \A g \in Fds : (\E i \in 1 .. Len(cq') : Brings(i, g)')
                           <=> (\E i \in 1 .. Len(cq) : Brings(i, g))
      BY <1>2, <1>7, SeenEntries
    <2> QED  BY <1>4, <1>6, <2>1 DEF FramesInv, Owned, OpenIffOwned
  <1>9. OneOwner'
    <2> SUFFICES ASSUME NEW g \in Fds
                 PROVE
          /\ \A i, j \in 1 .. Len(cq') : Brings(i, g)' /\ Brings(j, g)' => i = j
          /\ \A h, k \in Handlers : Closes(h, g)' /\ Closes(k, g)' => h = k
          /\ \A i \in 1 .. Len(cq'), h \in Handlers :
                ~(Brings(i, g)' /\ Closes(h, g)')
      BY DEF OneOwner
    <2>1. /\ \A i, j \in 1 .. Len(cq) : Brings(i, g) /\ Brings(j, g) => i = j
          /\ \A h, k \in Handlers : Closes(h, g) /\ Closes(k, g) => h = k
          /\ \A i \in 1 .. Len(cq), h \in Handlers :
                ~(Brings(i, g) /\ Closes(h, g))
      BY DEF FramesInv, Owned, OneOwner
    <2>2. \A i, j \in 1 .. Len(cq') : Brings(i, g)' /\ Brings(j, g)' => i = j
      BY <1>2, <1>7, <2>1, SeenEntries
    <2> QED  BY <1>2, <1>6, <1>7, <2>1, <2>2, SeenEntries
  <1>10. HandlersHaveTheirs' /\ AcceptedOnce'
    BY <1>4, <1>5, ConnsAssumption
    DEF FramesInv, Owned, HandlersHaveTheirs, AcceptedOnce, Handlers
  <1>11. MultishotAccepts'
    BY <1>2, SeenAnswers DEF FramesInv
  <1>12. PhantomOnce'
    <2> SUFFICES ASSUME NEW i \in 1 .. Len(cq'), cq'[i].data = Acceptor,
                        cq'[i].res = "error"
                 PROVE  FALSE
      BY DEF PhantomOnce
    <2>1. i + 1 \in 1 .. Len(cq) /\ cq[i + 1] = cq'[i] /\ i + 1 # 1
            /\ 1 \in 1 .. Len(cq) /\ cq[1] = Current
      BY <1>2, SeenEntries
    <2>2. ~cq[i + 1].more
      BY <2>1 DEF FramesInv, MultishotAccepts
    <2>3. i + 1 \in Answered(cq, Acceptor) /\ 1 \in Answered(cq, Acceptor)
      BY <1>2, <2>1, <2>2 DEF Answered
    <2>4. AtMostOne(Answered(cq, Acceptor))
      BY FrameCases DEF FramesInv, OneRequestEach, Single
    <2> QED  BY <2>1, <2>3, <2>4 DEF AtMostOne
  <1> QED
    BY <1>4, <1>8, <1>9, <1>10, <1>11, <1>12 DEF FramesInv, Owned

-----------------------------------------------------------------------------
LEMMA FramesNext ==
    ASSUME TypeOK, Alive => FramesInv, [Next]_vars
    PROVE  (Alive => FramesInv)'
  <1> SUFFICES ASSUME Alive' PROVE FramesInv'
    OBVIOUS
  <1>1. FramesInv
    BY AliveBefore
  <1>2. CASE UNCHANGED vars
    BY <1>1, <1>2
    DEF vars, uringVars, clientVars, netVars, frameVars, FramesInv, Owned,
        OneRequestEach, Single, Somewhere, Waiting, OnlyFrames, Turns,
        SendersParsed, MultishotAccepts, PhantomOnce, OpenIffOwned, OneOwner,
        HandlersHaveTheirs, AcceptedOnce, Brings, Closes
  <1>3. CASE Client
    BY <1>1, <1>3, ClientFrames DEF Client
  <1>4. CASE AcceptClient
    BY <1>1, <1>4, AcceptedFrames, AcceptedErrorFrames, AcceptedRefusedFrames
    DEF AcceptClient
  <1> QED
    BY <1>1, <1>2, <1>3, <1>4, AliveBefore, KernelFrames, LoopFrames,
       ReceivedFrames, ReceivedEofFrames, ParseFrames, SentFrames

LEMMA FramesAlways == Spec => [](TypeOK /\ (Alive => FramesInv))
  <1>1. Init => TypeOK /\ (Alive => FramesInv)
    BY WorkerTypeInit, FramesInit
  <1>2. ASSUME TypeOK /\ (Alive => FramesInv), [Next]_vars
        PROVE  (TypeOK /\ (Alive => FramesInv))'
    BY <1>2, WorkerTypeNext, FramesNext
  <1> QED  BY <1>1, <1>2, PTL DEF Spec

LEMMA CountOne ==
    ASSUME NEW S, AtMostOne(S)
    PROVE  Cardinality(S) = IF S = {} THEN 0 ELSE 1
  <1>1. CASE S = {}
    BY <1>1, FS_EmptySet
  <1>2. CASE S # {}
    <2>1. PICK x \in S : S = {x}
      BY <1>2 DEF AtMostOne
    <2> QED  BY <2>1, FS_Singleton
  <1> QED  BY <1>1, <1>2

(* While the worker runs, a frame that is suspended has exactly one request *)
(* under way and any other frame has none: whatever the clients, the kernel *)
(* and the faults do, no coroutine sleeps for ever for want of a request,   *)
(* and no completion resumes one that runs, that is gone, or twice.         *)
THEOREM FramesMatch == Spec => []FramesMatchRequests
  <1>1. ASSUME Alive => FramesInv
        PROVE  FramesMatchRequests
    <2> SUFFICES ASSUME Alive, NEW f \in Frames
                 PROVE  UnderWay(f) = IF f \in Waiting THEN 1 ELSE 0
      BY DEF FramesMatchRequests
    <2>1. f \in AllFrames
      BY DEF Frames, AllFrames, Requests
    <2>2. Single(f) /\ (Somewhere(f) <=> f \in Waiting)
      BY <1>1, <2>1 DEF FramesInv, OneRequestEach
    <2>3. UnderWay(f) = Cardinality(Asked(sq, f)) + Cardinality(Held(kernel, f))
                          + Cardinality(Answered(cq, f))
      BY DEF UnderWay, Asked, Held, Answered
    <2>4. /\ Cardinality(Asked(sq, f)) = IF Asked(sq, f) = {} THEN 0 ELSE 1
          /\ Cardinality(Held(kernel, f)) = IF Held(kernel, f) = {} THEN 0 ELSE 1
          /\ Cardinality(Answered(cq, f)) = IF Answered(cq, f) = {} THEN 0 ELSE 1
      BY <2>2, CountOne DEF Single
    <2> QED  BY <2>2, <2>3, <2>4 DEF Single, Somewhere
  <1> QED  BY <1>1, FramesAlways, PTL

(* An open descriptor has one owner and a handler's descriptor is still its *)
(* connection: none is leaked, closed early or closed twice.                *)
THEOREM DescriptorsStayOwned == Spec => []DescriptorsOwned
  <1>1. (Alive => FramesInv) => DescriptorsOwned
    BY DEF DescriptorsOwned, FramesInv, Owned
  <1> QED  BY <1>1, FramesAlways, PTL

-----------------------------------------------------------------------------
(* What the steps do to the submission queue, and the sockets they use *)

LEMMA ConcatEntries ==
    ASSUME NEW s \in Seq(Sqes), NEW t \in Seq(Sqes)
    PROVE  /\ Len(s \o t) = Len(s) + Len(t)
           /\ \A i \in 1 .. Len(s) : i \in 1 .. Len(s \o t) /\ (s \o t)[i] = s[i]
           /\ \A i \in 1 .. Len(s \o t) :
                 \/ i \in 1 .. Len(s) /\ (s \o t)[i] = s[i]
                 \/ i - Len(s) \in 1 .. Len(t) /\ (s \o t)[i] = t[i - Len(s)]
           /\ \A j \in 1 .. Len(t) :
                 Len(s) + j \in 1 .. Len(s \o t) /\ (s \o t)[Len(s) + j] = t[j]
  OBVIOUS

Resting == UNCHANGED <<sq, sock>> /\ kernel' \subseteq kernel

Fills(made) ==
    /\ made \in Seq(Sqes)
    /\ sq' = sq \o made
    /\ kernel' = kernel

Starts(h, fd) ==
    /\ h \notin live
    /\ (h \in Conns /\ fd \in Fds) \/ (h = Phantom /\ fd = NoFd)
    /\ live' = live \cup {h} /\ sock' = [sock EXCEPT ![h] = fd]
    /\ Fills(IF Current.more THEN <<Request(Receiver(h), fd)>>
             ELSE <<Request(Acceptor, NoFd), Request(Receiver(h), fd)>>)

Rearms ==
    /\ Current.res = "refused" /\ cqe_seen
    /\ Fills(<<Request(Acceptor, NoFd)>>)
    /\ UNCHANGED sock

Continues(h) ==
    /\ h \in live /\ loop = "parse" /\ current.conn = h
    /\ Fills(<<Request(Receiver(h), sock[h])>>)
    /\ UNCHANGED sock

Answers(c, q) ==
    /\ c \in live /\ loop = "parse" /\ current.conn = c
    /\ Fills(<<Request(Sender(c, q), sock[c]), Request(Receiver(c), sock[c])>>)
    /\ UNCHANGED sock

Resends(c, q, fd) ==
    /\ Current.res = "some" /\ cqe_seen
    /\ Fills(<<Request(Sender(c, q), fd)>>)
    /\ UNCHANGED sock

LEMMA StartsFills ==
    ASSUME TypeOK, NEW h \in Handlers, h \notin live, NEW fd \in Fds \cup {NoFd},
           (h \in Conns /\ fd \in Fds) \/ (h = Phantom /\ fd = NoFd),
           NEW f, NEW res, Resume(f, res), StartHandler(h, fd), Alive'
    PROVE  Starts(h, fd)
  <1> DEFINE a == Request(Acceptor, NoFd)
  <1> DEFINE b == Request(Receiver(h), fd)
  <1>1. /\ sq' = sq \o (Rearm \o <<b>>) /\ kernel' = kernel
        /\ live' = live \cup {h} /\ sock' = [sock EXCEPT ![h] = fd]
    BY PreparedAlive DEF StartHandler, Resume
  <1>2. a \in Sqes /\ b \in Sqes
    BY FrameTypes, RequestType
  <1>3. Rearm = IF Current.more THEN <<>> ELSE <<a>>
    BY DEF Rearm
  <1> DEFINE made == IF Current.more THEN <<b>> ELSE <<a, b>>
  <1>4. Starts(h, fd) <=> Fills(made)
    BY <1>1 DEF Starts
  <1> HIDE DEF a, b
  <1>5. <<b>> \in Seq(Sqes) /\ <<a, b>> \in Seq(Sqes)
    BY <1>2
  <1>6. made \in Seq(Sqes) /\ Rearm \o <<b>> = made
    BY <1>2, <1>3, <1>5, Concat
  <1> HIDE DEF made
  <1>7. Fills(made)
    BY <1>1, <1>6 DEF Fills
  <1> QED  BY <1>4, <1>7

LEMMA FillStep ==
    ASSUME TypeOK, FramesInv, [Next]_vars, Alive'
    PROVE  \/ Resting \/ Submit \/ Rearms
           \/ \E h \in Handlers, fd \in Fds \cup {NoFd} : Starts(h, fd)
           \/ \E h \in Handlers : Continues(h)
           \/ \E c \in Conns, q \in Nat : Answers(c, q)
           \/ \E c \in Conns, q \in Requests, fd \in Fds \cup {NoFd} :
                 Resends(c, q, fd)
  <1>1. CASE UNCHANGED vars
    BY <1>1 DEF vars, uringVars, frameVars, Resting
  <1>2. CASE Client
    BY <1>2 DEF Client, Connect, Close, Reset, uringVars, frameVars, Resting
  <1>3. CASE Kernel
    <2>1. ASSUME NEW c \in Conns, CompleteAccept(c) PROVE Resting
      BY <2>1 DEF CompleteAccept, Complete, CompleteMore, frameVars, Resting
    <2>2. CASE FailAccept
      BY <2>2 DEF FailAccept, Complete, frameVars, Resting
    <2>3. ASSUME NEW h \in Handlers, KernelReceive(h) PROVE Resting
      BY <2>3
      DEF KernelReceive, Receive, ReceiveEof, FailReceive, Complete, frameVars,
          Resting
    <2>4. ASSUME NEW c \in Conns, NEW q \in Requests, KernelSend(c, q) PROVE Resting
      BY <2>4 DEF KernelSend, CompleteSend, FailSend, Complete, frameVars, Resting
    <2> QED  BY <1>3, <2>1, <2>2, <2>3, <2>4 DEF Kernel
  <1>4. CASE StartBatch \/ EndBatch
    BY <1>4 DEF StartBatch, EndBatch, uringVars, frameVars, Resting
  <1>5. ASSUME NEW c \in Conns, Accepted(c)
        PROVE  Starts(c, Current.fd) /\ Current.fd \in Fds /\ c \in Handlers
    BY <1>5, NewHandler, StartsFills DEF Accepted, Handlers
  <1>6. CASE AcceptedError
    <2>1. Phantom \in Handlers /\ NoFd \in Fds \cup {NoFd}
      BY DEF Handlers
    <2> QED  BY <1>6, <2>1, NewHandler, StartsFills DEF AcceptedError
  <1>7. CASE AcceptedRefused
    <2> DEFINE a == Request(Acceptor, NoFd)
    <2>1. /\ Resume(Acceptor, "refused") /\ sq' = sq \o Rearm
          /\ UNCHANGED sock
      BY <1>7, PreparedAlive DEF AcceptedRefused, frameVars
    <2>2. cqe_seen /\ kernel' = kernel /\ Current.res = "refused" /\ ~Current.more
      BY <2>1, FrameCases, ResumedFrame
    <2>3. <<a>> \in Seq(Sqes) /\ Rearm = <<a>>
      BY <2>2, FrameTypes, RequestType DEF Rearm
    <2> HIDE DEF a
    <2>4. Fills(<<a>>)
      BY <2>1, <2>2, <2>3 DEF Fills
    <2> QED  BY <2>1, <2>2, <2>4 DEF Rearms, a
  <1>8. ASSUME NEW h \in Handlers, Received(h) \/ ReceivedEof(h)
        PROVE  Resting
    BY <1>8 DEF Received, ReceivedEof, Resume, frameVars, Resting
  <1>9. ASSUME NEW h \in Handlers, ParsePart(h) \/ ParseRequest(h)
        PROVE  /\ h \in live /\ loop = "parse" /\ current.conn = h
               /\ UNCHANGED sock /\ kernel' = kernel
               /\ Request(Receiver(h), sock[h]) \in Sqes
    <2>1. /\ loop = "parse" /\ current.conn = h
          /\ UNCHANGED sock /\ kernel' = kernel
      BY <1>9 DEF ParsePart, ParseRequest, frameVars
    <2>2. Request(Receiver(h), sock[h]) \in Sqes
      BY FrameTypes, RequestType DEF TypeOK
    <2> QED  BY <2>1, <2>2 DEF FramesInv, Turns
  <1>10. ASSUME NEW h \in Handlers, ParsePart(h)
         PROVE  Continues(h)
    <2> DEFINE again == Request(Receiver(h), sock[h])
    <2>1. sq' = sq \o (<<>> \o <<again>>) /\ again \in Sqes
      BY <1>9, <1>10, PreparedAlive DEF ParsePart, NextPacket
    <2> HIDE DEF again
    <2>2. <<again>> \in Seq(Sqes) /\ <<>> \o <<again>> = <<again>>
      BY <2>1, Concat
    <2>3. Fills(<<again>>)
      BY <1>9, <1>10, <2>1, <2>2 DEF Fills
    <2> QED  BY <1>9, <1>10, <2>3 DEF Continues, again
  <1>11. ASSUME NEW h \in Handlers, ParseRequest(h)
         PROVE  h \in Conns /\ parsed[h] + 1 \in Nat /\ Answers(h, parsed[h] + 1)
    <2> DEFINE q == parsed[h] + 1
    <2> DEFINE again == Request(Receiver(h), sock[h])
    <2> DEFINE answer == Request(Sender(h, q), sock[h])
    <2>1. h \in Conns /\ q \in Nat
      BY <1>11 DEF ParseRequest, TypeOK
    <2>2. answer \in Sqes /\ again \in Sqes
      BY <1>9, <1>11, <2>1, FrameTypes, RequestType DEF TypeOK
    <2>3. sq' = sq \o (<<answer>> \o <<again>>)
      BY <1>11, PreparedAlive DEF ParseRequest, NextPacket, Response, ResponseSocket
    <2> HIDE DEF answer, again
    <2>4. <<answer, again>> \in Seq(Sqes) /\ <<answer>> \o <<again>> = <<answer, again>>
      BY <2>2, Concat
    <2>5. Fills(<<answer, again>>)
      BY <1>9, <1>11, <2>3, <2>4 DEF Fills
    <2> QED  BY <1>9, <1>11, <2>1, <2>5 DEF Answers, answer, again
  <1>12. ASSUME NEW c \in Conns, NEW q \in Requests, SentAll(c, q) \/ SentError(c, q)
         PROVE  Resting
    BY <1>12 DEF SentAll, SentError, Resume, Resting
  <1>13. ASSUME NEW c \in Conns, NEW q \in Requests, SentSome(c, q)
         PROVE  \E fd \in Fds \cup {NoFd} : Resends(c, q, fd)
    <2>1. PICK fd \in SocketRead(c) :
            Prepare(<<Request(Sender(c, q), fd)>>, "visit")
      BY <1>13 DEF SentSome
    <2>2. fd \in Fds \cup {NoFd}
      BY DEF SocketRead, TypeOK, Handlers
    <2>3. Request(Sender(c, q), fd) \in Sqes
      BY <2>2, FrameTypes, RequestType DEF Requests
    <2>4. <<Request(Sender(c, q), fd)>> \in Seq(Sqes)
      BY <2>3
    <2>5. sq' = sq \o <<Request(Sender(c, q), fd)>>
      BY <2>1, PreparedAlive
    <2> QED  BY <1>13, <2>2, <2>4, <2>5 DEF SentSome, Resume, Fills, Resends
  <1> QED
    BY <1>1, <1>2, <1>3, <1>4, <1>5, <1>6, <1>7, <1>8, <1>10, <1>11, <1>12, <1>13,
       AliveBefore
    DEF AcceptClient

LEMMA FillsEntries ==
    ASSUME TypeOK, NEW made, Fills(made)
    PROVE  /\ Len(sq') = Len(sq) + Len(made) /\ kernel' = kernel
           /\ \A i \in 1 .. Len(sq') :
                 \/ i \in 1 .. Len(sq) /\ sq'[i] = sq[i]
                 \/ \E j \in 1 .. Len(made) : sq'[i] = made[j]
           /\ \A f : Asked(sq', f) # {} <=> Asked(sq, f) # {} \/ Asked(made, f) # {}
  <1>1. sq \in Seq(Sqes) /\ made \in Seq(Sqes) /\ sq' = sq \o made
    BY DEF TypeOK, Fills
  <1>2. /\ Len(sq') = Len(sq) + Len(made)
        /\ \A i \in 1 .. Len(sq) : i \in 1 .. Len(sq') /\ sq'[i] = sq[i]
        /\ \A i \in 1 .. Len(sq') :
              \/ i \in 1 .. Len(sq) /\ sq'[i] = sq[i]
              \/ i - Len(sq) \in 1 .. Len(made) /\ sq'[i] = made[i - Len(sq)]
        /\ \A j \in 1 .. Len(made) :
              Len(sq) + j \in 1 .. Len(sq') /\ sq'[Len(sq) + j] = made[j]
    BY <1>1, ConcatEntries
  <1>3. \A i \in 1 .. Len(sq') :
           \/ i \in 1 .. Len(sq) /\ sq'[i] = sq[i]
           \/ \E j \in 1 .. Len(made) : sq'[i] = made[j]
    BY <1>2
  <1>4. ASSUME NEW f
        PROVE  Asked(sq', f) # {} <=> Asked(sq, f) # {} \/ Asked(made, f) # {}
    <2>1. ASSUME NEW i \in Asked(sq', f)
          PROVE  Asked(sq, f) # {} \/ Asked(made, f) # {}
      BY <1>3 DEF Asked
    <2>2. ASSUME NEW i \in Asked(sq, f) PROVE i \in Asked(sq', f)
      BY <1>2 DEF Asked
    <2>3. ASSUME NEW j \in Asked(made, f) PROVE Len(sq) + j \in Asked(sq', f)
      BY <1>2 DEF Asked
    <2> QED  BY <2>1, <2>2, <2>3
  <1> QED  BY <1>2, <1>3, <1>4 DEF Fills

(* What is filled: at most two entries, of one frame each. *)
LEMMA FilledOne ==
    ASSUME NEW a
    PROVE  /\ Len(<<a>>) = 1
           /\ \A j \in 1 .. Len(<<a>>) : <<a>>[j] = a
           /\ \A f : Asked(<<a>>, f) # {} <=> a.data = f
  <1>1. ASSUME NEW f
        PROVE  Asked(<<a>>, f) # {} <=> a.data = f
    <2>1. \A i : i \in Asked(<<a>>, f) <=> i = 1 /\ a.data = f
      BY DEF Asked
    <2> QED  BY <2>1
  <1> QED  BY <1>1

LEMMA FilledTwo ==
    ASSUME NEW a, NEW b
    PROVE  /\ Len(<<a, b>>) = 2
           /\ \A j \in 1 .. Len(<<a, b>>) : <<a, b>>[j] = a \/ <<a, b>>[j] = b
           /\ \A f : Asked(<<a, b>>, f) # {} <=> a.data = f \/ b.data = f
  <1>1. ASSUME NEW f
        PROVE  Asked(<<a, b>>, f) # {} <=> a.data = f \/ b.data = f
    <2>1. \A i : i \in Asked(<<a, b>>, f)
                    <=> (i = 1 /\ a.data = f) \/ (i = 2 /\ b.data = f)
      BY DEF Asked
    <2> QED  BY <2>1
  <1> QED  BY <1>1

(* A handler receives on the descriptor of its client_socket, and that is   *)
(* its own connection; the handler of a failed accept has none.             *)
ReceivesOwn ==
    /\ sock[Phantom] = NoFd
    /\ \A i \in 1 .. Len(sq), h \in Handlers :
          sq[i].data = Receiver(h) => sq[i].fd = sock[h]
    /\ \A r \in kernel, h \in Handlers :
          r.data = Receiver(h) => r.to = IF h \in Conns THEN h ELSE None

LEMMA ReceivesNext ==
    ASSUME TypeOK, FramesInv, ReceivesOwn, [Next]_vars, Alive'
    PROVE  ReceivesOwn'
  <1> DEFINE FromSocks(s, fds) ==
        \A i \in 1 .. Len(s), h \in Handlers : s[i].data = Receiver(h) => s[i].fd = fds[h]
  <1>1. CASE Resting
    BY <1>1 DEF Resting, ReceivesOwn
  <1>2. CASE Submit
    <2>1. /\ sq' = <<>> /\ sock' = sock
          /\ kernel' = kernel \cup {[data |-> sq[i].data, to |-> FileOf(sq[i].fd)] :
                                        i \in 1 .. Len(sq)}
      BY <1>2 DEF Submit, submit_and_wait, frameVars
    <2>2. ASSUME NEW i \in 1 .. Len(sq), NEW h \in Handlers, sq[i].data = Receiver(h)
          PROVE  FileOf(sq[i].fd) = IF h \in Conns THEN h ELSE None
      <3>1. sq[i].fd = sock[h] /\ i \in Asked(sq, Receiver(h))
        BY <2>2 DEF ReceivesOwn, Asked
      <3>2. h \in live
        BY <3>1, FrameCases, WhoWaits DEF FramesInv, OneRequestEach, Somewhere
      <3>3. CASE h \in Conns
        BY <3>1, <3>2, <3>3 DEF FramesInv, Owned, HandlersHaveTheirs, FileOf
      <3>4. CASE h \notin Conns
        BY <3>1, <3>4, FdsAssumption DEF Handlers, ReceivesOwn, FileOf
      <3> QED  BY <3>3, <3>4
    <2>3. \A r \in kernel', h \in Handlers :
             r.data = Receiver(h) => r.to = IF h \in Conns THEN h ELSE None
      BY <2>1, <2>2 DEF ReceivesOwn
    <2> QED  BY <2>1, <2>3 DEF ReceivesOwn
  <1>3. ASSUME NEW made, Fills(made), sock' = sock,
               \A j \in 1 .. Len(made), h \in Handlers :
                  made[j].data = Receiver(h) => made[j].fd = sock[h]
        PROVE  ReceivesOwn'
    <2>1. FromSocks(sq', sock)
      BY <1>3, FillsEntries DEF ReceivesOwn
    <2> QED  BY <1>3, <2>1, FillsEntries DEF ReceivesOwn
  <1>4. CASE Rearms
    <2> DEFINE a == Request(Acceptor, NoFd)
    <2>1. /\ Fills(<<a>>) /\ sock' = sock
          /\ \A h \in Handlers : a.data # Receiver(h)
      BY <1>4, FramesDiffer DEF Rearms, Request
    <2> HIDE DEF a
    <2> QED  BY <1>3, <2>1, FilledOne
  <1>5. ASSUME NEW h \in Handlers, NEW fd \in Fds \cup {NoFd}, Starts(h, fd)
        PROVE  ReceivesOwn'
    <2> DEFINE a == Request(Acceptor, NoFd)
    <2> DEFINE b == Request(Receiver(h), fd)
    <2> DEFINE made == IF Current.more THEN <<b>> ELSE <<a, b>>
    <2>1. /\ Fills(made)
          /\ \A g \in Handlers : sock'[g] = IF g = h THEN fd ELSE sock[g]
          /\ Phantom \in Handlers /\ (h = Phantom => fd = NoFd)
      BY <1>5, ConnsAssumption DEF Starts, TypeOK, Handlers
    <2>2. \A i \in 1 .. Len(sq), g \in Handlers :
             sq[i].data = Receiver(g) => g # h
      <3>1. Asked(sq, Receiver(h)) = {}
        BY <1>5, FrameCases, WhoWaits
        DEF Starts, FramesInv, OneRequestEach, Somewhere
      <3> QED  BY <3>1 DEF Asked
    <2>3. /\ \A g \in Handlers : a.data # Receiver(g)
          /\ \A g \in Handlers : b.data = Receiver(g) => g = h
          /\ b.fd = fd
      BY FramesDiffer DEF Request
    <2> HIDE DEF a, b
    <2>4. \A j \in 1 .. Len(made) : made[j] = a \/ made[j] = b
      BY FilledOne, FilledTwo
    <2> HIDE DEF made
    <2>5. FromSocks(sq', sock')
      <3> SUFFICES ASSUME NEW i \in 1 .. Len(sq'), NEW g \in Handlers,
                          sq'[i].data = Receiver(g)
                   PROVE  sq'[i].fd = sock'[g]
        OBVIOUS
      <3>1. CASE i \in 1 .. Len(sq) /\ sq'[i] = sq[i]
        BY <2>1, <2>2, <3>1 DEF ReceivesOwn
      <3>2. CASE \E j \in 1 .. Len(made) : sq'[i] = made[j]
        BY <2>1, <2>3, <2>4, <3>2
      <3> QED  BY <2>1, <3>1, <3>2, FillsEntries
    <2>6. sock'[Phantom] = NoFd
      BY <2>1 DEF ReceivesOwn
    <2> QED  BY <2>1, <2>5, <2>6, FillsEntries DEF ReceivesOwn
  <1>6. ASSUME NEW h \in Handlers, Continues(h)
        PROVE  ReceivesOwn'
    <2> DEFINE b == Request(Receiver(h), sock[h])
    <2>1. /\ Fills(<<b>>) /\ sock' = sock /\ b.fd = sock[h]
          /\ \A g \in Handlers : b.data = Receiver(g) => g = h
      BY <1>6, FramesDiffer DEF Continues, Request
    <2> HIDE DEF b
    <2> QED  BY <1>3, <2>1, FilledOne
  <1>7. ASSUME NEW c \in Conns, NEW q \in Nat, Answers(c, q)
        PROVE  ReceivesOwn'
    <2> DEFINE a == Request(Sender(c, q), sock[c])
    <2> DEFINE b == Request(Receiver(c), sock[c])
    <2>1. /\ Fills(<<a, b>>) /\ sock' = sock /\ b.fd = sock[c]
          /\ \A g \in Handlers : b.data = Receiver(g) => g = c
          /\ \A g \in Handlers : a.data # Receiver(g)
      BY <1>7, FramesDiffer DEF Answers, Request, Handlers
    <2> HIDE DEF a, b
    <2> QED  BY <1>3, <2>1, FilledTwo
  <1>8. ASSUME NEW c \in Conns, NEW q \in Requests, NEW fd \in Fds \cup {NoFd},
               Resends(c, q, fd)
        PROVE  ReceivesOwn'
    <2> DEFINE a == Request(Sender(c, q), fd)
    <2>1. /\ Fills(<<a>>) /\ sock' = sock
          /\ \A h \in Handlers : a.data # Receiver(h)
      BY <1>8, FramesDiffer DEF Resends, Request, Requests
    <2> HIDE DEF a
    <2> QED  BY <1>3, <2>1, FilledOne
  <1> QED
    BY <1>1, <1>2, <1>4, <1>5, <1>6, <1>7, <1>8, FillStep

-----------------------------------------------------------------------------
(* What the kernel answers, and what the event loop leaves in the queue *)

Posts(r, e) ==
    /\ r \in kernel /\ e \in Cqes /\ e.data = r.data
    /\ cq' = Append(cq, e) /\ kernel' \subseteq kernel
    /\ UNCHANGED <<sq, loop, current, live, sock, parsed, senders, heap>>

AcceptAnswered(r, e) ==
    /\ Posts(r, e) /\ r.data = Acceptor
    /\ e.buf = NoBuf
    /\ e.res \in {"ok", "error", "refused"}
    /\ e.res # "ok" => "abort" \in Faults \/ FreeFds = {}
    /\ UNCHANGED <<left, delivered, shorts>>

ReceiveAnswered(r, e, h) ==
    /\ Posts(r, e) /\ r.data = Receiver(h)
    /\ UNCHANGED <<delivered, shorts>>
    /\ \/ /\ e.res = "data" /\ r.to \in Conns /\ left[r.to] > 0
          /\ left' = [left EXCEPT ![r.to] = @ - 1]
       \/ e.res = "eof" /\ left' = left
       \/ /\ e.res = "error" /\ left' = left
          /\ \/ offered = 0
             \/ r.to = None
             \/ r.to # None /\ peer[r.to] = "reset"

SendAnswered(r, e, c, q) ==
    /\ Posts(r, e) /\ r.data = Sender(c, q)
    /\ e.buf = NoBuf
    /\ left' = left
    /\ \/ /\ e.res = "all" /\ r.to \in Conns /\ shorts' = shorts
          /\ delivered' = [delivered EXCEPT ![r.to] = @ \cup {<<c, q>>}]
       \/ /\ e.res = "some" /\ "short" \in Faults /\ delivered' = delivered
          /\ shorts' = [shorts EXCEPT ![c] = [shorts[c] EXCEPT ![q] = @ + 1]]
       \/ e.res = "error" /\ UNCHANGED <<delivered, shorts>>

LEMMA KernelAnswers ==
    ASSUME TypeOK, Kernel
    PROVE  \E r \in kernel, e \in Cqes :
              \/ AcceptAnswered(r, e)
              \/ \E h \in Handlers : ReceiveAnswered(r, e, h)
              \/ \E c \in Conns, q \in Requests : SendAnswered(r, e, c, q)
  <1>1. ASSUME NEW c \in Conns, CompleteAccept(c)
        PROVE  \E r \in kernel, e \in Cqes : AcceptAnswered(r, e)
    <2>1. PICK r \in kernel, f \in FreeFds, more \in BOOLEAN :
            LET e == [Completion(Acceptor, "ok") EXCEPT !.fd = f, !.more = more]
            IN  /\ r.data = Acceptor
                /\ IF more THEN CompleteMore(r, e) ELSE Complete(r, e)
      BY <1>1 DEF CompleteAccept
    <2> DEFINE e == [Completion(Acceptor, "ok") EXCEPT !.fd = f, !.more = more]
    <2>2. e \in Cqes /\ e.buf = NoBuf /\ e.data = Acceptor /\ e.res = "ok"
      BY FrameTypes DEF Completion, Cqes, Results, FreeFds
    <2>3. Complete(r, e) \/ CompleteMore(r, e)
      BY <2>1
    <2>4. r.data = Acceptor
      BY <2>1
    <2> HIDE DEF e
    <2>5. cq' = Append(cq, e) /\ kernel' \subseteq kernel
      BY <2>3 DEF Complete, CompleteMore
    <2>6. AcceptAnswered(r, e)
      BY <1>1, <2>2, <2>4, <2>5
      DEF CompleteAccept, AcceptAnswered, Posts, frameVars
    <2> QED  BY <2>2, <2>6
  <1>2. CASE FailAccept
    <2>1. PICK r \in kernel, res \in {"error", "refused"} :
            /\ r.data = Acceptor
            /\ "abort" \in Faults \/ (FreeFds = {} /\ res = "error")
            /\ Complete(r, Completion(Acceptor, res))
      BY <1>2 DEF FailAccept
    <2> DEFINE e == Completion(Acceptor, res)
    <2>2. e \in Cqes /\ e.buf = NoBuf /\ e.data = Acceptor /\ e.res = res
      BY FrameTypes, CompletionType DEF Completion, Results
    <2>3. cq' = Append(cq, e) /\ kernel' \subseteq kernel
      BY <2>1 DEF Complete
    <2> HIDE DEF e
    <2>4. AcceptAnswered(r, e)
      BY <1>2, <2>1, <2>2, <2>3
      DEF FailAccept, AcceptAnswered, Posts, frameVars, clientVars, netVars
    <2> QED  BY <2>2, <2>4
  <1>3. ASSUME NEW h \in Handlers, KernelReceive(h)
        PROVE  \E r \in kernel, e \in Cqes : ReceiveAnswered(r, e, h)
    <2>1. CASE Receive(h)
      <3>1. PICK r \in kernel :
              /\ r.data = Receiver(h) /\ r.to # None /\ left[r.to] > 0
              /\ left' = [left EXCEPT ![r.to] = @ - 1]
              /\ Complete(r, [Completion(Receiver(h), "data")
                                  EXCEPT !.buf = NextBuffer])
        BY <2>1 DEF Receive
      <3> DEFINE e == [Completion(Receiver(h), "data") EXCEPT !.buf = NextBuffer]
      <3>2. NextBuffer \in BufferIds /\ r.to \in Conns
        BY <2>1, <3>1, SelectType DEF Receive, TypeOK
      <3>3. e \in Cqes /\ e.data = Receiver(h) /\ e.res = "data"
        BY <3>2, FrameTypes DEF Completion, Cqes, Results
      <3>4. cq' = Append(cq, e) /\ kernel' \subseteq kernel
        BY <3>1 DEF Complete
      <3> HIDE DEF e
      <3>5. ReceiveAnswered(r, e, h)
        BY <2>1, <3>1, <3>2, <3>3, <3>4
        DEF Receive, ReceiveAnswered, Posts, frameVars
      <3> QED  BY <3>3, <3>5
    <2>2. CASE ReceiveEof(h)
      <3>1. PICK r \in kernel :
              /\ r.data = Receiver(h)
              /\ \/ Complete(r, Completion(Receiver(h), "eof"))
                 \/ Complete(r, [Completion(Receiver(h), "eof")
                                     EXCEPT !.buf = NextBuffer])
        BY <2>2 DEF ReceiveEof
      <3>2. NextBuffer \in BufferIds
        BY <2>2 DEF TypeOK, RingTypeOK, NextBuffer
      <3>3. PICK e \in Cqes :
              e.data = Receiver(h) /\ e.res = "eof" /\ Complete(r, e)
        <4>1. /\ Completion(Receiver(h), "eof").res = "eof"
              /\ [Completion(Receiver(h), "eof") EXCEPT !.buf = NextBuffer].res = "eof"
          BY DEF Completion
        <4> QED  BY <3>1, <3>2, <4>1, AnswerPlain, AnswerBuffer
      <3>4. ReceiveAnswered(r, e, h)
        BY <2>2, <3>1, <3>3
        DEF ReceiveEof, ReceiveAnswered, Posts, Complete, clientVars, netVars,
            frameVars
      <3> QED  BY <3>4
    <2>3. CASE FailReceive(h)
      <3>1. PICK r \in kernel :
              /\ r.data = Receiver(h)
              /\ ~HasBuffer \/ r.to = None \/ (r.to # None /\ peer[r.to] = "reset")
              /\ Complete(r, Completion(Receiver(h), "error"))
        BY <2>3 DEF FailReceive
      <3> DEFINE e == Completion(Receiver(h), "error")
      <3>2. e \in Cqes /\ e.data = Receiver(h) /\ e.res = "error"
        BY AnswerPlain DEF Completion
      <3>3. cq' = Append(cq, e) /\ kernel' \subseteq kernel
        BY <3>1 DEF Complete
      <3>4. ~HasBuffer => offered = 0
        BY DEF HasBuffer, TypeOK, RingTypeOK
      <3> HIDE DEF e
      <3>5. ReceiveAnswered(r, e, h)
        BY <2>3, <3>1, <3>2, <3>3, <3>4
        DEF FailReceive, ReceiveAnswered, Posts, clientVars, netVars, frameVars
      <3> QED  BY <3>2, <3>5
    <2> QED  BY <1>3, <2>1, <2>2, <2>3 DEF KernelReceive
  <1>4. ASSUME NEW c \in Conns, NEW q \in Requests, KernelSend(c, q)
        PROVE  \E r \in kernel, e \in Cqes : SendAnswered(r, e, c, q)
    <2>0. Sender(c, q) \in FrameIds
      BY FrameTypes DEF Requests
    <2>1. ASSUME NEW res \in {"all", "some"}, CompleteSend(c, q, res)
          PROVE  \E r \in kernel, e \in Cqes : SendAnswered(r, e, c, q)
      <3>1. PICK r \in kernel :
              /\ r.data = Sender(c, q) /\ r.to # None
              /\ delivered' = [delivered EXCEPT ![r.to] =
                                  IF res = "all" THEN @ \cup {<<c, q>>} ELSE @]
              /\ Complete(r, Completion(Sender(c, q), res))
        BY <2>1 DEF CompleteSend
      <3> DEFINE e == Completion(Sender(c, q), res)
      <3>2. e \in Cqes /\ e.buf = NoBuf /\ e.data = Sender(c, q) /\ e.res = res
        BY <2>0, CompletionType DEF Completion, Results
      <3>3. cq' = Append(cq, e) /\ kernel' \subseteq kernel
        BY <3>1 DEF Complete
      <3>4. /\ res = "some" => "short" \in Faults
            /\ shorts' = [shorts EXCEPT ![c] = [shorts[c] EXCEPT ![q] =
                             IF res = "some" THEN shorts[c][q] + 1 ELSE shorts[c][q]]]
            /\ UNCHANGED <<sq, loop, current, live, sock, parsed, senders, heap, left>>
        BY <2>1 DEF CompleteSend, clientVars
      <3>5. r.to \in Conns /\ delivered \in [Conns -> SUBSET (Conns \X Requests)]
              /\ shorts \in [Conns -> [Requests -> 0 .. MaxShort]]
        BY <3>1 DEF TypeOK
      <3> HIDE DEF e
      <3>6. CASE res = "all"
        <4>1. delivered' = [delivered EXCEPT ![r.to] = @ \cup {<<c, q>>}]
          BY <3>1, <3>6
        <4>2. shorts' = shorts
          <5>1. [shorts[c] EXCEPT ![q] = shorts[c][q]] = shorts[c]
            BY <3>5
          <5>2. [shorts EXCEPT ![c] = shorts[c]] = shorts
            BY <3>5
          <5> QED  BY <3>4, <3>6, <5>1, <5>2
        <4>3. SendAnswered(r, e, c, q)
          BY <3>1, <3>2, <3>3, <3>4, <3>5, <3>6, <4>1, <4>2 DEF SendAnswered, Posts
        <4> QED  BY <3>2, <4>3
      <3>7. CASE res = "some"
        <4>1. delivered' = delivered
          BY <3>1, <3>5, <3>7
        <4>2. shorts' = [shorts EXCEPT ![c] = [shorts[c] EXCEPT ![q] = @ + 1]]
          BY <3>4, <3>7
        <4>3. SendAnswered(r, e, c, q)
          BY <3>1, <3>2, <3>3, <3>4, <3>7, <4>1, <4>2 DEF SendAnswered, Posts
        <4> QED  BY <3>2, <4>3
      <3> QED  BY <3>6, <3>7
    <2>2. CASE FailSend(c, q)
      <3>1. PICK r \in kernel :
              r.data = Sender(c, q) /\ Complete(r, Completion(Sender(c, q), "error"))
        BY <2>2 DEF FailSend
      <3> DEFINE e == Completion(Sender(c, q), "error")
      <3>2. e \in Cqes /\ e.buf = NoBuf /\ e.data = Sender(c, q) /\ e.res = "error"
        BY <2>0, CompletionType DEF Completion, Results
      <3>3. cq' = Append(cq, e) /\ kernel' \subseteq kernel
        BY <3>1 DEF Complete
      <3> HIDE DEF e
      <3>4. SendAnswered(r, e, c, q)
        BY <2>2, <3>1, <3>2, <3>3
        DEF FailSend, SendAnswered, Posts, clientVars, netVars, frameVars
      <3> QED  BY <3>2, <3>4
    <2> QED  BY <1>4, <2>1, <2>2 DEF KernelSend
  <1> QED  BY <1>1, <1>2, <1>3, <1>4 DEF Kernel

LEMMA OthersKeep ==
    ASSUME [Next]_vars, ~Kernel
    PROVE  /\ cq' = cq \/ cqe_seen
           /\ kernel' = kernel \/ Submit
           /\ UNCHANGED <<left, delivered, shorts>>
  <1>1. CASE UNCHANGED vars
    BY <1>1 DEF vars, uringVars, clientVars, netVars, frameVars
  <1>2. CASE Client
    BY <1>2 DEF Client, Connect, Close, Reset, uringVars, netVars, frameVars
  <1>3. CASE EventLoop
    <2>1. CASE Submit \/ SubmitFails \/ StartBatch \/ EndBatch
      BY <2>1
      DEF Submit, SubmitFails, StartBatch, EndBatch, uringVars, clientVars, netVars,
          frameVars
    <2>2. CASE AcceptClient
      BY <2>2
      DEF AcceptClient, Accepted, AcceptedError, AcceptedRefused, StartHandler,
          Resume, clientVars, netVars, frameVars
    <2>3. ASSUME NEW h \in Handlers, HandleClient(h)
          PROVE  /\ cq' = cq \/ cqe_seen
                 /\ kernel' = kernel
                 /\ UNCHANGED <<left, delivered, shorts>>
      BY <2>3
      DEF HandleClient, Received, ReceivedEof, ReceivedError, ParsePart,
          ParseRequest, Resume, clientVars, netVars, frameVars
    <2>4. ASSUME NEW c \in Conns, NEW q \in Requests, Send(c, q)
          PROVE  cqe_seen /\ UNCHANGED <<kernel, left, delivered, shorts>>
      BY <2>4
      DEF Send, SentAll, SentError, SentSome, DeletedTwice, Resume, clientVars,
          netVars, frameVars
    <2> QED  BY <1>3, <2>1, <2>2, <2>3, <2>4 DEF EventLoop
  <1> QED  BY <1>1, <1>2, <1>3 DEF Next

(* The completions that are left are old ones. *)
LEMMA OldEntries ==
    ASSUME TypeOK, cq' = cq \/ cqe_seen
    PROVE  \A i \in 1 .. Len(cq') : \E j \in 1 .. Len(cq) : cq'[i] = cq[j]
  BY SeenEntries

LEMMA PostedEntries ==
    ASSUME TypeOK, NEW r, NEW e, Posts(r, e)
    PROVE  \A i \in 1 .. Len(cq') :
              \/ i \in 1 .. Len(cq) /\ cq'[i] = cq[i]
              \/ i = Len(cq) + 1 /\ cq'[i] = e
  <1>1. e \in Cqes /\ cq' = Append(cq, e)
    BY DEF Posts
  <1>2. /\ \A i \in 1 .. Len(cq) : cq'[i] = cq[i]
        /\ cq'[Len(cq) + 1] = e
        /\ \A i \in 1 .. Len(cq') : i \in 1 .. Len(cq) \/ i = Len(cq) + 1
    BY <1>1, EntriesAppend
  <1> QED  BY <1>2

-----------------------------------------------------------------------------
(* The connection a response is sent on *)

(* A response that waits to be submitted is sent on the descriptor of its   *)
(* handler, and the request for the handler's next packet waits beside it:  *)
(* the handler exists, and the descriptor is its connection, until both     *)
(* are submitted.  A response that is sent again breaks this.               *)
WholeSends ==
    /\ \A i \in 1 .. Len(cq) : cq[i].res # "some"
    /\ \A i \in 1 .. Len(sq), c \in Conns, q \in Nat :
          sq[i].data = Sender(c, q)
            => sq[i].fd = sock[c] /\ Asked(sq, Receiver(c)) # {}

LEMMA WholeSendsFilled ==
    ASSUME TypeOK, FramesInv, WholeSends, [Next]_vars, Alive', ~Kernel
    PROVE  WholeSends'
  <1> DEFINE Beside(s, fds) ==
        \A i \in 1 .. Len(s), c \in Conns, q \in Nat :
           s[i].data = Sender(c, q)
             => s[i].fd = fds[c] /\ Asked(s, Receiver(c)) # {}
  <1>1. \A i \in 1 .. Len(cq') : cq'[i].res # "some"
    BY OthersKeep, OldEntries DEF WholeSends
  <1>2. Beside(sq', sock') => WholeSends'
    BY <1>1 DEF WholeSends
  <1>3. CASE Resting
    BY <1>1, <1>3 DEF Resting, WholeSends
  <1>4. CASE Submit
    BY <1>1, <1>4 DEF Submit, submit_and_wait, WholeSends
  <1>5. ASSUME NEW made, Fills(made), sock' = sock,
               \A j \in 1 .. Len(made), c \in Conns, q \in Nat :
                  made[j].data = Sender(c, q)
                    => made[j].fd = sock[c] /\ Asked(made, Receiver(c)) # {}
        PROVE  WholeSends'
    <2> SUFFICES ASSUME NEW i \in 1 .. Len(sq'), NEW c \in Conns, NEW q \in Nat,
                        sq'[i].data = Sender(c, q)
                 PROVE  sq'[i].fd = sock[c] /\ Asked(sq', Receiver(c)) # {}
      BY <1>2, <1>5
    <2>1. CASE i \in 1 .. Len(sq) /\ sq'[i] = sq[i]
      <3>1. sq[i].fd = sock[c] /\ Asked(sq, Receiver(c)) # {}
        BY <2>1 DEF WholeSends
      <3> QED  BY <1>5, <2>1, <3>1, FillsEntries
    <2>2. CASE \E j \in 1 .. Len(made) : sq'[i] = made[j]
      <3>1. sq'[i].fd = sock[c] /\ Asked(made, Receiver(c)) # {}
        BY <1>5, <2>2
      <3> QED  BY <1>5, <3>1, FillsEntries
    <2> QED  BY <1>5, <2>1, <2>2, FillsEntries
  <1>6. CASE Rearms
    <2> DEFINE a == Request(Acceptor, NoFd)
    <2>1. /\ Fills(<<a>>) /\ sock' = sock
          /\ \A c \in Conns, q \in Nat : a.data # Sender(c, q)
      BY <1>6, FramesDiffer DEF Rearms, Request
    <2> HIDE DEF a
    <2> QED  BY <1>5, <2>1, FilledOne
  <1>7. ASSUME NEW h \in Handlers, NEW fd \in Fds \cup {NoFd}, Starts(h, fd)
        PROVE  WholeSends'
    <2> DEFINE a == Request(Acceptor, NoFd)
    <2> DEFINE b == Request(Receiver(h), fd)
    <2> DEFINE made == IF Current.more THEN <<b>> ELSE <<a, b>>
    <2>1. /\ Fills(made)
          /\ \A g \in Handlers : g # h => sock'[g] = sock[g]
      BY <1>7 DEF Starts, TypeOK
    <2>2. \A i \in 1 .. Len(sq), c \in Conns, q \in Nat :
             sq[i].data = Sender(c, q) => c # h
      <3>1. Asked(sq, Receiver(h)) = {}
        BY <1>7, FrameCases, WhoWaits
        DEF Starts, FramesInv, OneRequestEach, Somewhere
      <3> QED  BY <3>1 DEF WholeSends
    <2>3. \A c \in Conns, q \in Nat : a.data # Sender(c, q) /\ b.data # Sender(c, q)
      BY FramesDiffer DEF Request
    <2> HIDE DEF a, b
    <2>4. \A j \in 1 .. Len(made) : made[j] = a \/ made[j] = b
      BY FilledOne, FilledTwo
    <2> HIDE DEF made
    <2>5. Beside(sq', sock')
      <3> SUFFICES ASSUME NEW i \in 1 .. Len(sq'), NEW c \in Conns, NEW q \in Nat,
                          sq'[i].data = Sender(c, q)
                   PROVE  sq'[i].fd = sock'[c] /\ Asked(sq', Receiver(c)) # {}
        OBVIOUS
      <3>1. i \in 1 .. Len(sq) /\ sq'[i] = sq[i]
        <4>1. \/ i \in 1 .. Len(sq) /\ sq'[i] = sq[i]
              \/ \E j \in 1 .. Len(made) : sq'[i] = made[j]
          BY <2>1, FillsEntries
        <4>2. \A j \in 1 .. Len(made) : made[j].data # Sender(c, q)
          BY <2>3, <2>4
        <4> QED  BY <4>1, <4>2
      <3>2. /\ c \in Handlers /\ c # h
            /\ sq[i].fd = sock[c] /\ Asked(sq, Receiver(c)) # {}
        BY <2>2, <3>1 DEF WholeSends, Handlers
      <3>3. Asked(sq', Receiver(c)) # {}
        BY <2>1, <3>2, FillsEntries
      <3> QED  BY <2>1, <3>1, <3>2, <3>3
    <2> QED  BY <1>2, <2>5
  <1>8. ASSUME NEW h \in Handlers, Continues(h)
        PROVE  WholeSends'
    <2> DEFINE b == Request(Receiver(h), sock[h])
    <2>1. /\ Fills(<<b>>) /\ sock' = sock
          /\ \A c \in Conns, q \in Nat : b.data # Sender(c, q)
      BY <1>8, FramesDiffer DEF Continues, Request
    <2> HIDE DEF b
    <2> QED  BY <1>5, <2>1, FilledOne
  <1>9. ASSUME NEW c \in Conns, NEW q \in Nat, Answers(c, q)
        PROVE  WholeSends'
    <2> DEFINE a == Request(Sender(c, q), sock[c])
    <2> DEFINE b == Request(Receiver(c), sock[c])
    <2>1. /\ Fills(<<a, b>>) /\ sock' = sock /\ a.fd = sock[c]
          /\ b.data = Receiver(c)
          /\ \A d \in Conns, p \in Nat : a.data = Sender(d, p) => d = c
          /\ \A d \in Conns, p \in Nat : b.data # Sender(d, p)
      BY <1>9, FramesDiffer DEF Answers, Request, Handlers
    <2> HIDE DEF a, b
    <2>2. Asked(<<a, b>>, Receiver(c)) # {}
      BY <2>1, FilledTwo
    <2>3. \A j \in 1 .. Len(<<a, b>>), d \in Conns, p \in Nat :
             <<a, b>>[j].data = Sender(d, p) => <<a, b>>[j] = a /\ d = c
      BY <2>1, FilledTwo
    <2> QED  BY <1>5, <2>1, <2>2, <2>3
  <1>10. ASSUME NEW c \in Conns, NEW q \in Requests, NEW fd \in Fds \cup {NoFd}
         PROVE  ~Resends(c, q, fd)
    BY SeenEntries DEF Resends, WholeSends
  <1> QED
    BY <1>3, <1>4, <1>6, <1>7, <1>8, <1>9, <1>10, FillStep

LEMMA WholeSendsPosted ==
    ASSUME TypeOK, WholeSends, "short" \notin Faults, Kernel
    PROVE  WholeSends'
  <1>1. PICK r \in kernel, e \in Cqes :
          \/ AcceptAnswered(r, e)
          \/ \E h \in Handlers : ReceiveAnswered(r, e, h)
          \/ \E c \in Conns, q \in Requests : SendAnswered(r, e, c, q)
    BY KernelAnswers
  <1>2. Posts(r, e) /\ e.res # "some"
    BY <1>1 DEF AcceptAnswered, ReceiveAnswered, SendAnswered
  <1>3. UNCHANGED <<sq, sock>>
    BY <1>2 DEF Posts
  <1> QED  BY <1>2, <1>3, PostedEntries DEF WholeSends

LEMMA OwnNext ==
    ASSUME TypeOK, Alive => FramesInv /\ WholeSends, OwnConnectionOnly,
           "short" \notin Faults, [Next]_vars
    PROVE  OwnConnectionOnly'
  <1>1. CASE Kernel
    <2>1. PICK r \in kernel, e \in Cqes :
            \/ AcceptAnswered(r, e)
            \/ \E h \in Handlers : ReceiveAnswered(r, e, h)
            \/ \E c \in Conns, q \in Requests : SendAnswered(r, e, c, q)
      BY <1>1, KernelAnswers
    <2>2. kernel' \subseteq kernel
      BY <2>1 DEF Posts, AcceptAnswered, ReceiveAnswered, SendAnswered
    <2>3. CASE delivered' = delivered
      BY <2>2, <2>3 DEF OwnConnectionOnly
    <2>4. CASE delivered' # delivered
      <3>1. PICK c \in Conns, q \in Requests :
              /\ r.data = Sender(c, q) /\ r.to \in Conns
              /\ delivered' = [delivered EXCEPT ![r.to] = @ \cup {<<c, q>>}]
        BY <2>1, <2>4 DEF AcceptAnswered, ReceiveAnswered, SendAnswered
      <3>2. r.to = c
        BY <3>1 DEF OwnConnectionOnly, Sender
      <3>3. \A d \in Conns : delivered'[d] =
               IF d = c THEN delivered[d] \cup {<<c, q>>} ELSE delivered[d]
        BY <3>1, <3>2 DEF TypeOK
      <3>4. \A d \in Conns : \A m \in delivered'[d] : m[1] = d
        <4>1. <<c, q>>[1] = c
          OBVIOUS
        <4> SUFFICES ASSUME NEW d \in Conns, NEW m \in delivered'[d]
                     PROVE  m[1] = d
          OBVIOUS
        <4>2. m \in delivered[d] \/ (d = c /\ m = <<c, q>>)
          BY <3>3
        <4> QED  BY <4>1, <4>2 DEF OwnConnectionOnly
      <3> QED  BY <2>2, <3>4 DEF OwnConnectionOnly
    <2> QED  BY <2>3, <2>4
  <1>2. CASE Submit
    <2>1. /\ delivered' = delivered /\ FramesInv /\ WholeSends
          /\ kernel' = kernel \cup {[data |-> sq[i].data, to |-> FileOf(sq[i].fd)] :
                                        i \in 1 .. Len(sq)}
      BY <1>2 DEF Submit, submit_and_wait, netVars, Alive
    <2>2. ASSUME NEW i \in 1 .. Len(sq), sq[i].data.kind = "send"
          PROVE  FileOf(sq[i].fd) = sq[i].data.conn
      <3>1. PICK c \in Conns, q \in Nat : sq[i].data = Sender(c, q)
        <4>1. sq[i].data \in AllFrames
          BY <2>1 DEF FramesInv, OnlyFrames
        <4>2. Acceptor.kind # "send" /\ \A h : Receiver(h).kind # "send"
          BY DEF Acceptor, Receiver
        <4> QED  BY <2>2, <4>1, <4>2, FrameCases
      <3>2. sq[i].fd = sock[c] /\ Asked(sq, Receiver(c)) # {}
        BY <2>1, <3>1 DEF WholeSends
      <3>3. c \in live
        BY <2>1, <3>2, FrameCases, WhoWaits
        DEF FramesInv, OneRequestEach, Somewhere, Handlers
      <3>4. FileOf(sock[c]) = c
        BY <2>1, <3>3 DEF FramesInv, Owned, HandlersHaveTheirs, FileOf
      <3>5. sq[i].data.conn = c
        BY <3>1 DEF Sender
      <3> QED  BY <3>2, <3>4, <3>5
    <2>3. \A r \in kernel' : r.data.kind = "send" => r.to = r.data.conn
      BY <2>1, <2>2 DEF OwnConnectionOnly
    <2> QED  BY <2>1, <2>3 DEF OwnConnectionOnly
  <1>3. CASE ~Kernel /\ ~Submit
    BY <1>3, OthersKeep DEF OwnConnectionOnly
  <1> QED  BY <1>1, <1>2, <1>3

(* Where responses are not cut short, a response is only ever sent on the   *)
(* connection its request came from: its descriptor number is still that    *)
(* connection when the kernel looks it up, whatever else fails, and the     *)
(* kernel holds on to the connection afterwards.                            *)
THEOREM ResponsesOnOwnConnection ==
    ASSUME "short" \notin Faults
    PROVE  Spec => []OwnConnectionOnly
  <1> DEFINE Inv == (Alive => WholeSends) /\ OwnConnectionOnly
  <1>1. ASSUME Init
        PROVE  Inv
    <2>1. /\ cq = <<>> /\ sq = <<Request(Acceptor, NoFd)>> /\ kernel = {}
          /\ delivered = [c \in Conns |-> {}]
      BY <1>1 DEF Init, UringInit
    <2>2. \A c \in Conns, q \in Nat : Request(Acceptor, NoFd).data # Sender(c, q)
      BY FramesDiffer DEF Request
    <2>3. WholeSends
      BY <2>1, <2>2, FilledOne DEF WholeSends
    <2> QED  BY <2>1, <2>3 DEF OwnConnectionOnly
  <1>2. ASSUME TypeOK, Alive => FramesInv, Inv, [Next]_vars
        PROVE  Inv'
    <2>1. (Alive => WholeSends)'
      BY <1>2, AliveBefore, WholeSendsFilled, WholeSendsPosted
    <2>2. OwnConnectionOnly'
      BY <1>2, OwnNext
    <2> QED  BY <2>1, <2>2
  <1>3. Inv => OwnConnectionOnly
    OBVIOUS
  <1> QED  BY <1>1, <1>2, <1>3, FramesAlways, PTL DEF Spec

-----------------------------------------------------------------------------
(* The message a response is sent from *)

(* A connection has as many requests parsed as it has sent packets, at      *)
(* most, and fewer while one of them waits to be parsed: the requests that  *)
(* are answered are those of the model.                                     *)
WithinBudget ==
    /\ \A c \in Conns :
          /\ parsed[c] + left[c] <= MaxPackets
          /\ current.conn = c => parsed[c] + left[c] < MaxPackets
    /\ \A i \in 1 .. Len(cq), c \in Conns :
          cq[i].data = Receiver(c) /\ cq[i].res = "data"
            => parsed[c] + left[c] < MaxPackets
    /\ senders \subseteq Conns \X Requests

LEMMA WithinBudgetPosted ==
    ASSUME TypeOK, ReceivesOwn, WithinBudget, Kernel
    PROVE  WithinBudget'
  <1>1. PICK r \in kernel, e \in Cqes :
          \/ AcceptAnswered(r, e)
          \/ \E h \in Handlers : ReceiveAnswered(r, e, h)
          \/ \E c \in Conns, q \in Requests : SendAnswered(r, e, c, q)
    BY KernelAnswers
  <1>2. /\ Posts(r, e) /\ e.data = r.data
        /\ UNCHANGED <<current, parsed, senders>>
    BY <1>1 DEF Posts, AcceptAnswered, ReceiveAnswered, SendAnswered
  <1>3. \A c \in Conns : parsed[c] \in Nat /\ left[c] \in Nat
    BY DEF TypeOK
  <1>4. CASE left' = left /\ (\A c \in Conns : e.data = Receiver(c) => e.res # "data")
    BY <1>2, <1>4, PostedEntries DEF WithinBudget
  <1>5. CASE \E h \in Handlers : ReceiveAnswered(r, e, h) /\ e.res = "data"
    <2>1. PICK h \in Handlers :
            /\ r.data = Receiver(h) /\ r.to \in Conns /\ left[r.to] > 0
            /\ left' = [left EXCEPT ![r.to] = @ - 1]
      BY <1>5 DEF ReceiveAnswered
    <2>2. r.to = h /\ h \in Conns
      BY <2>1, ConnsAssumption DEF ReceivesOwn
    <2>3. \A c \in Conns : left'[c] = IF c = h THEN left[c] - 1 ELSE left[c]
      BY <2>1, <2>2 DEF TypeOK
    <2>4. \A c \in Conns : e.data = Receiver(c) => c = h
      BY <1>2, <2>1, FramesDiffer DEF Handlers
    <2>5. \A c \in Conns : /\ parsed[c] + left'[c] <= MaxPackets
                           /\ parsed[c] + left'[c] <= parsed[c] + left[c]
                           /\ c = h => parsed[c] + left'[c] < MaxPackets
      BY <1>3, <2>3, BoundsAssumption DEF WithinBudget
    <2>6. ASSUME NEW c \in Conns, current.conn = c
          PROVE  parsed[c] + left'[c] < MaxPackets
      BY <1>3, <2>3, <2>6, BoundsAssumption DEF WithinBudget
    <2>7. ASSUME NEW i \in 1 .. Len(cq'), NEW c \in Conns,
                 cq'[i].data = Receiver(c), cq'[i].res = "data"
          PROVE  parsed[c] + left'[c] < MaxPackets
      <3>1. CASE i \in 1 .. Len(cq) /\ cq'[i] = cq[i]
        <4>1. parsed[c] + left[c] < MaxPackets
          BY <2>7, <3>1 DEF WithinBudget
        <4> QED  BY <1>3, <2>3, <4>1, BoundsAssumption
      <3>2. CASE cq'[i] = e
        BY <2>4, <2>5, <2>7, <3>2
      <3> QED  BY <1>2, <3>1, <3>2, PostedEntries
    <2> QED  BY <1>2, <2>5, <2>6, <2>7 DEF WithinBudget
  <1>6. CASE AcceptAnswered(r, e)
    BY <1>4, <1>6 DEF AcceptAnswered
  <1>7. CASE \E h \in Handlers : ReceiveAnswered(r, e, h) /\ e.res # "data"
    BY <1>4, <1>7 DEF ReceiveAnswered
  <1>8. CASE \E c \in Conns, q \in Requests : SendAnswered(r, e, c, q)
    BY <1>4, <1>8 DEF SendAnswered
  <1> QED  BY <1>1, <1>5, <1>6, <1>7, <1>8

LEMMA WithinBudgetNext ==
    ASSUME TypeOK, FramesInv, ReceivesOwn, WithinBudget, [Next]_vars, Alive'
    PROVE  WithinBudget'
  <1>1. CASE Kernel
    BY <1>1, WithinBudgetPosted
  <1>2. CASE ~Kernel
    <2>1. /\ left' = left
          /\ \A i \in 1 .. Len(cq') : \E j \in 1 .. Len(cq) : cq'[i] = cq[j]
      BY <1>2, OthersKeep, OldEntries
    <2>2. None \notin Conns /\ Idle.conn = None
      BY ConnsAssumption DEF Idle
    <2>3. ASSUME UNCHANGED parsed, current' \in {current, Idle}, senders' \subseteq senders
          PROVE  WithinBudget'
      BY <2>1, <2>2, <2>3 DEF WithinBudget
    <2>4. ASSUME NEW h \in Handlers, Received(h)
          PROVE  WithinBudget'
      <3>1. /\ Resume(Receiver(h), "data") /\ current'.conn = h
            /\ UNCHANGED <<parsed, senders>>
        BY <2>4 DEF Received, frameVars
      <3>2. /\ 1 \in 1 .. Len(cq) /\ cq[1] = Current
            /\ Current.data = Receiver(h) /\ Current.res = "data"
        BY <3>1, SeenEntries DEF Resume
      <3>3. h \in Conns => parsed[h] + left[h] < MaxPackets
        BY <3>2 DEF WithinBudget
      <3> QED  BY <2>1, <3>1, <3>3 DEF WithinBudget
    <2>5. ASSUME NEW h \in Handlers, ParseRequest(h)
          PROVE  WithinBudget'
      <3> DEFINE q == parsed[h] + 1
      <3>1. /\ h \in Conns /\ current.conn = h /\ current' = Idle
            /\ parsed' = [parsed EXCEPT ![h] = q]
            /\ senders' = senders \cup {<<h, q>>}
            /\ cq' = cq
        BY <2>5 DEF ParseRequest, NextPacket
      <3>2. \A c \in Conns : /\ parsed[c] \in Nat /\ left[c] \in Nat
                             /\ parsed'[c] = IF c = h THEN q ELSE parsed[c]
        BY <3>1 DEF TypeOK
      <3>3. parsed[h] + left[h] < MaxPackets
        BY <3>1 DEF WithinBudget
      <3>4. q \in Requests /\ q + left[h] <= MaxPackets
        BY <3>1, <3>2, <3>3, BoundsAssumption DEF Requests
      <3>5. ASSUME NEW i \in 1 .. Len(cq), cq[i].data = Receiver(h)
            PROVE  FALSE
        <4>1. ~cq[i].more
          BY <3>1, <3>5, FramesDiffer DEF FramesInv, MultishotAccepts
        <4>2. Answered(cq, Receiver(h)) # {}
          BY <3>5, <4>1 DEF Answered
        <4> QED  BY <3>1, <4>2, FrameCases, WhoWaits
                 DEF FramesInv, OneRequestEach, Somewhere
      <3> HIDE DEF q
      <3>6. \A c \in Conns : parsed'[c] + left'[c] <= MaxPackets
        BY <2>1, <3>2, <3>4 DEF WithinBudget
      <3>7. \A i \in 1 .. Len(cq'), c \in Conns :
               cq'[i].data = Receiver(c) /\ cq'[i].res = "data"
                 => parsed'[c] + left'[c] < MaxPackets
        BY <2>1, <3>1, <3>2, <3>5 DEF WithinBudget
      <3>8. senders' \subseteq Conns \X Requests
        BY <3>1, <3>4 DEF WithinBudget
      <3> QED  BY <2>2, <3>1, <3>6, <3>7, <3>8 DEF WithinBudget
    <2>6. CASE UNCHANGED vars \/ Client \/ Submit \/ StartBatch \/ EndBatch
      BY <2>3, <2>6
      DEF vars, Client, Connect, Close, Reset, Submit, StartBatch, EndBatch,
          frameVars
    <2>7. CASE AcceptClient
      BY <2>3, <2>7
      DEF AcceptClient, Accepted, AcceptedError, AcceptedRefused, StartHandler,
          frameVars
    <2>8. ASSUME NEW h \in Handlers, ReceivedEof(h) \/ ParsePart(h)
          PROVE  WithinBudget'
      BY <2>3, <2>8 DEF ReceivedEof, ParsePart, NextPacket, frameVars
    <2>9. ASSUME NEW c \in Conns, NEW q \in Requests,
                 SentAll(c, q) \/ SentError(c, q) \/ SentSome(c, q)
          PROVE  WithinBudget'
      BY <2>3, <2>9 DEF SentAll, SentError, SentSome, EndSend
    <2> QED
      BY <1>2, <2>4, <2>5, <2>6, <2>7, <2>8, <2>9, AliveBefore
  <1> QED  BY <1>1, <1>2

(* A response that has not been cut short still has its characters. *)
CharsKept ==
    /\ \A c \in Conns, q \in Requests :
          <<c, q>> \in senders /\ shorts[c][q] = 0 => <<"chars", c, q>> \in heap
    /\ \A i \in 1 .. Len(cq), c \in Conns, q \in Requests :
          cq[i].data = Sender(c, q) /\ cq[i].res = "some" => shorts[c][q] > 0

LEMMA CharsKeptNext ==
    ASSUME TypeOK, CharsKept, [Next]_vars, Alive'
    PROVE  CharsKept'
  <1>1. \A c \in Conns, q \in Requests : shorts[c][q] \in Nat
    BY BoundsAssumption DEF TypeOK
  <1>2. CASE Kernel
    <2>1. PICK r \in kernel, e \in Cqes :
            \/ AcceptAnswered(r, e)
            \/ \E h \in Handlers : ReceiveAnswered(r, e, h)
            \/ \E c \in Conns, q \in Requests : SendAnswered(r, e, c, q)
      BY <1>2, KernelAnswers
    <2>2. Posts(r, e) /\ e.data = r.data /\ UNCHANGED <<senders, heap>>
      BY <2>1 DEF Posts, AcceptAnswered, ReceiveAnswered, SendAnswered
    <2>3. ASSUME shorts' = shorts, e.res # "some"
          PROVE  CharsKept'
      BY <2>2, <2>3, PostedEntries DEF CharsKept
    <2>4. ASSUME NEW d \in Conns, NEW p \in Requests, SendAnswered(r, e, d, p),
                 e.res = "some"
          PROVE  CharsKept'
      <3>1. /\ shorts' = [shorts EXCEPT ![d] = [shorts[d] EXCEPT ![p] = @ + 1]]
            /\ e.data = Sender(d, p)
        BY <2>2, <2>4 DEF SendAnswered
      <3>2. \A c \in Conns, q \in Requests : shorts'[c][q] =
               IF c = d /\ q = p THEN shorts[c][q] + 1 ELSE shorts[c][q]
        BY <3>1 DEF TypeOK
      <3>3. \A c \in Conns, q \in Requests :
               e.data = Sender(c, q) => c = d /\ q = p
        BY <3>1 DEF Sender
      <3>4. \A c \in Conns, q \in Requests :
               /\ shorts'[c][q] = 0 => shorts[c][q] = 0
               /\ shorts[c][q] > 0 => shorts'[c][q] > 0
               /\ e.data = Sender(c, q) => shorts'[c][q] > 0
        BY <1>1, <3>2, <3>3
      <3> QED  BY <2>2, <3>4, PostedEntries DEF CharsKept
    <2> QED
      BY <2>1, <2>3, <2>4 DEF AcceptAnswered, ReceiveAnswered, SendAnswered
  <1>3. CASE ~Kernel
    <2>1. /\ shorts' = shorts
          /\ \A i \in 1 .. Len(cq') : \E j \in 1 .. Len(cq) : cq'[i] = cq[j]
      BY <1>3, OthersKeep, OldEntries
    <2>2. \A i \in 1 .. Len(cq'), c \in Conns, q \in Requests :
             cq'[i].data = Sender(c, q) /\ cq'[i].res = "some" => shorts'[c][q] > 0
      BY <2>1 DEF CharsKept
    <2>3. ASSUME \A c \in Conns, q \in Requests :
                    <<c, q>> \in senders' /\ shorts[c][q] = 0
                      => <<"chars", c, q>> \in heap'
          PROVE  CharsKept'
      BY <2>1, <2>2, <2>3 DEF CharsKept
    <2>4. CASE UNCHANGED <<senders, heap>>
      BY <2>3, <2>4 DEF CharsKept
    <2>5. ASSUME NEW h \in Handlers, ParseRequest(h)
          PROVE  CharsKept'
      <3>1. PICK q : /\ senders' = senders \cup {<<h, q>>}
                     /\ heap' = heap \cup Message(h, q)
        BY <2>5 DEF ParseRequest
      <3>2. heap' = heap \cup {<<"object", h, q>>, <<"chars", h, q>>}
        BY <3>1 DEF Message
      <3>3. \A c \in Conns, p \in Requests :
               <<c, p>> \in senders' => <<c, p>> \in senders \/ (c = h /\ p = q)
        BY <3>1
      <3> QED  BY <2>3, <3>2, <3>3 DEF CharsKept
    <2>6. ASSUME NEW d \in Conns, NEW p \in Requests,
                 SentAll(d, p) \/ SentError(d, p) \/ SentSome(d, p)
          PROVE  CharsKept'
      <3>1. heap' = heap \ {<<"chars", d, p>>}
        BY <2>6 DEF SentAll, SentError, SentSome, DeleteChars
      <3>2. \A c \in Conns, q \in Requests :
               <<"chars", c, q>> \in heap => \/ <<"chars", c, q>> \in heap'
                                             \/ c = d /\ q = p
        BY <3>1
      <3>3. CASE SentAll(d, p) \/ SentError(d, p)
        <4>1. senders' = senders \ {<<d, p>>}
          BY <3>3 DEF SentAll, SentError, EndSend
        <4> QED  BY <2>3, <3>2, <4>1 DEF CharsKept
      <3>4. CASE SentSome(d, p)
        <4>1. Resume(Sender(d, p), "some") /\ senders' = senders
          BY <3>4 DEF SentSome
        <4>2. shorts[d][p] > 0
          BY <4>1, SeenEntries DEF Resume, CharsKept
        <4>3. shorts[d][p] # 0
          BY <1>1, <4>2
        <4> QED  BY <2>3, <3>2, <4>1, <4>3 DEF CharsKept
      <3> QED  BY <2>6, <3>3, <3>4
    <2> QED  BY <2>4, <2>5, <2>6, ResponsesKept
  <1> QED  BY <1>2, <1>3

HeldInv == ReceivesOwn /\ WithinBudget /\ CharsKept

LEMMA HeldAlways ==
    Spec => [](TypeOK /\ (Alive => FramesInv /\ HeldInv))
  <1>1. ASSUME Init
        PROVE  HeldInv
    <2>1. /\ cq = <<>> /\ sq = <<Request(Acceptor, NoFd)>> /\ kernel = {}
          /\ senders = {} /\ current = Idle
          /\ parsed = [c \in Conns |-> 0] /\ left = [c \in Conns |-> MaxPackets]
          /\ sock = [h \in Handlers |-> NoFd]
      BY <1>1 DEF Init, UringInit
    <2>2. \A h \in Handlers : Request(Acceptor, NoFd).data # Receiver(h)
      BY FramesDiffer DEF Request
    <2>3. ReceivesOwn
      BY <2>1, <2>2, FilledOne DEF ReceivesOwn, Handlers
    <2>4. WithinBudget
      BY <2>1, BoundsAssumption, ConnsAssumption DEF WithinBudget, Idle
    <2>5. CharsKept
      BY <2>1 DEF CharsKept
    <2> QED  BY <2>3, <2>4, <2>5 DEF HeldInv
  <1>2. ASSUME TypeOK, Alive => FramesInv /\ HeldInv, [Next]_vars
        PROVE  (Alive => HeldInv)'
    BY <1>2, AliveBefore, ReceivesNext, WithinBudgetNext, CharsKeptNext DEF HeldInv
  <1> QED  BY <1>1, <1>2, FramesAlways, PTL DEF Spec

(* While the kernel may read the characters of a response that was not cut  *)
(* short, they exist, whatever else goes wrong: await_resume deletes them   *)
(* when the send has been answered, and never before.                       *)
THEOREM MessagesHeld == Spec => []MessageHeldWhileSending
  <1>1. ASSUME TypeOK, Alive => FramesInv /\ HeldInv
        PROVE  MessageHeldWhileSending
    <2> SUFFICES ASSUME Alive, NEW r \in kernel, r.data.kind = "send",
                        shorts[r.data.conn][r.data.req] = 0
                 PROVE  <<"chars", r.data.conn, r.data.req>> \in heap
      BY DEF MessageHeldWhileSending
    <2>1. FramesInv /\ CharsKept /\ WithinBudget
      BY <1>1 DEF HeldInv
    <2>2. PICK c \in Conns, q \in Nat : r.data = Sender(c, q)
      <3>1. r.data \in AllFrames
        BY <2>1 DEF FramesInv, OnlyFrames
      <3>2. Acceptor.kind # "send" /\ \A h : Receiver(h).kind # "send"
        BY DEF Acceptor, Receiver
      <3> QED  BY <3>1, <3>2, FrameCases
    <2>3. r.data.conn = c /\ r.data.req = q
      BY <2>2 DEF Sender
    <2>4. Held(kernel, Sender(c, q)) # {}
      BY <2>2 DEF Held
    <2>5. <<c, q>> \in senders
      BY <1>1, <2>1, <2>4, FrameCases, WhoWaits
      DEF FramesInv, OneRequestEach, Somewhere
    <2>6. q \in Requests
      BY <2>1, <2>5 DEF WithinBudget
    <2> QED  BY <2>1, <2>3, <2>5, <2>6 DEF CharsKept
  <1> QED  BY <1>1, HeldAlways, PTL

-----------------------------------------------------------------------------
(* The provisioned worker *)

(* No fault, a buffer for each connection, a descriptor more than there are *)
(* connections, and submission entries for two requests of each.            *)
Provisioned ==
    /\ Faults = {}
    /\ Conns # {}
    /\ Cardinality(Conns) <= NumBuffers
    /\ IsFiniteSet(Fds) => Cardinality(Conns) < Cardinality(Fds)
    /\ 2 * Cardinality(Conns) <= SqEntries

(* Nothing that the event loop or a frame stumbles over is ever posted. *)
Serene ==
    /\ \A c \in Conns : peer[c] # "reset"
    /\ Phantom \notin live
    /\ \A c \in Conns, q \in Requests : shorts[c][q] = 0
    /\ \A i \in 1 .. Len(cq) :
          /\ cq[i].res \notin {"refused", "some"}
          /\ cq[i].res = "error" => cq[i].data.kind = "send"
          /\ cq[i].buf # NoBuf => \E h \in Handlers : cq[i].data = Receiver(h)

(* The handlers whose next receive waits to be submitted: each comes with   *)
(* one entry at most beside it, the rearmed accept or a response.           *)
Askers(s) == {c \in Conns : Asked(s, Receiver(c)) # {}}

Room ==
    \/ loop = "submit" /\ Len(sq) <= 1
    \/ Len(sq) <= 2 * Cardinality(Askers(sq))

LEMMA AskersCount ==
    ASSUME NEW s
    PROVE  /\ IsFiniteSet(Askers(s)) /\ Cardinality(Askers(s)) \in Nat
           /\ Cardinality(Askers(s)) <= Cardinality(Conns)
           /\ Cardinality(Conns) \in Nat
           /\ \A h \in Conns : Asked(s, Receiver(h)) = {} =>
                 Cardinality(Askers(s)) + 1 <= Cardinality(Conns)
  <1>1. IsFiniteSet(Conns) /\ Askers(s) \in SUBSET Conns
    BY ConnsAssumption DEF Askers
  <1>2. /\ IsFiniteSet(Askers(s)) /\ Cardinality(Askers(s)) <= Cardinality(Conns)
    BY <1>1, FS_Subset
  <1>3. Cardinality(Askers(s)) \in Nat /\ Cardinality(Conns) \in Nat
    BY <1>1, <1>2, FS_CardinalityType
  <1>4. ASSUME NEW h \in Conns, Asked(s, Receiver(h)) = {}
        PROVE  Cardinality(Askers(s)) + 1 <= Cardinality(Conns)
    <2>1. Askers(s) \in SUBSET (Conns \ {h})
      BY <1>4 DEF Askers
    <2>2. /\ IsFiniteSet(Conns \ {h})
          /\ Cardinality(Conns \ {h}) = Cardinality(Conns) - 1
      BY <1>1, FS_RemoveElement
    <2>3. Cardinality(Askers(s)) <= Cardinality(Conns \ {h})
      BY <2>1, <2>2, FS_Subset
    <2> QED  BY <1>3, <2>2, <2>3
  <1> QED  BY <1>2, <1>3, <1>4

(* A handler that is resumed, or new, has room for two entries. *)
LEMMA RoomLeft ==
    ASSUME Provisioned, TypeOK, Room, loop # "submit",
           NEW h \in Conns, Asked(sq, Receiver(h)) = {},
           NEW n \in {1, 2}
    PROVE  HasRoom(n)
  <1>1. /\ Len(sq) <= 2 * Cardinality(Askers(sq)) /\ Len(sq) \in Nat
        /\ 2 * Cardinality(Conns) <= SqEntries /\ SqEntries \in Nat
    BY SqEntriesAssumption DEF Room, Provisioned, TypeOK
  <1>2. /\ Cardinality(Askers(sq)) + 1 <= Cardinality(Conns)
        /\ Cardinality(Askers(sq)) \in Nat /\ Cardinality(Conns) \in Nat
    BY AskersCount
  <1> QED  BY <1>1, <1>2 DEF HasRoom

LEMMA RoomFilled ==
    ASSUME TypeOK, NEW made, Fills(made), Len(made) \in {1, 2},
           Len(sq) <= 2 * Cardinality(Askers(sq)),
           NEW h \in Conns, Asked(sq, Receiver(h)) = {},
           Asked(made, Receiver(h)) # {}
    PROVE  Len(sq') <= 2 * Cardinality(Askers(sq'))
  <1>1. Len(sq') = Len(sq) + Len(made)
    BY FillsEntries
  <1>2. Askers(sq) \cup {h} \in SUBSET Askers(sq')
    BY FillsEntries DEF Askers
  <1>3. h \notin Askers(sq)
    BY DEF Askers
  <1>4. /\ IsFiniteSet(Askers(sq)) /\ Cardinality(Askers(sq)) \in Nat
        /\ IsFiniteSet(Askers(sq')) /\ Cardinality(Askers(sq')) \in Nat
    BY AskersCount
  <1>5. Cardinality(Askers(sq) \cup {h}) = Cardinality(Askers(sq)) + 1
    BY <1>3, <1>4, FS_AddElement
  <1>6. Cardinality(Askers(sq)) + 1 <= Cardinality(Askers(sq'))
    BY <1>2, <1>4, <1>5, FS_Subset
  <1>7. sq \in Seq(Sqes)
    BY DEF TypeOK
  <1>8. Len(sq) \in Nat
    BY <1>7
  <1> DEFINE n == Len(made)
  <1> DEFINE old == Cardinality(Askers(sq))
  <1> DEFINE new == Cardinality(Askers(sq'))
  <1>9. /\ n \in {1, 2} /\ old \in Nat /\ new \in Nat /\ old + 1 <= new
        /\ Len(sq) <= 2 * old
    BY <1>4, <1>6
  <1> HIDE DEF n, old, new
  <1>10. Len(sq) + n <= 2 * new
    BY <1>8, <1>9
  <1> QED  BY <1>1, <1>10 DEF n, new

(* An accept finds a descriptor. *)
LEMMA FreeFdsLeft ==
    ASSUME Provisioned, TypeOK, FramesInv
    PROVE  FreeFds # {}
  <1> SUFFICES ASSUME FreeFds = {} PROVE FALSE
    OBVIOUS
  <1>1. \A f \in Fds : file[f] \in Conns /\ file[f] # None
    BY DEF FreeFds, TypeOK
  <1>2. file \in [Fds -> Conns]
    BY <1>1 DEF TypeOK
  <1>3. \A f, g \in Fds : file[f] = file[g] => f = g
    BY <1>1 DEF FramesInv, Owned, AcceptedOnce
  <1>4. file \in Injection(Fds, Conns)
    BY <1>2, <1>3 DEF Injection, IsInjective
  <1>5. IsFiniteSet(Conns)
    BY ConnsAssumption
  <1>6. IsFiniteSet(Fds) /\ Cardinality(Fds) <= Cardinality(Conns)
    BY <1>4, <1>5, FS_Injection
  <1>7. Cardinality(Fds) \in Nat /\ Cardinality(Conns) \in Nat
    BY <1>5, <1>6, FS_CardinalityType
  <1> QED  BY <1>6, <1>7 DEF Provisioned

(* A receive finds a buffer: every entry that is not offered belongs to     *)
(* another connection.                                                      *)
LEMMA BuffersLeft ==
    ASSUME Provisioned, TypeOK, FramesInv, EntriesInv, Serene,
           NEW h \in Handlers, Held(kernel, Receiver(h)) # {}
    PROVE  h \in Conns /\ offered # 0
  <1>1. \A g \in live : g \in Conns
    BY DEF TypeOK, Serene, Handlers
  <1>2. h \in live /\ h # current.conn
    BY FrameCases, WhoWaits DEF FramesInv, OneRequestEach, Somewhere
  <1> DEFINE Owner == [i \in Filled(cq) |-> cq[i].data.conn]
  <1>3. ASSUME NEW i \in Filled(cq)
        PROVE  /\ cq[i].data = Receiver(Owner[i]) /\ Owner[i] \in live
               /\ Owner[i] # h /\ Owner[i] # current.conn
               /\ i \in Answered(cq, Receiver(Owner[i]))
               /\ AtMostOne(Answered(cq, Receiver(Owner[i])))
    <2>1. i \in 1 .. Len(cq) /\ cq[i].buf # NoBuf
      BY <1>3 DEF Filled
    <2>2. PICK g \in Handlers : cq[i].data = Receiver(g)
      BY <2>1 DEF Serene
    <2>3. Owner[i] = g
      BY <1>3, <2>2 DEF Receiver
    <2>4. ~cq[i].more
      BY <2>1, <2>2, FramesDiffer DEF FramesInv, MultishotAccepts
    <2>5. i \in Answered(cq, Receiver(g))
      BY <2>1, <2>2, <2>4 DEF Answered
    <2>6. Single(Receiver(g)) /\ Receiver(g) \in Waiting
      BY <2>5, FrameCases DEF FramesInv, OneRequestEach, Somewhere
    <2>7. g \in live /\ g # current.conn
      BY <2>6, WhoWaits
    <2>8. g # h
      BY <2>5, <2>6 DEF Single
    <2> HIDE DEF Owner
    <2> QED  BY <2>2, <2>3, <2>5, <2>6, <2>7, <2>8 DEF Single
  <1> DEFINE Others == (Conns \ {h}) \ {current.conn}
  <1>4. Owner \in Injection(Filled(cq), Others)
    <2>1. Owner \in [Filled(cq) -> Others]
      <3>1. \A i \in Filled(cq) : Owner[i] \in Others
        BY <1>1, <1>3
      <3> QED  BY <3>1
    <2>2. \A i, j \in Filled(cq) : Owner[i] = Owner[j] => i = j
      <3> HIDE DEF Owner
      <3> QED  BY <1>3 DEF AtMostOne
    <2> HIDE DEF Owner, Others
    <2> QED  BY <2>1, <2>2 DEF Injection, IsInjective
  <1>5. /\ IsFiniteSet(Conns \ {h}) /\ IsFiniteSet(Others)
        /\ Cardinality(Conns \ {h}) = Cardinality(Conns) - 1
        /\ Cardinality(Others) = IF current.conn \in Conns \ {h}
                                 THEN Cardinality(Conns \ {h}) - 1
                                 ELSE Cardinality(Conns \ {h})
    <2>1. /\ IsFiniteSet(Conns \ {h})
          /\ Cardinality(Conns \ {h}) = Cardinality(Conns) - 1
      BY <1>1, <1>2, ConnsAssumption, FS_RemoveElement
    <2> QED  BY <2>1, FS_RemoveElement
  <1>6. Cardinality(Filled(cq)) <= Cardinality(Others)
    <2> HIDE DEF Owner, Others
    <2> QED  BY <1>4, <1>5, FS_Injection
  <1>7. /\ Cardinality(Conns) \in Nat /\ Cardinality(Filled(cq)) \in Nat
        /\ NumBuffers \in Nat /\ Cardinality(Conns) <= NumBuffers
    BY FilledFinite, ConnsAssumption, FS_CardinalityType, NumBuffersAssumption
    DEF TypeOK, Provisioned
  <1>8. /\ offered + EntriesInUse = NumBuffers /\ offered \in Nat
        /\ EntriesInUse = Cardinality(Filled(cq)) + (IF current = Idle THEN 0 ELSE 1)
    BY DEF EntriesInv, Provisioned, EntriesInUse, Filled, TypeOK, RingTypeOK
  <1>9. current # Idle => current.conn \in Conns \ {h}
    BY <1>1, <1>2 DEF FramesInv, Turns
  <1> HIDE DEF Owner, Others
  <1>10. EntriesInUse <= Cardinality(Conns) - 1
    <2>1. CASE current = Idle
      BY <1>5, <1>6, <1>7, <1>8, <2>1
    <2>2. CASE current # Idle
      BY <1>5, <1>6, <1>7, <1>8, <1>9, <2>2
    <2> QED  BY <2>1, <2>2
  <1>11. offered # 0
    BY <1>7, <1>8, <1>10
  <1> QED  BY <1>1, <1>2, <1>11

(* The completions a serene queue holds for a frame. *)
LEMMA SereneSeen ==
    ASSUME TypeOK, FramesInv, Serene, cqe_seen
    PROVE  /\ Current.res \notin {"refused", "some"}
           /\ Current.res = "error" => Current.data # Acceptor
           /\ \A h \in Handlers : Current.res = "error" => Current.data # Receiver(h)
  <1>1. 1 \in 1 .. Len(cq) /\ Current = cq[1]
    BY SeenEntries
  <1>2. Acceptor.kind # "send" /\ \A h : Receiver(h).kind # "send"
    BY DEF Acceptor, Receiver
  <1> QED  BY <1>1, <1>2 DEF Serene

LEMMA HasRoomPrepares ==
    ASSUME NEW sqes, NEW next, Prepare(sqes, next), HasRoom(Len(sqes)),
           next # "dead"
    PROVE  Alive'
  BY DEF Prepare, Alive

(* A frame that prepares entries for a handler's next receive does not      *)
(* overflow the queue.                                                      *)
LEMMA NoOverflow ==
    ASSUME Provisioned, TypeOK, FramesInv, Room, loop # "submit",
           NEW h \in Conns, Receiver(h) \notin Waiting,
           NEW sqes, Len(sqes) \in {1, 2}, Prepare(sqes, "visit")
    PROVE  Alive'
  <1>1. Asked(sq, Receiver(h)) = {}
    BY FrameCases DEF FramesInv, OneRequestEach, Somewhere, Handlers
  <1>2. HasRoom(Len(sqes))
    BY <1>1, RoomLeft
  <1> QED  BY <1>2, HasRoomPrepares

LEMMA StaysAlive ==
    ASSUME Provisioned, TypeOK, FramesInv, HeldInv, Serene, Room, Alive, [Next]_vars
    PROVE  Alive'
  <1>1. CASE UNCHANGED vars
    BY <1>1 DEF vars, Alive
  <1>2. CASE Client
    BY <1>2 DEF Client, Connect, Close, Reset, Alive
  <1>3. CASE Kernel
    BY <1>3
    DEF Kernel, CompleteAccept, FailAccept, KernelReceive, Receive, ReceiveEof,
        FailReceive, KernelSend, CompleteSend, FailSend, Alive
  <1>4. CASE Submit \/ SubmitFails \/ StartBatch \/ EndBatch
    BY <1>4 DEF Submit, SubmitFails, StartBatch, EndBatch, Alive, Provisioned
  <1>5. ASSUME NEW c \in Conns, Accepted(c)
        PROVE  Alive'
    <2> DEFINE b == Request(Receiver(c), Current.fd)
    <2> DEFINE made == Rearm \o <<b>>
    <2>1. loop = "visit" /\ Prepare(made, "visit")
      BY <1>5 DEF Accepted, Resume, StartHandler
    <2>2. Receiver(c) \notin Waiting
      BY <1>5, NewHandler, WhoWaits DEF Handlers
    <2>3. Len(made) \in {1, 2}
      <3>1. /\ <<>> \o <<b>> = <<b>>
            /\ <<Request(Acceptor, NoFd)>> \o <<b>> = <<Request(Acceptor, NoFd), b>>
        <4>1. b \in Sqes /\ Request(Acceptor, NoFd) \in Sqes
          BY <1>5, FrameTypes, RequestType DEF Accepted, Handlers
        <4> HIDE DEF b
        <4> QED  BY <4>1, Concat
      <3> HIDE DEF b
      <3> QED  BY <3>1 DEF Rearm
    <2> HIDE DEF b, made
    <2>4. loop # "submit"
      BY <2>1
    <2> QED  BY <2>1, <2>2, <2>3, <2>4, NoOverflow
  <1>6. ASSUME AcceptedError \/ AcceptedRefused
        PROVE  FALSE
    BY <1>6, SereneSeen DEF AcceptedError, AcceptedRefused, Resume
  <1>7. ASSUME NEW h \in Handlers, Received(h) \/ ReceivedEof(h)
        PROVE  Alive'
    BY <1>7 DEF Received, ReceivedEof, Alive
  <1>8. ASSUME NEW h \in Handlers, ReceivedError(h)
        PROVE  FALSE
    BY <1>8, SereneSeen DEF ReceivedError, Resume
  <1>9. ASSUME NEW h \in Handlers, ParsePart(h) \/ ParseRequest(h)
        PROVE  Alive'
    <2> DEFINE b == Request(Receiver(h), sock[h])
    <2>1. loop = "parse" /\ current.conn = h
      BY <1>9 DEF ParsePart, ParseRequest
    <2>2. h \in live /\ h \in Conns
      BY <2>1 DEF FramesInv, Turns, Serene, Handlers
    <2>3. Receiver(h) \notin Waiting
      BY <2>1, WhoWaits
    <2>4. b \in Sqes
      BY FrameTypes, RequestType DEF TypeOK
    <2>5. CASE ParsePart(h)
      <3>1. Prepare(<<>> \o <<b>>, "visit")
        BY <2>5 DEF ParsePart, NextPacket
      <3> HIDE DEF b
      <3>2. <<>> \o <<b>> = <<b>> /\ Len(<<b>>) \in {1, 2}
        BY <2>4, Concat
      <3>3. Prepare(<<b>>, "visit")
        BY <3>1, <3>2
      <3> QED  BY <2>1, <2>2, <2>3, <3>2, <3>3, NoOverflow
    <2>6. CASE ParseRequest(h)
      <3> DEFINE a == Request(Sender(h, parsed[h] + 1), sock[h])
      <3>1. Prepare(<<a>> \o <<b>>, "visit")
        BY <2>6 DEF ParseRequest, NextPacket, Response, ResponseSocket
      <3>2. a \in Sqes
        BY <2>2, FrameTypes, RequestType DEF TypeOK
      <3> HIDE DEF a, b
      <3>3. <<a>> \o <<b>> = <<a, b>> /\ Len(<<a, b>>) \in {1, 2}
        BY <2>4, <3>2, Concat
      <3>4. Prepare(<<a, b>>, "visit")
        BY <3>1, <3>3
      <3> QED  BY <2>1, <2>2, <2>3, <3>3, <3>4, NoOverflow
    <2> QED  BY <1>9, <2>5, <2>6
  <1>10. ASSUME NEW c \in Conns, NEW q \in Requests, Send(c, q)
         PROVE  Alive'
    <2>1. CASE SentAll(c, q) \/ SentError(c, q)
      BY <2>1 DEF SentAll, SentError, Alive
    <2>2. CASE SentSome(c, q)
      BY <2>2, SereneSeen DEF SentSome, Resume
    <2>3. ASSUME DeletedTwice(c, q)
          PROVE  FALSE
      <3>1. /\ Resume(Sender(c, q), Current.res) /\ <<"chars", c, q>> \notin heap
            /\ q \in Nat
        BY <2>3 DEF DeletedTwice, Requests
      <3>2. 1 \in 1 .. Len(cq) /\ cq[1].data = Sender(c, q) /\ Current = cq[1]
        BY <3>1, SeenEntries DEF Resume
      <3>3. ~Current.more
        BY <3>1, <3>2, FramesDiffer DEF FramesInv, MultishotAccepts
      <3>4. Sender(c, q) \in Waiting
        BY <3>1, <3>3, FrameCases, ResumedFrame
      <3>5. <<c, q>> \in senders
        BY <3>1, <3>4, WhoWaits
      <3> QED  BY <3>1, <3>5 DEF Serene, HeldInv, CharsKept
    <2> QED  BY <1>10, <2>1, <2>2, <2>3 DEF Send
  <1> QED
    BY <1>1, <1>2, <1>3, <1>4, <1>5, <1>6, <1>7, <1>8, <1>9, <1>10
    DEF Next, EventLoop, AcceptClient, HandleClient

LEMMA PeersNotReset ==
    ASSUME Faults = {}, TypeOK, \A c \in Conns : peer[c] # "reset", [Next]_vars
    PROVE  \A c \in Conns : peer'[c] # "reset"
  <1>1. CASE Client
    BY <1>1 DEF Client, Connect, Close, Reset, TypeOK
  <1>2. CASE Kernel
    BY <1>2
    DEF Kernel, CompleteAccept, FailAccept, KernelReceive, Receive, ReceiveEof,
        FailReceive, KernelSend, CompleteSend, FailSend, clientVars
  <1>3. CASE EventLoop
    <2>1. CASE Submit \/ SubmitFails \/ StartBatch \/ EndBatch \/ AcceptClient
      BY <2>1
      DEF Submit, SubmitFails, StartBatch, EndBatch, AcceptClient, Accepted,
          AcceptedError, AcceptedRefused, StartHandler, clientVars
    <2>2. ASSUME NEW h \in Handlers, HandleClient(h)
          PROVE  peer' = peer
      BY <2>2
      DEF HandleClient, Received, ReceivedEof, ReceivedError, ParsePart,
          ParseRequest, clientVars
    <2>3. ASSUME NEW c \in Conns, NEW q \in Requests, Send(c, q)
          PROVE  peer' = peer
      BY <2>3 DEF Send, SentAll, SentError, SentSome, DeletedTwice, clientVars
    <2> QED  BY <1>3, <2>1, <2>2, <2>3 DEF EventLoop
  <1>4. CASE UNCHANGED vars
    BY <1>4 DEF vars, clientVars
  <1> QED  BY <1>1, <1>2, <1>3, <1>4 DEF Next

(* What the kernel posts when nothing goes wrong. *)
LEMMA SerenePosted ==
    ASSUME Provisioned, TypeOK, FramesInv, HeldInv, EntriesInv, Serene, Kernel
    PROVE  /\ UNCHANGED <<live, shorts>>
           /\ \A i \in 1 .. Len(cq') :
                 /\ cq'[i].res \notin {"refused", "some"}
                 /\ cq'[i].res = "error" => cq'[i].data.kind = "send"
                 /\ cq'[i].buf # NoBuf => \E h \in Handlers : cq'[i].data = Receiver(h)
  <1>1. PICK r \in kernel, e \in Cqes :
          \/ AcceptAnswered(r, e)
          \/ \E h \in Handlers : ReceiveAnswered(r, e, h)
          \/ \E c \in Conns, q \in Requests : SendAnswered(r, e, c, q)
    BY KernelAnswers
  <1>2. Posts(r, e) /\ e.data = r.data /\ Faults = {} /\ live' = live
    BY <1>1 DEF Posts, AcceptAnswered, ReceiveAnswered, SendAnswered, Provisioned
  <1>3. CASE AcceptAnswered(r, e)
    <2>1. e.res = "ok" /\ e.buf = NoBuf /\ shorts' = shorts
      BY <1>2, <1>3, FreeFdsLeft DEF AcceptAnswered
    <2> QED  BY <1>2, <2>1, PostedEntries DEF Serene
  <1>4. ASSUME NEW h \in Handlers, ReceiveAnswered(r, e, h)
        PROVE  e.res \in {"data", "eof"} /\ e.data = Receiver(h) /\ shorts' = shorts
    <2>1. r.data = Receiver(h) /\ e.data = Receiver(h) /\ shorts' = shorts
      BY <1>2, <1>4 DEF ReceiveAnswered
    <2>2. Held(kernel, Receiver(h)) # {}
      BY <2>1 DEF Held
    <2>3. h \in Conns /\ offered # 0
      BY <2>2, BuffersLeft
    <2>4. r.to = h /\ h # None
      BY <2>1, <2>3, ConnsAssumption DEF HeldInv, ReceivesOwn
    <2>5. peer[h] # "reset"
      BY <2>3 DEF Serene
    <2> QED  BY <1>4, <2>1, <2>3, <2>4, <2>5 DEF ReceiveAnswered
  <1>5. CASE \E h \in Handlers : ReceiveAnswered(r, e, h)
    BY <1>2, <1>4, <1>5, PostedEntries DEF Serene
  <1>6. ASSUME NEW c \in Conns, NEW q \in Requests, SendAnswered(r, e, c, q)
        PROVE  /\ e.res \in {"all", "error"} /\ e.data.kind = "send" /\ e.buf = NoBuf
               /\ shorts' = shorts
    BY <1>2, <1>6 DEF SendAnswered, Sender
  <1>7. CASE \E c \in Conns, q \in Requests : SendAnswered(r, e, c, q)
    BY <1>2, <1>6, <1>7, PostedEntries DEF Serene
  <1> QED  BY <1>1, <1>3, <1>5, <1>7

LEMMA NoPhantom ==
    ASSUME TypeOK, FramesInv, Serene, [Next]_vars, Alive', ~Kernel
    PROVE  Phantom \notin live'
  <1>1. CASE UNCHANGED vars
    BY <1>1 DEF vars, frameVars, Serene
  <1>2. CASE Client \/ Submit \/ StartBatch \/ EndBatch
    BY <1>2
    DEF Client, Connect, Close, Reset, Submit, StartBatch, EndBatch, frameVars, Serene
  <1>3. CASE AcceptClient
    <2>1. ~AcceptedError
      BY SereneSeen DEF AcceptedError, Resume
    <2>2. CASE AcceptedRefused
      BY <2>2 DEF AcceptedRefused, frameVars, Serene
    <2>3. ASSUME NEW c \in Conns, Accepted(c)
          PROVE  Phantom \notin live'
      BY <2>3, ConnsAssumption DEF Accepted, StartHandler, Serene
    <2> QED  BY <1>3, <2>1, <2>2, <2>3 DEF AcceptClient
  <1>4. ASSUME NEW h \in Handlers,
               Received(h) \/ ReceivedEof(h) \/ ParsePart(h) \/ ParseRequest(h)
        PROVE  Phantom \notin live'
    BY <1>4
    DEF Received, ReceivedEof, ParsePart, ParseRequest, frameVars, Serene
  <1>5. ASSUME NEW c \in Conns, NEW q \in Requests,
               SentAll(c, q) \/ SentError(c, q) \/ SentSome(c, q)
        PROVE  Phantom \notin live'
    BY <1>5 DEF SentAll, SentError, SentSome, Serene
  <1> QED  BY <1>1, <1>2, <1>3, <1>4, <1>5, AliveBefore

LEMMA SereneNext ==
    ASSUME Provisioned, TypeOK, FramesInv, HeldInv, EntriesInv, Serene, [Next]_vars,
           Alive'
    PROVE  Serene'
  <1>1. \A c \in Conns : peer'[c] # "reset"
    BY PeersNotReset DEF Provisioned, Serene
  <1>2. CASE Kernel
    BY <1>1, <1>2, SerenePosted DEF Serene
  <1>3. CASE ~Kernel
    <2>1. /\ shorts' = shorts
          /\ \A i \in 1 .. Len(cq') : \E j \in 1 .. Len(cq) : cq'[i] = cq[j]
      BY <1>3, OthersKeep, OldEntries
    <2>2. Phantom \notin live'
      BY <1>3, NoPhantom
    <2> QED  BY <1>1, <2>1, <2>2 DEF Serene
  <1> QED  BY <1>2, <1>3

(* Before a submit, nothing is filled. *)
LEMMA WaitsToSubmit ==
    ASSUME [Next]_vars, loop = "submit", Alive'
    PROVE  Submit \/ UNCHANGED <<sq, loop>>
  <1>1. CASE UNCHANGED vars
    BY <1>1 DEF vars, uringVars
  <1>2. CASE Client
    BY <1>2 DEF Client, Connect, Close, Reset, uringVars
  <1>3. CASE Kernel
    <2>1. ASSUME NEW h \in Handlers, KernelReceive(h)
          PROVE  UNCHANGED <<sq, loop>>
      BY <2>1 DEF KernelReceive, Receive, ReceiveEof, FailReceive
    <2>2. ASSUME NEW c \in Conns, NEW q \in Requests, KernelSend(c, q)
          PROVE  UNCHANGED <<sq, loop>>
      BY <2>2 DEF KernelSend, CompleteSend, FailSend
    <2>3. ASSUME NEW c \in Conns, CompleteAccept(c)
          PROVE  UNCHANGED <<sq, loop>>
      BY <2>3 DEF CompleteAccept
    <2>4. CASE FailAccept
      BY <2>4 DEF FailAccept
    <2> QED  BY <1>3, <2>1, <2>2, <2>3, <2>4 DEF Kernel
  <1>4. CASE EventLoop
    BY <1>4
    DEF EventLoop, SubmitFails, StartBatch, EndBatch, AcceptClient, Accepted,
        AcceptedError, AcceptedRefused, HandleClient, Received, ReceivedEof,
        ReceivedError, ParsePart, ParseRequest, Send, SentAll, SentError, SentSome,
        DeletedTwice, Resume, Alive
  <1> QED  BY <1>1, <1>2, <1>3, <1>4 DEF Next

(* What is filled in a step of a serene worker: a handler's next receive,   *)
(* that of a handler which has none waiting, with one entry beside it or    *)
(* none.                                                                    *)
LEMMA SereneFills ==
    ASSUME TypeOK, FramesInv, Serene, Serene', [Next]_vars, Alive'
    PROVE  \/ UNCHANGED sq \/ Submit
           \/ \E h \in Conns, made \in Seq(Sqes) :
                 /\ Fills(made) /\ Len(made) \in {1, 2}
                 /\ Asked(sq, Receiver(h)) = {} /\ Asked(made, Receiver(h)) # {}
  <1>1. ASSUME NEW h \in Handlers, Receiver(h) \notin Waiting
        PROVE  Asked(sq, Receiver(h)) = {}
    BY <1>1, FrameCases DEF FramesInv, OneRequestEach, Somewhere
  <1>2. Resting => UNCHANGED sq
    BY DEF Resting
  <1>3. ~Rearms
    BY SereneSeen DEF Rearms
  <1>4. ASSUME NEW c \in Conns, NEW q \in Requests, NEW fd \in Fds \cup {NoFd},
               Resends(c, q, fd)
        PROVE  FALSE
    BY <1>4, SereneSeen DEF Resends
  <1>5. ASSUME NEW h \in Handlers, NEW fd \in Fds \cup {NoFd}, Starts(h, fd)
        PROVE  \E made \in Seq(Sqes) :
                  /\ h \in Conns
                  /\ Fills(made) /\ Len(made) \in {1, 2}
                  /\ Asked(sq, Receiver(h)) = {} /\ Asked(made, Receiver(h)) # {}
    <2> DEFINE a == Request(Acceptor, NoFd)
    <2> DEFINE b == Request(Receiver(h), fd)
    <2> DEFINE made == IF Current.more THEN <<b>> ELSE <<a, b>>
    <2>1. h \notin live /\ h \in Conns /\ Fills(made)
      BY <1>5 DEF Starts, Serene
    <2>2. Asked(sq, Receiver(h)) = {}
      BY <1>1, <2>1, WhoWaits
    <2>3. b.data = Receiver(h)
      BY DEF Request
    <2> HIDE DEF a, b
    <2>4. Len(made) \in {1, 2} /\ Asked(made, Receiver(h)) # {}
      BY <2>3, FilledOne, FilledTwo
    <2> HIDE DEF made
    <2> QED  BY <2>1, <2>2, <2>4 DEF Fills
  <1>6. ASSUME NEW h \in Handlers, Continues(h)
        PROVE  \E made \in Seq(Sqes) :
                  /\ h \in Conns
                  /\ Fills(made) /\ Len(made) \in {1, 2}
                  /\ Asked(sq, Receiver(h)) = {} /\ Asked(made, Receiver(h)) # {}
    <2> DEFINE b == Request(Receiver(h), sock[h])
    <2>1. h \in Conns /\ Fills(<<b>>) /\ current.conn = h
      BY <1>6 DEF Continues, Serene, Handlers
    <2>2. Asked(sq, Receiver(h)) = {}
      BY <1>1, <2>1, WhoWaits
    <2>3. b.data = Receiver(h)
      BY DEF Request
    <2> HIDE DEF b
    <2> QED  BY <2>1, <2>2, <2>3, FilledOne DEF Fills
  <1>7. ASSUME NEW c \in Conns, NEW q \in Nat, Answers(c, q)
        PROVE  \E made \in Seq(Sqes) :
                  /\ Fills(made) /\ Len(made) \in {1, 2}
                  /\ Asked(sq, Receiver(c)) = {} /\ Asked(made, Receiver(c)) # {}
    <2> DEFINE a == Request(Sender(c, q), sock[c])
    <2> DEFINE b == Request(Receiver(c), sock[c])
    <2>1. Fills(<<a, b>>) /\ current.conn = c /\ c \in Handlers
      BY <1>7 DEF Answers, Handlers
    <2>2. Asked(sq, Receiver(c)) = {}
      BY <1>1, <2>1, WhoWaits
    <2>3. b.data = Receiver(c)
      BY DEF Request
    <2> DEFINE made == <<a, b>>
    <2> HIDE DEF a, b
    <2>4. Len(made) \in {1, 2} /\ Asked(made, Receiver(c)) # {}
      BY <2>3, FilledTwo
    <2>5. Fills(made)
      BY <2>1
    <2> HIDE DEF made
    <2> QED  BY <2>2, <2>4, <2>5 DEF Fills
  <1> QED  BY <1>2, <1>3, <1>4, <1>5, <1>6, <1>7, FillStep

LEMMA RoomNext ==
    ASSUME TypeOK, FramesInv, Serene, Serene', Room, [Next]_vars, Alive'
    PROVE  Room'
  <1>1. CASE Submit
    <2>1. sq' = <<>>
      BY <1>1 DEF Submit, submit_and_wait
    <2>2. Len(<<>>) = 0
      OBVIOUS
    <2>3. Cardinality(Askers(sq')) \in Nat
      BY AskersCount
    <2> QED  BY <2>1, <2>2, <2>3 DEF Room
  <1>2. CASE UNCHANGED sq /\ ~Submit
    <2>1. loop = "submit" => loop' = "submit"
      BY <1>2, WaitsToSubmit
    <2>2. Askers(sq') = Askers(sq)
      BY <1>2
    <2> QED  BY <1>2, <2>1, <2>2 DEF Room
  <1>3. ASSUME ~Submit, ~(UNCHANGED sq)
        PROVE  Room'
    <2>1. loop # "submit"
      BY <1>3, WaitsToSubmit
    <2>2. PICK h \in Conns, made \in Seq(Sqes) :
            /\ Fills(made) /\ Len(made) \in {1, 2}
            /\ Asked(sq, Receiver(h)) = {} /\ Asked(made, Receiver(h)) # {}
      BY <1>3, SereneFills
    <2>3. Len(sq) <= 2 * Cardinality(Askers(sq))
      BY <2>1 DEF Room
    <2>4. Len(sq') <= 2 * Cardinality(Askers(sq'))
      BY <2>2, <2>3, RoomFilled
    <2> QED  BY <2>4 DEF Room
  <1> QED  BY <1>1, <1>2, <1>3

ProvisionedInv == Alive /\ Serene /\ Room

LEMMA ProvisionedAlways == ASSUME Provisioned PROVE Spec => []ProvisionedInv
  <1>1. ASSUME Init
        PROVE  ProvisionedInv
    <2>1. /\ sq = <<Request(Acceptor, NoFd)>> /\ cq = <<>> /\ loop = "submit"
          /\ peer = [c \in Conns |-> "idle"] /\ live = {}
          /\ shorts = [c \in Conns |-> [r \in Requests |-> 0]]
      BY <1>1 DEF Init, UringInit
    <2>2. Len(sq) = 1 /\ Len(cq) = 0
      BY <2>1, FilledOne
    <2> QED  BY <2>1, <2>2 DEF ProvisionedInv, Alive, Serene, Room
  <1>2. ASSUME TypeOK, Alive => FramesInv /\ HeldInv, Alive => EntriesInv,
               ProvisionedInv, [Next]_vars
        PROVE  ProvisionedInv'
    <2>1. FramesInv /\ HeldInv /\ EntriesInv /\ Serene /\ Room /\ Alive
      BY <1>2 DEF ProvisionedInv
    <2>2. Alive'
      BY <1>2, <2>1, StaysAlive
    <2>3. Serene'
      BY <1>2, <2>1, <2>2, SereneNext
    <2>4. Room'
      BY <1>2, <2>1, <2>2, <2>3, RoomNext
    <2> QED  BY <2>2, <2>3, <2>4 DEF ProvisionedInv
  <1> QED  BY <1>1, <1>2, HeldAlways, EntriesAlways, PTL DEF Spec

(* A worker with a buffer for each connection, a descriptor to spare and    *)
(* two submission entries for each connection is never terminated, as long  *)
(* as nothing goes wrong: no receive fails for want of a buffer, no accept  *)
(* for want of a descriptor, and no entry is taken from a full queue.       *)
THEOREM ProvisionedNeverDown == ASSUME Provisioned PROVE Spec => []NeverDown
  <1>1. ProvisionedInv => NeverDown
    BY DEF ProvisionedInv, NeverDown
  <1> QED  BY <1>1, ProvisionedAlways, PTL

(* Between two submits such a worker fills two submission entries for each  *)
(* connection at most, whatever the queue holds beyond that.                *)
THEOREM ProvisionedSubmissions ==
    ASSUME Provisioned PROVE Spec => []SubmissionsBounded
  <1>1. ASSUME TypeOK, ProvisionedInv
        PROVE  SubmissionsBounded
    <2>1. /\ Len(sq) \in Nat
          /\ Cardinality(Conns) \in Nat /\ Cardinality(Askers(sq)) \in Nat
          /\ Cardinality(Askers(sq)) <= Cardinality(Conns)
      BY <1>1, AskersCount DEF TypeOK
    <2>2. Cardinality(Conns) # 0
      BY ConnsAssumption, FS_EmptySet DEF Provisioned
    <2>3. Len(sq) <= 1 \/ Len(sq) <= 2 * Cardinality(Askers(sq))
      BY <1>1 DEF ProvisionedInv, Room
    <2> DEFINE n == Cardinality(Conns)
    <2> DEFINE m == Cardinality(Askers(sq))
    <2>4. n \in Nat /\ m \in Nat /\ m <= n /\ n # 0 /\ Len(sq) \in Nat
          /\ (Len(sq) <= 1 \/ Len(sq) <= 2 * m)
      BY <2>1, <2>2, <2>3
    <2> HIDE DEF n, m
    <2>5. Len(sq) <= 2 * n
      BY <2>4
    <2> QED  BY <2>5 DEF n, SubmissionsBounded
  <1> QED  BY <1>1, WorkerTypeCorrect, ProvisionedAlways, PTL
=============================================================================

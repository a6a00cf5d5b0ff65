------------------------------ MODULE IoUring ------------------------------
(***************************************************************************)
(* The io_uring wrapper (BaseNet/io_uring.h, io_uring.cpp): one ring per   *)
(* thread.  The thread fills submission entries with the submit_*_request  *)
(* functions; submit_and_wait hands them to the kernel; the kernel answers *)
(* each with a completion, in any order; the event loop walks the          *)
(* completions that were there when it asked for end().                    *)
(*                                                                         *)
(* A request names the coroutine that awaits it (sqe_data.coroutine) and   *)
(* the file descriptor it is for.  The kernel looks the descriptor up when *)
(* the entry is submitted, and not before: a request in the kernel keeps   *)
(* the file it found.                                                      *)
(*                                                                         *)
(* The completion queue has no bound here: the kernel keeps what does not  *)
(* fit on an overflow list and loses nothing (IORING_FEAT_NODROP).  The    *)
(* submission queue is bounded, since io_uring_get_sqe fails when it is    *)
(* full and the wrapper does not look.                                     *)
(***************************************************************************)
EXTENDS Naturals, Sequences

CONSTANTS
    SqEntries  \* IO_URING_QUEUE_SIZE

ASSUME SqEntriesAssumption == SqEntries \in Nat \ {0}

VARIABLES
    sq,      \* entries filled and not yet submitted, in order
    kernel,  \* requests the kernel works on
    cq,      \* completions posted and not yet seen, oldest first
    batch    \* how many of them the event loop still has to visit

uringVars == <<sq, kernel, cq, batch>>

(* A ring in which the thread has filled the given entries. *)
UringInit(entries) ==
    /\ sq = entries
    /\ kernel = {}
    /\ cq = <<>>
    /\ batch = 0

(* io_uring_get_sqe returns an entry for each of n requests. *)
HasRoom(n) == Len(sq) + n <= SqEntries

(* submit_and_wait: every filled entry goes to the kernel, as the request  *)
(* the caller says the kernel makes of it.                                 *)
submit_and_wait(requests) ==
    /\ sq' = <<>>
    /\ kernel' = kernel \cup requests

(* The kernel finishes request r with completion e. *)
Complete(r, e) ==
    /\ r \in kernel
    /\ kernel' = kernel \ {r}
    /\ cq' = Append(cq, e)

(* A multishot request posts e and goes on. *)
CompleteMore(r, e) ==
    /\ r \in kernel
    /\ kernel' = kernel
    /\ cq' = Append(cq, e)

(* begin() and end(), read once when the range-for starts. *)
begin_end ==
    /\ cq # <<>>
    /\ batch' = Len(cq)

(* The completion the iterator stands on, and cqe_seen with operator++. *)
Current == Head(cq)

cqe_seen ==
    /\ batch > 0
    /\ batch' = batch - 1
    /\ cq' = Tail(cq)
=============================================================================

------------------------------- MODULE Splice -------------------------------
(***************************************************************************)
(* open, pipe and splice (BaseNet/file_descriptor.cpp): a coroutine that   *)
(* moves a file to a socket through a pipe, with one request for each      *)
(* half, and the file_descriptors that own the file and the pipe.          *)
(*                                                                         *)
(* It is called as handle_client means to (http_server.cpp, commented      *)
(* out): the length asked for is the size the file had a moment before it  *)
(* was opened.  The file may be written or truncated meanwhile, requests   *)
(* may fail, and the kernel may move less than it is asked to.             *)
(*                                                                         *)
(* A pipe has slots of a page each.  Bytes that are left in a page keep    *)
(* its slot, so that a pipe may be full with few bytes in it.  Then a      *)
(* splice into it waits, and one out of an empty pipe waits as long as     *)
(* somebody may write to it.                                               *)
(***************************************************************************)
EXTENDS Integers

CONSTANTS
    Length,    \* length
    MaxSize,   \* the file is never longer
    Slots,     \* the pipe's slots
    PageSize,  \* the bytes of a page
    None       \* no descriptor

ASSUME LengthAssumption == Length \in Nat /\ MaxSize \in Nat
ASSUME PipeAssumption == Slots \in Nat \ {0} /\ PageSize \in Nat \ {0}
ASSUME NoneAssumption == None \notin {"file", "read", "write"}

VARIABLES
    pc,          \* where the caller and the coroutine are
    size,        \* the file's size
    longest,     \* the greatest size it had since it was opened
    offset,      \* the file's offset
    bytes,       \* the bytes in the pipe
    slots,       \* the slots they are in
    bytes_sent,  \* bytes_sent
    result,      \* what splice returned
    open,        \* the descriptors that are open
    held         \* raw_file_descriptor_ of each file_descriptor

file == <<size, longest>>
pipe == <<bytes, slots>>
descriptors == <<open, held>>

vars == <<pc, file, offset, pipe, bytes_sent, result, descriptors>>

Descriptors == {"file", "read", "write"}

(* The file_descriptors: the file, the temporaries of pipe and what they   *)
(* are moved to.                                                           *)
Objects == {"file", "temp0", "temp1", "read_pipe", "write_pipe"}

Init ==
    /\ pc = "opening"
    /\ size = Length
    /\ longest = Length
    /\ offset = 0
    /\ bytes = 0
    /\ slots = 0
    /\ bytes_sent = 0
    /\ result = 0
    /\ open = {}
    /\ held = [o \in Objects |-> None]

-----------------------------------------------------------------------------
(* file_descriptor *)

Holds(o, d) == [held EXCEPT ![o] = d]

(* A mutant: the one that is moved from keeps the descriptor. *)
MovedKept ==
    [held EXCEPT !["read_pipe"] = held["temp0"], !["write_pipe"] = held["temp1"]]

(* The move constructor, twice. *)
Moved ==
    [o \in Objects |->
        CASE o = "read_pipe" -> held["temp0"]
          [] o = "write_pipe" -> held["temp1"]
          [] o \in {"temp0", "temp1"} -> None
          [] OTHER -> held[o]]

(* ~file_descriptor of each of the objects *)
Destroy(objects) ==
    /\ open' = open \ {held[o] : o \in objects}
    /\ held' = [o \in Objects |-> IF o \in objects THEN None ELSE held[o]]

-----------------------------------------------------------------------------
(* The file's other users *)

Resize ==
    /\ pc # "done"
    /\ size' \in 0 .. MaxSize
    /\ longest' = IF size' > longest THEN size' ELSE longest
    /\ UNCHANGED <<pc, offset, pipe, bytes_sent, result, descriptors>>

-----------------------------------------------------------------------------
(* open throws if it fails; otherwise splice is called. *)
Open ==
    /\ pc = "opening"
    /\ \/ /\ pc' = "piping"
          /\ open' = open \cup {"file"}
          /\ held' = Holds("file", "file")
          /\ UNCHANGED result
       \/ pc' = "done" /\ result' = -1 /\ UNCHANGED descriptors
    /\ UNCHANGED <<file, offset, pipe, bytes_sent>>

(* pipe throws if it fails, out of a coroutine: the process terminates.    *)
Pipe ==
    /\ pc = "piping"
    /\ \/ /\ pc' = "moving"
          /\ open' = open \cup {"read", "write"}
          /\ held' = [held EXCEPT !["temp0"] = "read", !["temp1"] = "write"]
          /\ UNCHANGED result
       \/ pc' = "done" /\ result' = -1 /\ Destroy({"file"})
    /\ UNCHANGED <<file, offset, pipe, bytes_sent>>

Move ==
    /\ pc = "moving"
    /\ held' = Moved
    /\ pc' = "moved"
    /\ UNCHANGED <<file, offset, pipe, bytes_sent, result, open>>

DestroyTemporaries ==
    /\ pc = "moved"
    /\ Destroy({"temp0", "temp1"})
    /\ pc' = "testing"
    /\ UNCHANGED <<file, offset, pipe, bytes_sent, result>>

(* A mutant: off by one. *)
MoreThanMissing == bytes_sent <= Length

Missing == bytes_sent < Length

(* The while, and co_return bytes_sent. *)
Test ==
    /\ pc = "testing"
    /\ IF Missing THEN pc' = "filling" /\ UNCHANGED result
                  ELSE pc' = "ending" /\ result' = bytes_sent
    /\ UNCHANGED <<file, offset, pipe, bytes_sent, descriptors>>

(* A request that fails, for the file, the pipe or the client: co_return -1 *)
Fail ==
    /\ pc \in {"filling", "draining"}
    /\ pc' = "ending"
    /\ result' = -1
    /\ UNCHANGED <<file, offset, pipe, bytes_sent, descriptors>>

(* A splice_awaiter's request moves so many bytes at most, whatever was    *)
(* sent already.                                                           *)
Asked == 0 .. Length

SlotsOf(k) == (k + PageSize - 1) \div PageSize

Left == IF offset < size THEN size - offset ELSE 0

(* The first splice of the loop.  At the end of the file there are no      *)
(* bytes.                                                                  *)
Fill ==
    /\ pc = "filling"
    /\ "write" \in open /\ "file" \in open
    /\ slots < Slots
    /\ \E k \in Asked :
          /\ k <= Left
          /\ k = 0 => Left = 0
          /\ slots + SlotsOf(k) <= Slots
          /\ offset' = offset + k
          /\ bytes' = bytes + k
          /\ slots' = slots + SlotsOf(k)
    /\ pc' = "draining"
    /\ UNCHANGED <<file, bytes_sent, result, descriptors>>

(* A mutant: what was asked for is counted. *)
SentAsked(k) == bytes_sent + Length

Sent(k) == bytes_sent + k

(* The second: what is in the pipe, or a part of it.                       *)
Drain ==
    /\ pc = "draining"
    /\ "read" \in open
    /\ bytes > 0
    /\ \E k \in Asked \ {0}, s \in 0 .. Slots :
          /\ k <= bytes
          /\ bytes' = bytes - k
          /\ s <= slots /\ s <= bytes' /\ bytes' <= s * PageSize
          /\ slots' = s
          /\ bytes_sent' = Sent(k)
    /\ pc' = "testing"
    /\ UNCHANGED <<file, offset, result, descriptors>>

(* The end of the coroutine, and of its caller. *)
End ==
    /\ pc = "ending"
    /\ Destroy({"read_pipe", "write_pipe", "file"})
    /\ pc' = "done"
    /\ UNCHANGED <<file, offset, pipe, bytes_sent, result>>

Step ==
    \/ Open \/ Pipe \/ Move \/ DestroyTemporaries
    \/ Test \/ Fill \/ Drain
    \/ End

Next == Resize \/ Fail \/ Step

(* The coroutine goes on, and the kernel does what it can of a request.    *)
Spec == Init /\ [][Next]_vars /\ WF_vars(Step)

-----------------------------------------------------------------------------
(* What has left the pipe has been sent to the client. *)
Delivered == offset - bytes

(* A call that ends without an error returns what the client was sent, at  *)
(* least what was asked for, and no more than the file ever had: of a file *)
(* that keeps its size all of it, in however many parts the kernel moves   *)
(* it (file_descriptor.cpp:81-101).                                        *)
SentWhatFileHad ==
    result # -1 /\ pc \in {"ending", "done"} =>
        result = Delivered /\ result >= Length /\ result <= longest

(* While there are requests the file and both ends of the pipe are open,   *)
(* each owned by the object that is to close it; in the end none is left   *)
(* open, whichever way the call ends (file_descriptor.cpp:17-26, 79).      *)
PipeOwned ==
    /\ pc \in {"testing", "filling", "draining", "ending"} =>
          /\ open = Descriptors
          /\ held["file"] = "file"
          /\ held["read_pipe"] = "read"
          /\ held["write_pipe"] = "write"
    /\ pc = "done" => open = {}

(* The call ends, unless the file becomes shorter than what was asked for, *)
(* or bytes left in its pages keep the pipe full: it waits for ever then   *)
(* (file_descriptor.cpp:84, 93).                                           *)
PipeFull == pc = "filling" /\ slots = Slots

Ends == [](size >= Length /\ ~ PipeFull) => <>(pc = "done")
=============================================================================

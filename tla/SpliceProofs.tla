---------------------------- MODULE SpliceProofs ----------------------------
(***************************************************************************)
(* Proofs about Splice, for every length, file and pipe.                   *)
(***************************************************************************)
EXTENDS Splice, TLAPS

AfterEnd == {"ending", "done"}

InLoop == {"testing", "filling", "draining", "ending"}

(* What was read of the file is in the pipe or has been sent.              *)
Counted ==
    /\ size \in Nat /\ longest \in Nat /\ size <= longest
    /\ offset \in Nat /\ bytes \in Nat /\ bytes_sent \in Nat
    /\ result \in Int
    /\ offset = bytes_sent + bytes
    /\ offset <= longest
    /\ pc \in AfterEnd /\ result # -1 => result = bytes_sent /\ Length <= result

LEMMA CountedInit == Init => Counted
  BY LengthAssumption DEF Init, Counted, AfterEnd

LEMMA CountedNext == Counted /\ [Next]_vars => Counted'
<1> SUFFICES ASSUME Counted, [Next]_vars
             PROVE  Counted'
  OBVIOUS
<1> USE LengthAssumption DEF Counted, AfterEnd
<1>1. CASE Resize
  <2>1. size' \in Nat /\ longest' \in Nat /\ size' <= longest' /\ longest <= longest'
    BY <1>1 DEF Resize
  <2>2. UNCHANGED <<pc, offset, bytes, bytes_sent, result>>
    BY <1>1 DEF Resize, pipe
  <2> QED
    BY <2>1, <2>2
<1>2. CASE Open
  BY <1>2 DEF Open, file, pipe
<1>3. CASE Pipe
  BY <1>3 DEF Pipe, file, pipe
<1>4. CASE Move
  BY <1>4 DEF Move, file, pipe
<1>5. CASE DestroyTemporaries
  BY <1>5 DEF DestroyTemporaries, file, pipe
<1>6. CASE Test
  BY <1>6 DEF Test, Missing, file, pipe
<1>7. CASE Fill
  <2>1. PICK k \in 0 .. Length :
           k <= Left /\ offset' = offset + k /\ bytes' = bytes + k
    BY <1>7 DEF Fill, Asked
  <2>2. UNCHANGED <<size, longest, bytes_sent, result>> /\ pc' = "draining"
    BY <1>7 DEF Fill, file
  <2>3. offset + k <= longest
    BY <2>1 DEF Left
  <2> QED
    BY <2>1, <2>2, <2>3
<1>8. CASE Drain
  <2>1. PICK k \in 1 .. Length :
           k <= bytes /\ bytes' = bytes - k /\ bytes_sent' = bytes_sent + k
    BY <1>8 DEF Drain, Sent, Asked
  <2>2. UNCHANGED <<size, longest, offset, result>> /\ pc' = "testing"
    BY <1>8 DEF Drain, file
  <2> QED
    BY <2>1, <2>2
<1>9. CASE Fail
  BY <1>9 DEF Fail, file, pipe
<1>10. CASE End
  BY <1>10 DEF End, file, pipe
<1>11. CASE UNCHANGED vars
  BY <1>11 DEF vars, file, pipe
<1> QED
  BY <1>1, <1>2, <1>3, <1>4, <1>5, <1>6, <1>7, <1>8, <1>9, <1>10, <1>11
  DEF Next, Step

(* A call that ends without an error returns what the client was sent, at  *)
(* least the length asked for and no more than the file ever had, for any  *)
(* length, file and pipe, and whatever parts the kernel moves it in        *)
(* (file_descriptor.cpp:81-101).                                           *)
THEOREM SpliceSendsWhatFileHad == Spec => []SentWhatFileHad
<1>1. Counted => SentWhatFileHad
  BY LengthAssumption DEF Counted, SentWhatFileHad, Delivered, AfterEnd
<1> QED
  BY <1>1, CountedInit, CountedNext, PTL DEF Spec

-----------------------------------------------------------------------------
(* Which objects own which descriptors, at each place of the call.         *)
Owned ==
    /\ held \in [Objects -> Descriptors \cup {None}]
    /\ pc = "opening" => open = {} /\ \A o \in Objects : held[o] = None
    /\ pc = "piping" =>
          /\ open = {"file"} /\ held["file"] = "file"
          /\ held["read_pipe"] = None /\ held["write_pipe"] = None
    /\ pc \in {"moving", "moved"} \cup InLoop =>
          open = Descriptors /\ held["file"] = "file"
    /\ pc = "moving" => held["temp0"] = "read" /\ held["temp1"] = "write"
    /\ pc = "moved" => held["temp0"] = None /\ held["temp1"] = None
    /\ pc \in {"moved"} \cup InLoop =>
          held["read_pipe"] = "read" /\ held["write_pipe"] = "write"
    /\ pc = "done" => open = {}

LEMMA OwnedNext == Owned /\ [Next]_vars => Owned'
<1> SUFFICES ASSUME Owned, [Next]_vars
             PROVE  Owned'
  OBVIOUS
<1> USE NoneAssumption DEF Owned, InLoop, Objects, Descriptors
<1>1. CASE Resize
  BY <1>1 DEF Resize, descriptors
<1>2. CASE Open
  BY <1>2 DEF Open, Holds, descriptors
<1>3. CASE Pipe
  BY <1>3 DEF Pipe, Destroy
<1>4. CASE Move
  BY <1>4 DEF Move, Moved
<1>5. CASE DestroyTemporaries
  BY <1>5 DEF DestroyTemporaries, Destroy
<1>6. CASE Test
  BY <1>6 DEF Test, descriptors
<1>7. CASE Fill
  BY <1>7 DEF Fill, descriptors
<1>8. CASE Drain
  BY <1>8 DEF Drain, descriptors
<1>9. CASE Fail
  BY <1>9 DEF Fail, descriptors
<1>10. CASE End
  BY <1>10 DEF End, Destroy
<1>11. CASE UNCHANGED vars
  BY <1>11 DEF vars, descriptors
<1> QED
  BY <1>1, <1>2, <1>3, <1>4, <1>5, <1>6, <1>7, <1>8, <1>9, <1>10, <1>11
  DEF Next, Step

(* The file and both ends of the pipe are open and owned while there are   *)
(* requests for them, and none is left open in the end (file_descriptor.cpp *)
(* :17-26, 79).                                                            *)
THEOREM SpliceOwnsPipe == Spec => []PipeOwned
<1>1. Init => Owned
  BY DEF Init, Owned, InLoop, Objects, Descriptors
<1>2. Owned => PipeOwned
  BY DEF Owned, PipeOwned, InLoop
<1> QED
  BY <1>1, <1>2, OwnedNext, PTL DEF Spec
=============================================================================

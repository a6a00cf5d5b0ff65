----------------------------- MODULE BufferRing -----------------------------
(***************************************************************************)
(* buffer_ring (BaseNet/buffer_ring.h, buffer_ring.cpp) with the two       *)
(* functions of the io_uring wrapper that write the ring's entries         *)
(* (io_uring.cpp: setup_buffer_ring, add_buffer).                          *)
(*                                                                         *)
(* The ring is an array of NumBuffers slots shared with the kernel, each   *)
(* naming a buffer.  The kernel takes buffers at head, the thread offers   *)
(* them up to tail.  liburing's io_uring_buf_ring_add writes the slot at   *)
(* tail plus the offset it is given; io_uring_buf_ring_advance moves tail. *)
(* Both counters are 16 bits wide and NumBuffers divides 2^16, so the head *)
(* slot and the number of offered slots are all that matters of them.      *)
(***************************************************************************)
EXTENDS Naturals

CONSTANTS
    NumBuffers  \* BUFFER_RING_SIZE, a power of two

ASSUME NumBuffersAssumption == NumBuffers \in Nat \ {0}

BufferIds == 0 .. NumBuffers - 1

VARIABLES
    slots,    \* the buffer each slot of the ring names
    head,     \* the slot the kernel takes next
    offered,  \* how many slots from head on the kernel may take
    borrowed  \* borrowed_buffer_set_

ringVars == <<slots, head, offered, borrowed>>

(* A mutant: the ring's mask is forgotten. *)
SlotUnmasked(n) == n

Slot(n) == n % NumBuffers

(* setup_buffer_ring: slot i, written at offset i of tail 0, names buffer  *)
(* i, and one advance offers them all.                                     *)
setup_buffer_ring ==
    /\ slots = [i \in BufferIds |-> i]
    /\ head = 0
    /\ offered = NumBuffers

register_buffer_ring == setup_buffer_ring /\ borrowed = {}

(* The kernel picks a buffer for a receive (IOSQE_BUFFER_SELECT). *)
HasBuffer == offered > 0

NextBuffer == slots[head]

SelectBuffer ==
    /\ HasBuffer
    /\ head' = Slot(head + 1)
    /\ offered' = offered - 1
    /\ UNCHANGED <<slots, borrowed>>

(* A mutant: the entry is written and tail is not advanced. *)
add_without_advance(id) ==
    /\ slots' = [slots EXCEPT ![Slot(head + offered + id)] = id]
    /\ UNCHANGED <<head, offered>>

(* add_buffer: the offset from tail is the buffer's id, and one advance    *)
(* offers the slot at tail, whichever buffer that slot names.              *)
add_buffer(id) ==
    /\ slots' = [slots EXCEPT ![Slot(head + offered + id)] = id]
    /\ offered' = offered + 1
    /\ UNCHANGED head

borrow_buffer(id) ==
    /\ borrowed' = borrowed \cup {id}
    /\ UNCHANGED <<slots, head, offered>>

return_buffer(id) ==
    /\ borrowed' = borrowed \ {id}
    /\ add_buffer(id)

(* The buffers the kernel may fill next without another add_buffer. *)
Offered == {slots[Slot(head + i)] : i \in 0 .. offered - 1}

RingTypeOK ==
    /\ slots \in [BufferIds -> BufferIds]
    /\ head \in BufferIds
    /\ offered \in Nat
    /\ borrowed \subseteq BufferIds
=============================================================================

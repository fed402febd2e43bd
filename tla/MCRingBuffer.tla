---------------------------- MODULE MCRingBuffer ----------------------------
(***************************************************************************)
(* Instance of RingBuffer for TLC.  The two definitions of RingBuffer that *)
(* replace a bit mask by a comparison are compared with the mask here.     *)
(***************************************************************************)
EXTENDS RingBuffer, Bitwise

\* next() of ring_buffer.tpp:5-8, and size() of :75-78 with the wrap of an
\* unsigned subtraction made explicit.
ASSUME MaskedIndices ==
    \A i, j \in Slots :
        /\ NextSlot(i) = ((i + 1) & (Capacity - 1))
        /\ Distance(i, j) = ((j + Capacity - i) & (Capacity - 1))
=============================================================================

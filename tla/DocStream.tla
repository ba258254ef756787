----------------------------- MODULE DocStream ------------------------------
(***************************************************************************)
(* What a bson_reader_t promises, whatever it reads from: the documents of *)
(* a stream one after the other, then NULL for good.                       *)
(*                                                                         *)
(* A byte of the stream is known by its position.  stream.hdr[p] is the    *)
(* little-endian int32 that starts at position p, stream.nul[p] holds when *)
(* the byte at p is zero.                                                  *)
(***************************************************************************)
EXTENDS Integers, Sequences

VARIABLES stream,     \* the bytes being read
          delivered,  \* the documents returned so far
          faulty,     \* whether reading the stream has failed
          open        \* no call has returned NULL yet

IsStream(s) == /\ s = [size |-> s.size, hdr |-> s.hdr, nul |-> s.nul]
               /\ s.size \in Nat
               /\ s.hdr \in [0 .. s.size -> Int]
               /\ s.nul \in [0 .. s.size -> BOOLEAN]

(* A document that is whole and well formed at position p of the stream.   *)
WholeDocumentAt(p) ==
    /\ p + 4 <= stream.size
    /\ stream.hdr[p] >= 5
    /\ p + stream.hdr[p] <= stream.size
    /\ stream.nul[p + stream.hdr[p] - 1]

(* A document returned: where it starts, its length, and whether its bytes *)
(* are the stream's.                                                       *)
DocType == [at : Nat, size : Nat, intact : BOOLEAN]

EndOf(k) == IF k = 0 THEN 0 ELSE delivered[k].at + delivered[k].size

(* Where the next document starts.                                         *)
Position == EndOf(Len(delivered))

Init == delivered = <<>> /\ open = TRUE /\ faulty = FALSE

Deliver == /\ open
           /\ WholeDocumentAt(Position)
           /\ delivered' = Append(delivered, [at |-> Position,
                                              size |-> stream.hdr[Position],
                                              intact |-> TRUE])
           /\ UNCHANGED <<stream, faulty, open>>

Fault == faulty' = TRUE /\ UNCHANGED <<stream, delivered, open>>

(* NULL: only where no document follows, or after a failed read.           *)
Close == /\ faulty \/ ~WholeDocumentAt(Position)
         /\ open' = FALSE
         /\ UNCHANGED <<stream, delivered, faulty>>

Next == Deliver \/ Fault \/ Close

Spec == Init /\ [][Next]_<<stream, delivered, faulty, open>>

=============================================================================

----------------------------- MODULE MCStreams ------------------------------
(* Streams of up to three documents, whole, cut short, or damaged.         *)
EXTENDS Integers, Sequences, SequencesExt

StartOf(lens, k) == FoldLeft(LAMBDA a, b : a + b, 0, SubSeq(lens, 1, k - 1))

(* The documents of lengths lens, then junk bytes that start with a word   *)
(* word; cut bytes are missing at the end; document bad has no zero byte.  *)
MkStream(lens, bad, word, junk, cut) ==
    LET total == StartOf(lens, Len(lens) + 1)
        size  == total + junk - cut
        first(p) == {k \in 1 .. Len(lens) : StartOf(lens, k) = p}
    IN  [size |-> size,
         hdr  |-> [p \in 0 .. size |->
                      IF first(p) # {} THEN lens[CHOOSE k \in first(p) : TRUE]
                      ELSE IF p = total THEN word ELSE 0],
         nul  |-> [p \in 0 .. size |->
                      \A k \in 1 .. Len(lens) :
                         p = StartOf(lens, k + 1) - 1 => k # bad]]

MCStreams ==
    { MkStream(<<>>, 0, 0, 0, 0), MkStream(<<>>, 0, 5, 3, 0),
      MkStream(<<5, 5>>, 0, 0, 0, 0), MkStream(<<5, 6>>, 0, 0, 0, 2),
      MkStream(<<5, 7, 5>>, 0, 0, 0, 0), MkStream(<<5, 5, 5>>, 2, 0, 0, 0),
      MkStream(<<9, 5>>, 0, 0, 0, 0), MkStream(<<5>>, 0, 4, 5, 0),
      MkStream(<<6>>, 0, -1, 4, 0), MkStream(<<17>>, 0, 0, 0, 0),
      MkStream(<<17>>, 0, 0, 0, 1), MkStream(<<6, 18>>, 0, 0, 0, 0),
      MkStream(<<5>>, 0, 20, 4, 0) }

=============================================================================

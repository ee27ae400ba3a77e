--------------------------- MODULE MCFixedSizeBlock ---------------------------
(* A heap of 8 words with blocks of 1, 2 and 4 words.                        *)
EXTENDS FixedSizeBlock

MCBlockSizes == {1, 2, 4}

\* Small ones, one padded for its alignment, and one that no list can serve.
MCLayouts == {[size |-> 1, align |-> 1], [size |-> 1, align |-> 2], [size |-> 3, align |-> 1],
              [size |-> 6, align |-> 2]}
===============================================================================

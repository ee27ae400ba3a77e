-------------------------------- MODULE Heap --------------------------------
(***************************************************************************)
(* What the kernel expects of its global allocator: memory that is aligned *)
(* and large enough, lies in the heap and belongs to nobody else until it  *)
(* is given back. Whether an allocation succeeds is left open.             *)
(***************************************************************************)
EXTENDS Integers

CONSTANTS HeapSize,   \* in words of 8 bytes
          Layouts     \* the size and the alignment of what is asked for, in words

VARIABLE live         \* allocations: an address and the layout it was asked for

Disjoint(a, m, b, n) == a + m <= b \/ b + n <= a

Allocate(layout) ==
  \E ptr \in 0 .. HeapSize - layout.size :
    /\ \E k \in 0 .. ptr : ptr = k * layout.align
    /\ \A b \in live : Disjoint(ptr, layout.size, b.ptr, b.layout.size)
    /\ live' = live \cup {[ptr |-> ptr, layout |-> layout]}

Deallocate == \E b \in live : live' = live \ {b}

Init == live = {}
Next == Deallocate \/ \E layout \in Layouts : Allocate(layout)
Spec == Init /\ [][Next]_live
=============================================================================

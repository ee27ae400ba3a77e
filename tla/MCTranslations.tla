--------------------------- MODULE MCTranslations ---------------------------
(* Translations, with the user memory it EXTENDS, for model checking.      *)
EXTENDS Translations

\* States that differ only in which frame serves what. No step tells frames
\* apart, so as long as every frame has one owner such states have the same
\* successors; a state in which one has two is a state of its own. What is
\* cached of a page is either what the page table says or not.
TransShape == <<[p \in Pid |-> DOMAIN space[p]], Len(free), Cardinality(Lost),
                heap, stage, halted, SingleOwner,
                cur, shrunk, {e[1] : e \in tlb}, Coherent>>
=============================================================================

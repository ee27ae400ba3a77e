---------------------------- MODULE MCExecImage -----------------------------
(* ExecImage, for model checking.                                          *)
EXTENDS ExecImage

\* Segments at every offset of a page, across two pages and across the border of two tables of
\* each level, so that the heap above them has tables of its own or shares them with the image
\* and the stack; and segments in the way of the stack. They are empty, of one byte,
\* of a page and a half and of more than two pages; with less in the file than in memory, or
\* with more than the file has.
MCHeaders ==
  {[load |-> FALSE, vaddr |-> 0, offset |-> 0, filesz |-> 3, memsz |-> 3, write |-> TRUE]} \cup
  [load : {TRUE}, vaddr : {0, 1, 2, 3, 13, 53, 101}, offset : {0, 1}, filesz : {0, 1, 3},
   memsz : {0, 1, 3, 5}, write : BOOLEAN]
=============================================================================

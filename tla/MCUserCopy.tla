----------------------------- MODULE MCUserCopy -----------------------------
(***************************************************************************)
(* Pages of two bytes, a status of two and a text of up to three: each may *)
(* be in one page or cross a boundary, with every combination of the two   *)
(* pages. The first byte of every page is text, and so are the first byte  *)
(* of a status and one of the two that stand for another's memory.         *)
(***************************************************************************)
EXTENDS UserCopy

MCText == {<<0, a>> : a \in {b \in Address : b % 4 # 1}} \cup (Child \X {1}) \cup {<<-1, 0>>}
=============================================================================

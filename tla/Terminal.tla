------------------------------ MODULE Terminal ------------------------------
(***************************************************************************)
(* What the console's screen promises: the last Rows lines of the text that*)
(* was written, a line being ended by a newline or by its Cols-th character*)
(* as soon as another follows. No coordinates, no pixels.                  *)
(***************************************************************************)
EXTENDS Integers, Sequences

CONSTANTS Rows, Cols, Char, Newline, Space

VARIABLES lines,    \* what the screen shows, each line filled up with spaces
          column    \* the characters in the last of them
terminalVars == <<lines, column>>

Blank == [k \in 1 .. Cols |-> Space]
Shown(all) == IF Len(all) > Rows THEN Tail(all) ELSE all

Init == lines = <<Blank>> /\ column = 0

NewLine ==
  /\ lines' = Shown(Append(lines, Blank))
  /\ column' = 0

Put(c) ==
  /\ c # Newline /\ column < Cols
  /\ lines' = [lines EXCEPT ![Len(lines)][column + 1] = c]
  /\ column' = column + 1

PutOnNewLine(c) ==
  /\ c # Newline /\ column = Cols
  /\ lines' = Shown(Append(lines, [Blank EXCEPT ![1] = c]))
  /\ column' = 1

Next == NewLine \/ \E c \in Char : Put(c) \/ PutOnNewLine(c)

Spec == Init /\ [][Next]_terminalVars
=============================================================================

----------------------------- MODULE Scrollback -----------------------------
(***************************************************************************)
(* What the console promises about its history: it is a list of lines of   *)
(* which only the last one is ever edited; a finished line stays as it is  *)
(* until it becomes the oldest of a full history and a new line needs its  *)
(* place, or until the history is cleared.  The user looks at it from some *)
(* distance above its end, never from beyond its beginning.                *)
(***************************************************************************)
EXTENDS Naturals, Sequences

CONSTANT MaxLines

VARIABLES
  lines,
  offset      \* how far above the end the user looks

\* A sequence without its last element.
Front(ls) == SubSeq(ls, 1, Len(ls) - 1)

Init == lines = << <<>> >> /\ offset = 0

\* The last line is emptied, or its end is shortened, extended or replaced by
\* one character; that may take the user back to the end.
EditLast ==
  /\ Len(lines') = Len(lines)
  /\ Front(lines') = Front(lines)
  /\ LET old == lines[Len(lines)]
         new == lines'[Len(lines)]
     IN \/ new = <<>>
        \/ new = Front(old)
        \/ Front(new) \in {old, Front(old)}
        \/ new = old
  /\ offset' \in {offset, 0}

\* The last line is finished and a new one begins.
NewLine ==
  /\ Front(lines') = IF Len(lines) < MaxLines THEN lines ELSE Tail(lines)
  /\ UNCHANGED offset

Clear == lines' = << <<>> >> /\ offset' = 0

Look == offset' \in 0 .. Len(lines) - 1 /\ UNCHANGED lines

Next == EditLast \/ NewLine \/ Clear \/ Look

Spec == Init /\ [][Next]_<<lines, offset>>
=============================================================================

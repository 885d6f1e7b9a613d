----------------------------- MODULE LineEditor ------------------------------
(* What console.c promises: typed characters are edited in a line; a whole    *)
(* line, an end of file, or a full buffer is handed to the readers, who take  *)
(* the characters in order.                                                   *)
EXTENDS Integers, Sequences

CONSTANTS Size    \* how much input is kept at most

VARIABLES line,   \* typed, still editable
          ready   \* for the readers

vars == <<line, ready>>

Init == line = <<>> /\ ready = <<>>

Typed(ch) ==
  LET l == Append(line, ch)
      whole == ch \in {"nl", "eof"} \/ Len(ready) + Len(l) = Size
  IN /\ Len(ready) + Len(line) < Size
     /\ line' = IF whole THEN <<>> ELSE l
     /\ ready' = IF whole THEN ready \o l ELSE ready

Erase == line # <<>> /\ line' = SubSeq(line, 1, Len(line) - 1) /\ UNCHANGED ready
Kill == line' = <<>> /\ UNCHANGED ready
Take == ready # <<>> /\ ready' = Tail(ready) /\ UNCHANGED line

Next == (\E ch \in {"char", "nl", "eof"} : Typed(ch)) \/ Erase \/ Kill \/ Take

Spec == Init /\ [][Next]_vars
=============================================================================

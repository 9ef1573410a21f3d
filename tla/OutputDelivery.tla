--------------------------- MODULE OutputDelivery ---------------------------
(***************************************************************************)
(* What a page that shows the output of a task may rely on: it shows       *)
(* events that were made, in the order they were made and none twice.  It  *)
(* may miss some, and shows nothing any more once it is closed.            *)
(***************************************************************************)
EXTENDS Integers

VARIABLES made,  \* number of the last event made
          shown, \* number of the last event shown
          page   \* off, open, gone

vars == <<made, shown, page>>

Init == made = 0 /\ shown = 0 /\ page = "off"

Make == made' = made + 1 /\ UNCHANGED <<shown, page>>

Open == page = "off" /\ page' = "open" /\ UNCHANGED <<made, shown>>

Show ==
  /\ page = "open"
  /\ shown' \in shown + 1 .. made
  /\ UNCHANGED <<made, page>>

Close == page = "open" /\ page' = "gone" /\ UNCHANGED <<made, shown>>

Next == Make \/ Open \/ Show \/ Close

Spec == Init /\ [][Next]_vars
=============================================================================

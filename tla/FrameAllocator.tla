--------------------------- MODULE FrameAllocator ---------------------------
(***************************************************************************)
(* What the frame allocator promises its callers (pmm.h): frames are put   *)
(* into circulation while it is set up and never after; a caller gets a    *)
(* frame that is in circulation and that nobody has; a frame that is given *)
(* back is in circulation again.  Nothing is lost and nothing appears.     *)
(* A request that fails changes nothing.                                   *)
(***************************************************************************)
CONSTANT Allowed    \* the frames that may be put into circulation

VARIABLES
  open,    \* the allocator is being set up
  avail,   \* the frames in circulation that nobody has
  held     \* the frames that callers have

Init == open = TRUE /\ avail = {} /\ held = {}

Provide ==
  /\ open
  /\ \E S \in SUBSET Allowed : avail' = avail \cup S
  /\ UNCHANGED <<open, held>>

Close == open /\ open' = FALSE /\ UNCHANGED <<avail, held>>

Alloc(f) ==
  /\ ~open
  /\ f \in avail
  /\ avail' = avail \ {f} /\ held' = held \cup {f}
  /\ UNCHANGED open

Free(f) ==
  /\ ~open
  /\ f \in held
  /\ avail' = avail \cup {f} /\ held' = held \ {f}
  /\ UNCHANGED open

Next ==
  \/ Provide \/ Close
  \/ \E f \in avail : Alloc(f)
  \/ \E f \in held : Free(f)

Spec == Init /\ [][Next]_<<open, avail, held>>
=============================================================================

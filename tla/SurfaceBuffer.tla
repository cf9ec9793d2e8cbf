--------------------------- MODULE SurfaceBuffer ---------------------------
(***************************************************************************)
(* SafetySurfaceBuffer of the multi-transcode sample: the list of decoded   *)
(* surfaces between a decoding and an encoding thread, the flag that        *)
(* CancelBuffering clears, and the event that AddSurface signals after it   *)
(* left the mutex.  Each operator is what happens under one lock.           *)
(*                                                                         *)
(* A descriptor holds the surface, or None for the end of the stream, and   *)
(* the number of the frame that was in the surface when it was queued (the  *)
(* pixels).  Descriptors are added with Locked = 1 and erased at 0, so      *)
(* every descriptor on a list is locked once.  pRelEvent is left out: no    *)
(* thread waits for it.                                                    *)
(***************************************************************************)
EXTENDS Integers, Sequences

CONSTANT None

Empty == [list |-> <<>>, allowed |-> TRUE, ins |-> FALSE]

Descriptor(s, f) == [surf |-> s, frame |-> f]

\* Positions of the descriptors of surface s, or of end marks if s is None.
Positions(B, s) == {i \in 1..Len(B.list) : B.list[i].surf = s}

AddSurface(B, x) ==
    IF B.allowed THEN [B EXCEPT !.list = Append(@, x)] ELSE B

\* MSDKEvent::Signal of pInsEvent: the event resets itself when a wait ends.
Signal(B) == [B EXCEPT !.ins = TRUE]

ResetEvent(B) == [B EXCEPT !.ins = FALSE]

\* MFX_ERR_MORE_SURFACE.
NoSurface(B) == B.list = <<>>

\* Mutant: the newest descriptor instead of the oldest.
FrontNewest(B) == B.list[Len(B.list)]

\* GetSurface copies the front and leaves it on the list.
Front(B) == Head(B.list)

First(S) == CHOOSE i \in S : \A j \in S : i <= j

EraseAt(list, i) == SubSeq(list, 1, i - 1) \o SubSeq(list, i + 1, Len(list))

\* ReleaseSurface erases the first descriptor of the surface, whoever queued
\* it; MFX_ERR_UNKNOWN (no change) if there is none.
ReleaseSurface(B, s) ==
    IF Positions(B, s) = {} THEN B
    ELSE [B EXCEPT !.list = EraseAt(@, First(Positions(B, s)))]

Releases(B, s) == Positions(B, s) # {}

CancelBuffering(B) == [B EXCEPT !.allowed = FALSE]

ReleaseSurfaceAll(B) == [B EXCEPT !.list = <<>>, !.allowed = TRUE]

=============================================================================

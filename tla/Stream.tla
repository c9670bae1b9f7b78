------------------------------- MODULE Stream -------------------------------
(***************************************************************************)
(* What a caller of net.Conn is promised in one direction: the bytes that  *)
(* were offered arrive in order, without a gap and without a repeat, the   *)
(* end of the stream is seen only after everything the writer was told is  *)
(* written, and a broken stream delivers nothing more.                     *)
(***************************************************************************)
EXTENDS Naturals, Sequences

VARIABLES
    offered,     \* the bytes handed to Write, in order
    accepted,    \* how many of them Write has reported as written
    closed,      \* the writer has closed its side
    delivered,   \* the bytes Read has returned, in order
    status       \* the reader's side: open, ended (EOF) or broken (an error)

svars == <<offered, accepted, closed, delivered, status>>

StreamInit ==
    /\ offered = <<>> /\ accepted = 0 /\ closed = FALSE
    /\ delivered = <<>> /\ status = "open"

Offer ==
    /\ ~closed
    /\ SubSeq(offered', 1, Len(offered)) = offered /\ Len(offered') >= Len(offered)
    /\ accepted' \in accepted .. Len(offered')
    /\ UNCHANGED <<closed, delivered, status>>

Accept ==
    /\ accepted' \in accepted .. Len(offered)
    /\ UNCHANGED <<offered, closed, delivered, status>>

CloseSide ==
    /\ closed' = TRUE
    /\ UNCHANGED <<offered, accepted, delivered, status>>

Deliver ==
    /\ status = "open"
    /\ \E n \in Len(delivered) .. Len(offered) : delivered' = SubSeq(offered, 1, n)
    /\ UNCHANGED <<offered, accepted, closed, status>>

End ==
    /\ status = "open" /\ closed /\ Len(delivered) >= accepted
    /\ status' = "ended"
    /\ UNCHANGED <<offered, accepted, closed, delivered>>

Break ==
    /\ status = "open"
    /\ status' = "broken"
    /\ UNCHANGED <<offered, accepted, closed, delivered>>

StreamNext == Offer \/ Accept \/ CloseSide \/ Deliver \/ End \/ Break

StreamSpec == StreamInit /\ [][StreamNext]_svars
=============================================================================

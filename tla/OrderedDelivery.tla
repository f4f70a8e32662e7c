--------------------------- MODULE OrderedDelivery ---------------------------
(***************************************************************************)
(* What pe::sockets::BaseConnection promises to a caller of write():       *)
(* messages are completed in the order in which they were accepted, each   *)
(* at most once, and nothing is completed once the connection has failed.  *)
(***************************************************************************)
EXTENDS Naturals, Sequences

CONSTANT Msg   \* the messages callers may write

VARIABLES accepted,    \* messages in the order in which write() took them
          delivered,   \* messages whose write completed, in completion order
          dead         \* TRUE after the first failed send

avars == <<accepted, delivered, dead>>

Init ==
    /\ accepted = <<>>
    /\ delivered = <<>>
    /\ dead = FALSE

Accept(m) ==
    /\ accepted' = Append(accepted, m)
    /\ UNCHANGED <<delivered, dead>>

Deliver ==
    /\ ~dead
    /\ Len(delivered) < Len(accepted)
    /\ delivered' = Append(delivered, accepted[Len(delivered) + 1])
    /\ dead' \in BOOLEAN      \* starting the next send may fail at once
    /\ UNCHANGED accepted

Fail ==
    /\ ~dead
    /\ dead' = TRUE
    /\ UNCHANGED <<accepted, delivered>>

Next == (\E m \in Msg : Accept(m)) \/ Deliver \/ Fail

Spec == Init /\ [][Next]_avars
=============================================================================

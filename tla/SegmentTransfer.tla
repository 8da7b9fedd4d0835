-------------------------- MODULE SegmentTransfer --------------------------
(***************************************************************************)
(* What a transfer promises, whichever way it goes: the receiver takes the *)
(* segments in order, may be set back, and is told that it is over only    *)
(* when it has everything.  No phases, no requests, no codes.              *)
(***************************************************************************)
EXTENDS Naturals, Sequences

VARIABLES
    segments,   \* what is to be transferred
    held,       \* what the receiver has of it
    over        \* somebody acts on the transfer as complete

vars == <<segments, held, over>>

Init == segments \in Seq(Seq(Nat)) /\ held = <<>> /\ over = FALSE

Take ==
    /\ ~over /\ Len(held) < Len(segments)
    /\ held' = Append(held, segments[Len(held) + 1])
    /\ UNCHANGED <<segments, over>>

SetBack ==
    /\ ~over
    /\ \E n \in 0..Len(held) : held' = SubSeq(held, 1, n)
    /\ UNCHANGED <<segments, over>>

Finish ==
    /\ held = segments /\ over' = TRUE
    /\ UNCHANGED <<segments, held>>

Next == Take \/ SetBack \/ Finish

Spec == Init /\ [][Next]_vars

=============================================================================

----------------------------- MODULE LossyQueue -----------------------------
(***************************************************************************)
(* What a connection's outbound queue promises (backpressure.rs header,    *)
(* ENGINEERING.md backpressure rules): a bounded FIFO that may lose frames *)
(* but never reorders or repeats one, never loses one uncounted, and       *)
(* accepts nothing once it is shut.  Frames are numbered in the order they *)
(* are offered.                                                            *)
(***************************************************************************)
EXTENDS Integers, Sequences

CONSTANT Capacity      \* frames the queue may hold

VARIABLES
    queue,     \* numbers of the frames held, oldest first
    shut,      \* no frame is accepted any more
    next,      \* frames offered so far
    refused,   \* frames offered after the queue was shut
    lost,      \* frames lost to overflow
    last       \* number of the last frame handed to the writer, 0 = none

lqVars == <<queue, shut, next, refused, lost, last>>

Init == /\ queue = <<>>
        /\ shut = FALSE
        /\ next = 0
        /\ refused = 0
        /\ lost = 0
        /\ last = 0

Accept == /\ ~shut
          /\ Len(queue) < Capacity
          /\ next' = next + 1
          /\ queue' = Append(queue, next + 1)
          /\ UNCHANGED <<shut, refused, lost, last>>

Refuse == /\ shut
          /\ next' = next + 1
          /\ refused' = refused + 1
          /\ UNCHANGED <<queue, shut, lost, last>>

\* The frame offered is the one lost; the overflow may shut the queue.
LoseNew == /\ ~shut
           /\ next' = next + 1
           /\ lost' = lost + 1
           /\ shut' \in BOOLEAN
           /\ UNCHANGED <<queue, refused, last>>

LoseOldest == /\ ~shut
              /\ queue # <<>>
              /\ queue' = Tail(queue)
              /\ lost' = lost + 1
              /\ UNCHANGED <<shut, next, refused, last>>

Take == /\ queue # <<>>
        /\ last' = Head(queue)
        /\ queue' = Tail(queue)
        /\ UNCHANGED <<shut, next, refused, lost>>

Shut == /\ shut' = TRUE
        /\ UNCHANGED <<queue, next, refused, lost, last>>

Next == Accept \/ Refuse \/ LoseNew \/ LoseOldest \/ Take \/ Shut

Spec == Init /\ [][Next]_lqVars
=============================================================================

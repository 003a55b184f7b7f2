------------------------------ MODULE FifoLane ------------------------------
(***************************************************************************)
(* What one lane of a conversation promises to the code above it: a FIFO   *)
(* queue with one reader.  A message that was put is taken exactly once,   *)
(* in the order of the puts; only the crash of the reader drops what was   *)
(* still queued.  LaneChannel implements it with worker generations.       *)
(***************************************************************************)
EXTENDS Naturals, Sequences

CONSTANTS Capacity,   \* most messages the lane buffers
          MaxCrashes  \* bound: crashes of the reader that are considered

VARIABLES put,        \* number of messages put so far; message i is the i-th
          queue,      \* messages waiting, oldest first
          taken,      \* messages taken by the reader, in order
          crashes     \* crashes of the reader so far

fifoVars == <<put, queue, taken, crashes>>

Init == /\ put = 0
        /\ queue = << >>
        /\ taken = << >>
        /\ crashes = 0

Put == /\ Len(queue) < Capacity
       /\ put' = put + 1
       /\ queue' = Append(queue, put + 1)
       /\ UNCHANGED <<taken, crashes>>

Take == /\ queue # << >>
        /\ taken' = Append(taken, Head(queue))
        /\ queue' = Tail(queue)
        /\ UNCHANGED <<put, crashes>>

Crash == /\ crashes < MaxCrashes
         /\ crashes' = crashes + 1
         /\ queue' = << >>
         /\ UNCHANGED <<put, taken>>

Next == Put \/ Take \/ Crash

Spec == Init /\ [][Next]_fifoVars
=============================================================================

------------------------------ MODULE LogStream ------------------------------
(***************************************************************************)
(* What AsyncLogging promises its callers, without threads and buffers: a  *)
(* queue of accepted messages drained into a file from its head, where the *)
(* only other way out of the queue is a run of messages that is cut out    *)
(* while a notice goes to the file.                                        *)
(***************************************************************************)
EXTENDS Naturals, Sequences

CONSTANT Notice

VARIABLES accepted,   \* number of messages accepted so far
          queue,      \* accepted messages that wait for the file
          file        \* messages and notices in the order they were written

vars == <<accepted, queue, file>>

Init == accepted = 0 /\ queue = <<>> /\ file = <<>>

Accept ==
  /\ accepted' = accepted + 1
  /\ queue' = Append(queue, accepted + 1)
  /\ UNCHANGED file

Write(n) ==
  /\ file' = file \o SubSeq(queue, 1, n)
  /\ queue' = SubSeq(queue, n + 1, Len(queue))
  /\ UNCHANGED accepted

\* Cut out the messages after the first i, up to the j-th.
Cut(i, j) ==
  /\ file' = Append(file, Notice)
  /\ queue' = SubSeq(queue, 1, i) \o SubSeq(queue, j + 1, Len(queue))
  /\ UNCHANGED accepted

Next ==
  \/ Accept
  \/ \E n \in 1..Len(queue) : Write(n)
  \/ \E i \in 0..Len(queue) : \E j \in i..Len(queue) : Cut(i, j)

Spec == Init /\ [][Next]_vars
=============================================================================

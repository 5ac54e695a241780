----------------------------- MODULE FixedBuffer -----------------------------
(***************************************************************************)
(* FixedBuffer<SIZE> (include/elog/async_logging.h): a block of SIZE       *)
(* message slots with a write cursor, which can be moved from but never    *)
(* copied.  "valid" is m_data # nullptr, "msgs" is what lies between       *)
(* m_data and m_current.  A message is the number of the push that         *)
(* produced it: the first message ever pushed is 1.                        *)
(***************************************************************************)
EXTENDS Integers, Sequences

CONSTANT SIZE    \* slots of a block: kLargeBuffer

ASSUME SizeAssumption == SIZE \in Nat \ {0}

Message == Nat \ {0}

Buffer == [valid : BOOLEAN, msgs : Seq(Message)]

Fresh == [valid |-> TRUE, msgs |-> <<>>]

\* Both pointers are null after a move.
MovedFrom == [valid |-> FALSE, msgs |-> <<>>]

\* end_addr() - m_current.  On a moved-from buffer this is SIZE as well:
\* avail() alone does not tell that there is nothing to write into.
avail(b) == SIZE - Len(b.msgs)

push(b, m) == [b EXCEPT !.msgs = Append(@, m)]

MutantReset(b) == b
reset(b) == [b EXCEPT !.msgs = <<>>]
=============================================================================

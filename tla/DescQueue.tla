------------------------------ MODULE DescQueue ------------------------------
(***************************************************************************)
(* What a ring to the card promises: a FIFO queue of at most Capacity      *)
(* descriptors.  The host puts in the two descriptors of a request or      *)
(* nothing; the card takes one at a time.                                  *)
(***************************************************************************)
EXTENDS Naturals, Sequences

CONSTANTS Capacity, Requests, Nothing

VARIABLES queue,    \* the descriptors put in and not yet taken
          taken     \* the descriptor the card took last

qvars == <<queue, taken>>

\* The two segments of a request.
Seg(c, i) == [req |-> c, seg |-> i]

QInit == queue = <<>> /\ taken = Nothing

Put(c) ==
    /\ Len(queue) + 2 <= Capacity
    /\ queue' = Append(Append(queue, Seg(c, 0)), Seg(c, 1))
    /\ UNCHANGED taken

Take ==
    /\ queue # <<>>
    /\ taken' = Head(queue)
    /\ queue' = Tail(queue)

QNext == (\E c \in Requests : Put(c)) \/ Take

QSpec == QInit /\ [][QNext]_qvars
==============================================================================

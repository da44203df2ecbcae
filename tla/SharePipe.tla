------------------------------ MODULE SharePipe ------------------------------
(***************************************************************************)
(* What DataMgr promises: shares leave for the database in the order in    *)
(* which they arrived, each exactly once, some at a time.                  *)
(***************************************************************************)
EXTENDS Naturals, Sequences

CONSTANTS MaxPush, Bulk

VARIABLES
    count,      \* shares accepted so far; a share is its number
    waiting,    \* shares not yet sent
    sent        \* shares handed to the database

PipeInit == count = 0 /\ waiting = <<>> /\ sent = <<>>

Accept ==
    /\ count < MaxPush
    /\ count' = count + 1
    /\ waiting' = Append(waiting, count')
    /\ UNCHANGED sent

\* One query takes the oldest n shares.
Send(n) ==
    /\ n <= Len(waiting)
    /\ sent' = sent \o SubSeq(waiting, 1, n)
    /\ waiting' = SubSeq(waiting, n + 1, Len(waiting))
    /\ UNCHANGED count

PipeNext == Accept \/ \E n \in 1..Bulk : Send(n)

PipeSpec == PipeInit /\ [][PipeNext]_<<count, waiting, sent>>

=============================================================================

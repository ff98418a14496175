------------------------------- MODULE Queues -------------------------------
(* Part of a queue or of a list of tasks, in its order: what is left of a  *)
(* relay queue when requests are erased, which metering polls fall due.    *)
EXTENDS Integers, Sequences

\* The requests of a queue that are in S, in their order.
Select(queue, S) ==
  LET kept[i \in 0..Len(queue)] ==
        IF i = 0 THEN <<>>
        ELSE IF queue[i] \in S THEN Append(kept[i - 1], queue[i]) ELSE kept[i - 1]
  IN  kept[Len(queue)]
=============================================================================

------------------------------- MODULE Lists -------------------------------
(***************************************************************************)
(* Unlinking elements from the program's intrusive lists, which the models *)
(* represent by sequences.                                                 *)
(***************************************************************************)
EXTENDS Naturals, Sequences

\* ngx_queue_remove of every element in T; the others keep their order.
Minus(q, T) ==
    LET kept[i \in 0 .. Len(q)] ==
          IF i = 0 THEN <<>>
          ELSE IF q[i] \in T THEN kept[i - 1] ELSE Append(kept[i - 1], q[i])
    IN kept[Len(q)]
=============================================================================

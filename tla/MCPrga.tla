------------------------------- MODULE MCPrga -------------------------------
(* An instance of Prga for TLC.                                            *)
EXTENDS Prga

MCINT == [op |-> "interrupt"]
MCArg == Requests \cup Results \cup {MCINT}

(* States that differ only in what is never read again are one state, as   *)
(* in MCActivations.                                                       *)
View == <<status, sched_status, expected_reply,
          [i \in 0 .. rq.end - 1 |-> <<rq.squeue_a[i], rq.aqueue[rq.squeue_a[i]]>>],
          rq.idx, kernel_curr_act, unique, panic, sockvars, pvars,
          [a \in Aid |-> <<IF sched_status[a] = "runnable" THEN frame[a] ELSE NoMsg,
                            Contents(msg_queues[a])>>]>>
=============================================================================

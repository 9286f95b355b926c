------------------------ MODULE MCCustodiedInference ------------------------
(* Values of the constants of CustodiedInference for TLC. *)
EXTENDS CustodiedInference

Reply(valid, retryable, known, terminal, cost, unpricedCall) ==
  [valid |-> valid, retryable |-> retryable, known |-> known, terminal |-> terminal,
   cost |-> cost, unpriced |-> unpricedCall]

Good == Reply(TRUE, FALSE, TRUE, FALSE, 1, 0)
Transient == Reply(FALSE, TRUE, TRUE, FALSE, 1, 0)
TimedOut == Reply(FALSE, TRUE, FALSE, FALSE, 0, 1)
Refused == Reply(FALSE, FALSE, TRUE, FALSE, 0, 0)
Truncated == Reply(FALSE, FALSE, TRUE, TRUE, 1, 0)

MCAnswers == {Good, Transient, TimedOut, Truncated}
MCPricedAnswers == {Good, Transient, Refused}

Never == {FALSE}
Maybe == {FALSE, TRUE}
AllFaults == {"runner", "journal"}
JournalFaults == {"journal"}
=============================================================================

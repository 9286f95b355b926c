------------------------------ MODULE PaidWork ------------------------------
(***************************************************************************)
(* What custody promises of a paid logical unit, without sessions, crashes *)
(* or budgets: calls are bought one at a time, a further one only when the *)
(* last answer is a known transient failure, and the verdict is given once *)
(* and follows from the last answer.  CustodiedInference implements this.  *)
(***************************************************************************)
EXTENDS Naturals

CONSTANTS Units, MaxAttempts

VARIABLES
  bought,   \* calls authorised for each unit
  answer,   \* what the last of them came to
  verdict   \* the unit's materialization

vars == <<bought, answer, verdict>>

Outcomes == {"transient", "unknown", "valid", "failed"}

Init ==
  /\ bought = [u \in Units |-> 0]
  /\ answer = [u \in Units |-> "none"]
  /\ verdict = [u \in Units |-> "open"]

\* Authorise the next call.
Buy(u) ==
  /\ verdict[u] = "open"
  /\ answer[u] \in {"none", "transient"}
  /\ bought[u] < MaxAttempts
  /\ bought' = [bought EXCEPT ![u] = @ + 1]
  /\ answer' = [answer EXCEPT ![u] = "awaited"]
  /\ UNCHANGED verdict

\* The call is answered, or given up as unknown.
Learn(u) ==
  /\ answer[u] = "awaited"
  /\ \E o \in Outcomes : answer' = [answer EXCEPT ![u] = o]
  /\ UNCHANGED <<bought, verdict>>

\* The verdict: a valid answer is selected, a failure that is not retried or
\* was retried often enough is terminal.
Close(u) ==
  /\ verdict[u] = "open"
  /\ \/ answer[u] = "valid" /\ verdict' = [verdict EXCEPT ![u] = "selected"]
     \/ /\ answer[u] \in {"unknown", "failed"} \/ (answer[u] = "transient" /\ bought[u] = MaxAttempts)
        /\ verdict' = [verdict EXCEPT ![u] = "terminal_incomplete"]
  /\ UNCHANGED <<bought, answer>>

Next == \E u \in Units : Buy(u) \/ Learn(u) \/ Close(u)

Spec == Init /\ [][Next]_vars
=============================================================================

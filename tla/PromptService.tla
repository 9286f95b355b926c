---------------------------- MODULE PromptService ---------------------------
(***************************************************************************)
(* What a pool of model processes promises whoever pays for its work: a    *)
(* call is begun in its turn; its prompt is taken up at most once; it has  *)
(* one reply, which says truly whether it was taken up, and if it is an    *)
(* answer, one to this prompt alone; after a "no" it never is taken up,    *)
(* and after a failure of its caller no call is begun.  NeuralRunner       *)
(* implements this.                                                        *)
(***************************************************************************)
EXTENDS Integers

CONSTANT Calls

VARIABLES
  begun,     \* the calls begun so far
  bought,    \* how often the prompt of each was taken up
  result,    \* the reply to each
  halted

vars == <<begun, bought, result, halted>>

Init ==
  /\ begun = {} /\ halted = FALSE
  /\ bought = [i \in Calls |-> 0]
  /\ \A i \in Calls : result[i].outcome = "none"

Begin ==
  /\ ~halted
  /\ \E i \in Calls \ begun :
       /\ \A j \in Calls : j < i => j \in begun
       /\ begun' = begun \cup {i}
  /\ UNCHANGED <<bought, result, halted>>

\* Its prompt may be taken up after its reply too, unless that was a "no".
TakeUp(i) ==
  /\ i \in begun /\ bought[i] = 0
  /\ result[i].outcome # "none" => result[i].accepted = "null"
  /\ bought' = [bought EXCEPT ![i] = 1]
  /\ UNCHANGED <<begun, result, halted>>

Tells(i, reply) ==
  /\ reply.outcome # "none"
  /\ reply.accepted = "yes" => bought[i] = 1
  /\ reply.accepted = "no" => bought[i] = 0
  /\ reply.outcome = "ok" => reply.accepted = "yes" /\ reply.of = i /\ reply.seen = {i}

Reply(i) ==
  /\ i \in begun /\ result[i].outcome = "none"
  /\ Tells(i, result'[i])
  /\ \A j \in Calls \ {i} : result'[j] = result[j]
  /\ UNCHANGED <<begun, bought, halted>>

Halt == ~halted /\ halted' = TRUE /\ UNCHANGED <<begun, bought, result>>

Next == Begin \/ Halt \/ \E i \in Calls : TakeUp(i) \/ Reply(i)

Spec == Init /\ [][Next]_vars
=============================================================================

------------------------------ MODULE KeyedCall ------------------------------
(***************************************************************************)
(* What a caller of the e2a API is promised about a write, whatever the    *)
(* SDK, the network and the server's replicas do in between: calls that    *)
(* share an Idempotency-Key execute once between them, a call that reports *)
(* success reports an execution that happened and that was asked for by    *)
(* the same body, and both stop holding only once the guarantee has        *)
(* lapsed.  An execution is named by the attempt <<call, n>> that ran it.  *)
(***************************************************************************)
EXTENDS Naturals

CONSTANTS Calls, Attempts

VARIABLES
  once,      \* the operation may not be repeated behind the caller's back
  group,     \* the key each call is deduplicated under
  body,      \* the request each call makes
  licence,   \* the guarantee stands
  executed,  \* the attempts whose effect has been committed
  answer     \* what each call returned, and the execution it reported if any

Pending == [kind |-> "pending", report |-> {}]
Failed == [kind |-> "error", report |-> {}]
Reported(e) == [kind |-> "ok", report |-> {e}]

vars == <<once, group, body, licence, executed, answer>>

Init ==
  /\ once \in BOOLEAN
  /\ licence = TRUE
  /\ executed = {}
  /\ answer = [c \in Calls |-> Pending]

Execute(h) ==
  /\ h \notin executed
  /\ (once /\ licence) => \A e \in executed : group[e[1]] # group[h[1]]
  /\ executed' = executed \union {h}
  /\ UNCHANGED <<once, group, body, licence, answer>>

Lapse ==
  /\ licence' = FALSE
  /\ UNCHANGED <<once, group, body, executed, answer>>

Succeed(c, e) ==
  /\ answer[c] = Pending
  /\ e \in executed
  /\ group[e[1]] = group[c]
  /\ licence => body[e[1]] = body[c]
  /\ answer' = [answer EXCEPT ![c] = Reported(e)]
  /\ UNCHANGED <<once, group, body, licence, executed>>

Fail(c) ==
  /\ answer[c] = Pending
  /\ answer' = [answer EXCEPT ![c] = Failed]
  /\ UNCHANGED <<once, group, body, licence, executed>>

Next ==
  \/ \E h \in Calls \X Attempts : Execute(h)
  \/ Lapse
  \/ \E c \in Calls : Fail(c) \/ \E e \in executed : Succeed(c, e)

Spec == Init /\ [][Next]_vars
=============================================================================

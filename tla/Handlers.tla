------------------------------ MODULE Handlers ------------------------------
(***************************************************************************)
(* Request handlers of the API that run side by side.  A handler is at one *)
(* of its queries, its pc, and holds what it read before; between two      *)
(* queries the other handlers may do anything.                             *)
(***************************************************************************)
EXTENDS Naturals, FiniteSets

CONSTANT Requests  \* how many requests run side by side: one id for each

ASSUME RequestsAssumption == IsFiniteSet(Requests) /\ Requests # {}

VARIABLES
    req,      \* what each request is doing
    orderly   \* whether the handlers that would disturb each other take
              \* turns; each module says which; it never changes

Idle == [pc |-> "idle"]

HandlersInit ==
    /\ req = [r \in Requests |-> Idle]
    /\ orderly \in BOOLEAN

At(r, pc) == req[r].pc = pc
Become(r, doing) == req' = [req EXCEPT ![r] = doing]
Goto(r, pc) == req' = [req EXCEPT ![r].pc = pc]
Finish(r) == Become(r, Idle)

AtSome(pcs) == {r \in Requests : req[r].pc \in pcs}
=============================================================================

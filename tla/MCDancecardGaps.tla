--------------------------- MODULE MCDancecardGaps --------------------------
(* Every calendar of up to MaxItems items around a convention from 1 to 4.  *)
EXTENDS DancecardGaps

Times == 0..5
Convention == [from |-> 1, to |-> 4]
AnyItem == [from : Times, to : Times]
AnyProposal == {i \in AnyItem : NonEmpty(i)}
=============================================================================

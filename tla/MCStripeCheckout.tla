-------------------------- MODULE MCStripeCheckout --------------------------
(* Instances of StripeCheckout for TLC: two sessions pay for one ticket.    *)
EXTENDS StripeCheckout, TLC

CONSTANTS s1, s2, s3, alice, bob

TwoForAlice == s1 :> alice @@ s2 :> alice @@ s3 :> bob
BothForAlice == s1 :> alice @@ s2 :> alice
=============================================================================

--------------------------- MODULE MCShieldClaims ---------------------------
(* Instances of ShieldClaims.                                              *)
EXTENDS ShieldClaims

\* Two providers, of which the second is the purchaser.
MCTwoProviders == [a \in {1, 2} |-> IF a = 1 THEN 2 ELSE 1]

\* One shield, large enough for two claims.
MCOnePurchase == <<[purchaser |-> 2, shield |-> 2]>>
=============================================================================

----------------------------- MODULE MCPerformance -----------------------------
(***************************************************************************)
(* Performance for TLC: two members of one group and one of another, two   *)
(* months, rows with the default weights and with one of 0.                *)
(***************************************************************************)
EXTENDS Performance, TLC

CONSTANTS ann, bob, cho

MCMembers == {ann, bob, cho}
MCGroupOf == (ann :> "TOP") @@ (bob :> "TOP") @@ (cho :> "LOW")
MCLegacy  == (1 :> 70) @@ (2 :> Null)
MCRows ==
    {[score |-> 91, production |-> 40, productionWeight |-> 35, shipping |-> 33,
      shippingWeight |-> 35, revenueWeight |-> 30],
     [score |-> 20, production |-> 0, productionWeight |-> 0, shipping |-> 20,
      shippingWeight |-> 40, revenueWeight |-> 60]}
=============================================================================

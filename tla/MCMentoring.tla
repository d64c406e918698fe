------------------------------ MODULE MCMentoring ------------------------------
(***************************************************************************)
(* Mentoring for TLC: two unions, the second of which has one member, so   *)
(* that it can see no match of its own.                                    *)
(***************************************************************************)
EXTENDS Mentoring, TLC

CONSTANTS un1, un2, alice, bob, carol

MCUnions  == {un1, un2}
MCMembers == {alice, bob, carol}
MCUnionOf == (alice :> un1) @@ (bob :> un1) @@ (carol :> un2)


=============================================================================

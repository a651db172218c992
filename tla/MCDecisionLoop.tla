--------------------------- MODULE MCDecisionLoop ---------------------------
(***************************************************************************)
(* Two clients and a caller without conditions, whose events the query     *)
(* selects through one of its two items.                                   *)
(***************************************************************************)
EXTENDS DecisionLoop, TLC

CONSTANTS k1, k2

MCMaxCalls == k1 :> 2 @@ k2 :> 1

MCTypes == {"Claimed", "Released"}
MCTags  == {"a", "b"}

MCQuery == {[types |-> {"Claimed"}, tags |-> {}], [types |-> {}, tags |-> {"a"}]}

MCClaim == [type |-> "Claimed", tags |-> <<"b">>]

MCOtherEvents == {[type |-> "Released", tags |-> <<"a">>], [type |-> "Released", tags |-> <<>>]}
=============================================================================

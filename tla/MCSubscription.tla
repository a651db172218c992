--------------------------- MODULE MCSubscription ---------------------------
(***************************************************************************)
(* Small instances of Subscription: unconditional batches, which a page    *)
(* splits and of which the consumers may only want a part.                 *)
(***************************************************************************)
EXTENDS Subscription, TLC

MCTypes == {"T", "U"}
MCTags  == {}

MCRequests ==
    {[events |-> <<[type |-> "T", tags |-> <<>>], [type |-> "U", tags |-> <<>>],
                   [type |-> "T", tags |-> <<>>]>>,
      queries |-> {}]}

MCOneRequest ==
    {[events |-> <<[type |-> "T", tags |-> <<>>], [type |-> "T", tags |-> <<>>]>>,
      queries |-> {}]}

MCQuery == {[types |-> {"T"}, tags |-> {}]}

MCSymmetry == Permutations(Calls) \union Permutations(Consumers)
=============================================================================

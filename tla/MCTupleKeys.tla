---------------------------- MODULE MCTupleKeys -----------------------------
(***************************************************************************)
(* Small instances of TupleKeys, with strings and numbers chosen to be     *)
(* taken for one another.                                                  *)
(***************************************************************************)
EXTENDS TupleKeys

\* "n", and a name that spells, NUL included, "n" and the subspace "e".
MCNamespaces == {<<110>>, <<110, 0, 2, 101>>}

\* The name of the sentinel's subspace.
MCNames == {<<108, 97, 115, 116, 118, 115>>}

\* "A", "AB" and the separator "_".
MCTypes == {<<65>>, <<65, 66>>, <<95>>}

\* "B", which sorts before the separator, and "_" NUL.
MCTags == {<<66>>, <<95, 0>>}

MCInputs ==
    {[type |-> <<65>>, tags |-> <<>>, data |-> <<>>],
     [type |-> <<65, 66>>, tags |-> <<<<66>>>>, data |-> <<0, 255, 0>>],
     [type |-> <<95>>, tags |-> <<<<95, 0>>, <<66>>, <<95, 0>>>>, data |-> <<51>>],
     [type |-> <<65>>, tags |-> <<<<95>>>>, data |-> <<>>],
     [type |-> <<65>>, tags |-> <<<<66>>, <<66>>, <<66>>, <<66>>>>, data |-> <<>>]}

\* Versions and indexes around the carry from one byte to the next.
MCPositions ==
    {[ver |-> 1, idx |-> 255], [ver |-> 1, idx |-> 256], [ver |-> 255, idx |-> 0],
     [ver |-> 256, idx |-> 0]}

\* "A" and "A" NUL "B".
MCNulTypes == {<<65>>, <<65, 0, 66>>}

MCNulInputs == {[type |-> t, tags |-> <<>>, data |-> <<>>] : t \in MCNulTypes}
=============================================================================

------------------------------ MODULE MCAppend ------------------------------
(***************************************************************************)
(* Small instances of DCBAppend.                                           *)
(***************************************************************************)
EXTENDS DCBAppend, TLC

Ev(type, tags) == [type |-> type, tags |-> tags]
Item(types, tags) == [types |-> types, tags |-> tags]
Ask(batch, queries) == [events |-> batch, queries |-> queries]

MCTypes == {"T", "U"}
MCTags  == {"a", "b"}

\* Conditional appends that exclude each other, through every kind of item:
\* types and tags, tags only (the type of the winner may be new), types only,
\* two items, two conditions.
Contending == {
    Ask(<<Ev("T", <<"a">>)>>,             {{Item({"T", "U"}, {"a"})}}),
    Ask(<<Ev("U", <<"b", "a">>)>>,        {{Item({}, {"a"})}}),
    Ask(<<Ev("U", <<>>), Ev("T", <<"b", "b">>)>>, {{Item({"U"}, {}), Item({}, {"a", "b"})}}),
    Ask(<<Ev("T", <<"a", "b">>)>>,        {{Item({"T"}, {})}, {Item({}, {"b"})}})
}

\* A batch at the limit, one above it, events and conditions the code
\* rejects.
Unconditional == {
    Ask(<<Ev("T", <<"a">>), Ev("U", <<>>)>>, {}),
    Ask(<<Ev("T", <<>>), Ev("T", <<>>), Ev("T", <<>>), Ev("T", <<"a">>)>>, {})
}
Rejected == {
    Ask(<<>>, {}),
    Ask(<<Ev("", <<>>)>>, {}),
    Ask(<<Ev("T", <<"a", "a", "b">>)>>, {}),
    Ask(<<Ev("T", <<"_">>)>>, {}),
    Ask(<<Ev("T", <<>>)>>, {{}}),
    Ask(<<Ev("T", <<>>)>>, {{Item({}, {})}}),
    Ask(<<Ev("T", <<>>)>>, {{Item({"T"}, {"_"})}})
}

\* The position of an event of a later or of no commit.
LaterBound == {[ver |-> 2, idx |-> 0]}

AllRequests == Contending \union Unconditional \union Rejected

AllTypes == MCTypes \union {""}
AllTags  == MCTags \union {"_"}

CallSymmetry == Permutations(Calls)
=============================================================================

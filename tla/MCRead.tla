------------------------------- MODULE MCRead -------------------------------
(***************************************************************************)
(* Small instances of DCBRead.                                             *)
(***************************************************************************)
EXTENDS DCBRead, TLC

LOCAL Ev(type, tags) == [type |-> type, tags |-> tags]
LOCAL Item(types, tags) == [types |-> types, tags |-> tags]

MCTypes == {"T", "U"}
MCTags  == {"a", "b", "_"}

MCBatches == {
    <<Ev("T", {"a"}), Ev("U", {"a", "b"})>>,
    <<Ev("T", {"a", "b"}), Ev("T", {})>>,
    <<Ev("U", {"b"})>>
}

\* Ranges that overlap, an item given twice, types to discover, one range,
\* no range, and what the code rejects.
MCQueries == {
    <<Item({}, {"a"}), Item({}, {"b"})>>,
    <<Item({"T"}, {"a"}), Item({"T"}, {"a"})>>,
    <<Item({"T", "U"}, {}), Item({"U"}, {"b"})>>,
    <<Item({"T"}, {})>>,
    <<>>,
    <<Item({"T"}, {}), Item({}, {"_"})>>,
    <<Item({"T"}, {}), Item({}, {})>>
}
=============================================================================

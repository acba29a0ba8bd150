------------------------------- MODULE MCConsole -------------------------------
(***************************************************************************)
(* Instances of Console: a router with its two service threads beside one  *)
(* command at a time, on the same file.                                    *)
(***************************************************************************)
EXTENDS Console

\* Two RouterInfos of one router: the newer has no address and an option,
\* so that a row left over from the older one shows.
Old == [id |-> "a", ver |-> 1, naddr |-> 1, opts |-> <<>>, good |-> TRUE]
New == [id |-> "a", ver |-> 2, naddr |-> 0, opts |-> <<"caps">>, good |-> TRUE]

MCRouters == {"a", "me"}
MCInfos == {Old, New}
MCDirs == {<<Old, New>>}
MCProcs == {"p", "q"}
MCKinds == [p \in MCProcs |-> IF p = "p" THEN {"run"} ELSE Kinds \ {"run"}]
=============================================================================

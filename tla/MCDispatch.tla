----------------------------- MODULE MCDispatch -----------------------------
(***************************************************************************)
(* Instances of Dispatch.  a and b are known, c is not, and the bucket of  *)
(* c holds a and b.  A reply may name c twice.                             *)
(***************************************************************************)
EXTENDS Dispatch

CONSTANTS a, b, c

MCStartingPoints ==
    [r \in Routers |-> IF r \in Known THEN <<>>
                       ELSE IF b \in Known THEN <<a, b>> ELSE <<a>>]

MCReplies == {<<>>, <<c, c>>}

==============================================================================

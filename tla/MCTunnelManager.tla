--------------------------- MODULE MCTunnelManager ---------------------------
(***************************************************************************)
(* A creator rc and three hops.  The outbound tunnel goes through ra, rb   *)
(* and rd and answers to ra's inbound tunnel; the inbound one goes through *)
(* ra back to rc; a third wants an id of ra's that is in use.  The message *)
(* 7 has three fragments; an unfragmented one goes to the same tunnel.     *)
(***************************************************************************)
EXTENDS TunnelManager

CONSTANTS ra, rb, rc, rd

Out == [dir |-> "OUT", creator |-> rc, hops |-> <<ra, rb, rd>>, ids |-> <<1, 2, 2>>,
        msgIds |-> <<11, 12, 19>>, replyTo |-> ra, replyId |-> 3, msgId |-> 10]
In  == [dir |-> "IN", creator |-> rc, hops |-> <<ra>>, ids |-> <<3>>,
        msgIds |-> <<13>>, replyTo |-> rc, replyId |-> 4, msgId |-> 14]
\* The message id drawn for the last hop happens to be the tunnel id.
Same == [dir |-> "IN", creator |-> rb, hops |-> <<ra>>, ids |-> <<1>>,
        msgIds |-> <<6>>, replyTo |-> rb, replyId |-> 6, msgId |-> 18]

To == [router |-> ra, id |-> 3]
First  == [msgId |-> 7, first |-> TRUE, fragmented |-> TRUE, num |-> 0, last |-> FALSE,
           mode |-> "TUNNEL", to |-> To]
Follow(n, last) == [msgId |-> 7, first |-> FALSE, fragmented |-> TRUE, num |-> n,
           last |-> last, mode |-> "TUNNEL", to |-> To]
\* Two fragments of a message for a router.
Routed(id) == <<[First EXCEPT !.msgId = id, !.mode = "ROUTER"],
                [Follow(1, TRUE) EXCEPT !.msgId = id]>>
\* A message that is not fragmented, then two for a router, of which the bytes
\* of the second cannot be parsed.
Mixed == <<[First EXCEPT !.msgId = 0, !.fragmented = FALSE]>> \o Routed(9) \o Routed(8)

MCBuilds   == {Out, In, Same}
MCPayloads == {<<First, Follow(1, FALSE)>>, <<Follow(2, TRUE)>> \o Mixed}
=============================================================================

--------------------------- MODULE MCEstablishment ---------------------------
(* Establishment on small instances.                                         *)
EXTENDS Establishment

CONSTANTS e1, r1, r2

\* Packets of any other type and key are dropped in every state.
PacketsFrom(eps, rhs) ==
  LET some == CHOOSE r \in rhs : TRUE
  IN  UNION {
        [ep : eps, type : {"SESSION_REQUEST"}, key : {Own},
         wellFormed : BOOLEAN, signed : {NoEs}, rh : {some}],
        [ep : eps, type : {"SESSION_CREATED"}, key : rhs,
         wellFormed : {TRUE}, signed : EsId \cup {NoEs}, rh : {some}],
        [ep : eps, type : {"SESSION_CREATED"}, key : rhs,
         wellFormed : {FALSE}, signed : {NoEs}, rh : {some}],
        {p \in [ep : eps, type : {"SESSION_CONFIRMED"}, key : EsId,
                wellFormed : {TRUE}, signed : EsId \cup {NoEs}, rh : rhs] :
           p.signed \in {p.key, NoEs}},
        [ep : eps, type : {"SESSION_DESTROY"}, key : {Own} \cup rhs \cup EsId,
         wellFormed : {TRUE}, signed : {NoEs}, rh : {some}],
        [ep : eps, type : {"DATA"}, key : EsId,
         wellFormed : {TRUE}, signed : {NoEs}, rh : {some}]}

OneRouter == {<<r1, e1>>}
TwoRouters == {<<r1, e1>>, <<r2, e1>>}

OneRouterTraffic == PacketsFrom({e1}, {r1})
TwoRoutersTraffic == PacketsFrom({e1}, {r1, r2})

\* What a router that runs this code sends: well-formed packets, valid signatures,
\* SESSION_DESTROY under a session key only.
SentByPeer(p) ==
  /\ p.wellFormed
  /\ p.type \in {"SESSION_CREATED", "SESSION_CONFIRMED"} => p.signed \in EsId
  /\ p.type = "SESSION_DESTROY" => p.key \in EsId

PeerTraffic == {p \in OneRouterTraffic : SentByPeer(p)}

\* What the future can depend on: an object nothing refers to is overwritten
\* before it is read.
View ==
  <<[k \in EsId |-> IF Referenced(k) THEN es[k] ELSE New(e1, "INBOUND", NoRouter)],
    stateTable, stateTimers, tasks, peers, accepting, connecting>>
=============================================================================

---------------------------- MODULE TunnelManager ----------------------------
(***************************************************************************)
(* The tunnels of a network of routers that all run this code: Tunnel::    *)
(* Manager, Tunnel, InboundTunnel, OutboundTunnel, the build records and   *)
(* the handlers of VariableTunnelBuild, VariableTunnelBuildReply,          *)
(* TunnelGateway and TunnelData, with the FragmentHandler of an endpoint.  *)
(*                                                                         *)
(* A build is a record [dir, creator, hops, ids, msgIds, replyTo, replyId, *)
(* msgId]: hops in the order the records travel (m_hops), ids and msgIds   *)
(* the random numbers BuildRequestRecord::randomize draws for each hop,    *)
(* replyTo and replyId the router and the tunnel the last hop sends the    *)
(* records to.  Of an inbound tunnel replyTo is the creator and replyId    *)
(* the random next tunnel id of the last hop.                              *)
(*                                                                         *)
(* AES with a hop's key is an operation that the inverse operation undoes  *)
(* and that nothing else does: what a record or a tunnel message went      *)
(* through is the sequence `layers' of the operations not yet undone, and  *)
(* it can be read when that is empty.                                      *)
(*                                                                         *)
(* A message that was sent stays in `net': it may arrive never, once or    *)
(* again, and in any order (MessageTransfer shows the transport delivering *)
(* a message twice).                                                       *)
(***************************************************************************)
EXTENDS FragmentHandler

CONSTANTS
  Routers,         \* the routers of the network
  Stoppable,       \* the routers whose user asks for a graceful shutdown
  Builds,          \* the tunnels the creators may build
  Payloads,        \* the lists of fragments a creator sends down an outbound tunnel
  MaxAborted       \* bound on the aborted timer waits queued at a router

ASSUME TunnelAssumption == \A b \in Builds : b.hops \in Seq(Routers)

VARIABLES
  status,          \* Tunnel::m_state of every build, "NONE" before it is built
  pending,         \* m_pending of every router: key -> build
  tunnels,         \* m_tunnels of every router: tunnel id -> build
  part,            \* m_participating of every router: tunnel id -> hop
  graceful,        \* m_graceful of every router
  polling,         \* the wait of m_timer for callback is pending
  down,            \* the routers that crashed
  net,             \* the messages sent
  states, aborted  \* the FragmentHandler of every router

vars == <<status, pending, tunnels, part, graceful, polling, down, net,
          states, aborted>>

-----------------------------------------------------------------------------
(***************************************************************************)
(* Layers of encryption.                                                   *)
(***************************************************************************)

\* Applies an operation to what has been through `layers'.
Apply(layers, op, key) ==
  LET n      == Len(layers)
      undone == [op |-> IF op = "E" THEN "D" ELSE "E", key |-> key]
  IN  IF n > 0 /\ layers[n] = undone THEN SubSeq(layers, 1, n - 1)
      ELSE Append(layers, [op |-> op, key |-> key])

\* BuildRecord::decrypt takes a layer off, or adds one.
Decrypt(layers, key) == Apply(layers, "D", key)

\* BuildRecord::encrypt.
Encrypt(r, key) == [r EXCEPT !.layers = Apply(@, "E", key)]

\* The keys BuildRequestRecord::randomize draws for hop i of build b.
Key(b, i) == <<b.msgId, i>>

\* Decrypts with the keys of build b for the given hops, in their order.
DecryptAll(b, hops, layers) ==
  LET done[k \in 0..Len(hops)] ==
        IF k = 0 THEN layers ELSE Decrypt(done[k - 1], Key(b, hops[k]))
  IN  done[Len(hops)]

\* ... for the hops i, i - 1, ..., j, and for the hops j, ..., i.
DecryptDown(b, i, j, r) ==
  [r EXCEPT !.layers = DecryptAll(b, [k \in 1..(i - j + 1) |-> i - k + 1], @)]

DecryptUp(b, i, j, r) ==
  [r EXCEPT !.layers = DecryptAll(b, [k \in 1..(i - j + 1) |-> j + k - 1], @)]

-----------------------------------------------------------------------------
(***************************************************************************)
(* Build records.                                                          *)
(***************************************************************************)

\* InboundTunnel's constructor: the record of hop i.  The last hop sends to the
\* creator, the first one is the gateway.
InboundHop(b, i) ==
  LET n == Len(b.hops)
  IN  [hop    |-> b.hops[i],
       id     |-> b.ids[i],
       nextId |-> IF i < n THEN b.ids[i + 1] ELSE b.replyId,
       next   |-> IF i < n THEN b.hops[i + 1] ELSE b.replyTo,
       msgId  |-> b.msgIds[i],
       type   |-> IF i = 1 THEN "GATEWAY" ELSE "PARTICIPANT",
       key    |-> Key(b, i)]

\* OutboundTunnel's constructor: the last hop is the endpoint and sends to the
\* tunnel the reply comes through.
OutboundHop(b, i) ==
  [InboundHop(b, i) EXCEPT
     !.type = IF i = Len(b.hops) THEN "ENDPOINT" ELSE "PARTICIPANT"]

Hop(b, i) == IF b.dir = "IN" THEN InboundHop(b, i) ELSE OutboundHop(b, i)

Request(b, i) == [request |-> TRUE, body |-> Hop(b, i), layers |-> <<>>]

\* Wrong: the layers of the earlier hops in the wrong order.
SecureRecordsForward(b) ==
  [i \in 1..Len(b.hops) |-> DecryptUp(b, i - 1, 1, Request(b, i))]

\* Tunnel::secureRecords: every record is decrypted with the reply keys of the
\* hops before it, the nearest first.
SecureRecords(b) ==
  [i \in 1..Len(b.hops) |-> DecryptDown(b, i - 1, 1, Request(b, i))]

\* BuildResponseRecord with Reply::SUCCESS, the only one this code makes, in
\* hop h's place.
Response(h) == [request |-> FALSE, body |-> h, reply |-> "SUCCESS", layers |-> <<>>]

\* getHeader() is router r's truncated hash.
Mine(rec, r) == rec.request /\ rec.layers = <<>> /\ rec.body.hop = r

\* BuildResponseRecord::parse does not throw: the hash in the record matches.
Parses(rec) == ~rec.request /\ rec.layers = <<>>

\* Tunnel::handleResponses for build b: the keys of all hops but the last, from
\* the end; after each key every record is parsed.  Returns the records and the
\* state of the tunnel, "THROWN" when a parse throws.
HandleResponses(b, records) ==
  LET n         == Len(b.hops)
      opened(i) == [k \in DOMAIN records |-> DecryptDown(b, n - 1, i, records[k])]
      parsed    == {opened(i)[k] : i \in 1..(n - 1), k \in DOMAIN records}
  IN  [records |-> opened(1),
       state   |-> IF \E rec \in parsed : ~Parses(rec) THEN "THROWN"
                   ELSE IF \E rec \in parsed : rec.reply # "SUCCESS" THEN "FAILED"
                   ELSE "OPERATIONAL"]

\* getTunnelId() of the tunnel, the key of m_tunnels and of m_pending.
TunnelId(b) == b.replyId

Put(f, k, v) == [x \in DOMAIN f \cup {k} |-> IF x = k THEN v ELSE f[x]]
Erase(f, k)  == [x \in DOMAIN f \ {k} |-> f[x]]

VariableTunnelBuild(to, msgId, records) ==
  [kind |-> "records", to |-> to, msgId |-> msgId, records |-> records]
TunnelGateway(to, id, inner) == [kind |-> "gateway", to |-> to, id |-> id, inner |-> inner]
TunnelData(to, id, data)     == [kind |-> "data", to |-> to, id |-> id, data |-> data]

\* What an endpoint's FragmentHandler hands to the dispatcher: a TunnelGateway
\* message for a tunnel, or the message itself for a router.
SendOn(o) ==
  LET whole == [kind |-> "whole", to |-> o.to.router, msgId |-> o.msgId, data |-> o.data]
  IN  IF o.mode = "TUNNEL" THEN TunnelGateway(o.to.router, o.to.id, whole) ELSE whole

-----------------------------------------------------------------------------
(***************************************************************************)
(* Manager::receiveRecords, from a VariableTunnelBuild or a reply.         *)
(***************************************************************************)

\* The records that go on: the response in place of the request, and every
\* record encrypted with the hop's reply key.
Answer(records, i, h) ==
  [k \in DOMAIN records |->
     Encrypt(IF k = i THEN Response(h) ELSE records[k], h.key)]

\* Wrong: a request is refused only for a tunnel id in use.
RefusesInUse(r, h) == h.id \in DOMAIN part[r]

\* A request is refused, without an answer, by a router that is shutting down
\* and when the tunnel id is in use.
Refuses(r, h) == graceful[r] \/ h.id \in DOMAIN part[r]

\* Wrong: the hop is kept under the next hop's tunnel id.
JoinNext(r, h) == part' = [part EXCEPT ![r] = Put(@, h.nextId, h)]

\* The hop is kept with a timer of ten minutes.
Join(r, h) == part' = [part EXCEPT ![r] = Put(@, h.id, h)]

\* The second half: the first record with this router's hash makes it a hop of
\* the tunnel.  An endpoint wraps the reply in a TunnelGateway message.
Participate(r, records) ==
  LET mine == {k \in DOMAIN records : Mine(records[k], r)}
  IN  IF mine = {} THEN UNCHANGED <<part, net>>
      ELSE \E i \in mine :
             LET h == records[i].body
                 m == VariableTunnelBuild(h.next, h.msgId, Answer(records, i, h))
             IN  /\ \A j \in mine : i <= j
                 /\ IF Refuses(r, h) THEN UNCHANGED <<part, net>>
                    ELSE /\ Join(r, h)
                         /\ net' = net \cup {IF h.type = "ENDPOINT"
                                             THEN TunnelGateway(h.next, h.nextId, m) ELSE m}

\* The whole handler.  A pending tunnel is looked up by the message id, though
\* m_pending is keyed by tunnel id.  When handleResponses leaves the tunnel
\* operational its pointer is moved into m_tunnels and then used: the router
\* goes down.  A parse that throws ends the handler and changes nothing.
ReceiveRecords(r, msgId, records) ==
  LET b   == pending[r][msgId]
      res == HandleResponses(b, records)
  IN  /\ IF msgId \notin DOMAIN pending[r]
         THEN Participate(r, records) /\ UNCHANGED <<status, pending, tunnels, down>>
         ELSE IF status[b] # "REQUESTED" \/ res.state = "THROWN"
         THEN UNCHANGED <<status, pending, tunnels, down, part, net>>
         ELSE /\ status'  = [status EXCEPT ![b] = res.state]
              /\ pending' = [pending EXCEPT ![r] = Erase(@, msgId)]
              /\ IF res.state = "OPERATIONAL"
                 THEN /\ tunnels' = [tunnels EXCEPT ![r] = Put(@, TunnelId(b), b)]
                      /\ down'    = down \cup {r}
                      /\ UNCHANGED <<part, net>>
                 ELSE Participate(r, res.records) /\ UNCHANGED <<tunnels, down>>
      /\ UNCHANGED <<graceful, polling, states, aborted>>

\* Handlers::VariableTunnelBuild and VariableTunnelBuildReply.
HandleRecords(m) ==
  m.kind = "records" /\ m.to \notin down /\ ReceiveRecords(m.to, m.msgId, m.records)

-----------------------------------------------------------------------------
(***************************************************************************)
(* Data through tunnels.                                                   *)
(***************************************************************************)

\* The tunnel message a gateway makes of what it receives, encrypted with the
\* hop's layer and IV keys.  MCEncodings checks fragmentMessage, which splits
\* what is too long for one message.
Wrap(h, inner) == Encrypt([body |-> inner, layers |-> <<>>], h.key)

\* Manager::receiveGatewayData, from a TunnelGateway message: a gateway
\* encrypts and sends on; the gateway data of the router's own operational
\* inbound tunnel goes back to the dispatcher; all else is dropped.
ReceiveGatewayData(m) ==
  LET r == m.to
      h == part[r][m.id]
      t == tunnels[r][m.id]
  IN  /\ m.kind = "gateway" /\ r \notin down
      /\ net' = net \cup
           IF m.id \in DOMAIN part[r]
           THEN IF h.type = "GATEWAY"
                THEN {TunnelData(h.next, h.nextId, Wrap(h, m.inner))} ELSE {}
           ELSE IF /\ m.id \in DOMAIN tunnels[r]
                   /\ t.dir = "IN" /\ status[t] = "OPERATIONAL"
                   /\ m.inner.kind = "records"
                THEN {[m.inner EXCEPT !.to = r]}
                ELSE {}
      /\ UNCHANGED <<status, pending, tunnels, part, graceful, polling, down,
                     states, aborted>>

\* Message::encrypt with the hop's layer and IV keys.
Forward(h, d) == Encrypt(d, h.key)

\* Manager::receiveData, from a TunnelData message.  A participant encrypts and
\* sends on; an endpoint encrypts, parses and hands the fragments to the
\* FragmentHandler; a gateway does nothing.  Message::parse throws when the
\* checksum is wrong, which it is unless every layer is undone.
ReceiveData(m) ==
  LET r == m.to
      h == part[r][m.id]
      d == Forward(h, m.data)
      f == ReceiveFragments(states[r], aborted[r], d.body)
  IN  /\ m.kind = "data" /\ r \notin down
      /\ Len(aborted[r]) < MaxAborted
      /\ IF m.id \in DOMAIN part[r] /\ h.type = "ENDPOINT" /\ d.layers = <<>>
         THEN /\ states'  = [states EXCEPT ![r] = f.states]
              /\ aborted' = [aborted EXCEPT ![r] = f.aborted]
              /\ net'     = net \cup {SendOn(f.out[k]) : k \in DOMAIN f.out}
         ELSE /\ net' = IF m.id \in DOMAIN part[r] /\ h.type = "PARTICIPANT"
                        THEN net \cup {TunnelData(h.next, h.nextId, d)} ELSE net
              /\ UNCHANGED <<states, aborted>>
      /\ UNCHANGED <<status, pending, tunnels, part, graceful, polling, down>>

-----------------------------------------------------------------------------
(***************************************************************************)
(* Timers, shutdown and the creators.                                      *)
(***************************************************************************)

\* Wrong: the timer erases from the other map.
ExpireOther(r, id) ==
  /\ r \notin down /\ id \in DOMAIN part[r]
  /\ tunnels' = [tunnels EXCEPT ![r] = Erase(@, id)]
  /\ UNCHANGED <<status, pending, part, graceful, polling, down, net, states, aborted>>

\* Manager::timerCallback after ten minutes.
ExpireParticipating(r, id) ==
  /\ r \notin down /\ id \in DOMAIN part[r]
  /\ part' = [part EXCEPT ![r] = Erase(@, id)]
  /\ UNCHANGED <<status, pending, tunnels, graceful, polling, down, net,
                 states, aborted>>

\* FragmentHandler::timerCallback after two minutes, and for a destroyed timer.
ExpireFragments(r) ==
  /\ r \notin down
  /\ \/ \E id \in DOMAIN states[r] :
          /\ states[r][id].timer
          /\ states'  = [states EXCEPT ![r] = TimerCallback(@, id)]
          /\ UNCHANGED aborted
     \/ /\ aborted[r] # <<>>
        /\ LET id == Head(aborted[r])
           IN  /\ states'  = [states EXCEPT ![r] = TimerCallback(@, id)]
               /\ aborted' = [aborted EXCEPT ![r] =
                    IF id \in DOMAIN states[r] /\ states[r][id].timer
                    THEN Append(Tail(@), id) ELSE Tail(@)]
  /\ UNCHANGED <<status, pending, tunnels, part, graceful, polling, down, net>>

\* Manager::gracefulShutdown.
GracefulShutdown(r) ==
  /\ r \in Stoppable \ down /\ ~graceful[r]
  /\ graceful' = [graceful EXCEPT ![r] = TRUE]
  /\ UNCHANGED <<status, pending, tunnels, part, polling, down, net, states, aborted>>

\* Manager::callback every five seconds: the last one leaves the timer alone.
Callback(r) ==
  /\ r \notin down /\ polling[r]
  /\ polling' = [polling EXCEPT ![r] = ~(DOMAIN part[r] = {} /\ graceful[r])]
  /\ UNCHANGED <<status, pending, tunnels, part, graceful, down, net, states, aborted>>

\* Manager::buildIBTunnel and buildOBTunnel with at least one hop.  The build
\* timer is a local that is destroyed on return; onTunnelBuildTimeout is empty.
BuildTunnel(b) ==
  LET r == b.creator
  IN  /\ r \notin down /\ status[b] = "NONE"
      /\ status'  = [status EXCEPT ![b] = "REQUESTED"]
      /\ tunnels' = [tunnels EXCEPT ![r] = Put(@, TunnelId(b), b)]
      /\ pending' = [pending EXCEPT ![r] = Put(@, TunnelId(b), b)]
      /\ net'     = net \cup {VariableTunnelBuild(b.hops[1], b.msgId, SecureRecords(b))}
      /\ UNCHANGED <<part, graceful, polling, down, states, aborted>>

\* What the creators of other implementations do, since this code sends no data
\* of its own: fragments down an outbound tunnel, each hop's layer undone in
\* advance.
CreatorSends(b) ==
  /\ b.dir = "OUT" /\ status[b] # "NONE"
  /\ \E p \in Payloads :
       net' = net \cup {TunnelData(b.hops[1], b.ids[1],
                         DecryptDown(b, Len(b.hops), 1, [body |-> p, layers |-> <<>>]))}
  /\ UNCHANGED <<status, pending, tunnels, part, graceful, polling, down,
                 states, aborted>>

Init ==
  /\ status = [b \in Builds |-> "NONE"]
  /\ pending = [r \in Routers |-> <<>>] /\ tunnels = pending /\ part = pending
  /\ graceful = [r \in Routers |-> FALSE] /\ polling = [r \in Routers |-> TRUE]
  /\ down = {} /\ net = {}
  /\ states = pending /\ aborted = pending

Next ==
  \/ \E m \in net : HandleRecords(m) \/ ReceiveGatewayData(m) \/ ReceiveData(m)
  \/ \E r \in Routers :
       \/ \E id \in DOMAIN part[r] : ExpireParticipating(r, id)
       \/ ExpireFragments(r) \/ GracefulShutdown(r) \/ Callback(r)
  \/ \E b \in Builds : BuildTunnel(b) \/ CreatorSends(b)

Spec == Init /\ [][Next]_vars

\* Every timer that is set fires, at every router that is up.
Fairness ==
  \A r \in Routers :
    /\ WF_vars(Callback(r))
    /\ WF_vars(\E id \in DOMAIN part[r] : ExpireParticipating(r, id))

FairSpec == Spec /\ Fairness

-----------------------------------------------------------------------------
(***************************************************************************)
(* Properties.                                                             *)
(***************************************************************************)

\* The variables have their types; a fragment number has six bits.
TypeOK ==
  /\ status \in [Builds -> {"NONE", "REQUESTED", "OPERATIONAL", "FAILED"}]
  /\ \A r \in Routers :
       /\ \A k \in DOMAIN pending[r] : pending[r][k] \in Builds
       /\ \A k \in DOMAIN tunnels[r] : tunnels[r][k] \in Builds
       /\ \A k \in DOMAIN states[r] : states[r][k].lastNum \in 0..63
       /\ \A k \in DOMAIN aborted[r] : aborted[r][k] \in Nat
  /\ graceful \in [Routers -> BOOLEAN] /\ polling \in [Routers -> BOOLEAN]
  /\ down \subseteq Routers

\* A build message in flight can be read by the router it is sent to, in the one
\* record meant for that router and in no other: the records of later hops stay closed until
\* the hops before them have added their layers, and the answers of earlier
\* hops stay closed on the way (Tunnel.cpp:64-83, Manager.cpp:115-122).
OneRecordOpens ==
  \A m \in net : m.kind = "records" =>
    LET open == {k \in DOMAIN m.records : m.records[k].layers = <<>>}
    IN  IF \E k \in DOMAIN m.records : m.records[k].request
        THEN \E k \in open : open = {k} /\ Mine(m.records[k], m.to)
        ELSE open = {}

\* A router is a hop only of tunnels somebody built, in the place and role and
\* with the neighbours the creator wrote into its record, however the messages
\* are duplicated, delayed or reordered.
HopsAsBuilt ==
  \A r \in Routers : \A id \in DOMAIN part[r] :
    \E b \in Builds : \E i \in DOMAIN b.hops :
      status[b] # "NONE" /\ part[r][id] = Hop(b, i) /\ b.hops[i] = r /\ b.ids[i] = id

\* The answers that reach the router the creator named can be read: undoing the
\* reply keys from the last hop to hop k opens hop k's answer, and every hop
\* of the tunnel has answered.
AnswersReadable ==
  \A m \in net : \A b \in Builds :
    LET n    == Len(b.hops)
        recs == IF m.kind = "gateway" THEN m.inner.records ELSE m.records
        ends == IF b.dir = "OUT"
                THEN m.kind = "gateway" /\ m.inner.kind = "records"
                     /\ m.id = b.replyId /\ m.inner.msgId = b.msgIds[n]
                ELSE m.kind = "records" /\ m.msgId = b.msgIds[n]
    IN  ends => \A k \in 1..n : DecryptDown(b, n, k, recs[k]) = Response(Hop(b, k))

\* A message an endpoint sends on is whole: its fragments from the first to the
\* last, each once and in order, although they come reordered and repeated and
\* a timer may drop the state between two of them (FragmentHandler.cpp:73-118).
DeliveredWhole ==
  \A m \in net :
    LET w == IF m.kind = "gateway" THEN m.inner ELSE m
    IN  w.kind = "whole" =>
          \E f \in UNION {{p[i] : i \in DOMAIN p} : p \in Payloads} :
            /\ f.msgId = w.msgId
            /\ \/ f.last /\ w.data = [k \in 1..(f.num + 1) |-> k - 1]
               \/ f.first /\ ~f.fragmented /\ w.data = <<0>>

\* The layer of every hop of a tunnel is needed: what a tunnel carries is open
\* at the endpoint only, so a message in flight through a tunnel is closed.
DataStaysClosed == \A m \in net : m.kind = "data" => m.data.layers # <<>>

\* Every layer is there when it is needed and is taken off by the router it is
\* for, under loss, repetition and reordering: the requests of a build open hop
\* by hop, the answers for the creator, and the data of the tunnel at its end.
LayersHold == OneRecordOpens /\ AnswersReadable /\ DataStaysClosed

\* The poll of the manager stops only when a shutdown was asked for and the
\* last tunnel is gone, and after that the router is never a hop again.
StoppedMeansDrained ==
  \A r \in Routers : ~polling[r] => graceful[r] /\ DOMAIN part[r] = {}

\* A tunnel id in use keeps its hop: no request, repeated or with the same id,
\* changes what the id means while the tunnel lives (Manager.cpp:102-106).
IdKeepsMeaning ==
  [][\A r \in Routers : \A id \in DOMAIN part[r] :
       id \in DOMAIN part'[r] => part'[r][id] = part[r][id]]_vars

\* A router that was asked to shut down gets there: its tunnels expire and the
\* poll ends, unless the router goes down.
Drains == \A r \in Stoppable : graceful[r] ~> (~polling[r] \/ r \in down)

\* FragmentHandler.h:22-26, ``FragmentStates are deleted after two
\* minutes'': every state has a timer that will delete it.
FragmentStatesTimed ==
  \A r \in Routers : \A id \in DOMAIN states[r] : states[r][id].timer
=============================================================================

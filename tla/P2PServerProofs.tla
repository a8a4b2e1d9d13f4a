--------------------------- MODULE P2PServerProofs --------------------------
(* Theorems about the UDP servers (P2PServer), for any nodes, plans, pools and *)
(* bounds.  An application message is delivered where it was sent to, and none *)
(* circles for good; as long as no disconnect timer goes off, a node has one   *)
(* handler per peer, whose state only advances, and a connection is no         *)
(* illusion of one side; when they do go off, a handler in the pool is         *)
(* stopping and, as long as none in use is given out, one that gave up its     *)
(* peer leaves the table.                                                      *)
EXTENDS P2PServer, KadTableProofs, FiniteSetTheorems

-----------------------------------------------------------------------------
(* Queues and handlers as values *)

\* An item put on a node's queue is one more there, and none elsewhere.
LEMMA PutIs ==
  ASSUME NEW S, NEW q \in [Node -> SUBSET S], NEW n \in Node, NEW x \in S
  PROVE  /\ Put(q, n, x) \in [Node -> SUBSET S]
         /\ \A m \in Node : Put(q, n, x)[m] = IF m = n THEN q[m] \cup {x} ELSE q[m]
BY DEF Put

\* Taking an item off a channel leaves the others.
LEMMA DropIs ==
  ASSUME NEW S, NEW q \in [Node -> SUBSET S], NEW n \in Node, NEW x
  PROVE  /\ Drop(q, n, x) \in [Node -> SUBSET S]
         /\ \A m \in Node : Drop(q, n, x)[m] = IF m = n THEN q[m] \ {x} ELSE q[m]
BY DEF Drop

\* The handlers with one of them changed, as an assignment to its fields does.
HdWith(n, h, r) == [hd EXCEPT ![n][h] = r]

\* The other handlers, of this node and of others, stay as they are.
LEMMA HdWithIs ==
  ASSUME hd \in [Node -> [Handler -> HandlerType]],
         NEW n \in Node, NEW h \in Handler, NEW r \in HandlerType
  PROVE  /\ HdWith(n, h, r) \in [Node -> [Handler -> HandlerType]]
         /\ HdWith(n, h, r)[n][h] = r
         /\ \A m \in Node, g \in Handler :
              ~(m = n /\ g = h) => HdWith(n, h, r)[m][g] = hd[m][g]
BY DEF HdWith

\* The type of a handler object, field by field.
Fields == {"dst", "addr", "st", "loops", "ear", "stale", "wait", "retry", "ping",
           "alarm", "due", "connect", "ctrl", "closed"}
Fielded(r) == r = [f \in Fields |-> r[f]]
FieldsOK(r) ==
  /\ r.dst \in NodeID \cup {None} /\ r.addr \in Socket \cup {None} /\ r.st \in State
  /\ r.loops \in Nat /\ r.ear \in Nat /\ r.stale \in Nat
  /\ r.wait \in BOOLEAN /\ r.retry \in BOOLEAN /\ r.ping \in BOOLEAN
  /\ r.alarm \in BOOLEAN /\ r.due \in BOOLEAN
  /\ r.connect \in Nat /\ r.ctrl \in Nat /\ r.closed \in BOOLEAN

\* An assignment to fields of a handler keeps the object's shape, so its type
\* is a matter of the fields.
LEMMA HandlerIs ==
  ASSUME NEW r
  PROVE  /\ r \in HandlerType => Fielded(r) /\ FieldsOK(r)
         /\ Fielded(r) /\ FieldsOK(r) => r \in HandlerType
<1>1. ASSUME r \in HandlerType PROVE FieldsOK(r) /\ DOMAIN r = Fields /\ r = [f \in DOMAIN r |-> r[f]]
  BY <1>1 DEF HandlerType, FieldsOK, Fields
<1>2. ASSUME Fielded(r), FieldsOK(r) PROVE r \in HandlerType
  BY <1>2 DEF HandlerType, FieldsOK, Fields, Fielded
<1> QED  BY <1>1, <1>2 DEF Fielded

\* What Open makes of the handler it takes.
Started(old, d, addr, tokens) ==
  [old EXCEPT !.dst = d, !.addr = addr, !.st = "WAIT", !.loops = @ + 1,
    !.ear = @ + 1, !.wait = TRUE, !.retry = FALSE, !.ping = FALSE, !.alarm = TRUE,
    !.due = FALSE, !.connect = @ + tokens]

\* A started handler has the fields of one.
LEMMA StartedIs ==
  ASSUME NEW old \in HandlerType, NEW d \in NodeID, NEW addr \in Socket \cup {None},
         NEW tokens \in 0 .. 1
  PROVE  LET new == Started(old, d, addr, tokens)
         IN  /\ new \in HandlerType
             /\ new.dst = d /\ new.addr = addr /\ new.st = "WAIT" /\ ~new.due
             /\ new.loops = old.loops + 1 /\ new.connect = old.connect + tokens
             /\ new.ear = old.ear + 1 /\ new.stale = old.stale /\ new.ctrl = old.ctrl
             /\ new.closed = old.closed /\ ~new.ping
<1> DEFINE new == Started(old, d, addr, tokens)
<1>1. Fielded(old) /\ FieldsOK(old)
  BY HandlerIs
<1>2. Fielded(new)
  BY <1>1 DEF Started, Fielded
<1>3. FieldsOK(new)
  BY <1>1 DEF Started, Fielded, FieldsOK, Fields, State
<1>4. /\ new.dst = d /\ new.addr = addr /\ new.st = "WAIT" /\ ~new.due
      /\ new.loops = old.loops + 1 /\ new.connect = old.connect + tokens
      /\ new.ear = old.ear + 1 /\ new.stale = old.stale /\ new.ctrl = old.ctrl
      /\ new.closed = old.closed /\ ~new.ping
  BY <1>1 DEF Started, Fielded, Fields
<1> QED  BY <1>2, <1>3, <1>4, HandlerIs

\* getHandler: a new handler when the pool is empty, else the first of it.
Took(n, h) ==
  \/ /\ pool[n] = <<>> /\ h = made[n] + 1
     /\ made' = [made EXCEPT ![n] = h] /\ pool' = pool
  \/ /\ pool[n] # <<>> /\ h = Head(pool[n])
     /\ pool' = [pool EXCEPT ![n] = Tail(@)] /\ made' = made

\* What becomes of it, of the pool, the table and sendChan.
Opened(n, d, addr, tokens, t, h) ==
  /\ Took(n, h)
  /\ made' \in [Node -> 0 .. HandlerCap] /\ pool' \in [Node -> Seq(Handler)]
  /\ hd' = HdWith(n, h, Started(hd[n][h], d, addr, tokens))
  /\ hd' \in [Node -> [Handler -> HandlerType]]
  /\ table' \in [Node -> TableOf(Handler)]
  /\ \A m \in Node : m # n => table'[m] = table[m]
  /\ table'[n] = Insert(t, n, [Dst(n) EXCEPT ![h] = d], h)
  /\ \A b \in Buckets : InBucket(table'[n], b) =
       IF b = getKDist(d, n) THEN InBucket(t, b) \cup {h} ELSE InBucket(t, b)
  /\ sendQ' = Put(sendQ, n, ConnMsg(n, d, h))
  /\ ConnMsg(n, d, h) \in Message

\* The call of Init, getHandler and start (net/p2p.go): which handler is taken
\* and what becomes of pool, table and sendChan.
LEMMA OpenIs ==
  ASSUME TypeOK, NEW n \in Node, NEW d \in NodeID, HasBucket(n, d),
         NEW addr \in Socket \cup {None}, NEW tokens \in 0 .. 1,
         NEW t \in TableOf(Handler), Open(n, d, addr, tokens, t)
  PROVE  \E h \in Handler : Opened(n, d, addr, tokens, t, h)
<1> DEFINE h   == IF pool[n] = <<>> THEN made[n] + 1 ELSE Head(pool[n])
           ids == [Dst(n) EXCEPT ![h] = d]
           new == Insert(t, n, ids, h)
<1>1. /\ h \in Handler
      /\ IF pool[n] = <<>> THEN made' = [made EXCEPT ![n] = h] /\ UNCHANGED pool
                           ELSE pool' = [pool EXCEPT ![n] = Tail(@)] /\ UNCHANGED made
      /\ hd' = HdWith(n, h, Started(hd[n][h], d, addr, tokens))
      /\ table' = [table EXCEPT ![n] = new]
      /\ sendQ' = Put(sendQ, n, ConnMsg(n, d, h))
  BY DEF Open, HdWith, Started
<1>2. /\ pool[n] = <<>> /\ h = made[n] + 1 /\ made' = [made EXCEPT ![n] = h] /\ pool' = pool
      \/ /\ pool[n] # <<>> /\ h = Head(pool[n])
         /\ pool' = [pool EXCEPT ![n] = Tail(@)] /\ made' = made
  BY <1>1
<1>3. ids[h] = d
  BY <1>1 DEF Dst
<1> HIDE DEF h, ids
<1>4. /\ new \in TableOf(Handler)
      /\ \A b \in Buckets : InBucket(new, b) =
           IF b = getKDist(d, n) THEN InBucket(t, b) \cup {h} ELSE InBucket(t, b)
  BY <1>1, <1>3, InsertIs
<1> HIDE DEF new
<1>5. made' \in [Node -> 0 .. HandlerCap]
  <2>1. made \in [Node -> 0 .. HandlerCap] /\ h \in 0 .. HandlerCap
    BY <1>1, P2PAssumption DEF TypeOK, Handler
  <2> QED  BY <1>2, <2>1
<1>6. pool' \in [Node -> Seq(Handler)]
  <2>1. CASE pool' = pool
    BY <2>1 DEF TypeOK
  <2>2. CASE pool[n] # <<>> /\ pool' = [pool EXCEPT ![n] = Tail(@)]
    <3>1. pool[n] \in Seq(Handler) /\ pool \in [Node -> Seq(Handler)]
      BY DEF TypeOK
    <3>2. Tail(pool[n]) \in Seq(Handler)
      BY <2>2, <3>1, HeadTailProperties
    <3> QED  BY <2>2, <3>1, <3>2
  <2> QED  BY <1>2, <2>1, <2>2
<1>7. hd \in [Node -> [Handler -> HandlerType]] /\ hd[n][h] \in HandlerType
  BY <1>1 DEF TypeOK
<1>8. Started(hd[n][h], d, addr, tokens) \in HandlerType
  BY <1>7, StartedIs
<1>9. hd' \in [Node -> [Handler -> HandlerType]]
  BY <1>1, <1>7, <1>8, HdWithIs
<1>10. table' \in [Node -> TableOf(Handler)] /\ table'[n] = new
       /\ \A m \in Node : m # n => table'[m] = table[m]
  BY <1>1, <1>4 DEF TypeOK, TableOf
<1>11. ConnMsg(n, d, h) \in Message
  BY <1>1, P2PAssumption DEF ConnMsg, NetMsg, Message, Socket, Handler
<1>12. Took(n, h)
  BY <1>2 DEF Took
<1>13. Opened(n, d, addr, tokens, t, h)
  <2>1. table'[n] = Insert(t, n, [Dst(n) EXCEPT ![h] = d], h)
    BY <1>10 DEF new, ids
  <2> QED  BY <1>1, <1>4, <1>5, <1>6, <1>9, <1>10, <1>11, <1>12, <2>1 DEF Opened
<1> QED  BY <1>1, <1>13

-----------------------------------------------------------------------------
(* Type correctness *)

\* A datagram of type NET carries a message, one taken came to the socket it
\* was taken from.
Carries(d) == d.type = "NET" => d.msg \in Message
NetTyped ==
  /\ \A d \in net : Carries(d)
  /\ \A n \in Node : \A x \in taken[n] : Carries(x.d) /\ x.d.to = <<n, x.h>>

\* What waits for the static handler names one of the peers given to Init.
StaticKnown == \A n \in Node : \A x \in outQ[n] : x.h = 0 => x.peer \in Node

\* A handler with a goroutine, or whom one will tell of, has been opened.
Known(n, h) == hd[n][h].dst \in NodeID
DstKnown ==
  \A n \in Node :
    /\ \A h \in Handler :
         hd[n][h].loops > 0 \/ hd[n][h].ear > 0 \/ hd[n][h].stale > 0 => Known(n, h)
    /\ \A p \in posting[n] : Known(n, p.h)
    /\ \A x \in taken[n] : Known(n, x.h)

TypeInv == TypeOK /\ NetTyped /\ StaticKnown /\ DstKnown

\* A change to one handler that leaves its peer, or gives it one, and wakes a
\* goroutine only where there is a peer, keeps every handler's peer known.
LEMMA KnownStays ==
  ASSUME TypeInv, NEW n \in Node, NEW h \in Handler, NEW r \in HandlerType,
         hd' = HdWith(n, h, r),
         r.dst = hd[n][h].dst \/ r.dst \in NodeID,
         r.loops > 0 \/ r.ear > 0 \/ r.stale > 0 => r.dst \in NodeID
  PROVE  /\ hd' \in [Node -> [Handler -> HandlerType]]
         /\ \A m \in Node, g \in Handler :
              /\ hd'[m][g].loops > 0 \/ hd'[m][g].ear > 0 \/ hd'[m][g].stale > 0
                   => Known(m, g)'
              /\ Known(m, g) => Known(m, g)'
<1>1. /\ hd' \in [Node -> [Handler -> HandlerType]]
      /\ hd'[n][h] = r
      /\ \A m \in Node, g \in Handler : ~(m = n /\ g = h) => hd'[m][g] = hd[m][g]
  <2>1. hd \in [Node -> [Handler -> HandlerType]]
    BY DEF TypeInv, TypeOK
  <2> DEFINE f == HdWith(n, h, r)
  <2>2. /\ f \in [Node -> [Handler -> HandlerType]]
        /\ f[n][h] = r
        /\ \A m \in Node, g \in Handler : ~(m = n /\ g = h) => f[m][g] = hd[m][g]
    BY <2>1, HdWithIs
  <2>3. hd' = f
    OBVIOUS
  <2> HIDE DEF f
  <2> QED  BY <2>2, <2>3
<1>2. ASSUME NEW m \in Node, NEW g \in Handler
      PROVE  /\ hd'[m][g].loops > 0 \/ hd'[m][g].ear > 0 \/ hd'[m][g].stale > 0
                   => Known(m, g)'
             /\ Known(m, g) => Known(m, g)'
  <2>1. CASE m = n /\ g = h
    BY <2>1, <1>1 DEF Known
  <2>2. CASE ~(m = n /\ g = h)
    BY <2>2, <1>1 DEF TypeInv, DstKnown, Known
  <2> QED  BY <2>1, <2>2
<1> QED  BY <1>1, <1>2

\* The application's calls touch connectChan and sendChan only.
LEMMA TypeCalls ==
  ASSUME TypeInv, NEW n \in Node, NEW d \in NodeID, ConnectUDP(n, d) \/ Send(n, d) \/ Stop(n)
  PROVE  TypeInv'
<1>1. CASE ConnectUDP(n, d)
  <2>1. /\ asked' = Put(asked, n, d) /\ connectQ' = Put(connectQ, n, d)
        /\ UNCHANGED <<status, table, pool, made, hd, sendQ, inbox, posting, stateQ,
                       outQ, taken, net, expired, app>>
    BY <1>1 DEF ConnectUDP
  <2>2. asked' \in [Node -> SUBSET NodeID] /\ connectQ' \in [Node -> SUBSET NodeID]
    BY <2>1, PutIs DEF TypeInv, TypeOK
  <2> QED  BY <2>1, <2>2 DEF TypeInv, TypeOK, NetTyped, StaticKnown, DstKnown, Known
<1>2. CASE Send(n, d)
  <2>1. /\ app' = [app EXCEPT !.sent = @ \cup {<<n, d>>}]
        /\ sendQ' = Put(sendQ, n, NetMsg(n, d, "DATA", None, MAX_TTL))
        /\ UNCHANGED <<status, table, pool, made, hd, connectQ, inbox, posting,
                       stateQ, outQ, taken, net, asked, expired>>
    BY <1>2 DEF Send
  <2>2. NetMsg(n, d, "DATA", None, MAX_TTL) \in Message
    BY P2PAssumption DEF NetMsg, Message
  <2>3. sendQ' \in [Node -> SUBSET Message]
    BY <2>1, <2>2, PutIs DEF TypeInv, TypeOK
  <2>4. app' \in [plan : Plans, sent : SUBSET (Node \X NodeID), got : [Node -> SUBSET Node]]
    <3>1. app \in [plan : Plans, sent : SUBSET (Node \X NodeID), got : [Node -> SUBSET Node]]
      BY DEF TypeInv, TypeOK
    <3>2. app.sent \cup {<<n, d>>} \in SUBSET (Node \X NodeID)
      BY <3>1
    <3> QED  BY <2>1, <3>1, <3>2
  <2> QED  BY <2>1, <2>3, <2>4 DEF TypeInv, TypeOK, NetTyped, StaticKnown, DstKnown, Known
<1>3. CASE Stop(n)
  BY <1>3 DEF Stop, TypeInv, TypeOK, NetTyped, StaticKnown, DstKnown, Known
<1> QED  BY <1>1, <1>2, <1>3

\* Open gives the handler it takes a peer.
LEMMA TypeOpen ==
  ASSUME TypeInv, NEW n \in Node, NEW d \in NodeID, HasBucket(n, d),
         NEW addr \in Socket \cup {None}, NEW tokens \in 0 .. 1,
         NEW t \in TableOf(Handler), Open(n, d, addr, tokens, t),
         UNCHANGED <<posting, taken>>
  PROVE  /\ made' \in [Node -> 0 .. HandlerCap] /\ pool' \in [Node -> Seq(Handler)]
         /\ hd' \in [Node -> [Handler -> HandlerType]]
         /\ table' \in [Node -> TableOf(Handler)]
         /\ sendQ' \in [Node -> SUBSET Message]
         /\ DstKnown'
<1>1. PICK h \in Handler :
           /\ made' \in [Node -> 0 .. HandlerCap] /\ pool' \in [Node -> Seq(Handler)]
           /\ hd' = HdWith(n, h, Started(hd[n][h], d, addr, tokens))
           /\ table' \in [Node -> TableOf(Handler)]
           /\ sendQ' = Put(sendQ, n, ConnMsg(n, d, h))
           /\ ConnMsg(n, d, h) \in Message
  <2>1. TypeOK
    BY DEF TypeInv
  <2>2. \E h \in Handler : Opened(n, d, addr, tokens, t, h)
    BY <2>1, OpenIs
  <2> QED  BY <2>2 DEF Opened
<1>2. sendQ' \in [Node -> SUBSET Message]
  BY <1>1, PutIs DEF TypeInv, TypeOK
<1> DEFINE r == Started(hd[n][h], d, addr, tokens)
<1>3. hd[n][h] \in HandlerType
  BY DEF TypeInv, TypeOK
<1>4. r \in HandlerType /\ r.dst = d
  BY <1>3, StartedIs
<1>5. hd' = HdWith(n, h, r)
  BY <1>1
<1> HIDE DEF r
<1>6. /\ hd' \in [Node -> [Handler -> HandlerType]]
      /\ \A m \in Node, g \in Handler :
              /\ hd'[m][g].loops > 0 \/ hd'[m][g].ear > 0 \/ hd'[m][g].stale > 0
                   => Known(m, g)'
              /\ Known(m, g) => Known(m, g)'
  BY <1>4, <1>5, KnownStays
<1>7. DstKnown'
  <2>1. \A m \in Node : /\ \A p \in posting[m] : p.h \in Handler
                        /\ \A x \in taken[m] : x.h \in Handler
    BY DEF TypeInv, TypeOK
  <2> QED  BY <1>6, <2>1 DEF TypeInv, DstKnown
<1> QED  BY <1>1, <1>2, <1>6, <1>7

\* What a step does to one handler, and to the notices and datagrams of
\* goroutines of handlers that have a peer, keeps peers known.
LEMMA HandlerStep ==
  ASSUME TypeInv, NEW n \in Node, NEW h \in Handler, NEW r \in HandlerType,
         hd' = HdWith(n, h, r), r.dst = hd[n][h].dst,
         r.loops > 0 \/ r.ear > 0 \/ r.stale > 0 => r.dst \in NodeID,
         \A m \in Node : \A p \in posting'[m] :
           p \in posting[m] \/ (p.h \in Handler /\ Known(m, p.h)),
         \A m \in Node : \A x \in taken'[m] : x.h \in Handler /\ Known(m, x.h)
  PROVE  hd' \in [Node -> [Handler -> HandlerType]] /\ DstKnown'
<1>1. /\ hd' \in [Node -> [Handler -> HandlerType]]
      /\ \A m \in Node, g \in Handler :
              /\ hd'[m][g].loops > 0 \/ hd'[m][g].ear > 0 \/ hd'[m][g].stale > 0
                   => Known(m, g)'
              /\ Known(m, g) => Known(m, g)'
  BY KnownStays
<1>2. \A m \in Node : \A p \in posting[m] : p.h \in Handler /\ Known(m, p.h)
  BY DEF TypeInv, TypeOK, DstKnown
<1> QED  BY <1>1, <1>2 DEF DstKnown

\* case id := <-nps.connectChan
LEMMA TypeServerConnect ==
  ASSUME TypeInv, NEW n \in Node, ServerConnect(n)
  PROVE  TypeInv'
<1>1. PICK d \in connectQ[n] :
        /\ HasBucket(n, d) /\ connectQ' = Drop(connectQ, n, d)
        /\ IF Has(table[n], n, Dst(n), d)
           THEN UNCHANGED <<pool, made, hd, table, sendQ>>
           ELSE Open(n, d, None, 0, table[n])
        /\ UNCHANGED <<status, inbox, posting, stateQ, outQ, taken, net, asked, expired, app>>
  BY DEF ServerConnect
<1>2. connectQ' \in [Node -> SUBSET NodeID]
  BY <1>1, DropIs DEF TypeInv, TypeOK
<1>3. CASE UNCHANGED <<pool, made, hd, table, sendQ>>
  BY <1>1, <1>2, <1>3 DEF TypeInv, TypeOK, NetTyped, StaticKnown, DstKnown, Known
<1>4. CASE Open(n, d, None, 0, table[n])
  <2>1. /\ d \in NodeID /\ table[n] \in TableOf(Handler)
        /\ None \in Socket \cup {None} /\ 0 \in 0 .. 1
        /\ UNCHANGED <<posting, taken>>
    BY <1>1 DEF TypeInv, TypeOK, TableOf
  <2>2. /\ made' \in [Node -> 0 .. HandlerCap] /\ pool' \in [Node -> Seq(Handler)]
        /\ hd' \in [Node -> [Handler -> HandlerType]]
        /\ table' \in [Node -> TableOf(Handler)]
        /\ sendQ' \in [Node -> SUBSET Message]
        /\ DstKnown'
    BY <1>1, <1>4, <2>1, TypeOpen
  <2> QED  BY <1>1, <1>2, <2>2 DEF TypeInv, TypeOK, NetTyped, StaticKnown, TableOf
<1> QED  BY <1>1, <1>3, <1>4

\* case msg := <-nps.sendChan
LEMMA TypeServerSend ==
  ASSUME TypeInv, NEW n \in Node, ServerSend(n)
  PROVE  TypeInv'
<1> DEFINE Out == [h : 0 .. HandlerCap, msg : Message, peer : Node \cup {None}]
           To(msg) == Get(table[n], n, Dst(n), msg.dst)
           Hops(msg) == GetK(table[n], n, msg.dst)
           Via(msg) == {Hops(msg)[i] : i \in DOMAIN Hops(msg)}
           Posts(msg) ==
                IF ReadyToSend(hd[n][To(msg)])
                THEN {[h |-> To(msg), msg |-> msg, peer |-> None]}
                ELSE IF msg.dst \in StaticPeers[n]
                THEN {[h |-> 0, msg |-> msg, peer |-> msg.dst]}
                ELSE {[h |-> g, msg |-> msg, peer |-> None] :
                        g \in {f \in Via(msg) : hd[n][f].st = "CONN"}}
<1>1. PICK msg \in sendQ[n] :
        /\ HasBucket(n, msg.dst) /\ To(msg) # NoHandler
        /\ sendQ' = Drop(sendQ, n, msg)
        /\ outQ' = PutAll(outQ, n, Posts(msg))
        /\ UNCHANGED <<status, table, pool, made, hd, connectQ, inbox, posting, stateQ,
                       taken, net, asked, expired, app>>
  BY DEF ServerSend
<1>2. msg \in Message /\ table[n] \in TableOf(Handler)
  BY DEF TypeInv, TypeOK, TableOf
<1>3. To(msg) \in Handler
  BY <1>1, <1>2, GetIs
<1>4. Via(msg) \subseteq Handler
  <2>1. Hops(msg) \in Seq(Handler)
    BY <1>1, <1>2, GetKIs
  <2> HIDE DEF Hops
  <2> QED  BY <2>1
<1> HIDE DEF To, Via
<1>5. \A x \in Posts(msg) : x \in Out /\ (x.h = 0 => x.peer \in Node)
  <2>1. Handler \subseteq 0 .. HandlerCap /\ 0 \notin Handler
    BY P2PAssumption DEF Handler
  <2>2. StaticPeers[n] \subseteq Node
    BY P2PAssumption
  <2>3. CASE ReadyToSend(hd[n][To(msg)])
    <3>1. Posts(msg) = {[h |-> To(msg), msg |-> msg, peer |-> None]}
      BY <2>3
    <3>2. To(msg) \in 0 .. HandlerCap /\ To(msg) # 0
      BY <2>1, <1>3
    <3> HIDE DEF Posts
    <3> QED  BY <3>1, <3>2, <1>2
  <2>4. CASE ~ReadyToSend(hd[n][To(msg)]) /\ msg.dst \in StaticPeers[n]
    <3>1. 0 \in 0 .. HandlerCap
      BY P2PAssumption
    <3> QED  BY <2>2, <2>4, <3>1, <1>2
  <2>5. CASE ~ReadyToSend(hd[n][To(msg)]) /\ msg.dst \notin StaticPeers[n]
    <3>1. Posts(msg) = {[h |-> g, msg |-> msg, peer |-> None] :
                          g \in {f \in Via(msg) : hd[n][f].st = "CONN"}}
      BY <2>5
    <3>2. \A g \in Via(msg) : g \in 0 .. HandlerCap /\ g # 0
      BY <2>1, <1>4
    <3> HIDE DEF Posts
    <3> QED  BY <3>1, <3>2, <1>2
  <2> QED  BY <2>3, <2>4, <2>5
<1> HIDE DEF Posts
<1>6. outQ \in [Node -> SUBSET Out] /\ Posts(msg) \in SUBSET Out
  BY <1>5 DEF TypeInv, TypeOK
<1> HIDE DEF Out
<1>7. /\ outQ' \in [Node -> SUBSET Out]
      /\ \A m \in Node : outQ'[m] = IF m = n THEN outQ[m] \cup Posts(msg) ELSE outQ[m]
  <2> DEFINE X == Posts(msg)
  <2>1. X \in SUBSET Out /\ outQ' = PutAll(outQ, n, X)
    BY <1>1, <1>6
  <2> HIDE DEF X
  <2>2. /\ PutAll(outQ, n, X) \in [Node -> SUBSET Out]
        /\ \A m \in Node : PutAll(outQ, n, X)[m] = IF m = n THEN outQ[m] \cup X ELSE outQ[m]
    BY <2>1, <1>6 DEF PutAll
  <2> QED  BY <2>1, <2>2 DEF X
<1>8. sendQ' \in [Node -> SUBSET Message]
  BY <1>1, DropIs DEF TypeInv, TypeOK
<1>9. StaticKnown'
  BY <1>5, <1>7 DEF TypeInv, StaticKnown
<1> QED  BY <1>1, <1>7, <1>8, <1>9 DEF TypeInv, TypeOK, NetTyped, DstKnown, Known, Out

\* A message passed on has lost a hop.
LEMMA LessHops ==
  ASSUME NEW m \in Message, m.ttl > 0
  PROVE  LET less == [m EXCEPT !.ttl = @ - 1]
         IN  /\ less \in Message /\ less.ttl < MAX_TTL /\ less.src = m.src
             /\ less.dst = m.dst /\ less.type = m.type /\ less.sock = m.sock
<1>1. m.ttl - 1 \in 0 .. MAX_TTL /\ m.ttl - 1 < MAX_TTL
  BY P2PAssumption DEF Message
<1> QED  BY <1>1 DEF Message

\* case msg := <-nps.handlerChan
LEMMA TypeServerRecv ==
  ASSUME TypeInv, NEW n \in Node, ServerRecv(n)
  PROVE  TypeInv'
<1> DEFINE T(r) == Update(table[n], n, Dst(n), r.via)
           H(r) == Get(T(r), n, Dst(n), r.msg.src)
<1>1. PICK r \in inbox[n] :
        /\ HasBucket(n, r.via)
        /\ inbox' = Drop(inbox, n, r)
        /\ \/ /\ r.msg.dst = n /\ r.msg.type = "CONN" /\ HasBucket(n, r.msg.src)
              /\ H(r) = NoHandler
              /\ Open(n, r.msg.src, r.msg.sock, 1, T(r))
              /\ UNCHANGED app
           \/ /\ r.msg.dst = n /\ r.msg.type = "CONN" /\ HasBucket(n, r.msg.src)
              /\ H(r) # NoHandler
              /\ hd' = IF hd[n][H(r)].st # "WAIT" THEN hd
                       ELSE [hd EXCEPT ![n][H(r)].dst = r.msg.src,
                                       ![n][H(r)].addr = r.msg.sock,
                                       ![n][H(r)].connect = @ + 1]
              /\ table' = [table EXCEPT ![n] = T(r)]
              /\ UNCHANGED <<pool, made, sendQ, app>>
           \/ /\ r.msg.dst = n /\ r.msg.type = "DATA"
              /\ Deliver(n, r.msg)
              /\ table' = [table EXCEPT ![n] = T(r)]
              /\ UNCHANGED <<pool, made, hd, sendQ>>
           \/ /\ r.msg.dst # n
              /\ PassOn(n, r.msg)
              /\ table' = [table EXCEPT ![n] = T(r)]
              /\ UNCHANGED <<pool, made, hd, app>>
        /\ UNCHANGED <<status, connectQ, posting, stateQ, outQ, taken, net, asked, expired>>
  BY DEF ServerRecv
<1>2. /\ r.via \in Node /\ r.msg \in Message /\ table[n] \in TableOf(Handler)
      /\ r.msg.src \in NodeID /\ r.msg.src \in Node /\ r.msg.sock \in Socket \cup {None}
  BY P2PAssumption DEF TypeInv, TypeOK, TableOf, Message
<1>3. T(r) \in TableOf(Handler)
  BY <1>1, <1>2, UpdateIs
<1>4. inbox' \in [Node -> SUBSET [via : Node, msg : Message]]
  BY <1>1, DropIs DEF TypeInv, TypeOK
<1> DEFINE moved == [table EXCEPT ![n] = T(r)]
<1>5. moved \in [Node -> [Buckets -> Seq(Handler)]]
  BY <1>3 DEF TypeInv, TypeOK, TableOf
<1> HIDE DEF T
<1>6. CASE /\ HasBucket(n, r.msg.src) /\ Open(n, r.msg.src, r.msg.sock, 1, T(r))
           /\ UNCHANGED app
  <2>1. /\ made' \in [Node -> 0 .. HandlerCap] /\ pool' \in [Node -> Seq(Handler)]
        /\ hd' \in [Node -> [Handler -> HandlerType]]
        /\ table' \in [Node -> TableOf(Handler)]
        /\ sendQ' \in [Node -> SUBSET Message]
        /\ DstKnown'
    <3>1. 1 \in 0 .. 1 /\ UNCHANGED <<posting, taken>>
      <4> HIDE DEF H
      <4> QED  BY <1>1
    <3> DEFINE d == r.msg.src
               t == T(r)
    <3>2. /\ d \in NodeID /\ HasBucket(n, d) /\ t \in TableOf(Handler)
          /\ Open(n, d, r.msg.sock, 1, t)
      BY <1>2, <1>3, <1>6
    <3> HIDE DEF d, t
    <3> QED  BY <3>1, <3>2, <1>2, TypeOpen
  <2> QED  BY <1>1, <1>4, <1>6, <2>1 DEF TypeInv, TypeOK, NetTyped, StaticKnown, TableOf
<1>7. CASE /\ HasBucket(n, r.msg.src) /\ H(r) # NoHandler
           /\ hd' = IF hd[n][H(r)].st # "WAIT" THEN hd
                    ELSE [hd EXCEPT ![n][H(r)].dst = r.msg.src,
                                    ![n][H(r)].addr = r.msg.sock,
                                    ![n][H(r)].connect = @ + 1]
           /\ table' = moved
           /\ UNCHANGED <<pool, made, sendQ, app>>
  <2> DEFINE h == H(r)
             x == [hd[n][h] EXCEPT !.dst = r.msg.src, !.addr = r.msg.sock, !.connect = @ + 1]
  <2>1. h \in Handler
    BY <1>2, <1>3, <1>7, GetIs
  <2> HIDE DEF h
  <2>2. hd' = hd \/ hd' = HdWith(n, h, x)
    BY <1>7, <2>1 DEF h, HdWith, TypeInv, TypeOK
  <2>3. hd' \in [Node -> [Handler -> HandlerType]] /\ DstKnown'
    <3>1. CASE hd' = hd
      BY <3>1, <1>1 DEF TypeInv, TypeOK, DstKnown, Known
    <3>2. CASE hd' = HdWith(n, h, x)
      <4>1. Fielded(hd[n][h]) /\ FieldsOK(hd[n][h])
        BY <2>1, HandlerIs DEF TypeInv, TypeOK
      <4>2. Fielded(x)
        BY <4>1 DEF Fielded
      <4>3. FieldsOK(x)
        BY <4>1, <1>2 DEF Fielded, Fields, FieldsOK
      <4>4. x.dst = r.msg.src
        BY <4>1 DEF Fielded, Fields
      <4>5. x \in HandlerType
        BY <4>2, <4>3, HandlerIs
      <4> HIDE DEF x
      <4>6. /\ hd' \in [Node -> [Handler -> HandlerType]]
            /\ \A m \in Node, g \in Handler :
                 /\ hd'[m][g].loops > 0 \/ hd'[m][g].ear > 0 \/ hd'[m][g].stale > 0
                      => Known(m, g)'
                 /\ Known(m, g) => Known(m, g)'
        BY <2>1, <3>2, <4>4, <4>5, <1>2, KnownStays
      <4>7. \A m \in Node : /\ \A p \in posting[m] : p.h \in Handler
                            /\ \A y \in taken[m] : y.h \in Handler
        BY DEF TypeInv, TypeOK
      <4> QED  BY <4>6, <4>7, <1>1 DEF TypeInv, DstKnown
    <3> QED  BY <2>2, <3>1, <3>2
  <2> QED  BY <1>1, <1>4, <1>5, <1>7, <2>3 DEF TypeInv, TypeOK, NetTyped, StaticKnown
<1> HIDE DEF moved
<1>8. CASE Deliver(n, r.msg) /\ table' = moved /\ UNCHANGED <<pool, made, hd, sendQ>>
  <2>1. app' \in [plan : Plans, sent : SUBSET (Node \X NodeID), got : [Node -> SUBSET Node]]
    <3>1. app \in [plan : Plans, sent : SUBSET (Node \X NodeID), got : [Node -> SUBSET Node]]
      BY DEF TypeInv, TypeOK
    <3>2. app' = app \/ app' = [app EXCEPT !.got = [app.got EXCEPT ![n] = @ \cup {r.msg.src}]]
      BY <1>8 DEF Deliver
    <3>3. [app.got EXCEPT ![n] = @ \cup {r.msg.src}] \in [Node -> SUBSET Node]
      BY <3>1, <1>2
    <3> QED  BY <3>1, <3>2, <3>3
  <2> QED  BY <1>1, <1>4, <1>5, <1>8, <2>1
        DEF TypeInv, TypeOK, NetTyped, StaticKnown, DstKnown, Known
<1>9. CASE PassOn(n, r.msg) /\ table' = moved /\ UNCHANGED <<pool, made, hd, app>>
  <2>1. sendQ' \in [Node -> SUBSET Message]
    <3>1. CASE r.msg.ttl > 0
      <4> DEFINE less == [r.msg EXCEPT !.ttl = @ - 1]
      <4>1. less \in Message
        BY <1>2, <3>1, LessHops
      <4>2. sendQ' = Put(sendQ, n, less)
        BY <1>9, <3>1 DEF PassOn
      <4> HIDE DEF less
      <4> QED  BY <4>1, <4>2, PutIs DEF TypeInv, TypeOK
    <3>2. CASE ~(r.msg.ttl > 0)
      BY <1>9, <3>2 DEF PassOn, TypeInv, TypeOK
    <3> QED  BY <3>1, <3>2
  <2> QED  BY <1>1, <1>4, <1>5, <1>9, <2>1
        DEF TypeInv, TypeOK, NetTyped, StaticKnown, DstKnown, Known
<1> QED  BY <1>1, <1>6, <1>7, <1>8, <1>9 DEF moved

\* What the invariant says of one handler object, for the steps that change one.
LEMMA OldHandler ==
  ASSUME TypeInv, NEW n \in Node, NEW h \in Handler
  PROVE  /\ hd[n][h] \in HandlerType /\ Fielded(hd[n][h]) /\ FieldsOK(hd[n][h])
         /\ hd[n][h].loops > 0 \/ hd[n][h].ear > 0 \/ hd[n][h].stale > 0
               => hd[n][h].dst \in NodeID
<1>1. hd[n][h] \in HandlerType
  BY DEF TypeInv, TypeOK
<1> QED  BY <1>1, HandlerIs DEF TypeInv, DstKnown, Known

\* What an expired handler's return to the pool sets.
Told(old, full) == [old EXCEPT !.ctrl = @ + 1, !.closed = @ \/ full]

\* case state := <-nps.stateChan, and a panic.
LEMMA TypeServerState ==
  ASSUME TypeInv, NEW n \in Node, ServerState(n) \/ ServerPanics(n)
  PROVE  TypeInv'
<1>1. CASE ServerPanics(n)
  BY <1>1 DEF ServerPanics, TypeInv, TypeOK, NetTyped, StaticKnown, DstKnown, Known
<1>2. CASE ServerState(n)
  <2>1. PICK s \in stateQ[n] :
       /\ stateQ' = Drop(stateQ, n, s)
       /\ \/ UNCHANGED <<sendQ, hd, table, pool>>
          \/ /\ sendQ' = Put(sendQ, n, ConnMsg(n, s.peer, s.h))
             /\ UNCHANGED <<hd, table, pool>>
          \/ GiveBack(n, s) /\ UNCHANGED sendQ
       /\ UNCHANGED <<status, made, connectQ, inbox, posting, outQ, taken, net, asked,
                      expired, app>>
    BY <1>2 DEF ServerState
  <2>2. s \in Notice
    BY DEF TypeInv, TypeOK
  <2>3. stateQ' \in [Node -> SUBSET Notice]
    BY <2>1, DropIs DEF TypeInv, TypeOK
  <2>4. CASE UNCHANGED <<sendQ, hd, table, pool>>
    BY <2>1, <2>3, <2>4 DEF TypeInv, TypeOK, NetTyped, StaticKnown, DstKnown, Known
  <2>5. CASE sendQ' = Put(sendQ, n, ConnMsg(n, s.peer, s.h)) /\ UNCHANGED <<hd, table, pool>>
    <3>1. ConnMsg(n, s.peer, s.h) \in Message
      BY <2>2, P2PAssumption DEF ConnMsg, NetMsg, Message, Socket, Handler, Notice
    <3>2. sendQ' \in [Node -> SUBSET Message]
      BY <2>5, <3>1, PutIs DEF TypeInv, TypeOK
    <3> QED  BY <2>1, <2>3, <2>5, <3>2
             DEF TypeInv, TypeOK, NetTyped, StaticKnown, DstKnown, Known
  <2>6. CASE GiveBack(n, s) /\ UNCHANGED sendQ
    <3> DEFINE h == s.h
               old == hd[n][h]
               new == Told(old, Len(pool[n]) = MaxPooledCnt)
               left == Remove(table[n], n, Dst(n), s.peer)
    <3>1. h \in Handler
      BY <2>2 DEF Notice
    <3>2. /\ hd' = HdWith(n, h, new)
          /\ table' = [table EXCEPT ![n] = left]
          /\ pool' = pool \/ pool' = [pool EXCEPT ![n] = <<h>> \o @]
      BY <2>6, <3>1 DEF GiveBack, HdWith, Told, TypeInv, TypeOK
    <3> HIDE DEF h, left
    <3>3. /\ old \in HandlerType /\ Fielded(old) /\ FieldsOK(old)
          /\ old.loops > 0 \/ old.ear > 0 \/ old.stale > 0 => old.dst \in NodeID
      BY <3>1, OldHandler
    <3> HIDE DEF old
    <3>4. Fielded(new)
      BY <3>3 DEF Fielded, Told
    <3>5. FieldsOK(new)
      BY <3>3 DEF Fielded, Fields, FieldsOK, Told
    <3>6. new.dst = old.dst /\ new.loops = old.loops /\ new.ear = old.ear /\ new.stale = old.stale
      BY <3>3 DEF Fielded, Fields, Told
    <3>7. new \in HandlerType
      BY <3>4, <3>5, HandlerIs
    <3> HIDE DEF new
    <3>8. \A m \in Node : /\ \A p \in posting'[m] : p \in posting[m]
                          /\ \A x \in taken'[m] : x.h \in Handler /\ Known(m, x.h)
      BY <2>1 DEF TypeInv, TypeOK, DstKnown
    <3>9. hd' \in [Node -> [Handler -> HandlerType]] /\ DstKnown'
      <4>1. new.dst = hd[n][h].dst
        BY <3>6 DEF old
      <4>2. new.loops > 0 \/ new.ear > 0 \/ new.stale > 0 => new.dst \in NodeID
        BY <3>3, <3>6
      <4> QED  BY <3>1, <3>2, <3>7, <3>8, <4>1, <4>2, HandlerStep
    <3>10. table' \in [Node -> [Buckets -> Seq(Handler)]]
      <4>1. table[n] \in TableOf(Handler) /\ table \in [Node -> TableOf(Handler)]
        BY DEF TypeInv, TypeOK, TableOf
      <4>2. left \in TableOf(Handler)
        BY <4>1, RemoveIs DEF left
      <4> QED  BY <3>2, <4>1, <4>2 DEF TableOf
    <3>11. pool' \in [Node -> Seq(Handler)]
      <4>1. pool \in [Node -> Seq(Handler)] /\ pool[n] \in Seq(Handler) /\ <<h>> \in Seq(Handler)
        BY <3>1 DEF TypeInv, TypeOK
      <4>2. <<h>> \o pool[n] \in Seq(Handler)
        BY <4>1, ConcatProperties
      <4> QED  BY <3>2, <4>1, <4>2
    <3> QED  BY <2>1, <2>3, <2>6, <3>9, <3>10, <3>11
             DEF TypeInv, TypeOK, NetTyped, StaticKnown
  <2> QED  BY <2>1, <2>4, <2>5, <2>6
<1> QED  BY <1>1, <1>2

\* A datagram of a message.
LEMMA NetPacket ==
  ASSUME NEW to \in Socket, NEW n \in Node, NEW d \in NodeID, NEW msg \in Message
  PROVE  /\ Datagram(to, n, d, "NET", msg) \in Packet
         /\ Carries(Datagram(to, n, d, "NET", msg))
BY DEF Datagram, Packet, Carries

\* A handler's loop, and the static handler's, sends a message.
LEMMA TypeHandlerSend ==
  ASSUME TypeInv, NEW n \in Node, HandlerSend(n)
  PROVE  TypeInv'
<1> DEFINE Out == [h : 0 .. HandlerCap, msg : Message, peer : Node \cup {None}]
<1>1. PICK x \in outQ[n] :
       /\ outQ' = Drop(outQ, n, x)
       /\ \/ /\ x.h = 0
             /\ net' = net \cup {Datagram(<<x.peer, 0>>, n, x.peer, "NET", x.msg)}
             /\ UNCHANGED hd
          \/ /\ x.h # 0 /\ hd[n][x.h].loops > 0
             /\ hd' = [hd EXCEPT ![n][x.h].ping = TRUE]
             /\ net' = IF hd[n][x.h].addr = None \/ hd[n][x.h].closed THEN net
                       ELSE net \cup {Datagram(hd[n][x.h].addr, n, hd[n][x.h].dst,
                                               "NET", x.msg)}
       /\ UNCHANGED <<status, table, pool, made, connectQ, sendQ, inbox, posting,
                      stateQ, taken, asked, expired, app>>
  BY DEF HandlerSend
<1>2. x \in Out /\ x.msg \in Message
  BY DEF TypeInv, TypeOK
<1>3. outQ' \in [Node -> SUBSET Out] /\ \A m \in Node : outQ'[m] \subseteq outQ[m]
  BY <1>1 DEF Drop, TypeInv, TypeOK
<1>4. StaticKnown'
  BY <1>3 DEF TypeInv, StaticKnown
<1>5. CASE /\ x.h = 0
           /\ net' = net \cup {Datagram(<<x.peer, 0>>, n, x.peer, "NET", x.msg)}
           /\ UNCHANGED hd
  <2>1. x.peer \in Node /\ x.peer \in NodeID /\ <<x.peer, 0>> \in Socket
    BY <1>5, P2PAssumption DEF TypeInv, StaticKnown, Socket
  <2>2. /\ Datagram(<<x.peer, 0>>, n, x.peer, "NET", x.msg) \in Packet
        /\ Carries(Datagram(<<x.peer, 0>>, n, x.peer, "NET", x.msg))
    BY <1>2, <2>1, NetPacket
  <2>3. net' \subseteq Packet /\ NetTyped'
    BY <1>1, <1>5, <2>2 DEF TypeInv, TypeOK, NetTyped
  <2> QED  BY <1>1, <1>3, <1>4, <1>5, <2>3 DEF TypeInv, TypeOK, DstKnown, Known
<1>6. CASE /\ x.h # 0 /\ hd[n][x.h].loops > 0
           /\ hd' = [hd EXCEPT ![n][x.h].ping = TRUE]
           /\ net' = IF hd[n][x.h].addr = None \/ hd[n][x.h].closed THEN net
                     ELSE net \cup {Datagram(hd[n][x.h].addr, n, hd[n][x.h].dst,
                                             "NET", x.msg)}
  <2> DEFINE h == x.h
             old == hd[n][h]
             new == [old EXCEPT !.ping = TRUE]
             d == Datagram(old.addr, n, old.dst, "NET", x.msg)
  <2>1. h \in Handler
    BY <1>2, <1>6, P2PAssumption DEF Handler
  <2>2. /\ hd' = HdWith(n, h, new) /\ old.loops > 0
        /\ net' = net \/ (old.addr # None /\ net' = net \cup {d})
    BY <1>6, <2>1 DEF HdWith, TypeInv, TypeOK
  <2> HIDE DEF h
  <2>3. /\ old \in HandlerType /\ Fielded(old) /\ FieldsOK(old)
        /\ old.loops > 0 \/ old.ear > 0 \/ old.stale > 0 => old.dst \in NodeID
    BY <2>1, OldHandler
  <2> HIDE DEF old
  <2>4. Fielded(new)
    BY <2>3 DEF Fielded
  <2>5. FieldsOK(new)
    BY <2>3 DEF Fielded, Fields, FieldsOK
  <2>6. new.dst = old.dst
    BY <2>3 DEF Fielded, Fields
  <2>7. new \in HandlerType
    BY <2>4, <2>5, HandlerIs
  <2> HIDE DEF new
  <2>8. \A m \in Node : /\ \A p \in posting'[m] : p \in posting[m]
                        /\ \A y \in taken'[m] : y.h \in Handler /\ Known(m, y.h)
    BY <1>1 DEF TypeInv, TypeOK, DstKnown
  <2>9. hd' \in [Node -> [Handler -> HandlerType]] /\ DstKnown'
    <3>1. new.dst = hd[n][h].dst /\ new.dst \in NodeID
      BY <2>2, <2>3, <2>6 DEF old
    <3> QED  BY <2>1, <2>2, <2>7, <2>8, <3>1, HandlerStep
  <2>10. net' \subseteq Packet /\ NetTyped'
    <3>1. old.addr # None => d \in Packet /\ Carries(d)
      <4>1. old.addr # None => old.addr \in Socket
        BY <2>3 DEF FieldsOK
      <4>2. old.dst \in NodeID
        BY <2>2, <2>3
      <4> QED  BY <4>1, <4>2, <1>2, NetPacket
    <3> HIDE DEF d
    <3> QED  BY <1>1, <2>2, <3>1 DEF TypeInv, TypeOK, NetTyped
  <2> QED  BY <1>1, <1>3, <1>4, <2>9, <2>10 DEF TypeInv, TypeOK
<1> QED  BY <1>1, <1>5, <1>6

\* The cases of a handler's select, and its disconnTimer, that change fields of
\* the handler and may tell of it.
LEMMA TypeHandling ==
  ASSUME TypeInv, NEW n \in Node, NEW h \in Handler,
         HandlerConnect(n, h) \/ HandlerDisconn(n, h) \/ Expire(n, h)
  PROVE  TypeInv'
<1> DEFINE old == hd[n][h]
           Taker == [old EXCEPT !.connect = @ - 1]
           Begun == [Taker EXCEPT !.st = "PING", !.wait = FALSE, !.retry = TRUE,
                                  !.ping = TRUE, !.alarm = TRUE]
           After == IF Taker.st = "WAIT" THEN Begun ELSE Taker
           Over == [old EXCEPT !.due = FALSE, !.st = "DISCONN", !.wait = FALSE,
                               !.retry = FALSE, !.ping = FALSE]
           Due == [old EXCEPT !.alarm = FALSE, !.due = TRUE]
<1>1. /\ old \in HandlerType /\ Fielded(old) /\ FieldsOK(old)
      /\ old.loops > 0 \/ old.ear > 0 \/ old.stale > 0 => old.dst \in NodeID
  BY OldHandler
<1>2. \A m \in Node : /\ \A p \in posting[m] : p.h \in Handler
                      /\ \A x \in taken[m] : x.h \in Handler /\ Known(m, x.h)
  BY DEF TypeInv, TypeOK, DstKnown
<1>3. ASSUME NEW new, Fielded(new), FieldsOK(new), hd' = HdWith(n, h, new),
             new.dst = old.dst, new.loops = old.loops, new.ear = old.ear, new.stale = old.stale,
             UNCHANGED taken,
             \A m \in Node : \A p \in posting'[m] :
               p \in posting[m] \/ (p.h \in Handler /\ Known(m, p.h))
      PROVE  hd' \in [Node -> [Handler -> HandlerType]] /\ DstKnown'
  <2>1. new \in HandlerType
    BY <1>3, HandlerIs
  <2>2. new.dst = hd[n][h].dst
    BY <1>3
  <2>3. new.loops > 0 \/ new.ear > 0 \/ new.stale > 0 => new.dst \in NodeID
    BY <1>1, <1>3
  <2>4. \A m \in Node : \A x \in taken'[m] : x.h \in Handler /\ Known(m, x.h)
    BY <1>2, <1>3
  <2> QED  BY <1>3, <2>1, <2>2, <2>3, <2>4, HandlerStep
<1>4. CASE HandlerConnect(n, h)
  <2>1. /\ old.connect > 0 /\ hd' = HdWith(n, h, After)
        /\ UNCHANGED <<status, table, pool, made, connectQ, sendQ, inbox, posting,
                       stateQ, outQ, taken, net, asked, expired, app>>
    BY <1>4 DEF HandlerConnect, HdWith
  <2> HIDE DEF old
  <2>2. /\ Fielded(Taker) /\ FieldsOK(Taker)
        /\ Taker.dst = old.dst /\ Taker.loops = old.loops
        /\ Taker.ear = old.ear /\ Taker.stale = old.stale
    <3>1. old.connect - 1 \in Nat
      BY <1>1, <2>1 DEF FieldsOK
    <3> QED  BY <1>1, <3>1 DEF Fielded, Fields, FieldsOK
  <2> HIDE DEF Taker
  <2>3. /\ Fielded(Begun) /\ FieldsOK(Begun)
        /\ Begun.dst = old.dst /\ Begun.loops = old.loops
        /\ Begun.ear = old.ear /\ Begun.stale = old.stale
    BY <2>2 DEF Fielded, Fields, FieldsOK, State
  <2> HIDE DEF Begun
  <2>4. /\ Fielded(After) /\ FieldsOK(After)
        /\ After.dst = old.dst /\ After.loops = old.loops
        /\ After.ear = old.ear /\ After.stale = old.stale
    BY <2>2, <2>3
  <2> HIDE DEF After
  <2>5. hd' \in [Node -> [Handler -> HandlerType]] /\ DstKnown'
    <3>1. \A m \in Node : \A p \in posting'[m] : p \in posting[m]
      BY <2>1
    <3> QED  BY <1>3, <2>1, <2>4, <3>1
  <2> QED  BY <2>1, <2>5 DEF TypeInv, TypeOK, NetTyped, StaticKnown
<1>5. CASE HandlerDisconn(n, h)
  <2> DEFINE p == [h |-> h, why |-> "expired"]
  <2>1. /\ old.loops > 0 /\ hd' = HdWith(n, h, Over)
        /\ posting' = Put(posting, n, p)
        /\ UNCHANGED <<status, table, pool, made, connectQ, sendQ, inbox, stateQ, outQ,
                       taken, net, asked, expired, app>>
    BY <1>5 DEF HandlerDisconn, HdWith
  <2>2. Known(n, h)
    BY <1>1, <2>1 DEF Known
  <2> HIDE DEF old
  <2>3. Fielded(Over)
    BY <1>1 DEF Fielded
  <2>4. FieldsOK(Over)
    BY <1>1 DEF Fielded, Fields, FieldsOK, State
  <2>5. Over.dst = old.dst /\ Over.loops = old.loops /\ Over.ear = old.ear /\ Over.stale = old.stale
    BY <1>1 DEF Fielded, Fields
  <2> HIDE DEF Over
  <2>6. p \in [h : Handler, why : {"pinged", "expired"}]
    OBVIOUS
  <2>7. /\ posting' \in [Node -> SUBSET [h : Handler, why : {"pinged", "expired"}]]
        /\ \A m \in Node : posting'[m] = IF m = n THEN posting[m] \cup {p} ELSE posting[m]
    BY <2>1, <2>6 DEF Put, TypeInv, TypeOK
  <2>8. hd' \in [Node -> [Handler -> HandlerType]] /\ DstKnown'
    <3>1. \A m \in Node : \A q \in posting'[m] :
            q \in posting[m] \/ (q.h \in Handler /\ Known(m, q.h))
      BY <2>2, <2>7
    <3> QED  BY <1>3, <2>1, <2>3, <2>4, <2>5, <3>1
  <2> QED  BY <2>1, <2>7, <2>8 DEF TypeInv, TypeOK, NetTyped, StaticKnown
<1>6. CASE Expire(n, h)
  <2>a. /\ expired[n] < ExpiryCap[n]
        /\ expired' = [expired EXCEPT ![n] = @ + 1]
        /\ UNCHANGED <<status, table, pool, made, connectQ, sendQ, inbox, posting,
                       stateQ, outQ, taken, net, asked, app>>
    BY <1>6 DEF Expire
  <2>b. hd' = HdWith(n, h, Due)
    <3>1. hd' = [hd EXCEPT ![n][h].alarm = FALSE, ![n][h].due = TRUE]
      BY <1>6 DEF Expire
    <3>2. hd \in [Node -> [Handler -> HandlerType]]
      BY DEF TypeInv, TypeOK
    <3> QED  BY <3>1, <3>2 DEF HdWith
  <2>1. /\ hd' = HdWith(n, h, Due) /\ expired[n] < ExpiryCap[n]
        /\ expired' = [expired EXCEPT ![n] = @ + 1]
        /\ UNCHANGED <<status, table, pool, made, connectQ, sendQ, inbox, posting,
                       stateQ, outQ, taken, net, asked, app>>
    BY <2>a, <2>b
  <2> HIDE DEF old
  <2>2. Fielded(Due)
    BY <1>1 DEF Fielded
  <2>3. FieldsOK(Due)
    BY <1>1 DEF Fielded, Fields, FieldsOK
  <2>4. Due.dst = old.dst /\ Due.loops = old.loops /\ Due.ear = old.ear /\ Due.stale = old.stale
    BY <1>1 DEF Fielded, Fields
  <2> HIDE DEF Due
  <2>5. hd' \in [Node -> [Handler -> HandlerType]] /\ DstKnown'
    <3>1. \A m \in Node : \A p \in posting'[m] : p \in posting[m]
      BY <2>1
    <3> QED  BY <1>3, <2>1, <2>2, <2>3, <2>4, <3>1
  <2>6. expired' \in [Node -> Nat] /\ \A m \in Node : expired'[m] <= ExpiryCap[m]
    <3>1. expired \in [Node -> Nat] /\ \A m \in Node : expired[m] <= ExpiryCap[m]
      BY DEF TypeInv, TypeOK
    <3>2. ExpiryCap \in [Node -> Nat]
      BY P2PAssumption
    <3>3. expired' = [expired EXCEPT ![n] = expired[n] + 1] /\ expired[n] < ExpiryCap[n]
      BY <2>1
    <3> HIDE <2>a, <2>b, <2>1, <2>2, <2>3, <2>4, <2>5
    <3> QED  BY <3>1, <3>2, <3>3
  <2> QED  BY <2>1, <2>5, <2>6 DEF TypeInv, TypeOK, NetTyped, StaticKnown
<1> QED  BY <1>4, <1>5, <1>6

\* waitTicker and waitTicker2 tell the server, pingTicker sends.
LEMMA TypeTicks ==
  ASSUME TypeInv, NEW n \in Node, NEW h \in Handler,
         WaitTick(n, h) \/ RetryTick(n, h) \/ PingTick(n, h)
  PROVE  TypeInv'
<1>1. ASSUME NEW st \in State, Tick(n, h, st)
      PROVE  TypeInv'
  <2> DEFINE s == [h |-> h, peer |-> hd[n][h].dst, state |-> st, why |-> "tick"]
  <2>1. /\ hd[n][h].loops > 0 /\ stateQ' = Put(stateQ, n, s)
        /\ UNCHANGED <<status, table, pool, made, hd, connectQ, sendQ, inbox, posting,
                       outQ, taken, net, asked, expired, app>>
    BY <1>1 DEF Tick
  <2>2. hd[n][h].dst \in NodeID
    BY <2>1, OldHandler
  <2>3. s \in Notice
    BY <2>2 DEF Notice
  <2> HIDE DEF s
  <2>4. stateQ' \in [Node -> SUBSET Notice]
    BY <2>1, <2>3, PutIs DEF TypeInv, TypeOK
  <2> QED  BY <2>1, <2>4 DEF TypeInv, TypeOK, NetTyped, StaticKnown, DstKnown, Known
<1>2. CASE PingTick(n, h)
  <2> DEFINE d == Datagram(hd[n][h].addr, n, hd[n][h].dst, "PING", None)
  <2>1. /\ hd[n][h].loops > 0 /\ hd[n][h].addr # None /\ net' = net \cup {d}
        /\ UNCHANGED <<status, table, pool, made, hd, connectQ, sendQ, inbox, posting,
                       stateQ, outQ, taken, asked, expired, app>>
    BY <1>2 DEF PingTick
  <2>2. d \in Packet /\ Carries(d)
    <3>1. hd[n][h].dst \in NodeID /\ hd[n][h].addr \in Socket
      BY <2>1, OldHandler DEF FieldsOK
    <3> QED  BY <3>1 DEF Datagram, Packet, Carries
  <2> HIDE DEF d
  <2> QED  BY <2>1, <2>2 DEF TypeInv, TypeOK, NetTyped, StaticKnown, DstKnown, Known
<1>3. "WAIT" \in State /\ "PING" \in State
  BY DEF State
<1> QED  BY <1>1, <1>2, <1>3 DEF WaitTick, RetryTick

\* A loop that returns; what is left of its reader.
Stopped(old, ear, stale) ==
  [old EXCEPT !.ctrl = @ - 1, !.loops = @ - 1, !.wait = FALSE, !.retry = FALSE,
              !.ping = FALSE, !.alarm = FALSE, !.ear = ear, !.stale = stale]

\* A returned loop is one less, and has taken one token of ctrlChan.
LEMMA StoppedIs ==
  ASSUME NEW old \in HandlerType, old.loops > 0, old.ctrl > 0,
         NEW ear \in Nat, NEW stale \in Nat
  PROVE  LET new == Stopped(old, ear, stale)
         IN  /\ Fielded(new) /\ FieldsOK(new)
             /\ new.dst = old.dst /\ new.loops = old.loops - 1 /\ new.st = old.st
             /\ new.addr = old.addr /\ new.connect = old.connect /\ new.due = old.due
             /\ new.ctrl = old.ctrl - 1
<1> DEFINE new == Stopped(old, ear, stale)
<1>1. Fielded(old) /\ FieldsOK(old)
  BY HandlerIs
<1>2. old.loops - 1 \in Nat /\ old.ctrl - 1 \in Nat
  BY <1>1 DEF FieldsOK
<1>3. Fielded(new)
  BY <1>1 DEF Stopped, Fielded
<1>4. FieldsOK(new)
  BY <1>1, <1>2 DEF Stopped, Fielded, FieldsOK, Fields
<1> QED  BY <1>1, <1>3, <1>4 DEF Stopped, Fielded, Fields

\* What HandlerStop does, in one of its three cases.
LEMMA HandlerStopIs ==
  ASSUME TypeInv, NEW n \in Node, NEW h \in Handler, HandlerStop(n, h)
  PROVE  \E ear, stale \in Nat :
           /\ hd[n][h].loops > 0 /\ hd[n][h].ctrl > 0
           /\ hd' = HdWith(n, h, Stopped(hd[n][h], ear, stale))
           /\ \/ UNCHANGED taken
              \/ \E x \in taken[n] :
                   taken' = Put(Drop(taken, n, x), n, [x EXCEPT !.of = "stale"])
           /\ UNCHANGED <<status, table, pool, made, connectQ, sendQ, inbox, posting,
                          stateQ, outQ, net, asked, expired, app>>
<1> DEFINE old == hd[n][h]
           Effect(ear, stale) == hd' = HdWith(n, h, Stopped(old, ear, stale))
           Same == UNCHANGED <<status, table, pool, made, connectQ, sendQ, inbox, posting,
                               stateQ, outQ, net, asked, expired, app>>
<1>1. old.ear \in Nat /\ old.stale \in Nat
  BY OldHandler DEF FieldsOK
<1>2. /\ old.loops > 0 /\ old.ctrl > 0
      /\ \/ /\ old.ear > 0 /\ Effect(old.ear - 1, old.stale + 1) /\ UNCHANGED taken
         \/ \E x \in taken[n] :
              /\ Effect(old.ear, old.stale)
              /\ taken' = Put(Drop(taken, n, x), n, [x EXCEPT !.of = "stale"])
         \/ Effect(old.ear, old.stale) /\ UNCHANGED taken
      /\ Same
  BY DEF HandlerStop, HdWith, Stopped
<1> HIDE DEF Effect, Same
<1>3. /\ old.loops > 0 /\ old.ctrl > 0 /\ Same
      /\ \E ear, stale \in Nat :
           /\ Effect(ear, stale)
           /\ \/ UNCHANGED taken
              \/ \E x \in taken[n] :
                   taken' = Put(Drop(taken, n, x), n, [x EXCEPT !.of = "stale"])
  <2>1. CASE old.ear > 0 /\ Effect(old.ear - 1, old.stale + 1) /\ UNCHANGED taken
    <3>1. old.ear - 1 \in Nat /\ old.stale + 1 \in Nat
      BY <1>1, <2>1
    <3> HIDE DEF old
    <3> QED  BY <1>2, <2>1, <3>1
  <2>2. CASE \E x \in taken[n] :
              /\ Effect(old.ear, old.stale)
              /\ taken' = Put(Drop(taken, n, x), n, [x EXCEPT !.of = "stale"])
    <3> HIDE DEF old
    <3> QED  BY <1>1, <1>2, <2>2
  <2>3. CASE Effect(old.ear, old.stale) /\ UNCHANGED taken
    <3> HIDE DEF old
    <3> QED  BY <1>1, <1>2, <2>3
  <2> QED  BY <1>2, <2>1, <2>2, <2>3
<1> QED  BY <1>3 DEF Effect, Same

Held == [h : Handler, of : {"loop", "stale"}, seen : State, d : Packet]

\* case <-nph.ctrlChan
LEMMA TypeHandlerStop ==
  ASSUME TypeInv, NEW n \in Node, NEW h \in Handler, HandlerStop(n, h)
  PROVE  TypeInv'
<1>1. PICK ear \in Nat, stale \in Nat :
           /\ hd[n][h].loops > 0 /\ hd[n][h].ctrl > 0
           /\ hd' = HdWith(n, h, Stopped(hd[n][h], ear, stale))
           /\ \/ UNCHANGED taken
              \/ \E x \in taken[n] :
                   taken' = Put(Drop(taken, n, x), n, [x EXCEPT !.of = "stale"])
           /\ UNCHANGED <<status, table, pool, made, connectQ, sendQ, inbox, posting,
                          stateQ, outQ, net, asked, expired, app>>
  BY HandlerStopIs
<1> DEFINE new == Stopped(hd[n][h], ear, stale)
<1>2. hd[n][h] \in HandlerType /\ hd[n][h].dst \in NodeID
  BY <1>1, OldHandler
<1>3. Fielded(new) /\ FieldsOK(new) /\ new.dst = hd[n][h].dst
  BY <1>1, <1>2, StoppedIs
<1> HIDE DEF new
<1>4. new \in HandlerType
  BY <1>3, HandlerIs
<1>5. taken \in [Node -> SUBSET Held]
  BY DEF TypeInv, TypeOK, Held
<1>6. /\ taken' \in [Node -> SUBSET Held]
      /\ \A m \in Node : \A y \in taken'[m] : \E x \in taken[m] : y.h = x.h /\ y.d = x.d
  <2>1. CASE UNCHANGED taken
    BY <2>1, <1>5
  <2>2. ASSUME NEW x \in taken[n], taken' = Put(Drop(taken, n, x), n, [x EXCEPT !.of = "stale"])
        PROVE  /\ taken' \in [Node -> SUBSET Held]
               /\ \A m \in Node : \A y \in taken'[m] :
                    \E z \in taken[m] : y.h = z.h /\ y.d = z.d
    <3> DEFINE x2 == [x EXCEPT !.of = "stale"]
    <3>1. x \in Held
      BY <1>5
    <3>2. x2 \in Held /\ x2.h = x.h /\ x2.d = x.d
      BY <3>1 DEF Held
    <3> HIDE DEF x2, Held
    <3>3. \A m \in Node : taken'[m] = IF m = n THEN (taken[m] \ {x}) \cup {x2} ELSE taken[m]
      BY <2>2, <1>5 DEF Put, Drop, x2
    <3>4. taken' \in [Node -> SUBSET Held]
      BY <2>2, <1>5, <3>2 DEF Put, Drop, x2
    <3> QED  BY <3>2, <3>3, <3>4
  <2> QED  BY <1>1, <2>1, <2>2
<1>7. \A m \in Node : \A y \in taken'[m] : y.h \in Handler /\ Known(m, y.h)
  BY <1>5, <1>6 DEF TypeInv, TypeOK, DstKnown, Held
<1>8. hd' \in [Node -> [Handler -> HandlerType]] /\ DstKnown'
  <2>1. hd' = HdWith(n, h, new) /\ new.dst \in NodeID
    BY <1>1, <1>2, <1>3 DEF new
  <2>2. \A m \in Node : \A p \in posting'[m] : p \in posting[m]
    BY <1>1
  <2> QED  BY <1>3, <1>4, <1>7, <2>1, <2>2, HandlerStep
<1>9. NetTyped'
  BY <1>1, <1>6 DEF TypeInv, NetTyped
<1> QED  BY <1>1, <1>6, <1>8, <1>9 DEF TypeInv, TypeOK, StaticKnown, Held

\* The goroutine that tells of a ping or an expiry.
LEMMA TypePost ==
  ASSUME TypeInv, NEW n \in Node, Post(n)
  PROVE  TypeInv'
<1> DEFINE Note(p) == [h |-> p.h, peer |-> hd[n][p.h].dst, state |-> hd[n][p.h].st, why |-> p.why]
<1>1. PICK p \in posting[n] :
       /\ posting' = Drop(posting, n, p)
       /\ stateQ' = Put(stateQ, n, Note(p))
       /\ UNCHANGED <<status, table, pool, made, hd, connectQ, sendQ, inbox, outQ,
                      taken, net, asked, expired, app>>
  BY DEF Post
<1>2. Note(p) \in Notice
  <2>1. p.h \in Handler /\ p.why \in {"pinged", "expired"} /\ hd[n][p.h].dst \in NodeID
    BY DEF TypeInv, TypeOK, DstKnown, Known
  <2>2. hd[n][p.h].st \in State
    BY <2>1, OldHandler DEF FieldsOK
  <2> QED  BY <2>1, <2>2 DEF Notice
<1> HIDE DEF Note
<1>3. stateQ' \in [Node -> SUBSET Notice]
  BY <1>1, <1>2, PutIs DEF TypeInv, TypeOK
<1> DEFINE Told2 == [h : Handler, why : {"pinged", "expired"}]
<1>4. posting' \in [Node -> SUBSET Told2] /\ \A m \in Node : posting'[m] \subseteq posting[m]
  BY <1>1 DEF Drop, TypeInv, TypeOK
<1>5. DstKnown'
  BY <1>1, <1>4 DEF TypeInv, DstKnown, Known
<1> QED  BY <1>1, <1>3, <1>4, <1>5 DEF TypeInv, TypeOK, NetTyped, StaticKnown

\* A reader that takes a datagram counts as one that waits no longer.
LEMMA TypeReaderTakes ==
  ASSUME TypeInv, NEW n \in Node, NEW h \in Handler, NEW type \in {"PING", "NET"},
         ReaderTakes(n, h, type)
  PROVE  TypeInv'
<1> DEFINE old == hd[n][h]
           Ear == [old EXCEPT !.ear = @ - 1]
           Stale == [old EXCEPT !.stale = @ - 1]
           Item(of, d) == [h |-> h, of |-> of, seen |-> old.st, d |-> d]
           Waits(of) == IF of = "loop" THEN old.ear > 0 ELSE old.stale > 0
           Left(of) == IF of = "loop" THEN Ear ELSE Stale
<1>1. PICK d \in net, of \in {"loop", "stale"} :
       /\ d.to = <<n, h>> /\ Waits(of) /\ net' = net \ {d}
       /\ \/ UNCHANGED <<hd, taken>>
          \/ /\ hd' = HdWith(n, h, Left(of))
             /\ taken' = taken \/ taken' = Put(taken, n, Item(of, d))
       /\ UNCHANGED <<status, table, pool, made, connectQ, sendQ, inbox, posting,
                      stateQ, outQ, asked, expired, app>>
  BY DEF ReaderTakes, HdWith, TypeInv, TypeOK
<1>2. /\ Fielded(old) /\ FieldsOK(old)
      /\ old.loops > 0 \/ old.ear > 0 \/ old.stale > 0 => old.dst \in NodeID
  BY OldHandler
<1>3. d \in Packet /\ Carries(d) /\ net' \subseteq Packet /\ \A e \in net' : Carries(e)
  BY <1>1 DEF TypeInv, TypeOK, NetTyped
<1>4. taken \in [Node -> SUBSET Held]
  BY DEF TypeInv, TypeOK, Held
<1>5. CASE UNCHANGED <<hd, taken>>
  BY <1>1, <1>3, <1>5 DEF TypeInv, TypeOK, NetTyped, StaticKnown, DstKnown, Known
<1>6. CASE /\ hd' = HdWith(n, h, Left(of))
           /\ taken' = taken \/ taken' = Put(taken, n, Item(of, d))
  <2>1. old.dst \in NodeID
    BY <1>1, <1>2
  <2>2. Item(of, d) \in Held
    BY <1>2, <1>3 DEF Held, FieldsOK
  <2>3. Item(of, d).h = h /\ Item(of, d).d = d
    OBVIOUS
  <2> HIDE DEF Item, Held
  <2>4. /\ taken' \in [Node -> SUBSET Held]
        /\ \A m \in Node : \A y \in taken'[m] :
             y \in taken[m] \/ (m = n /\ y = Item(of, d))
    BY <1>4, <1>6, <2>2 DEF Put
  <2>5. \A m \in Node : \A y \in taken'[m] : y.h \in Handler /\ Known(m, y.h)
    BY <1>4, <2>1, <2>3, <2>4 DEF TypeInv, TypeOK, DstKnown, Known
  <2>6. NetTyped'
    BY <1>1, <1>3, <2>3, <2>4 DEF TypeInv, NetTyped
  <2>7. /\ Fielded(Left(of)) /\ FieldsOK(Left(of)) /\ Left(of).dst = old.dst
    <3> HIDE DEF old
    <3>1. CASE of = "loop"
      <4>1. old.ear - 1 \in Nat
        BY <1>1, <1>2, <3>1 DEF FieldsOK
      <4>2. Fielded(Ear) /\ FieldsOK(Ear) /\ Ear.dst = old.dst
        BY <1>2, <4>1 DEF Fielded, Fields, FieldsOK
      <4> QED  BY <3>1, <4>2
    <3>2. CASE of # "loop"
      <4>1. old.stale - 1 \in Nat
        BY <1>1, <1>2, <3>2 DEF FieldsOK
      <4>2. Fielded(Stale) /\ FieldsOK(Stale) /\ Stale.dst = old.dst
        BY <1>2, <4>1 DEF Fielded, Fields, FieldsOK
      <4> QED  BY <3>2, <4>2
    <3> QED  BY <3>1, <3>2
  <2> DEFINE new == Left(of)
  <2>8. hd' = HdWith(n, h, new) /\ new.dst = hd[n][h].dst /\ new.dst \in NodeID
    BY <1>6, <2>1, <2>7
  <2>9. new \in HandlerType
    BY <2>7, HandlerIs
  <2> HIDE DEF new
  <2>10. hd' \in [Node -> [Handler -> HandlerType]] /\ DstKnown'
    <3>1. \A m \in Node : \A p \in posting'[m] : p \in posting[m]
      BY <1>1
    <3> QED  BY <2>5, <2>8, <2>9, <3>1, HandlerStep
  <2> QED  BY <1>1, <1>3, <2>4, <2>6, <2>10 DEF TypeInv, TypeOK, StaticKnown, Held
<1> HIDE DEF Left, Item
<1> QED  BY <1>1, <1>5, <1>6

\* What a reader that has heard a datagram makes of its handler.
Heard(old, pinged, again) ==
  [old EXCEPT !.alarm = TRUE, !.st = IF pinged THEN "CONN" ELSE @,
              !.retry = IF pinged THEN FALSE ELSE @, !.ear = IF again THEN @ + 1 ELSE @]

\* Its peer, its address and its loops stay.
LEMMA HeardIs ==
  ASSUME NEW old \in HandlerType, NEW pinged \in BOOLEAN, NEW again \in BOOLEAN
  PROVE  LET new == Heard(old, pinged, again)
         IN  /\ Fielded(new) /\ FieldsOK(new)
             /\ new.dst = old.dst /\ new.addr = old.addr /\ new.loops = old.loops
             /\ new.connect = old.connect /\ new.due = old.due /\ new.ctrl = old.ctrl
             /\ new.closed = old.closed /\ new.ping = old.ping
             /\ new.st = IF pinged THEN "CONN" ELSE old.st
<1> DEFINE new == Heard(old, pinged, again)
<1>1. Fielded(old) /\ FieldsOK(old)
  BY HandlerIs
<1>2. Fielded(new)
  BY <1>1 DEF Heard, Fielded
<1>3. FieldsOK(new)
  <2>1. (IF pinged THEN "CONN" ELSE old.st) \in State
    BY <1>1 DEF FieldsOK, State
  <2>2. (IF pinged THEN FALSE ELSE old.retry) \in BOOLEAN
    BY <1>1 DEF FieldsOK
  <2>3. (IF again THEN old.ear + 1 ELSE old.ear) \in Nat
    BY <1>1 DEF FieldsOK
  <2> QED  BY <1>1, <2>1, <2>2, <2>3 DEF Heard, Fielded, FieldsOK, Fields
<1> QED  BY <1>1, <1>2, <1>3 DEF Heard, Fielded, Fields

\* What ReaderHandles does, with the datagram it holds named.
LEMMA ReaderHandlesIs ==
  ASSUME TypeInv, NEW n \in Node, ReaderHandles(n)
  PROVE  \E x \in taken[n], pinged, again \in BOOLEAN :
           /\ x \in Held
           /\ pinged = (x.d.type = "PING" /\ x.seen = "PING")
           /\ taken' = Drop(taken, n, x)
           /\ hd' = HdWith(n, x.h, Heard(hd[n][x.h], pinged, again))
           /\ posting' = IF pinged THEN Put(posting, n, [h |-> x.h, why |-> "pinged"])
                                   ELSE posting
           /\ \/ UNCHANGED inbox
              \/ /\ x.d.type = "NET"
                 /\ inbox' = Put(inbox, n, [via |-> x.d.src, msg |-> x.d.msg])
           /\ UNCHANGED <<status, table, pool, made, connectQ, sendQ, stateQ, outQ, net,
                          asked, expired, app>>
<1> DEFINE P(x) == x.d.type = "PING" /\ x.seen = "PING"
           A(x) == x.of = "loop"
<1>1. PICK x \in taken[n] :
        /\ taken' = Drop(taken, n, x)
        /\ hd' = HdWith(n, x.h, Heard(hd[n][x.h], P(x), A(x)))
        /\ posting' = IF P(x) THEN Put(posting, n, [h |-> x.h, why |-> "pinged"])
                              ELSE posting
        /\ inbox' = IF x.d.type = "NET" /\ x.of = "loop"
                    THEN Put(inbox, n, [via |-> x.d.src, msg |-> x.d.msg]) ELSE inbox
        /\ UNCHANGED <<status, table, pool, made, connectQ, sendQ, stateQ, outQ, net,
                       asked, expired, app>>
  BY DEF ReaderHandles, HdWith, Heard
<1>2. x \in Held
  BY DEF TypeInv, TypeOK, Held
<1>3. P(x) \in BOOLEAN /\ A(x) \in BOOLEAN
  OBVIOUS
<1>4. \/ UNCHANGED inbox
      \/ x.d.type = "NET" /\ inbox' = Put(inbox, n, [via |-> x.d.src, msg |-> x.d.msg])
  BY <1>1
<1>5. P(x) = (x.d.type = "PING" /\ x.seen = "PING")
  OBVIOUS
<1> HIDE DEF P, A
<1> QED  BY <1>1, <1>2, <1>3, <1>4, <1>5

\* A reader goes on with the datagram it took.
LEMMA TypeReaderHandles ==
  ASSUME TypeInv, NEW n \in Node, ReaderHandles(n)
  PROVE  TypeInv'
<1> DEFINE Told2 == [h : Handler, why : {"pinged", "expired"}]
           In == [via : Node, msg : Message]
<1>1. PICK x \in taken[n], pinged \in BOOLEAN, again \in BOOLEAN :
        /\ x \in Held
        /\ taken' = Drop(taken, n, x)
        /\ hd' = HdWith(n, x.h, Heard(hd[n][x.h], pinged, again))
        /\ posting' = IF pinged THEN Put(posting, n, [h |-> x.h, why |-> "pinged"])
                                ELSE posting
        /\ \/ UNCHANGED inbox
           \/ /\ x.d.type = "NET"
              /\ inbox' = Put(inbox, n, [via |-> x.d.src, msg |-> x.d.msg])
        /\ UNCHANGED <<status, table, pool, made, connectQ, sendQ, stateQ, outQ, net,
                       asked, expired, app>>
  BY ReaderHandlesIs
<1> DEFINE h == x.h
           p == [h |-> h, why |-> "pinged"]
           r == [via |-> x.d.src, msg |-> x.d.msg]
           new == Heard(hd[n][h], pinged, again)
<1>2. h \in Handler /\ x.d \in Packet /\ Carries(x.d) /\ Known(n, h)
  BY <1>1 DEF Held, TypeInv, NetTyped, DstKnown
<1>3. hd[n][h] \in HandlerType /\ hd[n][h].dst \in NodeID
  BY <1>2, OldHandler DEF Known
<1>4. new \in HandlerType /\ new.dst = hd[n][h].dst /\ new.dst \in NodeID
  <2>1. Fielded(new) /\ FieldsOK(new) /\ new.dst = hd[n][h].dst
    BY <1>3, HeardIs
  <2> HIDE DEF new
  <2> QED  BY <1>3, <2>1, HandlerIs
<1>5. hd' = HdWith(n, h, new)
  BY <1>1
<1> HIDE DEF new
<1>6. /\ posting' \in [Node -> SUBSET Told2]
      /\ \A m \in Node : \A q \in posting'[m] : q \in posting[m] \/ (m = n /\ q = p)
  <2>1. posting \in [Node -> SUBSET Told2] /\ p \in Told2
    BY <1>2 DEF TypeInv, TypeOK
  <2>2. posting' = posting \/ posting' = Put(posting, n, p)
    BY <1>1
  <2> HIDE DEF p, Told2
  <2> QED  BY <2>1, <2>2 DEF Put
<1>7. /\ taken' \in [Node -> SUBSET Held]
      /\ \A m \in Node : taken'[m] \subseteq taken[m]
  BY <1>1 DEF Drop, TypeInv, TypeOK, Held
<1>8. inbox' \in [Node -> SUBSET In]
  <2>1. CASE UNCHANGED inbox
    BY <2>1 DEF TypeInv, TypeOK
  <2>2. CASE x.d.type = "NET" /\ inbox' = Put(inbox, n, r)
    <3>1. r \in In
      BY <1>2, <2>2 DEF Carries, Packet
    <3> HIDE DEF r
    <3> QED  BY <2>2, <3>1 DEF Put, TypeInv, TypeOK
  <2> QED  BY <1>1, <2>1, <2>2
<1>9. \A m \in Node : \A y \in taken'[m] : y.h \in Handler /\ Known(m, y.h)
  BY <1>7 DEF TypeInv, TypeOK, DstKnown
<1>10. \A m \in Node : \A q \in posting'[m] :
         q \in posting[m] \/ (q.h \in Handler /\ Known(m, q.h))
  BY <1>2, <1>6
<1>11. hd' \in [Node -> [Handler -> HandlerType]] /\ DstKnown'
  <2> HIDE DEF h
  <2> QED  BY <1>2, <1>4, <1>5, <1>9, <1>10, HandlerStep
<1>12. NetTyped'
  BY <1>1, <1>7 DEF TypeInv, NetTyped
<1> QED  BY <1>1, <1>6, <1>7, <1>8, <1>11, <1>12 DEF TypeInv, TypeOK, StaticKnown, Held

\* The static handler receives; the network loses.
LEMMA TypeNet ==
  ASSUME TypeInv, (\E n \in Node : StaticRecv(n)) \/ Lose
  PROVE  TypeInv'
<1>1. ASSUME NEW n \in Node, StaticRecv(n)
      PROVE  TypeInv'
  <2> DEFINE In == [via : Node, msg : Message]
             r(d) == [via |-> d.src, msg |-> d.msg]
  <2>1. PICK d \in net :
          /\ net' = net \ {d}
          /\ inbox' = IF d.type = "NET" THEN Put(inbox, n, r(d)) ELSE inbox
          /\ UNCHANGED <<status, table, pool, made, hd, connectQ, sendQ, posting, stateQ,
                         outQ, taken, asked, expired, app>>
    BY <1>1 DEF StaticRecv
  <2>2. inbox' \in [Node -> SUBSET In]
    <3>1. CASE d.type = "NET"
      <4>1. r(d) \in In
        BY <3>1 DEF TypeInv, TypeOK, NetTyped, Carries, Packet
      <4> HIDE DEF r
      <4> QED  BY <2>1, <3>1, <4>1 DEF Put, TypeInv, TypeOK
    <3>2. CASE d.type # "NET"
      BY <2>1, <3>2 DEF TypeInv, TypeOK
    <3> QED  BY <3>1, <3>2
  <2> QED  BY <2>1, <2>2 DEF TypeInv, TypeOK, NetTyped, StaticKnown, DstKnown, Known
<1>2. CASE Lose
  BY <1>2 DEF Lose, TypeInv, TypeOK, NetTyped, StaticKnown, DstKnown, Known
<1> QED  BY <1>1, <1>2

\* NewNaiveP2PServer and Init.
LEMMA TypeInit ==
  ASSUME Init
  PROVE  TypeInv
<1>1. NewHandler \in HandlerType
  BY DEF NewHandler, HandlerType, State
<1>2. table \in [Node -> [Buckets -> Seq(Handler)]]
  <2>1. NewKadDHT \in [Buckets -> Seq(Handler)]
    BY DEF NewKadDHT
  <2> QED  BY <2>1 DEF Init
<1>3. pool \in [Node -> Seq(Handler)]
  <2>1. \A i \in 1 .. PooledCnt : PooledCnt + 1 - i \in Handler
    BY P2PAssumption DEF Handler
  <2>2. [i \in 1 .. PooledCnt |-> PooledCnt + 1 - i] \in Seq(Handler)
    BY <2>1, P2PAssumption, IsASeq
  <2> QED  BY <2>2 DEF Init
<1>4. made \in [Node -> 0 .. HandlerCap]
  BY P2PAssumption DEF Init
<1>5. connectQ \in [Node -> SUBSET NodeID] /\ asked \in [Node -> SUBSET NodeID]
  BY P2PAssumption DEF Init
<1>6. expired \in [Node -> Nat] /\ \A n \in Node : expired[n] <= ExpiryCap[n]
  BY P2PAssumption DEF Init
<1>7. hd \in [Node -> [Handler -> HandlerType]] /\ \A n \in Node, h \in Handler : hd[n][h] = NewHandler
  BY <1>1 DEF Init
<1>8. app \in [plan : Plans, sent : SUBSET (Node \X NodeID), got : [Node -> SUBSET Node]]
  BY DEF Init
<1>9. DstKnown
  BY <1>7 DEF Init, DstKnown, NewHandler
<1>10. NetTyped /\ StaticKnown
  BY DEF Init, NetTyped, StaticKnown
<1>11. /\ status \in [Node -> {"run", "stopping", "stopped", "panic"}] /\ net = {}
       /\ \A q \in {sendQ, inbox, posting, stateQ, outQ, taken} : q = [n \in Node |-> {}]
  BY DEF Init
<1>12. TypeOK
  BY <1>2, <1>3, <1>4, <1>5, <1>6, <1>7, <1>8, <1>11 DEF TypeOK
<1> QED  BY <1>9, <1>10, <1>12 DEF TypeInv

\* Every step of every node.
LEMMA TypeStep ==
  ASSUME TypeInv, [Next]_vars
  PROVE  TypeInv'
<1>1. CASE Lose
  BY <1>1, TypeNet
<1>2. ASSUME NEW n \in Node, Server(n) \/ Goroutines(n) \/ Stop(n)
      PROVE  TypeInv'
  <2>1. CASE Server(n)
    BY <2>1, TypeServerConnect, TypeServerSend, TypeServerRecv, TypeServerState DEF Server
  <2>2. CASE Goroutines(n)
    BY <2>2, TypeHandlerSend, TypePost, TypeReaderHandles, TypeNet DEF Goroutines
  <2>3. CASE Stop(n)
    <3>1. n \in NodeID
      BY P2PAssumption
    <3> QED  BY <2>3, <3>1, TypeCalls
  <2> QED  BY <1>2, <2>1, <2>2, <2>3
<1>3. ASSUME NEW n \in Node, NEW d \in NodeID, ConnectUDP(n, d) \/ Send(n, d)
      PROVE  TypeInv'
  BY <1>3, TypeCalls
<1>4. ASSUME NEW n \in Node, NEW h \in Handler,
             \/ Handling(n, h) \/ Expire(n, h)
             \/ WaitTick(n, h) \/ RetryTick(n, h) \/ PingTick(n, h)
             \/ \E type \in {"PING", "NET"} : ReaderTakes(n, h, type)
      PROVE  TypeInv'
  BY <1>4, TypeHandling, TypeHandlerStop, TypeTicks, TypeReaderTakes DEF Handling
<1>5. CASE UNCHANGED vars
  BY <1>5 DEF vars, TypeInv, TypeOK, NetTyped, StaticKnown, DstKnown, Known
<1> QED  BY <1>1, <1>2, <1>3, <1>4, <1>5 DEF Next

\* The fields of every handler object, channel, table, pool and datagram are of
\* their types, whatever the interleaving (net/p2p.go).
THEOREM TypeInvariance == Spec => []TypeInv
<1>1. Init => TypeInv
  BY TypeInit
<1>2. TypeInv /\ [Next]_vars => TypeInv'
  BY TypeStep
<1> QED  BY <1>1, <1>2, PTL DEF Spec

\* So the type invariant the runs check holds of any number of nodes.
THEOREM TypeCorrect == Spec => []TypeOK
<1>1. TypeInv => TypeOK
  BY DEF TypeInv
<1> QED  BY <1>1, TypeInvariance, PTL
-----------------------------------------------------------------------------
(* The way of a message: what is new in a queue, at a reader or on the wire    *)
(* was somewhere else, and is not there any more; unless it was just made.     *)

Less(m) == [m EXCEPT !.ttl = @ - 1]

NoneGone ==
  /\ \A n \in Node : /\ sendQ[n] \subseteq sendQ'[n]
                    /\ \A r \in inbox[n] \ inbox'[n] : r.msg.dst = n
  /\ UNCHANGED <<outQ, taken, net>>

SendFlow ==
  \A n \in Node : \A m \in sendQ'[n] \ sendQ[n] :
    \/ /\ m.src = n /\ m.ttl = MAX_TTL /\ NoneGone
       /\ m.type = "DATA" => <<n, m.dst>> \in app'.sent
    \/ \E r \in inbox[n] \ inbox'[n] : r.msg.dst # n /\ r.msg.ttl > 0 /\ m = Less(r.msg)
OutFlow ==
  \A n \in Node : \A x \in outQ'[n] \ outQ[n] : x.msg \in sendQ[n] \ sendQ'[n]
InFlow ==
  \A n \in Node : \A r \in inbox'[n] \ inbox[n] :
    \/ \E d \in net \ net' : d.type = "NET" /\ d.msg = r.msg
    \/ \E x \in taken[n] \ taken'[n] : x.d.type = "NET" /\ x.d.msg = r.msg
TakenFlow ==
  \A n \in Node : \A x \in taken'[n] \ taken[n] :
    \/ x.d \in net \ net'
    \/ \E y \in taken[n] \ taken'[n] : y.d = x.d /\ y.of = "loop" /\ x.of = "stale"
NetFlow ==
  \A d \in net' \ net :
    d.type = "NET" => \E n \in Node : \E x \in outQ[n] \ outQ'[n] : x.msg = d.msg
AppFlow ==
  /\ app.sent \subseteq app'.sent
  /\ \A n \in Node : \A a \in app'.got[n] :
       \/ a \in app.got[n]
       \/ /\ n \in Listeners
          /\ \E r \in inbox[n] : r.msg.type = "DATA" /\ r.msg.src = a /\ r.msg.dst = n
Flow == SendFlow /\ OutFlow /\ InFlow /\ TakenFlow /\ NetFlow /\ AppFlow

\* What a step leaves alone comes from where it was.
LEMMA FlowStays ==
  /\ UNCHANGED sendQ => SendFlow
  /\ UNCHANGED outQ => OutFlow
  /\ UNCHANGED inbox => InFlow
  /\ UNCHANGED taken => TakenFlow
  /\ UNCHANGED net => NetFlow
  /\ UNCHANGED app => AppFlow
BY DEF SendFlow, OutFlow, InFlow, TakenFlow, NetFlow, AppFlow

\* A CONN message names the node that sends it as its source and starts with
\* all its TTL; nothing on its way is used up for it.
LEMMA FlowConn ==
  ASSUME TypeOK, NEW n \in Node, NEW d, NEW h, sendQ' = Put(sendQ, n, ConnMsg(n, d, h)),
         UNCHANGED <<outQ, taken, net>>,
         \/ UNCHANGED inbox
         \/ \E r \in inbox[n] : r.msg.dst = n /\ inbox' = Drop(inbox, n, r)
  PROVE  SendFlow
<1> DEFINE c == ConnMsg(n, d, h)
<1>1. c.src = n /\ c.type # "DATA" /\ c.ttl = MAX_TTL
  BY DEF ConnMsg, NetMsg
<1> HIDE DEF c
<1>2. \A m \in Node : sendQ'[m] = IF m = n THEN sendQ[m] \cup {c} ELSE sendQ[m]
  <2>1. sendQ = [m \in Node |-> sendQ[m]]
    BY DEF TypeOK
  <2>2. sendQ' = Put(sendQ, n, c)
    BY DEF c
  <2> QED  BY <2>1, <2>2 DEF Put
<1>3. ASSUME NEW m \in Node, NEW x \in sendQ'[m]
      PROVE  \/ x \in sendQ[m]
             \/ x.src = m /\ x.type # "DATA" /\ x.ttl = MAX_TTL
  <2>1. x \in sendQ[m] \/ (m = n /\ x = c)
    BY <1>2
  <2> QED  BY <1>1, <2>1
<1>4. \A m \in Node : \A r \in inbox[m] \ inbox'[m] : r.msg.dst = m
  <2>1. CASE UNCHANGED inbox
    BY <2>1
  <2>2. ASSUME NEW r \in inbox[n], r.msg.dst = n, inbox' = Drop(inbox, n, r)
        PROVE  \A m \in Node : \A q \in inbox[m] \ inbox'[m] : q.msg.dst = m
    <3>1. \A m \in Node : inbox'[m] = IF m = n THEN inbox[m] \ {r} ELSE inbox[m]
      BY <2>2 DEF TypeOK, Drop
    <3> QED  BY <2>2, <3>1
  <2> QED  BY <2>1, <2>2
<1>5. NoneGone
  BY <1>2, <1>4 DEF NoneGone
<1> QED  BY <1>3, <1>5 DEF SendFlow

\* A channel that something is taken from gets nothing new.
LEMMA FlowDrop ==
  ASSUME TypeOK, NEW n \in Node, NEW x
  PROVE  /\ sendQ' = Drop(sendQ, n, x) => SendFlow
         /\ outQ' = Drop(outQ, n, x) => OutFlow
         /\ inbox' = Drop(inbox, n, x) => InFlow
         /\ taken' = Drop(taken, n, x) => TakenFlow
<1>2. /\ sendQ = [m \in Node |-> sendQ[m]] /\ outQ = [m \in Node |-> outQ[m]]
      /\ inbox = [m \in Node |-> inbox[m]] /\ taken = [m \in Node |-> taken[m]]
  BY DEF TypeOK
<1>3. ASSUME sendQ' = Drop(sendQ, n, x) PROVE SendFlow
  BY <1>2, <1>3 DEF SendFlow, Drop
<1>4. ASSUME outQ' = Drop(outQ, n, x) PROVE OutFlow
  BY <1>2, <1>4 DEF OutFlow, Drop
<1>5. ASSUME inbox' = Drop(inbox, n, x) PROVE InFlow
  BY <1>2, <1>5 DEF InFlow, Drop
<1>6. ASSUME taken' = Drop(taken, n, x) PROVE TakenFlow
  BY <1>2, <1>6 DEF TakenFlow, Drop
<1> QED  BY <1>3, <1>4, <1>5, <1>6

\* The application sends, and its message is noted before it goes anywhere.
LEMMA FlowCalls ==
  ASSUME TypeOK, NEW n \in Node, NEW d \in NodeID, ConnectUDP(n, d) \/ Send(n, d) \/ Stop(n)
  PROVE  Flow
<1>1. CASE ConnectUDP(n, d) \/ Stop(n)
  BY <1>1, FlowStays DEF ConnectUDP, Stop, Flow
<1>2. CASE Send(n, d)
  <2> DEFINE c == NetMsg(n, d, "DATA", None, MAX_TTL)
  <2>1. /\ app' = [app EXCEPT !.sent = @ \cup {<<n, d>>}]
        /\ sendQ' = Put(sendQ, n, c)
        /\ UNCHANGED <<outQ, inbox, taken, net>>
    BY <1>2 DEF Send
  <2>2. app \in [plan : Plans, sent : SUBSET (Node \X NodeID), got : [Node -> SUBSET Node]]
    BY DEF TypeOK
  <2>3. app'.sent = app.sent \cup {<<n, d>>} /\ app'.got = app.got
    BY <2>1, <2>2
  <2>4. c.src = n /\ c.dst = d /\ c.ttl = MAX_TTL
    BY DEF NetMsg
  <2> HIDE DEF c
  <2>5. \A m \in Node : sendQ'[m] = IF m = n THEN sendQ[m] \cup {c} ELSE sendQ[m]
    BY <2>1 DEF TypeOK, Put
  <2>6. NoneGone
    BY <2>1, <2>5 DEF NoneGone
  <2>7. SendFlow
    <3>1. \A m \in Node : \A x \in sendQ'[m] \ sendQ[m] : m = n /\ x = c
      BY <2>5
    <3>2. <<n, c.dst>> \in app'.sent
      BY <2>3, <2>4
    <3> QED  BY <2>4, <2>6, <3>1, <3>2 DEF SendFlow
  <2> QED  BY <2>1, <2>3, <2>7, FlowStays DEF Flow, AppFlow
<1> QED  BY <1>1, <1>2

\* The server's loop: what it sends was on sendChan, what it passes on and
\* delivers was on handlerChan.
LEMMA FlowServer ==
  ASSUME TypeInv, NEW n \in Node, Server(n)
  PROVE  Flow
<1> USE DEF TypeInv
<1>1. CASE ServerConnect(n)
  <2>1. /\ UNCHANGED sendQ \/ \E d, h : sendQ' = Put(sendQ, n, ConnMsg(n, d, h))
        /\ UNCHANGED <<inbox, outQ, taken, net, app>>
    BY <1>1 DEF ServerConnect, Open
  <2>2. SendFlow
    BY <2>1, FlowStays, FlowConn
  <2> QED  BY <2>1, <2>2, FlowStays DEF Flow
<1>2. CASE ServerSend(n)
  <2>1. PICK msg \in sendQ[n] : \E H :
          /\ \A x \in H : x.msg = msg
          /\ sendQ' = Drop(sendQ, n, msg)
          /\ outQ' = PutAll(outQ, n, H)
          /\ UNCHANGED <<inbox, taken, net, app>>
    <3> DEFINE To(msg) == Get(table[n], n, Dst(n), msg.dst)
               Hops(msg) == GetK(table[n], n, msg.dst)
               Via(msg) == {Hops(msg)[i] : i \in DOMAIN Hops(msg)}
               Posts(msg) ==
                IF ReadyToSend(hd[n][To(msg)])
                THEN {[h |-> To(msg), msg |-> msg, peer |-> None]}
                ELSE IF msg.dst \in StaticPeers[n]
                THEN {[h |-> 0, msg |-> msg, peer |-> msg.dst]}
                ELSE {[h |-> g, msg |-> msg, peer |-> None] :
                        g \in {f \in Via(msg) : hd[n][f].st = "CONN"}}
    <3>1. PICK msg \in sendQ[n] :
            /\ sendQ' = Drop(sendQ, n, msg)
            /\ outQ' = PutAll(outQ, n, Posts(msg))
            /\ UNCHANGED <<inbox, taken, net, app>>
      BY <1>2 DEF ServerSend
    <3> HIDE DEF To, Via
    <3>2. \A x \in Posts(msg) : x.msg = msg
      OBVIOUS
    <3> HIDE DEF Posts
    <3> QED  BY <3>1, <3>2
  <2>2. SendFlow
    BY <2>1, FlowDrop
  <2>3. PICK H : (\A x \in H : x.msg = msg) /\ outQ' = PutAll(outQ, n, H)
    BY <2>1
  <2>4. /\ \A m \in Node : outQ'[m] = IF m = n THEN outQ[m] \cup H ELSE outQ[m]
        /\ msg \in sendQ[n] \ sendQ'[n]
    <3>1. outQ = [m \in Node |-> outQ[m]] /\ sendQ = [m \in Node |-> sendQ[m]]
      BY DEF TypeOK
    <3>2. \A m \in Node : outQ'[m] = IF m = n THEN outQ[m] \cup H ELSE outQ[m]
      BY <2>3, <3>1 DEF PutAll
    <3>3. sendQ'[n] = sendQ[n] \ {msg}
      BY <2>1, <3>1 DEF Drop
    <3> QED  BY <2>1, <3>2, <3>3
  <2>5. OutFlow
    BY <2>3, <2>4 DEF OutFlow
  <2> QED  BY <2>1, <2>2, <2>5, FlowStays DEF Flow
<1>3. CASE ServerRecv(n)
  <2>1. PICK r \in inbox[n] :
        /\ inbox' = Drop(inbox, n, r)
        /\ \/ /\ \E t : Open(n, r.msg.src, r.msg.sock, 1, t)
              /\ r.msg.dst = n /\ UNCHANGED app
           \/ UNCHANGED <<sendQ, app>>
           \/ r.msg.dst = n /\ r.msg.type = "DATA" /\ Deliver(n, r.msg) /\ UNCHANGED sendQ
           \/ r.msg.dst # n /\ PassOn(n, r.msg) /\ UNCHANGED app
        /\ UNCHANGED <<outQ, taken, net>>
    BY <1>3 DEF ServerRecv
  <2>2. InFlow
    BY <2>1, FlowDrop
  <2>3. CASE /\ \E t : Open(n, r.msg.src, r.msg.sock, 1, t)
             /\ r.msg.dst = n /\ UNCHANGED app
    <3>1. SendFlow
      BY <2>1, <2>3, FlowConn DEF Open
    <3> QED  BY <2>1, <2>2, <2>3, <3>1, FlowStays DEF Flow
  <2>4. CASE UNCHANGED <<sendQ, app>>
    BY <2>1, <2>2, <2>4, FlowStays DEF Flow
  <2>5. CASE r.msg.dst = n /\ r.msg.type = "DATA" /\ Deliver(n, r.msg) /\ UNCHANGED sendQ
    <3>1. app \in [plan : Plans, sent : SUBSET (Node \X NodeID), got : [Node -> SUBSET Node]]
      BY DEF TypeOK
    <3>2. /\ app'.sent = app.sent
          /\ \A m \in Node : \A a \in app'.got[m] :
               a \in app.got[m] \/ (m = n /\ n \in Listeners /\ a = r.msg.src)
      <4>1. CASE n \in Listeners
        <5>1. app' = [app EXCEPT !.got = [app.got EXCEPT ![n] = @ \cup {r.msg.src}]]
          BY <2>5, <4>1 DEF Deliver
        <5> QED  BY <3>1, <4>1, <5>1
      <4>2. CASE n \notin Listeners
        BY <2>5, <4>2 DEF Deliver
      <4> QED  BY <4>1, <4>2
    <3>3. AppFlow
      BY <2>5, <3>2 DEF AppFlow
    <3> QED  BY <2>1, <2>2, <2>5, <3>3, FlowStays DEF Flow
  <2>6. CASE r.msg.dst # n /\ PassOn(n, r.msg) /\ UNCHANGED app
    <3>1. CASE r.msg.ttl > 0
      <4> DEFINE l == Less(r.msg)
      <4>1. sendQ' = Put(sendQ, n, l)
        BY <2>6, <3>1 DEF PassOn, Less
      <4> HIDE DEF l
      <4>2. /\ \A m \in Node : sendQ'[m] = IF m = n THEN sendQ[m] \cup {l} ELSE sendQ[m]
            /\ r \in inbox[n] \ inbox'[n]
        BY <2>1, <4>1 DEF TypeOK, Put, Drop
      <4>3. SendFlow
        BY <2>6, <3>1, <4>2 DEF SendFlow, l
      <4> QED  BY <2>1, <2>2, <2>6, <4>3, FlowStays DEF Flow
    <3>2. CASE ~(r.msg.ttl > 0)
      BY <2>1, <2>2, <2>6, <3>2, FlowStays DEF Flow, PassOn
    <3> QED  BY <3>1, <3>2
  <2> QED  BY <2>1, <2>3, <2>4, <2>5, <2>6
<1>4. CASE ServerState(n)
  <2>1. /\ UNCHANGED sendQ \/ \E d, h : sendQ' = Put(sendQ, n, ConnMsg(n, d, h))
        /\ UNCHANGED <<inbox, outQ, taken, net, app>>
    BY <1>4 DEF ServerState
  <2>2. SendFlow
    BY <2>1, FlowStays, FlowConn
  <2> QED  BY <2>1, <2>2, FlowStays DEF Flow
<1>5. CASE ServerPanics(n)
  BY <1>5, FlowStays DEF ServerPanics, Flow
<1> QED  BY <1>1, <1>2, <1>3, <1>4, <1>5 DEF Server

\* The goroutines: what a loop puts on the wire was given to it, what a reader
\* passes up was on the wire.
LEMMA FlowGoroutines ==
  ASSUME TypeInv, NEW n \in Node, Goroutines(n)
  PROVE  Flow
<1>1. CASE HandlerSend(n)
  <2>1. PICK x \in outQ[n] :
          /\ outQ' = Drop(outQ, n, x)
          /\ net' = net \/ \E to, d : net' = net \cup {Datagram(to, n, d, "NET", x.msg)}
          /\ UNCHANGED <<sendQ, inbox, taken, app>>
    BY <1>1 DEF HandlerSend
  <2>2. NetFlow
    <3>1. \A to, d : Datagram(to, n, d, "NET", x.msg).msg = x.msg
      BY DEF Datagram
    <3>2. x \in outQ[n] \ outQ'[n]
      BY <2>1 DEF Drop, TypeInv, TypeOK
    <3> QED  BY <2>1, <3>1, <3>2 DEF NetFlow
  <2>3. OutFlow
    BY <2>1, FlowDrop DEF TypeInv
  <2> QED  BY <2>1, <2>2, <2>3, FlowStays DEF Flow
<1>2. CASE Post(n)
  BY <1>2, FlowStays DEF Post, Flow
<1>3. CASE ReaderHandles(n)
  <2>1. PICK x \in taken[n] :
          /\ taken' = Drop(taken, n, x)
          /\ \/ UNCHANGED inbox
             \/ /\ x.d.type = "NET"
                /\ inbox' = Put(inbox, n, [via |-> x.d.src, msg |-> x.d.msg])
          /\ UNCHANGED <<sendQ, outQ, net, app>>
    <3>1. PICK x \in taken[n], pinged \in BOOLEAN, again \in BOOLEAN :
           /\ taken' = Drop(taken, n, x)
           /\ \/ UNCHANGED inbox
              \/ /\ x.d.type = "NET"
                 /\ inbox' = Put(inbox, n, [via |-> x.d.src, msg |-> x.d.msg])
           /\ UNCHANGED <<sendQ, outQ, net, app>>
      BY <1>3, ReaderHandlesIs
    <3> QED  BY <3>1
  <2> DEFINE r == [via |-> x.d.src, msg |-> x.d.msg]
  <2>2. InFlow
    <3>1. CASE UNCHANGED inbox
      BY <3>1, FlowStays
    <3>2. CASE x.d.type = "NET" /\ inbox' = Put(inbox, n, r)
      <4>1. r.msg = x.d.msg
        OBVIOUS
      <4> HIDE DEF r
      <4>2. \A m \in Node : inbox'[m] = IF m = n THEN inbox[m] \cup {r} ELSE inbox[m]
        BY <3>2 DEF TypeInv, TypeOK, Put
      <4>3. x \in taken[n] \ taken'[n]
        BY <2>1 DEF TypeInv, TypeOK, Drop
      <4> QED  BY <3>2, <4>1, <4>2, <4>3 DEF InFlow
    <3> QED  BY <2>1, <3>1, <3>2
  <2>3. TakenFlow
    BY <2>1, FlowDrop DEF TypeInv
  <2> QED  BY <2>1, <2>2, <2>3, FlowStays DEF Flow
<1>4. CASE StaticRecv(n)
  <2> DEFINE r(d) == [via |-> d.src, msg |-> d.msg]
  <2>1. PICK d \in net :
          /\ net' = net \ {d}
          /\ inbox' = IF d.type = "NET" THEN Put(inbox, n, r(d)) ELSE inbox
          /\ UNCHANGED <<sendQ, outQ, taken, app>>
    BY <1>4 DEF StaticRecv
  <2>2. InFlow
    <3>1. CASE d.type = "NET"
      <4>1. r(d).msg = d.msg
        OBVIOUS
      <4> HIDE DEF r
      <4>2. \A m \in Node : inbox'[m] = IF m = n THEN inbox[m] \cup {r(d)} ELSE inbox[m]
        BY <2>1, <3>1 DEF TypeInv, TypeOK, Put
      <4> QED  BY <2>1, <3>1, <4>1, <4>2 DEF InFlow
    <3>2. CASE d.type # "NET"
      BY <2>1, <3>2, FlowStays
    <3> QED  BY <3>1, <3>2
  <2>3. NetFlow
    BY <2>1 DEF NetFlow
  <2> QED  BY <2>1, <2>2, <2>3, FlowStays DEF Flow
<1> QED  BY <1>1, <1>2, <1>3, <1>4 DEF Goroutines

\* A handler's select, its timers and its readers.
LEMMA FlowHandler ==
  ASSUME TypeInv, NEW n \in Node, NEW h \in Handler,
             \/ Handling(n, h) \/ Expire(n, h)
             \/ WaitTick(n, h) \/ RetryTick(n, h) \/ PingTick(n, h)
             \/ \E type \in {"PING", "NET"} : ReaderTakes(n, h, type)
  PROVE  Flow
<1>1. CASE HandlerConnect(n, h) \/ HandlerDisconn(n, h) \/ Expire(n, h)
  BY <1>1, FlowStays DEF HandlerConnect, HandlerDisconn, Expire, Flow
<1>2. CASE HandlerStop(n, h)
  <2>1. /\ \/ UNCHANGED taken
           \/ \E x \in taken[n] :
                /\ x.of = "loop"
                /\ taken' = Put(Drop(taken, n, x), n, [x EXCEPT !.of = "stale"])
        /\ UNCHANGED <<sendQ, inbox, outQ, net, app>>
    BY <1>2 DEF HandlerStop
  <2>2. TakenFlow
    <3>1. CASE UNCHANGED taken
      BY <3>1, FlowStays
    <3>2. ASSUME NEW x \in taken[n], x.of = "loop",
                 taken' = Put(Drop(taken, n, x), n, [x EXCEPT !.of = "stale"])
          PROVE  TakenFlow
      <4> DEFINE x2 == [x EXCEPT !.of = "stale"]
      <4>1. taken \in [Node -> SUBSET Held] /\ x \in Held
        BY DEF TypeInv, TypeOK, Held
      <4>2. x2.d = x.d /\ x2.of = "stale"
        BY <4>1 DEF Held
      <4> HIDE DEF x2
      <4>3. \A m \in Node : taken'[m] = IF m = n THEN (taken[m] \ {x}) \cup {x2} ELSE taken[m]
        BY <3>2, <4>1 DEF Put, Drop, x2
      <4> QED  BY <3>2, <4>2, <4>3 DEF TakenFlow
    <3> QED  BY <2>1, <3>1, <3>2
  <2> QED  BY <2>1, <2>2, FlowStays DEF Flow
<1>3. CASE WaitTick(n, h) \/ RetryTick(n, h)
  BY <1>3, FlowStays DEF WaitTick, RetryTick, Tick, Flow
<1>4. CASE PingTick(n, h)
  <2>1. NetFlow
    <3> DEFINE d == Datagram(hd[n][h].addr, n, hd[n][h].dst, "PING", None)
    <3>1. d.type # "NET" /\ net' = net \cup {d}
      BY <1>4 DEF PingTick, Datagram
    <3> HIDE DEF d
    <3> QED  BY <3>1 DEF NetFlow
  <2> QED  BY <1>4, <2>1, FlowStays DEF PingTick, Flow
<1>5. ASSUME NEW type \in {"PING", "NET"}, ReaderTakes(n, h, type)
      PROVE  Flow
  <2> DEFINE Item(of, d) == [h |-> h, of |-> of, seen |-> hd[n][h].st, d |-> d]
  <2>1. PICK d \in net, of \in {"loop", "stale"} :
          /\ net' = net \ {d}
          /\ taken' = taken \/ taken' = Put(taken, n, Item(of, d))
          /\ UNCHANGED <<sendQ, inbox, outQ, app>>
    BY <1>5 DEF ReaderTakes
  <2>2. Item(of, d).d = d
    OBVIOUS
  <2> HIDE DEF Item
  <2>3. TakenFlow
    <3>1. CASE taken' = taken
      BY <3>1, FlowStays
    <3>2. CASE taken' = Put(taken, n, Item(of, d))
      <4> DEFINE i == Item(of, d)
      <4>1. i.d = d /\ taken' = Put(taken, n, i)
        BY <2>2, <3>2
      <4> HIDE DEF i
      <4>2. \A m \in Node : taken'[m] = IF m = n THEN taken[m] \cup {i} ELSE taken[m]
        BY <4>1 DEF Put, TypeInv, TypeOK
      <4> QED  BY <2>1, <4>1, <4>2 DEF TakenFlow
    <3> QED  BY <2>1, <3>1, <3>2
  <2>4. NetFlow
    BY <2>1 DEF NetFlow
  <2> QED  BY <2>1, <2>3, <2>4, FlowStays DEF Flow
<1> QED  BY <1>1, <1>2, <1>3, <1>4, <1>5 DEF Handling

\* Every step of every node.
LEMMA FlowStep ==
  ASSUME TypeInv, [Next]_vars
  PROVE  Flow
<1>1. CASE Lose
  BY <1>1, FlowStays DEF Lose, Flow, NetFlow
<1>2. ASSUME NEW n \in Node, Server(n) \/ Goroutines(n) \/ Stop(n)
      PROVE  Flow
  <2>1. n \in NodeID
    BY P2PAssumption
  <2> QED  BY <1>2, <2>1, FlowServer, FlowGoroutines, FlowCalls DEF TypeInv
<1>3. ASSUME NEW n \in Node, NEW d \in NodeID, ConnectUDP(n, d) \/ Send(n, d)
      PROVE  Flow
  BY <1>3, FlowCalls DEF TypeInv
<1>4. ASSUME NEW n \in Node, NEW h \in Handler,
             \/ Handling(n, h) \/ Expire(n, h)
             \/ WaitTick(n, h) \/ RetryTick(n, h) \/ PingTick(n, h)
             \/ \E type \in {"PING", "NET"} : ReaderTakes(n, h, type)
      PROVE  Flow
  BY <1>4, FlowHandler
<1>5. CASE UNCHANGED vars
  BY <1>5, FlowStays DEF vars, Flow
<1> QED  BY <1>1, <1>2, <1>3, <1>4, <1>5 DEF Next

\* The application's messages wherever they are: what a node is about to send,
\* has received or is to pass on, and what is on the wire, was sent by the node
\* it names as its source, to the node it names as its destination.
Sent(m) == m.type = "DATA" => <<m.src, m.dst>> \in app.sent
SentBefore ==
  /\ \A n \in Node :
       /\ \A m \in sendQ[n] : Sent(m)
       /\ \A x \in outQ[n] : Sent(x.msg)
       /\ \A r \in inbox[n] : Sent(r.msg)
       /\ \A x \in taken[n] : x.d.type = "NET" => Sent(x.d.msg)
  /\ \A d \in net : d.type = "NET" => Sent(d.msg)

RoutingInv == TypeInv /\ SentBefore /\ DeliveredWasSent

\* Each step of a message's way keeps who sent it to whom.
LEMMA RoutingStep ==
  ASSUME RoutingInv, TypeInv', Flow
  PROVE  RoutingInv'
<1>1. \A m : Sent(m) => Sent(m)'
  BY DEF Sent, Flow, AppFlow
<1>2. \A n \in Node : \A r \in inbox[n] : r.msg.ttl > 0 =>
        /\ Less(r.msg).type = r.msg.type
        /\ Less(r.msg).src = r.msg.src /\ Less(r.msg).dst = r.msg.dst
  <2>1. \A n \in Node : \A r \in inbox[n] : r.msg \in Message
    BY DEF RoutingInv, TypeInv, TypeOK
  <2> QED  BY <2>1, LessHops DEF Less
<1>3. ASSUME NEW n \in Node, NEW m \in sendQ'[n]
      PROVE  Sent(m)'
  <2>1. CASE m \in sendQ[n]
    BY <1>1, <2>1 DEF RoutingInv, SentBefore
  <2>2. CASE m.src = n /\ (m.type = "DATA" => <<n, m.dst>> \in app'.sent)
    BY <2>2 DEF Sent
  <2>3. ASSUME NEW r \in inbox[n], r.msg.ttl > 0, m = Less(r.msg)
        PROVE  Sent(m)'
    <3>1. Sent(r.msg)'
      BY <1>1 DEF RoutingInv, SentBefore
    <3> QED  BY <1>2, <2>3, <3>1 DEF Sent
  <2> QED  BY <2>1, <2>2, <2>3 DEF Flow, SendFlow
<1>4. ASSUME NEW n \in Node, NEW x \in outQ'[n]
      PROVE  Sent(x.msg)'
  <2>1. Sent(x.msg)
    BY DEF Flow, OutFlow, RoutingInv, SentBefore
  <2> QED  BY <1>1, <2>1
<1>5. ASSUME NEW n \in Node, NEW r \in inbox'[n]
      PROVE  Sent(r.msg)'
  <2>1. Sent(r.msg)
    BY DEF Flow, InFlow, RoutingInv, SentBefore
  <2> QED  BY <1>1, <2>1
<1>6. ASSUME NEW n \in Node, NEW x \in taken'[n], x.d.type = "NET"
      PROVE  Sent(x.d.msg)'
  <2>1. Sent(x.d.msg)
    BY <1>6 DEF Flow, TakenFlow, RoutingInv, SentBefore
  <2> QED  BY <1>1, <2>1
<1>7. ASSUME NEW d \in net', d.type = "NET"
      PROVE  Sent(d.msg)'
  <2>1. Sent(d.msg)
    BY <1>7 DEF Flow, NetFlow, RoutingInv, SentBefore
  <2> QED  BY <1>1, <2>1
<1>8. SentBefore'
  BY <1>3, <1>4, <1>5, <1>6, <1>7 DEF SentBefore
<1>9. DeliveredWasSent'
  <2>1. ASSUME NEW n \in Node, NEW a \in app'.got[n]
        PROVE  n \in Listeners /\ <<a, n>> \in app'.sent
    <3>1. n \in Listeners /\ <<a, n>> \in app.sent
      BY DEF Flow, AppFlow, RoutingInv, DeliveredWasSent, SentBefore, Sent
    <3> QED  BY <3>1 DEF Flow, AppFlow
  <2> QED  BY <2>1 DEF DeliveredWasSent
<1> QED  BY <1>8, <1>9 DEF RoutingInv

\* Every message on its way was sent by its source.
LEMMA RoutingInvariance == Spec => []RoutingInv
<1>1. Init => RoutingInv
  <2> SUFFICES ASSUME Init PROVE RoutingInv
    OBVIOUS
  <2>1. /\ net = {}
        /\ \A n \in Node : /\ sendQ[n] = {} /\ outQ[n] = {} /\ inbox[n] = {}
                           /\ taken[n] = {} /\ app.got[n] = {}
    BY DEF Init
  <2> QED  BY <2>1, TypeInit DEF RoutingInv, SentBefore, DeliveredWasSent
<1>2. RoutingInv /\ [Next]_vars => RoutingInv'
  BY TypeStep, FlowStep, RoutingStep DEF RoutingInv
<1> QED  BY <1>1, <1>2, PTL DEF Spec

\* The dispatch of ServerRecv (net/p2p.go) delivers a message as coming from its
\* src: that node sent it to this one, whichever nodes it was routed through.
THEOREM DeliveredCorrect == Spec => []DeliveredWasSent
<1>1. RoutingInv => DeliveredWasSent
  BY DEF RoutingInv
<1> QED  BY <1>1, RoutingInvariance, PTL
-----------------------------------------------------------------------------
(* Routes run out: what a step adds to the copies of messages under way, it    *)
(* pays for with a copy of the same message that had more steps left.          *)

\* What Copies collects, place by place.
OnNet(c)   == \E d \in net : d.type = "NET" /\ c = Copy(3, d.src, d, d.msg)
InSend(c)  == \E n \in Node : \E m \in sendQ[n] : c = Copy(5, n, m, m)
InOut(c)   == \E n \in Node : \E x \in outQ[n] : c = Copy(4, n, x, x.msg)
Reading(x) == IF x.of = "loop" THEN 2 ELSE 1
InTaken(c) == \E n \in Node : \E x \in taken[n] :
                x.d.type = "NET" /\ c = Copy(Reading(x), n, x, x.d.msg)
InInbox(c) == \E n \in Node : \E r \in inbox[n] :
                r.msg.dst # n /\ c = Copy(0, n, r, r.msg)

LEMMA CopiesAre ==
  /\ \A c : c \in Copies <=> OnNet(c) \/ InSend(c) \/ InOut(c) \/ InTaken(c) \/ InInbox(c)
  /\ \A c : c \in Copies' <=>
       OnNet(c)' \/ InSend(c)' \/ InOut(c)' \/ InTaken(c)' \/ InInbox(c)'
<1>1. \A c : c \in Copies <=> OnNet(c) \/ InSend(c) \/ InOut(c) \/ InTaken(c) \/ InInbox(c)
  BY DEF Copies, OnNet, InSend, InOut, InTaken, InInbox, Reading
<1>2. \A c : c \in Copies' <=>
        OnNet(c)' \/ InSend(c)' \/ InOut(c)' \/ InTaken(c)' \/ InInbox(c)'
  BY DEF Copies, OnNet, InSend, InOut, InTaken, InInbox, Reading
<1> QED  BY <1>1, <1>2

\* Copies at different stages, nodes or items are different.
LEMMA CopyIs ==
  ASSUME NEW j, NEW n, NEW x, NEW m, NEW k, NEW o, NEW y, NEW l
  PROVE  /\ Copy(j, n, x, m).stage = j /\ Copy(j, n, x, m).node = n
         /\ Copy(j, n, x, m).msg = m
         /\ Copy(j, n, x, m) = Copy(k, o, y, l) => j = k /\ n = o /\ x = y
BY DEF Copy

\* An item that leaves its place takes a copy with it.
LEMMA CopyGone ==
  ASSUME NEW n \in Node
  PROVE  /\ \A d \in net \ net' : d.type = "NET" =>
              Copy(3, d.src, d, d.msg) \in Copies \ Copies'
         /\ \A m \in sendQ[n] \ sendQ'[n] : Copy(5, n, m, m) \in Copies \ Copies'
         /\ \A x \in outQ[n] \ outQ'[n] : Copy(4, n, x, x.msg) \in Copies \ Copies'
         /\ \A x \in taken[n] \ taken'[n] : x.d.type = "NET" =>
              Copy(Reading(x), n, x, x.d.msg) \in Copies \ Copies'
         /\ \A r \in inbox[n] \ inbox'[n] : r.msg.dst # n =>
              Copy(0, n, r, r.msg) \in Copies \ Copies'
<1>1. \A x : Reading(x) \in {1, 2}
  BY DEF Reading
<1>2. ASSUME NEW d \in net \ net', d.type = "NET"
      PROVE  Copy(3, d.src, d, d.msg) \in Copies \ Copies'
  BY <1>1, <1>2, CopiesAre, CopyIs DEF OnNet, InSend, InOut, InTaken, InInbox
<1>3. ASSUME NEW m \in sendQ[n] \ sendQ'[n]
      PROVE  Copy(5, n, m, m) \in Copies \ Copies'
  BY <1>1, <1>3, CopiesAre, CopyIs DEF OnNet, InSend, InOut, InTaken, InInbox
<1>4. ASSUME NEW x \in outQ[n] \ outQ'[n]
      PROVE  Copy(4, n, x, x.msg) \in Copies \ Copies'
  BY <1>1, <1>4, CopiesAre, CopyIs DEF OnNet, InSend, InOut, InTaken, InInbox
<1>5. ASSUME NEW x \in taken[n] \ taken'[n], x.d.type = "NET"
      PROVE  Copy(Reading(x), n, x, x.d.msg) \in Copies \ Copies'
  BY <1>1, <1>5, CopiesAre, CopyIs DEF OnNet, InSend, InOut, InTaken, InInbox
<1>6. ASSUME NEW r \in inbox[n] \ inbox'[n], r.msg.dst # n
      PROVE  Copy(0, n, r, r.msg) \in Copies \ Copies'
  BY <1>1, <1>6, CopiesAre, CopyIs DEF OnNet, InSend, InOut, InTaken, InInbox
<1> QED  BY <1>2, <1>3, <1>4, <1>5, <1>6

\* While a message is made nothing is used up.
LEMMA NoCopyGone ==
  ASSUME NoneGone
  PROVE  Copies \subseteq Copies'
<1> SUFFICES ASSUME NEW c \in Copies
             PROVE  OnNet(c)' \/ InSend(c)' \/ InOut(c)' \/ InTaken(c)' \/ InInbox(c)'
  BY CopiesAre
<1>1. CASE OnNet(c)
  BY <1>1 DEF NoneGone, OnNet
<1>2. CASE InSend(c)
  BY <1>2 DEF NoneGone, InSend
<1>3. CASE InOut(c)
  BY <1>3 DEF NoneGone, InOut
<1>4. CASE InTaken(c)
  BY <1>4 DEF NoneGone, InTaken, Reading
<1>5. CASE InInbox(c)
  BY <1>5 DEF NoneGone, InInbox
<1> QED  BY <1>1, <1>2, <1>3, <1>4, <1>5, CopiesAre

Pays(b, c) == SameMsg(b, c) /\ StepsLeft(b) > StepsLeft(c)

\* A message that moves on unchanged, and one that is sent on to another node.
LEMMA Moves ==
  ASSUME NEW m \in Message, NEW n, NEW x, NEW o, NEW y
  PROVE  /\ \A j, k \in 0 .. 5 : j > k => Pays(Copy(j, n, x, m), Copy(k, o, y, m))
         /\ m.ttl > 0 => Pays(Copy(0, n, x, m), Copy(5, o, y, Less(m)))
<1>1. m.ttl \in Int /\ m = [m EXCEPT !.ttl = m.ttl]
  BY P2PAssumption DEF Message
<1>2. Less(m) = [m EXCEPT !.ttl = Less(m).ttl] /\ Less(m).ttl = m.ttl - 1
  BY DEF Less, Message
<1>3. ASSUME NEW j \in 0 .. 5, NEW k \in 0 .. 5, j > k
      PROVE  Pays(Copy(j, n, x, m), Copy(k, o, y, m))
  BY <1>1, <1>3, CopyIs DEF Pays, SameMsg, StepsLeft
<1>4. Pays(Copy(0, n, x, m), Copy(5, o, y, Less(m)))
  BY <1>1, <1>2, CopyIs DEF Pays, SameMsg, StepsLeft
<1> QED  BY <1>3, <1>4

\* A copy that is new has been paid for, or the message has just been made.
JustMade(c) ==
  /\ c.stage = 5 /\ c.node = c.msg.src /\ c.msg.ttl = MAX_TTL
  /\ ~\E b \in Copies \ Copies' : SameMsg(b, c)
CopyPaid(c) == (\E b \in Copies \ Copies' : Pays(b, c)) \/ JustMade(c)

LEMMA RouteStep ==
  ASSUME TypeInv, Flow, NEW c \in Copies' \ Copies
  PROVE  CopyPaid(c)
<1>1. CASE InSend(c)'
  <2>0. PICK n \in Node : \E m \in sendQ'[n] : c = Copy(5, n, m, m)
    BY <1>1 DEF InSend
  <2>1. PICK m \in sendQ'[n] : c = Copy(5, n, m, m)
    BY <2>0
  <2>2. m \notin sendQ[n]
    BY <2>1, CopiesAre DEF InSend
  <2>3. CASE m.src = n /\ m.ttl = MAX_TTL /\ NoneGone
    <3>1. c.stage = 5 /\ c.node = n /\ c.msg = m
      BY <2>1, CopyIs
    <3>2. Copies \subseteq Copies'
      BY <2>3, NoCopyGone
    <3> QED  BY <2>3, <3>1, <3>2 DEF CopyPaid, JustMade
  <2>4. ASSUME NEW r \in inbox[n] \ inbox'[n], r.msg.dst # n, r.msg.ttl > 0,
               m = Less(r.msg)
        PROVE  CopyPaid(c)
    <3>1. r.msg \in Message
      BY DEF TypeInv, TypeOK
    <3> QED  BY <2>1, <2>4, <3>1, CopyGone, Moves DEF CopyPaid
  <2>5. \/ m.src = n /\ m.ttl = MAX_TTL /\ NoneGone
        \/ \E r \in inbox[n] \ inbox'[n] : r.msg.dst # n /\ r.msg.ttl > 0 /\ m = Less(r.msg)
    <3>1. m \in sendQ'[n] \ sendQ[n]
      BY <2>1, <2>2
    <3> QED  BY <3>1 DEF Flow, SendFlow
  <2> QED  BY <2>3, <2>4, <2>5
<1>2. CASE InOut(c)'
  <2>0. PICK n \in Node : \E x \in outQ'[n] : c = Copy(4, n, x, x.msg)
    BY <1>2 DEF InOut
  <2>1. PICK x \in outQ'[n] : c = Copy(4, n, x, x.msg)
    BY <2>0
  <2>2. x.msg \in sendQ[n] \ sendQ'[n]
    BY <2>1, CopiesAre DEF InOut, Flow, OutFlow
  <2>3. x.msg \in Message
    BY <2>2 DEF TypeInv, TypeOK
  <2>4. Pays(Copy(5, n, x.msg, x.msg), c)
    BY <2>1, <2>3, Moves
  <2> QED  BY <2>2, <2>4, CopyGone DEF CopyPaid
<1>3. CASE OnNet(c)'
  <2>1. PICK d \in net' : d.type = "NET" /\ c = Copy(3, d.src, d, d.msg)
    BY <1>3 DEF OnNet
  <2>0. PICK n \in Node : \E x \in outQ[n] \ outQ'[n] : x.msg = d.msg
    BY <2>1, CopiesAre DEF OnNet, Flow, NetFlow
  <2>2. PICK x \in outQ[n] \ outQ'[n] : x.msg = d.msg
    BY <2>0
  <2>3. d.msg \in Message
    BY <2>2 DEF TypeInv, TypeOK
  <2>4. Pays(Copy(4, n, x, x.msg), c)
    BY <2>1, <2>2, <2>3, Moves
  <2> QED  BY <2>2, <2>4, CopyGone DEF CopyPaid
<1>4. CASE InTaken(c)'
  <2>0. PICK n \in Node : \E x \in taken'[n] :
          x.d.type = "NET" /\ c = Copy(Reading(x), n, x, x.d.msg)
    BY <1>4 DEF InTaken, Reading
  <2>1. PICK x \in taken'[n] :
          x.d.type = "NET" /\ c = Copy(Reading(x), n, x, x.d.msg)
    BY <2>0
  <2>2. x \notin taken[n]
    BY <2>1, CopiesAre DEF InTaken
  <2>3. CASE x.d \in net \ net'
    <3>1. x.d.msg \in Message
      BY <2>1, <2>3 DEF TypeInv, NetTyped, Carries
    <3>2. Pays(Copy(3, x.d.src, x.d, x.d.msg), c)
      BY <2>1, <3>1, Moves DEF Reading
    <3> QED  BY <2>1, <2>3, <3>2, CopyGone DEF CopyPaid
  <2>4. ASSUME NEW y \in taken[n] \ taken'[n], y.d = x.d, y.of = "loop", x.of = "stale"
        PROVE  CopyPaid(c)
    <3>1. x.d.msg \in Message
      BY <2>1, <2>4 DEF TypeInv, NetTyped, Carries
    <3>2. Reading(y) = 2 /\ Reading(x) = 1
      BY <2>4 DEF Reading
    <3>3. Pays(Copy(2, n, y, x.d.msg), c)
      BY <2>1, <3>1, <3>2, Moves
    <3> QED  BY <2>1, <2>4, <3>2, <3>3, CopyGone DEF CopyPaid
  <2> QED  BY <2>2, <2>3, <2>4 DEF Flow, TakenFlow
<1>5. CASE InInbox(c)'
  <2>0. PICK n \in Node : \E r \in inbox'[n] : r.msg.dst # n /\ c = Copy(0, n, r, r.msg)
    BY <1>5 DEF InInbox
  <2>1. PICK r \in inbox'[n] : r.msg.dst # n /\ c = Copy(0, n, r, r.msg)
    BY <2>0
  <2>2. r \notin inbox[n]
    BY <2>1, CopiesAre DEF InInbox
  <2>3. ASSUME NEW d \in net \ net', d.type = "NET", d.msg = r.msg
        PROVE  CopyPaid(c)
    <3>1. r.msg \in Message
      BY <2>3 DEF TypeInv, NetTyped, Carries
    <3>2. Pays(Copy(3, d.src, d, d.msg), c)
      BY <2>1, <2>3, <3>1, Moves
    <3> QED  BY <2>1, <2>3, <3>2, CopyGone DEF CopyPaid
  <2>4. ASSUME NEW x \in taken[n] \ taken'[n], x.d.type = "NET", x.d.msg = r.msg
        PROVE  CopyPaid(c)
    <3>1. r.msg \in Message
      BY <2>4 DEF TypeInv, NetTyped, Carries
    <3>2. Reading(x) \in 1 .. 2
      BY DEF Reading
    <3>3. Pays(Copy(Reading(x), n, x, x.d.msg), c)
      BY <2>1, <2>4, <3>1, <3>2, Moves
    <3> QED  BY <2>4, <3>3, CopyGone DEF CopyPaid
  <2> QED  BY <2>2, <2>3, <2>4 DEF Flow, InFlow
<1> QED  BY <1>1, <1>2, <1>3, <1>4, <1>5, CopiesAre

\* The case of ServerRecv that passes a message on (net/p2p.go:250) lets none
\* circle for good: with any tables, routes and TTL bound, every step of a copy
\* uses up one that could still have got further.
THEOREM RoutesEnd == Spec => RoutesRunOut
<1> DEFINE Paid ==
      LET came == Copies' \ Copies
          gone == Copies \ Copies'
      IN  \A c \in came :
            \/ \E b \in gone : SameMsg(b, c) /\ StepsLeft(b) > StepsLeft(c)
            \/ /\ c.stage = 5 /\ c.node = c.msg.src /\ c.msg.ttl = MAX_TTL
               /\ ~\E b \in gone : SameMsg(b, c)
<1>1. TypeInv /\ [Next]_vars => Paid
  <2> SUFFICES ASSUME TypeInv, [Next]_vars, NEW c \in Copies' \ Copies
               PROVE  CopyPaid(c)
    BY DEF CopyPaid, JustMade, Pays
  <2> QED  BY FlowStep, RouteStep
<1>2. TypeInv /\ [Next]_vars => [Paid]_<<sendQ, outQ, net, taken, inbox>>
  BY <1>1
<1> QED  BY <1>2, TypeInvariance, PTL DEF Spec, RoutesRunOut
-----------------------------------------------------------------------------
(* Connections, as long as no disconnect timer has gone off: no handler is     *)
(* given back to the pool, so one in the table stays there with its peer.      *)

NoneExpired == \A n \in Node : expired[n] = 0

In(n, h) == h \in Entries(table[n])
LeadsTo(n, h, d) == In(n, h) /\ hd[n][h].dst = d

\* Handler objects that are not in the table are as NewNaiveP2PHandler made
\* them; the pool holds such ones, each once, and those not made are not in it.
Fresh ==
  \A n \in Node :
    /\ \A h \in Handler : ~In(n, h) => hd[n][h] = NewHandler
    /\ \A h \in Handler : In(n, h) => h <= made[n]
    /\ \A i \in DOMAIN pool[n] : pool[n][i] <= made[n] /\ pool[n][i] \notin Entries(table[n])
    /\ \A i, j \in DOMAIN pool[n] : pool[n][i] = pool[n][j] => i = j

\* A handler in the table runs, has not been told to stop, and has an address
\* once it has been told to connect; it stays in state WAIT only until then.
Lives(r) ==
  /\ r.st \in {"WAIT", "PING", "CONN"} /\ ~r.due /\ r.ctrl = 0 /\ r.loops > 0
  /\ r.st # "WAIT" \/ r.connect > 0 => r.addr # None
  /\ r.st = "WAIT" /\ r.addr # None => r.connect > 0

\* A handler's address is the socket of its peer's handler for this node.
AddrRight(n, h) ==
  hd[n][h].addr # None =>
    \E d \in Node, g \in Handler :
      hd[n][h].dst = d /\ hd[n][h].addr = <<d, g>> /\ LeadsTo(d, g, n)

\* A handler of n pings the address.
Pings(n, addr) ==
  \E g \in Handler : In(n, g) /\ hd[n][g].addr = addr /\ hd[n][g].st \in {"PING", "CONN"}

\* A connected handler's peer pings it.
Pinged(n, h) ==
  hd[n][h].st = "CONN" => \E d \in Node : hd[n][h].dst = d /\ Pings(d, <<n, h>>)

Placed ==
  \A n \in Node, h \in Handler :
    In(n, h) => /\ HasBucket(n, hd[n][h].dst)
                /\ Lives(hd[n][h]) /\ AddrRight(n, h) /\ Pinged(n, h)

\* The socket a CONN message names is that of a handler of its source for its
\* destination.
SockRight(m) ==
  m.type = "CONN" => \E g \in Handler : m.sock = <<m.src, g>> /\ LeadsTo(m.src, g, m.dst)

\* What is on its way: notices about handlers in the table, with their peers;
\* CONN messages that name the right socket; pings by a handler that pings; and
\* a reader that saw state PING has a handler that is past WAIT.
Underway ==
  /\ \A n \in Node :
       /\ \A p \in posting[n] : In(n, p.h)
       /\ \A s \in stateQ[n] : LeadsTo(n, s.h, s.peer) /\ s.state # "DISCONN"
       /\ \A m \in sendQ[n] : SockRight(m)
       /\ \A x \in outQ[n] : SockRight(x.msg)
       /\ \A r \in inbox[n] : SockRight(r.msg)
       /\ \A x \in taken[n] :
            /\ In(n, x.h)
            /\ x.seen = "PING" => hd[n][x.h].st \in {"PING", "CONN"}
            /\ x.d.type = "NET" => SockRight(x.d.msg)
            /\ x.d.type = "PING" => Pings(x.d.src, x.d.to)
  /\ \A d \in net : /\ d.type = "NET" => SockRight(d.msg)
                    /\ d.type = "PING" => Pings(d.src, d.to)

ConnInv == Fresh /\ Placed /\ OneHandlerPerPeer /\ Underway

\* What is in a table are handlers.
LEMMA InTable ==
  ASSUME TypeOK, NEW n \in Node
  PROVE  /\ table[n] \in TableOf(Handler) /\ Entries(table[n]) \subseteq Handler
         /\ \A h : In(n, h) <=> \E b \in Buckets : h \in InBucket(table[n], b)
<1>1. table[n] \in TableOf(Handler)
  BY DEF TypeOK, TableOf
<1> QED  BY <1>1, InBucketIs DEF Entries, In

\* What a step may do to a handler in the table: it keeps its peer; once past
\* WAIT it keeps its address and does not fall back.
Later(old, new) ==
  /\ new.dst = old.dst
  /\ old.st \in {"PING", "CONN"} => new.addr = old.addr /\ new.st \in {"PING", "CONN"}
  /\ old.st = "CONN" => new.st = "CONN"

Grown ==
  \A n \in Node, h \in Handler : In(n, h) => In(n, h)' /\ Later(hd[n][h], hd'[n][h])

\* So what others know of it stays true.
LEMMA GrownKeeps ==
  ASSUME Grown
  PROVE  /\ \A n \in Node, h \in Handler : \A d : LeadsTo(n, h, d) => LeadsTo(n, h, d)'
         /\ \A n \in Node : \A addr : Pings(n, addr) => Pings(n, addr)'
         /\ \A m : m.src \in Node /\ SockRight(m) => SockRight(m)'
<1>1. ASSUME NEW n \in Node, NEW h \in Handler, NEW d, LeadsTo(n, h, d)
      PROVE  LeadsTo(n, h, d)'
  BY <1>1 DEF Grown, LeadsTo, Later
<1>2. ASSUME NEW n \in Node, NEW addr, Pings(n, addr)
      PROVE  Pings(n, addr)'
  BY <1>2 DEF Grown, Pings, Later
<1>3. ASSUME NEW m, m.src \in Node, SockRight(m)
      PROVE  SockRight(m)'
  BY <1>1, <1>3 DEF SockRight
<1> QED  BY <1>1, <1>2, <1>3

\* The tables hold what they held, in any order.
SameTables ==
  /\ \A n \in Node, b \in Buckets : InBucket(table'[n], b) = InBucket(table[n], b)
  /\ UNCHANGED <<pool, made>>

\* A move of one handler in the table: as it was, or with its new fields a
\* handler that lives, knows its peer's socket and is pinged if connected.
MoveOf(n, h, r) ==
  /\ In(n, h) /\ hd' = HdWith(n, h, r) /\ Later(hd[n][h], r) /\ Lives(r)
  /\ r.addr # None => \E d \in Node, g \in Handler :
                         r.dst = d /\ r.addr = <<d, g>> /\ LeadsTo(d, g, n)
  /\ r.st = "CONN" => \E d \in Node : r.dst = d /\ Pings(d, <<n, h>>)

\* A step that opens no handler leaves the tables' handlers in place.
LEMMA MoveKeeps ==
  ASSUME TypeInv, TypeInv', Fresh, Placed, OneHandlerPerPeer, SameTables,
         \/ hd' = hd
         \/ \E n \in Node, h \in Handler, r \in HandlerType : MoveOf(n, h, r)
  PROVE  Grown /\ (Fresh /\ Placed /\ OneHandlerPerPeer)'
<1>1. \A n \in Node : \A h : In(n, h)' <=> In(n, h)
  <2>1. ASSUME NEW n \in Node PROVE Entries(table'[n]) = Entries(table[n])
    BY DEF Entries, SameTables
  <2> QED  BY <2>1 DEF In
<1>2. ASSUME NEW m \in Node, NEW g \in Handler
      PROVE  /\ ~In(m, g) => hd'[m][g] = hd[m][g]
             /\ In(m, g) => Later(hd[m][g], hd'[m][g]) /\ Lives(hd'[m][g])
  <2>1. CASE hd' = hd
    BY <2>1 DEF Placed, Later
  <2>2. ASSUME NEW n \in Node, NEW h \in Handler, NEW r \in HandlerType, MoveOf(n, h, r)
        PROVE  /\ ~In(m, g) => hd'[m][g] = hd[m][g]
               /\ In(m, g) => Later(hd[m][g], hd'[m][g]) /\ Lives(hd'[m][g])
    <3>1. /\ hd'[n][h] = r
          /\ ~(m = n /\ g = h) => hd'[m][g] = hd[m][g]
      <4> DEFINE f == HdWith(n, h, r)
      <4>1. hd \in [Node -> [Handler -> HandlerType]]
        BY DEF TypeInv, TypeOK
      <4>2. f[n][h] = r /\ (~(m = n /\ g = h) => f[m][g] = hd[m][g])
        BY <4>1, HdWithIs
      <4>3. hd' = f
        BY <2>2 DEF MoveOf
      <4> HIDE DEF f
      <4> QED  BY <4>2, <4>3
    <3>2. CASE m = n /\ g = h
      BY <2>2, <3>1, <3>2 DEF MoveOf
    <3>3. CASE ~(m = n /\ g = h)
      BY <3>1, <3>3 DEF Placed, Later
    <3> QED  BY <3>2, <3>3
  <2> QED  BY <2>1, <2>2
<1>3. Grown
  BY <1>1, <1>2 DEF Grown
<1>4. Fresh'
  <2>1. \A n \in Node : pool'[n] = pool[n] /\ made'[n] = made[n]
    BY DEF SameTables
  <2> QED  BY <1>1, <1>2, <2>1 DEF Fresh, In
<1>5. ASSUME NEW m \in Node, NEW g \in Handler, In(m, g)
      PROVE  AddrRight(m, g)' /\ Pinged(m, g)'
  <2>1. \/ hd'[m][g] = hd[m][g]
        \/ \E r \in HandlerType : MoveOf(m, g, r) /\ hd'[m][g] = r
    <3>1. CASE hd' = hd
      BY <3>1
    <3>2. ASSUME NEW n \in Node, NEW h \in Handler, NEW r \in HandlerType, MoveOf(n, h, r)
          PROVE  hd'[m][g] = hd[m][g] \/ (m = n /\ g = h /\ hd'[m][g] = r)
      <4> DEFINE f == HdWith(n, h, r)
      <4>1. hd \in [Node -> [Handler -> HandlerType]]
        BY DEF TypeInv, TypeOK
      <4>2. f[n][h] = r /\ (~(m = n /\ g = h) => f[m][g] = hd[m][g])
        BY <4>1, HdWithIs
      <4>3. hd' = f
        BY <3>2 DEF MoveOf
      <4> HIDE DEF f
      <4> QED  BY <4>2, <4>3
    <3> QED  BY <3>1, <3>2
  <2>2. /\ hd'[m][g].addr # None => \E d \in Node, k \in Handler :
             hd'[m][g].dst = d /\ hd'[m][g].addr = <<d, k>> /\ LeadsTo(d, k, m)
        /\ hd'[m][g].st = "CONN" => \E d \in Node : hd'[m][g].dst = d /\ Pings(d, <<m, g>>)
    BY <1>5, <2>1 DEF MoveOf, Placed, AddrRight, Pinged
  <2>3. /\ \A d \in Node, k \in Handler : LeadsTo(d, k, m) => LeadsTo(d, k, m)'
        /\ \A d \in Node : Pings(d, <<m, g>>) => Pings(d, <<m, g>>)'
    BY <1>3, GrownKeeps
  <2> QED  BY <2>2, <2>3 DEF AddrRight, Pinged
<1>6. Placed'
  <2>1. \A n \in Node, h \in Handler :
          In(n, h) => HasBucket(n, hd[n][h].dst) /\ hd'[n][h].dst = hd[n][h].dst
    BY <1>2 DEF Placed, Later
  <2> QED  BY <1>1, <1>2, <1>5, <2>1 DEF Placed
<1>7. OneHandlerPerPeer'
  <2>1. ASSUME NEW n \in Node, NEW h, In(n, h)
        PROVE  /\ h \in Handler /\ hd'[n][h].dst = hd[n][h].dst
               /\ h \in InBucket(table'[n], getKDist(hd'[n][h].dst, n))
    <3>1. h \in Handler
      BY <2>1, InTable DEF TypeInv, In
    <3>2. hd'[n][h].dst = hd[n][h].dst
      BY <1>2, <2>1, <3>1 DEF Later
    <3>3. h \in InBucket(table[n], getKDist(hd[n][h].dst, n))
      BY <2>1 DEF OneHandlerPerPeer, In
    <3>4. getKDist(hd[n][h].dst, n) \in Buckets
      BY <2>1, <3>1 DEF Placed, HasBucket
    <3>5. \A b \in Buckets : InBucket(table'[n], b) = InBucket(table[n], b)
      BY DEF SameTables
    <3> QED  BY <3>1, <3>2, <3>3, <3>4, <3>5
  <2>2. ASSUME NEW n \in Node, NEW g, NEW h, In(n, g), In(n, h),
               hd'[n][g].dst = hd'[n][h].dst
        PROVE  g = h
    BY <2>1, <2>2 DEF OneHandlerPerPeer, In
  <2> QED  BY <1>1, <2>1, <2>2 DEF OneHandlerPerPeer, In
<1> QED  BY <1>3, <1>4, <1>6, <1>7

\* getHandler: what is left of the pool was in it, and the handler taken is not.
LEMMA PoolIs ==
  ASSUME TypeOK, Fresh, NEW n \in Node, NEW h \in Handler,
         Took(n, h)
  PROVE  /\ ~In(n, h) /\ h <= made'[n]
         /\ \A m \in Node :
              /\ made[m] <= made'[m]
              /\ \A i \in DOMAIN pool'[m] :
                   /\ pool'[m][i] <= made[m] /\ pool'[m][i] \notin Entries(table[m])
                   /\ (m = n => pool'[m][i] # h)
              /\ \A i, j \in DOMAIN pool'[m] : pool'[m][i] = pool'[m][j] => i = j
<1>1. /\ pool \in [Node -> Seq(Handler)] /\ made \in [Node -> 0 .. HandlerCap]
      /\ \A m \in Node : made[m] \in Nat
      /\ Handler \subseteq Nat
  BY P2PAssumption DEF TypeOK, Handler
<1>2. \A m \in Node : pool[m] \in Seq(Handler) /\ \A i \in DOMAIN pool[m] : pool[m][i] \in Handler
  BY <1>1
<1>3. CASE /\ pool[n] = <<>> /\ h = made[n] + 1
           /\ made' = [made EXCEPT ![n] = h] /\ pool' = pool
  <2>1. \A m \in Node : made'[m] = IF m = n THEN h ELSE made[m]
    BY <1>1, <1>3
  <2>2. ~In(n, h)
    <3>1. In(n, h) => h <= made[n]
      BY DEF Fresh
    <3>2. ~(h <= made[n])
      BY <1>1, <1>3
    <3> QED  BY <3>1, <3>2
  <2>3. \A m \in Node : made[m] <= made'[m] /\ h <= made'[n]
    BY <1>1, <1>3, <2>1
  <2>4. DOMAIN pool'[n] = {}
    BY <1>3
  <2> QED  BY <1>3, <2>2, <2>3, <2>4 DEF Fresh
<1>4. CASE /\ pool[n] # <<>> /\ h = Head(pool[n])
           /\ pool' = [pool EXCEPT ![n] = Tail(@)] /\ made' = made
  <2>1. \A m \in Node : pool'[m] = IF m = n THEN Tail(pool[n]) ELSE pool[m]
    BY <1>1, <1>4
  <2>2. /\ 1 \in DOMAIN pool[n] /\ h = pool[n][1]
        /\ \A i \in DOMAIN Tail(pool[n]) :
             i + 1 \in DOMAIN pool[n] /\ Tail(pool[n])[i] = pool[n][i + 1] /\ i \in Nat \ {0}
    BY <1>2, <1>4
  <2>3. ~In(n, h) /\ h <= made[n]
    BY <2>2 DEF Fresh, In
  <2>4. \A i \in DOMAIN pool'[n] :
          /\ pool'[n][i] <= made[n] /\ pool'[n][i] \notin Entries(table[n])
          /\ pool'[n][i] # h
    <3>1. ASSUME NEW i \in DOMAIN Tail(pool[n])
          PROVE  /\ Tail(pool[n])[i] <= made[n] /\ Tail(pool[n])[i] \notin Entries(table[n])
                 /\ Tail(pool[n])[i] # h
      <4>1. i + 1 \in DOMAIN pool[n] /\ Tail(pool[n])[i] = pool[n][i + 1] /\ i + 1 # 1
        BY <2>2
      <4> QED  BY <2>2, <4>1 DEF Fresh
    <3> QED  BY <2>1, <3>1
  <2>5. \A i, j \in DOMAIN pool'[n] : pool'[n][i] = pool'[n][j] => i = j
    <3>1. ASSUME NEW i \in DOMAIN Tail(pool[n]), NEW j \in DOMAIN Tail(pool[n]),
                 Tail(pool[n])[i] = Tail(pool[n])[j]
          PROVE  i = j
      <4>1. i + 1 = j + 1
        BY <2>2, <3>1 DEF Fresh
      <4> QED  BY <2>2, <4>1
    <3> QED  BY <2>1, <3>1
  <2>6. \A m \in Node : made[m] <= made'[m]
    BY <1>1, <1>4
  <2>7. \A m \in Node : m # n => pool'[m] = pool[m]
    BY <2>1
  <2>8. h <= made'[n]
    BY <1>4, <2>3
  <2> QED  BY <2>3, <2>4, <2>5, <2>6, <2>7, <2>8 DEF Fresh
<1> QED  BY <1>3, <1>4 DEF Took

\* A step that opens a handler for a peer that has none.
LEMMA OpenKeeps ==
  ASSUME TypeInv, TypeInv', Fresh, Placed, OneHandlerPerPeer,
         NEW n \in Node, NEW d \in NodeID, HasBucket(n, d),
         NEW addr \in Socket \cup {None}, NEW tokens \in 0 .. 1,
         addr # None <=> tokens = 1,
         addr # None => d \in Node /\ \E g \in Handler : addr = <<d, g>> /\ LeadsTo(d, g, n),
         NEW t \in TableOf(Handler),
         \A b \in Buckets : InBucket(t, b) = InBucket(table[n], b),
         \A g : In(n, g) => hd[n][g].dst # d,
         Open(n, d, addr, tokens, t)
  PROVE  /\ Grown /\ (Fresh /\ Placed /\ OneHandlerPerPeer)'
         /\ \E h \in Handler : sendQ' = Put(sendQ, n, ConnMsg(n, d, h)) /\ LeadsTo(n, h, d)'
<1>1. PICK h \in Handler :
           /\ Took(n, h)
           /\ hd' = HdWith(n, h, Started(hd[n][h], d, addr, tokens))
           /\ \A m \in Node : m # n => table'[m] = table[m]
           /\ \A b \in Buckets : InBucket(table'[n], b) =
                IF b = getKDist(d, n) THEN InBucket(t, b) \cup {h} ELSE InBucket(t, b)
           /\ sendQ' = Put(sendQ, n, ConnMsg(n, d, h))
  <2>1. TypeOK
    BY DEF TypeInv
  <2>2. \E h \in Handler : Opened(n, d, addr, tokens, t, h)
    BY <2>1, OpenIs
  <2> QED  BY <2>2 DEF Opened
<1>2. /\ ~In(n, h) /\ h <= made'[n]
      /\ \A m \in Node :
              /\ made[m] <= made'[m]
              /\ \A i \in DOMAIN pool'[m] :
                   /\ pool'[m][i] <= made[m] /\ pool'[m][i] \notin Entries(table[m])
                   /\ (m = n => pool'[m][i] # h)
              /\ \A i, j \in DOMAIN pool'[m] : pool'[m][i] = pool'[m][j] => i = j
  BY <1>1, PoolIs DEF TypeInv
<1> DEFINE r == Started(hd[n][h], d, addr, tokens)
<1>3. /\ r.dst = d /\ r.addr = addr /\ r.st = "WAIT" /\ r.connect = tokens /\ Lives(r)
  <2>1. hd[n][h] = NewHandler /\ hd[n][h] \in HandlerType
    BY <1>2 DEF Fresh, TypeInv, TypeOK
  <2>2. /\ r.dst = d /\ r.addr = addr /\ r.st = "WAIT" /\ ~r.due
        /\ r.loops = hd[n][h].loops + 1 /\ r.connect = hd[n][h].connect + tokens
        /\ r.ctrl = hd[n][h].ctrl
    BY <2>1, StartedIs
  <2>3. r.loops = 1 /\ r.connect = tokens /\ r.ctrl = 0
    BY <2>1, <2>2 DEF NewHandler
  <2> HIDE DEF r
  <2> QED  BY <2>2, <2>3 DEF Lives
<1> HIDE DEF r
<1>4. /\ hd'[n][h] = r
      /\ \A m \in Node, g \in Handler : ~(m = n /\ g = h) => hd'[m][g] = hd[m][g]
  <2> DEFINE f == HdWith(n, h, Started(hd[n][h], d, addr, tokens))
  <2>1. hd \in [Node -> [Handler -> HandlerType]] /\ hd[n][h] \in HandlerType
    BY DEF TypeInv, TypeOK
  <2>2. Started(hd[n][h], d, addr, tokens) \in HandlerType
    BY <2>1, StartedIs
  <2>3. f[n][h] = r /\ \A m \in Node, g \in Handler : ~(m = n /\ g = h) => f[m][g] = hd[m][g]
    BY <2>1, <2>2, HdWithIs DEF r
  <2>4. hd' = f
    BY <1>1
  <2> HIDE DEF f
  <2> QED  BY <2>3, <2>4
<1>5. \A m \in Node : \A g : In(m, g)' <=> In(m, g) \/ (m = n /\ g = h)
  <2>1. ASSUME NEW g PROVE In(n, g)' <=> In(n, g) \/ g = h
    <3>1. getKDist(d, n) \in Buckets
      BY DEF HasBucket
    <3>2. \A b \in Buckets : InBucket(table'[n], b) =
            IF b = getKDist(d, n) THEN InBucket(table[n], b) \cup {h} ELSE InBucket(table[n], b)
      BY <1>1
    <3>3. Entries(table'[n]) = Entries(table[n]) \cup {h}
      BY <3>1, <3>2 DEF Entries
    <3> QED  BY <3>3 DEF In
  <2>2. \A m \in Node : \A g : m # n => (In(m, g)' <=> In(m, g))
    BY <1>1 DEF In
  <2> QED  BY <2>1, <2>2
<1>6. \A m \in Node : \A g : In(m, g) => g \in Handler /\ ~(m = n /\ g = h)
  BY <1>2, InTable DEF TypeInv, In
<1>7. Grown
  BY <1>4, <1>5, <1>6 DEF Grown, Later
<1>8. Fresh'
  <2>1. \A m \in Node, g \in Handler : ~In(m, g)' => hd'[m][g] = NewHandler
    BY <1>4, <1>5 DEF Fresh
  <2>2. \A m \in Node, g \in Handler : In(m, g)' => g <= made'[m]
    <3>1. \A m \in Node : made[m] \in Nat /\ made'[m] \in Nat
      BY P2PAssumption DEF TypeInv, TypeOK
    <3>2. Handler \subseteq Nat
      BY P2PAssumption DEF Handler
    <3>3. \A m \in Node, g \in Handler : In(m, g) => g <= made[m]
      BY DEF Fresh
    <3> QED  BY <1>2, <1>5, <3>1, <3>2, <3>3
  <2>3. ASSUME NEW m \in Node, NEW i \in DOMAIN pool'[m]
        PROVE  pool'[m][i] <= made'[m] /\ pool'[m][i] \notin Entries(table'[m])
    <3>1. made[m] \in Nat /\ made'[m] \in Nat
      BY P2PAssumption DEF TypeInv, TypeOK
    <3>2. pool'[m][i] \in Nat
      <4>1. pool'[m] \in Seq(Handler)
        BY DEF TypeInv, TypeOK
      <4> QED  BY <4>1, P2PAssumption DEF Handler
    <3>3. /\ made[m] <= made'[m] /\ pool'[m][i] <= made[m] /\ pool'[m][i] \notin Entries(table[m])
          /\ (m = n => pool'[m][i] # h)
      BY <1>2
    <3>4. pool'[m][i] <= made'[m]
      BY <3>1, <3>2, <3>3
    <3> QED  BY <1>5, <3>3, <3>4 DEF In
  <2>4. \A m \in Node : \A i, j \in DOMAIN pool'[m] : pool'[m][i] = pool'[m][j] => i = j
    BY <1>2
  <2> QED  BY <2>1, <2>2, <2>3, <2>4 DEF Fresh
<1>9. Placed'
  <2>1. ASSUME NEW m \in Node, NEW g \in Handler, In(m, g)'
        PROVE  HasBucket(m, hd'[m][g].dst) /\ Lives(hd'[m][g]) /\ AddrRight(m, g)' /\ Pinged(m, g)'
    <3>1. CASE m = n /\ g = h
      <4>1. Pinged(m, g)'
        BY <1>3, <1>4, <3>1 DEF Pinged
      <4>2. AddrRight(m, g)'
        <5>1. ASSUME addr # None
              PROVE  d \in Node /\ \E k \in Handler : addr = <<d, k>> /\ LeadsTo(d, k, n)'
          BY <1>7, <5>1, GrownKeeps
        <5> QED  BY <1>3, <1>4, <3>1, <5>1 DEF AddrRight
      <4> QED  BY <1>3, <1>4, <3>1, <4>1, <4>2
    <3>2. CASE ~(m = n /\ g = h)
      <4>1. In(m, g) /\ hd'[m][g] = hd[m][g]
        BY <1>4, <1>5, <2>1, <3>2
      <4>2. HasBucket(m, hd[m][g].dst) /\ Lives(hd[m][g]) /\ AddrRight(m, g) /\ Pinged(m, g)
        BY <4>1 DEF Placed
      <4>3. AddrRight(m, g)' /\ Pinged(m, g)'
        <5>1. /\ \A e \in Node, k \in Handler : LeadsTo(e, k, m) => LeadsTo(e, k, m)'
              /\ \A e \in Node : Pings(e, <<m, g>>) => Pings(e, <<m, g>>)'
          BY <1>7, GrownKeeps
        <5> QED  BY <4>1, <4>2, <5>1 DEF AddrRight, Pinged
      <4> QED  BY <4>1, <4>2, <4>3
    <3> QED  BY <3>1, <3>2
  <2> QED  BY <2>1 DEF Placed
<1>10. OneHandlerPerPeer'
  <2>1. ASSUME NEW m \in Node, NEW g, In(m, g)'
        PROVE  g \in InBucket(table'[m], getKDist(hd'[m][g].dst, m))
    <3>1. CASE m = n /\ g = h
      <4>1. getKDist(d, n) \in Buckets
        BY DEF HasBucket
      <4> QED  BY <1>1, <1>3, <1>4, <3>1, <4>1
    <3>2. CASE ~(m = n /\ g = h)
      <4>1. In(m, g) /\ g \in Handler
        BY <1>5, <1>6, <2>1, <3>2
      <4>2. hd'[m][g] = hd[m][g]
        BY <1>4, <3>2, <4>1
      <4>3. /\ g \in InBucket(table[m], getKDist(hd[m][g].dst, m))
            /\ getKDist(hd[m][g].dst, m) \in Buckets
        BY <4>1 DEF OneHandlerPerPeer, In, Placed, HasBucket
      <4>4. \A b \in Buckets : InBucket(table[m], b) \subseteq InBucket(table'[m], b)
        BY <1>1
      <4> QED  BY <4>2, <4>3, <4>4
    <3> QED  BY <3>1, <3>2
  <2>2. ASSUME NEW m \in Node, NEW f, NEW g, In(m, f)', In(m, g)',
               hd'[m][f].dst = hd'[m][g].dst
        PROVE  f = g
    <3>1. \A k : In(m, k) => /\ hd'[m][k].dst = hd[m][k].dst
                            /\ (m = n => hd'[m][k].dst # d)
      <4>1. \A k : In(m, k) => hd'[m][k] = hd[m][k]
        BY <1>4, <1>6
      <4> QED  BY <4>1
    <3>2. CASE In(m, f) /\ In(m, g)
      <4>1. hd[m][f].dst = hd[m][g].dst
        BY <2>2, <3>1, <3>2
      <4> QED  BY <3>2, <4>1 DEF OneHandlerPerPeer, In
    <3>3. CASE m = n /\ f = h /\ In(m, g)
      BY <1>3, <1>4, <2>2, <3>1, <3>3
    <3>4. CASE m = n /\ g = h /\ In(m, f)
      BY <1>3, <1>4, <2>2, <3>1, <3>4
    <3>5. CASE f = h /\ g = h
      BY <3>5
    <3> QED  BY <1>5, <2>2, <3>2, <3>3, <3>4, <3>5
  <2> QED  BY <2>1, <2>2 DEF OneHandlerPerPeer, In
<1>11. LeadsTo(n, h, d)'
  BY <1>3, <1>4, <1>5 DEF LeadsTo
<1> QED  BY <1>1, <1>7, <1>8, <1>9, <1>10, <1>11

\* What a step adds to what is on its way: CONN messages with the right socket,
\* notices of handlers in the table, datagrams a reader of one takes, pings.
SendWord ==
  \A n \in Node : \A m \in sendQ'[n] :
    \/ m \in sendQ[n]
    \/ SockRight(m)'
    \/ \E r \in inbox[n] : r.msg.ttl > 0 /\ m = Less(r.msg)
PostWord ==
  \A n \in Node : \A p \in posting'[n] : p \in posting[n] \/ In(n, p.h)
StateWord ==
  \A n \in Node : \A s \in stateQ'[n] :
    s \in stateQ[n] \/ (LeadsTo(n, s.h, s.peer) /\ s.state # "DISCONN")
ReadWord ==
  \A n \in Node : \A x \in taken'[n] :
    \/ \E y \in taken[n] : y.h = x.h /\ y.seen = x.seen /\ y.d = x.d
    \/ x.d \in net /\ In(n, x.h) /\ x.seen = hd[n][x.h].st
PingWord ==
  \A d \in net' : d \in net \/ d.type # "PING" \/ Pings(d.src, d.to)
Words == SendWord /\ PostWord /\ StateWord /\ ReadWord /\ PingWord

\* A channel a step leaves alone says nothing new.
LEMMA WordsStay ==
  /\ UNCHANGED sendQ => SendWord
  /\ UNCHANGED posting => PostWord
  /\ UNCHANGED stateQ => StateWord
  /\ UNCHANGED taken => ReadWord
  /\ UNCHANGED net => PingWord
BY DEF SendWord, PostWord, StateWord, ReadWord, PingWord

\* Taking something off a channel adds nothing.
LEMMA WordsDrop ==
  ASSUME TypeOK, NEW n \in Node, NEW x
  PROVE  /\ sendQ' = Drop(sendQ, n, x) => SendWord
         /\ posting' = Drop(posting, n, x) => PostWord
         /\ stateQ' = Drop(stateQ, n, x) => StateWord
         /\ taken' = Drop(taken, n, x) => ReadWord
<1>1. /\ sendQ = [m \in Node |-> sendQ[m]] /\ posting = [m \in Node |-> posting[m]]
      /\ stateQ = [m \in Node |-> stateQ[m]] /\ taken = [m \in Node |-> taken[m]]
  BY DEF TypeOK
<1>2. ASSUME sendQ' = Drop(sendQ, n, x) PROVE SendWord
  BY <1>1, <1>2 DEF SendWord, Drop
<1>3. ASSUME posting' = Drop(posting, n, x) PROVE PostWord
  BY <1>1, <1>3 DEF PostWord, Drop
<1>4. ASSUME stateQ' = Drop(stateQ, n, x) PROVE StateWord
  BY <1>1, <1>4 DEF StateWord, Drop
<1>5. ASSUME taken' = Drop(taken, n, x) PROVE ReadWord
  BY <1>1, <1>5 DEF ReadWord, Drop
<1> QED  BY <1>2, <1>3, <1>4, <1>5

\* As handlers keep their peers and addresses, what is on its way stays right.
LEMMA UnderwayStep ==
  ASSUME TypeInv, TypeInv', Underway, Grown, Words, Flow
  PROVE  Underway'
<1>1. /\ \A n \in Node : \A h \in Handler : In(n, h) => In(n, h)'
      /\ \A n \in Node : \A h \in Handler : \A d : LeadsTo(n, h, d) => LeadsTo(n, h, d)'
      /\ \A n \in Node : \A addr : Pings(n, addr) => Pings(n, addr)'
      /\ \A m : m.src \in Node /\ SockRight(m) => SockRight(m)'
  BY GrownKeeps DEF Grown
<1>2. \A n \in Node :
        /\ \A p \in posting'[n] : p.h \in Handler
        /\ \A s \in stateQ'[n] : s.h \in Handler
        /\ \A x \in taken'[n] : x.h \in Handler /\ x.d.src \in Node
  BY DEF TypeInv, TypeOK, Notice, Packet
<1>3. /\ \A n \in Node :
           /\ \A m \in sendQ[n] : m.src \in Node
           /\ \A x \in outQ[n] : x.msg.src \in Node
           /\ \A r \in inbox[n] : r.msg \in Message /\ r.msg.src \in Node
           /\ \A x \in taken[n] : x.d.type = "NET" => x.d.msg.src \in Node
      /\ \A d \in net : d.src \in Node /\ (d.type = "NET" => d.msg.src \in Node)
  BY DEF TypeInv, TypeOK, NetTyped, Carries, Packet, Message
<1>4. ASSUME NEW n \in Node, NEW p \in posting'[n] PROVE In(n, p.h)'
  <2>1. In(n, p.h)
    BY DEF Words, PostWord, Underway
  <2> QED  BY <1>1, <1>2, <2>1
<1>5. ASSUME NEW n \in Node, NEW s \in stateQ'[n]
      PROVE  LeadsTo(n, s.h, s.peer)' /\ s.state # "DISCONN"
  <2>1. LeadsTo(n, s.h, s.peer) /\ s.state # "DISCONN"
    BY DEF Words, StateWord, Underway
  <2> QED  BY <1>1, <1>2, <2>1
<1>6. ASSUME NEW n \in Node, NEW m \in sendQ'[n] PROVE SockRight(m)'
  <2>1. CASE m \in sendQ[n]
    BY <1>1, <1>3, <2>1 DEF Underway
  <2>2. ASSUME NEW r \in inbox[n], r.msg.ttl > 0, m = Less(r.msg)
        PROVE  SockRight(m)'
    <3>1. SockRight(r.msg)'
      BY <1>1, <1>3 DEF Underway
    <3>2. m.src = r.msg.src /\ m.dst = r.msg.dst /\ m.type = r.msg.type /\ m.sock = r.msg.sock
      BY <1>3, <2>2, LessHops DEF Less
    <3> QED  BY <3>1, <3>2 DEF SockRight
  <2> QED  BY <2>1, <2>2 DEF Words, SendWord
<1>7. ASSUME NEW n \in Node, NEW x \in outQ'[n] PROVE SockRight(x.msg)'
  <2>1. x.msg.src \in Node /\ SockRight(x.msg)
    BY <1>3 DEF Flow, OutFlow, Underway
  <2> QED  BY <1>1, <2>1
<1>8. ASSUME NEW n \in Node, NEW r \in inbox'[n] PROVE SockRight(r.msg)'
  <2>1. r.msg.src \in Node /\ SockRight(r.msg)
    BY <1>3 DEF Flow, InFlow, Underway
  <2> QED  BY <1>1, <2>1
<1>9. ASSUME NEW n \in Node, NEW x \in taken'[n]
      PROVE  /\ In(n, x.h)'
             /\ x.seen = "PING" => hd'[n][x.h].st \in {"PING", "CONN"}
             /\ x.d.type = "NET" => SockRight(x.d.msg)'
             /\ x.d.type = "PING" => Pings(x.d.src, x.d.to)'
  <2>1. /\ In(n, x.h)
        /\ x.seen = "PING" => hd[n][x.h].st \in {"PING", "CONN"}
        /\ x.d.type = "NET" => x.d.msg.src \in Node /\ SockRight(x.d.msg)
        /\ x.d.type = "PING" => Pings(x.d.src, x.d.to)
    BY <1>3 DEF Words, ReadWord, Underway
  <2>2. In(n, x.h)' /\ Later(hd[n][x.h], hd'[n][x.h])
    BY <1>2, <2>1 DEF Grown
  <2> QED  BY <1>1, <1>2, <2>1, <2>2 DEF Later
<1>10. ASSUME NEW d \in net'
       PROVE  /\ d.type = "NET" => SockRight(d.msg)'
              /\ d.type = "PING" => Pings(d.src, d.to)'
  <2>1. CASE d.type = "NET"
    <3>1. d.msg.src \in Node /\ SockRight(d.msg)
      BY <1>3, <2>1 DEF Flow, NetFlow, Underway
    <3> QED  BY <1>1, <2>1, <3>1
  <2>2. CASE d.type = "PING"
    <3>1. d.src \in Node
      BY DEF TypeInv, TypeOK, Packet
    <3>2. Pings(d.src, d.to)
      BY <2>2 DEF Words, PingWord, Underway
    <3> QED  BY <1>1, <2>2, <3>1, <3>2
  <2> QED  BY <2>1, <2>2
<1> QED  BY <1>4, <1>5, <1>6, <1>7, <1>8, <1>9, <1>10 DEF Underway

\* A handler that is not in the table has no goroutine and no token.
LEMMA Asleep ==
  ASSUME Fresh, NEW n \in Node, NEW h \in Handler, ~In(n, h)
  PROVE  /\ hd[n][h].loops = 0 /\ hd[n][h].ear = 0 /\ hd[n][h].stale = 0
         /\ hd[n][h].ctrl = 0 /\ ~hd[n][h].due /\ hd[n][h].connect = 0
BY DEF Fresh, NewHandler

Sound == Fresh /\ Placed /\ OneHandlerPerPeer

\* A step that leaves handlers, tables and pools alone.
LEMMA StillKeeps ==
  ASSUME TypeInv, TypeInv', Sound, UNCHANGED <<hd, table, pool, made>>
  PROVE  Grown /\ Sound'
<1>1. SameTables
  BY DEF SameTables
<1> QED  BY <1>1, MoveKeeps DEF Sound

\* The CONN message of Open names the socket of the handler opened.
LEMMA SaysWho ==
  ASSUME TypeInv, NEW n \in Node, NEW d, NEW h \in Handler,
         sendQ' = Put(sendQ, n, ConnMsg(n, d, h)), LeadsTo(n, h, d)'
  PROVE  SendWord
<1> DEFINE c == ConnMsg(n, d, h)
<1>1. c.src = n /\ c.dst = d /\ c.sock = <<n, h>>
  BY DEF ConnMsg, NetMsg
<1> HIDE DEF c
<1>2. SockRight(c)'
  BY <1>1 DEF SockRight
<1>3. \A m \in Node : sendQ'[m] = IF m = n THEN sendQ[m] \cup {c} ELSE sendQ[m]
  BY DEF TypeInv, TypeOK, Put, c
<1> QED  BY <1>2, <1>3 DEF SendWord

Kept == Grown /\ Sound' /\ Words

\* Calls, timers that tell or ping, a loss: no handler changes.
LEMMA KeptStill ==
  ASSUME TypeInv, TypeInv', Sound, Underway, NEW n \in Node,
         \/ \E d \in NodeID : ConnectUDP(n, d) \/ Send(n, d)
         \/ Stop(n) \/ ServerSend(n) \/ ServerPanics(n) \/ ServerState(n) \/ Post(n)
         \/ StaticRecv(n) \/ Lose
         \/ \E h \in Handler : WaitTick(n, h) \/ RetryTick(n, h) \/ PingTick(n, h)
  PROVE  Kept
<1> USE DEF Kept
<1>1. ASSUME NEW d \in NodeID, ConnectUDP(n, d) PROVE Kept
  BY <1>1, StillKeeps, WordsStay DEF ConnectUDP, Words
<1>2. ASSUME NEW d \in NodeID, Send(n, d) PROVE Kept
  <2> DEFINE c == NetMsg(n, d, "DATA", None, MAX_TTL)
  <2>1. /\ sendQ' = Put(sendQ, n, c)
        /\ UNCHANGED <<hd, table, pool, made, posting, stateQ, taken, net>>
    BY <1>2 DEF Send
  <2>2. c.type # "CONN"
    BY DEF NetMsg
  <2> HIDE DEF c
  <2>3. \A m \in Node : sendQ'[m] = IF m = n THEN sendQ[m] \cup {c} ELSE sendQ[m]
    BY <2>1 DEF TypeInv, TypeOK, Put
  <2>4. SendWord
    BY <2>2, <2>3 DEF SendWord, SockRight
  <2> QED  BY <2>1, <2>4, StillKeeps, WordsStay DEF Words
<1>3. CASE Stop(n) \/ ServerPanics(n)
  BY <1>3, StillKeeps, WordsStay DEF Stop, ServerPanics, Words
<1>4. CASE ServerSend(n)
  <2>1. PICK msg \in sendQ[n] : sendQ' = Drop(sendQ, n, msg)
    BY <1>4 DEF ServerSend
  <2>2. SendWord
    BY <2>1, WordsDrop DEF TypeInv
  <2> QED  BY <1>4, <2>2, StillKeeps, WordsStay DEF ServerSend, Words
<1>5. CASE ServerState(n)
  <2>1. PICK s \in stateQ[n] :
       /\ stateQ' = Drop(stateQ, n, s)
       /\ \/ UNCHANGED <<sendQ, hd, table, pool>>
          \/ /\ sendQ' = Put(sendQ, n, ConnMsg(n, s.peer, s.h))
             /\ UNCHANGED <<hd, table, pool>>
          \/ s.state = "DISCONN"
       /\ UNCHANGED <<made, posting, taken, net>>
    BY <1>5 DEF ServerState
  <2>2. s.state # "DISCONN" /\ LeadsTo(n, s.h, s.peer) /\ s.h \in Handler
    BY DEF Underway, TypeInv, TypeOK, Notice
  <2>3. Grown /\ Sound'
    BY <2>1, <2>2, StillKeeps
  <2>4. SendWord
    <3>1. CASE UNCHANGED sendQ
      BY <3>1, WordsStay
    <3>2. CASE sendQ' = Put(sendQ, n, ConnMsg(n, s.peer, s.h))
      <4>1. LeadsTo(n, s.h, s.peer)'
        BY <2>2, <2>3, GrownKeeps
      <4> QED  BY <2>2, <3>2, <4>1, SaysWho
    <3> QED  BY <2>1, <2>2, <3>1, <3>2
  <2>5. StateWord
    BY <2>1, WordsDrop DEF TypeInv
  <2> QED  BY <2>1, <2>3, <2>4, <2>5, WordsStay DEF Words
<1>6. CASE Post(n)
  <2> DEFINE Note(p) == [h |-> p.h, peer |-> hd[n][p.h].dst, state |-> hd[n][p.h].st, why |-> p.why]
  <2>1. PICK p \in posting[n] :
       /\ posting' = Drop(posting, n, p)
       /\ stateQ' = Put(stateQ, n, Note(p))
       /\ UNCHANGED <<hd, table, pool, made, sendQ, taken, net>>
    BY <1>6 DEF Post
  <2>2. LeadsTo(n, Note(p).h, Note(p).peer) /\ Note(p).state # "DISCONN"
    <3>1. In(n, p.h) /\ p.h \in Handler
      BY DEF Underway, TypeInv, TypeOK
    <3>2. hd[n][p.h].st # "DISCONN"
      BY <3>1 DEF Sound, Placed, Lives
    <3> QED  BY <3>1, <3>2 DEF LeadsTo
  <2> HIDE DEF Note
  <2>3. StateWord
    BY <2>1, <2>2 DEF StateWord, Put, TypeInv, TypeOK
  <2>4. PostWord
    BY <2>1, WordsDrop DEF TypeInv
  <2> QED  BY <2>1, <2>3, <2>4, StillKeeps, WordsStay DEF Words
<1>7. CASE StaticRecv(n) \/ Lose
  <2>1. /\ net' \subseteq net
        /\ UNCHANGED <<hd, table, pool, made, sendQ, posting, stateQ, taken>>
    BY <1>7 DEF StaticRecv, Lose
  <2>2. PingWord
    BY <2>1 DEF PingWord
  <2> QED  BY <2>1, <2>2, StillKeeps, WordsStay DEF Words
<1>8. ASSUME NEW h \in Handler, WaitTick(n, h) \/ RetryTick(n, h) PROVE Kept
  <2> DEFINE Note(state) == [h |-> h, peer |-> hd[n][h].dst, state |-> state, why |-> "tick"]
  <2>1. PICK state \in {"WAIT", "PING"} :
       /\ hd[n][h].loops > 0 /\ stateQ' = Put(stateQ, n, Note(state))
       /\ UNCHANGED <<hd, table, pool, made, sendQ, posting, taken, net>>
    BY <1>8 DEF WaitTick, RetryTick, Tick
  <2>2. LeadsTo(n, Note(state).h, Note(state).peer) /\ Note(state).state # "DISCONN"
    <3>1. In(n, h)
      BY <2>1, Asleep DEF Sound
    <3> QED  BY <3>1 DEF LeadsTo
  <2> HIDE DEF Note
  <2>3. StateWord
    BY <2>1, <2>2 DEF StateWord, Put, TypeInv, TypeOK
  <2> QED  BY <2>1, <2>3, StillKeeps, WordsStay DEF Words
<1>9. ASSUME NEW h \in Handler, PingTick(n, h) PROVE Kept
  <2> DEFINE d == Datagram(hd[n][h].addr, n, hd[n][h].dst, "PING", None)
  <2>1. /\ Alive(n) /\ Quiet /\ hd[n][h].loops > 0 /\ hd[n][h].addr # None
        /\ net' = net \cup {d}
        /\ UNCHANGED <<hd, table, pool, made, sendQ, posting, stateQ, taken>>
    BY <1>9 DEF PingTick
  <2>2. d.src = n /\ d.to = hd[n][h].addr
    BY DEF Datagram
  <2> HIDE DEF d
  <2>3. In(n, h)
    BY <2>1, Asleep DEF Sound
  <2>4. hd[n][h].connect = 0
    BY <2>1 DEF Quiet
  <2>5. hd[n][h].st \in {"PING", "CONN"}
    BY <2>1, <2>3, <2>4 DEF Sound, Placed, Lives
  <2>6. Pings(d.src, d.to)
    BY <2>2, <2>3, <2>5 DEF Pings
  <2>7. PingWord
    BY <2>1, <2>6 DEF PingWord
  <2> QED  BY <2>1, <2>7, StillKeeps, WordsStay DEF Words
<1> QED  BY <1>1, <1>2, <1>3, <1>4, <1>5, <1>6, <1>7, <1>8, <1>9

\* A look-up that finds nothing: no handler in the table leads to the id.
LEMMA NoneFor ==
  ASSUME TypeOK, Placed, OneHandlerPerPeer, NEW n \in Node, NEW d, HasBucket(n, d),
         NEW t \in TableOf(Handler),
         \A b \in Buckets : InBucket(t, b) = InBucket(table[n], b)
  PROVE  /\ ~Has(t, n, Dst(n), d) \/ Get(t, n, Dst(n), d) = NoHandler =>
              \A g : In(n, g) => hd[n][g].dst # d
         /\ Get(t, n, Dst(n), d) # NoHandler =>
              /\ Get(t, n, Dst(n), d) \in Handler
              /\ LeadsTo(n, Get(t, n, Dst(n), d), d)
<1> DEFINE b == getKDist(d, n)
           ids == Dst(n)
           h == Get(t, n, ids, d)
<1>1. /\ h # NoHandler => h \in Handler /\ h \in InBucket(t, b) /\ ids[h] = d
      /\ h = NoHandler \/ ~Has(t, n, ids, d) => \A g \in InBucket(t, b) : ids[g] # d
  <2> HIDE DEF ids
  <2>1. /\ h # NoHandler => h \in Handler /\ h \in InBucket(t, b) /\ ids[h] = d
        /\ NoHandler \notin Handler /\ h = NoHandler =>
             \A g \in InBucket(t, b) : ids[g] # d
        /\ ~Has(t, n, ids, d) => \A g \in InBucket(t, b) : ids[g] # d
    BY GetIs
  <2> QED  BY <2>1, NilAssumption
<1>2. b \in Buckets
  BY DEF HasBucket
<1>3. InBucket(t, b) = InBucket(table[n], b)
  BY <1>2
<1>4. \A g \in Handler : ids[g] = hd[n][g].dst
  BY DEF Dst
<1>5. \A g : In(n, g) => g \in Handler
  BY InTable DEF In
<1> HIDE DEF h, b, ids
<1>6. ASSUME NEW g, In(n, g), hd[n][g].dst = d PROVE g \in InBucket(t, b)
  BY <1>3, <1>6 DEF OneHandlerPerPeer, In, b
<1>7. h \in InBucket(table[n], b) => In(n, h)
  BY <1>2, InTable
<1>8. h # NoHandler => h \in Handler /\ LeadsTo(n, h, d)
  BY <1>1, <1>3, <1>4, <1>7 DEF LeadsTo
<1>9. h = NoHandler \/ ~Has(t, n, ids, d) => \A g : In(n, g) => hd[n][g].dst # d
  BY <1>1, <1>4, <1>5, <1>6
<1> QED  BY <1>8, <1>9 DEF h, ids

\* case id := <-nps.connectChan
LEMMA KeptConnect ==
  ASSUME TypeInv, TypeInv', Sound, Underway, NEW n \in Node, ServerConnect(n)
  PROVE  Kept
<1>1. PICK d \in connectQ[n] :
        /\ HasBucket(n, d)
        /\ IF Has(table[n], n, Dst(n), d)
           THEN UNCHANGED <<pool, made, hd, table, sendQ>>
           ELSE Open(n, d, None, 0, table[n])
        /\ UNCHANGED <<posting, stateQ, taken, net>>
  BY DEF ServerConnect
<1>2. CASE UNCHANGED <<pool, made, hd, table, sendQ>>
  BY <1>1, <1>2, StillKeeps, WordsStay DEF Kept, Words
<1>3. CASE ~Has(table[n], n, Dst(n), d) /\ Open(n, d, None, 0, table[n])
  <2>1. d \in NodeID /\ table[n] \in TableOf(Handler)
    BY InTable DEF TypeInv, TypeOK
  <2>2. \A g : In(n, g) => hd[n][g].dst # d
    BY <1>1, <1>3, <2>1, NoneFor DEF TypeInv, Sound
  <2> DEFINE addr == None
             tokens == 0
  <2>3. /\ addr \in Socket \cup {None} /\ tokens \in 0 .. 1 /\ addr = None /\ tokens = 0
        /\ Open(n, d, addr, tokens, table[n])
    BY <1>3
  <2> HIDE DEF addr, tokens
  <2>4. /\ Grown /\ Sound'
        /\ \E h \in Handler : sendQ' = Put(sendQ, n, ConnMsg(n, d, h)) /\ LeadsTo(n, h, d)'
    BY <1>1, <2>1, <2>2, <2>3, OpenKeeps DEF Sound
  <2>5. SendWord
    BY <2>4, SaysWho
  <2> QED  BY <1>1, <2>4, <2>5, WordsStay DEF Kept, Words
<1> QED  BY <1>1, <1>2, <1>3

\* A change to other fields of a handler than these leaves it as it lives.
SameLife(old, r) ==
  /\ r.dst = old.dst /\ r.addr = old.addr /\ r.st = old.st /\ r.loops = old.loops
  /\ r.connect = old.connect /\ r.due = old.due /\ r.ctrl = old.ctrl

\* What a handler's loop does to its tickers alone is a sound move.
LEMMA LightMove ==
  ASSUME Placed, NEW n \in Node, NEW h \in Handler, NEW r, In(n, h),
         hd' = HdWith(n, h, r), SameLife(hd[n][h], r)
  PROVE  MoveOf(n, h, r)
<1>1. Lives(hd[n][h]) /\ AddrRight(n, h) /\ Pinged(n, h)
  BY DEF Placed
<1>2. Lives(r) /\ Later(hd[n][h], r)
  BY <1>1 DEF Lives, Later, SameLife
<1>3. r.addr # None => \E d \in Node, g \in Handler :
                         r.dst = d /\ r.addr = <<d, g>> /\ LeadsTo(d, g, n)
  BY <1>1 DEF SameLife, AddrRight
<1>4. r.st = "CONN" => \E d \in Node : r.dst = d /\ Pings(d, <<n, h>>)
  BY <1>1 DEF SameLife, Pinged
<1> QED  BY <1>2, <1>3, <1>4 DEF MoveOf

\* A handler's loop sends.
LEMMA KeptHandlerSend ==
  ASSUME TypeInv, TypeInv', Sound, NEW n \in Node, HandlerSend(n)
  PROVE  Kept
<1> DEFINE New(h) == [hd[n][h] EXCEPT !.ping = TRUE]
<1>1. PICK x \in outQ[n] :
       /\ \/ hd' = hd
          \/ x.h # 0 /\ hd[n][x.h].loops > 0 /\ hd' = [hd EXCEPT ![n][x.h].ping = TRUE]
       /\ net' = net \/ \E to, d : net' = net \cup {Datagram(to, n, d, "NET", x.msg)}
       /\ UNCHANGED <<table, pool, made, sendQ, posting, stateQ, taken>>
  BY DEF HandlerSend
<1>2. PingWord
  <2>1. \A to, d : Datagram(to, n, d, "NET", x.msg).type = "NET"
    BY DEF Datagram
  <2> QED  BY <1>1, <2>1 DEF PingWord
<1>3. SameTables
  BY <1>1 DEF SameTables
<1>4. Grown /\ Sound'
  <2>1. CASE hd' = hd
    BY <1>3, <2>1, MoveKeeps DEF Sound
  <2>2. CASE x.h # 0 /\ hd[n][x.h].loops > 0 /\ hd' = [hd EXCEPT ![n][x.h].ping = TRUE]
    <3> DEFINE h == x.h
               r == [hd[n][h] EXCEPT !.ping = TRUE]
    <3>1. h \in Handler
      BY <2>2, P2PAssumption DEF Handler, TypeInv, TypeOK
    <3>2. hd' = HdWith(n, h, r)
      BY <2>2, <3>1 DEF HdWith, TypeInv, TypeOK
    <3>3. In(n, h)
      BY <2>2, <3>1, Asleep DEF Sound
    <3> HIDE DEF h
    <3>4. Fielded(hd[n][h]) /\ FieldsOK(hd[n][h])
      BY <3>1, OldHandler
    <3>5. Fielded(r) /\ FieldsOK(r) /\ SameLife(hd[n][h], r)
      <4>1. Fielded(r)
        BY <3>4 DEF Fielded
      <4>2. FieldsOK(r)
        BY <3>4 DEF Fielded, Fields, FieldsOK
      <4>3. SameLife(hd[n][h], r)
        BY <3>4 DEF Fielded, Fields, SameLife
      <4> QED  BY <4>1, <4>2, <4>3
    <3> HIDE DEF r
    <3>6. r \in HandlerType
      BY <3>5, HandlerIs
    <3>7. MoveOf(n, h, r)
      BY <3>1, <3>2, <3>3, <3>5, LightMove DEF Sound
    <3> QED  BY <1>3, <3>1, <3>6, <3>7, MoveKeeps DEF Sound
  <2> QED  BY <1>1, <2>1, <2>2
<1> QED  BY <1>1, <1>2, <1>4, WordsStay DEF Kept, Words

\* A reader of a handler takes a datagram, and sees the handler's state.
LEMMA KeptReaderTakes ==
  ASSUME TypeInv, TypeInv', Sound, NEW n \in Node, NEW h \in Handler,
         NEW type \in {"PING", "NET"}, ReaderTakes(n, h, type)
  PROVE  Kept
<1> DEFINE old == hd[n][h]
           Ear == [old EXCEPT !.ear = @ - 1]
           Stale == [old EXCEPT !.stale = @ - 1]
           Item(of, d) == [h |-> h, of |-> of, seen |-> old.st, d |-> d]
           Waits(of) == IF of = "loop" THEN old.ear > 0 ELSE old.stale > 0
           Left(of) == IF of = "loop" THEN Ear ELSE Stale
<1>1. PICK d \in net, of \in {"loop", "stale"} :
       /\ Waits(of) /\ net' = net \ {d}
       /\ \/ UNCHANGED <<hd, taken>>
          \/ /\ hd' = HdWith(n, h, Left(of))
             /\ taken' = taken \/ taken' = Put(taken, n, Item(of, d))
       /\ UNCHANGED <<table, pool, made, sendQ, posting, stateQ>>
  BY DEF ReaderTakes, HdWith, TypeInv, TypeOK
<1>2. Fielded(old) /\ FieldsOK(old)
  BY OldHandler
<1>3. In(n, h)
  BY <1>1, <1>2, Asleep DEF Sound
<1>4. PingWord
  BY <1>1 DEF PingWord
<1>5. SameTables
  BY <1>1 DEF SameTables
<1>6. CASE UNCHANGED <<hd, taken>>
  <2>1. Grown /\ Sound'
    BY <1>5, <1>6, MoveKeeps DEF Sound
  <2> QED  BY <1>1, <1>4, <1>6, <2>1, WordsStay DEF Kept, Words
<1>7. CASE /\ hd' = HdWith(n, h, Left(of))
           /\ taken' = taken \/ taken' = Put(taken, n, Item(of, d))
  <2>1. ReadWord
    <3>1. CASE taken' = taken
      BY <3>1, WordsStay
    <3>2. CASE taken' = Put(taken, n, Item(of, d))
      <4> DEFINE i == Item(of, d)
      <4>1. i.d = d /\ i.h = h /\ i.seen = hd[n][h].st
        OBVIOUS
      <4>2. taken' = Put(taken, n, i)
        BY <3>2
      <4> HIDE DEF i
      <4>3. \A m \in Node : taken'[m] = IF m = n THEN taken[m] \cup {i} ELSE taken[m]
        BY <4>2 DEF Put, TypeInv, TypeOK
      <4> QED  BY <1>3, <4>1, <4>3 DEF ReadWord
    <3> QED  BY <1>7, <3>1, <3>2
  <2> HIDE DEF Item
  <2>2. /\ Fielded(Left(of)) /\ FieldsOK(Left(of)) /\ SameLife(old, Left(of))
    <3> HIDE DEF old
    <3>1. CASE of = "loop"
      <4>1. old.ear - 1 \in Nat
        BY <1>1, <1>2, <3>1 DEF FieldsOK
      <4>2. Fielded(Ear) /\ FieldsOK(Ear)
        BY <1>2, <4>1 DEF Fielded, Fields, FieldsOK
      <4>3. SameLife(old, Ear)
        BY <1>2 DEF Fielded, Fields, SameLife
      <4> QED  BY <3>1, <4>2, <4>3
    <3>2. CASE of # "loop"
      <4>1. old.stale - 1 \in Nat
        BY <1>1, <1>2, <3>2 DEF FieldsOK
      <4>2. Fielded(Stale) /\ FieldsOK(Stale)
        BY <1>2, <4>1 DEF Fielded, Fields, FieldsOK
      <4>3. SameLife(old, Stale)
        BY <1>2 DEF Fielded, Fields, SameLife
      <4> QED  BY <3>2, <4>2, <4>3
    <3> QED  BY <3>1, <3>2
  <2> DEFINE r == Left(of)
  <2>3. hd' = HdWith(n, h, r) /\ SameLife(hd[n][h], r)
    BY <1>7, <2>2
  <2>4. r \in HandlerType
    BY <2>2, HandlerIs
  <2> HIDE DEF r
  <2>5. MoveOf(n, h, r)
    BY <1>3, <2>3, LightMove DEF Sound
  <2>6. Grown /\ Sound'
    BY <1>5, <2>4, <2>5, MoveKeeps DEF Sound
  <2> QED  BY <1>1, <1>4, <2>1, <2>6, WordsStay DEF Kept, Words
<1> HIDE DEF Left, Item
<1> QED  BY <1>1, <1>6, <1>7

\* A reader goes on: a ping heard in state PING connects a handler whose peer
\* pings it.
LEMMA KeptReaderHandles ==
  ASSUME TypeInv, TypeInv', Sound, Underway, NEW n \in Node, ReaderHandles(n)
  PROVE  Kept
<1>1. PICK x \in taken[n], pinged \in BOOLEAN, again \in BOOLEAN :
        /\ x \in Held
        /\ pinged = (x.d.type = "PING" /\ x.seen = "PING")
        /\ taken' = Drop(taken, n, x)
        /\ hd' = HdWith(n, x.h, Heard(hd[n][x.h], pinged, again))
        /\ posting' = IF pinged THEN Put(posting, n, [h |-> x.h, why |-> "pinged"])
                                ELSE posting
        /\ UNCHANGED <<table, pool, made, sendQ, stateQ, net>>
  BY ReaderHandlesIs
<1> DEFINE h == x.h
           p == [h |-> h, why |-> "pinged"]
           r == Heard(hd[n][h], pinged, again)
<1>2. /\ h \in Handler /\ In(n, h) /\ x.d.src \in Node /\ x.d.to = <<n, h>>
      /\ x.seen = "PING" => hd[n][h].st \in {"PING", "CONN"}
      /\ x.d.type = "PING" => Pings(x.d.src, x.d.to)
  BY <1>1 DEF Held, Packet, TypeInv, NetTyped, Underway
<1>3. hd[n][h] \in HandlerType
  BY <1>2, OldHandler
<1>4. /\ Fielded(r) /\ FieldsOK(r)
      /\ r.dst = hd[n][h].dst /\ r.addr = hd[n][h].addr /\ r.loops = hd[n][h].loops
      /\ r.connect = hd[n][h].connect /\ r.due = hd[n][h].due /\ r.ctrl = hd[n][h].ctrl
      /\ r.st = IF pinged THEN "CONN" ELSE hd[n][h].st
  BY <1>3, HeardIs
<1>5. hd' = HdWith(n, h, r)
  BY <1>1
<1> HIDE DEF r
<1>6. Lives(hd[n][h]) /\ AddrRight(n, h) /\ Pinged(n, h)
  BY <1>2 DEF Sound, Placed
<1>7. MoveOf(n, h, r)
  <2>1. pinged => hd[n][h].st \in {"PING", "CONN"}
    BY <1>1, <1>2
  <2>2. Lives(r) /\ Later(hd[n][h], r)
    BY <1>4, <1>6, <2>1 DEF Lives, Later
  <2>3. r.addr # None => \E d \in Node, g \in Handler :
                         r.dst = d /\ r.addr = <<d, g>> /\ LeadsTo(d, g, n)
    BY <1>4, <1>6 DEF AddrRight
  <2>4. r.st = "CONN" => \E d \in Node : r.dst = d /\ Pings(d, <<n, h>>)
    <3>1. CASE pinged
      <4>1. Pings(x.d.src, <<n, h>>)
        BY <1>1, <1>2, <3>1
      <4>2. PICK g \in Handler : In(x.d.src, g) /\ hd[x.d.src][g].addr = <<n, h>>
        BY <4>1 DEF Pings
      <4>3. <<n, h>> # None
        <5>1. <<n, h>> \in Socket
          BY <1>2, P2PAssumption DEF Socket, Handler
        <5> QED  BY <5>1, NilAssumption
      <4>4. AddrRight(x.d.src, g)
        BY <1>2, <4>2 DEF Sound, Placed
      <4>5. LeadsTo(n, h, x.d.src)
        BY <4>2, <4>3, <4>4 DEF AddrRight
      <4>6. r.dst = x.d.src
        BY <1>4, <4>5 DEF LeadsTo
      <4> QED  BY <1>2, <4>1, <4>6
    <3>2. CASE ~pinged
      BY <1>4, <1>6, <3>2 DEF Pinged
    <3> QED  BY <3>1, <3>2
  <2> QED  BY <1>2, <1>5, <2>2, <2>3, <2>4 DEF MoveOf
<1>8. r \in HandlerType
  BY <1>4, HandlerIs
<1>9. SameTables
  BY <1>1 DEF SameTables
<1>10. Grown /\ Sound'
  <2> HIDE DEF h
  <2> QED  BY <1>2, <1>7, <1>8, <1>9, MoveKeeps DEF Sound
<1>11. PostWord
  <2>1. posting' = posting \/ posting' = Put(posting, n, p)
    BY <1>1
  <2>2. p.h = h
    OBVIOUS
  <2> HIDE DEF p
  <2>3. CASE posting' = posting
    BY <2>3, WordsStay
  <2>4. CASE posting' = Put(posting, n, p)
    <3>1. \A m \in Node : posting'[m] = IF m = n THEN posting[m] \cup {p} ELSE posting[m]
      BY <2>4 DEF Put, TypeInv, TypeOK
    <3>2. In(n, p.h)
      BY <1>2, <2>2
    <3> QED  BY <3>1, <3>2 DEF PostWord
  <2> QED  BY <2>1, <2>3, <2>4
<1>12. ReadWord
  BY <1>1, WordsDrop DEF TypeInv
<1> QED  BY <1>1, <1>10, <1>11, <1>12, WordsStay DEF Kept, Words

\* case <-nph.connectChan: a handler that has been given an address goes on to
\* PING.  No loop is told to stop, and no timer is due.
LEMMA KeptHandling ==
  ASSUME TypeInv, TypeInv', Sound, NEW n \in Node, NEW h \in Handler, Handling(n, h)
  PROVE  Kept
<1>1. ASSUME In(n, h) PROVE Lives(hd[n][h]) /\ AddrRight(n, h) /\ Pinged(n, h)
  BY <1>1 DEF Sound, Placed
<1>2. ~HandlerDisconn(n, h)
  BY <1>1, Asleep DEF Sound, Lives, HandlerDisconn
<1>3. ~HandlerStop(n, h)
  BY <1>1, Asleep DEF Sound, Lives, HandlerStop
<1>4. CASE HandlerConnect(n, h)
  <2> DEFINE old == hd[n][h]
             Taker == [old EXCEPT !.connect = @ - 1]
             Begun == [Taker EXCEPT !.st = "PING", !.wait = FALSE, !.retry = TRUE,
                                    !.ping = TRUE, !.alarm = TRUE]
             After == IF Taker.st = "WAIT" THEN Begun ELSE Taker
  <2>1. /\ old.connect > 0 /\ hd' = HdWith(n, h, After)
        /\ UNCHANGED <<table, pool, made, sendQ, posting, stateQ, taken, net>>
    BY <1>4 DEF HandlerConnect, HdWith
  <2>2. Fielded(old) /\ FieldsOK(old)
    BY OldHandler
  <2>3. In(n, h)
    BY <2>1, <2>2, Asleep DEF Sound
  <2>4. Lives(old) /\ AddrRight(n, h) /\ Pinged(n, h)
    BY <1>1, <2>3
  <2> HIDE DEF old
  <2>5. /\ Fielded(Taker) /\ FieldsOK(Taker)
        /\ Taker.dst = old.dst /\ Taker.loops = old.loops /\ Taker.addr = old.addr
        /\ Taker.st = old.st /\ Taker.due = old.due /\ Taker.ctrl = old.ctrl
        /\ Taker.connect = old.connect - 1
    <3>1. old.connect - 1 \in Nat
      BY <2>1, <2>2 DEF FieldsOK
    <3> QED  BY <2>2, <3>1 DEF Fielded, Fields, FieldsOK
  <2> HIDE DEF Taker
  <2>6. /\ Fielded(Begun) /\ FieldsOK(Begun)
        /\ Begun.dst = Taker.dst /\ Begun.loops = Taker.loops /\ Begun.addr = Taker.addr
        /\ Begun.st = "PING" /\ Begun.due = Taker.due /\ Begun.ctrl = Taker.ctrl
        /\ Begun.connect = Taker.connect
    BY <2>5 DEF Fielded, Fields, FieldsOK, State
  <2> HIDE DEF Begun
  <2>7. /\ Fielded(After) /\ FieldsOK(After)
        /\ After.dst = old.dst /\ After.loops = old.loops /\ After.addr = old.addr
        /\ After.due = old.due /\ After.ctrl = old.ctrl /\ After.connect = old.connect - 1
        /\ After.st = IF old.st = "WAIT" THEN "PING" ELSE old.st
    BY <2>5, <2>6
  <2> HIDE DEF After
  <2>8. old.addr # None
    BY <2>1, <2>4 DEF Lives
  <2>9. Lives(After) /\ Later(old, After)
    BY <2>4, <2>7, <2>8 DEF Lives, Later
  <2>10. After.addr # None => \E d \in Node, g \in Handler :
                After.dst = d /\ After.addr = <<d, g>> /\ LeadsTo(d, g, n)
    BY <2>4, <2>7 DEF AddrRight, old
  <2>11. After.st = "CONN" => \E d \in Node : After.dst = d /\ Pings(d, <<n, h>>)
    BY <2>4, <2>7 DEF Pinged, old
  <2>12. MoveOf(n, h, After)
    BY <2>1, <2>3, <2>9, <2>10, <2>11 DEF MoveOf, old
  <2>13. After \in HandlerType
    BY <2>7, HandlerIs
  <2>14. SameTables
    BY <2>1 DEF SameTables
  <2>15. Grown /\ Sound'
    BY <2>12, <2>13, <2>14, MoveKeeps DEF Sound
  <2> QED  BY <2>1, <2>15, WordsStay DEF Kept, Words
<1> QED  BY <1>2, <1>3, <1>4 DEF Handling

\* case msg := <-nps.handlerChan
LEMMA KeptRecv ==
  ASSUME TypeInv, TypeInv', Sound, Underway, NEW n \in Node, ServerRecv(n)
  PROVE  Kept
<1> DEFINE T(r) == Update(table[n], n, Dst(n), r.via)
           H(r) == Get(T(r), n, Dst(n), r.msg.src)
<1>1. PICK r \in inbox[n] :
        /\ HasBucket(n, r.via)
        /\ \/ /\ r.msg.dst = n /\ r.msg.type = "CONN" /\ HasBucket(n, r.msg.src)
              /\ H(r) = NoHandler
              /\ Open(n, r.msg.src, r.msg.sock, 1, T(r))
           \/ /\ r.msg.dst = n /\ r.msg.type = "CONN" /\ HasBucket(n, r.msg.src)
              /\ H(r) # NoHandler
              /\ hd' = IF hd[n][H(r)].st # "WAIT" THEN hd
                       ELSE [hd EXCEPT ![n][H(r)].dst = r.msg.src,
                                       ![n][H(r)].addr = r.msg.sock,
                                       ![n][H(r)].connect = @ + 1]
              /\ table' = [table EXCEPT ![n] = T(r)]
              /\ UNCHANGED <<pool, made, sendQ>>
           \/ /\ PassOn(n, r.msg) \/ UNCHANGED sendQ
              /\ table' = [table EXCEPT ![n] = T(r)]
              /\ UNCHANGED <<pool, made, hd>>
        /\ UNCHANGED <<posting, stateQ, taken, net>>
  BY DEF ServerRecv
<1>2. /\ r.via \in Node /\ r.msg \in Message /\ table[n] \in TableOf(Handler)
      /\ r.msg.src \in Node /\ r.msg.src \in NodeID /\ r.msg.sock \in Socket \cup {None}
      /\ SockRight(r.msg)
  <2>1. inbox \in [Node -> SUBSET [via : Node, msg : Message]]
    BY DEF TypeInv, TypeOK
  <2>2. r.via \in Node /\ r.msg \in Message
    BY <2>1
  <2>3. /\ r.msg.src \in Node /\ r.msg.src \in NodeID
        /\ r.msg.sock \in Socket \cup {None}
    BY <2>2, P2PAssumption DEF Message
  <2>4. table[n] \in TableOf(Handler)
    BY DEF TypeInv, TypeOK, TableOf
  <2>5. SockRight(r.msg)
    BY DEF Underway
  <2> QED  BY <2>2, <2>3, <2>4, <2>5
<1>3. T(r) \in TableOf(Handler) /\ \A b \in Buckets : InBucket(T(r), b) = InBucket(table[n], b)
  <2> DEFINE ids == Dst(n)
             u == Update(table[n], n, ids, r.via)
  <2> HIDE DEF ids
  <2>1. HasBucket(n, r.via) /\ table[n] \in TableOf(Handler)
    <3> HIDE DEF T, H
    <3> QED  BY <1>1, <1>2
  <2>2. u \in TableOf(Handler) /\ \A b \in Buckets : InBucket(u, b) = InBucket(table[n], b)
    BY <2>1, UpdateIs
  <2> HIDE DEF u
  <2>3. T(r) = u
    BY DEF u, ids
  <2> HIDE DEF T
  <2> QED  BY <2>2, <2>3
<1>4. ASSUME r.msg.dst = n, r.msg.type = "CONN"
      PROVE  r.msg.sock # None /\ \E g \in Handler : r.msg.sock = <<r.msg.src, g>> /\ LeadsTo(r.msg.src, g, n)
  <2>1. PICK g \in Handler : r.msg.sock = <<r.msg.src, g>> /\ LeadsTo(r.msg.src, g, n)
    BY <1>2, <1>4 DEF SockRight
  <2>2. <<r.msg.src, g>> \in Socket
    BY <1>2, P2PAssumption DEF Socket, Handler
  <2> QED  BY <2>1, <2>2, NilAssumption
<1> DEFINE t == T(r)
           h == H(r)
<1>5. /\ HasBucket(n, r.msg.src) /\ h = NoHandler =>
           \A g : In(n, g) => hd[n][g].dst # r.msg.src
      /\ HasBucket(n, r.msg.src) /\ h # NoHandler =>
           h \in Handler /\ LeadsTo(n, h, r.msg.src)
  <2> DEFINE d == r.msg.src
  <2> HIDE DEF d
  <2>1. t \in TableOf(Handler) /\ \A b \in Buckets : InBucket(t, b) = InBucket(table[n], b)
    BY <1>3
  <2>2. h = Get(t, n, Dst(n), d)
    BY DEF d
  <2> HIDE DEF h, t
  <2>3. ASSUME HasBucket(n, d)
        PROVE  /\ h = NoHandler => \A g : In(n, g) => hd[n][g].dst # d
               /\ h # NoHandler => h \in Handler /\ LeadsTo(n, h, d)
    BY <2>1, <2>2, <2>3, NoneFor DEF TypeInv, Sound
  <2> QED  BY <2>3 DEF d
<1>6. ASSUME table' = [table EXCEPT ![n] = t], UNCHANGED <<pool, made>>
      PROVE  SameTables
  <2>1. \A m \in Node : table'[m] = IF m = n THEN t ELSE table[m]
    BY <1>6 DEF TypeInv, TypeOK
  <2> QED  BY <1>3, <1>6, <2>1 DEF SameTables
<1> HIDE DEF T, H, t, h
<1>7. CASE /\ r.msg.dst = n /\ r.msg.type = "CONN" /\ HasBucket(n, r.msg.src)
           /\ h = NoHandler
           /\ Open(n, r.msg.src, r.msg.sock, 1, t)
  <2> DEFINE d == r.msg.src
             addr == r.msg.sock
             tokens == 1
  <2>1. /\ d \in NodeID /\ d \in Node /\ HasBucket(n, d) /\ addr \in Socket \cup {None}
        /\ tokens \in 0 .. 1 /\ tokens = 1 /\ addr # None
        /\ \E g \in Handler : addr = <<d, g>> /\ LeadsTo(d, g, n)
        /\ Open(n, d, addr, tokens, t)
    BY <1>2, <1>4, <1>7
  <2>2. \A g : In(n, g) => hd[n][g].dst # d
    BY <1>5, <1>7
  <2>3. t \in TableOf(Handler) /\ \A b \in Buckets : InBucket(t, b) = InBucket(table[n], b)
    BY <1>3 DEF t
  <2> HIDE DEF d, addr, tokens
  <2>4. /\ Grown /\ Sound'
        /\ \E k \in Handler : sendQ' = Put(sendQ, n, ConnMsg(n, d, k)) /\ LeadsTo(n, k, d)'
    BY <2>1, <2>2, <2>3, OpenKeeps DEF Sound
  <2>5. SendWord
    BY <2>4, SaysWho
  <2> QED  BY <1>1, <2>4, <2>5, WordsStay DEF Kept, Words
<1>8. CASE /\ r.msg.dst = n /\ r.msg.type = "CONN" /\ HasBucket(n, r.msg.src)
           /\ h # NoHandler
           /\ hd' = IF hd[n][h].st # "WAIT" THEN hd
                    ELSE [hd EXCEPT ![n][h].dst = r.msg.src, ![n][h].addr = r.msg.sock,
                                    ![n][h].connect = @ + 1]
           /\ table' = [table EXCEPT ![n] = t]
           /\ UNCHANGED <<pool, made, sendQ>>
  <2> DEFINE x == [hd[n][h] EXCEPT !.dst = r.msg.src, !.addr = r.msg.sock, !.connect = @ + 1]
  <2>1. h \in Handler /\ LeadsTo(n, h, r.msg.src)
    BY <1>5, <1>8
  <2>2. SameTables
    BY <1>6, <1>8
  <2>3. CASE hd' = hd
    <3>1. Grown /\ Sound'
      BY <2>2, <2>3, MoveKeeps DEF Sound
    <3> QED  BY <1>1, <1>8, <3>1, WordsStay DEF Kept, Words
  <2>4. CASE /\ hd[n][h].st = "WAIT"
             /\ hd' = [hd EXCEPT ![n][h].dst = r.msg.src, ![n][h].addr = r.msg.sock,
                                 ![n][h].connect = @ + 1]
    <3>1. hd' = HdWith(n, h, x)
      <4>1. h \in Handler /\ hd \in [Node -> [Handler -> HandlerType]]
        BY <2>1 DEF TypeInv, TypeOK
      <4>2. hd' = [hd EXCEPT ![n] = [hd[n] EXCEPT ![h] = x]]
        BY <2>4, <4>1
      <4> HIDE DEF x
      <4> QED  BY <4>1, <4>2 DEF HdWith
    <3>2. Fielded(hd[n][h]) /\ FieldsOK(hd[n][h])
      BY <2>1, OldHandler
    <3>3. Fielded(x)
      BY <3>2 DEF Fielded
    <3>4. FieldsOK(x)
      BY <3>2, <1>2 DEF Fielded, Fields, FieldsOK
    <3>5. /\ x.dst = r.msg.src /\ x.addr = r.msg.sock /\ x.connect = hd[n][h].connect + 1
          /\ x.st = hd[n][h].st /\ x.loops = hd[n][h].loops /\ x.due = hd[n][h].due
          /\ x.ctrl = hd[n][h].ctrl
      BY <3>2 DEF Fielded, Fields
    <3>6. x \in HandlerType
      BY <3>3, <3>4, HandlerIs
    <3> HIDE DEF x
    <3>7. MoveOf(n, h, x)
      <4>1. In(n, h) /\ hd[n][h].dst = r.msg.src /\ Lives(hd[n][h])
        BY <2>1 DEF LeadsTo, Sound, Placed
      <4>2. x.connect > 0
        BY <3>2, <3>5 DEF FieldsOK
      <4>3. Lives(x) /\ Later(hd[n][h], x)
        BY <1>4, <1>8, <2>4, <3>5, <4>1, <4>2 DEF Lives, Later
      <4>4. \E d \in Node, g \in Handler :
               x.dst = d /\ x.addr = <<d, g>> /\ LeadsTo(d, g, n)
        BY <1>2, <1>4, <1>8, <3>5
      <4>5. x.st # "CONN"
        BY <2>4, <3>5
      <4> QED  BY <3>1, <4>1, <4>3, <4>4, <4>5 DEF MoveOf
    <3>8. Grown /\ Sound'
      BY <2>1, <2>2, <3>6, <3>7, MoveKeeps DEF Sound
    <3> QED  BY <1>1, <1>8, <3>8, WordsStay DEF Kept, Words
  <2> QED  BY <1>8, <2>3, <2>4
<1>9. CASE /\ PassOn(n, r.msg) \/ UNCHANGED sendQ
           /\ table' = [table EXCEPT ![n] = t]
           /\ UNCHANGED <<pool, made, hd>>
  <2>1. Grown /\ Sound'
    BY <1>6, <1>9, MoveKeeps DEF Sound
  <2>2. SendWord
    <3>1. CASE UNCHANGED sendQ
      BY <3>1, WordsStay
    <3>2. CASE r.msg.ttl > 0 /\ PassOn(n, r.msg)
      <4> DEFINE l == Less(r.msg)
      <4>1. sendQ' = Put(sendQ, n, l)
        BY <3>2 DEF PassOn, Less
      <4> HIDE DEF l
      <4>2. \A m \in Node : sendQ'[m] = IF m = n THEN sendQ[m] \cup {l} ELSE sendQ[m]
        BY <4>1 DEF TypeInv, TypeOK, Put
      <4> QED  BY <3>2, <4>2 DEF SendWord, l
    <3>3. CASE ~(r.msg.ttl > 0) /\ PassOn(n, r.msg)
      BY <3>3, WordsStay DEF PassOn
    <3> QED  BY <1>9, <3>1, <3>2, <3>3
  <2> QED  BY <1>1, <1>9, <2>1, <2>2, WordsStay DEF Kept, Words
<1> QED  BY <1>1, <1>7, <1>8, <1>9 DEF h, t

\* Every step of every node, when no disconnect timer goes off in it.
LEMMA KeptStep ==
  ASSUME TypeInv, TypeInv', Sound, Underway, NoneExpired, NoneExpired', [Next]_vars
  PROVE  Kept
<1>1. ASSUME NEW n \in Node, Server(n) \/ Goroutines(n) \/ Stop(n)
      PROVE  Kept
  <2>1. CASE Server(n)
    BY <2>1, KeptConnect, KeptStill, KeptRecv DEF Server
  <2>2. CASE Goroutines(n)
    BY <2>2, KeptHandlerSend, KeptStill, KeptReaderHandles DEF Goroutines
  <2>3. CASE Stop(n)
    BY <2>3, KeptStill
  <2> QED  BY <1>1, <2>1, <2>2, <2>3
<1>2. ASSUME NEW n \in Node, NEW d \in NodeID, ConnectUDP(n, d) \/ Send(n, d)
      PROVE  Kept
  BY <1>2, KeptStill
<1>3. ASSUME NEW n \in Node, NEW h \in Handler,
             \/ WaitTick(n, h) \/ RetryTick(n, h) \/ PingTick(n, h)
      PROVE  Kept
  BY <1>3, KeptStill
<1>4. ASSUME NEW n \in Node, NEW h \in Handler,
             \/ Handling(n, h)
             \/ \E type \in {"PING", "NET"} : ReaderTakes(n, h, type)
      PROVE  Kept
  BY <1>4, KeptHandling, KeptReaderTakes
<1>5. ASSUME NEW n \in Node, NEW h \in Handler, Expire(n, h)
      PROVE  FALSE
  <2>1. expired' = [expired EXCEPT ![n] = @ + 1]
    BY <1>5 DEF Expire
  <2>2. expired'[n] = expired[n] + 1
    BY <2>1 DEF TypeInv, TypeOK
  <2> QED  BY <2>2 DEF NoneExpired
<1>6. CASE Lose
  <2>1. \E n \in Node : TRUE
    BY <1>6 DEF Lose, TypeInv, TypeOK, Packet
  <2> QED  BY <1>6, <2>1, KeptStill
<1>7. CASE UNCHANGED vars
  BY <1>7, StillKeeps, WordsStay DEF vars, Kept, Words
<1> QED  BY <1>1, <1>2, <1>3, <1>4, <1>5, <1>6, <1>7 DEF Next

FullInv == TypeInv /\ (NoneExpired => ConnInv)

\* A timer that has gone off stays so.
LEMMA ExpiredStays ==
  ASSUME TypeInv, [Next]_vars, NoneExpired'
  PROVE  NoneExpired
<1>1. UNCHANGED expired \/ \E n \in Node, h \in Handler : Expire(n, h)
  <2>1. ASSUME NEW n \in Node, Server(n)
        PROVE  UNCHANGED expired
    BY <2>1 DEF Server, ServerConnect, ServerSend, ServerRecv, ServerState, ServerPanics
  <2>2. ASSUME NEW n \in Node, Goroutines(n) \/ Stop(n)
        PROVE  UNCHANGED expired
    BY <2>2 DEF Goroutines, Stop, HandlerSend, Post, ReaderHandles, StaticRecv
  <2>3. ASSUME NEW n \in Node, NEW d \in NodeID, ConnectUDP(n, d) \/ Send(n, d)
        PROVE  UNCHANGED expired
    BY <2>3 DEF ConnectUDP, Send
  <2>4. ASSUME NEW n \in Node, NEW h \in Handler, Handling(n, h)
        PROVE  UNCHANGED expired
    BY <2>4 DEF Handling, HandlerConnect, HandlerDisconn, HandlerStop
  <2>5. ASSUME NEW n \in Node, NEW h \in Handler,
               WaitTick(n, h) \/ RetryTick(n, h) \/ PingTick(n, h)
        PROVE  UNCHANGED expired
    BY <2>5 DEF WaitTick, RetryTick, Tick, PingTick
  <2>6. ASSUME NEW n \in Node, NEW h \in Handler,
               \E type \in {"PING", "NET"} : ReaderTakes(n, h, type)
        PROVE  UNCHANGED expired
    BY <2>6 DEF ReaderTakes
  <2>7. CASE Lose
    BY <2>7 DEF Lose
  <2>8. CASE UNCHANGED vars
    BY <2>8 DEF vars
  <2> QED  BY <2>1, <2>2, <2>3, <2>4, <2>5, <2>6, <2>7, <2>8 DEF Next
<1>2. ASSUME NEW n \in Node, NEW h \in Handler, Expire(n, h)
      PROVE  FALSE
  <2>1. expired' = [expired EXCEPT ![n] = @ + 1]
    BY <1>2 DEF Expire
  <2>2. expired'[n] = expired[n] + 1 /\ expired[n] \in Nat
    BY <2>1 DEF TypeInv, TypeOK
  <2> QED  BY <2>2 DEF NoneExpired
<1> QED  BY <1>1, <1>2 DEF NoneExpired

\* Initially every handler is fresh in the pool and nothing is on its way.
LEMMA ConnInit ==
  ASSUME Init
  PROVE  ConnInv
<1>1. \A n \in Node : Entries(table[n]) = {}
  <2>1. \A n \in Node : table[n] = [b \in Buckets |-> <<>>]
    BY DEF Init, NewKadDHT
  <2> QED  BY <2>1 DEF Entries, InBucket
<1>2. \A n \in Node : \A h : ~In(n, h)
  BY <1>1 DEF In
<1>3. Fresh
  <2>1. \A n \in Node, h \in Handler : hd[n][h] = NewHandler
    BY DEF Init
  <2>2. \A n \in Node : pool[n] = [i \in 1 .. PooledCnt |-> PooledCnt + 1 - i] /\ made[n] = PooledCnt
    BY DEF Init
  <2>3. /\ \A i \in 1 .. PooledCnt : PooledCnt + 1 - i <= PooledCnt
        /\ \A i, j \in 1 .. PooledCnt : PooledCnt + 1 - i = PooledCnt + 1 - j => i = j
    BY P2PAssumption
  <2>4. ASSUME NEW n \in Node
        PROVE  /\ \A i \in DOMAIN pool[n] : pool[n][i] <= made[n]
               /\ \A i, j \in DOMAIN pool[n] : pool[n][i] = pool[n][j] => i = j
    <3>1. /\ DOMAIN pool[n] = 1 .. PooledCnt /\ made[n] = PooledCnt
          /\ \A i \in 1 .. PooledCnt : pool[n][i] = PooledCnt + 1 - i
      BY <2>2
    <3>2. \A i \in DOMAIN pool[n] : pool[n][i] <= made[n]
      BY <2>3, <3>1
    <3>3. \A i, j \in DOMAIN pool[n] : pool[n][i] = pool[n][j] => i = j
      <4> SUFFICES ASSUME NEW i \in DOMAIN pool[n], NEW j \in DOMAIN pool[n],
                          pool[n][i] = pool[n][j]
                   PROVE  i = j
        OBVIOUS
      <4>1. PooledCnt + 1 - i = PooledCnt + 1 - j
        BY <3>1
      <4>2. i \in 1 .. PooledCnt /\ j \in 1 .. PooledCnt
        BY <3>1
      <4> QED  BY <2>3, <4>1, <4>2
    <3> QED  BY <3>2, <3>3
  <2> QED  BY <1>1, <1>2, <2>1, <2>4 DEF Fresh
<1>4. Placed
  BY <1>2 DEF Placed
<1>5. OneHandlerPerPeer
  BY <1>1 DEF OneHandlerPerPeer
<1>6. Underway
  <2>1. /\ net = {}
        /\ \A n \in Node : /\ sendQ[n] = {} /\ outQ[n] = {} /\ inbox[n] = {}
                           /\ taken[n] = {} /\ posting[n] = {} /\ stateQ[n] = {}
    BY DEF Init
  <2> QED  BY <2>1 DEF Underway
<1> QED  BY <1>3, <1>4, <1>5, <1>6 DEF ConnInv

\* Until a disconnect timer goes off the handlers of a node are where their
\* peers say they are.
LEMMA ConnInvariance == Spec => []FullInv
<1>1. Init => FullInv
  BY TypeInit, ConnInit DEF FullInv
<1>2. FullInv /\ [Next]_vars => FullInv'
  <2> SUFFICES ASSUME FullInv, [Next]_vars, NoneExpired'
               PROVE  ConnInv'
    BY TypeStep DEF FullInv
  <2>1. TypeInv /\ TypeInv' /\ NoneExpired /\ ConnInv /\ Flow
    BY TypeStep, ExpiredStays, FlowStep DEF FullInv
  <2>2. Kept
    BY <2>1, KeptStep DEF ConnInv, Sound
  <2>3. Underway'
    BY <2>1, <2>2, UnderwayStep DEF ConnInv, Kept
  <2> QED  BY <2>2, <2>3 DEF Kept, Sound, ConnInv
<1> QED  BY <1>1, <1>2, PTL DEF Spec

\* As long as no disconnect timer has gone off, the loop's look-ups before it
\* opens a handler (net/p2p.go) keep one handler per peer, in its peer's bucket.
THEOREM OnePerPeer == Spec => [](NoneExpired => OneHandlerPerPeer)
<1>1. FullInv => (NoneExpired => OneHandlerPerPeer)
  BY DEF FullInv, ConnInv
<1> QED  BY <1>1, ConnInvariance, PTL

\* A handler of the peer's whose address is this one's socket is the one whose
\* socket this one has, as the peer has one handler for this node.
LEMMA BothKnow ==
  ASSUME TypeInv, ConnInv
  PROVE  ConnectedBothKnow
<1> SUFFICES ASSUME NEW n \in Node, NEW h \in Entries(table[n]), hd[n][h].st = "CONN"
             PROVE  \E g \in Entries(table[hd[n][h].dst]) :
                      /\ hd[hd[n][h].dst][g].dst = n
                      /\ hd[hd[n][h].dst][g].addr = <<n, h>>
                      /\ hd[hd[n][h].dst][g].st \in {"PING", "CONN"}
                      /\ hd[n][h].addr = <<hd[n][h].dst, g>>
  BY DEF ConnectedBothKnow
<1>1. h \in Handler /\ In(n, h)
  BY InTable DEF TypeInv, In
<1>2. Lives(hd[n][h]) /\ AddrRight(n, h) /\ Pinged(n, h)
  BY <1>1 DEF ConnInv, Placed
<1>3. PICK d \in Node : hd[n][h].dst = d /\ Pings(d, <<n, h>>)
  BY <1>2 DEF Pinged
<1>4. PICK g \in Handler : /\ In(d, g) /\ hd[d][g].addr = <<n, h>>
                           /\ hd[d][g].st \in {"PING", "CONN"}
  BY <1>3 DEF Pings
<1>5. hd[d][g].dst = n
  <2>1. <<n, h>> # None
    <3>1. <<n, h>> \in Socket
      BY <1>1, P2PAssumption DEF Socket, Handler
    <3> QED  BY <3>1, NilAssumption
  <2>2. AddrRight(d, g)
    BY <1>4 DEF ConnInv, Placed
  <2> QED  BY <1>4, <2>1, <2>2 DEF AddrRight
<1>6. PICK k \in Handler : hd[n][h].addr = <<d, k>> /\ In(d, k) /\ hd[d][k].dst = n
  BY <1>2, <1>3 DEF Lives, AddrRight, LeadsTo
<1>7. k = g
  BY <1>4, <1>5, <1>6 DEF ConnInv, OneHandlerPerPeer, In
<1> QED  BY <1>3, <1>4, <1>5, <1>6, <1>7 DEF In

\* As long as no disconnect timer has gone off, a handler that is connected has
\* a peer that knows its socket and pings it, and whose socket it knows.
THEOREM BothKnowCorrect == Spec => [](NoneExpired => ConnectedBothKnow)
<1>1. FullInv => (NoneExpired => ConnectedBothKnow)
  BY BothKnow DEF FullInv
<1> QED  BY <1>1, ConnInvariance, PTL

Advances ==
  \A n \in Node, h \in Handler :
       \/ Rank[hd'[n][h].st] >= Rank[hd[n][h].st]
       \/ hd[n][h].st = "DISCONN" /\ hd'[n][h].loops > hd[n][h].loops

\* No late token, ping or CONN message takes a handler's state back while no
\* disconnect timer goes off.
THEOREM AdvanceCorrect == Spec /\ []NoneExpired => StateAdvances
<1>1. FullInv /\ FullInv' /\ NoneExpired /\ NoneExpired' /\ [Next]_vars => [Advances]_vars
  <2> SUFFICES ASSUME FullInv, FullInv', NoneExpired, NoneExpired', [Next]_vars
               PROVE  Advances
    OBVIOUS
  <2>1. Kept
    BY KeptStep DEF FullInv, ConnInv, Sound
  <2>2. ASSUME NEW n \in Node, NEW h \in Handler
        PROVE  Rank[hd'[n][h].st] >= Rank[hd[n][h].st]
    <3>1. /\ Rank["WAIT"] = 0 /\ Rank["PING"] = 1 /\ Rank["CONN"] = 2
          /\ Rank["DISCONN"] = 3
      BY DEF Rank, State
    <3>2. hd'[n][h].st \in State
      <4>1. TypeInv'
        BY DEF FullInv
      <4> QED  BY <4>1 DEF TypeInv, TypeOK, HandlerType
    <3>3. CASE In(n, h)
      <4>1. Lives(hd[n][h]) /\ Later(hd[n][h], hd'[n][h])
        BY <2>1, <3>3 DEF FullInv, ConnInv, Placed, Kept, Grown
      <4>2. CASE hd[n][h].st = "WAIT"
        BY <3>1, <3>2, <4>2 DEF State
      <4>3. CASE hd[n][h].st = "PING"
        BY <3>1, <4>1, <4>3 DEF Later
      <4>4. CASE hd[n][h].st = "CONN"
        BY <3>1, <4>1, <4>4 DEF Later
      <4> QED  BY <4>1, <4>2, <4>3, <4>4 DEF Lives
    <3>4. CASE ~In(n, h)
      <4>1. hd[n][h].st = "WAIT"
        BY <3>4 DEF FullInv, ConnInv, Fresh, NewHandler
      <4> QED  BY <3>1, <3>2, <4>1 DEF State
    <3> QED  BY <3>3, <3>4
  <2> QED  BY <2>2 DEF Advances
<1>2. [][Advances]_vars => StateAdvances
  BY DEF Advances, StateAdvances
<1> QED  BY <1>1, <1>2, ConnInvariance, PTL DEF Spec
-----------------------------------------------------------------------------
(* Handlers given back to the pool, whatever timers have gone off.             *)

\* A handler object that a table, a goroutine, a notice or the pool knows.
Named(n, h) ==
  \/ In(n, h)
  \/ hd[n][h].loops > 0 \/ hd[n][h].ear > 0 \/ hd[n][h].stale > 0 \/ hd[n][h].alarm
  \/ \E p \in posting[n] : p.h = h
  \/ \E s \in stateQ[n] : s.h = h
  \/ \E x \in taken[n] : x.h = h
  \/ \E i \in DOMAIN pool[n] : pool[n][i] = h

\* What one turn of a handler's goroutines does to the object: it keeps its
\* peer, becomes DISCONN only with a notice under way, and a loop that returns
\* takes a token of ctrlChan.
Turn(n, h, r) ==
  /\ hd' = HdWith(n, h, r) /\ Named(n, h)
  /\ r.dst = hd[n][h].dst
  /\ r.st = hd[n][h].st \/ r.st # "DISCONN" \/ \E p \in posting'[n] : p.h = h
  /\ \/ r.loops = hd[n][h].loops /\ r.ctrl = hd[n][h].ctrl
     \/ hd[n][h].loops = r.loops + 1 /\ hd[n][h].ctrl = r.ctrl + 1

Turned == hd' = hd \/ \E n \in Node, h \in Handler, r \in HandlerType : Turn(n, h, r)

\* The tables keep their entries, one of which may have moved to the front.
Shuffled ==
  /\ \A n \in Node :
       \/ table'[n] = table[n]
       \/ \E id : HasBucket(n, id) /\ table'[n] = Update(table[n], n, Dst(n), id)
  /\ pool' = pool /\ made' = made

\* Whom the notices and the readers of a step are about is known before it.
Familiar ==
  \A n \in Node : /\ \A p \in posting'[n] : Named(n, p.h)
                  /\ \A s \in stateQ'[n] : Named(n, s.h)
                  /\ \A x \in taken'[n] : Named(n, x.h)

\* A notice not yet put together is still one, or has become one of the state
\* and the peer of its handler; no notice of DISCONN is lost.
Reported ==
  \A n \in Node :
    /\ \A p \in posting[n] :
         \/ p \in posting'[n]
         \/ \E s \in stateQ'[n] : /\ s.h = p.h /\ s.peer = hd[n][p.h].dst
                                 /\ s.state = hd[n][p.h].st
    /\ \A s \in stateQ[n] : s \in stateQ'[n] \/ s.state # "DISCONN"

\* A step that neither opens a handler nor gives one back.
Ordinary == Turned /\ Shuffled /\ Familiar /\ Reported

\* Notices and readers that stay as they are.
LEMMA QueuesStay ==
  /\ UNCHANGED <<posting, stateQ, taken>> => Familiar
  /\ UNCHANGED <<posting, stateQ>> => Reported
  /\ UNCHANGED <<table, pool, made>> => Shuffled
BY DEF Familiar, Reported, Shuffled, Named

\* A notice more.
LEMMA OneMore ==
  ASSUME TypeInv, NEW n \in Node, NEW y, Named(n, y.h)
  PROVE  /\ posting' = Put(posting, n, y) /\ UNCHANGED <<stateQ, taken>> => Familiar /\ Reported
         /\ stateQ' = Put(stateQ, n, y) /\ UNCHANGED <<posting, taken>> => Familiar /\ Reported
         /\ taken' = Put(taken, n, y) /\ UNCHANGED <<posting, stateQ>> => Familiar /\ Reported
<1>1. /\ posting' = Put(posting, n, y) =>
           \A m \in Node : posting'[m] = IF m = n THEN posting[m] \cup {y} ELSE posting[m]
      /\ stateQ' = Put(stateQ, n, y) =>
           \A m \in Node : stateQ'[m] = IF m = n THEN stateQ[m] \cup {y} ELSE stateQ[m]
      /\ taken' = Put(taken, n, y) =>
           \A m \in Node : taken'[m] = IF m = n THEN taken[m] \cup {y} ELSE taken[m]
  BY DEF Put, TypeInv, TypeOK
<1>2. \A m \in Node : /\ \A p \in posting[m] : Named(m, p.h)
                      /\ \A s \in stateQ[m] : Named(m, s.h)
                      /\ \A x \in taken[m] : Named(m, x.h)
  BY DEF Named
<1> HIDE DEF Named
<1> QED  BY <1>1, <1>2 DEF Familiar, Reported

\* Calls, timers that tell or ping, a loss: no handler changes.
LEMMA OrdinaryStill ==
  ASSUME TypeInv, NEW n \in Node,
         \/ \E d \in NodeID : ConnectUDP(n, d) \/ Send(n, d)
         \/ Stop(n) \/ ServerSend(n) \/ ServerPanics(n) \/ Post(n)
         \/ StaticRecv(n) \/ Lose
         \/ \E h \in Handler : WaitTick(n, h) \/ RetryTick(n, h) \/ PingTick(n, h)
  PROVE  Ordinary
<1>1. ASSUME UNCHANGED <<hd, table, pool, made, posting, stateQ, taken>>
      PROVE  Ordinary
  BY <1>1, QueuesStay DEF Ordinary, Turned
<1>2. CASE \E d \in NodeID : ConnectUDP(n, d) \/ Send(n, d)
  BY <1>1, <1>2 DEF ConnectUDP, Send
<1>3. CASE Stop(n) \/ ServerSend(n) \/ ServerPanics(n)
  BY <1>1, <1>3 DEF Stop, ServerSend, ServerPanics
<1>4. CASE StaticRecv(n) \/ Lose
  BY <1>1, <1>4 DEF StaticRecv, Lose
<1>5. CASE \E h \in Handler : PingTick(n, h)
  BY <1>1, <1>5 DEF PingTick
<1>6. CASE \E h \in Handler : WaitTick(n, h) \/ RetryTick(n, h)
  <2>1. PICK h \in Handler, st \in State : Tick(n, h, st)
    BY <1>6 DEF WaitTick, RetryTick, State
  <2> DEFINE s == [h |-> h, peer |-> hd[n][h].dst, state |-> st, why |-> "tick"]
  <2>2. /\ hd[n][h].loops > 0 /\ stateQ' = Put(stateQ, n, s)
        /\ UNCHANGED <<table, pool, made, hd, posting, taken>>
    BY <2>1 DEF Tick
  <2>3. Named(n, s.h)
    BY <2>2 DEF Named
  <2> HIDE DEF s
  <2> QED  BY <2>2, <2>3, OneMore, QueuesStay DEF Ordinary, Turned
<1>7. CASE Post(n)
  <2> DEFINE Note(p) == [h |-> p.h, peer |-> hd[n][p.h].dst, state |-> hd[n][p.h].st, why |-> p.why]
  <2>1. PICK p \in posting[n] :
         /\ posting' = Drop(posting, n, p)
         /\ stateQ' = Put(stateQ, n, Note(p))
         /\ UNCHANGED <<table, pool, made, hd, taken>>
    BY <1>7 DEF Post
  <2> DEFINE s == Note(p)
  <2>2. s.h = p.h /\ s.peer = hd[n][p.h].dst /\ s.state = hd[n][p.h].st
    OBVIOUS
  <2>3. stateQ' = Put(stateQ, n, s)
    BY <2>1
  <2> HIDE DEF s
  <2>4. \A m \in Node : /\ posting'[m] = IF m = n THEN posting[m] \ {p} ELSE posting[m]
                        /\ stateQ'[m] = IF m = n THEN stateQ[m] \cup {s} ELSE stateQ[m]
    BY <2>1, <2>3 DEF Put, Drop, TypeInv, TypeOK
  <2>5. Familiar
    <3>1. \A m \in Node : /\ \A q \in posting[m] : Named(m, q.h)
                          /\ \A z \in stateQ[m] : Named(m, z.h)
                          /\ \A x \in taken[m] : Named(m, x.h)
      BY DEF Named
    <3> QED  BY <2>1, <2>2, <2>4, <3>1 DEF Familiar
  <2>6. Reported
    BY <2>2, <2>4 DEF Reported
  <2> QED  BY <2>1, <2>5, <2>6, QueuesStay DEF Ordinary, Turned
<1> QED  BY <1>2, <1>3, <1>4, <1>5, <1>6, <1>7

\* A handler's loop sends.
LEMMA OrdinarySend ==
  ASSUME TypeInv, NEW n \in Node, HandlerSend(n)
  PROVE  Ordinary
<1>1. PICK x \in outQ[n] :
       /\ \/ hd' = hd
          \/ x.h # 0 /\ hd[n][x.h].loops > 0 /\ hd' = [hd EXCEPT ![n][x.h].ping = TRUE]
       /\ UNCHANGED <<table, pool, made, posting, stateQ, taken>>
  BY DEF HandlerSend
<1>2. CASE hd' = hd
  BY <1>1, <1>2, QueuesStay DEF Ordinary, Turned
<1>3. CASE x.h # 0 /\ hd[n][x.h].loops > 0 /\ hd' = [hd EXCEPT ![n][x.h].ping = TRUE]
  <2> DEFINE h == x.h
             r == [hd[n][h] EXCEPT !.ping = TRUE]
  <2>1. h \in Handler
    BY <1>3, P2PAssumption DEF Handler, TypeInv, TypeOK
  <2>2. hd' = HdWith(n, h, r) /\ Named(n, h)
    BY <1>3, <2>1 DEF HdWith, Named, TypeInv, TypeOK
  <2> HIDE DEF h
  <2>3. Fielded(hd[n][h]) /\ FieldsOK(hd[n][h])
    BY <2>1, OldHandler
  <2>4. Fielded(r)
    BY <2>3 DEF Fielded
  <2>5. FieldsOK(r)
    BY <2>3 DEF Fielded, Fields, FieldsOK
  <2>6. r.dst = hd[n][h].dst /\ r.st = hd[n][h].st /\ r.loops = hd[n][h].loops /\ r.ctrl = hd[n][h].ctrl
    BY <2>3 DEF Fielded, Fields
  <2>7. r \in HandlerType
    BY <2>4, <2>5, HandlerIs
  <2> HIDE DEF r
  <2>8. Turned
    BY <2>1, <2>2, <2>6, <2>7 DEF Turned, Turn
  <2> QED  BY <1>1, <2>8, QueuesStay DEF Ordinary
<1> QED  BY <1>1, <1>2, <1>3

\* A handler's select; disconnTimer goes off, and leaves a notice.
LEMMA OrdinaryHandling ==
  ASSUME TypeInv, NEW n \in Node, NEW h \in Handler, Handling(n, h) \/ Expire(n, h)
  PROVE  Ordinary
<1> DEFINE old == hd[n][h]
           Taker == [old EXCEPT !.connect = @ - 1]
           Begun == [Taker EXCEPT !.st = "PING", !.wait = FALSE, !.retry = TRUE,
                                  !.ping = TRUE, !.alarm = TRUE]
           After == IF Taker.st = "WAIT" THEN Begun ELSE Taker
           Over == [old EXCEPT !.due = FALSE, !.st = "DISCONN", !.wait = FALSE,
                               !.retry = FALSE, !.ping = FALSE]
           Due == [old EXCEPT !.alarm = FALSE, !.due = TRUE]
<1>1. Fielded(old) /\ FieldsOK(old) /\ old \in HandlerType
  BY OldHandler
<1>2. ASSUME NEW r, Fielded(r), FieldsOK(r), hd' = HdWith(n, h, r), Named(n, h),
             r.dst = old.dst,
             r.st = old.st \/ r.st # "DISCONN" \/ \E p \in posting'[n] : p.h = h,
             \/ r.loops = old.loops /\ r.ctrl = old.ctrl
             \/ old.loops = r.loops + 1 /\ old.ctrl = r.ctrl + 1
      PROVE  Turned
  <2>1. r \in HandlerType
    BY <1>2, HandlerIs
  <2> QED  BY <1>2, <2>1 DEF Turned, Turn
<1>3. CASE HandlerConnect(n, h)
  <2>1. /\ old.connect > 0 /\ old.loops > 0 /\ hd' = HdWith(n, h, After)
        /\ UNCHANGED <<table, pool, made, posting, stateQ, taken>>
    BY <1>3 DEF HandlerConnect, HdWith
  <2>2. Named(n, h)
    BY <2>1 DEF Named
  <2> HIDE DEF old
  <2>3. /\ Fielded(Taker) /\ FieldsOK(Taker)
        /\ Taker.dst = old.dst /\ Taker.loops = old.loops /\ Taker.ctrl = old.ctrl
        /\ Taker.st = old.st
    <3>1. old.connect - 1 \in Nat
      BY <1>1, <2>1 DEF FieldsOK
    <3> QED  BY <1>1, <3>1 DEF Fielded, Fields, FieldsOK
  <2> HIDE DEF Taker
  <2>4. /\ Fielded(Begun) /\ FieldsOK(Begun)
        /\ Begun.dst = old.dst /\ Begun.loops = old.loops /\ Begun.ctrl = old.ctrl
        /\ Begun.st = "PING"
    BY <2>3 DEF Fielded, Fields, FieldsOK, State
  <2> HIDE DEF Begun
  <2>5. /\ Fielded(After) /\ FieldsOK(After)
        /\ After.dst = old.dst /\ After.loops = old.loops /\ After.ctrl = old.ctrl
        /\ After.st = old.st \/ After.st # "DISCONN"
    BY <2>3, <2>4
  <2> HIDE DEF After
  <2>6. Turned
    BY <1>2, <2>1, <2>2, <2>5
  <2> QED  BY <2>1, <2>6, QueuesStay DEF Ordinary
<1>4. CASE HandlerDisconn(n, h)
  <2> DEFINE p == [h |-> h, why |-> "expired"]
  <2>1. /\ old.loops > 0 /\ hd' = HdWith(n, h, Over)
        /\ posting' = Put(posting, n, p)
        /\ UNCHANGED <<table, pool, made, stateQ, taken>>
    BY <1>4 DEF HandlerDisconn, HdWith
  <2>2. Named(n, h) /\ p.h = h
    BY <2>1 DEF Named
  <2> HIDE DEF old, p
  <2>3. Fielded(Over)
    BY <1>1 DEF Fielded
  <2>4. FieldsOK(Over)
    BY <1>1 DEF Fielded, Fields, FieldsOK, State
  <2>5. Over.dst = old.dst /\ Over.loops = old.loops /\ Over.ctrl = old.ctrl
    BY <1>1 DEF Fielded, Fields
  <2> HIDE DEF Over
  <2>6. p \in posting'[n]
    BY <2>1 DEF Put, TypeInv, TypeOK
  <2>7. Turned
    BY <1>2, <2>1, <2>2, <2>3, <2>4, <2>5, <2>6
  <2>8. Familiar /\ Reported
    BY <2>1, <2>2, OneMore
  <2> QED  BY <2>1, <2>7, <2>8, QueuesStay DEF Ordinary
<1>5. CASE Expire(n, h)
  <2>1. /\ old.alarm
        /\ hd' = [hd EXCEPT ![n][h].alarm = FALSE, ![n][h].due = TRUE]
        /\ UNCHANGED <<table, pool, made, posting, stateQ, taken>>
    BY <1>5 DEF Expire
  <2>2. hd' = HdWith(n, h, Due)
    BY <2>1 DEF HdWith, TypeInv, TypeOK
  <2>3. Named(n, h)
    BY <2>1 DEF Named
  <2> HIDE DEF old
  <2>4. Fielded(Due)
    BY <1>1 DEF Fielded
  <2>5. FieldsOK(Due)
    BY <1>1 DEF Fielded, Fields, FieldsOK
  <2>6. Due.dst = old.dst /\ Due.loops = old.loops /\ Due.ctrl = old.ctrl /\ Due.st = old.st
    BY <1>1 DEF Fielded, Fields
  <2> HIDE DEF Due
  <2>7. Turned
    BY <1>2, <2>2, <2>3, <2>4, <2>5, <2>6
  <2> QED  BY <2>1, <2>7, QueuesStay DEF Ordinary
<1>6. CASE HandlerStop(n, h)
  <2>1. PICK ear \in Nat, stale \in Nat :
           /\ hd[n][h].loops > 0 /\ hd[n][h].ctrl > 0
           /\ hd' = HdWith(n, h, Stopped(hd[n][h], ear, stale))
           /\ \/ UNCHANGED taken
              \/ \E x \in taken[n] :
                   taken' = Put(Drop(taken, n, x), n, [x EXCEPT !.of = "stale"])
           /\ UNCHANGED <<table, pool, made, posting, stateQ>>
    BY <1>6, HandlerStopIs
  <2> DEFINE r == Stopped(hd[n][h], ear, stale)
  <2>2. /\ Fielded(r) /\ FieldsOK(r) /\ r.dst = old.dst /\ r.st = old.st
        /\ r.loops = old.loops - 1 /\ r.ctrl = old.ctrl - 1
    BY <1>1, <2>1, StoppedIs
  <2>3. hd' = HdWith(n, h, r) /\ Named(n, h)
    BY <2>1 DEF Named
  <2> HIDE DEF r
  <2>4. old.loops \in Nat /\ old.ctrl \in Nat
    BY <1>1 DEF FieldsOK
  <2> HIDE DEF old
  <2>5. old.loops = r.loops + 1 /\ old.ctrl = r.ctrl + 1
    BY <2>2, <2>4
  <2>6. Turned
    BY <1>2, <2>2, <2>3, <2>5
  <2>7. Familiar /\ Reported
    <3>1. CASE UNCHANGED taken
      BY <2>1, <3>1, QueuesStay
    <3>2. ASSUME NEW x \in taken[n], taken' = Put(Drop(taken, n, x), n, [x EXCEPT !.of = "stale"])
          PROVE  Familiar /\ Reported
      <4> DEFINE x2 == [x EXCEPT !.of = "stale"]
      <4>1. x2.h = x.h
        BY DEF TypeInv, TypeOK
      <4> HIDE DEF x2
      <4>2. \A m \in Node : taken'[m] = IF m = n THEN (taken[m] \ {x}) \cup {x2} ELSE taken[m]
        BY <3>2 DEF Put, Drop, x2, TypeInv, TypeOK
      <4>3. \A m \in Node : /\ \A p \in posting[m] : Named(m, p.h)
                            /\ \A s \in stateQ[m] : Named(m, s.h)
                            /\ \A y \in taken[m] : Named(m, y.h)
        BY DEF Named
      <4>4. \A m \in Node : \A y \in taken'[m] : Named(m, y.h)
        BY <4>1, <4>2, <4>3
      <4> QED  BY <2>1, <4>3, <4>4 DEF Familiar, Reported
    <3> QED  BY <2>1, <3>1, <3>2
  <2> QED  BY <2>1, <2>6, <2>7, QueuesStay DEF Ordinary
<1> QED  BY <1>3, <1>4, <1>5, <1>6 DEF Handling

\* A reader of a handler takes a datagram.
LEMMA OrdinaryTakes ==
  ASSUME TypeInv, NEW n \in Node, NEW h \in Handler, NEW type \in {"PING", "NET"},
         ReaderTakes(n, h, type)
  PROVE  Ordinary
<1> DEFINE old == hd[n][h]
           Ear == [old EXCEPT !.ear = @ - 1]
           Stale == [old EXCEPT !.stale = @ - 1]
           Item(of, d) == [h |-> h, of |-> of, seen |-> old.st, d |-> d]
           Waits(of) == IF of = "loop" THEN old.ear > 0 ELSE old.stale > 0
           Left(of) == IF of = "loop" THEN Ear ELSE Stale
<1>1. PICK d \in net, of \in {"loop", "stale"} :
       /\ Waits(of)
       /\ \/ UNCHANGED <<hd, taken>>
          \/ /\ hd' = HdWith(n, h, Left(of))
             /\ taken' = taken \/ taken' = Put(taken, n, Item(of, d))
       /\ UNCHANGED <<table, pool, made, posting, stateQ>>
  BY DEF ReaderTakes, HdWith, TypeInv, TypeOK
<1>2. Fielded(old) /\ FieldsOK(old)
  BY OldHandler
<1>3. Named(n, h)
  BY <1>1 DEF Named
<1>4. CASE UNCHANGED <<hd, taken>>
  BY <1>1, <1>4, QueuesStay DEF Ordinary, Turned
<1>5. CASE /\ hd' = HdWith(n, h, Left(of))
           /\ taken' = taken \/ taken' = Put(taken, n, Item(of, d))
  <2> DEFINE i == Item(of, d)
  <2>1. i.h = h /\ (taken' = taken \/ taken' = Put(taken, n, i))
    BY <1>5
  <2> HIDE DEF i, Item
  <2>2. Familiar /\ Reported
    BY <1>1, <1>3, <2>1, OneMore, QueuesStay
  <2>3. /\ Fielded(Left(of)) /\ FieldsOK(Left(of)) /\ Left(of).dst = old.dst
        /\ Left(of).st = old.st /\ Left(of).loops = old.loops /\ Left(of).ctrl = old.ctrl
    <3> HIDE DEF old
    <3>1. CASE of = "loop"
      <4>1. old.ear - 1 \in Nat
        BY <1>1, <1>2, <3>1 DEF FieldsOK
      <4>2. Fielded(Ear) /\ FieldsOK(Ear)
        BY <1>2, <4>1 DEF Fielded, Fields, FieldsOK
      <4>3. /\ Ear.dst = old.dst /\ Ear.st = old.st /\ Ear.loops = old.loops
            /\ Ear.ctrl = old.ctrl
        BY <1>2 DEF Fielded, Fields
      <4> QED  BY <3>1, <4>2, <4>3
    <3>2. CASE of # "loop"
      <4>1. old.stale - 1 \in Nat
        BY <1>1, <1>2, <3>2 DEF FieldsOK
      <4>2. Fielded(Stale) /\ FieldsOK(Stale)
        BY <1>2, <4>1 DEF Fielded, Fields, FieldsOK
      <4>3. /\ Stale.dst = old.dst /\ Stale.st = old.st /\ Stale.loops = old.loops
            /\ Stale.ctrl = old.ctrl
        BY <1>2 DEF Fielded, Fields
      <4> QED  BY <3>2, <4>2, <4>3
    <3> QED  BY <3>1, <3>2
  <2> DEFINE r == Left(of)
  <2>4. /\ hd' = HdWith(n, h, r) /\ r.dst = hd[n][h].dst /\ r.st = hd[n][h].st
        /\ r.loops = hd[n][h].loops /\ r.ctrl = hd[n][h].ctrl
    BY <1>5, <2>3
  <2>5. r \in HandlerType
    BY <2>3, HandlerIs
  <2> HIDE DEF r
  <2>6. Turned
    BY <1>3, <2>4, <2>5 DEF Turned, Turn
  <2> QED  BY <1>1, <2>2, <2>6, QueuesStay DEF Ordinary
<1> HIDE DEF Left, Item
<1> QED  BY <1>1, <1>4, <1>5

\* A reader goes on with the datagram it took.
LEMMA OrdinaryHandles ==
  ASSUME TypeInv, NEW n \in Node, ReaderHandles(n)
  PROVE  Ordinary
<1>1. PICK x \in taken[n], pinged \in BOOLEAN, again \in BOOLEAN :
        /\ x \in Held
        /\ taken' = Drop(taken, n, x)
        /\ hd' = HdWith(n, x.h, Heard(hd[n][x.h], pinged, again))
        /\ posting' = IF pinged THEN Put(posting, n, [h |-> x.h, why |-> "pinged"])
                                ELSE posting
        /\ UNCHANGED <<table, pool, made, stateQ>>
  BY ReaderHandlesIs
<1> DEFINE h == x.h
           p == [h |-> h, why |-> "pinged"]
           r == Heard(hd[n][h], pinged, again)
<1>2. h \in Handler /\ Named(n, h)
  BY <1>1 DEF Held, Named
<1>3. hd[n][h] \in HandlerType
  BY <1>2, OldHandler
<1>4. /\ Fielded(r) /\ FieldsOK(r)
      /\ r.dst = hd[n][h].dst /\ r.loops = hd[n][h].loops /\ r.ctrl = hd[n][h].ctrl
      /\ r.st = IF pinged THEN "CONN" ELSE hd[n][h].st
  BY <1>3, HeardIs
<1>5. hd' = HdWith(n, h, r)
  BY <1>1
<1> HIDE DEF r
<1>6. r \in HandlerType
  BY <1>4, HandlerIs
<1>7. Turned
  BY <1>2, <1>4, <1>5, <1>6 DEF Turned, Turn
<1>8. p.h = h /\ (posting' = posting \/ posting' = Put(posting, n, p))
  BY <1>1
<1> HIDE DEF h, p
<1>9. /\ \A m \in Node : \A q \in posting[m] : q \in posting'[m]
      /\ \A m \in Node : \A q \in posting'[m] : q \in posting[m] \/ (m = n /\ q = p)
      /\ \A m \in Node : \A y \in taken'[m] : y \in taken[m]
  BY <1>1, <1>8 DEF Put, Drop, TypeInv, TypeOK
<1>10. \A m \in Node : /\ \A q \in posting[m] : Named(m, q.h)
                       /\ \A s \in stateQ[m] : Named(m, s.h)
                       /\ \A y \in taken[m] : Named(m, y.h)
  BY DEF Named
<1>11. Familiar
  BY <1>1, <1>2, <1>8, <1>9, <1>10 DEF Familiar
<1>12. Reported
  BY <1>1, <1>9 DEF Reported
<1> QED  BY <1>1, <1>7, <1>11, <1>12, QueuesStay DEF Ordinary

\* A step that opens a handler of n for a peer that Has or Get does not find.
Opening(n) ==
  \E d \in NodeID, addr \in Socket \cup {None}, tokens \in 0 .. 1, t \in TableOf(Handler) :
    /\ HasBucket(n, d)
    /\ t = table[n] \/ \E id : HasBucket(n, id) /\ t = Update(table[n], n, Dst(n), id)
    /\ ~Has(t, n, Dst(n), d) \/ Get(t, n, Dst(n), d) = NoHandler
    /\ Open(n, d, addr, tokens, t)
    /\ UNCHANGED <<posting, stateQ, taken>>

\* case id := <-nps.connectChan
LEMMA OpensConnect ==
  ASSUME TypeInv, NEW n \in Node, ServerConnect(n)
  PROVE  Ordinary \/ Opening(n)
<1>1. PICK d \in connectQ[n] :
        /\ HasBucket(n, d)
        /\ IF Has(table[n], n, Dst(n), d)
           THEN UNCHANGED <<pool, made, hd, table, sendQ>>
           ELSE Open(n, d, None, 0, table[n])
        /\ UNCHANGED <<posting, stateQ, taken>>
  BY DEF ServerConnect
<1>2. CASE UNCHANGED <<pool, made, hd, table, sendQ>>
  BY <1>1, <1>2, QueuesStay DEF Ordinary, Turned
<1>3. CASE ~Has(table[n], n, Dst(n), d) /\ Open(n, d, None, 0, table[n])
  <2>1. d \in NodeID /\ table[n] \in TableOf(Handler)
    BY InTable DEF TypeInv, TypeOK
  <2> DEFINE addr == None
             tokens == 0
             t == table[n]
  <2>2. /\ addr \in Socket \cup {None} /\ tokens \in 0 .. 1 /\ t \in TableOf(Handler)
        /\ t = table[n] /\ ~Has(t, n, Dst(n), d) /\ Open(n, d, addr, tokens, t)
    BY <1>3, <2>1
  <2> HIDE DEF addr, tokens, t
  <2> QED  BY <1>1, <2>1, <2>2 DEF Opening
<1> QED  BY <1>1, <1>2, <1>3

\* case msg := <-nps.handlerChan
LEMMA OpensRecv ==
  ASSUME TypeInv, NEW n \in Node, ServerRecv(n)
  PROVE  Ordinary \/ Opening(n)
<1> DEFINE T(r) == Update(table[n], n, Dst(n), r.via)
           H(r) == Get(T(r), n, Dst(n), r.msg.src)
<1>1. PICK r \in inbox[n] :
        /\ HasBucket(n, r.via)
        /\ \/ /\ HasBucket(n, r.msg.src)
              /\ H(r) = NoHandler
              /\ Open(n, r.msg.src, r.msg.sock, 1, T(r))
           \/ /\ HasBucket(n, r.msg.src)
              /\ H(r) # NoHandler
              /\ hd' = IF hd[n][H(r)].st # "WAIT" THEN hd
                       ELSE [hd EXCEPT ![n][H(r)].dst = r.msg.src,
                                       ![n][H(r)].addr = r.msg.sock,
                                       ![n][H(r)].connect = @ + 1]
              /\ table' = [table EXCEPT ![n] = T(r)]
              /\ UNCHANGED <<pool, made>>
           \/ /\ table' = [table EXCEPT ![n] = T(r)]
              /\ UNCHANGED <<pool, made, hd>>
        /\ UNCHANGED <<posting, stateQ, taken>>
  BY DEF ServerRecv
<1>2. /\ r.via \in Node /\ r.msg \in Message /\ table[n] \in TableOf(Handler)
      /\ r.msg.src \in NodeID /\ r.msg.src \in Node /\ r.msg.sock \in Socket \cup {None}
  BY P2PAssumption DEF TypeInv, TypeOK, TableOf, Message
<1>3. T(r) \in TableOf(Handler) /\ \A b \in Buckets : InBucket(T(r), b) = InBucket(table[n], b)
  <2> DEFINE ids == Dst(n)
             u == Update(table[n], n, ids, r.via)
  <2> HIDE DEF ids
  <2>1. HasBucket(n, r.via) /\ table[n] \in TableOf(Handler)
    <3> HIDE DEF T, H
    <3> QED  BY <1>1, <1>2
  <2>2. u \in TableOf(Handler) /\ \A b \in Buckets : InBucket(u, b) = InBucket(table[n], b)
    BY <2>1, UpdateIs
  <2> HIDE DEF u
  <2>3. T(r) = u
    BY DEF u, ids
  <2> HIDE DEF T
  <2> QED  BY <2>2, <2>3
<1> DEFINE t == T(r)
           h == H(r)
           d == r.msg.src
<1>4. /\ t \in TableOf(Handler) /\ \A b \in Buckets : InBucket(t, b) = InBucket(table[n], b)
      /\ HasBucket(n, r.via) /\ t = Update(table[n], n, Dst(n), r.via)
      /\ h = Get(t, n, Dst(n), d) /\ d \in NodeID
  BY <1>1, <1>2, <1>3
<1>5. table' = [table EXCEPT ![n] = t] /\ UNCHANGED <<pool, made>> => Shuffled
  BY <1>4 DEF Shuffled, TypeInv, TypeOK
<1>6. Familiar /\ Reported
  BY <1>1, QueuesStay
<1> HIDE DEF T, H, t, h, d
<1>7. CASE /\ HasBucket(n, d) /\ h = NoHandler /\ Open(n, d, r.msg.sock, 1, t)
  <2> DEFINE addr == r.msg.sock
             tokens == 1
  <2>1. addr \in Socket \cup {None} /\ tokens \in 0 .. 1 /\ Open(n, d, addr, tokens, t)
    BY <1>2, <1>7
  <2> HIDE DEF addr, tokens
  <2> QED  BY <1>1, <1>4, <1>7, <2>1 DEF Opening
<1>8. CASE /\ HasBucket(n, d) /\ h # NoHandler
           /\ hd' = IF hd[n][h].st # "WAIT" THEN hd
                    ELSE [hd EXCEPT ![n][h].dst = d, ![n][h].addr = r.msg.sock,
                                    ![n][h].connect = @ + 1]
           /\ table' = [table EXCEPT ![n] = t]
           /\ UNCHANGED <<pool, made>>
  <2> DEFINE x == [hd[n][h] EXCEPT !.dst = d, !.addr = r.msg.sock, !.connect = @ + 1]
             b == getKDist(d, n)
             ids == Dst(n)
  <2>1. b \in Buckets
    BY <1>8 DEF HasBucket
  <2>2. h \in Handler /\ h \in InBucket(t, b) /\ ids[h] = d
    <3> HIDE DEF ids
    <3>1. h = Get(t, n, ids, d)
      BY <1>4 DEF ids
    <3> QED  BY <1>4, <1>8, <3>1, GetIs
  <2>3. hd[n][h].dst = d
    BY <2>2 DEF Dst
  <2>4. Named(n, h)
    <3>1. h \in InBucket(table[n], b)
      BY <1>4, <2>1, <2>2
    <3>2. In(n, h)
      BY <2>1, <3>1 DEF In, Entries
    <3> QED  BY <3>2 DEF Named
  <2>5. CASE hd' = hd
    BY <1>5, <1>6, <1>8, <2>5 DEF Ordinary, Turned
  <2>6. CASE hd' = [hd EXCEPT ![n][h].dst = d, ![n][h].addr = r.msg.sock,
                              ![n][h].connect = @ + 1]
    <3>1. hd' = HdWith(n, h, x)
      <4>1. hd \in [Node -> [Handler -> HandlerType]]
        BY DEF TypeInv, TypeOK
      <4>2. hd' = [hd EXCEPT ![n] = [hd[n] EXCEPT ![h] = x]]
        BY <2>2, <2>6, <4>1
      <4> HIDE DEF x
      <4> QED  BY <2>2, <4>1, <4>2 DEF HdWith
    <3>2. Fielded(hd[n][h]) /\ FieldsOK(hd[n][h])
      BY <2>2, OldHandler
    <3>3. Fielded(x)
      BY <3>2 DEF Fielded
    <3>4. FieldsOK(x)
      BY <3>2, <1>2, <1>4 DEF Fielded, Fields, FieldsOK
    <3>5. /\ x.dst = d /\ x.st = hd[n][h].st /\ x.loops = hd[n][h].loops
          /\ x.ctrl = hd[n][h].ctrl
      BY <3>2 DEF Fielded, Fields
    <3>6. x \in HandlerType
      BY <3>3, <3>4, HandlerIs
    <3> HIDE DEF x
    <3>7. Turned
      BY <2>2, <2>3, <2>4, <3>1, <3>5, <3>6 DEF Turned, Turn
    <3> QED  BY <1>5, <1>6, <1>8, <3>7 DEF Ordinary
  <2> QED  BY <1>8, <2>5, <2>6
<1>9. CASE table' = [table EXCEPT ![n] = t] /\ UNCHANGED <<pool, made, hd>>
  BY <1>5, <1>6, <1>9 DEF Ordinary, Turned
<1> QED  BY <1>1, <1>7, <1>8, <1>9 DEF h, t, d

\* case state := <-nps.stateChan, when the state is DISCONN.
Returning(n, s) ==
  /\ s \in stateQ[n] /\ s.state = "DISCONN" /\ GiveBack(n, s)
  /\ stateQ' = Drop(stateQ, n, s)
  /\ UNCHANGED <<made, posting, taken>>

\* Other notices change no handler.
LEMMA ReturnsState ==
  ASSUME TypeInv, NEW n \in Node, ServerState(n)
  PROVE  Ordinary \/ \E s \in Notice : Returning(n, s)
<1>1. PICK s \in stateQ[n] :
        /\ stateQ' = Drop(stateQ, n, s)
        /\ \/ s.state # "DISCONN" /\ UNCHANGED <<hd, table, pool>>
           \/ s.state = "DISCONN" /\ GiveBack(n, s)
        /\ UNCHANGED <<made, posting, taken>>
  BY DEF ServerState
<1>2. s \in Notice
  BY DEF TypeInv, TypeOK
<1>3. CASE s.state = "DISCONN" /\ GiveBack(n, s)
  BY <1>1, <1>2, <1>3 DEF Returning
<1>4. CASE s.state # "DISCONN" /\ UNCHANGED <<hd, table, pool>>
  <2>1. \A m \in Node : stateQ'[m] = IF m = n THEN stateQ[m] \ {s} ELSE stateQ[m]
    BY <1>1 DEF Drop, TypeInv, TypeOK
  <2>2. \A m \in Node : /\ \A q \in posting[m] : Named(m, q.h)
                        /\ \A z \in stateQ[m] : Named(m, z.h)
                        /\ \A y \in taken[m] : Named(m, y.h)
    BY DEF Named
  <2>3. Familiar
    BY <1>1, <2>1, <2>2 DEF Familiar
  <2>4. Reported
    BY <1>1, <1>4, <2>1 DEF Reported
  <2> QED  BY <1>1, <1>4, <2>3, <2>4, QueuesStay DEF Ordinary, Turned
<1> QED  BY <1>1, <1>3, <1>4

\* The kinds of steps there are.
LEMMA StepKinds ==
  ASSUME TypeInv, [Next]_vars
  PROVE  Ordinary \/ \E n \in Node : Opening(n) \/ \E s \in Notice : Returning(n, s)
<1>1. ASSUME NEW n \in Node, Server(n)
      PROVE  Ordinary \/ Opening(n) \/ \E s \in Notice : Returning(n, s)
  BY <1>1, OpensConnect, OpensRecv, ReturnsState, OrdinaryStill DEF Server
<1>2. ASSUME NEW n \in Node, Goroutines(n) \/ Stop(n) PROVE Ordinary
  BY <1>2, OrdinarySend, OrdinaryHandles, OrdinaryStill DEF Goroutines
<1>3. ASSUME NEW n \in Node, NEW d \in NodeID, ConnectUDP(n, d) \/ Send(n, d)
      PROVE  Ordinary
  BY <1>3, OrdinaryStill
<1>4. ASSUME NEW n \in Node, NEW h \in Handler,
             WaitTick(n, h) \/ RetryTick(n, h) \/ PingTick(n, h)
      PROVE  Ordinary
  BY <1>4, OrdinaryStill
<1>5. ASSUME NEW n \in Node, NEW h \in Handler, Handling(n, h) \/ Expire(n, h)
      PROVE  Ordinary
  BY <1>5, OrdinaryHandling
<1>6. ASSUME NEW n \in Node, NEW h \in Handler,
             \E type \in {"PING", "NET"} : ReaderTakes(n, h, type)
      PROVE  Ordinary
  BY <1>6, OrdinaryTakes
<1>7. CASE Lose
  <2>1. \E n \in Node : TRUE
    BY <1>7 DEF Lose, TypeInv, TypeOK, Packet
  <2> QED  BY <1>7, <2>1, OrdinaryStill
<1>8. CASE UNCHANGED vars
  BY <1>8, QueuesStay DEF vars, Ordinary, Turned
<1> QED  BY <1>1, <1>2, <1>3, <1>4, <1>5, <1>6, <1>7, <1>8 DEF Next

\* How often the pool's list holds a handler; the places are counted from the
\* back, as handlers come and go at the front.
Places(p, h) == {j \in 1 .. Len(p) : p[Len(p) + 1 - j] = h}

\* Places are numbers of an interval.
LEMMA PlacesFinite ==
  ASSUME NEW p \in Seq(Handler), NEW h
  PROVE  IsFiniteSet(Places(p, h)) /\ Cardinality(Places(p, h)) \in Nat
<1>1. IsFiniteSet(1 .. Len(p))
  BY FS_Interval
<1>2. Places(p, h) \subseteq 1 .. Len(p)
  BY DEF Places
<1> QED  BY <1>1, <1>2, FS_Subset, FS_CardinalityType

\* getHandler takes the front place.
LEMMA PlacesTail ==
  ASSUME NEW p \in Seq(Handler), p # <<>>, NEW h
  PROVE  Cardinality(Places(p, h)) =
           Cardinality(Places(Tail(p), h)) + IF Head(p) = h THEN 1 ELSE 0
<1> DEFINE k == Len(p)
           q == Tail(p)
<1>1. /\ k \in Nat \ {0} /\ q \in Seq(Handler) /\ Len(q) = k - 1 /\ Head(p) = p[1]
      /\ \A i \in 1 .. k - 1 : q[i] = p[i + 1]
  OBVIOUS
<1>2. \A j \in 1 .. k - 1 : q[k - 1 + 1 - j] = p[k + 1 - j]
  <2> HIDE DEF k, q
  <2> SUFFICES ASSUME NEW j \in 1 .. k - 1 PROVE q[k - 1 + 1 - j] = p[k + 1 - j]
    OBVIOUS
  <2>1. k - 1 + 1 - j \in 1 .. k - 1 /\ k - 1 + 1 - j + 1 = k + 1 - j
    BY <1>1
  <2> QED  BY <1>1, <2>1
<1>3. Places(q, h) = {j \in 1 .. k - 1 : p[k + 1 - j] = h}
  <2> HIDE DEF k, q
  <2> QED  BY <1>1, <1>2 DEF Places
<1>4. Places(p, h) = Places(q, h) \cup (IF p[1] = h THEN {k} ELSE {})
  <2>1. Places(p, h) = {j \in 1 .. k : p[k + 1 - j] = h}
    BY DEF Places
  <2> HIDE DEF k, q
  <2>2. 1 .. k = (1 .. k - 1) \cup {k} /\ k + 1 - k = 1
    BY <1>1
  <2> QED  BY <1>3, <2>1, <2>2
<1>5. k \notin Places(q, h)
  <2> HIDE DEF k, q
  <2> QED  BY <1>1, <1>3
<1> HIDE DEF k, q
<1>6. IsFiniteSet(Places(q, h)) /\ Cardinality(Places(q, h)) \in Nat
  BY <1>1, PlacesFinite
<1>7. CASE p[1] = h
  BY <1>1, <1>4, <1>5, <1>6, <1>7, FS_AddElement DEF q
<1>8. CASE p[1] # h
  BY <1>1, <1>4, <1>6, <1>8 DEF q
<1> QED  BY <1>7, <1>8

\* Del of the pool adds a place at the front.
LEMMA PlacesPush ==
  ASSUME NEW p \in Seq(Handler), NEW g \in Handler, NEW h
  PROVE  Cardinality(Places(<<g>> \o p, h)) =
           Cardinality(Places(p, h)) + IF g = h THEN 1 ELSE 0
<1> DEFINE q == <<g>> \o p
<1>1. q \in Seq(Handler) /\ q # <<>> /\ Head(q) = g /\ Tail(q) = p
  OBVIOUS
<1> HIDE DEF q
<1>2. Cardinality(Places(q, h)) = Cardinality(Places(p, h)) + IF g = h THEN 1 ELSE 0
  BY <1>1, PlacesTail
<1> QED  BY <1>2 DEF q

\* A handler object is spare as often as the pool holds it, and once more
\* before it is made.
Spare(n, h) == Cardinality(Places(pool[n], h)) + IF h > made[n] THEN 1 ELSE 0

\* Each time it is spare but the first stands for a loop that has been told to
\* stop: every opening starts one, every return of the handler tells one.
Accounted ==
  \A n \in Node, h \in Handler : hd[n][h].loops + Spare(n, h) <= hd[n][h].ctrl + 1

\* What the accounts are of.
LEMMA SpareType ==
  ASSUME TypeOK, NEW n \in Node, NEW h \in Handler
  PROVE  /\ hd[n][h].loops \in Nat /\ hd[n][h].ctrl \in Nat
         /\ Cardinality(Places(pool[n], h)) \in Nat /\ Spare(n, h) \in Nat
         /\ pool[n] \in Seq(Handler) /\ made[n] \in Nat /\ h \in Nat
<1>1. pool[n] \in Seq(Handler) /\ hd[n][h] \in HandlerType /\ made[n] \in 0 .. HandlerCap
  BY DEF TypeOK
<1>2. Cardinality(Places(pool[n], h)) \in Nat
  BY <1>1, PlacesFinite
<1>3. hd[n][h].loops \in Nat /\ hd[n][h].ctrl \in Nat
  BY <1>1 DEF HandlerType
<1> QED  BY <1>1, <1>2, <1>3, P2PAssumption DEF Spare, Handler

\* The pool Init fills holds each handler made once.
LEMMA AccountedInit ==
  ASSUME Init
  PROVE  Accounted
<1> SUFFICES ASSUME NEW n \in Node, NEW h \in Handler
             PROVE  hd[n][h].loops + Spare(n, h) <= hd[n][h].ctrl + 1
  BY DEF Accounted
<1> DEFINE p == [i \in 1 .. PooledCnt |-> PooledCnt + 1 - i]
<1>1. /\ hd[n][h].loops = 0 /\ hd[n][h].ctrl = 0
      /\ pool[n] = p /\ made[n] = PooledCnt
      /\ PooledCnt \in Nat /\ h \in Nat \ {0} /\ p \in Seq(Handler) /\ Len(p) = PooledCnt
  <2>1. p \in Seq(Handler)
    BY TypeInit DEF TypeInv, TypeOK, Init
  <2>2. hd[n][h] = NewHandler
    BY DEF Init
  <2> QED  BY <2>1, <2>2, P2PAssumption DEF Init, Handler, NewHandler
<1>2. \A j \in 1 .. PooledCnt : p[Len(p) + 1 - j] = j
  BY <1>1
<1> HIDE DEF p
<1>3. Places(p, h) = IF h > PooledCnt THEN {} ELSE {h}
  BY <1>1, <1>2 DEF Places
<1>4. Cardinality(Places(p, h)) = IF h > PooledCnt THEN 0 ELSE 1
  BY <1>3, FS_EmptySet, FS_Singleton
<1> QED  BY <1>1, <1>4 DEF Spare

\* A turn of a goroutine leaves the pool alone; a loop that returns takes the
\* token it was told with.
LEMMA AccountedTurn ==
  ASSUME TypeOK, Accounted, Ordinary
  PROVE  Accounted'
<1>1. pool' = pool /\ made' = made
  BY DEF Ordinary, Shuffled
<1>2. CASE hd' = hd
  BY <1>1, <1>2 DEF Accounted, Spare
<1>3. ASSUME NEW n \in Node, NEW h \in Handler, NEW r \in HandlerType, Turn(n, h, r),
             NEW m \in Node, NEW g \in Handler
      PROVE  hd'[m][g].loops + Spare(m, g)' <= hd'[m][g].ctrl + 1
  <2>1. Spare(m, g)' = Spare(m, g) /\ hd[m][g].loops + Spare(m, g) <= hd[m][g].ctrl + 1
    BY <1>1 DEF Accounted, Spare
  <2>2. /\ hd'[n][h] = r
        /\ ~(m = n /\ g = h) => hd'[m][g] = hd[m][g]
    <3>1. hd' = HdWith(n, h, r)
      BY <1>3 DEF Turn
    <3> QED  BY <3>1, HdWithIs DEF TypeOK
  <2>3. /\ hd[n][h].loops \in Nat /\ hd[n][h].ctrl \in Nat /\ Spare(m, g) \in Nat
        /\ r.loops \in Nat /\ r.ctrl \in Nat
    BY SpareType DEF HandlerType
  <2>4. \/ r.loops = hd[n][h].loops /\ r.ctrl = hd[n][h].ctrl
        \/ hd[n][h].loops = r.loops + 1 /\ hd[n][h].ctrl = r.ctrl + 1
    BY <1>3 DEF Turn
  <2>5. CASE m = n /\ g = h
    BY <2>1, <2>2, <2>3, <2>4, <2>5
  <2>6. CASE ~(m = n /\ g = h)
    BY <2>1, <2>2, <2>6
  <2> QED  BY <2>5, <2>6
<1> QED  BY <1>2, <1>3 DEF Ordinary, Turned, Accounted

\* An opening takes the handler from the pool, or makes it, and starts a loop.
LEMMA AccountedOpen ==
  ASSUME TypeOK, TypeOK', Accounted, NEW n \in Node, Opening(n)
  PROVE  Accounted'
<1>1. PICK d \in NodeID, addr \in Socket \cup {None}, tokens \in 0 .. 1, t \in TableOf(Handler) :
        HasBucket(n, d) /\ Open(n, d, addr, tokens, t)
  BY DEF Opening
<1>2. PICK h \in Handler : Opened(n, d, addr, tokens, t, h)
  BY <1>1, OpenIs
<1> DEFINE r == Started(hd[n][h], d, addr, tokens)
<1>3. /\ r \in HandlerType /\ r.loops = hd[n][h].loops + 1 /\ r.ctrl = hd[n][h].ctrl
      /\ hd' = HdWith(n, h, r)
  <2>1. hd[n][h] \in HandlerType
    BY DEF TypeOK
  <2> QED  BY <1>2, <2>1, StartedIs DEF Opened
<1> HIDE DEF r
<1>4. /\ hd'[n][h] = r
      /\ \A m \in Node, g \in Handler : ~(m = n /\ g = h) => hd'[m][g] = hd[m][g]
  BY <1>3, HdWithIs DEF TypeOK
<1>5. \A m \in Node, g \in Handler : m # n => Spare(m, g)' = Spare(m, g)
  BY <1>2 DEF Opened, Took, Spare, TypeOK
<1>6. \A g \in Handler : Spare(n, g) = Spare(n, g)' + IF g = h THEN 1 ELSE 0
  <2> SUFFICES ASSUME NEW g \in Handler
               PROVE  Spare(n, g) = Spare(n, g)' + IF g = h THEN 1 ELSE 0
    OBVIOUS
  <2>1. /\ Cardinality(Places(pool[n], g)) \in Nat /\ pool[n] \in Seq(Handler)
        /\ made[n] \in Nat /\ g \in Nat
    BY SpareType
  <2>2. Cardinality(Places(pool[n], g))' \in Nat /\ made'[n] \in Nat
    <3>1. pool'[n] \in Seq(Handler) /\ made'[n] \in 0 .. HandlerCap
      BY DEF TypeOK
    <3> QED  BY <3>1, PlacesFinite, P2PAssumption
  <2>3. CASE /\ pool[n] = <<>> /\ h = made[n] + 1
             /\ made' = [made EXCEPT ![n] = h] /\ pool' = pool
    <3>1. made'[n] = made[n] + 1 /\ pool'[n] = pool[n]
      BY <2>3 DEF TypeOK
    <3> QED  BY <2>1, <2>3, <3>1 DEF Spare
  <2>4. CASE /\ pool[n] # <<>> /\ h = Head(pool[n])
             /\ pool' = [pool EXCEPT ![n] = Tail(@)] /\ made' = made
    <3>1. made'[n] = made[n] /\ pool'[n] = Tail(pool[n])
      BY <2>4 DEF TypeOK
    <3>2. Cardinality(Places(pool[n], g)) =
            Cardinality(Places(Tail(pool[n]), g)) + IF h = g THEN 1 ELSE 0
      BY <2>1, <2>4, PlacesTail
    <3>3. Cardinality(Places(pool[n], g)) =
            Cardinality(Places(pool[n], g))' + IF h = g THEN 1 ELSE 0
      BY <3>1, <3>2
    <3> DEFINE a == Cardinality(Places(pool[n], g))
    <3>4. a = a' + (IF h = g THEN 1 ELSE 0) /\ a \in Nat /\ a' \in Nat
      BY <2>1, <2>2, <3>3
    <3>5. Spare(n, g) = a + (IF g > made[n] THEN 1 ELSE 0)
      BY DEF Spare
    <3>6. Spare(n, g)' = a' + (IF g > made[n] THEN 1 ELSE 0)
      BY <3>1 DEF Spare
    <3> HIDE DEF a
    <3> QED  BY <2>1, <3>4, <3>5, <3>6
  <2> QED  BY <1>2, <2>3, <2>4 DEF Opened, Took
<1>7. ASSUME NEW m \in Node, NEW g \in Handler
      PROVE  hd'[m][g].loops + Spare(m, g)' <= hd'[m][g].ctrl + 1
  <2>1. hd[m][g].loops + Spare(m, g) <= hd[m][g].ctrl + 1
    BY DEF Accounted
  <2>2. hd[m][g].loops \in Nat /\ hd[m][g].ctrl \in Nat /\ Spare(m, g) \in Nat
    BY SpareType
  <2>3. Spare(m, g)' \in Nat
    <3>1. pool'[m] \in Seq(Handler)
      BY DEF TypeOK
    <3> QED  BY <3>1, PlacesFinite DEF Spare
  <2>4. CASE m = n /\ g = h
    <3>1. hd'[m][g].loops = hd[m][g].loops + 1 /\ hd'[m][g].ctrl = hd[m][g].ctrl
      BY <1>3, <1>4, <2>4
    <3>2. Spare(m, g) = Spare(m, g)' + 1
      BY <1>6, <2>4
    <3> QED  BY <2>1, <2>2, <2>3, <3>1, <3>2
  <2>5. CASE ~(m = n /\ g = h)
    <3>1. Spare(m, g) = Spare(m, g)'
      BY <1>5, <1>6, <2>3, <2>5
    <3> QED  BY <1>4, <2>1, <2>5, <3>1
  <2> QED  BY <2>4, <2>5
<1> QED  BY <1>7 DEF Accounted

\* DISCONN: the handler is told to stop and has at most one more place.
LEMMA ReturnedIs ==
  ASSUME TypeOK, NEW n \in Node, NEW s \in Notice, GiveBack(n, s)
  PROVE  /\ s.h \in Handler
         /\ \E r \in HandlerType :
              /\ hd' = HdWith(n, s.h, r)
              /\ r.dst = hd[n][s.h].dst /\ r.st = hd[n][s.h].st
              /\ r.loops = hd[n][s.h].loops /\ r.ctrl = hd[n][s.h].ctrl + 1
         /\ pool' = pool \/ pool' = [pool EXCEPT ![n] = <<s.h>> \o @]
<1> DEFINE h == s.h
           old == hd[n][h]
           new == Told(old, Len(pool[n]) = MaxPooledCnt)
<1>1. h \in Handler
  BY DEF Notice
<1>2. hd' = HdWith(n, h, new) /\ (pool' = pool \/ pool' = [pool EXCEPT ![n] = <<h>> \o @])
  BY <1>1 DEF GiveBack, HdWith, Told, TypeOK
<1> HIDE DEF h
<1>3. old \in HandlerType /\ Fielded(old) /\ FieldsOK(old)
  BY <1>1, HandlerIs DEF TypeOK
<1> HIDE DEF old
<1>4. Fielded(new)
  BY <1>3 DEF Fielded, Told
<1>5. FieldsOK(new)
  BY <1>3 DEF Fielded, Fields, FieldsOK, Told
<1>6. new.dst = old.dst /\ new.st = old.st /\ new.loops = old.loops /\ new.ctrl = old.ctrl + 1
  BY <1>3 DEF Fielded, Fields, Told
<1>7. new \in HandlerType
  BY <1>4, <1>5, HandlerIs
<1> HIDE DEF new
<1>8. \E r \in HandlerType :
         /\ hd' = HdWith(n, h, r)
         /\ r.dst = hd[n][h].dst /\ r.st = hd[n][h].st
         /\ r.loops = hd[n][h].loops /\ r.ctrl = hd[n][h].ctrl + 1
  BY <1>2, <1>6, <1>7 DEF old
<1> QED  BY <1>1, <1>2, <1>8 DEF h

\* So the accounts stay right, also when the handler is in the pool already.
LEMMA AccountedReturn ==
  ASSUME TypeOK, TypeOK', Accounted, NEW n \in Node, NEW s \in Notice, Returning(n, s)
  PROVE  Accounted'
<1> DEFINE h == s.h
<1>1. PICK r \in HandlerType :
        /\ hd' = HdWith(n, h, r)
        /\ r.loops = hd[n][h].loops /\ r.ctrl = hd[n][h].ctrl + 1
  BY ReturnedIs DEF Returning
<1>2. /\ h \in Handler /\ made' = made
      /\ pool' = pool \/ pool' = [pool EXCEPT ![n] = <<h>> \o @]
  BY ReturnedIs DEF Returning
<1> HIDE DEF h
<1>3. /\ hd'[n][h] = r
      /\ \A m \in Node, g \in Handler : ~(m = n /\ g = h) => hd'[m][g] = hd[m][g]
  BY <1>1, <1>2, HdWithIs DEF TypeOK
<1>4. ASSUME NEW m \in Node, NEW g \in Handler
      PROVE  \/ Spare(m, g)' = Spare(m, g)
             \/ m = n /\ g = h /\ Spare(m, g)' = Spare(m, g) + 1
  <2> DEFINE a == Cardinality(Places(pool[m], g))
             late == IF g > made[m] THEN 1 ELSE 0
  <2>1. Spare(m, g) = a + late /\ Spare(m, g)' = a' + late /\ late \in Nat /\ a \in Nat
    BY <1>2, SpareType DEF Spare
  <2>2. CASE pool'[m] = pool[m]
    BY <2>1, <2>2
  <2>3. CASE m = n /\ pool'[m] = <<h>> \o pool[m]
    <3>1. pool[m] \in Seq(Handler)
      BY DEF TypeOK
    <3>2. Cardinality(Places(<<h>> \o pool[m], g)) = a + IF h = g THEN 1 ELSE 0
      BY <1>2, <3>1, PlacesPush
    <3>3. a' = a + IF h = g THEN 1 ELSE 0
      BY <2>3, <3>2
    <3> HIDE DEF a, late
    <3> QED  BY <2>1, <2>3, <3>3
  <2>4. pool'[m] = pool[m] \/ (m = n /\ pool'[m] = <<h>> \o pool[m])
    BY <1>2 DEF TypeOK
  <2> QED  BY <2>2, <2>3, <2>4
<1>5. ASSUME NEW m \in Node, NEW g \in Handler
      PROVE  hd'[m][g].loops + Spare(m, g)' <= hd'[m][g].ctrl + 1
  <2>1. hd[m][g].loops + Spare(m, g) <= hd[m][g].ctrl + 1
    BY DEF Accounted
  <2>2. hd[m][g].loops \in Nat /\ hd[m][g].ctrl \in Nat /\ Spare(m, g) \in Nat
    BY SpareType
  <2>3. CASE m = n /\ g = h
    <3>1. hd'[m][g].loops = hd[m][g].loops /\ hd'[m][g].ctrl = hd[m][g].ctrl + 1
      BY <1>1, <1>3, <2>3
    <3> QED  BY <1>4, <2>1, <2>2, <3>1
  <2>4. CASE ~(m = n /\ g = h)
    BY <1>3, <1>4, <2>1, <2>4
  <2> QED  BY <2>3, <2>4
<1> QED  BY <1>5 DEF Accounted

\* Every step keeps the accounts.
LEMMA AccountedStep ==
  ASSUME TypeInv, Accounted, [Next]_vars
  PROVE  Accounted'
<1>1. TypeOK /\ TypeOK'
  BY TypeStep DEF TypeInv
<1> QED  BY <1>1, StepKinds, AccountedTurn, AccountedOpen, AccountedReturn

\* A handler the pool holds is spare at least once.
LEMMA PooledStops ==
  ASSUME TypeOK, Accounted
  PROVE  PooledIsStopping
<1> SUFFICES ASSUME NEW n \in Node, NEW i \in DOMAIN pool[n]
             PROVE  hd[n][pool[n][i]].loops <= hd[n][pool[n][i]].ctrl
  BY DEF PooledIsStopping
<1> DEFINE p == pool[n]
           h == p[i]
<1>1. p \in Seq(Handler) /\ i \in 1 .. Len(p) /\ Len(p) \in Nat /\ h \in Handler
  BY DEF TypeOK
<1>2. /\ hd[n][h].loops \in Nat /\ hd[n][h].ctrl \in Nat
      /\ Cardinality(Places(p, h)) \in Nat
  BY <1>1, SpareType
<1>3. hd[n][h].loops + Spare(n, h) <= hd[n][h].ctrl + 1
  BY <1>1 DEF Accounted
<1>4. Spare(n, h) = Cardinality(Places(p, h)) + IF h > made[n] THEN 1 ELSE 0
  BY DEF Spare
<1> HIDE DEF p
<1>5. Len(p) + 1 - i \in Places(p, h)
  <2>1. Len(p) + 1 - i \in 1 .. Len(p) /\ Len(p) + 1 - (Len(p) + 1 - i) = i
    BY <1>1
  <2> QED  BY <2>1 DEF Places
<1> HIDE DEF h
<1>6. Cardinality(Places(p, h)) # 0
  BY <1>1, <1>5, PlacesFinite, FS_EmptySet
<1>7. hd[n][h].loops <= hd[n][h].ctrl
  BY <1>2, <1>3, <1>4, <1>6
<1> QED  BY <1>7 DEF p, h

\* Whatever timers go off, and however often a handler is given back, a handler
\* that start gets from the pool has been told to stop every loop it still runs:
\* with its new loop it has no more loops than one that go on.
THEOREM PooledCorrect == Spec => []PooledIsStopping
<1>1. Init => TypeInv /\ Accounted
  BY TypeInit, AccountedInit
<1>2. TypeInv /\ Accounted /\ [Next]_vars => (TypeInv /\ Accounted)'
  BY TypeStep, AccountedStep
<1>3. TypeInv /\ Accounted => PooledIsStopping
  BY PooledStops DEF TypeInv
<1> QED  BY <1>1, <1>2, <1>3, PTL DEF Spec

-----------------------------------------------------------------------------
(* The tables once disconnect timers go off: as long as the pool gives out no  *)
(* handler that is still in the table.                                         *)

\* A handler that anything knows has been made.  One in the table is in its
\* peer's bucket once, and is the only one there for the peer.
MadeIn == \A n \in Node, h \in Handler : Named(n, h) => h <= made[n]
TableSorted == \A n \in Node : Sorted(table[n], n, Dst(n))
OnePeer ==
  \A n \in Node : \A g, h \in Entries(table[n]) : hd[n][g].dst = hd[n][h].dst => g = h

\* The notice that takes a handler out of the table names the peer under which
\* the table has it.
LeavesBy(n, h) ==
  \/ \E p \in posting[n] : p.h = h
  \/ \E s \in stateQ[n] : s.h = h /\ s.state = "DISCONN" /\ s.peer = hd[n][h].dst
Leaving == \A n \in Node : \A h \in Entries(table[n]) : hd[n][h].st = "DISCONN" => LeavesBy(n, h)

LeavingInv == MadeIn /\ TableSorted /\ OnePeer /\ Leaving

\* The tables are empty at first.
LEMMA LeavingInit ==
  ASSUME Init
  PROVE  LeavingInv
<1>1. \A n \in Node : Entries(table[n]) = {} /\ \A b \in Buckets : table[n][b] = <<>>
  BY DEF Init, NewKadDHT, Entries, InBucket
<1>2. \A n \in Node : \A b \in Buckets : Once(table[n][b]) /\ InBucket(table[n], b) = {}
  BY <1>1 DEF Once, InBucket
<1>3. MadeIn
  <2> SUFFICES ASSUME NEW n \in Node, NEW h \in Handler, Named(n, h) PROVE h <= made[n]
    BY DEF MadeIn
  <2>1. /\ posting[n] = {} /\ stateQ[n] = {} /\ taken[n] = {} /\ made[n] = PooledCnt
        /\ hd[n][h] = NewHandler
        /\ pool[n] = [i \in 1 .. PooledCnt |-> PooledCnt + 1 - i]
    BY DEF Init
  <2>2. \E i \in DOMAIN pool[n] : pool[n][i] = h
    BY <1>1, <2>1 DEF Named, In, NewHandler
  <2> QED  BY <2>1, <2>2, P2PAssumption
<1> QED  BY <1>1, <1>2, <1>3 DEF LeavingInv, TableSorted, OnePeer, Leaving, Sorted

\* In a sorted table a handler is in its peer's bucket.
LEMMA InItsBucket ==
  ASSUME TypeOK, TableSorted, NEW n \in Node, NEW h \in Entries(table[n])
  PROVE  /\ h \in Handler /\ HasBucket(n, hd[n][h].dst)
         /\ h \in InBucket(table[n], getKDist(hd[n][h].dst, n))
<1>1. h \in Handler
  BY InTable
<1>2. PICK b \in Buckets : h \in InBucket(table[n], b)
  BY DEF Entries
<1>3. getKDist(hd[n][h].dst, n) = b
  BY <1>1, <1>2 DEF TableSorted, Sorted, Dst
<1> QED  BY <1>1, <1>2, <1>3 DEF HasBucket

\* A turn of a goroutine, or a move to the front of a bucket.
LEMMA LeavingTurn ==
  ASSUME TypeOK, TypeOK', LeavingInv, Ordinary
  PROVE  LeavingInv'
<1>1. ASSUME NEW m \in Node, NEW g \in Handler
      PROVE  /\ hd'[m][g].dst = hd[m][g].dst
             /\ \/ hd'[m][g].st = hd[m][g].st \/ hd'[m][g].st # "DISCONN"
                \/ \E p \in posting'[m] : p.h = g
  <2>1. ASSUME NEW n \in Node, NEW h \in Handler, NEW r \in HandlerType, Turn(n, h, r)
        PROVE  /\ hd'[m][g].dst = hd[m][g].dst
               /\ \/ hd'[m][g].st = hd[m][g].st \/ hd'[m][g].st # "DISCONN"
                  \/ \E p \in posting'[m] : p.h = g
    <3>1. hd'[n][h] = r /\ (~(m = n /\ g = h) => hd'[m][g] = hd[m][g])
      <4>1. hd' = HdWith(n, h, r)
        BY <2>1 DEF Turn
      <4> QED  BY <4>1, HdWithIs DEF TypeOK
    <3>2. r.dst = hd[n][h].dst
          /\ (r.st = hd[n][h].st \/ r.st # "DISCONN" \/ \E p \in posting'[n] : p.h = h)
      BY <2>1 DEF Turn
    <3>3. CASE m = n /\ g = h
      BY <3>1, <3>2, <3>3
    <3>4. CASE ~(m = n /\ g = h)
      BY <3>1, <3>4
    <3> QED  BY <3>3, <3>4
  <2>2. CASE hd' = hd
    BY <2>2
  <2> QED  BY <2>1, <2>2 DEF Ordinary, Turned
<1>2. \A n \in Node : Dst(n)' = Dst(n)
  BY <1>1 DEF Dst
<1>3. ASSUME NEW n \in Node
      PROVE  /\ Entries(table'[n]) = Entries(table[n]) /\ Sorted(table'[n], n, Dst(n))
             /\ Entries(table[n]) \subseteq Handler
  <2>1. table[n] \in TableOf(Handler) /\ Entries(table[n]) \subseteq Handler
    BY InTable
  <2>2. Sorted(table[n], n, Dst(n))
    BY DEF LeavingInv, TableSorted
  <2>3. ASSUME NEW id, HasBucket(n, id), table'[n] = Update(table[n], n, Dst(n), id)
        PROVE  Entries(table'[n]) = Entries(table[n]) /\ Sorted(table'[n], n, Dst(n))
    <3> DEFINE ids == Dst(n)
               t   == table[n]
               new == Update(t, n, ids, id)
    <3>1. t \in TableOf(Handler) /\ Sorted(t, n, ids)
      BY <2>1, <2>2
    <3> HIDE DEF ids, t
    <3>2. Sorted(new, n, ids) /\ \A b \in Buckets : InBucket(new, b) = InBucket(t, b)
      BY <2>3, <3>1, UpdateIs, MoveSorted
    <3> HIDE DEF new
    <3>3. Entries(new) = Entries(t)
      BY <3>2 DEF Entries
    <3>4. table'[n] = new
      BY <2>3 DEF new, ids, t
    <3> QED  BY <3>2, <3>3, <3>4 DEF ids, t
  <2> QED  BY <2>1, <2>2, <2>3 DEF Ordinary, Shuffled
<1>4. ASSUME NEW n \in Node, NEW h \in Entries(table[n]), hd'[n][h].st = "DISCONN"
      PROVE  LeavesBy(n, h)'
  <2>1. h \in Handler /\ hd'[n][h].dst = hd[n][h].dst
    BY <1>1, <1>3
  <2>2. CASE \E p \in posting'[n] : p.h = h
    BY <2>2 DEF LeavesBy
  <2>3. CASE hd[n][h].st = "DISCONN"
    <3>1. LeavesBy(n, h)
      BY <2>3 DEF LeavingInv, Leaving
    <3>2. ASSUME NEW p \in posting[n], p.h = h PROVE LeavesBy(n, h)'
      <4>1. \/ p \in posting'[n]
            \/ \E s \in stateQ'[n] : /\ s.h = p.h /\ s.peer = hd[n][p.h].dst
                                    /\ s.state = hd[n][p.h].st
        BY DEF Ordinary, Reported
      <4> QED  BY <2>1, <2>3, <3>2, <4>1 DEF LeavesBy
    <3>3. ASSUME NEW s \in stateQ[n], s.h = h, s.state = "DISCONN", s.peer = hd[n][h].dst
          PROVE  LeavesBy(n, h)'
      <4>1. s \in stateQ'[n]
        BY <3>3 DEF Ordinary, Reported
      <4> QED  BY <2>1, <3>3, <4>1 DEF LeavesBy
    <3> QED  BY <3>1, <3>2, <3>3 DEF LeavesBy
  <2> QED  BY <1>1, <1>4, <2>1, <2>2, <2>3
<1>5. MadeIn'
  <2> SUFFICES ASSUME NEW m \in Node, NEW g \in Handler, Named(m, g)' PROVE Named(m, g)
    BY DEF LeavingInv, MadeIn, Ordinary, Shuffled
  <2>1. Named(m, g) \/ hd'[m][g] = hd[m][g]
    <3>1. CASE hd' = hd
      BY <3>1
    <3>2. ASSUME NEW n \in Node, NEW h \in Handler, NEW r \in HandlerType, Turn(n, h, r)
          PROVE  Named(m, g) \/ hd'[m][g] = hd[m][g]
      <4>1. hd' = HdWith(n, h, r) /\ Named(n, h)
        BY <3>2 DEF Turn
      <4>2. ~(m = n /\ g = h) => hd'[m][g] = hd[m][g]
        BY <4>1, HdWithIs DEF TypeOK
      <4> QED  BY <4>1, <4>2
    <3> QED  BY <3>1, <3>2 DEF Ordinary, Turned
  <2>2. In(m, g)' <=> In(m, g)
    BY <1>3 DEF In
  <2>3. /\ \A p \in posting'[m] : Named(m, p.h)
        /\ \A s \in stateQ'[m] : Named(m, s.h)
        /\ \A x \in taken'[m] : Named(m, x.h)
        /\ pool' = pool
    BY DEF Ordinary, Familiar, Shuffled
  <2> QED  BY <2>1, <2>2, <2>3 DEF Named
<1>6. TableSorted'
  BY <1>2, <1>3 DEF TableSorted
<1>7. OnePeer'
  BY <1>1, <1>3 DEF LeavingInv, OnePeer
<1>8. Leaving'
  BY <1>3, <1>4 DEF Leaving
<1> QED  BY <1>5, <1>6, <1>7, <1>8 DEF LeavingInv

\* The handler an opening takes is in no bucket.
LEMMA TakenIsOut ==
  ASSUME TypeOK, MadeIn, PooledIsOut, NEW n \in Node, NEW h \in Handler, Took(n, h)
  PROVE  h \notin Entries(table[n])
<1>1. pool[n] \in Seq(Handler) /\ made[n] \in Nat
  BY P2PAssumption DEF TypeOK
<1>2. CASE pool[n] = <<>> /\ h = made[n] + 1
  <2>1. In(n, h) => h <= made[n]
    BY DEF MadeIn, Named
  <2> QED  BY <1>1, <1>2, <2>1 DEF In
<1>3. CASE pool[n] # <<>> /\ h = Head(pool[n])
  <2>1. 1 \in DOMAIN pool[n] /\ h = pool[n][1]
    BY <1>1, <1>3
  <2> QED  BY <2>1 DEF PooledIsOut
<1> QED  BY <1>2, <1>3 DEF Took

\* An opening puts one handler in front of its peer's bucket, for a peer that
\* no handler of the table has.
LEMMA LeavingOpen ==
  ASSUME TypeOK, TypeOK', LeavingInv, PooledIsOut, NEW n \in Node, Opening(n)
  PROVE  LeavingInv'
<1>1. PICK d \in NodeID, addr \in Socket \cup {None}, tokens \in 0 .. 1, t \in TableOf(Handler) :
        /\ HasBucket(n, d)
        /\ t = table[n] \/ \E id : HasBucket(n, id) /\ t = Update(table[n], n, Dst(n), id)
        /\ ~Has(t, n, Dst(n), d) \/ Get(t, n, Dst(n), d) = NoHandler
        /\ Open(n, d, addr, tokens, t)
        /\ UNCHANGED <<posting, stateQ, taken>>
  BY DEF Opening
<1>2. PICK h \in Handler : Opened(n, d, addr, tokens, t, h)
  BY <1>1, OpenIs
<1> DEFINE r == Started(hd[n][h], d, addr, tokens)
<1>3. r \in HandlerType /\ r.dst = d /\ r.st = "WAIT" /\ hd' = HdWith(n, h, r)
  <2>1. hd[n][h] \in HandlerType
    BY DEF TypeOK
  <2> QED  BY <1>2, <2>1, StartedIs DEF Opened
<1> HIDE DEF r
<1>4. /\ hd'[n][h] = r
      /\ \A m \in Node, g \in Handler : ~(m = n /\ g = h) => hd'[m][g] = hd[m][g]
  BY <1>3, HdWithIs DEF TypeOK
<1> DEFINE ids == Dst(n)
           told == [ids EXCEPT ![h] = d]
<1>5. /\ Dst(n)' = told
      /\ \A m \in Node : m # n => Dst(m)' = Dst(m)
      /\ told[h] = d /\ \A g \in Handler : g # h => told[g] = ids[g]
      /\ \A g \in Handler : ids[g] = hd[n][g].dst
  BY <1>3, <1>4 DEF Dst
<1>6. /\ table[n] \in TableOf(Handler) /\ Sorted(table[n], n, ids)
      /\ ~Has(t, n, ids, d) \/ Get(t, n, ids, d) = NoHandler
      /\ table'[n] = Insert(t, n, told, h)
      /\ \A m \in Node : m # n => table'[m] = table[m]
      /\ t = table[n] \/ \E id : HasBucket(n, id) /\ t = Update(table[n], n, ids, id)
  <2>1. table[n] \in TableOf(Handler)
    BY InTable
  <2> QED  BY <1>1, <1>2, <2>1 DEF Opened, LeavingInv, TableSorted
<1> HIDE DEF ids, told
<1>7. Sorted(t, n, ids) /\ \A b \in Buckets : InBucket(t, b) = InBucket(table[n], b)
  BY <1>6, UpdateIs, MoveSorted
<1>8. Entries(t) = Entries(table[n]) /\ h \notin Entries(t) /\ Entries(t) \subseteq Handler
  <2>1. Entries(t) = Entries(table[n])
    BY <1>7 DEF Entries
  <2>2. h \notin Entries(table[n])
    BY <1>2, TakenIsOut DEF Opened, LeavingInv
  <2>3. Entries(table[n]) \subseteq Handler
    BY InTable
  <2> QED  BY <2>1, <2>2, <2>3
<1>9. Sorted(t, n, told)
  <2>1. \A b \in Buckets : \A g \in InBucket(t, b) : g \in Handler /\ g # h
    BY <1>8 DEF Entries
  <2> QED  BY <1>5, <1>7, <2>1 DEF Sorted
<1>10. HasBucket(n, told[h])
  BY <1>1, <1>5
<1> DEFINE new == Insert(t, n, told, h)
<1>11. Sorted(new, n, told)
  BY <1>8, <1>9, <1>10, InsertSorted
<1>12. \A b \in Buckets : InBucket(new, b) =
         IF b = getKDist(told[h], n) THEN InBucket(t, b) \cup {h} ELSE InBucket(t, b)
  BY <1>10, InsertIs
<1>13. table'[n] = new
  BY <1>6
<1> HIDE DEF new
<1>14. Entries(table'[n]) = Entries(table[n]) \cup {h}
  <2>1. getKDist(told[h], n) \in Buckets
    BY <1>10 DEF HasBucket
  <2> QED  BY <1>8, <1>12, <1>13, <2>1 DEF Entries
<1>15. TableSorted'
  <2>1. \A m \in Node : m # n => Sorted(table'[m], m, Dst(m)')
    BY <1>5, <1>6 DEF LeavingInv, TableSorted
  <2>2. Sorted(table'[n], n, Dst(n)')
    BY <1>5, <1>11, <1>13
  <2> QED  BY <2>1, <2>2 DEF TableSorted
<1>16. MadeIn'
  <2>1. \A m \in Node : made[m] \in Nat /\ made'[m] \in Nat /\ Handler \subseteq Nat
    BY P2PAssumption DEF TypeOK, Handler
  <2>2. pool[n] \in Seq(Handler)
    BY DEF TypeOK
  <2>3. /\ \A m \in Node : made[m] <= made'[m]
        /\ h <= made'[n]
        /\ \A m \in Node : \A i \in DOMAIN pool'[m] :
             \E j \in DOMAIN pool[m] : pool[m][j] = pool'[m][i]
    <3>1. CASE h = made[n] + 1 /\ made' = [made EXCEPT ![n] = h] /\ pool' = pool
      BY <2>1, <3>1 DEF TypeOK
    <3>2. CASE /\ pool[n] # <<>> /\ h = Head(pool[n])
               /\ pool' = [pool EXCEPT ![n] = Tail(@)] /\ made' = made
      <4>1. 1 \in DOMAIN pool[n] /\ h = pool[n][1]
        BY <2>2, <3>2
      <4>2. h <= made[n]
        BY <4>1 DEF LeavingInv, MadeIn, Named
      <4>3. \A m \in Node : pool'[m] = IF m = n THEN Tail(pool[n]) ELSE pool[m]
        BY <3>2 DEF TypeOK
      <4>4. \A i \in DOMAIN Tail(pool[n]) :
              i + 1 \in DOMAIN pool[n] /\ Tail(pool[n])[i] = pool[n][i + 1]
        BY <2>2, <3>2
      <4>5. \A i \in DOMAIN Tail(pool[n]) : \E j \in DOMAIN pool[n] : pool[n][j] = Tail(pool[n])[i]
        BY <4>4
      <4>6. \A m \in Node : \A i \in DOMAIN pool'[m] :
              \E j \in DOMAIN pool[m] : pool[m][j] = pool'[m][i]
        BY <4>3, <4>5
      <4> QED  BY <2>1, <3>2, <4>2, <4>6
    <3> QED  BY <1>2, <3>1, <3>2 DEF Opened, Took
  <2>4. ASSUME NEW m \in Node, NEW g \in Handler, Named(m, g)', ~(m = n /\ g = h)
        PROVE  Named(m, g)
    <3>1. hd'[m][g] = hd[m][g]
      BY <1>4, <2>4
    <3>2. In(m, g)' => In(m, g)
      BY <1>6, <1>14, <2>4 DEF In
    <3>3. posting' = posting /\ stateQ' = stateQ /\ taken' = taken
      BY <1>1
    <3>4. (\E i \in DOMAIN pool'[m] : pool'[m][i] = g) => \E i \in DOMAIN pool[m] : pool[m][i] = g
      BY <2>3
    <3> QED  BY <2>4, <3>1, <3>2, <3>3, <3>4 DEF Named
  <2> SUFFICES ASSUME NEW m \in Node, NEW g \in Handler, Named(m, g)' PROVE g <= made'[m]
    BY DEF MadeIn
  <2>5. CASE m = n /\ g = h
    BY <2>3, <2>5
  <2>6. CASE ~(m = n /\ g = h)
    <3>1. g <= made[m] /\ made[m] <= made'[m]
      BY <2>3, <2>4, <2>6 DEF LeavingInv, MadeIn
    <3> QED  BY <2>1, <3>1
  <2> QED  BY <2>5, <2>6
<1>17. OnePeer'
  <2>1. \A g \in Entries(table[n]) : g \in Handler /\ g # h /\ hd[n][g].dst # d
    <3> SUFFICES ASSUME NEW g \in Entries(table[n]), hd[n][g].dst = d PROVE FALSE
      BY <1>8
    <3>1. g \in Handler /\ ids[g] = d
      BY <1>5, <1>8
    <3>2. g \in InBucket(t, getKDist(d, n))
      <4>1. g \in InBucket(table[n], getKDist(d, n)) /\ getKDist(d, n) \in Buckets
        BY InItsBucket DEF LeavingInv, HasBucket
      <4> QED  BY <1>7, <4>1
    <3>3. /\ NoHandler \notin Handler /\ Get(t, n, ids, d) = NoHandler =>
               \A k \in InBucket(t, getKDist(d, n)) : ids[k] # d
          /\ ~Has(t, n, ids, d) => \A k \in InBucket(t, getKDist(d, n)) : ids[k] # d
      BY <1>1, GetIs
    <3> QED  BY <1>6, <3>1, <3>2, <3>3, NilAssumption
  <2>2. ASSUME NEW m \in Node, NEW g \in Entries(table'[m]), NEW k \in Entries(table'[m]),
               hd'[m][g].dst = hd'[m][k].dst
        PROVE  g = k
    <3>1. CASE m # n
      <4>1. g \in Entries(table[m]) /\ k \in Entries(table[m]) /\ Entries(table[m]) \subseteq Handler
        BY <1>6, <2>2, <3>1, InTable
      <4> QED  BY <1>4, <2>2, <3>1, <4>1 DEF LeavingInv, OnePeer
    <3>2. CASE m = n
      <4>1. /\ g = h \/ g \in Entries(table[n])
            /\ k = h \/ k \in Entries(table[n])
        BY <1>14, <2>2, <3>2
      <4>2. hd'[n][h].dst = d /\ \A x \in Entries(table[n]) : hd'[n][x].dst = hd[n][x].dst
        BY <1>3, <1>4, <2>1
      <4> QED  BY <2>1, <2>2, <3>2, <4>1, <4>2 DEF LeavingInv, OnePeer
    <3> QED  BY <3>1, <3>2
  <2> QED  BY <2>2 DEF OnePeer
<1>18. Leaving'
  <2> SUFFICES ASSUME NEW m \in Node, NEW g \in Entries(table'[m]), hd'[m][g].st = "DISCONN"
               PROVE  LeavesBy(m, g)'
    BY DEF Leaving
  <2>1. ~(m = n /\ g = h)
    BY <1>3, <1>4
  <2>2. g \in Entries(table[m]) /\ g \in Handler
    <3>1. g \in Entries(table[m])
      BY <1>6, <1>14, <2>1
    <3> QED  BY <3>1, InTable
  <2>3. hd'[m][g] = hd[m][g]
    BY <1>4, <2>1, <2>2
  <2>4. LeavesBy(m, g)
    BY <2>2, <2>3 DEF LeavingInv, Leaving
  <2>5. posting' = posting /\ stateQ' = stateQ
    BY <1>1
  <2> QED  BY <2>3, <2>4, <2>5 DEF LeavesBy
<1> QED  BY <1>15, <1>16, <1>17, <1>18 DEF LeavingInv

\* A notice of DISCONN takes out the entry of its peer.  No other entry is
\* waiting for it: an entry that leaves by it has that peer.
LEMMA LeavingReturn ==
  ASSUME TypeOK, TypeOK', LeavingInv, NEW n \in Node, NEW s \in Notice, Returning(n, s)
  PROVE  LeavingInv'
<1> DEFINE h == s.h
<1>1. PICK r \in HandlerType :
        hd' = HdWith(n, h, r) /\ r.dst = hd[n][h].dst /\ r.st = hd[n][h].st
  BY ReturnedIs DEF Returning
<1>2. /\ h \in Handler /\ made' = made /\ posting' = posting /\ taken' = taken
      /\ pool' = pool \/ pool' = [pool EXCEPT ![n] = <<h>> \o @]
      /\ s \in stateQ[n]
  BY ReturnedIs DEF Returning
<1>3. \A m \in Node : stateQ'[m] = IF m = n THEN stateQ[m] \ {s} ELSE stateQ[m]
  BY DEF Returning, Drop, TypeOK
<1>4. Named(n, h)
  BY <1>2 DEF Named
<1> HIDE DEF h
<1>5. /\ \A m \in Node, g \in Handler : ~(m = n /\ g = h) => hd'[m][g] = hd[m][g]
      /\ \A m \in Node, g \in Handler :
           hd'[m][g].dst = hd[m][g].dst /\ hd'[m][g].st = hd[m][g].st
  <2>1. /\ hd'[n][h] = r
        /\ \A m \in Node, g \in Handler : ~(m = n /\ g = h) => hd'[m][g] = hd[m][g]
    BY <1>1, <1>2, HdWithIs DEF TypeOK
  <2> QED  BY <1>1, <2>1
<1>6. \A m \in Node : Dst(m)' = Dst(m)
  BY <1>5 DEF Dst
<1>7. ASSUME NEW m \in Node
      PROVE  /\ Sorted(table'[m], m, Dst(m))
             /\ \A g \in Entries(table'[m]) :
                  /\ g \in Entries(table[m]) /\ g \in Handler
                  /\ m = n => hd[m][g].dst # s.peer
  <2>1. /\ table[m] \in TableOf(Handler) /\ Entries(table[m]) \subseteq Handler
        /\ Sorted(table[m], m, Dst(m))
    BY InTable DEF LeavingInv, TableSorted
  <2>2. CASE m # n
    <3>1. table'[m] = table[m]
      BY <2>2 DEF Returning, GiveBack, TypeOK
    <3> QED  BY <2>1, <2>2, <3>1
  <2>3. CASE m = n
    <3> DEFINE ids == Dst(n)
               t   == table[n]
               new == Remove(t, n, ids, s.peer)
    <3>1. table'[n] = new
      BY DEF Returning, GiveBack, TypeOK
    <3>2. \A g \in Handler : ids[g] = hd[n][g].dst
      BY DEF Dst
    <3>3. /\ t \in TableOf(Handler) /\ Sorted(t, n, ids) /\ Entries(t) \subseteq Handler
          /\ \A g, k \in Entries(t) : hd[n][g].dst = hd[n][k].dst => g = k
      BY <2>1, <2>3 DEF LeavingInv, OnePeer
    <3> HIDE DEF ids, t
    <3>4. \A g, k \in Entries(t) : ids[g] = ids[k] => g = k
      BY <3>2, <3>3
    <3>5. Sorted(new, n, ids) /\ \A g \in Entries(new) : g \in Entries(t) /\ ids[g] # s.peer
      BY <3>3, <3>4, RemoveGone
    <3> HIDE DEF new
    <3> QED  BY <2>3, <3>1, <3>2, <3>3, <3>5 DEF ids, t
  <2> QED  BY <2>2, <2>3
<1>8. MadeIn'
  <2> SUFFICES ASSUME NEW m \in Node, NEW g \in Handler, Named(m, g)' PROVE Named(m, g)
    BY <1>2 DEF LeavingInv, MadeIn
  <2>1. CASE m = n /\ g = h
    BY <1>4, <2>1
  <2>2. CASE ~(m = n /\ g = h)
    <3>1. hd'[m][g] = hd[m][g] /\ (In(m, g)' => In(m, g))
      BY <1>5, <1>7, <2>2 DEF In
    <3>2. \A z \in stateQ'[m] : z \in stateQ[m]
      BY <1>3
    <3>3. (\E i \in DOMAIN pool'[m] : pool'[m][i] = g) => \E i \in DOMAIN pool[m] : pool[m][i] = g
      <4>1. pool'[m] = pool[m] \/ (m = n /\ pool'[m] = <<h>> \o pool[m])
        BY <1>2 DEF TypeOK
      <4>2. pool[m] \in Seq(Handler)
        BY DEF TypeOK
      <4>3. \A x : Holds(Fronted(h, pool[m]), x) <=> (x = h \/ Holds(pool[m], x))
        BY <1>2, <4>2, InFront
      <4> QED  BY <2>2, <4>1, <4>3 DEF Holds, Fronted
    <3> QED  BY <1>2, <2>2, <3>1, <3>2, <3>3 DEF Named
  <2> QED  BY <2>1, <2>2
<1>9. TableSorted'
  BY <1>6, <1>7 DEF TableSorted
<1>10. OnePeer'
  BY <1>5, <1>7 DEF LeavingInv, OnePeer
<1>11. Leaving'
  <2> SUFFICES ASSUME NEW m \in Node, NEW g \in Entries(table'[m]), hd'[m][g].st = "DISCONN"
               PROVE  LeavesBy(m, g)'
    BY DEF Leaving
  <2>1. /\ g \in Entries(table[m]) /\ g \in Handler /\ (m = n => hd[m][g].dst # s.peer)
        /\ hd'[m][g].dst = hd[m][g].dst /\ hd'[m][g].st = hd[m][g].st
    BY <1>5, <1>7
  <2>2. LeavesBy(m, g)
    BY <2>1 DEF LeavingInv, Leaving
  <2>3. ASSUME NEW z \in stateQ[m], z.peer = hd[m][g].dst PROVE z \in stateQ'[m]
    BY <1>3, <2>1, <2>3
  <2> QED  BY <1>2, <2>1, <2>2, <2>3 DEF LeavesBy
<1> QED  BY <1>8, <1>9, <1>10, <1>11 DEF LeavingInv

\* The invariant says what the two properties do.
LEMMA LeavingImplies ==
  ASSUME TypeOK, LeavingInv
  PROVE  DeadEntryIsLeaving /\ OneHandlerPerPeer
<1>1. DeadEntryIsLeaving
  BY DEF LeavingInv, Leaving, LeavesBy, DeadEntryIsLeaving
<1>2. OneHandlerPerPeer
  BY InItsBucket DEF LeavingInv, OnePeer, OneHandlerPerPeer
<1> QED  BY <1>1, <1>2

\* A step from a state in which no pooled handler is in the table.
LEMMA LeavingStep ==
  ASSUME TypeInv, LeavingInv, PooledIsOut, [Next]_vars
  PROVE  LeavingInv'
<1>1. TypeOK /\ TypeOK'
  BY TypeStep DEF TypeInv
<1> QED  BY <1>1, StepKinds, LeavingTurn, LeavingOpen, LeavingReturn

\* As long as that has been so the tables are right, whatever has expired.
LEMMA LeavingInvariance == Spec /\ []PooledIsOut => [](TypeInv /\ LeavingInv)
<1>1. Init => TypeInv /\ LeavingInv
  BY TypeInit, LeavingInit
<1>2. TypeInv /\ LeavingInv /\ PooledIsOut /\ [Next]_vars => (TypeInv /\ LeavingInv)'
  BY TypeStep, LeavingStep
<1> QED  BY <1>1, <1>2, PTL DEF Spec

\* As long as no handler is given out while it is in the table, a handler that
\* has given up its peer does not stay in the table: the notice that takes it
\* out is under way, with the peer under which the table has it.
THEOREM DeadLeaves == Spec /\ []PooledIsOut => []DeadEntryIsLeaving
<1>1. TypeInv /\ LeavingInv => DeadEntryIsLeaving
  BY LeavingImplies DEF TypeInv
<1> QED  BY <1>1, LeavingInvariance, PTL

\* And the table has one handler for a peer, in that peer's bucket, also after
\* connections have expired and the peers have been opened again.
THEOREM OneAfterExpiry == Spec /\ []PooledIsOut => []OneHandlerPerPeer
<1>1. TypeInv /\ LeavingInv => OneHandlerPerPeer
  BY LeavingImplies DEF TypeInv
<1> QED  BY <1>1, LeavingInvariance, PTL

=============================================================================

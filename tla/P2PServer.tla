----------------------------- MODULE P2PServer -----------------------------
(* NaiveP2PServer, NaiveP2PHandler and NaiveP2PHandlerPool (net/p2p.go): the   *)
(* servers of several nodes over a network that loses and reorders datagrams. *)
(* A node has a static socket, number 0, and one socket per handler object    *)
(* made; a socket is the pair <<node, number>>, which is also its address.     *)
(* Goroutines that only wait to send on a channel are sets of pending items,   *)
(* taken in any order.  The timers are ten seconds and more, so one goes off   *)
(* only when no node has anything left to do (Quiet); a datagram may still    *)
(* take any time.                                                             *)
EXTENDS KadTable, Naturals, Sequences, FiniteSets

CONSTANTS
  Node,         \* the ids at which a server runs
  StaticPeers,  \* node -> the ids given to Init, whose static address it knows
  Plans,        \* what applications may be up to: the ids each node calls
                \* ConnectUDP with, and pairs <<a, b>> when a sends b a message;
                \* bound: the datagrams that may be on the way meanwhile
  Listeners,    \* nodes that call HearFrom for everyone
  PooledCnt, MaxPooledCnt,
  HandlerCap,   \* bound: handler objects made at a node
  ExpiryCap,    \* bound: node -> disconnect timers that go off there
  MAX_TTL,
  MayStop,      \* nodes whose Stop is called
  Lossy         \* whether the network may lose datagrams

CONSTANTS None  \* no address, no id

ASSUME P2PAssumption ==
  /\ Node \subseteq NodeID
  /\ StaticPeers \in [Node -> SUBSET Node]
  /\ Plans \subseteq [want : [Node -> SUBSET NodeID], send : SUBSET (Node \X NodeID),
                      room : Nat]
  /\ PooledCnt \in Nat /\ MaxPooledCnt \in Nat /\ HandlerCap \in Nat
  /\ PooledCnt <= HandlerCap
  /\ ExpiryCap \in [Node -> Nat] /\ MAX_TTL \in Nat /\ Lossy \in BOOLEAN

VARIABLES
  status,    \* node -> "run", "stopping" when the server's loop has returned,
             \* "stopped" when the static handler's has too, or "panic"
  table,     \* node -> DHT
  pool,      \* node -> the pool's list, front first
  made,      \* node -> handler objects made, numbered 1 .. made
  hd,        \* node -> handler number -> its fields and goroutines
  connectQ,  \* node -> ids on connectChan
  sendQ,     \* node -> messages on sendChan
  inbox,     \* node -> datagrams passed up to handlerChan
  posting,   \* node -> notices of a ping or an expiry not yet put together
  stateQ,    \* node -> notices on stateChan
  outQ,      \* node -> messages on the handlers' sendChan
  taken,     \* node -> datagrams a reader goroutine has taken and not handled
  net,       \* datagrams on the way
  asked,     \* node -> ids ConnectUDP has been called with
  expired,   \* node -> disconnect timers that have gone off
  app        \* the plan, pairs sent, and node -> the ids it was delivered from

vars == <<status, table, pool, made, hd, connectQ, sendQ, inbox, posting,
          stateQ, outQ, taken, net, asked, expired, app>>

Handler == 1 .. HandlerCap
Socket  == Node \X (0 .. HandlerCap)

\* nil is neither a handler nor an address.
ASSUME NilAssumption == NoHandler \notin Handler /\ None \notin Socket

\* NewNaiveP2PHandler.  `loops' counts the run goroutines of the object, `ear'
\* the readers a loop waits for, `stale' those left from loops that returned;
\* wait, retry, ping and alarm say which of waitTicker, waitTicker2, pingTicker
\* and disconnTimer is running, `due' that disconnTimer has put its event in
\* its channel; `connect' and `ctrl' count the tokens of those channels.
NewHandler ==
  [dst |-> None, addr |-> None, st |-> "WAIT", loops |-> 0, ear |-> 0,
   stale |-> 0, wait |-> FALSE, retry |-> FALSE, ping |-> FALSE,
   alarm |-> FALSE, due |-> FALSE, connect |-> 0, ctrl |-> 0, closed |-> FALSE]

Init ==
  /\ status = [n \in Node |-> "run"]
  /\ table = [n \in Node |-> NewKadDHT]
  /\ pool = [n \in Node |-> [i \in 1 .. PooledCnt |-> PooledCnt + 1 - i]]
  /\ made = [n \in Node |-> PooledCnt]
  /\ hd = [n \in Node |-> [h \in Handler |-> NewHandler]]
  /\ connectQ = StaticPeers
  /\ asked = StaticPeers
  /\ \E plan \in Plans :
       app = [plan |-> plan, sent |-> {}, got |-> [n \in Node |-> {}]]
  /\ expired = [n \in Node |-> 0]
  /\ net = {}
  /\ sendQ = [n \in Node |-> {}]
  /\ inbox = [n \in Node |-> {}]
  /\ posting = [n \in Node |-> {}]
  /\ stateQ = [n \in Node |-> {}]
  /\ outQ = [n \in Node |-> {}]
  /\ taken = [n \in Node |-> {}]

Dst(n) == [h \in Handler |-> hd[n][h].dst]
Alive(n) == status[n] # "panic"
Running(n) == status[n] = "run"
StaticRuns(n) == status[n] \in {"run", "stopping"}

Put(q, n, item) == [q EXCEPT ![n] = @ \cup {item}]
PutAll(q, n, items) == [q EXCEPT ![n] = @ \cup items]
Drop(q, n, item) == [q EXCEPT ![n] = @ \ {item}]

NetMsg(src, dst, type, sock, ttl) ==
  [src |-> src, dst |-> dst, type |-> type, sock |-> sock, ttl |-> ttl]

\* connectUDP: a CONN message that carries the address of the handler's socket.
ConnMsg(n, d, h) == NetMsg(n, d, "CONN", <<n, h>>, MAX_TTL)

Datagram(to, src, dst, type, msg) ==
  [to |-> to, src |-> src, dst |-> dst, type |-> type, msg |-> msg]

HasRoom == Cardinality(net) < app.plan.room

\* Nothing a server, a loop or a goroutine of any node could do at once.
Quiet ==
  \A n \in {m \in Node : Alive(m)} :
    /\ Running(n) => /\ connectQ[n] = {} /\ sendQ[n] = {} /\ inbox[n] = {}
                     /\ stateQ[n] = {}
                     /\ \A x \in outQ[n] : x.h # 0
    /\ status[n] # "stopping"
    /\ posting[n] = {} /\ taken[n] = {}
    /\ \A h \in Handler : hd[n][h].loops > 0 =>
         /\ hd[n][h].connect = 0 /\ hd[n][h].ctrl = 0 /\ ~hd[n][h].due
         /\ \A x \in outQ[n] : x.h # h
-----------------------------------------------------------------------------
\* The calls of the application: ConnectUDP, Send of a MSG_SINGLE, Stop.
ConnectUDP(n, d) ==
  /\ Alive(n) /\ d \in app.plan.want[n] \ asked[n]
  /\ asked' = Put(asked, n, d)
  /\ connectQ' = Put(connectQ, n, d)
  /\ UNCHANGED <<status, table, pool, made, hd, sendQ, inbox, posting, stateQ,
                 outQ, taken, net, expired, app>>

Send(a, b) ==
  /\ Alive(a) /\ <<a, b>> \in app.plan.send \ app.sent
  /\ app' = [app EXCEPT !.sent = @ \cup {<<a, b>>}]
  /\ sendQ' = Put(sendQ, a, NetMsg(a, b, "DATA", None, MAX_TTL))
  /\ UNCHANGED <<status, table, pool, made, hd, connectQ, inbox, posting,
                 stateQ, outQ, taken, net, asked, expired>>

\* The server's loop stops the static handler and returns; that loop may take
\* other cases before its own ctrlChan.
Stop(n) ==
  /\ n \in MayStop /\ StaticRuns(n)
  /\ status' = [status EXCEPT ![n] = IF Running(n) THEN "stopping" ELSE "stopped"]
  /\ UNCHANGED <<table, pool, made, hd, connectQ, sendQ, inbox, posting,
                 stateQ, outQ, taken, net, asked, expired, app>>
-----------------------------------------------------------------------------
\* The server's loop takes a handler from the pool, or makes one, points it at
\* (addr, d), inserts it, sends a CONN message and starts the handler's loop;
\* tokens is 1 when Connect is called too.  Starting makes new timers.
Open(n, d, addr, tokens, t) ==
  LET h == IF pool[n] = <<>> THEN made[n] + 1 ELSE Head(pool[n])
      started == [hd[n][h] EXCEPT
        !.dst = d, !.addr = addr, !.st = "WAIT", !.loops = @ + 1, !.ear = @ + 1,
        !.wait = TRUE, !.retry = FALSE, !.ping = FALSE, !.alarm = TRUE,
        !.due = FALSE, !.connect = @ + tokens]
  IN  /\ h \in Handler
      /\ IF pool[n] = <<>> THEN made' = [made EXCEPT ![n] = h] /\ UNCHANGED pool
                           ELSE pool' = [pool EXCEPT ![n] = Tail(@)] /\ UNCHANGED made
      /\ hd' = [hd EXCEPT ![n][h] = started]
      /\ table' = [table EXCEPT ![n] = Insert(t, n, [Dst(n) EXCEPT ![h] = d], h)]
      /\ sendQ' = Put(sendQ, n, ConnMsg(n, d, h))

\* Mutant: a known peer is opened again.
ServerConnectAlways(n) ==
  /\ Running(n)
  /\ \E d \in connectQ[n] :
       /\ connectQ' = Drop(connectQ, n, d)
       /\ Open(n, d, None, 0, table[n])
  /\ UNCHANGED <<status, inbox, posting, stateQ, outQ, taken, net, asked,
                 expired, app>>

\* case id := <-nps.connectChan
ServerConnect(n) ==
  /\ Running(n)
  /\ \E d \in connectQ[n] :
       /\ HasBucket(n, d)
       /\ connectQ' = Drop(connectQ, n, d)
       /\ IF Has(table[n], n, Dst(n), d)
          THEN UNCHANGED <<pool, made, hd, table, sendQ>>
          ELSE Open(n, d, None, 0, table[n])
  /\ UNCHANGED <<status, inbox, posting, stateQ, outQ, taken, net, asked,
                 expired, app>>

ReadyToSend(x) == x.st # "DISCONN" /\ x.addr # None

\* case msg := <-nps.sendChan: to the peer's own handler when it has an
\* address, else to the peer's static address, else to the handlers the table
\* offers for the peer, those that are connected.
ServerSend(n) ==
  /\ Running(n)
  /\ \E msg \in sendQ[n] :
       LET h == Get(table[n], n, Dst(n), msg.dst)
           hops == GetK(table[n], n, msg.dst)
           via == {hops[i] : i \in DOMAIN hops}
       IN  /\ HasBucket(n, msg.dst) /\ h # NoHandler
           /\ sendQ' = Drop(sendQ, n, msg)
           /\ outQ' = PutAll(outQ, n,
                IF ReadyToSend(hd[n][h])
                THEN {[h |-> h, msg |-> msg, peer |-> None]}
                ELSE IF msg.dst \in StaticPeers[n]
                THEN {[h |-> 0, msg |-> msg, peer |-> msg.dst]}
                ELSE {[h |-> g, msg |-> msg, peer |-> None] :
                        g \in {f \in via : hd[n][f].st = "CONN"}})
  /\ UNCHANGED <<status, table, pool, made, hd, connectQ, inbox, posting,
                 stateQ, taken, net, asked, expired, app>>

\* MSG_SINGLE: delivered if somebody hears from the source.
DeliverMixedUp(n, m) ==   \* mutant: the channel of the destination
  app' = IF n \in Listeners THEN [app EXCEPT !.got[n] = @ \cup {m.dst}] ELSE app
Deliver(n, m) ==
  app' = IF n \in Listeners THEN [app EXCEPT !.got[n] = @ \cup {m.src}] ELSE app

\* A message for another node goes back on sendChan while it has TTL.
PassOnForFree(n, m) ==    \* mutant: at no cost
  sendQ' = IF m.ttl > 0 THEN Put(sendQ, n, m) ELSE sendQ
PassOn(n, m) ==
  sendQ' = IF m.ttl > 0 THEN Put(sendQ, n, [m EXCEPT !.ttl = @ - 1]) ELSE sendQ

\* case msg := <-nps.handlerChan: a CONN message answers or opens a
\* connection, an application message is delivered, one for another node is
\* passed on.
ServerRecv(n) ==
  /\ Running(n)
  /\ \E r \in inbox[n] :
       LET m == r.msg
           t == Update(table[n], n, Dst(n), r.via)
           h == Get(t, n, Dst(n), m.src)
           moved == [table EXCEPT ![n] = t]
       IN  /\ HasBucket(n, r.via)
           /\ inbox' = Drop(inbox, n, r)
           /\ \/ /\ m.dst = n /\ m.type = "CONN" /\ HasBucket(n, m.src)
                 /\ h = NoHandler
                 /\ Open(n, m.src, m.sock, 1, t)
                 /\ UNCHANGED app
              \/ /\ m.dst = n /\ m.type = "CONN" /\ HasBucket(n, m.src)
                 /\ h # NoHandler
                 /\ hd' = IF hd[n][h].st # "WAIT" THEN hd
                          ELSE [hd EXCEPT ![n][h].dst = m.src,
                                          ![n][h].addr = m.sock,
                                          ![n][h].connect = @ + 1]
                 /\ table' = moved
                 /\ UNCHANGED <<pool, made, sendQ, app>>
              \/ /\ m.dst = n /\ m.type = "DATA"
                 /\ Deliver(n, m)
                 /\ table' = moved
                 /\ UNCHANGED <<pool, made, hd, sendQ>>
              \/ /\ m.dst # n
                 /\ PassOn(n, m)
                 /\ table' = moved
                 /\ UNCHANGED <<pool, made, hd, app>>
  /\ UNCHANGED <<status, connectQ, posting, stateQ, outQ, taken, net, asked,
                 expired>>


\* DISCONN: the handler is stopped, its peer leaves the table and it goes back
\* to the pool, which closes its socket when it is full.
GiveBackRunning(n, s) ==  \* mutant: without Stop
  /\ table' = [table EXCEPT ![n] = Remove(@, n, Dst(n), s.peer)]
  /\ pool' = [pool EXCEPT ![n] = <<s.h>> \o @]
  /\ UNCHANGED hd
GiveBack(n, s) ==
  /\ hd' = [hd EXCEPT ![n][s.h].ctrl = @ + 1,
                      ![n][s.h].closed = @ \/ Len(pool[n]) = MaxPooledCnt]
  /\ table' = [table EXCEPT ![n] = Remove(@, n, Dst(n), s.peer)]
  /\ pool' = IF Len(pool[n]) = MaxPooledCnt THEN pool
             ELSE [pool EXCEPT ![n] = <<s.h>> \o @]

\* case state := <-nps.stateChan: WAIT and PING ask for another CONN message.
ServerState(n) ==
  /\ Running(n)
  /\ \E s \in stateQ[n] :
       /\ stateQ' = Drop(stateQ, n, s)
       /\ \/ /\ s.state = "CONN"
             /\ UNCHANGED <<sendQ, hd, table, pool>>
          \/ /\ s.state \in {"WAIT", "PING"}
             /\ sendQ' = Put(sendQ, n, ConnMsg(n, s.peer, s.h))
             /\ UNCHANGED <<hd, table, pool>>
          \/ /\ s.state = "DISCONN"
             /\ GiveBack(n, s)
             /\ UNCHANGED sendQ
  /\ UNCHANGED <<status, made, connectQ, inbox, posting, outQ, taken, net, asked,
                 expired, app>>

\* A call on an id with no bucket, or send, which asks the handler it looked up
\* for its state before it looks whether there is one.
ServerPanics(n) ==
  /\ Running(n)
  /\ \/ \E d \in connectQ[n] : ~HasBucket(n, d)
     \/ \E msg \in sendQ[n] :
          ~HasBucket(n, msg.dst) \/ Get(table[n], n, Dst(n), msg.dst) = NoHandler
     \/ \E r \in inbox[n] :
          ~HasBucket(n, r.via) \/ (r.msg.dst = n /\ ~HasBucket(n, r.msg.src))
  /\ status' = [status EXCEPT ![n] = "panic"]
  /\ UNCHANGED <<table, pool, made, hd, connectQ, sendQ, inbox, posting, stateQ,
                 outQ, taken, net, asked, expired, app>>
-----------------------------------------------------------------------------
\* A handler's loop, and the static handler's, sends a message; the address and
\* the id are those the handler has by now, and pingTicker starts over.
HandlerSend(n) ==
  /\ Alive(n) /\ HasRoom
  /\ \E x \in outQ[n] :
       /\ outQ' = Drop(outQ, n, x)
       /\ \/ /\ x.h = 0 /\ StaticRuns(n)
             /\ net' = net \cup {Datagram(<<x.peer, 0>>, n, x.peer, "NET", x.msg)}
             /\ UNCHANGED hd
          \/ /\ x.h # 0 /\ hd[n][x.h].loops > 0
             /\ hd' = [hd EXCEPT ![n][x.h].ping = TRUE]
             /\ net' = IF hd[n][x.h].addr = None \/ hd[n][x.h].closed THEN net
                       ELSE net \cup {Datagram(hd[n][x.h].addr, n, hd[n][x.h].dst,
                                               "NET", x.msg)}
  /\ UNCHANGED <<status, table, pool, made, connectQ, sendQ, inbox, posting,
                 stateQ, taken, asked, expired, app>>

\* Mutants: connected without a ping heard, back to PING on a late token.
HandlerConnectAtOnce(n, h) ==
  /\ Alive(n) /\ hd[n][h].loops > 0 /\ hd[n][h].connect > 0
  /\ hd' = [hd EXCEPT ![n][h].connect = @ - 1, ![n][h].st = "CONN",
                      ![n][h].wait = FALSE, ![n][h].ping = TRUE]
  /\ UNCHANGED <<status, table, pool, made, connectQ, sendQ, inbox, posting,
                 stateQ, outQ, taken, net, asked, expired, app>>
HandlerConnectAgain(n, h) ==
  /\ Alive(n) /\ hd[n][h].loops > 0 /\ hd[n][h].connect > 0
  /\ hd' = [hd EXCEPT ![n][h].connect = @ - 1, ![n][h].st = "PING",
       ![n][h].wait = FALSE, ![n][h].retry = TRUE, ![n][h].ping = TRUE]
  /\ UNCHANGED <<status, table, pool, made, connectQ, sendQ, inbox, posting,
                 stateQ, outQ, taken, net, asked, expired, app>>

\* case <-nph.connectChan
HandlerConnect(n, h) ==
  /\ Alive(n) /\ hd[n][h].loops > 0 /\ hd[n][h].connect > 0
  /\ LET taker == [hd[n][h] EXCEPT !.connect = @ - 1]
     IN  hd' = [hd EXCEPT ![n][h] =
           IF taker.st = "WAIT"
           THEN [taker EXCEPT !.st = "PING", !.wait = FALSE, !.retry = TRUE,
                              !.ping = TRUE, !.alarm = TRUE]
           ELSE taker]
  /\ UNCHANGED <<status, table, pool, made, connectQ, sendQ, inbox, posting,
                 stateQ, outQ, taken, net, asked, expired, app>>

\* case <-nph.waitTicker.C and <-nph.waitTicker2.C: a notice.  Its goroutine
\* reads the peer's id when it runs, which is before the handler can get
\* another peer, as that takes another timer.
Tick(n, h, state) ==
  /\ Alive(n) /\ Quiet /\ hd[n][h].loops > 0
  /\ stateQ' = Put(stateQ, n, [h |-> h, peer |-> hd[n][h].dst, state |-> state,
                               why |-> "tick"])
  /\ UNCHANGED <<status, table, pool, made, hd, connectQ, sendQ, inbox, posting,
                 outQ, taken, net, asked, expired, app>>

WaitTick(n, h)  == hd[n][h].wait /\ Tick(n, h, "WAIT")
RetryTick(n, h) == hd[n][h].retry /\ Tick(n, h, "PING")

\* Mutant: pings only once connected.
PingTickLate(n, h) ==
  /\ Alive(n) /\ Quiet /\ hd[n][h].loops > 0 /\ hd[n][h].ping
  /\ hd[n][h].addr # None /\ hd[n][h].st = "CONN"
  /\ net' = net \cup {Datagram(hd[n][h].addr, n, hd[n][h].dst, "PING", None)}
  /\ UNCHANGED <<status, table, pool, made, hd, connectQ, sendQ, inbox, posting,
                 stateQ, outQ, taken, asked, expired, app>>

\* case <-nph.pingTicker.C
PingTick(n, h) ==
  /\ Alive(n) /\ Quiet /\ hd[n][h].loops > 0 /\ hd[n][h].ping
  /\ hd[n][h].addr # None /\ ~hd[n][h].closed /\ HasRoom
  /\ net' = net \cup {Datagram(hd[n][h].addr, n, hd[n][h].dst, "PING", None)}
  /\ UNCHANGED <<status, table, pool, made, hd, connectQ, sendQ, inbox, posting,
                 stateQ, outQ, taken, asked, expired, app>>

\* The hundred seconds are over: the event is in the channel, and the loop may
\* take other cases of its select first.
Expire(n, h) ==
  /\ Alive(n) /\ Quiet /\ hd[n][h].alarm /\ expired[n] < ExpiryCap[n]
  /\ expired' = [expired EXCEPT ![n] = @ + 1]
  /\ hd' = [hd EXCEPT ![n][h].alarm = FALSE, ![n][h].due = TRUE]
  /\ UNCHANGED <<status, table, pool, made, connectQ, sendQ, inbox, posting,
                 stateQ, outQ, taken, net, asked, app>>

\* Mutant: the server is not told.
HandlerDisconnSilent(n, h) ==
  /\ Alive(n) /\ hd[n][h].loops > 0 /\ hd[n][h].due
  /\ hd' = [hd EXCEPT ![n][h] =
       [@ EXCEPT !.due = FALSE, !.st = "DISCONN", !.wait = FALSE, !.retry = FALSE,
                 !.ping = FALSE]]
  /\ UNCHANGED <<status, table, pool, made, connectQ, sendQ, inbox, posting,
                 stateQ, outQ, taken, net, asked, expired, app>>

\* case <-nph.disconnTimer.C
HandlerDisconn(n, h) ==
  /\ Alive(n) /\ hd[n][h].loops > 0 /\ hd[n][h].due
  /\ hd' = [hd EXCEPT ![n][h] =
       [@ EXCEPT !.due = FALSE, !.st = "DISCONN", !.wait = FALSE, !.retry = FALSE,
                 !.ping = FALSE]]
  /\ posting' = Put(posting, n, [h |-> h, why |-> "expired"])
  /\ UNCHANGED <<status, table, pool, made, connectQ, sendQ, inbox, stateQ, outQ,
                 taken, net, asked, expired, app>>

\* Mutant: a loop that has returned already returns again.
HandlerStopTwice(n, h) ==
  /\ Alive(n) /\ hd[n][h].ctrl > 0
  /\ hd' = [hd EXCEPT ![n][h].ctrl = @ - 1, ![n][h].loops = @ - 1]
  /\ UNCHANGED <<status, table, pool, made, connectQ, sendQ, inbox, posting,
                 stateQ, outQ, taken, net, asked, expired, app>>

\* case <-nph.ctrlChan: a loop returns.  Its reader stays behind, whether it
\* waits for a datagram or holds one, or has returned already.
HandlerStop(n, h) ==
  LET old == hd[n][h]
      holding == {x \in taken[n] : x.h = h /\ x.of = "loop"}
      Stopped(ear, stale) ==
        hd' = [hd EXCEPT ![n][h] =
          [old EXCEPT !.ctrl = @ - 1, !.loops = @ - 1, !.wait = FALSE, !.retry = FALSE,
                      !.ping = FALSE, !.alarm = FALSE, !.ear = ear, !.stale = stale]]
  IN  /\ Alive(n) /\ old.loops > 0 /\ old.ctrl > 0
      /\ \/ /\ old.ear > 0
            /\ Stopped(old.ear - 1, old.stale + 1)
            /\ UNCHANGED taken
         \/ \E x \in holding :
              /\ Stopped(old.ear, old.stale)
              /\ taken' = Put(Drop(taken, n, x), n, [x EXCEPT !.of = "stale"])
         \/ /\ old.ear + Cardinality(holding) < old.loops
            /\ Stopped(old.ear, old.stale)
            /\ UNCHANGED taken
      /\ UNCHANGED <<status, table, pool, made, connectQ, sendQ, inbox, posting,
                     stateQ, outQ, net, asked, expired, app>>

\* The goroutine that tells of a ping heard or of an expiry runs: the peer's id
\* and the state are those the handler has by now.
Post(n) ==
  /\ Alive(n)
  /\ \E p \in posting[n] :
       /\ posting' = Drop(posting, n, p)
       /\ stateQ' = Put(stateQ, n, [h |-> p.h, peer |-> hd[n][p.h].dst,
                                    state |-> hd[n][p.h].st, why |-> p.why])
  /\ UNCHANGED <<status, table, pool, made, hd, connectQ, sendQ, inbox, outQ,
                 taken, net, asked, expired, app>>

\* A reader goroutine (recv) takes a datagram of its handler's socket and reads
\* the handler's state.  One for another node it ignores; in state DISCONN it
\* returns.
ReaderTakes(n, h, type) ==
  /\ Alive(n) /\ ~hd[n][h].closed
  /\ \E d \in {e \in net : e.to = <<n, h>> /\ e.type = type}, of \in {"loop", "stale"} :
       LET left == IF of = "loop"
                   THEN [hd EXCEPT ![n][h].ear = @ - 1]
                   ELSE [hd EXCEPT ![n][h].stale = @ - 1]
       IN  /\ IF of = "loop" THEN hd[n][h].ear > 0 ELSE hd[n][h].stale > 0
           /\ net' = net \ {d}
           /\ IF d.dst # n THEN UNCHANGED <<hd, taken>>
              ELSE /\ hd' = left
                   /\ taken' = IF hd[n][h].st = "DISCONN" THEN taken
                               ELSE Put(taken, n, [h |-> h, of |-> of,
                                                   seen |-> hd[n][h].st, d |-> d])
  /\ UNCHANGED <<status, table, pool, made, connectQ, sendQ, inbox, posting,
                 stateQ, outQ, asked, expired, app>>

\* It goes on with the state it read: disconnTimer starts over, a PING in state
\* PING connects.  A loop that waits for it passes a message up and starts the
\* next reader; what a left-over reader read nobody sees.
ReaderHandles(n) ==
  /\ Alive(n)
  /\ \E x \in taken[n] :
       LET old == hd[n][x.h]
           pinged == x.d.type = "PING" /\ x.seen = "PING"
       IN  /\ taken' = Drop(taken, n, x)
           /\ hd' = [hd EXCEPT ![n][x.h] =
                [old EXCEPT !.alarm = TRUE,
                            !.st = IF pinged THEN "CONN" ELSE @,
                            !.retry = IF pinged THEN FALSE ELSE @,
                            !.ear = IF x.of = "loop" THEN @ + 1 ELSE @]]
           /\ posting' = IF pinged
                         THEN Put(posting, n, [h |-> x.h, why |-> "pinged"])
                         ELSE posting
           /\ inbox' = IF x.d.type = "NET" /\ x.of = "loop"
                       THEN Put(inbox, n, [via |-> x.d.src, msg |-> x.d.msg])
                       ELSE inbox
  /\ UNCHANGED <<status, table, pool, made, connectQ, sendQ, stateQ, outQ, net,
                 asked, expired, app>>

\* The static handler's reader and loop.
StaticRecv(n) ==
  /\ StaticRuns(n)
  /\ \E d \in {e \in net : e.to = <<n, 0>>} :
       /\ net' = net \ {d}
       /\ inbox' = IF d.type = "NET"
                   THEN Put(inbox, n, [via |-> d.src, msg |-> d.msg]) ELSE inbox
  /\ UNCHANGED <<status, table, pool, made, hd, connectQ, sendQ, posting, stateQ,
                 outQ, taken, asked, expired, app>>

\* UDP loses a datagram: said of one whose socket a reader waits at, since one
\* that arrives too early or at nobody's is as good as late.
Lose ==
  /\ Lossy
  /\ \E d \in net :
       LET n == d.to[1]
           h == d.to[2]
       IN  /\ Alive(n)
           /\ IF h = 0 THEN StaticRuns(n) ELSE hd[n][h].ear + hd[n][h].stale > 0
           /\ net' = net \ {d}
  /\ UNCHANGED <<status, table, pool, made, hd, connectQ, sendQ, inbox, posting,
                 stateQ, outQ, taken, asked, expired, app>>

Server(n) ==
  \/ ServerConnect(n) \/ ServerSend(n) \/ ServerRecv(n) \/ ServerState(n)
  \/ ServerPanics(n)

Goroutines(n) ==
  HandlerSend(n) \/ Post(n) \/ ReaderHandles(n) \/ StaticRecv(n)

Handling(n, h) ==
  \/ HandlerConnect(n, h) \/ HandlerDisconn(n, h) \/ HandlerStop(n, h)

Next ==
  \/ \E n \in Node :
       \/ Server(n) \/ Goroutines(n) \/ Stop(n)
       \/ \E d \in NodeID : ConnectUDP(n, d) \/ Send(n, d)
       \/ \E h \in Handler :
            \/ Handling(n, h) \/ Expire(n, h)
            \/ WaitTick(n, h) \/ RetryTick(n, h) \/ PingTick(n, h)
            \/ \E type \in {"PING", "NET"} : ReaderTakes(n, h, type)
  \/ Lose

Spec == Init /\ [][Next]_vars

Work == \E n \in Node :
  \/ Server(n) \/ Goroutines(n)
  \/ \E h \in Handler : Handling(n, h)

\* As long as a goroutine can run one does, which lets all of them run before
\* the next timer.  A ticker that keeps running goes off again and again,
\* whatever the nodes do in between; the network does not lose every datagram of
\* a type for a socket whose reader keeps coming back for one.
Fairness ==
  /\ WF_vars(Work)
  /\ \A n \in UNION {StaticPeers[m] : m \in Node} : SF_vars(StaticRecv(n))
  /\ \A n \in Node, h \in Handler :
       /\ SF_vars(WaitTick(n, h) \/ RetryTick(n, h))
       /\ SF_vars(PingTick(n, h))
       /\ SF_vars(ReaderTakes(n, h, "PING"))
       /\ SF_vars(ReaderTakes(n, h, "NET"))

FairSpec == Spec /\ Fairness
-----------------------------------------------------------------------------
Message == [src : Node, dst : NodeID, type : {"CONN", "DATA"},
            sock : Socket \cup {None}, ttl : 0 .. MAX_TTL]
Packet == [to : Socket, src : Node, dst : NodeID, type : {"PING", "NET"},
           msg : Message \cup {None}]
State == {"WAIT", "PING", "CONN", "DISCONN"}
HandlerType ==
  [dst : NodeID \cup {None}, addr : Socket \cup {None}, st : State, loops : Nat,
   ear : Nat, stale : Nat, wait : BOOLEAN, retry : BOOLEAN, ping : BOOLEAN,
   alarm : BOOLEAN, due : BOOLEAN, connect : Nat, ctrl : Nat, closed : BOOLEAN]
Notice == [h : Handler, peer : NodeID, state : State,
           why : {"tick", "pinged", "expired"}]

TypeOK ==
  /\ status \in [Node -> {"run", "stopping", "stopped", "panic"}]
  /\ table \in [Node -> [Buckets -> Seq(Handler)]]
  /\ pool \in [Node -> Seq(Handler)]
  /\ made \in [Node -> 0 .. HandlerCap]
  /\ hd \in [Node -> [Handler -> HandlerType]]
  /\ connectQ \in [Node -> SUBSET NodeID]
  /\ sendQ \in [Node -> SUBSET Message]
  /\ inbox \in [Node -> SUBSET [via : Node, msg : Message]]
  /\ posting \in [Node -> SUBSET [h : Handler, why : {"pinged", "expired"}]]
  /\ stateQ \in [Node -> SUBSET Notice]
  /\ outQ \in [Node -> SUBSET [h : 0 .. HandlerCap, msg : Message,
                               peer : Node \cup {None}]]
  /\ taken \in [Node -> SUBSET [h : Handler, of : {"loop", "stale"}, seen : State,
                                d : Packet]]
  /\ net \subseteq Packet
  /\ asked \in [Node -> SUBSET NodeID]
  /\ expired \in [Node -> Nat] /\ \A n \in Node : expired[n] <= ExpiryCap[n]
  /\ app \in [plan : Plans, sent : SUBSET (Node \X NodeID),
             got : [Node -> SUBSET Node]]

\* A handler in the table is in its peer's bucket, and no other handler in the
\* table has the same peer.
OneHandlerPerPeer ==
  \A n \in Node :
    LET in == Entries(table[n])
    IN  /\ \A g, h \in in : hd[n][g].dst = hd[n][h].dst => g = h
        /\ \A h \in in : h \in InBucket(table[n], getKDist(hd[n][h].dst, n))

\* What is in the table is not in the pool.  A handler that is given back twice
\* may be opened in between, or be taken from the pool twice.
PooledIsOut ==
  \A n \in Node : \A i \in DOMAIN pool[n] : pool[n][i] \notin Entries(table[n])

\* A handler that has given up its peer leaves the table (net/p2p.go:605, :270):
\* while it is still in it, the notice that will take it out is on its way.  It
\* holds as long as the pool never gave out a handler that is in use, which takes
\* two disconnect timers: one notice takes a handler out of one bucket only.
DeadEntryIsLeaving ==
  \A n \in Node : \A h \in Entries(table[n]) :
    hd[n][h].st = "DISCONN" =>
      \/ \E p \in posting[n] : p.h = h
      \/ \E s \in stateQ[n] : s.h = h /\ s.state = "DISCONN"

\* A handler in the pool has been told to stop as many loops as it still runs,
\* even when it has been given back twice or is in use as well.
PooledIsStopping ==
  \A n \in Node : \A i \in DOMAIN pool[n] :
    hd[n][pool[n][i]].loops <= hd[n][pool[n][i]].ctrl

\* A connection is no illusion of one side: when a handler is connected, its
\* peer's handler for this node has the handler's address and pings it.  It
\* holds as long as no disconnect timer goes off: the two go off one by one.
ConnectedBothKnow ==
  \A n \in Node : \A h \in Entries(table[n]) :
    hd[n][h].st = "CONN" =>
      \E g \in Entries(table[hd[n][h].dst]) :
        /\ hd[hd[n][h].dst][g].dst = n
        /\ hd[hd[n][h].dst][g].addr = <<n, h>>
        /\ hd[hd[n][h].dst][g].st \in {"PING", "CONN"}
        /\ hd[n][h].addr = <<hd[n][h].dst, g>>

Rank == [s \in State |-> CASE s = "WAIT" -> 0 [] s = "PING" -> 1
                           [] s = "CONN" -> 2 [] s = "DISCONN" -> 3]

\* A handler's state only advances, until the pool gives it out again.
StateAdvances ==
  [][\A n \in Node, h \in Handler :
       \/ Rank[hd'[n][h].st] >= Rank[hd[n][h].st]
       \/ hd[n][h].st = "DISCONN" /\ hd'[n][h].loops > hd[n][h].loops]_vars

\* An application message is delivered only where it was sent to, whoever it
\* was routed through, and only to a node that listens.
DeliveredWasSent ==
  \A n \in Node : \A a \in app.got[n] : n \in Listeners /\ <<a, n>> \in app.sent

\* Where the copies of a message under way are, and the stage of the hop each is
\* at: 5 on sendChan down to 0 on handlerChan of a node it is not for.
Copy(stage, n, item, msg) == [stage |-> stage, node |-> n, item |-> item, msg |-> msg]
Copies ==
  {Copy(3, d.src, d, d.msg) : d \in {e \in net : e.type = "NET"}}
  \cup UNION {{Copy(5, n, m, m) : m \in sendQ[n]}
             \cup {Copy(4, n, x, x.msg) : x \in outQ[n]}
             \cup {Copy(IF x.of = "loop" THEN 2 ELSE 1, n, x, x.d.msg) :
                     x \in {y \in taken[n] : y.d.type = "NET"}}
             \cup {Copy(0, n, r, r.msg) : r \in {q \in inbox[n] : q.msg.dst # n}} :
             n \in Node}

StepsLeft(c) == 6 * c.msg.ttl + c.stage
SameMsg(b, c) == [b.msg EXCEPT !.ttl = c.msg.ttl] = c.msg

\* No message circles for good, whatever the tables say, through however many
\* nodes it goes and even when it comes back to its source: each step of a
\* copy uses up a copy of the same message that could still have got further.
\* The others are on sendChan of the node that has just made them.
RoutesRunOut ==
  [][LET came == Copies' \ Copies
         gone == Copies \ Copies'
     IN  \A c \in came :
           \/ \E b \in gone : SameMsg(b, c) /\ StepsLeft(b) > StepsLeft(c)
           \/ /\ c.stage = 5 /\ c.node = c.msg.src /\ c.msg.ttl = MAX_TTL
              /\ ~\E b \in gone : SameMsg(b, c)]_<<sendQ, outQ, net, taken, inbox>>

\* send is written for a destination with no handler: it routes the message
\* through the nearest handlers (net/p2p.go:163 tests handler != nil).
SendSurvives == \A n \in Node : status[n] # "panic"

Connected(n, d) == \E h \in Entries(table[n]) : hd[n][h].dst = d /\ hd[n][h].st = "CONN"

\* A node that asked for a peer gets connected to it, the peer to it, and both
\* stay so, however many datagrams are lost short of all; as long as no
\* disconnect timer goes off.
AskedIsConnected ==
  <>[](\A n \in Node : \A d \in asked[n] \cap Node : Connected(n, d) /\ Connected(d, n))
=============================================================================

--------------------------- MODULE TwoTasksProofs ---------------------------
(* Theorems about several sub tasks at a time (TwoTasks), for any nodes, tasks, *)
(* handler ids and channel capacities: no loop of an emulator meets the id of a *)
(* handler it does not have, and a session takes up and counts only what was    *)
(* meant for its task, unless contracts share an address.                       *)
EXTENDS TwoTasks, FiniteSetTheorems, TLAPS

-----------------------------------------------------------------------------
(* The inductive invariant *)

\* The session of w for v found its own task in the contract.
Meant(w, v) == ws[w][v].taskID = v \/ SharedAddress(v)

\* A message can be answered; a request has the address of its task's contract;
\* an answer comes from a worker that means the task.
Right(m) ==
    /\ handlerMap[m.from][m.srcHandler] # none
    /\ m.listener = "CPROC_WAIT" =>
           m.data.address # 0 /\ address[m.data.task] = m.data.address
    /\ m.listener = "CPROC_RES" => m.from \in Workers /\ Meant(m.from, m.data.task)

MessagesRight ==
    /\ \A s \in sends : Right(s.msg)
    /\ \A c \in casts : Right(c.msg)
    /\ \A a \in arrivals : Right(a.msg)
    /\ \A m \in inbox : Right(m.msg)
    /\ \A n \in Nodes : \A i \in 1 .. Len(recvChan[n]) : Right(recvChan[n][i])
CastsStatic == \A c \in casts : c.msg.dstHandler = StaticHandlerID

\* A channel listens to messages of one kind.
Hears(c, l) ==
    \/ l = "CPROC_WAIT" /\ \E w \in Workers : c = Of("worker", w, none)
    \/ l = "CPROC_RES" /\ \E t \in Tasks : c = Of("master", Master, t)
    \/ l = "CPROC_META" /\ \E w \in Workers, t \in Tasks : c = Of("worker", w, t)
    \/ l = "TPROC_RECEIVER" /\ \E w \in Workers, t \in Tasks : c = Of("purchase", w, t)
ListenersRight ==
    /\ \A h \in Handlers, l \in Listeners :
           listeners[h][l] # none => Hears(listeners[h][l], l)
    /\ \A m \in inbox : Hears(m.to, m.msg.listener)

\* Handlers that sessions were given are known to their emulators.
HandlersStay ==
    /\ \A n \in Nodes : handlerMap[n][StaticHandlerID] # none
    /\ \A t \in Tasks : handlerMap[Master][setup.ids[t]] # none
    /\ \A w \in Workers, t \in Tasks :
           ws[w][t].state \in {"NONE", "ASKING"} \/ handlerMap[w][ws[w][t].handler] # none

\* Every task that has been started counted once.
Begun == {t \in Tasks : mstate[t] # "UN"}
Counting == addressNum = Cardinality(Begun)

Deployed ==
    /\ \A t \in Tasks : mstate[t] \in {"UN", "COUNTED"} => address[t] = 0
    /\ \A t \in Tasks : mstate[t] \notin {"UN", "COUNTED"} =>
           address[t] \in Addresses /\ calcContracts[address[t]] # nobody

\* A contract is at the address of its task, and tells sessions with that address.
ContractsRight ==
    \A a \in Addresses : calcContracts[a] # nobody =>
        /\ calcContracts[a].task \in Tasks /\ address[calcContracts[a].task] = a
        /\ \A n \in Callers : calcContracts[a].submit[n] # nobody =>
               \E t \in Tasks : /\ calcContracts[a].submit[n] = Of("master", Master, t)
                                /\ address[t] = a

SameAddress(t, u) == address[t] # 0 /\ address[u] = address[t]

\* What a worker session has been asked, and the task it found.
SessionsRight ==
    \A w \in Workers, t \in Tasks :
        /\ ws[w][t].state # "NONE" =>
               /\ ws[w][t].req \in NetMsg /\ Right(ws[w][t].req)
               /\ ws[w][t].req.listener = "CPROC_WAIT" /\ ws[w][t].req.data.task = t
        /\ ws[w][t].taskID # none => SameAddress(t, ws[w][t].taskID)
        /\ ws[w][t].validated # none => SameAddress(t, ws[w][t].validated)

\* A call reaches only sessions whose contract has the address it was made at.
CallsRight ==
    /\ \A s \in submits : address[s.call.code] = s.at
    /\ \A t \in Tasks : \A a \in answerChan[t] \cup counted[t] : SameAddress(t, a.code)

PeersRight ==
    \A t \in Tasks, w \in Workers : peers[t][w] # "NONE" => Meant(w, t)

IInv == /\ TypeOK /\ MessagesRight /\ CastsStatic /\ ListenersRight /\ HandlersStay
        /\ Counting /\ Deployed /\ ContractsRight /\ SessionsRight /\ CallsRight
        /\ PeersRight /\ HandlersKnown

-----------------------------------------------------------------------------
(* What a step leaves as it is *)

\* Ids of handlers and addresses are given for good, and what a worker's
\* session found remains what its messages say.
Grow ==
    /\ \A n \in Nodes, i \in Ids : handlerMap[n][i] # none => handlerMap'[n][i] # none
    /\ \A t \in Tasks : address[t] # 0 => address'[t] = address[t]
    /\ \A w \in Workers, v \in Tasks : Meant(w, v) => Meant(w, v)'

\* The emulators and factories look at no handler again, and addresses stay.
LEMMA StillGrows ==
    ASSUME UNCHANGED <<handlerMap, address, ws>>
    PROVE  Grow
BY DEF Grow, Meant, SharedAddress

\* Two tasks with one address keep it.
LEMMA SharedStays ==
    ASSUME \A t \in Tasks : address[t] # 0 => address'[t] = address[t], NEW t \in Tasks
    PROVE  SharedAddress(t) => SharedAddress(t)'
BY DEF SharedAddress

\* A message stays right while it is on its way.
LEMMA RightStays ==
    ASSUME Grow, NEW m \in NetMsg, Right(m)
    PROVE  Right(m)'
<1>1. /\ m.from \in Nodes /\ m.srcHandler \in Ids /\ m.data.task \in Tasks
    BY PartsAssumption DEF NetMsg, MsgData
<1> QED  BY <1>1 DEF Grow, Right

\* Whatever is on its way was, or is right.
SendsOld == \A s \in sends' : s \in sends \/ Right(s.msg)'
CastsOld == \A c \in casts' : (\E d \in casts : d.msg = c.msg) \/ Right(c.msg)'
ArrivalsOld == \A a \in arrivals' : a \in arrivals \/ Right(a.msg)
InboxOld == \A m \in inbox' : m \in inbox \/ Right(m.msg)
QueuedOld == \A n \in Nodes : \A i \in 1 .. Len(recvChan'[n]) :
    (\E j \in 1 .. Len(recvChan[n]) : recvChan'[n][i] = recvChan[n][j]) \/ Right(recvChan'[n][i])

\* Goroutines and channels a step does not touch hold what they held.
LEMMA OldStays ==
    /\ UNCHANGED sends => SendsOld
    /\ UNCHANGED casts => CastsOld
    /\ UNCHANGED arrivals => ArrivalsOld
    /\ UNCHANGED inbox => InboxOld
    /\ UNCHANGED recvChan => QueuedOld
BY DEF SendsOld, CastsOld, ArrivalsOld, InboxOld, QueuedOld

\* A message passed on, however far, stays right.
LEMMA MessagesStay ==
    ASSUME TypeOK, TypeOK', MessagesRight, Grow,
           SendsOld, CastsOld, ArrivalsOld, InboxOld, QueuedOld
    PROVE  MessagesRight'
<1> DEFINE Typed(m) == m \in NetMsg
<1>1. /\ \A s \in sends' : Typed(s.msg)
      /\ \A c \in casts' : Typed(c.msg)
      /\ \A a \in arrivals' : Typed(a.msg)
      /\ \A m \in inbox' : Typed(m.msg)
      /\ \A n \in Nodes : \A i \in 1 .. Len(recvChan'[n]) : Typed(recvChan'[n][i])
    BY DEF TypeOK, NetTypeOK
<1>2. \A m : Typed(m) /\ Right(m) => Right(m)'
    BY RightStays
<1> HIDE DEF Typed
<1>3. \A s \in sends' : Right(s.msg)'
    BY <1>1, <1>2 DEF SendsOld, MessagesRight
<1>4. \A c \in casts' : Right(c.msg)'
    BY <1>1, <1>2 DEF CastsOld, MessagesRight
<1>5. \A a \in arrivals' : Right(a.msg)'
    BY <1>1, <1>2 DEF ArrivalsOld, MessagesRight
<1>6. \A m \in inbox' : Right(m.msg)'
    BY <1>1, <1>2 DEF InboxOld, MessagesRight
<1>7. \A n \in Nodes : \A i \in 1 .. Len(recvChan'[n]) :
          \E m : m = recvChan'[n][i] /\ Right(m)'
    <2>1. \A n \in Nodes : \A i \in 1 .. Len(recvChan'[n]) : Right(recvChan'[n][i])
        BY DEF QueuedOld, MessagesRight
    <2> QED  BY <1>1, <1>2, <2>1
<1> QED  BY <1>3, <1>4, <1>5, <1>6, <1>7 DEF MessagesRight

\* Addresses and contracts, as long as nobody deploys or listens.
LEMMA ChainStays ==
    ASSUME TypeOK, Counting, Deployed, ContractsRight, UNCHANGED <<chainvars, address>>,
           \A t \in Tasks : \/ mstate'[t] = mstate[t]
                            \/ /\ mstate[t] \notin {"UN", "COUNTED"}
                               /\ mstate'[t] \notin {"UN", "COUNTED"}
    PROVE  Counting' /\ Deployed' /\ ContractsRight'
<1>1. Begun' = Begun
    BY DEF Begun
<1>2. Counting'
    BY <1>1 DEF Counting, chainvars
<1>3. Deployed'
    BY DEF Deployed, chainvars
<1>4. ContractsRight'
    BY DEF ContractsRight, chainvars
<1> QED  BY <1>2, <1>3, <1>4

\* What was submitted or counted at an address stays there.
LEMMA CallsStay ==
    ASSUME TypeOK, CallsRight, Grow, UNCHANGED <<submits, answerChan, counted>>
    PROVE  CallsRight'
<1>1. \A s \in submits : s.call.code \in Tasks /\ s.at # 0
    BY DEF TypeOK, Answer, Addresses
<1>2. \A t \in Tasks : \A a \in answerChan[t] \cup counted[t] : a.code \in Tasks
    BY DEF TypeOK, Answer
<1> QED  BY <1>1, <1>2 DEF CallsRight, SameAddress, Grow

\* A worker session keeps what it was asked and what it found.
LEMMA SessionsStay ==
    ASSUME TypeOK, SessionsRight, Grow, UNCHANGED ws
    PROVE  SessionsRight'
<1> SUFFICES ASSUME NEW w \in Workers, NEW t \in Tasks
             PROVE  /\ ws'[w][t].state # "NONE" =>
                         /\ ws'[w][t].req \in NetMsg
                         /\ \E m : m = ws'[w][t].req /\ Right(m)'
                         /\ ws'[w][t].req.listener = "CPROC_WAIT"
                         /\ ws'[w][t].req.data.task = t
                    /\ ws'[w][t].taskID # none => SameAddress(t, ws[w][t].taskID)'
                    /\ ws'[w][t].validated # none => SameAddress(t, ws[w][t].validated)'
    BY DEF SessionsRight
<1>1. ws[w][t].taskID \in Tasks \cup {none} /\ ws[w][t].validated \in Tasks \cup {none}
    BY DEF TypeOK, Session
<1>2. /\ ws[w][t].taskID # none => SameAddress(t, ws[w][t].taskID)'
      /\ ws[w][t].validated # none => SameAddress(t, ws[w][t].validated)'
    BY <1>1 DEF SessionsRight, SameAddress, Grow
<1>3. ws[w][t].state # "NONE" => \E m : m = ws[w][t].req /\ Right(m)'
    BY RightStays DEF SessionsRight
<1> QED  BY <1>2, <1>3 DEF SessionsRight

\* The peers a master session has taken up mean its task for good.
LEMMA PeersStay ==
    ASSUME PeersRight, Grow, \A t \in Tasks, w \in Workers :
               peers'[t][w] # "NONE" => peers[t][w] # "NONE" \/ Meant(w, t)
    PROVE  PeersRight'
BY DEF PeersRight, Grow

\* An emulator never loses a handler.
LEMMA HandlersKept ==
    ASSUME TypeOK, TypeOK', HandlersStay, Grow, UNCHANGED setup,
           \A w \in Workers, t \in Tasks :
               \/ ws'[w][t].state \in {"NONE", "ASKING"}
               \/ ws[w][t].state \notin {"NONE", "ASKING"} /\ ws'[w][t].handler = ws[w][t].handler
    PROVE  HandlersStay'
<1>1. /\ StaticHandlerID \in Ids /\ Master \in Nodes /\ Workers \subseteq Nodes
      /\ \A t \in Tasks : setup.ids[t] \in Ids
      /\ \A w \in Workers, t \in Tasks : ws[w][t].handler \in Ids
    BY CapAssumption, NodesAssumption
       DEF StaticHandlerID, Ids, TypeOK, Setup, Session, Workers
<1> QED  BY <1>1 DEF HandlersStay, Grow

\* An id that is known where a message goes is known there for good.
LEMMA KnownStays ==
    ASSUME TypeOK, HandlersKnown, Grow, UNCHANGED <<sends, recvChan>>
    PROVE  HandlersKnown'
<1>1. \A s \in sends : s.to \in Nodes /\ s.msg.dstHandler \in Ids
    BY DEF TypeOK, NetTypeOK, NetMsg
<1>2. \A n \in Nodes : \A i \in 1 .. Len(recvChan[n]) : recvChan[n][i].dstHandler \in Ids
    <2>1. \A n \in Nodes : recvChan[n] \in Seq(NetMsg)
        BY DEF TypeOK, NetTypeOK
    <2>2. \A n \in Nodes : \A i \in 1 .. Len(recvChan[n]) : recvChan[n][i] \in NetMsg
        BY <2>1
    <2> QED  BY <2>2 DEF NetMsg
<1> QED  BY <1>1, <1>2 DEF HandlersKnown, Grow

-----------------------------------------------------------------------------
(* The network *)

\* What the sessions and the chain have is left alone by a goroutine that carries.
LEMMA CarriedIs ==
    ASSUME IInv, UNCHANGED <<chainvars, tvars, handlerMap, listeners, factoryId>>,
           NetTypeOK', SendsOld, CastsOld, ArrivalsOld, InboxOld, QueuedOld,
           CastsStatic', HandlersKnown', \A m \in inbox' : Hears(m.to, m.msg.listener)
    PROVE  IInv'
<1>1. Grow
    BY StillGrows DEF tvars
<1>2. TypeOK'
    <2>1. ChainTypeOK'
        BY DEF IInv, TypeOK, ChainTypeOK, chainvars
    <2> QED  BY <2>1 DEF IInv, TypeOK, tvars
<1>3. MessagesRight'
    BY <1>1, <1>2, MessagesStay DEF IInv
<1>4. ListenersRight'
    BY DEF IInv, ListenersRight
<1>5. HandlersStay'
    BY <1>1, <1>2, HandlersKept DEF IInv, tvars
<1>6. Counting' /\ Deployed' /\ ContractsRight'
    BY ChainStays DEF IInv, tvars
<1>7. SessionsRight' /\ CallsRight' /\ PeersRight'
    BY <1>1, SessionsStay, CallsStay, PeersStay DEF IInv, tvars
<1> QED  BY <1>2, <1>3, <1>4, <1>5, <1>6, <1>7 DEF IInv

\* A receive channel with one more message at its end.
Longer(n, m) ==
    /\ recvChan' \in [Nodes -> Seq(NetMsg)]
    /\ \A k \in Nodes : Len(recvChan'[k]) <= RecvCap
    /\ \A k \in Nodes : \A i \in 1 .. Len(recvChan'[k]) :
           \/ i \in 1 .. Len(recvChan[k]) /\ recvChan'[k][i] = recvChan[k][i]
           \/ k = n /\ recvChan'[k][i] = m

\* A send to a channel with room leaves the others and what is in it.
LEMMA Appended ==
    ASSUME NetTypeOK, NEW n \in Nodes, NEW m \in NetMsg, HasRoom(n),
           recvChan' = [recvChan EXCEPT ![n] = Append(@, m)]
    PROVE  Longer(n, m)
<1> DEFINE q == recvChan[n]
<1>1. /\ recvChan \in [Nodes -> Seq(NetMsg)] /\ \A k \in Nodes : Len(recvChan[k]) <= RecvCap
      /\ Len(q) < RecvCap
    BY DEF NetTypeOK, HasRoom
<1>2. q \in Seq(NetMsg)
    BY <1>1
<1>3. \A k \in Nodes : recvChan'[k] = IF k = n THEN Append(q, m) ELSE recvChan[k]
    BY <1>1
<1> HIDE DEF q
<1>4. /\ Append(q, m) \in Seq(NetMsg) /\ Len(Append(q, m)) = Len(q) + 1 /\ Len(q) \in Nat
      /\ \A i \in 1 .. Len(q) + 1 : Append(q, m)[i] = IF i <= Len(q) THEN q[i] ELSE m
    BY <1>2
<1>5. recvChan' \in [Nodes -> Seq(NetMsg)]
    BY <1>1, <1>3, <1>4
<1>6. \A k \in Nodes : Len(recvChan'[k]) <= RecvCap
    <2>1. Len(Append(q, m)) <= RecvCap
        BY <1>1, <1>4, CapAssumption
    <2> QED  BY <1>1, <1>3, <2>1
<1>7. ASSUME NEW k \in Nodes, NEW i \in 1 .. Len(recvChan'[k])
      PROVE  \/ i \in 1 .. Len(recvChan[k]) /\ recvChan'[k][i] = recvChan[k][i]
             \/ k = n /\ recvChan'[k][i] = m
    <2>1. CASE k # n
        BY <2>1, <1>3
    <2>2. CASE k = n
        <3>1. recvChan'[k] = Append(q, m) /\ recvChan[k] = q
            BY <2>2, <1>3 DEF q
        <3>2. i \in 1 .. Len(q) + 1
            BY <3>1, <1>4
        <3>3. CASE i <= Len(q)
            BY <3>1, <3>2, <3>3, <1>4
        <3>4. CASE ~(i <= Len(q))
            BY <2>2, <3>1, <3>2, <3>4, <1>4
        <3> QED  BY <3>3, <3>4
    <2> QED  BY <2>1, <2>2
<1> QED  BY <1>5, <1>6, <1>7 DEF Longer

\* A SendTo whose time has come, to a channel with room.
LEMMA PutStep ==
    ASSUME IInv, NEW s \in sends, Put(s), UNCHANGED <<chainvars, tvars>>
    PROVE  IInv'
<1>1. /\ s.to \in Nodes /\ s.msg \in NetMsg /\ HasRoom(s.to)
      /\ sends' = sends \ {s} /\ recvChan' = [recvChan EXCEPT ![s.to] = Append(@, s.msg)]
      /\ UNCHANGED <<entries, handlerMap, listeners, factoryId, casts, arrivals, inbox>>
    BY DEF Put, IInv, TypeOK, NetTypeOK
<1>2. /\ recvChan' \in [Nodes -> Seq(NetMsg)]
      /\ \A k \in Nodes : Len(recvChan'[k]) <= RecvCap
      /\ \A k \in Nodes : \A i \in 1 .. Len(recvChan'[k]) :
             \/ i \in 1 .. Len(recvChan[k]) /\ recvChan'[k][i] = recvChan[k][i]
             \/ k = s.to /\ recvChan'[k][i] = s.msg
    <2>1. NetTypeOK
        BY DEF IInv, TypeOK
    <2>2. /\ s.to \in Nodes /\ s.msg \in NetMsg /\ HasRoom(s.to)
          /\ recvChan' = [recvChan EXCEPT ![s.to] = Append(@, s.msg)]
        BY <1>1
    <2>3. Longer(s.to, s.msg)
        BY <2>1, <2>2, Appended
    <2> QED  BY <2>3 DEF Longer
<1>3. NetTypeOK'
    BY <1>1, <1>2 DEF IInv, TypeOK, NetTypeOK
<1>4. QueuedOld
    <2>1. Right(s.msg)
        BY DEF IInv, MessagesRight
    <2> QED  BY <1>2, <2>1 DEF QueuedOld
<1>5. SendsOld
    BY <1>1 DEF SendsOld
<1>6. HandlersKnown'
    BY <1>1, <1>2 DEF IInv, HandlersKnown
<1> QED  BY <1>1, <1>3, <1>4, <1>5, <1>6, OldStays, CarriedIs
         DEF IInv, CastsStatic, ListenersRight

\* A Broadcast puts its message in the channel it took, for a static handler.
LEMMA CastPutStep ==
    ASSUME IInv, NEW c \in casts, CastPut(c), UNCHANGED <<chainvars, tvars>>
    PROVE  IInv'
<1> DEFINE d == [c EXCEPT !.at = none]
<1>1. /\ c.at \in Nodes /\ c.msg \in NetMsg /\ HasRoom(c.at)
      /\ casts' = (casts \ {c}) \cup {d}
      /\ recvChan' = [recvChan EXCEPT ![c.at] = Append(@, c.msg)]
      /\ UNCHANGED <<entries, handlerMap, listeners, factoryId, sends, arrivals, inbox>>
    BY DEF CastPut, IInv, TypeOK, NetTypeOK
<1>2. /\ recvChan' \in [Nodes -> Seq(NetMsg)]
      /\ \A k \in Nodes : Len(recvChan'[k]) <= RecvCap
      /\ \A k \in Nodes : \A i \in 1 .. Len(recvChan'[k]) :
             \/ i \in 1 .. Len(recvChan[k]) /\ recvChan'[k][i] = recvChan[k][i]
             \/ k = c.at /\ recvChan'[k][i] = c.msg
    <2>1. NetTypeOK
        BY DEF IInv, TypeOK
    <2>2. /\ c.at \in Nodes /\ c.msg \in NetMsg /\ HasRoom(c.at)
          /\ recvChan' = [recvChan EXCEPT ![c.at] = Append(@, c.msg)]
        BY <1>1
    <2>3. Longer(c.at, c.msg)
        BY <2>1, <2>2, Appended
    <2> QED  BY <2>3 DEF Longer
<1>3. d.msg = c.msg /\ d \in [msg : NetMsg, left : SUBSET Nodes, at : Nodes \cup {none}]
    BY DEF IInv, TypeOK, NetTypeOK
<1> HIDE DEF d
<1>4. NetTypeOK'
    BY <1>1, <1>2, <1>3 DEF IInv, TypeOK, NetTypeOK
<1>5. c.msg.dstHandler = StaticHandlerID /\ Right(c.msg)
    BY DEF IInv, CastsStatic, MessagesRight
<1>6. QueuedOld
    BY <1>2, <1>5 DEF QueuedOld
<1>7. CastsOld /\ CastsStatic'
    BY <1>1, <1>3, <1>5 DEF CastsOld, IInv, CastsStatic
<1>8. HandlersKnown'
    <2>1. handlerMap[c.at][StaticHandlerID] # none
        BY <1>1 DEF IInv, HandlersStay
    <2> QED  BY <1>1, <1>2, <1>5, <2>1 DEF IInv, HandlersKnown
<1> QED  BY <1>1, <1>4, <1>6, <1>7, <1>8, OldStays, CarriedIs DEF IInv, ListenersRight

\* A Broadcast takes an entry.
LEMMA CastPickStep ==
    ASSUME IInv, NEW c \in casts, NEW n \in Nodes, CastPick(c, n),
           UNCHANGED <<chainvars, tvars>>
    PROVE  IInv'
<1> DEFINE d == [c EXCEPT !.at = n, !.left = @ \ {n}]
<1>1. /\ casts' = (casts \ {c}) \cup {d}
      /\ UNCHANGED <<entries, recvChan, handlerMap, listeners, factoryId, sends, arrivals, inbox>>
    BY DEF CastPick
<1>2. d.msg = c.msg /\ d \in [msg : NetMsg, left : SUBSET Nodes, at : Nodes \cup {none}]
    BY DEF IInv, TypeOK, NetTypeOK
<1> HIDE DEF d
<1>3. NetTypeOK'
    BY <1>1, <1>2 DEF IInv, TypeOK, NetTypeOK
<1>4. CastsOld /\ CastsStatic'
    BY <1>1, <1>2 DEF CastsOld, IInv, CastsStatic
<1>5. HandlersKnown'
    BY <1>1 DEF IInv, HandlersKnown
<1> QED  BY <1>1, <1>3, <1>4, <1>5, OldStays, CarriedIs DEF IInv, ListenersRight

\* The emulator's loop takes the first message to the handler it names.
LEMMA DispatchStep ==
    ASSUME IInv, NEW n \in Nodes, Dispatch(n), UNCHANGED <<chainvars, tvars>>
    PROVE  IInv'
<1> DEFINE msg == Head(recvChan[n])
           h == handlerMap[n][msg.dstHandler]
           a == [handler |-> h, msg |-> msg]
           q == recvChan[n]
<1>1. /\ recvChan[n] # <<>> /\ h # none
      /\ recvChan' = [recvChan EXCEPT ![n] = Tail(@)] /\ arrivals' = arrivals \cup {a}
      /\ UNCHANGED <<entries, handlerMap, listeners, factoryId, sends, casts, inbox>>
    BY DEF Dispatch
<1>2. /\ recvChan \in [Nodes -> Seq(NetMsg)] /\ q \in Seq(NetMsg) /\ q # <<>>
      /\ \A k \in Nodes : Len(recvChan[k]) <= RecvCap
    BY <1>1 DEF IInv, TypeOK, NetTypeOK
<1>3. \A k \in Nodes : recvChan'[k] = IF k = n THEN Tail(q) ELSE recvChan[k]
    BY <1>1, <1>2
<1>4. msg = q[1] /\ 1 \in 1 .. Len(q) /\ msg \in NetMsg
    BY <1>2
<1> HIDE DEF q, msg
<1>5. /\ Tail(q) \in Seq(NetMsg) /\ Len(Tail(q)) = Len(q) - 1 /\ Len(q) \in Nat
      /\ \A i \in 1 .. Len(q) - 1 : Tail(q)[i] = q[i + 1] /\ i + 1 \in 1 .. Len(q)
    BY <1>2
<1>6. \A k \in Nodes : \A i \in 1 .. Len(recvChan'[k]) :
          \E j \in 1 .. Len(recvChan[k]) : recvChan'[k][i] = recvChan[k][j]
    <2> SUFFICES ASSUME NEW k \in Nodes, NEW i \in 1 .. Len(recvChan'[k])
                 PROVE  \E j \in 1 .. Len(recvChan[k]) : recvChan'[k][i] = recvChan[k][j]
        OBVIOUS
    <2>1. CASE k # n
        BY <2>1, <1>3
    <2>2. CASE k = n
        <3>1. recvChan'[k] = Tail(q) /\ recvChan[k] = q
            BY <2>2, <1>3 DEF q
        <3>2. i \in 1 .. Len(q) - 1
            BY <3>1, <1>5
        <3> QED  BY <3>1, <3>2, <1>5
    <2> QED  BY <2>1, <2>2
<1>7. a \in [handler : Handlers, msg : NetMsg]
    <2>1. h \in Handlers
        <3>1. msg.dstHandler \in Ids
            BY <1>4 DEF NetMsg
        <3> QED  BY <1>1, <3>1 DEF IInv, TypeOK, NetTypeOK
    <2> QED  BY <2>1, <1>4
<1>8. Right(a.msg)
    BY <1>4 DEF IInv, MessagesRight, q
<1> HIDE DEF a, h
<1>9. NetTypeOK'
    <2>1. recvChan' \in [Nodes -> Seq(NetMsg)]
        BY <1>1, <1>2, <1>3, <1>5
    <2>2. \A k \in Nodes : Len(recvChan'[k]) <= RecvCap
        <3>1. Len(Tail(q)) <= RecvCap
            BY <1>2, <1>5, CapAssumption DEF q
        <3> QED  BY <1>2, <1>3, <3>1
    <2> QED  BY <1>1, <1>7, <2>1, <2>2 DEF IInv, TypeOK, NetTypeOK
<1>10. QueuedOld /\ ArrivalsOld
    BY <1>1, <1>6, <1>8 DEF QueuedOld, ArrivalsOld
<1>11. HandlersKnown'
    BY <1>1, <1>6 DEF IInv, HandlersKnown
<1> QED  BY <1>1, <1>9, <1>10, <1>11, OldStays, CarriedIs DEF IInv, CastsStatic, ListenersRight

\* A handler's goroutine sends to the channel that listens.
LEMMA DeliverStep ==
    ASSUME IInv, NEW a \in arrivals, Deliver(a), UNCHANGED <<chainvars, tvars>>
    PROVE  IInv'
<1> DEFINE c == listeners[a.handler][a.msg.listener]
           d == [to |-> c, msg |-> a.msg]
<1>1. /\ arrivals' = arrivals \ {a}
      /\ inbox' = IF c = none THEN inbox ELSE inbox \cup {d}
      /\ UNCHANGED <<entries, recvChan, handlerMap, listeners, factoryId, sends, casts>>
    BY DEF Deliver
<1>2. a.handler \in Handlers /\ a.msg \in NetMsg /\ a.msg.listener \in Listeners
    BY DEF IInv, TypeOK, NetTypeOK, NetMsg
<1>3. c # none => c \in Channels /\ Hears(c, a.msg.listener)
    BY <1>2 DEF IInv, TypeOK, NetTypeOK, ListenersRight
<1>4. d.to = c /\ d.msg = a.msg /\ (c # none => d \in [to : Channels, msg : NetMsg])
    BY <1>2, <1>3
<1> HIDE DEF c, d
<1>5. NetTypeOK'
    BY <1>1, <1>4 DEF IInv, TypeOK, NetTypeOK
<1>6. \A m \in inbox' : Hears(m.to, m.msg.listener)
    BY <1>1, <1>3, <1>4 DEF IInv, ListenersRight
<1>7. InboxOld /\ ArrivalsOld
    BY <1>1, <1>4 DEF InboxOld, ArrivalsOld, IInv, MessagesRight
<1>8. HandlersKnown'
    BY <1>1 DEF IInv, HandlersKnown
<1> QED  BY <1>1, <1>5, <1>6, <1>7, <1>8, OldStays, CarriedIs DEF IInv, CastsStatic

\* Every goroutine that carries, and a node that leaves.
LEMMA NetStep ==
    ASSUME IInv, Carry \/ \E n \in Nodes : Leave(n), UNCHANGED <<chainvars, tvars>>
    PROVE  IInv'
<1>1. CASE Carry
    BY <1>1, PutStep, CastPutStep, CastPickStep, DispatchStep, DeliverStep DEF Carry
<1>2. ASSUME NEW n \in Nodes, Leave(n)
      PROVE  IInv'
    <2>1. /\ entries' = entries \ {n}
          /\ UNCHANGED <<recvChan, handlerMap, listeners, factoryId, sends, casts, arrivals, inbox>>
        BY <1>2 DEF Leave
    <2>2. NetTypeOK'
        BY <2>1 DEF IInv, TypeOK, NetTypeOK
    <2>3. HandlersKnown'
        BY <2>1 DEF IInv, HandlersKnown
    <2> QED  BY <2>1, <2>2, <2>3, OldStays, CarriedIs DEF IInv, CastsStatic, ListenersRight
<1> QED  BY <1>1, <1>2

-----------------------------------------------------------------------------
(* The master sessions *)

\* Steps that send nothing and give no handler.
LEMMA QuietIs ==
    ASSUME IInv, TypeOK', UNCHANGED <<recvChan, handlerMap, sends, casts, arrivals, setup, ws>>,
           Grow, InboxOld
    PROVE  MessagesRight' /\ CastsStatic' /\ HandlersStay' /\ HandlersKnown' /\ SessionsRight'
<1>1. MessagesRight'
    BY OldStays, MessagesStay DEF IInv
<1>2. CastsStatic'
    BY DEF IInv, CastsStatic
<1>3. HandlersStay'
    BY HandlersKept DEF IInv
<1>4. HandlersKnown' /\ SessionsRight'
    BY KnownStays, SessionsStay DEF IInv
<1> QED  BY <1>1, <1>2, <1>3, <1>4

\* A task is started at most once, so the counter stays within the addresses.
LEMMA StartStep ==
    ASSUME IInv, NEW t \in Tasks, Start(t)
    PROVE  IInv'
<1>1. /\ mstate[t] = "UN" /\ addressNum' = addressNum + 1 /\ UNCHANGED calcContracts
      /\ mstate' = [mstate EXCEPT ![t] = "COUNTED"]
      /\ UNCHANGED <<netvars, setup, address, peers, counted, answerChan, ws, submits>>
    BY DEF Start, TakeAddress
<1>2. /\ \A u \in Tasks : mstate'[u] = IF u = t THEN "COUNTED" ELSE mstate[u]
      /\ mstate' \in [Tasks -> {"UN", "COUNTED", "DEPLOYING", "RUNNING", "TERMINATING", "TERMINATED"}]
    BY <1>1 DEF IInv, TypeOK
<1>3. Begun' = Begun \cup {t} /\ t \notin Begun
    BY <1>1, <1>2 DEF Begun
<1>4. Counting' /\ addressNum' \in 0 .. MaxAddress
    <2>1. IsFiniteSet(Begun) /\ IsFiniteSet(Begun')
        BY AddressAssumption, FS_Subset DEF Begun
    <2>2. Cardinality(Begun') = Cardinality(Begun) + 1
        BY <1>3, <2>1, FS_AddElement
    <2>3. Cardinality(Begun') <= Cardinality(Tasks)
        <3>1. Begun' \subseteq Tasks
            BY DEF Begun
        <3> QED  BY <3>1, AddressAssumption, FS_Subset
    <2>4. Cardinality(Begun') \in Nat /\ Cardinality(Tasks) \in Nat
        BY <2>1, AddressAssumption, FS_CardinalityType
    <2>5. addressNum' = Cardinality(Begun')
        BY <1>1, <2>2 DEF IInv, Counting
    <2> QED  BY <2>3, <2>4, <2>5, AddressAssumption DEF Counting
<1>5. TypeOK'
    <2>1. NetTypeOK'
        BY <1>1 DEF IInv, TypeOK, NetTypeOK, netvars
    <2>2. ChainTypeOK'
        BY <1>1, <1>4 DEF IInv, TypeOK, ChainTypeOK
    <2> QED  BY <1>1, <1>2, <2>1, <2>2 DEF IInv, TypeOK
<1>6. Grow
    BY <1>1, StillGrows DEF netvars
<1>7. MessagesRight' /\ CastsStatic' /\ HandlersStay' /\ HandlersKnown' /\ SessionsRight'
    BY <1>1, <1>5, <1>6, OldStays, QuietIs DEF netvars
<1>8. Deployed' /\ ContractsRight'
    BY <1>1, <1>2 DEF IInv, Deployed, ContractsRight
<1>9. ListenersRight' /\ CallsRight' /\ PeersRight'
    BY <1>1, <1>6, CallsStay, PeersStay DEF IInv, ListenersRight, netvars
<1> QED  BY <1>4, <1>5, <1>7, <1>8, <1>9 DEF IInv

\* Listening on a handler adds to what it has.
LEMMA Listened ==
    ASSUME NetTypeOK, NEW h \in Handlers, NEW l \in Listeners, NEW c \in Channels,
           listeners' = [listeners EXCEPT ![h][l] = c]
    PROVE  /\ listeners' \in [Handlers -> [Listeners -> Channels \cup {none}]]
           /\ \A g \in Handlers, k \in Listeners :
                  listeners'[g][k] = IF g = h /\ k = l THEN c ELSE listeners[g][k]
BY DEF NetTypeOK

\* A new contract is at the address of its task, whatever was there before.
LEMMA StartDeployedStep ==
    ASSUME IInv, NEW t \in Tasks, StartDeployed(t)
    PROVE  IInv'
<1> DEFINE k == [deployer |-> Master, task |-> t, submit |-> [c \in Callers |-> nobody]]
           channel == Of("master", Master, t)
<1>1. /\ mstate[t] = "COUNTED" /\ UNCHANGED addressNum
      /\ calcContracts' = [calcContracts EXCEPT ![addressNum] = k]
      /\ address' = [address EXCEPT ![t] = addressNum]
      /\ listeners' = [listeners EXCEPT ![HandlerObject(t)]["CPROC_RES"] = channel]
      /\ mstate' = [mstate EXCEPT ![t] = "DEPLOYING"]
      /\ UNCHANGED <<entries, recvChan, handlerMap, factoryId, sends, casts, arrivals, inbox,
                     setup, peers, counted, answerChan, ws, submits>>
    BY DEF StartDeployed, Deploy, AddListener
<1>2. addressNum \in Addresses
    <2>1. t \in Begun
        BY <1>1 DEF Begun
    <2>2. IsFiniteSet(Begun)
        BY AddressAssumption, FS_Subset DEF Begun
    <2>3. Cardinality(Begun) # 0 /\ Cardinality(Begun) \in Nat
        BY <2>1, <2>2, FS_EmptySet, FS_CardinalityType
    <2>4. addressNum = Cardinality(Begun) /\ addressNum \in 0 .. MaxAddress
        BY DEF IInv, Counting, TypeOK, ChainTypeOK
    <2> QED  BY <2>3, <2>4, AddressAssumption DEF Addresses
<1>3. /\ k \in Contract /\ k # nobody /\ k.task = t /\ k.deployer = Master
      /\ \A n \in Callers : k.submit[n] = nobody
    BY PartsAssumption DEF Contract
<1>4. channel \in Channels /\ HandlerObject(t) \in Handlers /\ Hears(channel, "CPROC_RES")
    <2>1. channel \in Channels
        BY PartsAssumption DEF ListenerChannels
    <2>2. setup.ids[t] \in Ids /\ handlerMap[Master][setup.ids[t]] # none
        BY DEF IInv, TypeOK, Setup, HandlersStay
    <2>3. HandlerObject(t) \in Handlers
        BY <2>2, NodesAssumption DEF HandlerObject, IInv, TypeOK, NetTypeOK
    <2> QED  BY <2>1, <2>3 DEF Hears
<1> HIDE DEF k, channel
<1>5. \A u \in Tasks : /\ mstate'[u] = IF u = t THEN "DEPLOYING" ELSE mstate[u]
                       /\ address'[u] = IF u = t THEN addressNum ELSE address[u]
    BY <1>1 DEF IInv, TypeOK
<1>6. \A a \in Addresses : calcContracts'[a] = IF a = addressNum THEN k ELSE calcContracts[a]
    BY <1>1 DEF IInv, TypeOK, ChainTypeOK
<1>7. /\ listeners' \in [Handlers -> [Listeners -> Channels \cup {none}]]
      /\ \A g \in Handlers, l \in Listeners :
             listeners'[g][l] = IF g = HandlerObject(t) /\ l = "CPROC_RES" THEN channel
                                ELSE listeners[g][l]
    <2>1. NetTypeOK
        BY DEF IInv, TypeOK
    <2>2. "CPROC_RES" \in Listeners
        BY PartsAssumption
    <2> HIDE DEF HandlerObject
    <2> QED  BY <1>1, <1>4, <2>1, <2>2, Listened
<1>8. TypeOK'
    <2>1. NetTypeOK'
        BY <1>1, <1>7 DEF IInv, TypeOK, NetTypeOK
    <2>2. ChainTypeOK'
        BY <1>1, <1>3 DEF IInv, TypeOK, ChainTypeOK
    <2>3. mstate' \in [Tasks -> {"UN", "COUNTED", "DEPLOYING", "RUNNING", "TERMINATING", "TERMINATED"}]
        BY <1>1 DEF IInv, TypeOK
    <2>4. address' \in [Tasks -> 0 .. MaxAddress]
        BY <1>1, <1>2 DEF IInv, TypeOK, Addresses
    <2> QED  BY <1>1, <2>1, <2>2, <2>3, <2>4 DEF IInv, TypeOK
<1>9. address[t] = 0 /\ addressNum # 0
    BY <1>1, <1>2 DEF IInv, Deployed, Addresses
<1>10. Grow
    <2>1. \A u \in Tasks : address[u] # 0 => address'[u] = address[u]
        BY <1>5, <1>9
    <2>2. \A u \in Tasks : SharedAddress(u) => SharedAddress(u)'
        BY <2>1, SharedStays
    <2> QED  BY <1>1, <2>1, <2>2 DEF Grow, Meant
<1>11. MessagesRight' /\ CastsStatic' /\ HandlersStay' /\ HandlersKnown' /\ SessionsRight'
    BY <1>1, <1>8, <1>10, OldStays, QuietIs
<1>12. Counting'
    <2>1. Begun' = Begun
        BY <1>1, <1>5 DEF Begun
    <2> QED  BY <1>1, <2>1 DEF IInv, Counting
<1>13. Deployed'
    <2>1. \A u \in Tasks : mstate[u] \notin {"UN", "COUNTED"} =>
              address[u] \in Addresses /\ calcContracts'[address[u]] # nobody
        BY <1>3, <1>6 DEF IInv, Deployed
    <2>2. calcContracts'[addressNum] # nobody
        BY <1>2, <1>3, <1>6
    <2> QED  BY <1>2, <1>5, <2>1, <2>2 DEF IInv, Deployed
<1>14. ContractsRight'
    <2> SUFFICES ASSUME NEW a \in Addresses, calcContracts'[a] # nobody
                 PROVE  /\ calcContracts'[a].task \in Tasks /\ address'[calcContracts'[a].task] = a
                        /\ \A n \in Callers : calcContracts'[a].submit[n] # nobody =>
                             \E u \in Tasks : /\ calcContracts'[a].submit[n] = Of("master", Master, u)
                                              /\ address'[u] = a
        BY DEF ContractsRight
    <2>1. CASE a = addressNum
        BY <2>1, <1>3, <1>5, <1>6
    <2>2. CASE a # addressNum
        <3>1. calcContracts'[a] = calcContracts[a] /\ a # 0
            BY <2>2, <1>6 DEF Addresses
        <3>2. \A u \in Tasks : address[u] = a => address'[u] = a
            BY <1>5, <1>9, <3>1
        <3> QED  BY <3>1, <3>2 DEF IInv, ContractsRight
    <2> QED  BY <2>1, <2>2
<1>15. ListenersRight'
    BY <1>1, <1>4, <1>7 DEF IInv, ListenersRight
<1>16. CallsRight' /\ PeersRight'
    BY <1>1, <1>10, CallsStay, PeersStay DEF IInv
<1> QED  BY <1>8, <1>11, <1>12, <1>13, <1>14, <1>15, <1>16 DEF IInv

\* A task is published once its contract is there, with its address.
LEMMA DeployResultStep ==
    ASSUME IInv, NEW t \in Tasks, DeployResult(t)
    PROVE  IInv'
<1> DEFINE channel == Of("master", Master, t)
           a == address[t]
           msg == [from |-> Master, srcHandler |-> setup.ids[t], dstHandler |-> StaticHandlerID,
                   listener |-> "CPROC_WAIT", data |-> Data(t, a)]
           cast == [left |-> Nodes \ {Master}, at |-> none, msg |-> msg]
           k == [calcContracts[a] EXCEPT !.submit = [@ EXCEPT ![Master] = channel]]
<1>1. /\ mstate[t] = "DEPLOYING" /\ UNCHANGED addressNum
      /\ calcContracts' = [calcContracts EXCEPT ![a].submit[Master] = channel]
      /\ mstate' = [mstate EXCEPT ![t] = "RUNNING"]
      /\ casts' = casts \cup {cast}
      /\ UNCHANGED <<entries, recvChan, handlerMap, listeners, factoryId, sends, arrivals, inbox,
                     setup, address, peers, counted, answerChan, ws, submits>>
    BY DEF DeployResult, ListenSubmit, Broadcast
<1>2. a \in Addresses /\ a # 0 /\ calcContracts[a] # nobody /\ calcContracts[a] \in Contract
    <2>1. a \in Addresses /\ calcContracts[a] # nobody
        BY <1>1 DEF IInv, Deployed
    <2>2. a # 0
        BY <2>1 DEF Addresses
    <2>3. calcContracts[a] \in Contract
        BY <2>1 DEF IInv, TypeOK, ChainTypeOK
    <2> QED  BY <2>1, <2>2, <2>3
<1>3. channel \in Sinks /\ Master \in Callers
    BY PartsAssumption DEF ListenerChannels
<1>4. /\ msg \in NetMsg /\ msg.from = Master /\ msg.srcHandler = setup.ids[t]
      /\ msg.listener = "CPROC_WAIT" /\ msg.data.task = t /\ msg.data.address = a
      /\ msg.dstHandler = StaticHandlerID
    <2>1. setup.ids[t] \in Ids /\ StaticHandlerID \in Ids
        BY CapAssumption DEF IInv, TypeOK, Setup, StaticHandlerID, Ids
    <2>2. Data(t, a) \in Payloads /\ Data(t, a).task = t /\ Data(t, a).address = a
        BY <1>2, PartsAssumption DEF Data, MsgData, IInv, TypeOK
    <2>3. "CPROC_WAIT" \in Listeners /\ Master \in Nodes
        BY PartsAssumption, NodesAssumption
    <2> QED  BY <2>1, <2>2, <2>3 DEF NetMsg
<1>5. /\ k \in Contract /\ k.task = calcContracts[a].task /\ k.deployer = calcContracts[a].deployer
      /\ \A n \in Callers : k.submit[n] = IF n = Master THEN channel ELSE calcContracts[a].submit[n]
    BY <1>2, <1>3 DEF Contract
<1>6. calcContracts' = [calcContracts EXCEPT ![a] = k]
    BY <1>1
<1> HIDE DEF k, channel
<1>7. cast.msg = msg /\ cast \in [msg : NetMsg, left : SUBSET Nodes, at : Nodes \cup {none}]
    BY <1>4
<1> HIDE DEF cast, msg, a
<1>8. \A u \in Tasks : mstate'[u] = IF u = t THEN "RUNNING" ELSE mstate[u]
    BY <1>1 DEF IInv, TypeOK
<1>9. /\ \A b \in Addresses : calcContracts'[b] = IF b = a THEN k ELSE calcContracts[b]
      /\ k # nobody
    BY <1>5, <1>6, PartsAssumption DEF IInv, TypeOK, ChainTypeOK
<1>10. TypeOK'
    <2>1. NetTypeOK'
        BY <1>1, <1>7 DEF IInv, TypeOK, NetTypeOK
    <2>2. ChainTypeOK'
        BY <1>1, <1>5, <1>6 DEF IInv, TypeOK, ChainTypeOK
    <2>3. mstate' \in [Tasks -> {"UN", "COUNTED", "DEPLOYING", "RUNNING", "TERMINATING", "TERMINATED"}]
        BY <1>1 DEF IInv, TypeOK
    <2> QED  BY <1>1, <2>1, <2>2, <2>3 DEF IInv, TypeOK
<1>11. Grow
    BY <1>1, StillGrows
<1>12. Right(msg)
    <2>1. handlerMap[Master][setup.ids[t]] # none
        BY DEF IInv, HandlersStay
    <2> QED  BY <1>2, <1>4, <2>1 DEF Right, a
<1>13. MessagesRight' /\ CastsStatic'
    <2>a. PICK x \in NetMsg : x = msg
        BY <1>4
    <2>1. Right(x)'
        BY <2>a, <1>11, <1>12, RightStays
    <2>2. CastsOld /\ CastsStatic'
        BY <1>1, <1>4, <1>7, <2>a, <2>1 DEF CastsOld, IInv, CastsStatic
    <2> QED  BY <1>1, <1>10, <1>11, <2>2, OldStays, MessagesStay DEF IInv
<1>14. HandlersStay' /\ HandlersKnown' /\ SessionsRight'
    BY <1>1, <1>10, <1>11, HandlersKept, KnownStays, SessionsStay DEF IInv
<1>15. Counting' /\ Deployed'
    <2>1. Begun' = Begun
        BY <1>1, <1>8 DEF Begun
    <2>2. \A u \in Tasks : mstate[u] \notin {"UN", "COUNTED"} => calcContracts'[address[u]] # nobody
        BY <1>9 DEF IInv, Deployed
    <2> QED  BY <1>1, <1>8, <2>1, <2>2 DEF IInv, Counting, Deployed
<1>16. ContractsRight'
    <2> SUFFICES ASSUME NEW b \in Addresses, calcContracts'[b] # nobody
                 PROVE  /\ calcContracts'[b].task \in Tasks /\ address[calcContracts'[b].task] = b
                        /\ \A n \in Callers : calcContracts'[b].submit[n] # nobody =>
                             \E u \in Tasks : /\ calcContracts'[b].submit[n] = Of("master", Master, u)
                                              /\ address[u] = b
        BY <1>1 DEF ContractsRight
    <2>1. CASE b = a
        <3>1. \E u \in Tasks : channel = Of("master", Master, u) /\ address[u] = b
            BY <2>1 DEF channel, a
        <3>2. calcContracts'[b] = k /\ calcContracts[b] # nobody
            BY <1>2, <1>9, <2>1
        <3> QED  BY <1>5, <2>1, <3>1, <3>2 DEF IInv, ContractsRight
    <2>2. CASE b # a
        BY <2>2, <1>9 DEF IInv, ContractsRight
    <2> QED  BY <2>1, <2>2
<1>17. ListenersRight' /\ CallsRight' /\ PeersRight'
    BY <1>1, <1>11, CallsStay, PeersStay DEF IInv, ListenersRight
<1> QED  BY <1>10, <1>13, <1>14, <1>15, <1>16, <1>17 DEF IInv

\* What reaches the channel of a master session is an answer of a worker.
LEMMA HeardByMaster ==
    ASSUME IInv, NEW t \in Tasks, NEW m \in inbox, m.to = Of("master", Master, t)
    PROVE  /\ m.msg \in NetMsg /\ Right(m.msg) /\ m.msg.listener = "CPROC_RES"
           /\ m.msg.from \in Workers /\ m.msg.from \in Nodes /\ m.msg.srcHandler \in Ids
           /\ Meant(m.msg.from, m.msg.data.task)
<1>1. m.msg \in NetMsg /\ Right(m.msg) /\ Hears(m.to, m.msg.listener)
    BY DEF IInv, TypeOK, NetTypeOK, MessagesRight, ListenersRight
<1>2. m.msg.listener = "CPROC_RES"
    <2>1. \A k, n, u : Of(k, n, u).kind = k
        BY DEF Of
    <2>2. m.to.kind = "master"
        BY <2>1
    <2> QED  BY <1>1, <2>1, <2>2 DEF Hears
<1> QED  BY <1>1, <1>2 DEF Right, NetMsg

\* A worker is taken up that means this task, and is told so.
LEMMA PeerResStep ==
    ASSUME IInv, NEW t \in Tasks, NEW m \in inbox, PeerRes(t, m)
    PROVE  IInv'
<1> DEFINE w == m.msg.from
           msg == [from |-> Master, srcHandler |-> setup.ids[t], dstHandler |-> m.msg.srcHandler,
                   listener |-> "CPROC_META", data |-> Data(t, 0)]
           s == [to |-> w, msg |-> msg]
<1>1. /\ m.to = Of("master", Master, t) /\ inbox' = inbox \ {m}
      /\ IF m.msg.data.task = t /\ peers[t][w] = "NONE"
         THEN peers' = [peers EXCEPT ![t][w] = "RUNNING"] /\ sends' = sends \cup {s}
         ELSE UNCHANGED <<peers, sends>>
      /\ UNCHANGED <<entries, recvChan, handlerMap, listeners, factoryId, casts, arrivals,
                     chainvars, mstate, setup, address, counted, answerChan, ws, submits>>
    BY DEF PeerRes, Take, SendTo
<1>2. /\ m.msg \in NetMsg /\ Right(m.msg) /\ w \in Workers /\ w \in Nodes
      /\ m.msg.srcHandler \in Ids /\ Meant(w, m.msg.data.task)
    BY <1>1, HeardByMaster
<1>3. /\ msg \in NetMsg /\ msg.from = Master /\ msg.srcHandler = setup.ids[t]
      /\ msg.listener = "CPROC_META" /\ msg.dstHandler = m.msg.srcHandler
    <2>1. setup.ids[t] \in Ids
        BY DEF IInv, TypeOK, Setup
    <2>2. Data(t, 0) \in Payloads
        BY PartsAssumption, AddressAssumption DEF Data, MsgData
    <2>3. "CPROC_META" \in Listeners /\ Master \in Nodes
        BY PartsAssumption, NodesAssumption
    <2> QED  BY <1>2, <2>1, <2>2, <2>3 DEF NetMsg
<1>4. s.to = w /\ s.msg = msg /\ s \in [to : Nodes, msg : NetMsg]
    BY <1>2, <1>3
<1>5. handlerMap[w][m.msg.srcHandler] # none
    BY <1>2 DEF Right
<1> HIDE DEF s, msg, w
<1>6. /\ peers' \in [Tasks -> [Workers -> {"NONE", "RUNNING", "SUBMITTED"}]]
      /\ \A u \in Tasks, v \in Workers : peers'[u][v] # "NONE" =>
             peers[u][v] # "NONE" \/ (u = t /\ v = w /\ m.msg.data.task = t)
    <2>1. peers \in [Tasks -> [Workers -> {"NONE", "RUNNING", "SUBMITTED"}]]
        BY DEF IInv, TypeOK
    <2>2. \/ peers' = [peers EXCEPT ![t][w] = "RUNNING"] /\ m.msg.data.task = t
          \/ UNCHANGED peers
        BY <1>1
    <2> HIDE <1>1
    <2> QED  BY <1>2, <2>1, <2>2
<1>7. TypeOK'
    <2>1. NetTypeOK'
        BY <1>1, <1>4 DEF IInv, TypeOK, NetTypeOK
    <2>2. ChainTypeOK'
        BY <1>1 DEF IInv, TypeOK, ChainTypeOK, chainvars
    <2> QED  BY <1>1, <1>6, <2>1, <2>2 DEF IInv, TypeOK
<1>8. Grow
    BY <1>1, StillGrows
<1>9. MessagesRight'
    <2>1. handlerMap[Master][setup.ids[t]] # none
        BY DEF IInv, HandlersStay
    <2>2. Right(msg)
        BY <1>3, <2>1 DEF Right
    <2>a. PICK x \in NetMsg : x = msg
        BY <1>3
    <2>3. Right(x)'
        BY <2>a, <1>8, <2>2, RightStays
    <2>4. SendsOld /\ InboxOld
        BY <1>1, <1>4, <2>a, <2>3 DEF SendsOld, InboxOld
    <2> QED  BY <1>1, <1>7, <1>8, <2>4, OldStays, MessagesStay DEF IInv
<1>10. CastsStatic' /\ HandlersStay' /\ SessionsRight'
    BY <1>1, <1>7, <1>8, HandlersKept, SessionsStay DEF IInv, CastsStatic
<1>11. HandlersKnown'
    <2>1. \A x \in sends' : handlerMap[x.to][x.msg.dstHandler] # none
        BY <1>1, <1>3, <1>4, <1>5 DEF IInv, HandlersKnown
    <2> QED  BY <1>1, <2>1 DEF IInv, HandlersKnown
<1>12. Counting' /\ Deployed' /\ ContractsRight'
    BY <1>1, ChainStays DEF IInv
<1>13. ListenersRight' /\ CallsRight'
    BY <1>1, <1>8, CallsStay DEF IInv, ListenersRight
<1>14. PeersRight'
    BY <1>2, <1>6, <1>8, PeersStay DEF IInv
<1> QED  BY <1>7, <1>9, <1>10, <1>11, <1>12, <1>13, <1>14 DEF IInv

\* An answer that is counted came through the contract.
LEMMA PeerAnswerStep ==
    ASSUME IInv, NEW t \in Tasks, NEW a \in answerChan[t], PeerAnswer(t, a)
    PROVE  IInv'
<1>1. /\ mstate[t] \in {"DEPLOYING", "RUNNING", "TERMINATING"}
      /\ answerChan' = [answerChan EXCEPT ![t] = @ \ {a}]
      /\ \/ /\ peers' = [peers EXCEPT ![t][a.worker] = "SUBMITTED"]
            /\ peers[t][a.worker] = "RUNNING"
            /\ counted' = [counted EXCEPT ![t] = @ \cup {a}]
            /\ mstate' = [mstate EXCEPT ![t] = "TERMINATING"] \/ UNCHANGED mstate
         \/ UNCHANGED <<peers, counted, mstate>>
      /\ UNCHANGED <<netvars, chainvars, setup, address, ws, submits>>
    BY DEF PeerAnswer, Live
<1>2. a \in Answer /\ a.worker \in Workers
    BY DEF IInv, TypeOK, Answer
<1>3. /\ mstate' \in [Tasks -> {"UN", "COUNTED", "DEPLOYING", "RUNNING", "TERMINATING", "TERMINATED"}]
      /\ \A u \in Tasks : \/ mstate'[u] = mstate[u]
                          \/ /\ mstate[u] \notin {"UN", "COUNTED"}
                             /\ mstate'[u] \notin {"UN", "COUNTED"}
    BY <1>1 DEF IInv, TypeOK
<1>4. /\ peers' \in [Tasks -> [Workers -> {"NONE", "RUNNING", "SUBMITTED"}]]
      /\ \A u \in Tasks, v \in Workers : peers'[u][v] # "NONE" => peers[u][v] # "NONE"
    <2>1. peers \in [Tasks -> [Workers -> {"NONE", "RUNNING", "SUBMITTED"}]]
        BY DEF IInv, TypeOK
    <2>2. \/ UNCHANGED peers
          \/ /\ peers' = [peers EXCEPT ![t][a.worker] = "SUBMITTED"]
             /\ peers[t][a.worker] = "RUNNING"
        BY <1>1
    <2> HIDE <1>1
    <2> QED  BY <1>2, <2>1, <2>2
<1>5. /\ answerChan' \in [Tasks -> SUBSET Answer] /\ counted' \in [Tasks -> SUBSET Answer]
      /\ \A u \in Tasks : \A x \in answerChan'[u] \cup counted'[u] :
             x \in answerChan[u] \cup counted[u]
    <2>1. answerChan \in [Tasks -> SUBSET Answer] /\ counted \in [Tasks -> SUBSET Answer]
        BY DEF IInv, TypeOK
    <2>2. UNCHANGED counted \/ counted' = [counted EXCEPT ![t] = @ \cup {a}]
        BY <1>1
    <2>3. answerChan' = [answerChan EXCEPT ![t] = @ \ {a}]
        BY <1>1
    <2> HIDE <1>1
    <2> QED  BY <1>2, <2>1, <2>2, <2>3
<1>6. TypeOK'
    <2>1. NetTypeOK'
        BY <1>1 DEF IInv, TypeOK, NetTypeOK, netvars
    <2>2. ChainTypeOK'
        BY <1>1 DEF IInv, TypeOK, ChainTypeOK, chainvars
    <2> QED  BY <1>1, <1>3, <1>4, <1>5, <2>1, <2>2 DEF IInv, TypeOK
<1>7. Grow
    BY <1>1, StillGrows DEF netvars
<1>8. MessagesRight' /\ CastsStatic' /\ HandlersStay' /\ HandlersKnown' /\ SessionsRight'
    BY <1>1, <1>6, <1>7, OldStays, QuietIs DEF netvars
<1>9. Counting' /\ Deployed' /\ ContractsRight'
    BY <1>1, <1>3, ChainStays DEF IInv
<1>10. CallsRight'
    BY <1>1, <1>5 DEF IInv, CallsRight, SameAddress
<1>11. ListenersRight' /\ PeersRight'
    BY <1>1, <1>4, <1>7, PeersStay DEF IInv, ListenersRight, netvars
<1> QED  BY <1>6, <1>8, <1>9, <1>10, <1>11 DEF IInv

\* The result of Terminate.
LEMMA TerminateResultStep ==
    ASSUME IInv, NEW t \in Tasks, TerminateResult(t)
    PROVE  IInv'
<1>1. /\ mstate[t] = "TERMINATING" /\ mstate' = [mstate EXCEPT ![t] = "TERMINATED"]
      /\ UNCHANGED <<netvars, chainvars, setup, address, peers, counted, answerChan, ws, submits>>
    BY DEF TerminateResult
<1>2. /\ mstate' \in [Tasks -> {"UN", "COUNTED", "DEPLOYING", "RUNNING", "TERMINATING", "TERMINATED"}]
      /\ \A u \in Tasks : \/ mstate'[u] = mstate[u]
                          \/ /\ mstate[u] \notin {"UN", "COUNTED"}
                             /\ mstate'[u] \notin {"UN", "COUNTED"}
    BY <1>1 DEF IInv, TypeOK
<1>3. TypeOK'
    <2>1. NetTypeOK'
        BY <1>1 DEF IInv, TypeOK, NetTypeOK, netvars
    <2>2. ChainTypeOK'
        BY <1>1 DEF IInv, TypeOK, ChainTypeOK, chainvars
    <2> QED  BY <1>1, <1>2, <2>1, <2>2 DEF IInv, TypeOK
<1>4. Grow
    BY <1>1, StillGrows DEF netvars
<1>5. MessagesRight' /\ CastsStatic' /\ HandlersStay' /\ HandlersKnown' /\ SessionsRight'
    BY <1>1, <1>3, <1>4, OldStays, QuietIs DEF netvars
<1>6. Counting' /\ Deployed' /\ ContractsRight'
    BY <1>1, <1>2, ChainStays DEF IInv
<1>7. ListenersRight' /\ CallsRight' /\ PeersRight'
    BY <1>1, <1>4, CallsStay, PeersStay DEF IInv, ListenersRight, netvars
<1> QED  BY <1>3, <1>5, <1>6, <1>7 DEF IInv

-----------------------------------------------------------------------------
(* The workers *)

\* The worker sessions with one of them changed.
WsWith(w, t, r) == [ws EXCEPT ![w][t] = r]

\* What may become of a worker session: it is about its task's request, has a
\* handler once it has started, and found a task at the address of its own.
MoveOf(w, t, r) ==
    /\ r \in Session
    /\ r.state # "NONE"
    /\ r.req \in NetMsg /\ Right(r.req)
    /\ r.req.listener = "CPROC_WAIT" /\ r.req.data.task = t
    /\ r.taskID # none => SameAddress(t, r.taskID)
    /\ r.validated # none => SameAddress(t, r.validated)

\* A step of one session leaves the others and what was said of it right.
LEMMA Moved ==
    ASSUME IInv, NEW w \in Workers, NEW t \in Tasks, NEW r, MoveOf(w, t, r),
           ws' = WsWith(w, t, r), UNCHANGED address,
           ws[w][t].taskID = none \/ r.taskID # none,
           \A n \in Nodes, i \in Ids : handlerMap[n][i] # none => handlerMap'[n][i] # none
    PROVE  /\ ws' \in [Workers -> [Tasks -> Session]]
           /\ \A v \in Workers, u \in Tasks : ws'[v][u] = IF v = w /\ u = t THEN r ELSE ws[v][u]
           /\ Grow /\ SessionsRight'
           /\ r.taskID # none => Meant(w, t)'
<1>1. ws \in [Workers -> [Tasks -> Session]] /\ r \in Session
    BY DEF IInv, TypeOK, MoveOf
<1>2. /\ ws' \in [Workers -> [Tasks -> Session]]
      /\ \A v \in Workers, u \in Tasks : ws'[v][u] = IF v = w /\ u = t THEN r ELSE ws[v][u]
    BY <1>1 DEF WsWith
<1>3. r.taskID # none => Meant(w, t)'
    <2> SUFFICES ASSUME r.taskID # none PROVE Meant(w, t)'
        OBVIOUS
    <2>1. ws'[w][t].taskID = r.taskID /\ r.taskID \in Tasks /\ SameAddress(t, r.taskID)
        BY <1>1, <1>2 DEF MoveOf, Session
    <2> QED  BY <2>1 DEF Meant, SameAddress, SharedAddress
<1>4. Grow
    <2>1. ASSUME NEW v \in Workers, NEW u \in Tasks, Meant(v, u)
          PROVE  Meant(v, u)'
        <3>1. CASE v = w /\ u = t
            <4>1. CASE r.taskID # none
                BY <1>3, <3>1, <4>1
            <4>2. CASE r.taskID = none
                <5>1. ws[w][t].taskID = none
                    BY <4>2
                <5>2. SharedAddress(t)
                    BY <2>1, <3>1, <5>1, PartsAssumption DEF Meant
                <5> QED  BY <3>1, <5>2 DEF Meant, SharedAddress
            <4> QED  BY <4>1, <4>2
        <3>2. CASE ~(v = w /\ u = t)
            BY <1>2, <2>1, <3>2 DEF Meant, SharedAddress
        <3> QED  BY <3>1, <3>2
    <2> QED  BY <2>1 DEF Grow
<1>5. SessionsRight'
    <2> SUFFICES ASSUME NEW v \in Workers, NEW u \in Tasks
                 PROVE  /\ ws'[v][u].state # "NONE" =>
                             /\ ws'[v][u].req \in NetMsg
                             /\ \E m : m = ws'[v][u].req /\ Right(m)'
                             /\ ws'[v][u].req.listener = "CPROC_WAIT"
                             /\ ws'[v][u].req.data.task = u
                        /\ ws'[v][u].taskID # none => SameAddress(u, ws[v][u].taskID)'
                        /\ ws'[v][u].validated # none => SameAddress(u, ws[v][u].validated)'
        BY DEF SessionsRight
    <2>1. CASE v = w /\ u = t
        <3>1. ws'[v][u] = r
            BY <1>2, <2>1
        <3>2. \E m : m = r.req /\ Right(m)'
            BY <1>4, RightStays DEF MoveOf
        <3> QED  BY <2>1, <3>1, <3>2 DEF MoveOf, SameAddress
    <2>2. CASE ~(v = w /\ u = t)
        <3>1. ws'[v][u] = ws[v][u]
            BY <1>2, <2>2
        <3>2. ws[v][u].state # "NONE" => \E m : m = ws[v][u].req /\ Right(m)'
            BY <1>4, RightStays DEF IInv, SessionsRight
        <3> QED  BY <3>1, <3>2 DEF IInv, SessionsRight, SameAddress
    <2> QED  BY <2>1, <2>2
<1> QED  BY <1>2, <1>3, <1>4, <1>5

\* What a step of a worker that is not about the chain keeps.
LEMMA WorkerKeeps ==
    ASSUME IInv, TypeOK', Grow, SessionsRight',
           UNCHANGED <<chainvars, mstate, address, peers, counted, answerChan>>
    PROVE  Counting' /\ Deployed' /\ ContractsRight' /\ PeersRight'
BY ChainStays, PeersStay DEF IInv

\* What reaches the channel of a Worker is a request.
LEMMA HeardByWorker ==
    ASSUME IInv, NEW w \in Workers, NEW m \in inbox, m.to = Of("worker", w, none)
    PROVE  /\ m.msg \in NetMsg /\ Right(m.msg) /\ m.msg.listener = "CPROC_WAIT"
           /\ m.msg.data.task \in Tasks
<1>1. m.msg \in NetMsg /\ Right(m.msg) /\ Hears(m.to, m.msg.listener)
    BY DEF IInv, TypeOK, NetTypeOK, MessagesRight, ListenersRight
<1>2. m.msg.listener = "CPROC_WAIT"
    <2>1. \A k, n, u : Of(k, n, u).kind = k /\ Of(k, n, u).task = u
        BY DEF Of
    <2>2. m.to.kind = "worker" /\ m.to.task = none
        BY <2>1
    <2> QED  BY <1>1, <2>1, <2>2, PartsAssumption DEF Hears
<1>3. m.msg.data.task \in Tasks
    BY <1>1, PartsAssumption DEF NetMsg, MsgData
<1> QED  BY <1>1, <1>2, <1>3

\* The counter of a factory wraps within the ids.
LEMMA NextIdIs ==
    ASSUME NetTypeOK, NEW w \in Nodes, NextId(w)
    PROVE  factoryId' \in [Nodes -> Ids]
<1>1. factoryId \in [Nodes -> Ids] /\ factoryId' = [factoryId EXCEPT ![w] = (@ + 1) % HandlerSpace]
    BY DEF NetTypeOK, NextId
<1>2. factoryId[w] \in Int
    BY <1>1 DEF Ids
<1>3. (factoryId[w] + 1) % HandlerSpace \in Ids
    BY <1>2, CapAssumption DEF Ids
<1> QED  BY <1>1, <1>3

\* The Worker takes a request and asks for a handler.
LEMMA TaskRequestStep ==
    ASSUME IInv, NEW w \in Workers, NEW m \in inbox, TaskRequest(w, m)
    PROVE  IInv'
<1> DEFINE t == m.msg.data.task
           r == [ws[w][t] EXCEPT !.state = "ASKING", !.req = m.msg]
<1>1. /\ m.to = Of("worker", w, none) /\ inbox' = inbox \ {m} /\ NextId(w)
      /\ ws' = WsWith(w, t, r)
      /\ UNCHANGED <<entries, recvChan, handlerMap, listeners, sends, casts, arrivals, chainvars,
                     mstate, setup, address, peers, counted, answerChan, submits>>
    BY DEF TaskRequest, Take, WsWith
<1>2. m.msg \in NetMsg /\ Right(m.msg) /\ m.msg.listener = "CPROC_WAIT" /\ t \in Tasks
    BY <1>1, HeardByWorker
<1>3. ws[w][t] \in Session
    BY <1>2 DEF IInv, TypeOK
<1>4. /\ r \in Session /\ r.state = "ASKING" /\ r.req = m.msg
      /\ r.taskID = ws[w][t].taskID /\ r.validated = ws[w][t].validated
    BY <1>2, <1>3 DEF Session, WorkerStates
<1>5. MoveOf(w, t, r)
    <2>1. /\ ws[w][t].taskID # none => SameAddress(t, ws[w][t].taskID)
          /\ ws[w][t].validated # none => SameAddress(t, ws[w][t].validated)
        BY <1>2 DEF IInv, SessionsRight
    <2> QED  BY <1>2, <1>4, <2>1 DEF MoveOf
<1> HIDE DEF r
<1>6. /\ ws' \in [Workers -> [Tasks -> Session]]
      /\ \A v \in Workers, u \in Tasks : ws'[v][u] = IF v = w /\ u = t THEN r ELSE ws[v][u]
      /\ Grow /\ SessionsRight'
    <2>1. \A n \in Nodes, i \in Ids : handlerMap[n][i] # none => handlerMap'[n][i] # none
        BY <1>1
    <2> HIDE DEF t
    <2> QED  BY <1>1, <1>2, <1>4, <1>5, <2>1, Moved
<1> HIDE DEF t
<1>7. TypeOK'
    <2>1. NetTypeOK'
        <3>1. factoryId' \in [Nodes -> Ids]
            BY <1>1, NextIdIs DEF IInv, TypeOK, Workers
        <3> QED  BY <1>1, <3>1 DEF IInv, TypeOK, NetTypeOK
    <2>2. ChainTypeOK'
        BY <1>1 DEF IInv, TypeOK, ChainTypeOK, chainvars
    <2> QED  BY <1>1, <1>6, <2>1, <2>2 DEF IInv, TypeOK
<1>8. MessagesRight' /\ CastsStatic'
    <2>1. InboxOld
        BY <1>1 DEF InboxOld
    <2> QED  BY <1>1, <1>6, <1>7, <2>1, OldStays, MessagesStay DEF IInv, CastsStatic
<1>9. HandlersStay'
    BY <1>1, <1>4, <1>6, <1>7, HandlersKept DEF IInv
<1>10. HandlersKnown' /\ CallsRight' /\ ListenersRight'
    BY <1>1, <1>6, KnownStays, CallsStay DEF IInv, ListenersRight
<1> QED  BY <1>1, <1>6, <1>7, <1>8, <1>9, <1>10, WorkerKeeps DEF IInv

\* A new handler replaces whatever has its id, and has one listener.
LEMMA NewHandlerIs ==
    ASSUME NetTypeOK, NEW n \in Nodes, NEW h \in Handlers, NEW l \in Listeners,
           NEW c \in Channels, NewHandler(n, h, l, c)
    PROVE  /\ handlerMap' \in [Nodes -> [Ids -> Handlers \cup {none}]]
           /\ handlerMap'[n][factoryId[n]] # none /\ factoryId[n] \in Ids
           /\ \A k \in Nodes, i \in Ids : handlerMap[k][i] # none => handlerMap'[k][i] # none
           /\ listeners' \in [Handlers -> [Listeners -> Channels \cup {none}]]
           /\ \A g \in Handlers, k \in Listeners :
                  listeners'[g][k] = IF g = h /\ k = l THEN c ELSE listeners[g][k]
           /\ UNCHANGED factoryId
<1>1. /\ handlerMap' = [handlerMap EXCEPT ![n][factoryId[n]] = h]
      /\ listeners' = [listeners EXCEPT ![h][l] = c] /\ UNCHANGED factoryId
    BY DEF NewHandler
<1>2. /\ factoryId[n] \in Ids /\ h # none
      /\ handlerMap \in [Nodes -> [Ids -> Handlers \cup {none}]]
    BY NoneAssumption DEF NetTypeOK
<1>3. /\ handlerMap' \in [Nodes -> [Ids -> Handlers \cup {none}]]
      /\ \A k \in Nodes, i \in Ids :
             handlerMap'[k][i] = IF k = n /\ i = factoryId[n] THEN h ELSE handlerMap[k][i]
    BY <1>1, <1>2
<1>4. /\ handlerMap'[n][factoryId[n]] # none
      /\ \A k \in Nodes, i \in Ids : handlerMap[k][i] # none => handlerMap'[k][i] # none
    BY <1>2, <1>3
<1>5. /\ listeners' \in [Handlers -> [Listeners -> Channels \cup {none}]]
      /\ \A g \in Handlers, k \in Listeners :
             listeners'[g][k] = IF g = h /\ k = l THEN c ELSE listeners[g][k]
    <2> HIDE <1>2, <1>3, <1>4
    <2> QED  BY <1>1, Listened
<1> QED  BY <1>1, <1>2, <1>3, <1>4, <1>5

\* A session gets a handler: SessionStart and PurchaseStart.
LEMMA HandlerGiven ==
    ASSUME IInv, NEW w \in Workers, NEW t \in Tasks, NEW r, MoveOf(w, t, r),
           NEW h \in Handlers, NEW c \in Channels, NEW l \in Listeners, Hears(c, l),
           NewHandler(w, h, l, c), ws' = WsWith(w, t, r),
           r.taskID = ws[w][t].taskID,
           \/ r.handler = factoryId[w]
           \/ ws[w][t].state \notin {"NONE", "ASKING"} /\ r.handler = ws[w][t].handler,
           UNCHANGED <<entries, recvChan, sends, casts, arrivals, inbox, chainvars,
                       mstate, setup, address, peers, counted, answerChan, submits>>
    PROVE  IInv'
<1>1. w \in Nodes
    BY DEF Workers
<1>2. /\ handlerMap' \in [Nodes -> [Ids -> Handlers \cup {none}]]
      /\ handlerMap'[w][factoryId[w]] # none /\ factoryId[w] \in Ids
      /\ \A k \in Nodes, i \in Ids : handlerMap[k][i] # none => handlerMap'[k][i] # none
      /\ listeners' \in [Handlers -> [Listeners -> Channels \cup {none}]]
      /\ \A g \in Handlers, k \in Listeners :
             listeners'[g][k] = IF g = h /\ k = l THEN c ELSE listeners[g][k]
      /\ UNCHANGED factoryId
    BY <1>1, NewHandlerIs DEF IInv, TypeOK
<1>3. /\ ws' \in [Workers -> [Tasks -> Session]]
      /\ \A v \in Workers, u \in Tasks : ws'[v][u] = IF v = w /\ u = t THEN r ELSE ws[v][u]
      /\ Grow /\ SessionsRight'
    BY <1>2, Moved
<1>4. TypeOK'
    <2>1. NetTypeOK'
        BY <1>2 DEF IInv, TypeOK, NetTypeOK
    <2>2. ChainTypeOK'
        BY DEF IInv, TypeOK, ChainTypeOK, chainvars
    <2> QED  BY <1>3, <2>1, <2>2 DEF IInv, TypeOK
<1>5. MessagesRight' /\ CastsStatic'
    BY <1>3, <1>4, OldStays, MessagesStay DEF IInv, CastsStatic
<1>6. HandlersStay'
    <2>1. /\ \A n \in Nodes : handlerMap'[n][StaticHandlerID] # none
          /\ \A u \in Tasks : handlerMap'[Master][setup'.ids[u]] # none
        <3>1. /\ StaticHandlerID \in Ids /\ Master \in Nodes
              /\ \A u \in Tasks : setup.ids[u] \in Ids
            BY CapAssumption, NodesAssumption DEF StaticHandlerID, Ids, IInv, TypeOK, Setup
        <3> QED  BY <1>2, <3>1 DEF IInv, HandlersStay
    <2>2. ASSUME NEW v \in Workers, NEW u \in Tasks,
                 ws'[v][u].state \notin {"NONE", "ASKING"}
          PROVE  handlerMap'[v][ws'[v][u].handler] # none
        <3>1. /\ \A k \in Workers, j \in Tasks : ws[k][j].handler \in Ids
              /\ v \in Nodes
            BY DEF IInv, TypeOK, Session, Workers
        <3>2. CASE v = w /\ u = t
            <4>1. ws'[v][u] = r
                BY <1>3, <3>2
            <4>2. CASE r.handler = factoryId[w]
                BY <1>2, <3>2, <4>1, <4>2
            <4>3. CASE ws[w][t].state \notin {"NONE", "ASKING"} /\ r.handler = ws[w][t].handler
                <5>1. handlerMap[w][ws[w][t].handler] # none
                    BY <4>3 DEF IInv, HandlersStay
                <5> QED  BY <1>1, <1>2, <3>1, <3>2, <4>1, <4>3, <5>1
            <4> QED  BY <4>2, <4>3
        <3>3. CASE ~(v = w /\ u = t)
            <4>1. ws'[v][u] = ws[v][u]
                BY <1>3, <3>3
            <4> QED  BY <1>2, <2>2, <3>1, <4>1 DEF IInv, HandlersStay
        <3> QED  BY <3>2, <3>3
    <2> QED  BY <2>1, <2>2 DEF HandlersStay
<1>7. HandlersKnown' /\ CallsRight'
    BY <1>3, KnownStays, CallsStay DEF IInv
<1>8. ListenersRight'
    BY <1>2 DEF IInv, ListenersRight
<1> QED  BY <1>3, <1>4, <1>5, <1>6, <1>7, <1>8, WorkerKeeps DEF IInv

\* Whatever a session goes on to, it keeps its request and what it found.
LEMMA GoesOn ==
    ASSUME IInv, NEW w \in Workers, NEW t \in Tasks, NEW r, r \in Session,
           ws[w][t].state # "NONE", r.state # "NONE",
           r.req = ws[w][t].req, r.taskID = ws[w][t].taskID,
           r.validated = ws[w][t].validated
    PROVE  MoveOf(w, t, r)
BY DEF MoveOf, IInv, SessionsRight

\* The session starts with a handler of its own.
LEMMA SessionStartStep ==
    ASSUME IInv, NEW w \in Workers, NEW t \in Tasks, SessionStart(w, t)
    PROVE  IInv'
<1> DEFINE a == ws[w][t].req.data.address
           found == IF Valid(a) /\ calcContracts[a].deployer = ws[w][t].req.from
                    THEN calcContracts[a].task ELSE none
           r == [ws[w][t] EXCEPT !.state = "PREPARING", !.handler = factoryId[w],
                                 !.validated = found]
           h == Of("worker", w, t)
<1>1. /\ ws[w][t].state = "ASKING" /\ NewHandler(w, h, "CPROC_META", h)
      /\ ws' = WsWith(w, t, r)
      /\ UNCHANGED <<entries, recvChan, sends, casts, arrivals, inbox, chainvars,
                     mstate, setup, address, peers, counted, answerChan, submits>>
    BY DEF SessionStart, WsWith
<1>2. ws[w][t] \in Session /\ factoryId[w] \in Ids
    BY DEF IInv, TypeOK, NetTypeOK, Workers
<1>3. ws[w][t].req \in NetMsg /\ a # 0 /\ address[t] = a
    <2>1. /\ ws[w][t].req \in NetMsg /\ Right(ws[w][t].req)
          /\ ws[w][t].req.listener = "CPROC_WAIT" /\ ws[w][t].req.data.task = t
        BY <1>1 DEF IInv, SessionsRight
    <2> QED  BY <2>1 DEF Right
<1>4. a \in Addresses
    <2>1. a \in 0 .. MaxAddress
        BY <1>3, PartsAssumption DEF NetMsg, MsgData
    <2> QED  BY <1>3, <2>1, AddressAssumption DEF Addresses
<1>5. found = none \/ (found \in Tasks /\ SameAddress(t, found))
    BY <1>3, <1>4 DEF IInv, ContractsRight, SameAddress, Valid
<1> HIDE DEF found
<1>6. /\ r \in Session /\ r.state # "NONE" /\ r.handler = factoryId[w]
      /\ r.req = ws[w][t].req /\ r.taskID = ws[w][t].taskID
      /\ r.validated = found
    BY <1>2, <1>5 DEF Session, WorkerStates
<1>7. h \in Handlers /\ h \in Channels /\ "CPROC_META" \in Listeners /\ Hears(h, "CPROC_META")
    BY PartsAssumption DEF HandlerObjects, ListenerChannels, Hears
<1> HIDE DEF r, h
<1>8. MoveOf(w, t, r)
    BY <1>1, <1>6, <1>5 DEF MoveOf, IInv, SessionsRight
<1> QED  BY <1>1, <1>6, <1>7, <1>8, HandlerGiven

\* The session that buys the files gets one, maybe in place of another.
LEMMA PurchaseStartStep ==
    ASSUME IInv, NEW w \in Workers, NEW t \in Tasks, PurchaseStart(w, t)
    PROVE  IInv'
<1> DEFINE r == [ws[w][t] EXCEPT !.state = "RUNNING"]
           h == Of("purchase", w, t)
<1>1. /\ ws[w][t].state = "BUYING" /\ NewHandler(w, h, "TPROC_RECEIVER", h)
      /\ UNCHANGED <<entries, recvChan, sends, casts, arrivals, inbox, chainvars,
                     mstate, setup, address, peers, counted, answerChan, submits>>
    BY DEF PurchaseStart
<1>a. ws' = WsWith(w, t, r)
    <2>1. ws' = [ws EXCEPT ![w][t].state = "RUNNING"]
        BY DEF PurchaseStart
    <2>2. ws \in [Workers -> [Tasks -> Session]]
        BY DEF IInv, TypeOK
    <2> QED  BY <2>1, <2>2 DEF WsWith
<1>2. ws[w][t] \in Session
    BY DEF IInv, TypeOK
<1>3. /\ r \in Session /\ r.state # "NONE" /\ r.handler = ws[w][t].handler
      /\ r.req = ws[w][t].req /\ r.taskID = ws[w][t].taskID
      /\ r.validated = ws[w][t].validated
    BY <1>2 DEF Session, WorkerStates
<1>4. h \in Handlers /\ h \in Channels /\ "TPROC_RECEIVER" \in Listeners /\ Hears(h, "TPROC_RECEIVER")
    BY PartsAssumption DEF HandlerObjects, ListenerChannels, Hears
<1> HIDE DEF r, h
<1>5. MoveOf(w, t, r)
    BY <1>1, <1>3, GoesOn
<1> QED  BY <1>1, <1>a, <1>3, <1>4, <1>5, HandlerGiven

\* Steps of a session that give it no handler.
LEMMA SessionMoves ==
    ASSUME IInv, NEW w \in Workers, NEW t \in Tasks, NEW r, MoveOf(w, t, r),
           ws' = WsWith(w, t, r), ws[w][t].taskID = none \/ r.taskID # none,
           ws[w][t].state \notin {"NONE", "ASKING"}, r.handler = ws[w][t].handler,
           UNCHANGED <<recvChan, casts, arrivals, listeners, handlerMap,
                       chainvars, mstate, setup, address, peers, counted, answerChan>>,
           NetTypeOK', submits' \subseteq [call : Answer, at : Addresses, told : SUBSET Nodes],
           Grow => SendsOld, inbox' \subseteq inbox,
           \A s \in sends' : handlerMap[s.to][s.msg.dstHandler] # none,
           \A s \in submits' : s \in submits \/ address[s.call.code] = s.at
    PROVE  IInv'
<1>1. /\ ws' \in [Workers -> [Tasks -> Session]]
      /\ \A v \in Workers, u \in Tasks : ws'[v][u] = IF v = w /\ u = t THEN r ELSE ws[v][u]
      /\ Grow /\ SessionsRight'
    <2>1. \A n \in Nodes, i \in Ids : handlerMap[n][i] # none => handlerMap'[n][i] # none
        OBVIOUS
    <2> QED  BY <2>1, Moved
<1>2. TypeOK'
    <2>1. ChainTypeOK'
        BY DEF IInv, TypeOK, ChainTypeOK, chainvars
    <2> QED  BY <1>1, <2>1 DEF IInv, TypeOK
<1>3. MessagesRight' /\ CastsStatic'
    <2>1. InboxOld
        BY DEF InboxOld
    <2> QED  BY <1>1, <1>2, <2>1, OldStays, MessagesStay DEF IInv, CastsStatic
<1>4. HandlersStay'
    BY <1>1, <1>2, HandlersKept DEF IInv
<1>5. HandlersKnown'
    BY DEF IInv, HandlersKnown
<1>6. CallsRight'
    BY DEF IInv, CallsRight, SameAddress
<1>7. ListenersRight'
    BY DEF IInv, ListenersRight
<1> QED  BY <1>1, <1>2, <1>3, <1>4, <1>5, <1>6, <1>7, WorkerKeeps DEF IInv

\* The loop of the file system takes the purchase and the factory counts.
LEMMA PurchaseRequestStep ==
    ASSUME IInv, NEW w \in Workers, NEW t \in Tasks, PurchaseRequest(w, t)
    PROVE  IInv'
<1> DEFINE r == [ws[w][t] EXCEPT !.state = "BUYING"]
<1>1. /\ ws[w][t].state = "FETCHING" /\ NextId(w)
      /\ UNCHANGED <<entries, recvChan, handlerMap, listeners, sends, casts, arrivals, inbox,
                     chainvars, mstate, setup, address, peers, counted, answerChan, submits>>
    BY DEF PurchaseRequest
<1>2. ws' = WsWith(w, t, r)
    <2>1. ws' = [ws EXCEPT ![w][t].state = "BUYING"]
        BY DEF PurchaseRequest
    <2>2. ws \in [Workers -> [Tasks -> Session]]
        BY DEF IInv, TypeOK
    <2> QED  BY <2>1, <2>2 DEF WsWith
<1>3. ws[w][t] \in Session
    BY DEF IInv, TypeOK
<1>4. /\ r \in Session /\ r.state # "NONE" /\ r.handler = ws[w][t].handler
      /\ r.req = ws[w][t].req /\ r.taskID = ws[w][t].taskID
      /\ r.validated = ws[w][t].validated
    BY <1>3 DEF Session, WorkerStates
<1> HIDE DEF r
<1>5. MoveOf(w, t, r)
    BY <1>1, <1>4, GoesOn
<1>6. NetTypeOK'
    <2>1. factoryId' \in [Nodes -> Ids]
        BY <1>1, NextIdIs DEF IInv, TypeOK, Workers
    <2> QED  BY <1>1, <2>1 DEF IInv, TypeOK, NetTypeOK
<1>7. /\ submits' \subseteq [call : Answer, at : Addresses, told : SUBSET Nodes]
      /\ SendsOld /\ \A s \in sends' : handlerMap[s.to][s.msg.dstHandler] # none
    BY <1>1, OldStays DEF IInv, TypeOK, HandlersKnown
<1> QED  BY <1>1, <1>2, <1>4, <1>5, <1>6, <1>7, SessionMoves

\* The meta data of the session's task, or something else it ignores.
LEMMA MetaStep ==
    ASSUME IInv, NEW w \in Workers, NEW t \in Tasks, NEW m \in inbox, Meta(w, t, m)
    PROVE  IInv'
<1> DEFINE r == IF ws[w][t].state = "STARTED" /\ m.msg.data.task = ws[w][t].taskID
                THEN [ws[w][t] EXCEPT !.state = "FETCHING"] ELSE ws[w][t]
<1>1. /\ ws[w][t].state \notin {"NONE", "ASKING"} /\ inbox' = inbox \ {m}
      /\ UNCHANGED <<entries, recvChan, handlerMap, listeners, factoryId, sends, casts, arrivals,
                     chainvars, mstate, setup, address, peers, counted, answerChan, submits>>
    BY DEF Meta, Take
<1>2. ws' = WsWith(w, t, r)
    <2>1. ws' = IF ws[w][t].state = "STARTED" /\ m.msg.data.task = ws[w][t].taskID
                THEN [ws EXCEPT ![w][t].state = "FETCHING"] ELSE ws
        BY DEF Meta
    <2>2. ws \in [Workers -> [Tasks -> Session]]
        BY DEF IInv, TypeOK
    <2> QED  BY <2>1, <2>2 DEF WsWith
<1>3. ws[w][t] \in Session
    BY DEF IInv, TypeOK
<1>4. /\ r \in Session /\ r.state # "NONE" /\ r.handler = ws[w][t].handler
      /\ r.req = ws[w][t].req /\ r.taskID = ws[w][t].taskID
      /\ r.validated = ws[w][t].validated
    BY <1>1, <1>3 DEF Session, WorkerStates
<1> HIDE DEF r
<1>5. MoveOf(w, t, r)
    BY <1>1, <1>4, GoesOn
<1>6. NetTypeOK'
    BY <1>1 DEF IInv, TypeOK, NetTypeOK
<1>7. /\ submits' \subseteq [call : Answer, at : Addresses, told : SUBSET Nodes]
      /\ SendsOld /\ \A s \in sends' : handlerMap[s.to][s.msg.dstHandler] # none
    BY <1>1, OldStays DEF IInv, TypeOK, HandlersKnown
<1> QED  BY <1>1, <1>2, <1>4, <1>5, <1>6, <1>7, SessionMoves

\* The code that was executed is that of the request, and so is the contract.
LEMMA SubmitStep ==
    ASSUME IInv, NEW w \in Workers, NEW t \in Tasks, Submit(w, t)
    PROVE  IInv'
<1> DEFINE r == [ws[w][t] EXCEPT !.state = "DONE"]
           a == ws[w][t].req.data.address
           s == [call |-> [worker |-> w, code |-> t], at |-> a, told |-> {}]
<1>1. /\ ws[w][t].state = "RUNNING" /\ submits' = submits \cup {s}
      /\ UNCHANGED <<netvars, chainvars, mstate, setup, address, peers, counted, answerChan>>
    BY DEF Submit
<1>2. ws' = WsWith(w, t, r)
    <2>1. ws' = [ws EXCEPT ![w][t].state = "DONE"]
        BY DEF Submit
    <2>2. ws \in [Workers -> [Tasks -> Session]]
        BY DEF IInv, TypeOK
    <2> QED  BY <2>1, <2>2 DEF WsWith
<1>3. ws[w][t] \in Session
    BY DEF IInv, TypeOK
<1>4. /\ r \in Session /\ r.state # "NONE" /\ r.handler = ws[w][t].handler
      /\ r.req = ws[w][t].req /\ r.taskID = ws[w][t].taskID
      /\ r.validated = ws[w][t].validated
    BY <1>3 DEF Session, WorkerStates
<1>5. address[t] = a /\ a \in Addresses
    <2>1. ws[w][t].req \in NetMsg /\ a # 0 /\ address[t] = a
        BY <1>1 DEF IInv, SessionsRight, Right
    <2>2. a \in 0 .. MaxAddress
        BY <2>1, PartsAssumption DEF NetMsg, MsgData
    <2> QED  BY <2>1, <2>2, AddressAssumption DEF Addresses
<1>6. /\ s.call.code = t /\ s.at = a
      /\ s \in [call : Answer, at : Addresses, told : SUBSET Nodes]
    BY <1>5 DEF Answer
<1> HIDE DEF r, s
<1>7. MoveOf(w, t, r)
    BY <1>1, <1>4, GoesOn
<1>8. NetTypeOK'
    BY <1>1 DEF IInv, TypeOK, NetTypeOK, netvars
<1>9. /\ submits' \subseteq [call : Answer, at : Addresses, told : SUBSET Nodes]
      /\ \A x \in submits' : x \in submits \/ address[x.call.code] = x.at
    BY <1>1, <1>5, <1>6 DEF IInv, TypeOK
<1>10. SendsOld /\ \A x \in sends' : handlerMap[x.to][x.msg.dstHandler] # none
    BY <1>1, OldStays DEF IInv, HandlersKnown, netvars
<1> HIDE DEF a
<1> QED  BY <1>1, <1>2, <1>4, <1>7, <1>8, <1>9, <1>10, SessionMoves DEF netvars

\* What Validate found is the task of the contract at the address of its own.
LEMMA ValidateResultStep ==
    ASSUME IInv, NEW w \in Workers, NEW t \in Tasks, ValidateResult(w, t)
    PROVE  IInv'
<1> DEFINE req == ws[w][t].req
           u == ws[w][t].validated
           r == [ws[w][t] EXCEPT !.state = "STARTED", !.taskID = u]
           msg == [from |-> w, srcHandler |-> ws[w][t].handler, dstHandler |-> req.srcHandler,
                   listener |-> "CPROC_RES", data |-> Data(u, 0)]
           s == [to |-> req.from, msg |-> msg]
<1>1. /\ ws[w][t].state = "PREPARING" /\ u # none
      /\ ws' = WsWith(w, t, r) /\ sends' = sends \cup {s}
      /\ UNCHANGED <<entries, recvChan, handlerMap, listeners, factoryId, casts, arrivals, inbox,
                     chainvars, mstate, setup, address, peers, counted, answerChan, submits>>
    BY DEF ValidateResult, SendTo, WsWith
<1>2. req \in NetMsg /\ Right(req) /\ req.listener = "CPROC_WAIT" /\ req.data.task = t
    BY <1>1 DEF IInv, SessionsRight
<1>3. ws[w][t] \in Session
    BY DEF IInv, TypeOK
<1>4. u \in Tasks /\ SameAddress(t, u)
    BY <1>1, <1>3 DEF IInv, SessionsRight, Session
<1> HIDE DEF u
<1>5. /\ r \in Session /\ r.state # "NONE" /\ r.handler = ws[w][t].handler
      /\ r.req = req /\ r.taskID = u /\ r.taskID # none /\ r.validated = ws[w][t].validated
    BY <1>4, <1>3, PartsAssumption DEF Session, WorkerStates
<1>6. MoveOf(w, t, r)
    BY <1>2, <1>4, <1>5 DEF MoveOf, IInv, SessionsRight
<1>7. /\ msg \in NetMsg /\ msg.from = w /\ msg.srcHandler = ws[w][t].handler
      /\ msg.listener = "CPROC_RES" /\ msg.data.task = u /\ msg.dstHandler = req.srcHandler
    <2>1. req.srcHandler \in Ids /\ req.from \in Nodes
        BY <1>2 DEF NetMsg
    <2>2. Data(u, 0) \in Payloads /\ Data(u, 0).task = u
        BY <1>4, PartsAssumption, AddressAssumption DEF Data, MsgData
    <2>3. "CPROC_RES" \in Listeners /\ w \in Nodes /\ ws[w][t].handler \in Ids
        BY <1>3, PartsAssumption DEF Workers, Session
    <2> HIDE DEF req
    <2> QED  BY <2>1, <2>2, <2>3 DEF NetMsg
<1>8. s.to = req.from /\ s.msg = msg /\ s \in [to : Nodes, msg : NetMsg]
    BY <1>2, <1>7 DEF NetMsg
<1>9. handlerMap[req.from][req.srcHandler] # none
    BY <1>2 DEF Right
<1> HIDE DEF r, msg, s, req
<1>10. /\ \A v \in Workers, k \in Tasks : ws'[v][k] = IF v = w /\ k = t THEN r ELSE ws[v][k]
       /\ Meant(w, t)'
    <2>1. \A n \in Nodes, i \in Ids : handlerMap[n][i] # none => handlerMap'[n][i] # none
        BY <1>1
    <2> QED  BY <1>1, <1>5, <1>6, <2>1, Moved
<1>11. SendsOld
    <2>1. PICK x \in NetMsg : x = msg
        BY <1>7
    <2>2. PICK v \in Tasks : v = u
        BY <1>4
    <2>3. Meant(w, v)'
        <3>1. CASE v = t
            BY <1>10, <3>1
        <3>2. CASE v # t
            <4>1. SharedAddress(v)'
                BY <1>1, <1>4, <2>2, <3>2 DEF SharedAddress, SameAddress
            <4> QED  BY <4>1 DEF Meant
        <3> QED  BY <3>1, <3>2
    <2>4. handlerMap[w][ws[w][t].handler] # none
        BY <1>1 DEF IInv, HandlersStay
    <2>5. Right(x)'
        BY <1>1, <1>7, <2>1, <2>2, <2>3, <2>4 DEF Right
    <2> QED  BY <1>1, <1>8, <2>1, <2>5 DEF SendsOld
<1>12. NetTypeOK'
    BY <1>1, <1>8 DEF IInv, TypeOK, NetTypeOK
<1>13. /\ submits' \subseteq [call : Answer, at : Addresses, told : SUBSET Nodes]
       /\ \A x \in sends' : handlerMap[x.to][x.msg.dstHandler] # none
    BY <1>1, <1>7, <1>8, <1>9 DEF IInv, TypeOK, HandlersKnown
<1> QED  BY <1>1, <1>5, <1>6, <1>11, <1>12, <1>13, SessionMoves

\* The chain tells the sessions that listen at the address of the call.
LEMMA SubmitNotifyStep ==
    ASSUME IInv, NEW s \in submits, NEW n \in Nodes, SubmitNotify(s, n)
    PROVE  IInv'
<1> DEFINE sink == calcContracts[s.at].submit[n]
           d == [s EXCEPT !.told = @ \cup {n}]
<1>1. /\ n \in Callers /\ sink # nobody
      /\ submits' = (submits \ {s}) \cup {d}
      /\ answerChan' = [answerChan EXCEPT ![sink.task] = @ \cup {s.call}]
      /\ UNCHANGED <<netvars, chainvars, mstate, setup, address, peers, counted, ws>>
    BY DEF SubmitNotify, SubmitListeners
<1>2. /\ s.call \in Answer /\ s.at \in Addresses /\ s.at # 0 /\ address[s.call.code] = s.at
      /\ s.call.code \in Tasks
    BY DEF IInv, TypeOK, Addresses, CallsRight, Answer
<1>3. calcContracts[s.at] # nobody
    BY <1>2 DEF IInv, Deployed
<1>4. PICK t \in Tasks : sink = Of("master", Master, t) /\ address[t] = s.at
    BY <1>1, <1>2, <1>3 DEF IInv, ContractsRight
<1>5. sink.task = t
    BY <1>4 DEF Of
<1>6. d.call = s.call /\ d.at = s.at /\ d \in [call : Answer, at : Addresses, told : SUBSET Nodes]
    BY DEF IInv, TypeOK
<1> HIDE DEF sink, d
<1>7. /\ answerChan' \in [Tasks -> SUBSET Answer]
      /\ \A v \in Tasks : answerChan'[v] = IF v = t THEN answerChan[v] \cup {s.call} ELSE answerChan[v]
    BY <1>1, <1>2, <1>5 DEF IInv, TypeOK
<1>8. TypeOK'
    <2>1. NetTypeOK'
        BY <1>1 DEF IInv, TypeOK, NetTypeOK, netvars
    <2>2. ChainTypeOK'
        BY <1>1 DEF IInv, TypeOK, ChainTypeOK, chainvars
    <2> QED  BY <1>1, <1>6, <1>7, <2>1, <2>2 DEF IInv, TypeOK
<1>9. Grow
    BY <1>1, StillGrows DEF netvars
<1>10. MessagesRight' /\ CastsStatic' /\ HandlersStay' /\ HandlersKnown' /\ SessionsRight'
    BY <1>1, <1>8, <1>9, OldStays, QuietIs DEF netvars
<1>11. Counting' /\ Deployed' /\ ContractsRight'
    BY <1>1, ChainStays DEF IInv
<1>12. CallsRight'
    <2>1. SameAddress(t, s.call.code)
        BY <1>2, <1>4 DEF SameAddress
    <2> QED  BY <1>1, <1>2, <1>6, <1>7, <2>1 DEF IInv, CallsRight, SameAddress
<1>13. ListenersRight' /\ PeersRight'
    BY <1>1, <1>9, PeersStay DEF IInv, ListenersRight, netvars
<1> QED  BY <1>8, <1>10, <1>11, <1>12, <1>13 DEF IInv

-----------------------------------------------------------------------------
(* The theorems *)

\* The system as it is set up.
LEMMA InitIs ==
    ASSUME Init
    PROVE  IInv
<1>1. PICK z \in Setups :
        /\ setup = z
        /\ handlerMap = [n \in Nodes |-> [i \in Ids |->
               IF i = StaticHandlerID THEN Static(n)
               ELSE IF n = Master /\ \E t \in Tasks : z.ids[t] = i
                    THEN Of("master", n, CHOOSE t \in Tasks : z.ids[t] = i) ELSE none]]
        /\ listeners = [h \in Handlers |-> [l \in Listeners |->
               IF l = "CPROC_WAIT" /\ h.kind = "static" /\ h.node \in Volunteers
               THEN Of("worker", h.node, none) ELSE none]]
        /\ entries = z.joined /\ recvChan = [n \in Nodes |-> <<>>]
        /\ factoryId = [n \in Nodes |-> z.last]
    BY DEF Init
<1>2. /\ sends = {} /\ casts = {} /\ arrivals = {} /\ inbox = {} /\ submits = {}
      /\ mstate = [t \in Tasks |-> "UN"] /\ address = [t \in Tasks |-> 0]
      /\ peers = [t \in Tasks |-> [w \in Workers |-> "NONE"]]
      /\ counted = [t \in Tasks |-> {}] /\ answerChan = [t \in Tasks |-> {}]
      /\ ws = [w \in Workers |-> [t \in Tasks |->
               [state |-> "NONE", req |-> none, handler |-> 0, validated |-> none,
                taskID |-> none]]]
      /\ addressNum = 0 /\ calcContracts = [a \in Addresses |-> nobody]
    BY DEF Init, ChainInit
<1>3. setup \in Setup /\ StaticHandlerID \in Ids /\ 0 \in Ids
    BY <1>1, SetupsAssumption, CapAssumption DEF StaticHandlerID, Ids
<1>4. /\ handlerMap \in [Nodes -> [Ids -> Handlers \cup {none}]]
      /\ \A n \in Nodes, i \in Ids : i = StaticHandlerID => handlerMap[n][i] # none
      /\ \A t \in Tasks : handlerMap[Master][setup.ids[t]] # none
    <2>1. \A n \in Nodes : Static(n) \in Handlers
        BY PartsAssumption DEF HandlerObjects
    <2>2. \A t \in Tasks : Of("master", Master, t) \in Handlers
        BY PartsAssumption DEF HandlerObjects
    <2>3. \A i : (\E t \in Tasks : setup.ids[t] = i) =>
              (CHOOSE t \in Tasks : setup.ids[t] = i) \in Tasks
        OBVIOUS
    <2>4. \A n \in Nodes, i \in Ids : handlerMap[n][i] =
              IF i = StaticHandlerID THEN Static(n)
              ELSE IF n = Master /\ \E t \in Tasks : setup.ids[t] = i
                   THEN Of("master", n, CHOOSE t \in Tasks : setup.ids[t] = i) ELSE none
        BY <1>1
    <2>5. none \notin Handlers
        BY NoneAssumption
    <2>6. \A n \in Nodes, i \in Ids : handlerMap[n][i] \in Handlers \cup {none}
        BY <2>1, <2>2, <2>3, <2>4
    <2>7. \A n \in Nodes, i \in Ids : i = StaticHandlerID => handlerMap[n][i] # none
        BY <2>1, <2>4, <2>5
    <2>8. ASSUME NEW t \in Tasks
          PROVE  handlerMap[Master][setup.ids[t]] # none
        <3>1. setup.ids[t] \in Ids /\ Master \in Nodes
            BY <1>3, NodesAssumption DEF Setup
        <3> QED  BY <2>1, <2>2, <2>3, <2>4, <2>5, <3>1
    <2>9. handlerMap \in [Nodes -> [Ids -> Handlers \cup {none}]]
        BY <1>1, <2>4, <2>6
    <2> QED  BY <2>7, <2>8, <2>9
<1>5. /\ listeners \in [Handlers -> [Listeners -> Channels \cup {none}]]
      /\ \A h \in Handlers, l \in Listeners :
             listeners[h][l] # none => Hears(listeners[h][l], l)
    <2>1. \A h \in Handlers, l \in Listeners : listeners[h][l] =
               IF l = "CPROC_WAIT" /\ h.kind = "static" /\ h.node \in Volunteers
               THEN Of("worker", h.node, none) ELSE none
        BY <1>1
    <2>2. \A n \in Volunteers : /\ Of("worker", n, none) \in Channels
                                /\ Hears(Of("worker", n, none), "CPROC_WAIT")
        BY PartsAssumption, NodesAssumption DEF ListenerChannels, Hears
    <2>3. \A h \in Handlers, l \in Listeners :
              listeners[h][l] = none \/ (listeners[h][l] \in Channels /\ Hears(listeners[h][l], l))
        BY <2>1, <2>2
    <2>4. listeners = [h \in Handlers |-> [l \in Listeners |-> listeners[h][l]]]
        BY <1>1
    <2> QED  BY <2>3, <2>4
<1>6. NetTypeOK
    <2>1. recvChan \in [Nodes -> Seq(NetMsg)] /\ \A n \in Nodes : Len(recvChan[n]) <= RecvCap
        BY <1>1, CapAssumption
    <2>2. entries \subseteq Nodes /\ factoryId \in [Nodes -> Ids]
        BY <1>1, <1>3 DEF Setup
    <2> QED  BY <1>2, <1>4, <1>5, <2>1, <2>2 DEF NetTypeOK
<1>7. TypeOK
    <2>1. ChainTypeOK
        BY <1>2, AddressAssumption DEF ChainTypeOK
    <2>2. ws \in [Workers -> [Tasks -> Session]]
        BY <1>2, <1>3 DEF Session, WorkerStates
    <2>3. address \in [Tasks -> 0 .. MaxAddress]
        BY <1>2, AddressAssumption
    <2> QED  BY <1>2, <1>3, <1>6, <2>1, <2>2, <2>3 DEF TypeOK
<1>8. MessagesRight /\ CastsStatic /\ HandlersKnown
    BY <1>1, <1>2 DEF MessagesRight, CastsStatic, HandlersKnown
<1>9. ListenersRight /\ HandlersStay
    BY <1>2, <1>3, <1>4, <1>5 DEF ListenersRight, HandlersStay
<1>10. Counting
    <2>1. Begun = {}
        BY <1>2 DEF Begun
    <2> QED  BY <1>2, <2>1, FS_EmptySet DEF Counting
<1>11. Deployed /\ ContractsRight /\ SessionsRight /\ CallsRight /\ PeersRight
    BY <1>2 DEF Deployed, ContractsRight, SessionsRight, CallsRight, PeersRight
<1> QED  BY <1>7, <1>8, <1>9, <1>10, <1>11 DEF IInv

\* Every step of the network, the sessions and the chain.
LEMMA InvStep ==
    ASSUME IInv, [Next]_vars
    PROVE  IInv'
<1>1. CASE Carry /\ UNCHANGED <<chainvars, tvars>>
    BY <1>1, NetStep
<1>2. ASSUME NEW t \in Tasks, MasterSession(t)
      PROVE  IInv'
    BY <1>2, StartStep, StartDeployedStep, DeployResultStep, PeerResStep, PeerAnswerStep,
       TerminateResultStep DEF MasterSession
<1>3. ASSUME NEW w \in Workers, WorkerNode(w)
      PROVE  IInv'
    BY <1>3, TaskRequestStep, SessionStartStep, ValidateResultStep, MetaStep,
       PurchaseRequestStep, PurchaseStartStep, SubmitStep DEF WorkerNode
<1>4. CASE Notify
    BY <1>4, SubmitNotifyStep DEF Notify
<1>5. ASSUME NEW n \in Nodes, Leave(n), UNCHANGED <<chainvars, tvars>>
      PROVE  IInv'
    BY <1>5, NetStep
<1>6. CASE UNCHANGED vars
    <2>1. NetTypeOK' /\ CastsStatic' /\ HandlersKnown' /\ \A m \in inbox' : Hears(m.to, m.msg.listener)
        BY <1>6 DEF vars, netvars, IInv, TypeOK, NetTypeOK, CastsStatic, HandlersKnown, ListenersRight
    <2>2. SendsOld /\ CastsOld /\ ArrivalsOld /\ InboxOld /\ QueuedOld
        BY <1>6, OldStays DEF vars, netvars
    <2>3. UNCHANGED <<chainvars, tvars, handlerMap, listeners, factoryId>>
        BY <1>6 DEF vars, netvars
    <2> QED  BY <2>1, <2>2, <2>3, CarriedIs
<1>7. setup.leaving \subseteq Nodes
    BY DEF IInv, TypeOK, Setup
<1> QED  BY <1>1, <1>2, <1>3, <1>4, <1>5, <1>6, <1>7 DEF Next, Progress

\* The inductive invariant holds throughout.
LEMMA Invariance == Spec => []IInv
<1>1. Init => IInv
    BY InitIs
<1>2. IInv /\ [Next]_vars => IInv'
    BY InvStep
<1> QED  BY <1>1, <1>2, PTL DEF Spec

\* Sessions, messages, contracts and receive channels keep their shape: the
\* counter of the chain (chain/calc_contract.go) gives no address it has not.
THEOREM TypeCorrect == Spec => []TypeOK
<1>1. IInv => TypeOK
    BY DEF IInv
<1> QED  BY <1>1, Invariance, PTL

\* The loop of an emulator (net/net.go:176) finds a handler under the id of
\* every message, however ids wrap and whoever has left.
THEOREM KnownCorrect == Spec => []HandlersKnown
<1>1. IInv => HandlersKnown
    BY DEF IInv
<1> QED  BY <1>1, Invariance, PTL

\* What a session counts (master/session.go) was computed for its task, and the
\* workers it took up mean it, unless another contract has the same address.
THEOREM ForTaskCorrect == Spec => []AnswersForTask
<1>1. IInv => AnswersForTask
    <2> SUFFICES ASSUME IInv, NEW t \in Tasks, ~SharedAddress(t)
                 PROVE  /\ \A w \in Workers : peers[t][w] # "NONE" => ws[w][t].taskID = t
                        /\ \A a \in counted[t] : a.code = t
        BY DEF AnswersForTask
    <2>1. \A w \in Workers : peers[t][w] # "NONE" => ws[w][t].taskID = t
        BY DEF IInv, PeersRight, Meant
    <2>2. \A a \in counted[t] : a.code \in Tasks /\ SameAddress(t, a.code)
        BY DEF IInv, TypeOK, Answer, CallsRight
    <2>3. \A a \in counted[t] : a.code = t
        BY <2>2 DEF SameAddress, SharedAddress
    <2> QED  BY <2>1, <2>3
<1> QED  BY <1>1, Invariance, PTL
=============================================================================

------------------------------ MODULE TwoTasks ------------------------------
(***************************************************************************)
(* Several sub tasks of one master node at a time, with the network they   *)
(* share (AppliNet) and the chain they share (CalcContract): whose message *)
(* reaches whom when sessions use one static handler, when ids of handlers *)
(* and addresses of contracts are given twice, when a node leaves.         *)
(*                                                                         *)
(* CalcTask has a session's inner life.  Here purchases and executions go  *)
(* well, and an answer is the code it was computed with, so that honest    *)
(* workers agree exactly when they computed the same task.                 *)
(***************************************************************************)
EXTENDS AppliNet, CalcContract

CONSTANTS
    Master,          \* the node of the master sessions
    Tasks,           \* their tasks
    Volunteers,      \* nodes that run a Worker
    Setups,          \* how the system may be set up, see Init
    MinAnswerCnt

Workers == Nodes \ {Master}

ASSUME NodesAssumption == Master \in Nodes /\ Volunteers \subseteq Workers

\* The handler objects and the channels: those of a node (the static handler,
\* the Worker's taskRequestChan), of a master session (its handler, if it has
\* one of its own, its peerResChan), of a worker session (metaChan) and of
\* the tracker session its purchase starts.
Of(kind, n, t) == [kind |-> kind, node |-> n, task |-> t]
Static(n) == Of("static", n, none)
HandlerObjects == {Static(n) : n \in Nodes} \cup {Of("master", Master, t) : t \in Tasks}
       \cup {Of(k, w, t) : k \in {"worker", "purchase"}, w \in Workers, t \in Tasks}
ListenerChannels == {Of("worker", w, none) : w \in Workers} \cup {Of("master", Master, t) : t \in Tasks}
       \cup {Of(k, w, t) : k \in {"worker", "purchase"}, w \in Workers, t \in Tasks}

\* MasterReqMsg: the contract's address and the code; WorkerResMsg and
\* TaskMetaInfo: the task.  Node ids in them are those of the messages.
MsgData == [task : Tasks, address : 0 .. MaxAddress]
Data(t, a) == [task |-> t, address |-> a]

\* The network and the chain serve these sessions: what they are made of.
ASSUME PartsAssumption ==
    /\ Handlers = HandlerObjects /\ Channels = ListenerChannels /\ Payloads = MsgData
    /\ {"CPROC_WAIT", "CPROC_RES", "CPROC_META", "TPROC_RECEIVER"} \subseteq Listeners
    /\ Master \in Callers /\ Tasks \subseteq TaskIDs /\ ListenerChannels \subseteq Sinks
    /\ none \notin Tasks /\ nobody \notin Contract \cup Sinks

\* MaxAddress bounds nothing: there is an address for every task.
ASSUME AddressAssumption ==
    /\ IsFiniteSet(Tasks) /\ MaxAddress \in Nat /\ Cardinality(Tasks) <= MaxAddress

VARIABLES
    mstate,          \* SubTaskSession.state; "COUNTED" in the middle of Deploy
    setup,           \* how the system was set up
    address,         \* contractHandler.address of each
    peers,           \* peers[t][w].State
    counted,         \* the answers counted: [worker, code]
    answerChan,      \* calls in peerAnswerChan
    ws,              \* worker sessions: ws[w][t] for the request of task t
    submits          \* goroutines of Submit

tvars == <<mstate, setup, address, peers, counted, answerChan, ws, submits>>
vars  == <<netvars, chainvars, tvars>>

\* A setup: the ids of the handlers the master sessions were given (0 is the
\* static one), the id every factory gave last, the nodes that have made
\* their emulators, and those of them that may leave.
Setup == [ids : [Tasks -> Ids], last : Ids, joined : SUBSET Nodes, leaving : SUBSET Nodes]

ASSUME SetupsAssumption == Setups \subseteq Setup

WorkerStates == {"NONE", "ASKING", "PREPARING", "STARTED", "FETCHING", "BUYING",
                 "RUNNING", "DONE"}
Session == [state : WorkerStates, req : NetMsg \cup {none}, handler : Ids,
            validated : Tasks \cup {none}, taskID : Tasks \cup {none}]
Answer == [worker : Workers, code : Tasks]

TypeOK ==
    /\ NetTypeOK /\ ChainTypeOK
    /\ mstate \in [Tasks -> {"UN", "COUNTED", "DEPLOYING", "RUNNING", "TERMINATING", "TERMINATED"}]
    /\ setup \in Setup
    /\ address \in [Tasks -> 0 .. MaxAddress]
    /\ peers \in [Tasks -> [Workers -> {"NONE", "RUNNING", "SUBMITTED"}]]
    /\ counted \in [Tasks -> SUBSET Answer]
    /\ answerChan \in [Tasks -> SUBSET Answer]
    /\ ws \in [Workers -> [Tasks -> Session]]
    /\ submits \subseteq [call : Answer, at : Addresses, told : SUBSET Nodes]

\* The emulators, static handlers and Workers have been started, the master
\* sessions made.
Init ==
    \E s \in Setups :
        /\ setup = s
        /\ handlerMap = [n \in Nodes |-> [i \in Ids |->
               IF i = StaticHandlerID THEN Static(n)
               ELSE IF n = Master /\ \E t \in Tasks : s.ids[t] = i
                    THEN Of("master", n, CHOOSE t \in Tasks : s.ids[t] = i) ELSE none]]
        /\ listeners = [h \in Handlers |-> [l \in Listeners |->
               IF l = "CPROC_WAIT" /\ h.kind = "static" /\ h.node \in Volunteers
               THEN Of("worker", h.node, none) ELSE none]]
        /\ entries = s.joined /\ recvChan = [n \in Nodes |-> <<>>]
        /\ factoryId = [n \in Nodes |-> s.last]
        /\ sends = {} /\ casts = {} /\ arrivals = {} /\ inbox = {}
        /\ ChainInit
        /\ mstate = [t \in Tasks |-> "UN"]
        /\ address = [t \in Tasks |-> 0]
        /\ peers = [t \in Tasks |-> [w \in Workers |-> "NONE"]]
        /\ counted = [t \in Tasks |-> {}] /\ answerChan = [t \in Tasks |-> {}]
        /\ ws = [w \in Workers |-> [t \in Tasks |->
               [state |-> "NONE", req |-> none, handler |-> 0, validated |-> none,
                taskID |-> none]]]
        /\ submits = {}

-----------------------------------------------------------------------------
(* The master sessions *)

HandlerObject(t) == handlerMap[Master][setup.ids[t]]

\* Start: the first half of Deploy ...
Start(t) ==
    /\ mstate[t] = "UN"
    /\ TakeAddress
    /\ mstate' = [mstate EXCEPT ![t] = "COUNTED"]
    /\ UNCHANGED <<netvars, setup, address, peers, counted, answerChan, ws, submits>>

\* ... and the rest, with the listener for the workers' answers.
StartDeployed(t) ==
    /\ mstate[t] = "COUNTED"
    /\ Deploy(Master, t)
    /\ address' = [address EXCEPT ![t] = addressNum]
    /\ AddListener(HandlerObject(t), "CPROC_RES", Of("master", Master, t))
    /\ mstate' = [mstate EXCEPT ![t] = "DEPLOYING"]
    /\ UNCHANGED <<entries, recvChan, handlerMap, factoryId, sends, casts, arrivals, inbox,
                   setup, peers, counted, answerChan, ws, submits>>

\* The result of Deploy: listen to the contract, publish the task.
DeployResult(t) ==
    /\ mstate[t] = "DEPLOYING"
    /\ ListenSubmit(address[t], Master, Of("master", Master, t))
    /\ mstate' = [mstate EXCEPT ![t] = "RUNNING"]
    /\ Broadcast(Master, setup.ids[t], "CPROC_WAIT", Data(t, address[t]))
    /\ UNCHANGED <<entries, recvChan, handlerMap, listeners, factoryId, sends, arrivals, inbox,
                   setup, address, peers, counted, answerChan, ws, submits>>

\* The loop of the session runs.
Live(t) == mstate[t] \in {"DEPLOYING", "RUNNING", "TERMINATING"}

Take(m) == inbox' = inbox \ {m}

\* Mutant: the task is not compared.
PeerResAnyTask(t, m) ==
    /\ Live(t) /\ m \in inbox /\ m.to = Of("master", Master, t)
    /\ Take(m)
    /\ IF peers[t][m.msg.from] = "NONE"
       THEN /\ peers' = [peers EXCEPT ![t][m.msg.from] = "RUNNING"]
            /\ SendTo(Master, setup.ids[t], m.msg.from, m.msg.srcHandler, "CPROC_META", Data(t, 0))
       ELSE UNCHANGED <<peers, sends>>
    /\ UNCHANGED <<entries, recvChan, handlerMap, listeners, factoryId, casts, arrivals,
                   chainvars, mstate, setup, address, counted, answerChan, ws, submits>>

\* A worker answers: if it means this task, and is new, it gets the meta data.
PeerRes(t, m) ==
    /\ Live(t) /\ m \in inbox /\ m.to = Of("master", Master, t)
    /\ Take(m)
    /\ IF m.msg.data.task = t /\ peers[t][m.msg.from] = "NONE"
       THEN /\ peers' = [peers EXCEPT ![t][m.msg.from] = "RUNNING"]
            /\ SendTo(Master, setup.ids[t], m.msg.from, m.msg.srcHandler, "CPROC_META", Data(t, 0))
       ELSE UNCHANGED <<peers, sends>>
    /\ UNCHANGED <<entries, recvChan, handlerMap, listeners, factoryId, casts, arrivals,
                   chainvars, mstate, setup, address, counted, answerChan, ws, submits>>

Votes(answers, c) == Cardinality({a \in answers : a.code = c})
CanTerminate(answers) ==
    /\ Cardinality(answers) >= MinAnswerCnt
    /\ \E c \in Tasks : 2 * Votes(answers, c) > Cardinality(answers)

PeerAnswer(t, a) ==
    /\ Live(t) /\ a \in answerChan[t]
    /\ answerChan' = [answerChan EXCEPT ![t] = @ \ {a}]
    /\ IF peers[t][a.worker] = "RUNNING"
       THEN /\ peers' = [peers EXCEPT ![t][a.worker] = "SUBMITTED"]
            /\ counted' = [counted EXCEPT ![t] = @ \cup {a}]
            /\ mstate' = IF CanTerminate(counted'[t])
                         THEN [mstate EXCEPT ![t] = "TERMINATING"] ELSE mstate
       ELSE UNCHANGED <<peers, counted, mstate>>
    /\ UNCHANGED <<netvars, chainvars, setup, address, ws, submits>>

TerminateResult(t) ==
    /\ mstate[t] = "TERMINATING"
    /\ mstate' = [mstate EXCEPT ![t] = "TERMINATED"]
    /\ UNCHANGED <<netvars, chainvars, setup, address, peers, counted, answerChan, ws, submits>>

-----------------------------------------------------------------------------
(* The workers *)

\* The Worker takes a request and asks the node's factory for a handler ...
TaskRequest(w, m) ==
    LET t == m.msg.data.task IN
    /\ m \in inbox /\ m.to = Of("worker", w, none)
    /\ \A u \in Tasks : ws[w][u].state # "ASKING"
    /\ Take(m)
    /\ NextId(w)
    /\ ws' = [ws EXCEPT ![w][t] = [@ EXCEPT !.state = "ASKING", !.req = m.msg]]
    /\ UNCHANGED <<entries, recvChan, handlerMap, listeners, sends, casts, arrivals, chainvars,
                   mstate, setup, address, peers, counted, answerChan, submits>>

\* ... gets it, and starts a session, which has the contract validated: that
\* looks the contract up at once, and its answer waits on validateChan.
SessionStart(w, t) ==
    LET req == ws[w][t].req
        contract == calcContracts[req.data.address]
        found == IF Valid(req.data.address) /\ contract.deployer = req.from
                 THEN contract.task ELSE none IN
    /\ ws[w][t].state = "ASKING"
    /\ NewHandler(w, Of("worker", w, t), "CPROC_META", Of("worker", w, t))
    /\ ws' = [ws EXCEPT ![w][t] = [@ EXCEPT !.state = "PREPARING", !.handler = factoryId[w],
                                          !.validated = found]]
    /\ UNCHANGED <<entries, recvChan, sends, casts, arrivals, inbox, chainvars,
                   mstate, setup, address, peers, counted, answerChan, submits>>

\* If the contract is one of the master's, it says which task it is for; the
\* worker tells the master.
ValidateResult(w, t) ==
    LET req == ws[w][t].req
        task == ws[w][t].validated IN
    /\ ws[w][t].state = "PREPARING" /\ task # none
    /\ ws' = [ws EXCEPT ![w][t] = [@ EXCEPT !.state = "STARTED", !.taskID = task]]
    /\ SendTo(w, ws[w][t].handler, req.from, req.srcHandler, "CPROC_RES", Data(task, 0))
    /\ UNCHANGED <<entries, recvChan, handlerMap, listeners, factoryId, casts, arrivals, inbox,
                   chainvars, mstate, setup, address, peers, counted, answerChan, submits>>

\* The meta data of its task.
Meta(w, t, m) ==
    /\ ws[w][t].state \notin {"NONE", "ASKING"}
    /\ m \in inbox /\ m.to = Of("worker", w, t)
    /\ Take(m)
    /\ ws' = IF ws[w][t].state = "STARTED" /\ m.msg.data.task = ws[w][t].taskID
             THEN [ws EXCEPT ![w][t].state = "FETCHING"] ELSE ws
    /\ UNCHANGED <<entries, recvChan, handlerMap, listeners, factoryId, sends, casts, arrivals,
                   chainvars, mstate, setup, address, peers, counted, answerChan, submits>>

\* The loop of the file system takes the purchase and asks the factory for a
\* handler, maybe while the Worker does ...
PurchaseRequest(w, t) ==
    /\ ws[w][t].state = "FETCHING"
    /\ \A u \in Tasks : ws[w][u].state # "BUYING"
    /\ NextId(w)
    /\ ws' = [ws EXCEPT ![w][t].state = "BUYING"]
    /\ UNCHANGED <<entries, recvChan, handlerMap, listeners, sends, casts, arrivals, inbox,
                   chainvars, mstate, setup, address, peers, counted, answerChan, submits>>

\* ... and gets it for the session that buys the files.
PurchaseStart(w, t) ==
    /\ ws[w][t].state = "BUYING"
    /\ NewHandler(w, Of("purchase", w, t), "TPROC_RECEIVER", Of("purchase", w, t))
    /\ ws' = [ws EXCEPT ![w][t].state = "RUNNING"]
    /\ UNCHANGED <<entries, recvChan, sends, casts, arrivals, inbox, chainvars,
                   mstate, setup, address, peers, counted, answerChan, submits>>

\* The files are there, the code of the request has been executed with them.
Submit(w, t) ==
    /\ ws[w][t].state = "RUNNING"
    /\ ws' = [ws EXCEPT ![w][t].state = "DONE"]
    /\ submits' = submits \cup {[call |-> [worker |-> w, code |-> t],
                                 at |-> ws[w][t].req.data.address, told |-> {}]}
    /\ UNCHANGED <<netvars, chainvars, mstate, setup, address, peers, counted, answerChan>>

\* The goroutine of a Submit sends to the contract's listeners.
SubmitNotify(s, n) ==
    LET sink == calcContracts[s.at].submit[n] IN
    /\ n \in SubmitListeners(s.at) \ s.told
    /\ submits' = (submits \ {s}) \cup {[s EXCEPT !.told = @ \cup {n}]}
    /\ answerChan' = [answerChan EXCEPT ![sink.task] = @ \cup {s.call}]
    /\ UNCHANGED <<netvars, chainvars, mstate, setup, address, peers, counted, ws>>

-----------------------------------------------------------------------------
MasterSession(t) ==
    \/ Start(t)
    \/ StartDeployed(t)
    \/ DeployResult(t)
    \/ \E m \in inbox : PeerRes(t, m)
    \/ \E a \in answerChan[t] : PeerAnswer(t, a)
    \/ TerminateResult(t)

WorkerNode(w) ==
    \/ \E m \in inbox : TaskRequest(w, m)
    \/ \E t \in Tasks :
        \/ SessionStart(w, t)
        \/ ValidateResult(w, t)
        \/ \E m \in inbox : Meta(w, t, m)
        \/ PurchaseRequest(w, t)
        \/ PurchaseStart(w, t)
        \/ Submit(w, t)

Notify == \E s \in submits, n \in Nodes : SubmitNotify(s, n)

Progress ==
    \/ Carry /\ UNCHANGED <<chainvars, tvars>>
    \/ \E t \in Tasks : MasterSession(t)
    \/ \E w \in Workers : WorkerNode(w)
    \/ Notify

Next == Progress \/ \E n \in setup.leaving : Leave(n) /\ UNCHANGED <<chainvars, tvars>>

Spec == Init /\ [][Next]_vars

-----------------------------------------------------------------------------
(* Properties *)

SharedAddress(t) == \E u \in Tasks \ {t} : address[t] # 0 /\ address[u] = address[t]

\* Whoever else listens on its handler, however ids of handlers are given, a
\* session takes up only workers that mean its task, and counts only what they
\* computed for it; unless its contract shares an address with another one.
AnswersForTask ==
    \A t \in Tasks : ~SharedAddress(t) =>
        /\ \A w \in Workers : peers[t][w] # "NONE" => ws[w][t].taskID = t
        /\ \A a \in counted[t] : a.code = t

\* The handler id of the session is one of no other handler of its node.
KeepsHandler(w, t) ==
    ws[w][t].state \in {"NONE", "ASKING"} \/ handlerMap[w][ws[w][t].handler] = Of("worker", w, t)

\* A worker that can be of use: its static handler has the Worker's listener,
\* its emulator runs, its sessions keep their handlers.
Serves(w, t) ==
    /\ w \in Volunteers \cap entries
    /\ handlerMap[w][StaticHandlerID] = Static(w)
    /\ KeepsHandler(w, t)

\* What may keep a task that runs from its end.
Spoiled(t) ==
    \/ SharedAddress(t)
    \/ \E u \in Tasks \ {t} : setup.ids[u] = setup.ids[t]
    \/ Master \notin entries
    \/ \E n \in setup.joined \ entries : ~HasRoom(n)
    \/ Cardinality({w \in Workers : Serves(w, t)}) < MinAnswerCnt

\* A task with a handler and an address of its own ends, when enough workers
\* stay and no receive channel of a node that left is full, in which a
\* Broadcast may be stuck.  Every step passes a message or a session's state
\* on, for good, so the system comes to rest, and only there: when it does,
\* every such task has its answers.
RestIsDone ==
    ~ENABLED Progress => \A t \in Tasks : mstate[t] = "TERMINATED" \/ Spoiled(t)
=============================================================================

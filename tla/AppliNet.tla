------------------------------ MODULE AppliNet ------------------------------
(***************************************************************************)
(* Messages between the listeners of different nodes: the handlers of a    *)
(* node (net/application.go) on top of the network emulator (net/net.go).  *)
(* A message passes a goroutine of the sender, the receive channel of the  *)
(* destination, the loop of the destination's emulator, a goroutine of the *)
(* handler it names and, if there is one, the channel of a listener.       *)
(***************************************************************************)
EXTENDS Integers, Sequences, FiniteSets

CONSTANTS
    Nodes,
    Handlers,        \* the handler objects, of all nodes
    Listeners,       \* listener ids
    Channels,        \* the channels that listen
    Payloads,        \* contents of messages
    none,            \* no handler, no channel, no node
    RecvCap,         \* capacity of recvChan, 10 in the code
    HandlerSpace     \* handler ids are uint16: 2^16 in the code

ASSUME CapAssumption  == RecvCap \in Nat \ {0} /\ HandlerSpace \in Nat \ {0}
ASSUME NoneAssumption == none \notin Handlers \cup Channels \cup Nodes

VARIABLES
    entries,         \* nodes with an entry in EmuChanMap, whose loop runs
    recvChan,        \* recvChan[n]
    handlerMap,      \* handlerMap[n][id]: the handler object of that id
    listeners,       \* listeners[h][l]: the channel that listens
    factoryId,       \* the id the factory of a node has given last
    sends,           \* goroutines of SendTo
    casts,           \* goroutines of Broadcast
    arrivals,        \* goroutines of OnMsgArrive
    inbox            \* what is in a listener's channel, or waits to be

netvars == <<entries, recvChan, handlerMap, listeners, factoryId, sends,
             casts, arrivals, inbox>>

Ids == 0 .. HandlerSpace - 1
StaticHandlerID == 0

NetMsg == [from : Nodes, srcHandler : Ids, dstHandler : Ids,
           listener : Listeners, data : Payloads]

NetTypeOK ==
    /\ entries \subseteq Nodes
    /\ recvChan \in [Nodes -> Seq(NetMsg)] /\ \A n \in Nodes : Len(recvChan[n]) <= RecvCap
    /\ handlerMap \in [Nodes -> [Ids -> Handlers \cup {none}]]
    /\ listeners \in [Handlers -> [Listeners -> Channels \cup {none}]]
    /\ factoryId \in [Nodes -> Ids]
    /\ sends \subseteq [to : Nodes, msg : NetMsg]
    /\ casts \subseteq [msg : NetMsg, left : SUBSET Nodes, at : Nodes \cup {none}]
    /\ arrivals \subseteq [handler : Handlers, msg : NetMsg]
    /\ inbox \subseteq [to : Channels, msg : NetMsg]

-----------------------------------------------------------------------------
(* What sessions call *)

\* SendTo: a goroutine that waits 200 ms and sends.
SendTo(n, src, peer, dst, listener, data) ==
    sends' = sends \cup {[to |-> peer,
        msg |-> [from |-> n, srcHandler |-> src, dstHandler |-> dst,
                 listener |-> listener, data |-> data]]}

\* Broadcast: to the static handlers of all nodes.
Broadcast(n, src, listener, data) ==
    casts' = casts \cup {[left |-> Nodes \ {n}, at |-> none,
        msg |-> [from |-> n, srcHandler |-> src, dstHandler |-> StaticHandlerID,
                 listener |-> listener, data |-> data]]}

\* GetHandler: the factory counts ...
NextId(n) == factoryId' = [factoryId EXCEPT ![n] = (@ + 1) % HandlerSpace]

\* Mutant: the new handler is not added to the emulator.
NewHandlerUnknown(n, h, listener, channel) ==
    /\ listeners' = [listeners EXCEPT ![h][listener] = channel]
    /\ UNCHANGED <<handlerMap, factoryId>>

\* ... and gives what its counter is by now to the new handler, which the
\* emulator puts in the place of one that has the id already.  Whoever asked
\* for the handler adds its listener to it at once.
NewHandler(n, h, listener, channel) ==
    /\ handlerMap' = [handlerMap EXCEPT ![n][factoryId[n]] = h]
    /\ listeners' = [listeners EXCEPT ![h][listener] = channel]
    /\ UNCHANGED factoryId

AddListener(h, listener, channel) ==
    listeners' = [listeners EXCEPT ![h][listener] = channel]

-----------------------------------------------------------------------------
(* The goroutines in between *)

HasRoom(n) == Len(recvChan[n]) < RecvCap

\* Mutant: the send does not wait for room in the channel.
PutUnbounded(s) ==
    /\ s.to \in entries
    /\ sends' = sends \ {s}
    /\ recvChan' = [recvChan EXCEPT ![s.to] = Append(@, s.msg)]
    /\ UNCHANGED <<entries, handlerMap, listeners, factoryId, casts, arrivals, inbox>>

\* The channel is looked up when the time has come; sending to the nil of a
\* node without an entry blocks for good.
Put(s) ==
    /\ s.to \in entries /\ HasRoom(s.to)
    /\ sends' = sends \ {s}
    /\ recvChan' = [recvChan EXCEPT ![s.to] = Append(@, s.msg)]
    /\ UNCHANGED <<entries, handlerMap, listeners, factoryId, casts, arrivals, inbox>>

\* Mutant: the range ends after its first turn.
CastPickOnce(c, n) ==
    /\ c.at = none /\ n \in c.left \cap entries
    /\ casts' = (casts \ {c}) \cup {[c EXCEPT !.at = n, !.left = {}]}
    /\ UNCHANGED <<entries, recvChan, handlerMap, listeners, factoryId, sends, arrivals, inbox>>

\* One turn of Broadcast's range: it takes an entry that is still there ...
CastPick(c, n) ==
    /\ c.at = none /\ n \in c.left \cap entries
    /\ casts' = (casts \ {c}) \cup {[c EXCEPT !.at = n, !.left = @ \ {n}]}
    /\ UNCHANGED <<entries, recvChan, handlerMap, listeners, factoryId, sends, arrivals, inbox>>

\* ... and sends to the channel it took, also when the entry has gone.
CastPut(c) ==
    /\ c.at # none /\ HasRoom(c.at)
    /\ casts' = (casts \ {c}) \cup {[c EXCEPT !.at = none]}
    /\ recvChan' = [recvChan EXCEPT ![c.at] = Append(@, c.msg)]
    /\ UNCHANGED <<entries, handlerMap, listeners, factoryId, sends, arrivals, inbox>>

\* The emulator's loop calls OnMsgArrive of the handler, whose goroutine
\* goes on with that object whatever becomes of its id.
Dispatch(n) ==
    LET msg == Head(recvChan[n])
        h   == handlerMap[n][msg.dstHandler] IN
    /\ n \in entries /\ recvChan[n] # <<>>
    /\ h # none
    /\ recvChan' = [recvChan EXCEPT ![n] = Tail(@)]
    /\ arrivals' = arrivals \cup {[handler |-> h, msg |-> msg]}
    /\ UNCHANGED <<entries, handlerMap, listeners, factoryId, sends, casts, inbox>>

\* The goroutine looks the listener up; a message for one that is not there
\* is lost, as its goroutine waits on nil.
Deliver(a) ==
    LET channel == listeners[a.handler][a.msg.listener] IN
    /\ arrivals' = arrivals \ {a}
    /\ inbox' = IF channel = none THEN inbox
                ELSE inbox \cup {[to |-> channel, msg |-> a.msg]}
    /\ UNCHANGED <<entries, recvChan, handlerMap, listeners, factoryId, sends, casts>>

\* Stop: the loop ends and deletes the entry of the node.
Leave(n) ==
    /\ n \in entries
    /\ entries' = entries \ {n}
    /\ UNCHANGED <<recvChan, handlerMap, listeners, factoryId, sends, casts, arrivals, inbox>>

Carry ==
    \/ \E s \in sends : Put(s)
    \/ \E c \in casts : CastPut(c) \/ \E n \in Nodes : CastPick(c, n)
    \/ \E n \in Nodes : Dispatch(n)
    \/ \E a \in arrivals : Deliver(a)

-----------------------------------------------------------------------------
(* Properties *)

\* The emulator's loop calls a method of what it finds under the id of a
\* message (net/net.go:176): with nothing there the process panics.  Every
\* message on its way names a handler that is there when it arrives.
HandlersKnown ==
    /\ \A s \in sends : handlerMap[s.to][s.msg.dstHandler] # none
    /\ \A n \in Nodes : \A i \in 1 .. Len(recvChan[n]) :
          handlerMap[n][recvChan[n][i].dstHandler] # none
=============================================================================

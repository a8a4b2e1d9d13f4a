------------------------------ MODULE FileShare ------------------------------
(***************************************************************************)
(* The files of one node, from its user's Share to the peer that sells     *)
(* them: the loop of the node's file system starts a ShareSession          *)
(* (fs/share.go) for every request; it offers the files, every peer that   *)
(* takes an offer is sent them, and a peer whose pack the network reports  *)
(* as sent is FINISHED.  The file system (fs/fs.go) remembers these peers  *)
(* as holders and tells a buyer, whose tracker it is, to buy from them.    *)
(***************************************************************************)
EXTENDS Integers, Sequences, FiniteSets, SequencesExt

CONSTANTS
    Peers,
    Requests,        \* calls of Share
    Setups           \* what is asked for, and what is there: see IsSetup

Locals == {"right", "other", "none"}

\* The calls of Share with FileShareInfo.Peers of each, what the peers hold
\* under the keys beforehand, whether there is a buyer.
IsSetup(s) ==
    /\ DOMAIN s.plan \subseteq Requests
    /\ \A r \in DOMAIN s.plan : s.plan[r] \in Seq(Peers)
    /\ s.local \in [Peers -> Locals]
    /\ s.buys \in BOOLEAN

ASSUME SetsAssumption == IsFiniteSet(Peers) /\ IsFiniteSet(Requests)
ASSUME SetupsAssumption == \A s \in Setups : IsSetup(s)

VARIABLES
    plan,            \* the requests and their peers
    sessionId,       \* NaiveFS.sessionId
    userChans,       \* userShareResultChans[id]: whose channel, "none"
    id,              \* the session id of each request, 0 before
    running,         \* the loop of a ShareSession has not returned
    sendTimer,       \* "running", "fired" (its channel is full), "stopped"
    peerState,       \* peerState[r][p]: SHARE_ST, SHARE_SENDING, SHARE_FINISHED
    sendingCnt,
    msgs,            \* messages and send results in flight
    recvState,       \* the ShareRecvSession each offer starts
    local,           \* what each peer's file system holds under the keys
    filesFrom,       \* peers that recorded the node in PeerInfo.FilesFrom
    filesTo,         \* peers the node has a PeerInfo with FilesTo for
    listed,          \* FileInfo.Peers of the files, the tracker's answer
    posted,          \* results terminate() posted: "all", "timeout"
    handled,         \* those the file system took from shareResultChan ...
    forwarded,       \* ... whose goroutines took them up ...
    delivered,       \* ... and what reached the channel of a user: [of, why]
    buyer,           \* "idle", "choosing", "waiting", "done"
    toTry, seller,   \* peers the buyer knows, the one it has asked
    crashed          \* peers whose process has panicked

session  == <<running, sendTimer, peerState, sendingCnt>>
receiver == <<recvState, local, filesFrom>>
loop     == <<plan, sessionId, id>>
results  == <<posted, handled, forwarded, delivered, userChans>>
records  == <<filesTo, listed>>
trade    == <<buyer, toTry, seller, crashed>>
vars == <<loop, session, msgs, receiver, results, records, trade>>

Whys == {"all", "timeout"}

\* The i-th offer of a request.
Offers == UNION {{<<r, i>> : i \in 1 .. Len(plan[r])} : r \in DOMAIN plan}
PeerOf(o) == plan[o[1]][o[2]]

\* An offer, its acceptance, the pack in the network, the pack at the peer,
\* and the report that a pack was sent.
Msg(t, o) == [type |-> t, offer |-> o]
Message == [type : {"offer", "accept", "pack", "data", "sent"}, offer : Offers]

TypeOK ==
    /\ \E s \in Setups : plan = s.plan
    /\ sessionId \in 0 .. Cardinality(Requests)
    /\ userChans \in [1 .. Cardinality(Requests) -> Requests \cup {"none"}]
    /\ id \in [Requests -> 0 .. sessionId]
    /\ running \subseteq Requests
    /\ sendTimer \in [Requests -> {"running", "fired", "stopped"}]
    /\ peerState \in [Requests -> [Peers -> {"ST", "SENDING", "FINISHED"}]]
    /\ sendingCnt \in [Requests -> Nat]
    /\ msgs \subseteq Message
    /\ recvState \in [Offers -> {"none", "waiting", "ok", "timeout", "over"}]
    /\ local \in [Peers -> Locals]
    /\ filesFrom \subseteq Peers /\ filesTo \subseteq Peers /\ listed \subseteq Peers
    /\ posted \in [Requests -> SUBSET Whys] /\ handled \in [Requests -> SUBSET Whys]
    /\ forwarded \in [Requests -> SUBSET Whys]
    /\ \A r \in Requests : forwarded[r] \subseteq handled[r] /\ handled[r] \subseteq posted[r]
    /\ delivered \in [Requests -> SUBSET [of : Requests, why : Whys]]
    /\ buyer \in {"idle", "choosing", "waiting", "done"}
    /\ toTry \subseteq Peers /\ seller \in Peers \cup {"none"} /\ crashed \subseteq Peers

Init ==
    /\ \E s \in Setups :
        /\ plan = s.plan /\ local = s.local
        /\ buyer = IF s.buys THEN "idle" ELSE "done"
    /\ sessionId = 0 /\ id = [r \in Requests |-> 0]
    /\ userChans = [i \in 1 .. Cardinality(Requests) |-> "none"]
    /\ running = {} /\ sendTimer = [r \in Requests |-> "stopped"]
    /\ peerState = [r \in Requests |-> [p \in Peers |-> "ST"]]
    /\ sendingCnt = [r \in Requests |-> 0]
    /\ msgs = {} /\ recvState = [o \in Offers |-> "none"]
    /\ filesFrom = {} /\ filesTo = {} /\ listed = {}
    /\ posted = [r \in Requests |-> {}] /\ handled = [r \in Requests |-> {}]
    /\ forwarded = [r \in Requests |-> {}] /\ delivered = [r \in Requests |-> {}]
    /\ toTry = {} /\ seller = "none" /\ crashed = {}

-----------------------------------------------------------------------------
(* The file system starts a session, the session *)

\* Mutant: the sessions have the same id.
ShareSameId(r) ==
    /\ r \in DOMAIN plan /\ id[r] = 0
    /\ sessionId' = 1
    /\ id' = [id EXCEPT ![r] = 1]
    /\ userChans' = [userChans EXCEPT ![1] = r]
    /\ running' = running \cup {r}
    /\ sendTimer' = [sendTimer EXCEPT ![r] = "running"]
    /\ sendingCnt' = [sendingCnt EXCEPT ![r] = Len(plan[r])]
    /\ msgs' = msgs \cup {Msg("offer", <<r, i>>) : i \in 1 .. Len(plan[r])}
    /\ UNCHANGED <<plan, peerState, receiver, posted, handled, forwarded, delivered, records, trade>>

\* A request gets an id and an entry for its user; its session offers the
\* files to every entry of Peers and sets its timer.
Share(r) ==
    /\ r \in DOMAIN plan /\ id[r] = 0
    /\ sessionId' = sessionId + 1
    /\ id' = [id EXCEPT ![r] = sessionId + 1]
    /\ userChans' = [userChans EXCEPT ![sessionId + 1] = r]
    /\ running' = running \cup {r}
    /\ sendTimer' = [sendTimer EXCEPT ![r] = "running"]
    /\ sendingCnt' = [sendingCnt EXCEPT ![r] = Len(plan[r])]
    /\ msgs' = msgs \cup {Msg("offer", <<r, i>>) : i \in 1 .. Len(plan[r])}
    /\ UNCHANGED <<plan, peerState, receiver, posted, handled, forwarded, delivered, records, trade>>

\* Mutant: a peer is counted when its pack is handed to the network too.
AcceptCounts(o) ==
    LET r == o[1] accept == Msg("accept", o) IN
    /\ r \in running /\ accept \in msgs
    /\ peerState' = [peerState EXCEPT ![r][PeerOf(o)] = "SENDING"]
    /\ sendingCnt' = [sendingCnt EXCEPT ![r] = @ - 1]
    /\ msgs' = (msgs \ {accept}) \cup {Msg("pack", o)}
    /\ UNCHANGED <<loop, running, sendTimer, receiver, results, records, trade>>

\* The files are read again and sent with ReliableSendTo to the session that
\* accepts; of a peer that was offered them twice the first.
Accept(o) ==
    LET r == o[1] accept == Msg("accept", o) IN
    /\ r \in running /\ accept \in msgs
    /\ IF peerState[r][PeerOf(o)] = "ST"
       THEN /\ peerState' = [peerState EXCEPT ![r][PeerOf(o)] = "SENDING"]
            /\ msgs' = (msgs \ {accept}) \cup {Msg("pack", o)}
       ELSE peerState' = peerState /\ msgs' = msgs \ {accept}
    /\ UNCHANGED <<loop, running, sendTimer, sendingCnt, receiver, results, records, trade>>

\* terminate(): a timer that fired already keeps its event.
Terminate(r, why) ==
    /\ sendTimer' = [sendTimer EXCEPT ![r] = IF @ = "running" THEN "stopped" ELSE @]
    /\ posted' = [posted EXCEPT ![r] = @ \cup {why}]

\* After the last pack the session posts its result, but its loop goes on.
SendResult(o) ==
    LET r == o[1] sent == Msg("sent", o) IN
    /\ r \in running /\ sent \in msgs
    /\ msgs' = msgs \ {sent}
    /\ IF peerState[r][PeerOf(o)] = "SENDING"
       THEN /\ peerState' = [peerState EXCEPT ![r][PeerOf(o)] = "FINISHED"]
            /\ sendingCnt' = [sendingCnt EXCEPT ![r] = @ - 1]
            /\ IF sendingCnt'[r] = 0 THEN Terminate(r, "all") ELSE UNCHANGED <<sendTimer, posted>>
       ELSE UNCHANGED <<peerState, sendingCnt, sendTimer, posted>>
    /\ UNCHANGED <<loop, running, receiver, handled, forwarded, delivered, userChans, records, trade>>

SendTimer(r) ==
    /\ r \in running /\ sendTimer[r] = "fired"
    /\ sendTimer' = [sendTimer EXCEPT ![r] = "stopped"]
    /\ posted' = [posted EXCEPT ![r] = @ \cup {"timeout"}]
    /\ running' = running \ {r}
    /\ UNCHANGED <<loop, peerState, sendingCnt, msgs, receiver, handled,
                   forwarded, delivered, userChans, records, trade>>

TimerFires(r) ==
    /\ sendTimer[r] = "running" /\ sendTimer' = [sendTimer EXCEPT ![r] = "fired"]
    /\ UNCHANGED <<loop, running, peerState, sendingCnt, msgs, receiver, results, records, trade>>

-----------------------------------------------------------------------------
(* A peer and the network between *)

Up(o) == PeerOf(o) \notin crashed

\* The peer's file system starts a ShareRecvSession for the offer.
ShareRequest(o) ==
    LET offer == Msg("offer", o) IN
    /\ Up(o) /\ offer \in msgs
    /\ recvState' = [recvState EXCEPT ![o] = "waiting"]
    /\ msgs' = (msgs \ {offer}) \cup {Msg("accept", o)}
    /\ UNCHANGED <<loop, session, local, filesFrom, results, records, trade>>

\* The emulator puts the pack into the peer's channel; from then on it may
\* report, whatever becomes of the pack.
PackArrives(o) ==
    LET pack == Msg("pack", o) IN
    /\ pack \in msgs
    /\ msgs' = (msgs \ {pack}) \cup {Msg("data", o), Msg("sent", o)}
    /\ UNCHANGED <<loop, session, receiver, results, records, trade>>

\* The files have the hash of the offer; SetWithInfo stores them unless
\* there are files under these keys already.  A late pack finds nobody.
DataPack(o) ==
    LET data == Msg("data", o) IN
    /\ Up(o) /\ data \in msgs
    /\ msgs' = msgs \ {data}
    /\ IF recvState[o] = "waiting"
       THEN /\ recvState' = [recvState EXCEPT ![o] = "ok"]
            /\ local' = [local EXCEPT ![PeerOf(o)] = IF @ = "none" THEN "right" ELSE @]
       ELSE UNCHANGED <<recvState, local>>
    /\ UNCHANGED <<loop, session, filesFrom, results, records, trade>>

RecvTimeout(o) ==
    /\ Up(o) /\ recvState[o] = "waiting"
    /\ recvState' = [recvState EXCEPT ![o] = "timeout"]
    /\ UNCHANGED <<loop, session, msgs, local, filesFrom, results, records, trade>>

\* The peer's file system records a good result.
ShareRecvResult(o) ==
    /\ Up(o) /\ recvState[o] = "ok"
    /\ recvState' = [recvState EXCEPT ![o] = "over"]
    /\ filesFrom' = filesFrom \cup {PeerOf(o)}
    /\ UNCHANGED <<loop, session, msgs, local, results, records, trade>>

-----------------------------------------------------------------------------
(* The file system of the node takes the results *)

\* Mutant: the wrong state is looked for.
ShareResultSending(r, why) ==
    LET holders == {p \in Peers : peerState[r][p] = "SENDING"} IN
    /\ why \in posted[r] \ handled[r]
    /\ handled' = [handled EXCEPT ![r] = @ \cup {why}]
    /\ listed' = listed \cup holders
    /\ filesTo' = filesTo \cup holders
    /\ UNCHANGED <<loop, session, msgs, receiver, posted, forwarded, delivered, userChans, trade>>

\* Mutant: only a success is recorded.
ShareResultOnlyAll(r, why) ==
    LET holders == {p \in Peers : why = "all" /\ peerState[r][p] = "FINISHED"} IN
    /\ why \in posted[r] \ handled[r]
    /\ handled' = [handled EXCEPT ![r] = @ \cup {why}]
    /\ listed' = listed \cup holders
    /\ filesTo' = filesTo \cup holders
    /\ UNCHANGED <<loop, session, msgs, receiver, posted, forwarded, delivered, userChans, trade>>

\* Every FINISHED peer is recorded as a holder of the files, as the result's
\* map, which is the session's own, says by now.
ShareResult(r, why) ==
    LET holders == {p \in Peers : peerState[r][p] = "FINISHED"} IN
    /\ why \in posted[r] \ handled[r]
    /\ handled' = [handled EXCEPT ![r] = @ \cup {why}]
    /\ listed' = listed \cup holders
    /\ filesTo' = filesTo \cup holders
    /\ UNCHANGED <<loop, session, msgs, receiver, posted, forwarded, delivered, userChans, trade>>

\* A goroutine looks the user's channel up by the session's id and sends; to
\* nil it sends forever.
Forward(r, why) ==
    LET user == userChans[id[r]] IN
    /\ why \in handled[r] \ forwarded[r]
    /\ forwarded' = [forwarded EXCEPT ![r] = @ \cup {why}]
    /\ delivered' = IF user = "none" THEN delivered
                    ELSE [delivered EXCEPT ![user] = @ \cup {[of |-> r, why |-> why]}]
    /\ UNCHANGED <<loop, session, msgs, receiver, posted, handled, userChans, records, trade>>

\* ... and then deletes the entry.
DeleteEntry(r) ==
    /\ id[r] # 0 /\ userChans[id[r]] # "none"
    /\ \E u \in Requests, why \in Whys : [of |-> r, why |-> why] \in delivered[u]
    /\ userChans' = [userChans EXCEPT ![id[r]] = "none"]
    /\ UNCHANGED <<loop, session, msgs, receiver, posted, handled, forwarded, delivered, records, trade>>

-----------------------------------------------------------------------------
(* A buyer whose tracker is the node, and the peers as sellers *)

\* The request of the buyer: the file system answers with the holders it has
\* recorded by now.
TrackerRequest ==
    /\ buyer = "idle"
    /\ buyer' = "choosing" /\ toTry' = listed
    /\ UNCHANGED <<loop, session, msgs, receiver, results, records, seller, crashed>>

\* One listed peer after another.
Buy(p) ==
    /\ buyer = "choosing" /\ p \in toTry
    /\ buyer' = "waiting" /\ seller' = p /\ toTry' = toTry \ {p}
    /\ UNCHANGED <<loop, session, msgs, receiver, results, records, crashed>>

\* The peer sends what it holds, the buyer looks at its hash.
Sell ==
    /\ buyer = "waiting" /\ seller \notin crashed /\ local[seller] # "none"
    /\ buyer' = IF local[seller] = "right" THEN "done" ELSE "choosing"
    /\ UNCHANGED <<loop, session, msgs, receiver, results, records, toTry, seller, crashed>>

\* Get panics for a key the peer does not hold.
SellPanics ==
    /\ buyer = "waiting" /\ seller \notin crashed /\ local[seller] = "none"
    /\ crashed' = crashed \cup {seller}
    /\ UNCHANGED <<loop, session, msgs, receiver, results, records, buyer, toTry, seller>>

PurchaseTimeout ==
    /\ buyer = "waiting" /\ buyer' = "choosing"
    /\ UNCHANGED <<loop, session, msgs, receiver, results, records, toTry, seller, crashed>>

-----------------------------------------------------------------------------
Run == (\E o \in Offers : Accept(o) \/ SendResult(o)) \/ \E r \in Requests : SendTimer(r)

Receive(o) ==
    \/ ShareRequest(o)
    \/ DataPack(o)
    \/ RecvTimeout(o)
    \/ ShareRecvResult(o)

FileSystem ==
    \E r \in Requests : Share(r) \/ \E why \in Whys : ShareResult(r, why) \/ Forward(r, why)

Trade ==
    \/ TrackerRequest
    \/ \E p \in Peers : Buy(p)
    \/ Sell
    \/ SellPanics
    \/ PurchaseTimeout

Next ==
    \/ Run
    \/ \E r \in Requests : TimerFires(r) \/ DeleteEntry(r)
    \/ FileSystem
    \/ \E o \in Offers : Receive(o) \/ PackArrives(o)
    \/ Trade

Spec == Init /\ [][Next]_vars

\* Loops take the events they have, goroutines send when they can, a timer
\* that is not stopped fires; there are finitely many events.  A peer's
\* process may be slow for good.
Fairness ==
    /\ WF_vars(Run)
    /\ WF_vars(\E r \in Requests : TimerFires(r))
    /\ WF_vars(FileSystem)
    /\ WF_vars(\E o \in Offers : PackArrives(o))

FairSpec == Spec /\ Fairness

-----------------------------------------------------------------------------
(* Properties *)

\* The peer holds files under the keys, or a pack waits at one of its
\* sessions, or one of them gave up before its pack came.
Served(p) ==
    \/ local[p] # "none"
    \/ \E o \in Offers :
        /\ PeerOf(o) = p
        /\ \/ Msg("data", o) \in msgs /\ recvState[o] = "waiting"
           \/ recvState[o] = "timeout"

\* The tracker lists a peer only after its pack was sent, so a seller that
\* panics for want of the files is one whose own timer was faster than the
\* pack, or whom the buyer reached before the pack was read.
ListedWasServed == \A p \in listed \cup crashed : Served(p)

\* A share that says all were served has served each of its peers; a list
\* with a repeated peer never gets that far, as sendingCnt counts its entries.
AllMeansAll ==
    \A r \in Requests : "all" \in posted[r] =>
        /\ \A i \in 1 .. Len(plan[r]) : peerState[r][plan[r][i]] = "FINISHED"
        /\ Cardinality(ToSet(plan[r])) = Len(plan[r])

\* The peer has recorded the files of a request.
Got(r, p) == \E o \in Offers : o[1] = r /\ PeerOf(o) = p /\ recvState[o] = "over"

\* Every peer a request has served becomes a listed holder in the end: once the
\* session knows of it, always, whichever result comes first; a peer that has
\* the files without the session's knowledge only if the loop of the same
\* request ended before the report that the pack was sent.
ServedIsListed ==
    \A r \in Requests, p \in Peers :
        Got(r, p) \/ peerState[r][p] = "FINISHED" ~>
            p \in listed \/ (r \notin running /\ peerState[r][p] # "FINISHED")

\* Whoever asks for a share gets an answer to that request, whatever the
\* peers do and whoever else asks.
UserGetsAnswer == \A r \in Requests : id[r] # 0 ~> \E d \in delivered[r] : d.of = r
=============================================================================

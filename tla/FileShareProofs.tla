---------------------------- MODULE FileShareProofs ----------------------------
(***************************************************************************)
(* Theorems about FileShare, for any peers, requests and setups: lists of  *)
(* peers of any length, with repeated peers or without.                    *)
(***************************************************************************)
EXTENDS FileShare, FiniteSetTheorems, SequenceTheorems, TLAPS

-----------------------------------------------------------------------------
(* The inductive invariant *)

Started == {r \in Requests : id[r] # 0}
Finished(r) == {p \in Peers : peerState[r][p] = "FINISHED"}

\* Ids are given in order, to requests that were made; nothing happens for a
\* request before it has one.
IdsAreGiven ==
    /\ sessionId = Cardinality(Started)
    /\ running \subseteq Started /\ Started \subseteq DOMAIN plan
    /\ \A r \in Requests : posted[r] # {} => r \in Started
    /\ \A o \in Offers : recvState[o] # "none" \/ Msg("offer", o) \in msgs => o[1] \in Started

\* An id belongs to one request, and so does the entry kept under it.
IdsAreOwn ==
    /\ \A r, s \in Started : id[r] = id[s] => r = s
    /\ \A r \in Requests, i \in 1 .. Cardinality(Requests) :
          userChans[i] = r /\ r # "none" => id[r] = i

\* A session sends to peers of its request only, and sendingCnt is the number
\* of entries less the number of peers that are finished.
CountIsRight ==
    \A r \in Requests :
        /\ \A p \in Peers : peerState[r][p] # "ST" =>
              r \in Started /\ \E i \in 1 .. Len(plan[r]) : plan[r][i] = p
        /\ r \in Started => sendingCnt[r] + Cardinality(Finished(r)) = Len(plan[r])

\* An offer is taken up once; what follows it, follows its session at the
\* peer; a session that took its pack left files behind.
OffersOnce ==
    /\ \A o \in Offers : Msg("offer", o) \in msgs => recvState[o] = "none"
    /\ \A o \in Offers, t \in {"accept", "pack", "data", "sent"} :
          Msg(t, o) \in msgs => recvState[o] # "none"
    /\ \A o \in Offers : recvState[o] \in {"ok", "over"} => local[PeerOf(o)] # "none"

\* From the report of the network to the list of the tracker and the peer
\* the buyer has asked: all of them are peers that were served.
ReportedIsServed ==
    /\ \A o \in Offers : Msg("sent", o) \in msgs => Served(PeerOf(o))
    /\ \A r \in Requests, p \in Peers : peerState[r][p] = "FINISHED" => Served(p)
    /\ toTry \subseteq listed
    /\ buyer = "waiting" => seller \in listed

\* What a user is told is about the user's own request.
OwnAnswers == \A r \in Requests : \A d \in delivered[r] : d.of = r

Inv ==
    /\ TypeOK
    /\ IdsAreGiven
    /\ IdsAreOwn
    /\ CountIsRight
    /\ OffersOnce
    /\ ReportedIsServed
    /\ ListedWasServed
    /\ AllMeansAll
    /\ OwnAnswers

-----------------------------------------------------------------------------
(* The requests and their offers *)

\* Messages are the same if their kind and their offer are.
LEMMA MsgEq == ASSUME NEW t, NEW u, NEW o, NEW q
               PROVE  Msg(t, o) = Msg(u, q) <=> t = u /\ o = q
  BY DEF Msg

\* An offer is one of the entries of its request (fs/share.go:111-114).
LEMMA OfferIs ==
  ASSUME TypeOK
  PROVE  /\ DOMAIN plan \subseteq Requests
         /\ \A r \in DOMAIN plan : plan[r] \in Seq(Peers) /\ Len(plan[r]) \in Nat
         /\ \A r \in DOMAIN plan, i \in Nat : i \in 1 .. Len(plan[r]) <=> <<r, i>> \in Offers
         /\ \A o \in Offers : /\ o[1] \in DOMAIN plan /\ o[2] \in 1 .. Len(plan[o[1]])
                              /\ o = <<o[1], o[2]>> /\ PeerOf(o) \in Peers
<1>1. PICK s \in Setups : plan = s.plan
  BY DEF TypeOK
<1>2. IsSetup(s)
  BY SetupsAssumption
<1>3. /\ DOMAIN plan \subseteq Requests
      /\ \A r \in DOMAIN plan : plan[r] \in Seq(Peers) /\ Len(plan[r]) \in Nat
  BY <1>1, <1>2 DEF IsSetup
<1>4. \A o \in Offers : \E r \in DOMAIN plan : \E i \in 1 .. Len(plan[r]) : o = <<r, i>>
  BY DEF Offers
<1>5. \A r \in DOMAIN plan : \A i \in 1 .. Len(plan[r]) : <<r, i>> \in Offers
  BY DEF Offers
<1>6. \A o \in Offers : /\ o[1] \in DOMAIN plan /\ o[2] \in 1 .. Len(plan[o[1]])
                        /\ o = <<o[1], o[2]>>
  BY <1>4
<1>7. \A o \in Offers : PeerOf(o) \in Peers
  BY <1>3, <1>6 DEF PeerOf
<1>8. \A r \in DOMAIN plan, i \in Nat : <<r, i>> \in Offers => i \in 1 .. Len(plan[r])
  <2> TAKE r \in DOMAIN plan, i \in Nat
  <2> DEFINE o == <<r, i>>
  <2>1. o[1] = r /\ o[2] = i
    OBVIOUS
  <2> HIDE DEF o
  <2> QED BY <1>6, <2>1 DEF o
<1> QED BY <1>3, <1>5, <1>6, <1>7, <1>8

\* The list of a request is not changed (fs/share.go:82-97).
LEMMA PlanFixed ==
  ASSUME plan' = plan
  PROVE  /\ Offers' = Offers /\ Message' = Message
         /\ \A o \in Offers : PeerOf(o)' = PeerOf(o)
  BY DEF Offers, PeerOf, Message

-----------------------------------------------------------------------------
(* What a step keeps of the invariant *)

\* Ids and entries change in Share and DeleteEntry only (fs/fs.go:140-160).
LEMMA KeepIds ==
  ASSUME Inv, UNCHANGED <<loop, userChans, delivered>>, running' \subseteq running,
         \A r \in Requests : posted'[r] # {} => posted[r] # {} \/ r \in running,
         \A o \in Offers : /\ recvState'[o] # "none" => recvState[o] # "none" \/ Msg("offer", o) \in msgs
                           /\ Msg("offer", o) \in msgs' => Msg("offer", o) \in msgs
  PROVE  IdsAreGiven' /\ IdsAreOwn' /\ OwnAnswers'
<1>1. Started' = Started /\ Offers' = Offers
  BY PlanFixed DEF Started, loop
<1>2. IdsAreGiven'
  BY <1>1 DEF Inv, IdsAreGiven, loop
<1>3. IdsAreOwn' /\ OwnAnswers'
  BY <1>1 DEF Inv, IdsAreOwn, OwnAnswers, loop
<1> QED BY <1>2, <1>3

\* The session's counter is left alone with the states of its peers.
LEMMA KeepCount ==
  ASSUME Inv, UNCHANGED <<plan, id, peerState, sendingCnt>>
  PROVE  CountIsRight'
  BY DEF Inv, CountIsRight, Started, Finished

\* Messages that are only taken away.
LEMMA KeepOffers ==
  ASSUME Inv, UNCHANGED <<plan, recvState, local>>, msgs' \subseteq msgs
  PROVE  OffersOnce'
<1>1. Offers' = Offers /\ \A o \in Offers : PeerOf(o)' = PeerOf(o)
  BY PlanFixed
<1> QED BY <1>1 DEF Inv, OffersOnce

\* A peer that was served stays so while its files and sessions do, and no
\* pack is read.
LEMMA KeepServed ==
  ASSUME Inv, UNCHANGED <<plan, recvState, local>>, NEW p \in Peers, Served(p),
         \A o \in Offers : Msg("data", o) \in msgs => Msg("data", o) \in msgs'
  PROVE  Served(p)'
<1>1. Offers' = Offers /\ \A o \in Offers : PeerOf(o)' = PeerOf(o)
  BY PlanFixed
<1> QED BY <1>1 DEF Served

\* What was reported, recorded and bought from is left alone.
LEMMA KeepReported ==
  ASSUME Inv, UNCHANGED <<plan, peerState, listed, buyer, toTry, seller, crashed>>,
         \A p \in Peers : Served(p) => Served(p)',
         \A o \in Offers : Msg("sent", o) \in msgs' => Msg("sent", o) \in msgs
  PROVE  ReportedIsServed' /\ ListedWasServed'
<1>1. /\ Offers' = Offers /\ \A o \in Offers : PeerOf(o)' = PeerOf(o)
      /\ \A o \in Offers : PeerOf(o) \in Peers
  BY PlanFixed, OfferIs DEF Inv
<1>2. listed \cup crashed \subseteq Peers
  BY DEF Inv, TypeOK
<1>3. ReportedIsServed'
  BY <1>1 DEF Inv, ReportedIsServed
<1>4. ListedWasServed'
  BY <1>2 DEF Inv, ListedWasServed
<1> QED BY <1>3, <1>4

\* A result that says all were served stays true.
LEMMA KeepAll ==
  ASSUME Inv, UNCHANGED <<plan, peerState>>,
         \A r \in Requests : "all" \in posted'[r] => "all" \in posted[r]
  PROVE  AllMeansAll'
  BY DEF Inv, AllMeansAll

-----------------------------------------------------------------------------
(* What the operations do to the counters and tables *)

\* A list has at most as many peers as entries, and as many only without a
\* repeated peer (fs/share.go:84-87, 90).
LEMMA ListBound ==
  ASSUME NEW q \in Seq(Peers), NEW S \in SUBSET Peers, \A p \in S : \E i \in 1 .. Len(q) : q[i] = p
  PROVE  /\ Cardinality(S) \in Nat /\ Cardinality(S) <= Len(q)
         /\ Cardinality(S) = Len(q) => /\ Cardinality(ToSet(q)) = Len(q)
                                       /\ \A i \in 1 .. Len(q) : q[i] \in S
<1> DEFINE I == 1 .. Len(q)
           T == ToSet(q)
<1>1. Len(q) \in Nat /\ q \in [I -> Peers] /\ DOMAIN q = I
  OBVIOUS
<1>2. IsFiniteSet(I) /\ Cardinality(I) = Len(q)
  BY <1>1, FS_Interval
<1>3. S \subseteq T /\ \A i \in I : q[i] \in T
  BY <1>1 DEF ToSet
<1>4. q \in Surjection(I, T)
  BY <1>1 DEF ToSet, Surjection
<1> HIDE DEF I, T
<1>5. IsFiniteSet(T) /\ Cardinality(T) <= Len(q) /\ Cardinality(T) \in Nat
  BY <1>2, <1>4, FS_Surjection, FS_CardinalityType
<1>6. /\ IsFiniteSet(S) /\ Cardinality(S) \in Nat /\ Cardinality(S) <= Cardinality(T)
      /\ Cardinality(T) = Cardinality(S) => T = S
  BY <1>3, <1>5, FS_Subset, FS_CardinalityType
<1>7. Cardinality(S) = Len(q) => Cardinality(T) = Len(q) /\ T = S
  BY <1>1, <1>5, <1>6
<1> QED BY <1>1, <1>3, <1>5, <1>6, <1>7 DEF T, I

Becomes(r, p, x) == peerState' = [peerState EXCEPT ![r][p] = x]

\* The state of one peer of one session changes (fs/share.go:140, 163).
LEMMA PeerStateIs ==
  ASSUME TypeOK, NEW r \in Requests, NEW p \in Peers, NEW x \in {"ST", "SENDING", "FINISHED"},
         Becomes(r, p, x)
  PROVE  /\ peerState' \in [Requests -> [Peers -> {"ST", "SENDING", "FINISHED"}]]
         /\ \A s \in Requests, q \in Peers :
               peerState'[s][q] = IF s = r /\ q = p THEN x ELSE peerState[s][q]
<1>1. peerState \in [Requests -> [Peers -> {"ST", "SENDING", "FINISHED"}]]
  BY DEF TypeOK
<1> QED BY <1>1 DEF Becomes

\* Some subset of the requests (fs/fs.go:60, 146).
LEMMA RequestCount ==
  ASSUME NEW S \in SUBSET Requests
  PROVE  /\ IsFiniteSet(S) /\ Cardinality(S) \in Nat /\ Cardinality(Requests) \in Nat
         /\ Cardinality(S) <= Cardinality(Requests)
         /\ \A r \in Requests \ S : /\ Cardinality(S \cup {r}) = Cardinality(S) + 1
                                    /\ Cardinality(S) + 1 <= Cardinality(Requests)
<1>1. ASSUME NEW T \in SUBSET Requests
      PROVE  /\ IsFiniteSet(T) /\ Cardinality(T) \in Nat /\ Cardinality(Requests) \in Nat
             /\ Cardinality(T) <= Cardinality(Requests)
  BY SetsAssumption, FS_Subset, FS_CardinalityType
<1>2. \A r \in Requests \ S : Cardinality(S \cup {r}) = Cardinality(S) + 1
  BY <1>1, FS_AddElement
<1>3. \A r \in Requests \ S : S \cup {r} \in SUBSET Requests
  OBVIOUS
<1> QED BY <1>1, <1>2, <1>3

-----------------------------------------------------------------------------
(* The sessions of the node keep the invariant *)

\* At the start nothing has happened (fs/fs.go:80-110).
LEMMA InvInit == Init => Inv
<1> SUFFICES ASSUME Init PROVE Inv
  OBVIOUS
<1>1. Started = {} /\ Cardinality(Started) = 0 /\ 0 \in 0 .. Cardinality(Requests)
  BY FS_EmptySet, RequestCount DEF Init, Started
<1>2. TypeOK
  <2>1. PICK s \in Setups : plan = s.plan /\ local = s.local /\ buyer \in {"idle", "done"}
    BY DEF Init
  <2>2. s.local \in [Peers -> Locals]
    BY SetupsAssumption DEF IsSetup
  <2> QED BY <1>1, <2>1, <2>2 DEF Init, TypeOK
<1>3. IdsAreGiven
  BY <1>1 DEF Init, IdsAreGiven
<1>4. IdsAreOwn /\ OwnAnswers
  BY <1>1 DEF Init, IdsAreOwn, OwnAnswers
<1>5. CountIsRight
  BY <1>1 DEF Init, CountIsRight
<1> QED BY <1>2, <1>3, <1>4, <1>5 DEF Init, Inv, OffersOnce, ReportedIsServed,
                                      ListedWasServed, AllMeansAll

\* A request gets an id of its own and an entry under it; a counter that
\* counts the entries of its list (fs/fs.go:144-152, fs/share.go:100-117).
LEMMA ShareStep ==
  ASSUME Inv, NEW r \in Requests, Share(r)
  PROVE  Inv'
<1> DEFINE i == sessionId + 1
<1>1. /\ TypeOK /\ r \in DOMAIN plan /\ id[r] = 0 /\ sessionId' = i /\ id' = [id EXCEPT ![r] = i]
      /\ userChans' = [userChans EXCEPT ![i] = r] /\ running' = running \cup {r}
      /\ sendTimer' = [sendTimer EXCEPT ![r] = "running"]
      /\ sendingCnt' = [sendingCnt EXCEPT ![r] = Len(plan[r])]
      /\ msgs' = msgs \cup {Msg("offer", <<r, j>>) : j \in 1 .. Len(plan[r])}
      /\ UNCHANGED <<plan, peerState, receiver, posted, handled, forwarded, delivered, records, trade>>
  BY DEF Share, Inv
<1>2. /\ r \notin Started /\ Started' = Started \cup {r} /\ Started \in SUBSET Requests
      /\ i = Cardinality(Started) + 1
  <2>1. sessionId = Cardinality(Started)
    BY DEF Inv, IdsAreGiven
  <2>2. sessionId \in Nat /\ id \in [Requests -> 0 .. sessionId]
    BY <1>1, <2>1, RequestCount DEF TypeOK, Started
  <2>3. \A s \in Requests : id'[s] = IF s = r THEN i ELSE id[s]
    BY <1>1, <2>2
  <2>4. i # 0 /\ id[r] = 0 /\ i = Cardinality(Started) + 1
    BY <1>1, <2>1, <2>2
  <2> QED BY <2>3, <2>4, Zenon DEF Started
<1>3. Cardinality(Started') = i /\ i \in 1 .. Cardinality(Requests)
  BY <1>2, RequestCount
<1>4. /\ Offers' = Offers /\ Message' = Message /\ \A o \in Offers : PeerOf(o)' = PeerOf(o)
      /\ \A j \in 1 .. Len(plan[r]) : <<r, j>> \in Offers
      /\ Len(plan[r]) \in Nat
      /\ \A o \in Offers : PeerOf(o) \in Peers
  BY <1>1, PlanFixed, OfferIs
<1> HIDE DEF i
<1>5. \A t, o : Msg(t, o) \in msgs' =>
          Msg(t, o) \in msgs \/ (t = "offer" /\ o \in Offers /\ o[1] = r)
  <2> SUFFICES ASSUME NEW t, NEW o, Msg(t, o) \in msgs', Msg(t, o) \notin msgs
               PROVE  t = "offer" /\ o \in Offers /\ o[1] = r
    OBVIOUS
  <2>1. PICK j \in 1 .. Len(plan[r]) : Msg(t, o) = Msg("offer", <<r, j>>)
    BY <1>1
  <2>2. t = "offer" /\ o = <<r, j>>
    BY <2>1, MsgEq
  <2> QED BY <1>4, <2>2
<1>6. TypeOK'
  <2>1. id' \in [Requests -> 0 .. i] /\ i \in 0 .. Cardinality(Requests)
    BY <1>1, <1>2, <1>3 DEF TypeOK, Inv, IdsAreGiven
  <2>2. msgs' \subseteq Message
    BY <1>1, <1>4 DEF TypeOK, Message, Msg
  <2>3. userChans' \in [1 .. Cardinality(Requests) -> Requests \cup {"none"}]
    BY <1>1, <1>3 DEF TypeOK
  <2>4. sendingCnt' \in [Requests -> Nat]
    BY <1>1, <1>4 DEF TypeOK
  <2>5. sendTimer' \in [Requests -> {"running", "fired", "stopped"}] /\ running' \subseteq Requests
    BY <1>1 DEF TypeOK
  <2> QED BY <1>1, <1>4, <2>1, <2>2, <2>3, <2>4, <2>5 DEF TypeOK, receiver, records, trade
<1>7. IdsAreGiven'
  BY <1>1, <1>2, <1>3, <1>4, <1>5 DEF Inv, IdsAreGiven, receiver
<1>8. IdsAreOwn'
  <2>1. \A s \in Started : id[s] \in 1 .. Cardinality(Started) /\ id'[s] = id[s] /\ id'[s] # i
    BY <1>1, <1>2, RequestCount DEF Inv, TypeOK, IdsAreGiven, Started
  <2>2. id'[r] = i
    BY <1>1 DEF TypeOK
  <2>3. \A s, u \in Started' : id'[s] = id'[u] => s = u
    BY <1>2, <2>1, <2>2 DEF Inv, IdsAreOwn
  <2>4. ASSUME NEW s \in Requests, NEW j \in 1 .. Cardinality(Requests), userChans'[j] = s, s # "none"
        PROVE  id'[s] = j
    <3>1. CASE j = i
      BY <1>1, <1>3, <2>2, <2>4, <3>1 DEF TypeOK
    <3>2. CASE j # i
      <4>1. userChans[j] = s
        BY <1>1, <2>4, <3>2 DEF TypeOK
      <4>2. id[s] = j /\ s # r
        BY <1>1, <2>4, <4>1 DEF Inv, IdsAreOwn
      <4> QED BY <1>1, <4>2 DEF TypeOK
    <3> QED BY <3>1, <3>2
  <2> QED BY <2>3, <2>4 DEF IdsAreOwn
<1>9. CountIsRight'
  <2>1. \A s \in Requests : Finished(s)' = Finished(s)
    BY <1>1 DEF Finished
  <2>2. Finished(r) = {} /\ \A p \in Peers : peerState[r][p] = "ST"
    BY <1>2 DEF Inv, CountIsRight, Finished
  <2>3. Cardinality(Finished(r)) = 0 /\ sendingCnt'[r] = Len(plan[r])
    BY <1>1, <2>2, FS_EmptySet DEF TypeOK
  <2>4. \A s \in Started : s # r /\ sendingCnt'[s] = sendingCnt[s]
    BY <1>1, <1>2 DEF TypeOK
  <2>5. \A s \in Started' : sendingCnt'[s] + Cardinality(Finished(s)) = Len(plan[s])
    BY <1>2, <1>4, <2>3, <2>4 DEF Inv, CountIsRight
  <2> QED BY <1>1, <1>2, <2>1, <2>5 DEF Inv, CountIsRight
<1>10. OffersOnce'
  <2>1. \A o \in Offers : o[1] = r => recvState[o] = "none"
    BY <1>2 DEF Inv, IdsAreGiven
  <2> QED BY <1>1, <1>4, <1>5, <2>1 DEF Inv, OffersOnce, receiver
<1>11. ReportedIsServed' /\ ListedWasServed'
  <2>1. \A p \in Peers : Served(p) => Served(p)'
    BY <1>1, KeepServed DEF receiver
  <2>2. \A o \in Offers : Msg("sent", o) \in msgs' => Msg("sent", o) \in msgs
    BY <1>5
  <2> QED BY <1>1, <2>1, <2>2, KeepReported DEF records, trade
<1>12. AllMeansAll'
  BY <1>1, KeepAll
<1>13. OwnAnswers'
  BY <1>1 DEF Inv, OwnAnswers
<1> QED BY <1>6, <1>7, <1>8, <1>9, <1>10, <1>11, <1>12, <1>13 DEF Inv

\* The pack for a peer is handed to the network once (fs/share.go:132-158).
LEMMA AcceptStep ==
  ASSUME Inv, NEW o \in Offers, Accept(o)
  PROVE  Inv'
<1> DEFINE r == o[1]
           p == PeerOf(o)
<1>1. /\ TypeOK /\ r \in running /\ Msg("accept", o) \in msgs
      /\ UNCHANGED <<loop, running, sendTimer, sendingCnt, receiver, results, records, trade>>
      /\ \/ peerState' = peerState /\ msgs' = msgs \ {Msg("accept", o)}
         \/ /\ peerState[r][p] = "ST" /\ peerState' = [peerState EXCEPT ![r][p] = "SENDING"]
            /\ msgs' = (msgs \ {Msg("accept", o)}) \cup {Msg("pack", o)}
  BY DEF Inv, Accept
<1>2. /\ Offers' = Offers /\ Message' = Message /\ \A q \in Offers : PeerOf(q)' = PeerOf(q)
      /\ r \in Started /\ r \in Requests /\ p \in Peers
      /\ \E i \in 1 .. Len(plan[r]) : plan[r][i] = p
  BY <1>1, PlanFixed, OfferIs DEF loop, Inv, IdsAreGiven, Started, PeerOf
<1> HIDE DEF r, p
<1>3. /\ peerState' \in [Requests -> [Peers -> {"ST", "SENDING", "FINISHED"}]]
      /\ \A s \in Requests, q \in Peers :
            \/ peerState'[s][q] = peerState[s][q]
            \/ s = r /\ q = p /\ peerState[s][q] = "ST" /\ peerState'[s][q] = "SENDING"
  <2>1. CASE peerState' = peerState
    BY <1>1, <2>1 DEF TypeOK
  <2>2. CASE peerState[r][p] = "ST" /\ peerState' = [peerState EXCEPT ![r][p] = "SENDING"]
    <3>1. /\ peerState' \in [Requests -> [Peers -> {"ST", "SENDING", "FINISHED"}]]
          /\ \A s \in Requests, q \in Peers :
                peerState'[s][q] = IF s = r /\ q = p THEN "SENDING" ELSE peerState[s][q]
      <4>1. Becomes(r, p, "SENDING")
        BY <2>2 DEF Becomes
      <4> QED BY <1>1, <1>2, <4>1, PeerStateIs
    <3> QED BY <2>2, <3>1
  <2> QED BY <1>1, <2>1, <2>2
<1>4. \A t, q : Msg(t, q) \in msgs' =>
          Msg(t, q) \in msgs \/ (t = "pack" /\ q = o)
  BY <1>1, MsgEq
<1>5. \A q \in Offers : Msg("data", q) \in msgs => Msg("data", q) \in msgs'
  BY <1>1, MsgEq
<1>6. TypeOK'
  <2>1. msgs' \subseteq Message
    BY <1>1 DEF TypeOK, Message, Msg
  <2> QED BY <1>1, <1>2, <1>3, <2>1 DEF TypeOK, loop, receiver, results, records, trade
<1>7. IdsAreGiven' /\ IdsAreOwn' /\ OwnAnswers'
  <2>1. \A q \in Offers : Msg("offer", q) \in msgs' => Msg("offer", q) \in msgs
    BY <1>4
  <2> QED BY <1>1, <2>1, KeepIds DEF results, receiver
<1>8. CountIsRight'
  <2>1. \A s \in Requests : Finished(s)' = Finished(s)
    BY <1>3 DEF Finished
  <2> QED BY <1>1, <1>2, <1>3, <2>1 DEF Inv, CountIsRight, Started, loop
<1>9. OffersOnce'
  BY <1>1, <1>2, <1>4 DEF Inv, OffersOnce, receiver
<1>10. ReportedIsServed' /\ ListedWasServed'
  <2>1. \A q \in Peers : Served(q) => Served(q)'
    BY <1>1, <1>5, KeepServed DEF receiver, loop
  <2>2. \A q \in Offers : Msg("sent", q) \in msgs' => Msg("sent", q) \in msgs
    BY <1>4
  <2>3. \A s \in Requests, q \in Peers : peerState'[s][q] = "FINISHED" => peerState[s][q] = "FINISHED"
    BY <1>3
  <2>4. listed \cup crashed \subseteq Peers
    BY <1>1 DEF TypeOK
  <2>5. ReportedIsServed'
    <3>1. \A q \in Offers : PeerOf(q) \in Peers
      BY <1>1, OfferIs
    <3> QED BY <1>1, <1>2, <2>1, <2>2, <2>3, <3>1 DEF Inv, ReportedIsServed, records, trade
  <2>6. ListedWasServed'
    BY <1>1, <2>1, <2>4 DEF Inv, ListedWasServed, records, trade
  <2> QED BY <2>5, <2>6
<1>11. AllMeansAll'
  <2>1. \A s \in Requests : \A i \in 1 .. Len(plan[s]) :
            s \in DOMAIN plan => plan[s][i] \in Peers
    BY <1>1, OfferIs
  <2>2. \A s \in Requests : "all" \in posted[s] => s \in DOMAIN plan
    BY DEF Inv, IdsAreGiven
  <2> QED BY <1>1, <1>3, <2>1, <2>2 DEF Inv, AllMeansAll, loop, results
<1> QED BY <1>6, <1>7, <1>8, <1>9, <1>10, <1>11 DEF Inv

\* A report finishes a peer and counts it, once; after the last one all
\* entries of the list are finished (fs/share.go:159-170).
LEMMA SendResultStep ==
  ASSUME Inv, NEW o \in Offers, SendResult(o)
  PROVE  Inv'
<1> DEFINE r == o[1]
           p == PeerOf(o)
<1>1. /\ TypeOK /\ r \in running /\ Msg("sent", o) \in msgs /\ msgs' = msgs \ {Msg("sent", o)}
      /\ UNCHANGED <<loop, running, receiver, handled, forwarded, delivered, userChans, records, trade>>
  BY DEF Inv, SendResult
<1>2. /\ Offers' = Offers /\ Message' = Message /\ \A q \in Offers : PeerOf(q)' = PeerOf(q)
      /\ r \in Started /\ r \in Requests /\ p \in Peers /\ plan[r] \in Seq(Peers)
      /\ \E i \in 1 .. Len(plan[r]) : plan[r][i] = p
  BY <1>1, PlanFixed, OfferIs DEF loop, Inv, IdsAreGiven, Started, PeerOf
<1>3. \/ UNCHANGED <<peerState, sendingCnt, sendTimer, posted>>
      \/ /\ peerState[r][p] = "SENDING" /\ peerState' = [peerState EXCEPT ![r][p] = "FINISHED"]
         /\ sendingCnt' = [sendingCnt EXCEPT ![r] = @ - 1]
         /\ \/ UNCHANGED <<sendTimer, posted>>
            \/ sendingCnt'[r] = 0 /\ Terminate(r, "all")
  BY DEF SendResult
<1> HIDE DEF r, p
<1>4. /\ peerState' \in [Requests -> [Peers -> {"ST", "SENDING", "FINISHED"}]]
      /\ \A s \in Requests, q \in Peers :
            \/ peerState'[s][q] = peerState[s][q]
            \/ s = r /\ q = p /\ peerState[s][q] = "SENDING" /\ peerState'[s][q] = "FINISHED"
  <2>1. CASE peerState' = peerState
    BY <1>1, <2>1 DEF TypeOK
  <2>2. CASE peerState[r][p] = "SENDING" /\ peerState' = [peerState EXCEPT ![r][p] = "FINISHED"]
    <3>1. /\ peerState' \in [Requests -> [Peers -> {"ST", "SENDING", "FINISHED"}]]
          /\ \A s \in Requests, q \in Peers :
                peerState'[s][q] = IF s = r /\ q = p THEN "FINISHED" ELSE peerState[s][q]
      <4>1. Becomes(r, p, "FINISHED")
        BY <2>2 DEF Becomes
      <4> QED BY <1>1, <1>2, <4>1, PeerStateIs
    <3> QED BY <2>2, <3>1
  <2> QED BY <1>3, <2>1, <2>2
<1>5. Served(p)
  BY <1>1 DEF Inv, ReportedIsServed, p
<1>6. \A q \in Offers : Msg("data", q) \in msgs => Msg("data", q) \in msgs'
  BY <1>1, MsgEq
<1>7. Started' = Started /\ IsFiniteSet(Finished(r)) /\ Finished(r) \in SUBSET Peers
  BY <1>1, SetsAssumption, FS_Subset DEF Started, Finished, loop
<1>8. /\ \A s \in Requests : \A q \in Peers : peerState'[s][q] # "ST" =>
            s \in Started' /\ \E i \in 1 .. Len(plan'[s]) : plan'[s][i] = q
      /\ \A s \in Requests : s # r => Finished(s)' = Finished(s)
  <2>1. ASSUME NEW s \in Requests, NEW q \in Peers, peerState'[s][q] # "ST"
        PROVE  s \in Started /\ \E i \in 1 .. Len(plan[s]) : plan[s][i] = q
    <3>1. peerState[s][q] # "ST"
      BY <1>4, <2>1
    <3> QED BY <3>1 DEF Inv, CountIsRight
  <2>2. \A s \in Requests : s # r => Finished(s)' = Finished(s)
    BY <1>4 DEF Finished
  <2> QED BY <1>1, <1>7, <2>1, <2>2 DEF loop
<1>9. /\ Cardinality(Finished(r)') \in Nat /\ Cardinality(Finished(r)') <= Len(plan[r])
      /\ Cardinality(Finished(r)') = Len(plan[r]) =>
            /\ Cardinality(ToSet(plan[r])) = Len(plan[r])
            /\ \A i \in 1 .. Len(plan[r]) : peerState'[r][plan[r][i]] = "FINISHED"
  <2>1. Finished(r)' \in SUBSET Peers
    BY DEF Finished
  <2>2. \A q \in Finished(r)' : \E i \in 1 .. Len(plan[r]) : plan[r][i] = q
    BY <1>1, <1>2, <1>8 DEF Finished, loop
  <2>3. /\ Cardinality(Finished(r)') \in Nat /\ Cardinality(Finished(r)') <= Len(plan[r])
        /\ Cardinality(Finished(r)') = Len(plan[r]) =>
              /\ Cardinality(ToSet(plan[r])) = Len(plan[r])
              /\ \A i \in 1 .. Len(plan[r]) : plan[r][i] \in Finished(r)'
    BY <1>2, <2>1, <2>2, ListBound
  <2> QED BY <2>3 DEF Finished
<1>10. sendingCnt[r] \in Nat /\ sendingCnt[r] + Cardinality(Finished(r)) = Len(plan[r])
  BY <1>1, <1>2 DEF Inv, CountIsRight, TypeOK
<1>11. /\ sendingCnt' \in [Requests -> Nat]
       /\ sendingCnt'[r] + Cardinality(Finished(r)') = Len(plan[r])
       /\ \A s \in Requests : s # r => sendingCnt'[s] = sendingCnt[s]
  <2>1. CASE UNCHANGED <<peerState, sendingCnt>>
    BY <1>1, <1>10, <2>1 DEF TypeOK, Finished
  <2>2. CASE /\ peerState[r][p] = "SENDING" /\ peerState' = [peerState EXCEPT ![r][p] = "FINISHED"]
             /\ sendingCnt' = [sendingCnt EXCEPT ![r] = @ - 1]
    <3>1. Finished(r)' = Finished(r) \cup {p} /\ p \notin Finished(r)
      <4>1. \A s \in Requests, q \in Peers :
                peerState'[s][q] = IF s = r /\ q = p THEN "FINISHED" ELSE peerState[s][q]
        <5>1. Becomes(r, p, "FINISHED")
          BY <2>2 DEF Becomes
        <5> QED BY <1>1, <1>2, <5>1, PeerStateIs
      <4>2. \A q \in Peers : peerState'[r][q] = IF q = p THEN "FINISHED" ELSE peerState[r][q]
        BY <1>2, <4>1
      <4> QED BY <1>2, <2>2, <4>2 DEF Finished
    <3>2. Cardinality(Finished(r)') = Cardinality(Finished(r)) + 1
      BY <1>7, <3>1, FS_AddElement
    <3>3. sendingCnt'[r] = sendingCnt[r] - 1 /\ Cardinality(Finished(r)) \in Nat /\ Len(plan[r]) \in Nat
      BY <1>1, <1>2, <1>7, <2>2, FS_CardinalityType DEF TypeOK
    <3>4. sendingCnt'[r] \in Nat /\ sendingCnt'[r] + Cardinality(Finished(r)') = Len(plan[r])
      BY <1>9, <1>10, <3>2, <3>3
    <3> QED BY <1>1, <1>2, <2>2, <3>4 DEF TypeOK
  <2> QED BY <1>3, <2>1, <2>2
<1>12. TypeOK'
  <2>1. /\ posted' \in [Requests -> SUBSET Whys] /\ \A s \in Requests : posted[s] \subseteq posted'[s]
        /\ sendTimer' \in [Requests -> {"running", "fired", "stopped"}]
    <3>1. CASE UNCHANGED <<sendTimer, posted>>
      BY <1>1, <3>1 DEF TypeOK
    <3>2. CASE Terminate(r, "all")
      <4>1. posted' = [posted EXCEPT ![r] = @ \cup {"all"}]
        BY <3>2 DEF Terminate
      <4>2. sendTimer' \in [Requests -> {"running", "fired", "stopped"}]
        BY <1>1, <1>2, <3>2 DEF Terminate, TypeOK
      <4> QED BY <1>1, <1>2, <4>1, <4>2 DEF TypeOK, Whys
    <3> QED BY <1>3, <3>1, <3>2
  <2>2. msgs' \subseteq Message
    BY <1>1 DEF TypeOK
  <2> QED BY <1>1, <1>2, <1>4, <1>11, <2>1, <2>2 DEF TypeOK, loop, receiver, records, trade
<1>13. IdsAreGiven' /\ IdsAreOwn' /\ OwnAnswers'
  <2>1. \A s \in Requests : posted'[s] # {} => posted[s] # {} \/ s \in running
    BY <1>1, <1>2, <1>3 DEF Terminate, TypeOK
  <2> QED BY <1>1, <2>1, KeepIds DEF receiver
<1>14. CountIsRight'
  BY <1>1, <1>7, <1>8, <1>11 DEF Inv, CountIsRight, loop
<1>15. OffersOnce'
  BY <1>1, KeepOffers DEF receiver, loop
<1>16. ReportedIsServed' /\ ListedWasServed'
  <2>1. \A q \in Peers : Served(q) => Served(q)'
    BY <1>1, <1>6, KeepServed DEF receiver, loop
  <2>2. \A q \in Offers : PeerOf(q) \in Peers
    BY <1>1, OfferIs
  <2>3. \A s \in Requests, q \in Peers : peerState'[s][q] = "FINISHED" => Served(q)
    BY <1>4, <1>5 DEF Inv, ReportedIsServed
  <2>4. listed \cup crashed \subseteq Peers
    BY <1>1 DEF TypeOK
  <2> QED BY <1>1, <1>2, <2>1, <2>2, <2>3, <2>4
          DEF Inv, ReportedIsServed, ListedWasServed, records, trade
<1>17. AllMeansAll'
  <2>1. \A s \in Requests : "all" \in posted'[s] =>
            "all" \in posted[s] \/ (s = r /\ sendingCnt'[r] = 0)
    BY <1>1, <1>2, <1>3 DEF Terminate, TypeOK
  <2>2. \A s \in Requests : "all" \in posted[s] => s \in DOMAIN plan
    BY DEF Inv, IdsAreGiven
  <2>3. ASSUME NEW s \in Requests, "all" \in posted'[s]
        PROVE  /\ \A i \in 1 .. Len(plan[s]) : peerState'[s][plan[s][i]] = "FINISHED"
               /\ Cardinality(ToSet(plan[s])) = Len(plan[s])
    <3>1. CASE "all" \in posted[s]
      <4>1. \A i \in 1 .. Len(plan[s]) : plan[s][i] \in Peers
        BY <1>1, <2>2, <3>1, OfferIs
      <4> QED BY <1>4, <3>1, <4>1 DEF Inv, AllMeansAll
    <3>2. CASE s = r /\ sendingCnt'[r] = 0
      <4>1. Cardinality(Finished(r)') = Len(plan[r])
        BY <1>9, <1>11, <3>2
      <4> QED BY <1>9, <3>2, <4>1
    <3> QED BY <2>1, <2>3, <3>1, <3>2
  <2> QED BY <1>1, <2>3 DEF AllMeansAll, loop
<1> QED BY <1>12, <1>13, <1>14, <1>15, <1>16, <1>17 DEF Inv

-----------------------------------------------------------------------------
(* So do the peers, the file system and the buyer *)

\* The loop ends and posts its failure, or the timer fires
\* (fs/share.go:171-177).
LEMMA TimerStep ==
  ASSUME Inv, NEW r \in Requests, SendTimer(r) \/ TimerFires(r)
  PROVE  Inv'
<1>1. /\ TypeOK /\ running' \subseteq running
      /\ UNCHANGED <<loop, peerState, sendingCnt, msgs, receiver, handled, forwarded,
                     delivered, userChans, records, trade>>
      /\ \/ posted' = posted
         \/ r \in running /\ posted' = [posted EXCEPT ![r] = @ \cup {"timeout"}]
      /\ \/ sendTimer' = [sendTimer EXCEPT ![r] = "stopped"]
         \/ sendTimer' = [sendTimer EXCEPT ![r] = "fired"]
  BY DEF Inv, SendTimer, TimerFires, results
<1>2. Offers' = Offers /\ Message' = Message
  BY <1>1, PlanFixed DEF loop
<1>3. TypeOK'
  <2>1. posted' \in [Requests -> SUBSET Whys] /\ \A s \in Requests : posted[s] \subseteq posted'[s]
    <3>1. CASE posted' = posted
      BY <1>1, <3>1 DEF TypeOK
    <3>2. CASE posted' = [posted EXCEPT ![r] = @ \cup {"timeout"}]
      BY <1>1, <3>2 DEF TypeOK, Whys
    <3> QED BY <1>1, <3>1, <3>2
  <2>2. sendTimer' \in [Requests -> {"running", "fired", "stopped"}]
    BY <1>1 DEF TypeOK
  <2> QED BY <1>1, <1>2, <2>1, <2>2 DEF TypeOK, loop, receiver, records, trade
<1>4. IdsAreGiven' /\ IdsAreOwn' /\ OwnAnswers'
  <2>1. \A s \in Requests : posted'[s] # {} => posted[s] # {} \/ s \in running
    BY <1>1 DEF TypeOK
  <2> QED BY <1>1, <2>1, KeepIds DEF receiver
<1>5. CountIsRight' /\ OffersOnce'
  BY <1>1, KeepCount, KeepOffers DEF loop, receiver
<1>6. ReportedIsServed' /\ ListedWasServed'
  <2>1. \A p \in Peers : Served(p) => Served(p)'
    BY <1>1, KeepServed DEF receiver, loop
  <2> QED BY <1>1, <2>1, KeepReported DEF loop, records, trade
<1>7. AllMeansAll'
  <2>1. \A s \in Requests : "all" \in posted'[s] => "all" \in posted[s]
    <3>1. CASE posted' = [posted EXCEPT ![r] = @ \cup {"timeout"}]
      <4>1. \A s \in Requests : posted'[s] = IF s = r THEN posted[s] \cup {"timeout"} ELSE posted[s]
        BY <1>1, <3>1 DEF TypeOK
      <4>2. "all" \notin {"timeout"}
        OBVIOUS
      <4> QED BY <4>1, <4>2, Zenon
    <3> QED BY <1>1, <3>1
  <2> QED BY <1>1, <2>1, KeepAll DEF loop
<1> QED BY <1>3, <1>4, <1>5, <1>6, <1>7 DEF Inv

\* A peer whose sessions move on, and the network (fs/share.go:217-291).
LEMMA ReceiveStep ==
  ASSUME Inv, NEW o \in Offers, Receive(o) \/ PackArrives(o)
  PROVE  Inv'
<1>0. PICK p \in Peers : p = PeerOf(o)
  BY OfferIs DEF Inv
<1>1. /\ TypeOK /\ UNCHANGED <<loop, session, results, records, trade>>
      /\ filesFrom' = filesFrom \/ filesFrom' = filesFrom \cup {p}
  BY <1>0 DEF Inv, Receive, ShareRequest, DataPack, RecvTimeout, ShareRecvResult, PackArrives, receiver
<1>2. /\ Offers' = Offers /\ Message' = Message /\ \A q \in Offers : PeerOf(q)' = PeerOf(q)
      /\ \A q \in Offers : PeerOf(q) \in Peers
  BY <1>1, PlanFixed, OfferIs DEF loop
<1>3. /\ recvState' \in [Offers -> {"none", "waiting", "ok", "timeout", "over"}]
      /\ \A q \in Offers : q # o => recvState'[q] = recvState[q]
      /\ local' \in [Peers -> Locals]
      /\ \A q \in Peers : local[q] # "none" => local'[q] # "none"
  BY <1>1, <1>2 DEF Receive, ShareRequest, DataPack, RecvTimeout, ShareRecvResult, PackArrives,
                    receiver, TypeOK, Locals
<1>4. \A t, q : q # o => (Msg(t, q) \in msgs' <=> Msg(t, q) \in msgs)
  BY MsgEq DEF Receive, ShareRequest, DataPack, RecvTimeout, ShareRecvResult, PackArrives
<1>5. msgs' \subseteq Message
  BY <1>1 DEF Receive, ShareRequest, DataPack, RecvTimeout, ShareRecvResult, PackArrives,
              TypeOK, Message, Msg
<1> DEFINE Waits(q) == \/ Msg("data", q) \in msgs /\ recvState[q] = "waiting"
                       \/ recvState[q] = "timeout"
<1>12. ASSUME NEW x \in Peers, NEW q \in Offers, PeerOf(q) = x, q # o, Waits(q)
       PROVE  Served(x)'
  <2>1. /\ Msg("data", q) \in msgs' <=> Msg("data", q) \in msgs
        /\ recvState'[q] = recvState[q]
    BY <1>3, <1>4, <1>12
  <2> QED BY <1>2, <1>12, <2>1 DEF Served
<1>13. \A x \in Peers : Served(x) <=> local[x] # "none" \/ \E q \in Offers : PeerOf(q) = x /\ Waits(q)
  BY DEF Served
<1> HIDE DEF Waits
<1>6. /\ Msg("offer", o) \in msgs' => recvState'[o] = "none"
      /\ \A t \in {"accept", "pack", "data", "sent"} : Msg(t, o) \in msgs' => recvState'[o] # "none"
      /\ recvState'[o] \in {"ok", "over"} => local'[p] # "none"
      /\ recvState'[o] = "none" => recvState[o] = "none"
      /\ recvState'[o] # "none" => recvState[o] # "none" \/ Msg("offer", o) \in msgs
      /\ Msg("sent", o) \in msgs' => Msg("sent", o) \in msgs \/ Served(p)'
      /\ Served(p) => Served(p)'
  <2>1. /\ Msg("offer", o) \in msgs => recvState[o] = "none"
        /\ \A t \in {"accept", "pack", "data", "sent"} : Msg(t, o) \in msgs => recvState[o] # "none"
        /\ recvState[o] \in {"ok", "over"} => local[p] # "none"
    BY <1>0 DEF Inv, OffersOnce
  <2>2. ASSUME \/ local'[p] # "none"
               \/ recvState'[o] = "timeout"
               \/ Msg("data", o) \in msgs' /\ recvState'[o] = "waiting"
        PROVE  Served(p)'
    BY <1>0, <1>2, <2>2 DEF Served
  <2>3. CASE ShareRequest(o)
    <3>1. /\ recvState'[o] = "waiting" /\ recvState[o] = "none" /\ Msg("offer", o) \in msgs
          /\ local' = local
      BY <1>1, <2>1, <2>3 DEF ShareRequest, TypeOK
    <3>2. \A t : Msg(t, o) \in msgs' <=> t # "offer" /\ (Msg(t, o) \in msgs \/ t = "accept")
      BY <2>3, MsgEq DEF ShareRequest
    <3>3. Served(p) => Served(p)'
      <4>1. CASE local[p] # "none"
        BY <2>2, <3>1, <4>1
      <4>2. ~Waits(o)
        BY <3>1 DEF Waits
      <4> QED BY <1>2, <1>12, <1>13, <4>1, <4>2
    <3> QED BY <2>1, <3>1, <3>2, <3>3
  <2>4. CASE PackArrives(o)
    <3>1. recvState' = recvState /\ local' = local /\ Msg("pack", o) \in msgs
      BY <2>4 DEF PackArrives, receiver
    <3>2. \A t : Msg(t, o) \in msgs' <=> t # "pack" /\ (Msg(t, o) \in msgs \/ t \in {"data", "sent"})
      BY <2>4, MsgEq DEF PackArrives
    <3>3. Served(p)'
      <4>1. recvState[o] \in {"waiting", "ok", "timeout", "over"}
        BY <1>1, <2>1, <3>1 DEF TypeOK
      <4> QED BY <2>1, <2>2, <3>1, <3>2, <4>1
    <3> QED BY <2>1, <3>1, <3>2, <3>3
  <2>5. CASE DataPack(o)
    <3>1. msgs' = msgs \ {Msg("data", o)} /\ Msg("data", o) \in msgs
      BY <2>5 DEF DataPack
    <3>2. \A t : Msg(t, o) \in msgs' <=> t # "data" /\ Msg(t, o) \in msgs
      BY <3>1, MsgEq
    <3>3. \/ recvState[o] = "waiting" /\ recvState'[o] = "ok" /\ local'[p] # "none"
          \/ recvState[o] # "waiting" /\ recvState' = recvState /\ local' = local
      BY <1>1, <1>2, <2>5, <1>0 DEF DataPack, TypeOK, Locals
    <3>4. Served(p) => Served(p)'
      <4>1. CASE local'[p] # "none"
        BY <2>2, <4>1
      <4>2. CASE recvState[o] # "waiting" /\ recvState' = recvState /\ local' = local
        <5>1. CASE local[p] # "none"
          BY <2>2, <4>2, <5>1
        <5>2. CASE Waits(o)
          BY <2>2, <4>2, <5>2 DEF Waits
        <5> QED BY <1>2, <1>12, <1>13, <5>1, <5>2
      <4> QED BY <3>3, <4>1, <4>2
    <3> QED BY <2>1, <3>2, <3>3, <3>4
  <2>6. CASE RecvTimeout(o)
    <3>1. msgs' = msgs /\ recvState[o] = "waiting" /\ recvState'[o] = "timeout"
      BY <1>1, <2>6 DEF RecvTimeout, TypeOK
    <3> QED BY <2>1, <2>2, <3>1
  <2>7. CASE ShareRecvResult(o)
    <3>1. msgs' = msgs /\ recvState[o] = "ok" /\ recvState'[o] = "over" /\ local' = local
      BY <1>1, <2>7 DEF ShareRecvResult, TypeOK
    <3> QED BY <2>1, <2>2, <3>1
  <2> QED BY <2>3, <2>4, <2>5, <2>6, <2>7 DEF Receive
<1>7. TypeOK'
  <2>1. filesFrom' \subseteq Peers
    BY <1>1, <1>2 DEF TypeOK
  <2> QED BY <1>1, <1>2, <1>3, <1>5, <2>1 DEF TypeOK, loop, session, results, records, trade
<1>8. IdsAreGiven' /\ IdsAreOwn' /\ OwnAnswers' /\ CountIsRight'
  <2>1. \A q \in Offers : /\ recvState'[q] # "none" => recvState[q] # "none" \/ Msg("offer", q) \in msgs
                          /\ Msg("offer", q) \in msgs' => Msg("offer", q) \in msgs
    <3>1. Msg("offer", o) \in msgs' => Msg("offer", o) \in msgs
      BY MsgEq DEF Receive, ShareRequest, DataPack, RecvTimeout, ShareRecvResult, PackArrives
    <3> QED BY <1>3, <1>4, <1>6, <3>1
  <2> QED BY <1>1, <1>3, <1>6, <2>1, KeepIds, KeepCount DEF loop, session, results
<1>9. OffersOnce'
  BY <1>0, <1>2, <1>3, <1>4, <1>6 DEF Inv, OffersOnce
<1>10. ReportedIsServed' /\ ListedWasServed'
  <2>1. ASSUME NEW x \in Peers, Served(x) PROVE Served(x)'
    <3>1. CASE x = p
      BY <1>6, <2>1, <3>1
    <3>2. CASE x # p
      <4>1. CASE local[x] # "none"
        BY <1>3, <4>1 DEF Served
      <4>2. PeerOf(o) # x
        BY <1>0, <3>2
      <4> QED BY <1>12, <1>13, <2>1, <4>1, <4>2
    <3> QED BY <3>1, <3>2
  <2>2. ReportedIsServed'
    <3>1. \A q \in Offers : Msg("sent", q) \in msgs' => Served(PeerOf(q))'
      BY <1>2, <1>0, <1>4, <1>6, <2>1 DEF Inv, ReportedIsServed
    <3> QED BY <1>1, <1>2, <2>1, <3>1 DEF Inv, ReportedIsServed, session, records, trade
  <2>3. ListedWasServed'
    <3>1. listed \cup crashed \subseteq Peers
      BY <1>1 DEF TypeOK
    <3> QED BY <1>1, <2>1, <3>1 DEF Inv, ListedWasServed, records, trade
  <2> QED BY <2>2, <2>3
<1>11. AllMeansAll'
  BY <1>1, KeepAll DEF loop, session, results
<1> QED BY <1>7, <1>8, <1>9, <1>10, <1>11 DEF Inv

\* Results are recorded and handed to users: the list grows by finished
\* peers, and the entry under an id is the user's (fs/fs.go:160-200).
LEMMA ResultStep ==
  ASSUME Inv, NEW r \in Requests, NEW why \in Whys,
         ShareResult(r, why) \/ Forward(r, why) \/ DeleteEntry(r)
  PROVE  Inv'
<1>1. TypeOK /\ UNCHANGED <<loop, session, msgs, receiver, posted, trade>>
  BY DEF Inv, ShareResult, Forward, DeleteEntry
<1>2. Offers' = Offers /\ Message' = Message /\ Started' = Started
  BY <1>1, PlanFixed DEF loop, Started
<1>3. /\ CountIsRight' /\ OffersOnce' /\ AllMeansAll'
      /\ \A p \in Peers : Served(p) => Served(p)'
  BY <1>1, KeepCount, KeepOffers, KeepAll, KeepServed DEF loop, session, receiver
<1>4. IdsAreGiven'
  BY <1>1, <1>2 DEF Inv, IdsAreGiven, loop, session, receiver
<1>5. r \in Started => id[r] \in 1 .. Cardinality(Requests)
  <2>1. Cardinality(Requests) \in Nat /\ sessionId \in 0 .. Cardinality(Requests) /\ id[r] \in 0 .. sessionId
    BY <1>1, RequestCount DEF TypeOK
  <2> QED BY <2>1 DEF Started
<1>6. CASE ShareResult(r, why)
  <2> DEFINE holders == {p \in Peers : peerState[r][p] = "FINISHED"}
  <2>1. /\ why \in posted[r] /\ handled' = [handled EXCEPT ![r] = @ \cup {why}]
        /\ listed' = listed \cup holders /\ filesTo' = filesTo \cup holders
        /\ UNCHANGED <<forwarded, delivered, userChans>>
    BY <1>6 DEF ShareResult
  <2>2. TypeOK'
    <3>1. \A s \in Requests : forwarded'[s] \subseteq handled'[s] /\ handled'[s] \subseteq posted'[s]
      <4>1. \A s \in Requests : handled'[s] = handled[s] \/ (s = r /\ handled'[s] = handled[s] \cup {why})
        BY <2>1 DEF TypeOK
      <4> QED BY <1>1, <2>1, <4>1 DEF TypeOK
    <3> QED BY <1>1, <1>2, <2>1, <3>1 DEF TypeOK, loop, session, receiver, trade
  <2>3. IdsAreOwn' /\ OwnAnswers'
    BY <1>1, <1>2, <2>1 DEF Inv, IdsAreOwn, OwnAnswers, loop
  <2>4. listed' \subseteq Peers /\ \A p \in listed' : Served(p)
    BY <1>1, <2>1 DEF Inv, TypeOK, ReportedIsServed, ListedWasServed
  <2>5. ListedWasServed'
    BY <1>1, <1>3, <2>4 DEF Inv, TypeOK, ListedWasServed, trade
  <2>6. ReportedIsServed'
    <3>1. \A o \in Offers : PeerOf(o)' = PeerOf(o) /\ PeerOf(o) \in Peers
      BY <1>1, OfferIs, PlanFixed DEF loop
    <3> QED BY <1>1, <1>2, <1>3, <2>1, <3>1 DEF Inv, ReportedIsServed, session, trade
  <2> QED BY <1>3, <1>4, <2>2, <2>3, <2>5, <2>6 DEF Inv
<1>7. CASE Forward(r, why) \/ DeleteEntry(r)
  <2>1. UNCHANGED <<handled, records>>
    BY <1>7 DEF Forward, DeleteEntry
  <2>2. ReportedIsServed' /\ ListedWasServed'
    BY <1>1, <1>3, <2>1, KeepReported DEF loop, session, records, trade
  <2>3. CASE Forward(r, why)
    <3> DEFINE user == userChans[id[r]]
    <3>1. /\ why \in handled[r] /\ forwarded' = [forwarded EXCEPT ![r] = @ \cup {why}]
          /\ userChans' = userChans
          /\ \/ user = "none" /\ delivered' = delivered
             \/ /\ user # "none"
                /\ delivered' = [delivered EXCEPT ![user] = @ \cup {[of |-> r, why |-> why]}]
      BY <2>3 DEF Forward
    <3>2. r \in Started
      BY <1>1, <3>1 DEF Inv, TypeOK, IdsAreGiven
    <3>3. user # "none" => user = r
      <4>1. id[r] \in 1 .. Cardinality(Requests)
        BY <1>5, <3>2
      <4>2. user # "none" => user \in Requests /\ id[user] = id[r]
        BY <1>1, <4>1 DEF Inv, TypeOK, IdsAreOwn
      <4> QED BY <3>2, <4>2 DEF Inv, IdsAreOwn, Started
    <3> HIDE DEF user
    <3>4. \/ delivered' = delivered
          \/ delivered' = [delivered EXCEPT ![r] = @ \cup {[of |-> r, why |-> why]}]
      BY <3>1, <3>3
    <3>5. delivered' \in [Requests -> SUBSET [of : Requests, why : Whys]]
      BY <1>1, <3>4 DEF TypeOK
    <3>6. TypeOK'
      <4>1. \A s \in Requests : forwarded'[s] = forwarded[s] \/ (s = r /\ forwarded'[s] = forwarded[s] \cup {why})
        BY <3>1 DEF TypeOK
      <4>2. \A s \in Requests : forwarded'[s] \subseteq handled[s]
        BY <1>1, <3>1, <4>1 DEF TypeOK
      <4> QED BY <1>1, <1>2, <2>1, <3>1, <3>5, <4>2 DEF TypeOK, loop, session, receiver, records, trade
    <3>7. IdsAreOwn'
      BY <1>1, <1>2, <3>1 DEF Inv, IdsAreOwn, loop
    <3>8. OwnAnswers'
      <4>1. \A s \in Requests :
               \/ delivered'[s] = delivered[s]
               \/ s = r /\ delivered'[s] = delivered[s] \cup {[of |-> r, why |-> why]}
        <5>1. CASE delivered' = delivered
          BY <5>1
        <5>2. CASE delivered' = [delivered EXCEPT ![r] = @ \cup {[of |-> r, why |-> why]}]
          BY <1>1, <5>2 DEF TypeOK
        <5> QED BY <3>4, <5>1, <5>2
      <4> QED BY <4>1 DEF Inv, OwnAnswers
    <3> QED BY <1>3, <1>4, <2>2, <3>6, <3>7, <3>8 DEF Inv
  <2>4. CASE DeleteEntry(r)
    <3>1. /\ userChans' = [userChans EXCEPT ![id[r]] = "none"]
          /\ UNCHANGED <<forwarded, delivered>>
      BY <2>4 DEF DeleteEntry
    <3>2. TypeOK'
      <4>1. userChans' \in [1 .. Cardinality(Requests) -> Requests \cup {"none"}]
        BY <1>1, <3>1 DEF TypeOK
      <4> QED BY <1>1, <1>2, <2>1, <3>1, <4>1 DEF TypeOK, loop, session, receiver, records, trade
    <3>3. \A i \in 1 .. Cardinality(Requests) : userChans'[i] \in {userChans[i], "none"}
      BY <1>1, <3>1 DEF TypeOK
    <3>4. IdsAreOwn'
      BY <1>1, <1>2, <3>3 DEF Inv, IdsAreOwn, loop
    <3>5. OwnAnswers'
      BY <3>1 DEF Inv, OwnAnswers
    <3> QED BY <1>3, <1>4, <2>2, <3>2, <3>4, <3>5 DEF Inv
  <2> QED BY <1>7, <2>3, <2>4
<1> QED BY <1>6, <1>7

\* The buyer asks listed peers only, and a peer that panics was asked
\* (fs/fs.go:226-245, fs/purchase.go:120-150).
LEMMA TradeStep ==
  ASSUME Inv, Trade \/ UNCHANGED vars
  PROVE  Inv'
<1>1. TypeOK /\ UNCHANGED <<loop, session, msgs, receiver, results, records>>
  BY DEF Inv, Trade, TrackerRequest, Buy, Sell, SellPanics, PurchaseTimeout, vars
<1>2. Offers' = Offers /\ Message' = Message /\ \A o \in Offers : PeerOf(o)' = PeerOf(o)
  BY <1>1, PlanFixed DEF loop
<1>3. /\ CountIsRight' /\ OffersOnce' /\ AllMeansAll' /\ IdsAreGiven' /\ IdsAreOwn' /\ OwnAnswers'
      /\ \A p \in Peers : Served(p) => Served(p)'
  BY <1>1, KeepCount, KeepOffers, KeepAll, KeepServed, KeepIds DEF loop, session, receiver, results
<1>4. /\ listed \subseteq Peers /\ crashed \subseteq Peers
      /\ toTry \subseteq listed /\ (buyer = "waiting" => seller \in listed)
  BY <1>1 DEF Inv, TypeOK, ReportedIsServed
<1>5. /\ toTry' \subseteq listed /\ (buyer' = "waiting" => seller' \in listed)
      /\ crashed' \subseteq listed \cup crashed
      /\ seller' \in Peers \cup {"none"} /\ buyer' \in {"idle", "choosing", "waiting", "done"}
  <2>1. CASE TrackerRequest
    BY <1>1, <1>4, <2>1 DEF TrackerRequest, TypeOK
  <2>2. ASSUME NEW p \in Peers, Buy(p) PROVE <1>5
    BY <1>1, <1>4, <2>2 DEF Buy, TypeOK
  <2>3. CASE Sell \/ SellPanics \/ PurchaseTimeout
    BY <1>1, <1>4, <2>3 DEF Sell, SellPanics, PurchaseTimeout, TypeOK
  <2>4. CASE UNCHANGED vars
    BY <1>1, <1>4, <2>4 DEF vars, trade, TypeOK
  <2> QED BY <2>1, <2>2, <2>3, <2>4 DEF Trade
<1>6. TypeOK'
  BY <1>1, <1>2, <1>4, <1>5 DEF TypeOK, loop, session, receiver, results, records
<1>7. ReportedIsServed'
  <2>1. \A o \in Offers : PeerOf(o) \in Peers
    BY <1>1, OfferIs
  <2> QED BY <1>1, <1>2, <1>3, <1>5, <2>1 DEF Inv, ReportedIsServed, session, records
<1>8. ListedWasServed'
  BY <1>1, <1>3, <1>4, <1>5 DEF Inv, ListedWasServed, records
<1> QED BY <1>3, <1>6, <1>7, <1>8 DEF Inv

\* Every step keeps the invariant.
LEMMA InvStep == Inv /\ [Next]_vars => Inv'
<1> SUFFICES ASSUME Inv, [Next]_vars PROVE Inv'
  OBVIOUS
<1>1. CASE Run
  BY <1>1, AcceptStep, SendResultStep, TimerStep DEF Run
<1>2. CASE \E r \in Requests : TimerFires(r) \/ DeleteEntry(r)
  <2>1. "all" \in Whys
    BY DEF Whys
  <2> QED BY <1>2, <2>1, TimerStep, ResultStep
<1>3. CASE FileSystem
  BY <1>3, ShareStep, ResultStep DEF FileSystem
<1>4. CASE \E o \in Offers : Receive(o) \/ PackArrives(o)
  BY <1>4, ReceiveStep
<1>5. CASE Trade \/ UNCHANGED vars
  BY <1>5, TradeStep
<1> QED BY <1>1, <1>2, <1>3, <1>4, <1>5 DEF Next

\* The invariant holds in every state of a node and its peers (fs/share.go).
THEOREM Invariance == Spec => []Inv
<1> QED BY InvInit, InvStep, PTL DEF Spec

-----------------------------------------------------------------------------
(* What follows *)

\* Every state is well typed: the counter of a session does not wrap below
\* zero, and there is an entry for every id (fs/share.go:164, fs/fs.go:146).
THEOREM TypeCorrect == Spec => []TypeOK
<1>1. Inv => TypeOK
  BY DEF Inv
<1> QED BY <1>1, Invariance, PTL

\* Whom the tracker lists, and whoever panics as a seller, was served
\* (fs/fs.go:160-175, 226-245).
THEOREM ListedCorrect == Spec => []ListedWasServed
<1>1. Inv => ListedWasServed
  BY DEF Inv
<1> QED BY <1>1, Invariance, PTL

\* A share that says all were served has served all entries of its list, and
\* none twice (fs/share.go:159-170).
THEOREM AllCorrect == Spec => []AllMeansAll
<1>1. Inv => AllMeansAll
  BY DEF Inv
<1> QED BY <1>1, Invariance, PTL

\* However many users ask at the same time, each is told of its own request
\* (fs/fs.go:146, 176-185).
THEOREM AnswersAreOwn == Spec => []OwnAnswers
<1>1. Inv => OwnAnswers
  BY DEF Inv
<1> QED BY <1>1, Invariance, PTL
=============================================================================

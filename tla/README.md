# gcbb in TLA+

A verification project for gcbb, a volunteer-computing prototype in Go: a
master deploys a contract for a sub task, broadcasts the task, workers fetch its
input files from peers, compute, and submit masked answer hashes, and the master
takes a majority vote. Below it are a peer-to-peer file store and an overlay
network of UDP sockets with hole punching. Paths here are those under
`src/src/` unless they say otherwise.

## 1. The system

| component | state it keeps | operations | calls and channels |
|---|---|---|---|
| sub task master session, `master/session.go` | state, peers with their answers, a tally and a leader per unit, answer count | deploy, `CPROC_RES`, answer, terminate result | contract handler, network handler |
| worker and worker session, `worker/*.go` | session state, meta data, executer result | request, validate, `CPROC_META`, purchase result, execute result, submit result | contract, file system, executer, network |
| contract simulator, `chain/*.go` | an address counter and the contracts with their submit listeners, one map for all nodes | Deploy, Validate, Submit, Terminate, ListenSubmit | one goroutine per call |
| network emulator, `net/net.go` | a receive channel of ten per node, the handlers of the node by id | SendTo, ReliableSendTo, Broadcast, AddAppliHandler, Stop | one goroutine per message, one loop per node |
| application handlers and their factory, `net/application.go` | listeners by number, the id given last | AddListener, OnMsgArrive, GetHandler | one goroutine per message that arrives |
| file system loop, `fs/fs.go` | files, who holds them, user channels by request | Share, Purchase, ParalleledPurchase, Get, Set, tracker request | starts the sessions below, hands their results on |
| parallel purchase, `fs/tracker.go` | state and known peers per group, groups still missing | tracker result, purchase result, timer | trackers, purchase sessions |
| purchase and sell sessions, `fs/purchase.go` | a timer | request, pack, timeout | the peer's file system |
| share sessions, `fs/share.go` | state of each peer, packs still to send | accept, send result, timer; receive, timeout | both file systems |
| routing table, `net/kad.go` | lists of handlers by distance | Insert, Get, Has, Update, Remove, GetK | used by the server's loop |
| UDP server, handlers, pool, `net/p2p.go` | table, pool, handler states and timers | connect, send, receive, state notice, stop; per handler connect, tickers, expiry, stop | a loop per server and handler, a reader goroutine per socket |
| answer arithmetic, `common/common.go` | none | mask, unmask | big integers |
| scheduler, `master/scheduler.go`, `task.go` | tasks | a stub (its map of tasks is never made) | nobody |
| looped queue, `net/queue.go` | a ring, its two ends, the sequence numbers of both | PopFront, PushBack, Get, Set, GetBySeq, SetBySeq | the windows of the multi packet transfer, its test |
| multi packet transfer, `net/multipack.go` | windows, queues | nothing creates it | nobody |
| encoders, timer wrapper, signatures, `main.go` | none of interest | conversions, start | |

`main.go` runs only the UDP server; the tests run the master, workers and file
systems over the network emulator.

**What is hard.** Everything is a goroutine with a `select`, and every "post a
result" is a goroutine of its own, so messages, results and notices arrive late
and in any order. Sessions that have posted their result often go on
(`terminate(true)` without `return`) or are gone when an answer comes. Timers
race with what they guard. Maps and handler fields are shared without locks. A
handler object is reused while its old loop and reader are still there. A panic
anywhere (a missing key, a short big integer, a nil handler, a distance of 160)
takes the whole process with it. `PROJECT.json` lists each hazard at its line.

Handlers, contracts and sessions are found by small numbers that come from
counters, which are read after they were incremented, by several goroutines.

**What makes it correct.** Master: the counters are a tally, the leader is the
most frequent answer, the task ends only on a majority, and it does end.
Worker: its answers are counted as computed. Purchase: one purchase per group,
a success is true, what was stored is not forgotten, the user is always
answered. Share: what the tracker will say of a peer is what the peer was sent, and
each user gets the answer to its own request. Several tasks at once: what one
session counts was computed for it, no message names a handler that is not
there. Queue: entries leave in their order through every wrap.
Table: look-ups agree with the history of calls, next hops are the nearest
known. Server: one handler per peer, both ends of a connection mean each other,
a connection that was asked for comes about, no message circles for good, an
expired handler leaves the table and its loop ends.

## 2. Modules

    HashConfound ── CalcTask                  KadTable ──┬── KadDHT
    AppliNet, CalcContract ── TwoTasks                   └── P2PServer
    ParallelPurchase   FileShare   LoopedQueue

Each has an MC module with its instances (`MCCalcTask`, ...) and a module with its
theorems (`CalcTaskProofs`, ...); `KadTableProofs` holds the lemmas about the table's
operators that `KadDHTProofs` and `P2PServerProofs` rest on.

    CalcTask         implements MajorityVote
    ParallelPurchase implements Fetch, which CalcTask takes for its file system
    KadDHT           implements Directory
    LoopedQueue      implements SeqQueue

* **CalcTask** is one sub task from `Start` to the vote: the master session, its
  worker sessions, the contract and the messages. Each `case` of a `select` is
  an action (`PeerAnswer` is the whole `peerAnswerChan` case, the termination
  check included); goroutines that only wait and send are the sets and counters
  `msgs`, `deployResult`, `terminateCalls`, `validateResult`, `submitCall`. A
  panic sets the process to "crashed" and is an action of its own:
  `PeerAnswerPanics` has taken the answer off the channel, and counted it up to the
  hash it dies of. An executer gives a hash for each output key, of which there may
  be more or fewer than units (`OutputCnts`); `Readable` are the ones the loop over
  them gets to. The purchase is the one `Fetch` describes, one report at a time.
  `answers[i]` is a total function with 0 for absent keys.
* **HashConfound** has the masking arithmetic with an abstract base: a hash is a
  top byte and a rest, `First20` is `Bytes()[:20]`, which drops the low byte of a
  21-byte number and panics below 20 bytes.
* **MajorityVote** is what the master promises, with none of the machinery.
* **ParallelPurchase** is one `ParalleledPurchaseSession` with its purchase and
  sell sessions and the two goroutines of `fs.go` that hand its results on.
  Trackers list arbitrary peers in arbitrary order. The files of a group are one
  value, "right" when they have the requested hash.
* **Fetch** is its promise to the worker: a success is posted at most once, when
  all is there; a failure at most once, and last.
* **AppliNet** carries messages between listeners. A message is in `sends` or
  `casts` (goroutines of `SendTo` and `Broadcast`), in `recvChan`, in `arrivals`
  (goroutines of `OnMsgArrive`) or in `inbox` (a listener's channel). Handlers
  are objects, found by their ids of the moment (`handlerMap`). A request for a
  handler is two steps, `NextId` and `NewHandler`, as the factory's counter is
  read after it was incremented. `Broadcast` goes through the nodes one by one,
  in the order a map gives them, and waits at one whose channel is full.
* **CalcContract** is the chain the tests use: one counter of addresses and one
  map for all callers, with `Deploy` in two halves for the same reason.
* **TwoTasks** composes the two with several master sessions of one node and
  with the workers that answer them: Worker, worker session, and the handler
  that the purchase takes from the same factory. `SessionStart` reads
  the contract, as `Validate` does when it is called, and the session handles what
  was read later. The inner life of a session is
  CalcTask's; here the vote is on the code an answer was computed with, and
  purchases go well.
* **FileShare** is the loop of a node's file system with its calls of `Share`:
  a `ShareSession` for each (a list may name a peer twice), a
  `ShareRecvSession` per offer, the emulator's `ReliableSendTo`, the goroutines
  that look a user's channel up by session id, send, and delete the entry, and
  the records of both sides. `ShareResult` carries the session's own map, so the
  loop reads the states the peers have by the time it handles the result. The
  recorded holders (`listed`) are then what the node as a tracker answers a
  buyer, who buys from one after the other; a peer that has not got the files
  panics.
* **KadTable** has the table's operations as operators on a value, **KadDHT** is
  one table under any calls, **Directory** the stacks per id it stands for, with
  what a look-up returns. An id
  is the set of its 1 bits, `IdBits` of them (160 in the code), numbered with byte
  19 as the top; `Diff` is the XOR of two ids.
* **P2PServer** is a number of nodes, each with its server loop, handlers (loop,
  reader, four timers), pool and static socket, over a network of datagrams.
  `hd[n][h]` is a handler object, reused after expiry. Everything read late by a
  goroutine in the code is read late in the model (`Post`), and a reader reads
  the state and uses it in two steps (`ReaderTakes`, `ReaderHandles`). `Stop` takes
  two steps as well: the server's loop returns, and the static handler's goes on with
  datagrams and pending sends until it takes its own token. `Plans`
  says what the nodes' users ask for.
* **LoopedQueue** is the ring, with indices and sequence numbers that wrap in the
  middle of a calculation as uint32 do. `Set` takes any index: one beyond the ring
  that the calculation lets through panics and changes nothing. **SeqQueue** is a bounded queue whose
  entries are numbered.

The MC modules hold constants for TLC and nothing else. Operators marked
"Mutant" next to a definition are plausible mistakes in it, used to see that
each property can fail; nothing else refers to them.

## 3. Runs

`CHECK_DEADLOCK FALSE` in all of them but the queue's: sessions end, nodes stop,
goroutines that wait for what never comes exist in the code.

| run | instance (distinct states) | shows |
|---|---|---|
| CalcTask_vote | 4 workers, 1 unit, answers 3 and 5, keys that overflow with some, channel of 1, `MinAnswerCnt` 2, fairness (127,037) | counters are a tally (`VoteTally`), the leader is a mode (`WinnerIsMode`), no answer is dropped (`AnswersExpected`), refinement of MajorityVote, `SubmitReturns`, `TaskCompletes` |
| CalcTask_units | 2 workers, 2 units, 1 to 3 hashes of which one has no top byte, purchases and executions that fail, fairness (254,610) | `TerminateOnMajority` in every unit; `AnswerRoundTrip` with all the panics; `TaskCompletes` |
| ParallelPurchase_two | 2 groups, 2 peers good for some, 2 trackers that list anybody, something under the keys of a group beforehand (554,560) | `NoIdleGroup`, `OnePurchasePerGroup`, `SuccessMeansHeld`, `StoredIsKnown`, `UserGetsAnswer`, refinement of Fetch |
| FileShare_safe | 2 peers, one peer twice, or 2 requests for one peer; a peer may hold other files beforehand; a buyer (96,465) | `ListedWasServed`, `AllMeansAll`, `ServedIsListed`, `UserGetsAnswer` |
| TwoTasks_share | 2 tasks of one master, five setups: both on the static handler; a handler each; factories whose next id wraps to 0; nodes that leave; a node that leaves with its channel full (325,148) | `AnswersForTask`, `HandlersKnown`, `RestIsDone` |
| LoopedQueue_ring | 4 slots, 11 sequence numbers from 9 on, 2 items and nil (14,256) | `FoundBySeq`, refinement of SeqQueue |
| KadDHT_table | ids of 3 bits, 5 handlers, K = 2 (128) | `GetKNearest`, refinement of Directory with its look-ups |
| KadDHT_insert | the same | **violated**: an id at the last distance has no bucket |
| P2PServer_connect | 2 nodes that call each other, 2 handlers each, one application message; or both ask each other for an absent node, two hops, their routes a loop (737,833) | `OneHandlerPerPeer`, `ConnectedBothKnow`, `StateAdvances`, `DeliveredWasSent`, `RoutesRunOut` |
| P2PServer_live | one calls the other, losses, fairness (14,929) | `AskedIsConnected` |
| P2PServer_expire | one disconnect timer at node A, then reuse of its only handler; node B may stop (1,310,304) | `DeadEntryIsLeaving`, `PooledIsStopping` |
| P2PServer_relay | one asks for an absent node | **violated**: `send` survives a destination without a handler |

**What some of the properties mean.** `SubmitReturns` and `TaskCompletes` are checked
where they can fail: two of the four workers of CalcTask_vote may decide the vote,
so that the others answer while the master is TERMINATING (it then calls
`Terminate` again) or has left, and find a channel with one place: one of their
answers fills it, the next `Submit` never comes back. The property says that no
other one hangs. The instance with failures (CalcTask_units) has the exceptions of
`TaskCompletes` instead.

`TaskCompletes` and `RestIsDone` excuse
what the code really does not survive, and name it (`Spoiled`): in CalcTask a
master that panics, an executer that fails, a worker that panics on its answer or
after a purchase that did not simply succeed, and votes of all workers without a
majority; in TwoTasks a contract address or a handler shared with another task, a master
that left, a node that left with its channel full (`Broadcast` waits there with
the rest of the nodes still to come), and too few workers whose handlers are
still found under their ids. `RestIsDone` is an invariant: each step of TwoTasks passes a
message or a session's state on for good, so the system comes to rest, and it may
come to rest only with its tasks done. `AskedIsConnected` says that from some
point on the two ends are connected with each other for good, not only once.
`DeadEntryIsLeaving` says that a handler that gave up its peer does not stay in the
table. The run checks it with one disconnect timer. With several it holds for as
long as the pool has never held a handler of the table (`PooledIsOut`), which is
what section 5 proves: the code does not keep that (section 4), and once one object
is in the table twice, one notice takes out only one of its entries.
`PooledIsStopping` needs no such condition.

`StoredIsKnown` relates the node's files to the session's state: what a purchase
stored is down as bought or its success is on the way, whatever its timer, late
trackers and failures do in between. `ServedIsListed` speaks of each request and
peer: a peer the session knows to be FINISHED is listed in the end, without
exception, whichever of the two kinds of result comes first; one that has its
files without the session's knowledge may be left out only when the loop of *its*
request ended before the report came. `RoutesRunOut` gives each copy of a message
under way a number of steps it has left, six for each hop of its TTL and the stage
it is at between a `sendChan` and the next `handlerChan`: every new copy must use up one
of the same message with more steps left, or be a message its node has just
made. `send` makes up to K copies at each node, all of which are paid for by
one; so a message comes to rest after boundedly many steps, whatever the tables
say, also when it comes back to its source.

`ListedWasServed` is about two records: the tracker's list, and what the peer
holds, with the one exception that the code makes (the peer's own timer was
faster than the pack).

**Bounds.** Four workers are the fewest with a tie of two and two after a
majority of one and two was lost again; a channel of one already blocks two
senders. Hashes have two "bytes" of three values, which gives sums of two and of
three bytes and values of one. Two peers and two trackers are enough for a
purchase that overlaps another listing and a retry; two requests for one peer,
and one request that names a peer twice, for a share that is told of another's
result. In TwoTasks `HandlerSpace` is 4 (65,536 in the code): a node that starts a
session and a purchase for each of two tasks takes four ids, so ids wrap onto the
static handler; `RecvCap` is 1 (10 in the code): a node that leaves with two
messages for it holds a `Broadcast` up; `MaxAddress` is the number of tasks, and
no run reaches beyond. The ring has three places and its numbers wrap after
eleven, which the four slots do not divide. Five handlers in the table
share an id, share a bucket, and stand alone. For the server, `HandlerCap` bounds
handler objects (an `Open` beyond it is not taken), `ExpiryCap` the disconnect
timers that go off, `MAX_TTL` is 2 in the run with a loop of routes and 1 in the
others (65 in the code), `room` in a plan is the number of datagrams on the wire at
a time (the send waits beyond it; it is set for the loop of routes only), `PooledCnt` and
`MaxPooledCnt` are those of the cfg; two nodes keep the product of their
interleavings near a million states, three do not. In CalcTask every
counter is bounded by the number of workers; `AnswerCap` is 1 (10 in the code) and
`OutputCnts` the number of hashes an executer may give, from one unit short to one
too many.

**Time.** The server's timers are ten seconds and more, so a timer goes off only
when no goroutine of any node has work left (`Quiet`): ten seconds are long for
a loop. A datagram may still take any time, and expiry leaves its event in the
channel while other cases of the `select` are taken first. In the file system
modules timers go off at any time, as their length is an estimate.

**Fairness.** The Go scheduler runs every goroutine that can run, and a `select`
with several ready cases chooses at random; so the loops are weakly fair
(CalcTask; `Run` and `FileSystem` in FileShare) where each event is taken once, and
a fired timer stays ready until taken (ParallelPurchase, `WF(WaitTimer)`), with
finitely many other events. A timer that is not stopped fires, and the emulator
puts a pack into the peer's channel. No fairness is assumed of trackers and peers
of a purchase, nor of a share's receivers. TwoTasks needs none: see `RestIsDone`. In P2PServer `WF(Work)` says that something runs while something
can; each ticker and each reader is strongly fair because a ticker goes off for
good and the other nodes' work only delays it; strong fairness of the readers
also says that the network does not lose *every* datagram of a kind for a
socket. `AskedIsConnected` needs that and no more.

## 4. Findings

1. `net/kad.go:29`: 160 buckets for distances 0 to 160; half of all ids panic
   (run KadDHT_insert).
2. `net/p2p.go:162` calls a nil handler that `:163` tests for; a relay goes down
   when it is asked for an unknown peer (run P2PServer_relay).

Things the models show that contradict no promise of the code:

* a worker whose purchase failed executes the task all the same, as
  `worker/session.go:129` drops the purchase's `OK` (the comment of `WS_RUNNING`,
  `:19`, says `After fetched`); a `Submit` hangs when the master left with its
  channel full; the majority may be lost again while the master is TERMINATING;
* two sub tasks on one static handler: the second `AddListener` replaces the
  first's, whose task never ends (`net/application.go:71`). Two tasks deployed at
  the same time may get one address (`chain/calc_contract.go:55`), and the later
  contract replaces the earlier one. After 65,535 handlers an id wraps, and a
  session takes the place of the static handler, which then hears of no further
  task. One node that left with its channel full keeps a broadcast from the rest
  (`net/net.go:151`). A message for an id nobody has would end the process
  (`net/net.go:176`): the flow of tasks never sends one (`HandlersKnown`), while
  `net/appli_test.go:32` sends to emulators that have no handlers at all;
* a success of a purchase or a share may be followed by a failure nobody is left
  to receive; a share that names a peer twice never succeeds, as the count
  starts at the length of the list (`fs/share.go:90`); a share lists a receiver
  whose own timer was faster than the pack;
* `GetBySeq` and `SetBySeq` are right only until the first `PopFront`, as they
  pass a distance where `Get` and `Set` take a slot (`net/queue.go:54`, `:61`);
  only the multi packet transfer, which nothing creates, calls them;
* a handler that expires while a ping is being handled is given back to the pool
  twice, or comes back to life with no ping ticker. In the instance of
  P2PServer_expire TLC finds it in the pool twice after 21 steps, and in the pool and
  in the table after 28. When A then asks for another peer and a second timer goes
  off (`ExpiryCap <- TwiceAtA`), the object is in the table twice, and after some 40
  steps one of its entries stays there, disconnected, with nothing on its way to
  take it out: `DeadEntryIsLeaving` fails.

## 5. Proofs

Every theorem is about all values of the constants that satisfy the module's
named ASSUMEs, which TLC evaluates in every run. Those say what the constants are
(the sets are finite where the code counts them, `nil` is not a member of what it
is compared with, a plan names nodes) and, in HashConfound and LoopedQueue, how
wide the numbers are. One is about the model alone: in TwoTasks there is an
address for every task (`AddressAssumption`), as the code's counter of addresses has
no end. An invariant is proved from an inductive one that is stronger; each of
those was first checked by TLC on the instance of its run.

**CalcTaskProofs.** For every finite set of workers, any units, hashes, groups,
keys, capacity and `MinAnswerCnt`:

* `TypeCorrect`: `Spec => []TypeOK`, one step per action (`TypeStep`).
* `TallyCorrect`, `WinnerCorrect`: `VoteTally` and `WinnerIsMode`. Neither is
  inductive alone: `PeerAnswer` increments a counter, and that it then equals a
  cardinality needs that the caller was not counted before, which comes from
  its `peerState` (`CountedOrNot`, `SupportersStep`). The invariant is `VoteInv`,
  the two together under `TypeOK`; every other action leaves their state alone.
* `MajorityCorrect`: `TerminateOnMajority`. With the tally, what `CanTerminate`
  compares are cardinalities of sets of peers (`CanTerminateMeans`).
* `VoteImplemented`: `Spec => ImplementsVote`. The abstract phase depends on
  `mproc` and `mstate`, so `PhaseInv` relates them; an accepted answer is
  `Cast` (`CastStep`), with the new leader shown to be a mode that changes only
  when the old one no longer is; everything else is `Close`, `Stop` or a stutter
  (`OtherStep`).
* `ExpectedCorrect`, `RoundTripCorrect`: `AnswersExpected` and `AnswerRoundTrip` of
  the whole protocol. `SubmitInv` follows a worker from the message that starts its
  work, which the master sends only when it has taken the worker up, to its answer:
  what it computes is what it submits, masked.
* `RoundTrip`: unmasking inverts masking when the sum fits.

**ParallelPurchaseProofs.** For every finite set of groups and peers, any stock,
any trackers: `TypeCorrect`, `NeverIdle`, `OneAtATime`, `SuccessIsTrue`,
`NothingForgotten` (`StoredIsKnown`) and `Implements` (`Spec => ImplementsFetch`).
`NoIdleGroup` needs that a purchase that runs is one of the session's latest for its
group (`LatestIsOpen`), as a failed one decides from the session's state who is
asked next; `SuccessMeansHeld` needs that the count of missing groups is right
(`CountIsRight`), that a group bought is stored (`BoughtIsHeld`) and that a success
posted was true (`PostedIsTrue`). `StoredIsKnown` needs `LatestIsOpen` too: a result
moves the session on only if it is the latest purchase's. `Inv` is these parts
together.

**FileShareProofs.** For every finite set of peers and requests and lists of any
length: `TypeCorrect`, `ListedCorrect` (`ListedWasServed`), `AllCorrect` (`AllMeansAll`)
and `AnswersAreOwn`, that what a user is told is about its own request. `Inv` says
that ids are given once and their entries are their requests' (`IdsAreGiven`,
`IdsAreOwn`), that `sendingCnt` is the length of the list less the peers that are
finished (`CountIsRight`), that an offer is taken up once (`OffersOnce`), and that
whatever says that a peer has its pack, on its way or recorded, is true
(`ReportedIsServed`).

**TwoTasksProofs.** For any nodes, tasks, set of volunteers, handler ids and
capacity of the channels:

* `TypeCorrect`: `TypeOK`. That an address taken is one there is needs `Counting`:
  the counter is the number of tasks begun.
* `KnownCorrect`: `HandlersKnown`. Ids wrap and handlers are replaced, but an
  emulator never loses an id, so it is enough that a message carries an id to
  answer to that was known when it was sent (`Right`).
* `ForTaskCorrect`: `AnswersForTask`. Unless an address is shared a worker session
  finds its own task in the contract; `Right` says what a message of each kind
  promises (a request has the address of its task, an answer comes from a worker
  that means the task), `ListenersRight` that a channel hears one kind,
  `ContractsRight` and `Deployed` that contracts are at the address of their task and
  tell sessions with that address. With shared addresses the same invariant says
  what remains true: the tasks that are mixed up have one address.

  A step keeps it because ids and addresses are given for good and what a session
  found remains (`Grow`); one lemma per action.

**KadTableProofs, KadDHTProofs.** For every width of ids, any K and any handlers.
The lemmas say what `Insert`, `Remove`, `Update`, `Get`, `Has` and `GetK` do to a
table, in terms of what is in its buckets and, with `LookUp`, of the place where
all four look-ups find the same entry.

* `TypeCorrect`: the type invariant of one table under any calls.
* `NearestCorrect`: `GetKNearest`. The invariant is `Sorted`: an entry is in the
  bucket of its id, once. `GetKWalks` says that `GetK` takes the buckets from that
  of the id down, so that what it leaves out is behind what it returns;
  `DistOver` relates the distances of three ids by their highest differing
  bits, which makes "behind" mean "not nearer".
* `DirectoryImplemented`: `Spec => ImplementsDirectory`. The stack of an id is the
  part of its bucket that leads to it (`Leading`, a concatenation of singletons);
  `FlattenConcat` splits that part where the bucket is split, so that Insert puts one
  entry in front of it, Remove takes its first, and a move to the front leaves it
  as it is, for its own id and for those that share the bucket.

**P2PServerProofs.** For any nodes, static peers, plans, listeners, pools and
bounds:

* `TypeCorrect`: `TypeOK`, which needs that a handler that runs has a peer
  (`DstKnown`), that static peers are known and that what is on the wire is a message
  or a ping (`StaticKnown`, `NetTyped`).
* `DeliveredCorrect`: `DeliveredWasSent`.
  A message goes from `sendChan` through a handler, the network, a reader and
  `handlerChan`, and back for a node it is not for; `Flow` says of each of these that
  what is in it was in the one before, and `RoutingInv` adds that all of it was
  sent (`SentBefore`).
* `RoutesEnd`: `RoutesRunOut`, with any number of nodes, hops and copies, whatever
  is in the tables. `Flow` also says that what a message came from is gone from
  where it was; so each new copy pays (`Pays`), with a copy of the same message one
  stage before it, or at the end of its last hop with one hop more (`Moves`), or it
  is one the node has just made (`JustMade`). One step for each place a copy may be
  in (`CopyPaid`).
* `OnePerPeer`, `BothKnowCorrect`, `AdvanceCorrect`: `OneHandlerPerPeer`,
  `ConnectedBothKnow` and `StateAdvances`, *as long as no disconnect timer has gone
  off* (`NoneExpired`), which is an hypothesis on the state and no bound on the
  system: the run with no expiry is one instance of it. The hypothesis is needed. After an expiry a
  handler goes back to the pool while its reader may still hold a datagram, and a
  reader that read state PING sets CONN after DISCONN (`net/p2p.go:488`), a step
  back; its notice then gives the handler back a second time, and two peers get
  one handler. `ConnInv` says that handlers outside the table are as made
  (`Fresh`), that one in the table runs, has its peer's socket once it has been
  told to connect, and is pinged once connected (`Placed`, with `Lives`, `AddrRight`,
  `Pinged`), and that what is under way says the same (`Underway`). It is
  inductive because a handler in the table stays there with its peer (`Grown`): one
  lemma per action (`KeptConnect`, `KeptRecv`, ...) shows `Kept`, from which the words
  under way follow.
* `PooledCorrect`: `PooledIsStopping`, with any number of expiries and of returns.
  `StepKinds` divides the steps into those that open a handler, those that give one
  back and the rest (`Ordinary`: a goroutine's turn keeps the handler's peer, and
  takes a token for a loop that returns). The invariant is an account
  (`Accounted`): the loops of a handler and its places in the pool, with one place
  more before it is made, are at most the tokens on its `ctrlChan` and one. An
  opening turns a place into a loop, a return adds a place and a token, a loop
  that ends takes a token. It is needed in that form since a handler in the pool
  twice would else seem to be free to run.
* `DeadLeaves`, `OneAfterExpiry`: `Spec /\ []PooledIsOut` implies
  `[]DeadEntryIsLeaving` and `[]OneHandlerPerPeer`, for any number of timers.
  `PooledIsOut` is weaker than "no timer has gone off": expiries and reuse are in it. `LeavingInv` says that only handlers that were
  made are known to anything (`MadeIn`, so that a new one is in no table), that the
  tables are sorted, with one handler per peer (`TableSorted`, `OnePeer`), and that
  the notice for a dead entry names the peer under which the table has it
  (`Leaving`). The last is the point: a notice takes out what is there for its
  peer, whatever handler it is about.

**LoopedQueueProofs.** For every size of the ring with `2 * (Size + 1) <=
SeqSpace`, every number of sequence numbers and every first one:

* `QueueTypeCorrect`: the two ends never leave the ring (proved only: the run would
  see a wrong end in `ImplementsQueue`).
* `QueueImplemented`: `Spec => ImplementsQueue`. `TypeOK` is all the invariant
  it needs: the entries that wait are a function of the two ends and the data
  (`Entries`), and `PopEntries`, `PushEntries`, `SetEntries` say what one step of
  an end, or one exchange, does to them. They rest on the distance and the slot
  of an entry written without remainders (`DistIs`, `SlotIs`), which are inverse to
  each other; that the index calculation does not wrap is the bound on `Size`.
* `FoundBySeqCorrect`: `GetBySeq` finds the entry with the number as long as the
  first entry is in slot 0, and never one that has left; from `SeqDistance`, that
  distances survive the wrap of the numbers.

**Model-checked only:** the liveness properties (`TaskCompletes`, `SubmitReturns`,
`UserGetsAnswer`, `ServedIsListed`, `AskedIsConnected`) and `RestIsDone`, as fairness
and ENABLED are out of the prover's reach. Not claimed at all is what the code does
not keep: `ConnectedBothKnow` and `StateAdvances` after an expiry, and what
`DeadLeaves` and `OneAfterExpiry` say, after a handler was given out while in use.

## 6. Not modelled, and why

* Encoders and signatures are conversions without state; the timer wrapper
  serves only the multi packet transfer; `main.go` starts one server.
* The scheduler is a stub: its map of tasks is never made, so the first task
  panics, and nothing sends it results.
* The multi packet transfer is created by no code, its constructor leaves
  queues, maps and lists nil, so that no handler of it can be in any state but
  the first; `NaiveNetHandler`, which should use it, has an empty `Send` and `run`.
* Of the server: `getSelfPubIp` (a NAT's view of a socket is taken to be the
  socket), duplicated datagrams, read errors on a disposed socket.
* A map access is atomic everywhere. The Go runtime may notice that the maps of
  user channels, of contracts and of emulator channels are accessed by several
  goroutines at once, and then ends the process.
* Of the file system: several users' purchases at one node, and groups of files
  with one first key. `RemoveListener` has no caller, `ListenPunish` is empty.

## 7. Plan

Done: the vote; the file system's protocols, with the tracker's answer as a
function of the shares; several tasks over emulator and chain; the table; the
server for two nodes; the queue; and theorems for all of them. Next:

1. Routing over three nodes, with handlers reduced to their state.
2. The multi packet transfer, once something creates it.

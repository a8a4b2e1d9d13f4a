------------------------------ MODULE CalcTask ------------------------------
(***************************************************************************)
(* One sub task of the volunteer-computing protocol, from the deployment   *)
(* of its contract to the majority vote that ends it: the master session   *)
(* (master/session.go), the worker sessions the workers start for it       *)
(* (worker/worker.go, worker/session.go), the contract they meet at        *)
(* (chain/calc_contract.go) and the messages of the network emulator       *)
(* (net/net.go, net/application.go).                                       *)
(*                                                                         *)
(* A goroutine's event loop takes one event of one channel per step, so    *)
(* every case of a select is an action.  A goroutine that does nothing but *)
(* wait and then send is a message, a result or a call in flight.          *)
(***************************************************************************)
EXTENDS Integers, Sequences, FiniteSets, HashConfound

CONSTANTS
    Workers,         \* nodes running a Worker that receive the broadcast
    UnitTaskCnt,     \* SubTask.UnitTaskCnt
    OutputCnts,      \* numbers of output keys the task may have
    MinAnswerCnt,    \* SubTask.MinAnswerCnt
    AnswerCap,       \* capacity of peerAnswerChan
    ConfoundKey,     \* genConfoundKey(w): a hash for each worker
    Hashes,          \* answer hashes the executers compute
    Groups,          \* the key groups of the task's input files
    FirstGroup,      \* KeyGroup[0], which the worker reads after fetching
    InitHeld,        \* groups every worker's file system holds beforehand
    DeployOutcomes,  \* values of DeployResult.OK
    FetchOutcomes,   \* values of ParalleledPurchaseResult.OK
    ExecOutcomes     \* values of ExecuteResult.OK

ASSUME WorkersAssumption == IsFiniteSet(Workers)
ASSUME CountsAssumption  == /\ UnitTaskCnt \in Nat /\ OutputCnts \subseteq Nat
                            /\ MinAnswerCnt \in Nat
                            /\ AnswerCap \in Nat \ {0}
ASSUME HashesAssumption  == /\ ConfoundKey \in [Workers -> Space]
                            /\ Hashes \subseteq Space
ASSUME GroupsAssumption  == FirstGroup \in Groups /\ InitHeld \subseteq Groups
ASSUME OutcomesAssumption == /\ DeployOutcomes \subseteq BOOLEAN
                             /\ FetchOutcomes \subseteq BOOLEAN
                             /\ ExecOutcomes \subseteq BOOLEAN

VARIABLES
    mstate,          \* SubTaskSession.state
    mproc,           \* its goroutine: "idle", "live", "returned", "crashed"
    deployResult,    \* the contract's answer on its way to deployChan
    listening,       \* SubmitListeners of the contract holds peerAnswerChan
    terminateCalls,  \* results of Terminate on their way to terminateChan
    peerState,       \* peers[w].State, "NONE" when w is not in peers
    peerAnswers,     \* peers[w].Answers, NoAnswer for a unit it has none of
    answers,         \* answers[i][hash], 0 when the map has no such key
    validAnswers, validAnswerCnt, answerCnt,
    answerChan,      \* peerAnswerChan
    msgs,            \* network messages in flight
    wstate,          \* WorkerSession.state, "NONE" before the request
    wproc,           \* its goroutine
    validateResult,  \* the contract's answer on its way to validateChan
    held,            \* groups whose files are in the worker's file system
    fetchResults,    \* results of the purchase that wait to be received
    fetchReports,    \* the results the purchase has posted so far
    exec,            \* the executer: "idle", "running", "ok", "failed"
    computed,        \* the hashes it computed, one for each output key
    submitCall       \* the goroutine of Submit

mvars == <<mstate, mproc, deployResult, listening, terminateCalls>>
votes == <<peerAnswers, answers, validAnswers, validAnswerCnt, answerCnt>>
fetch == <<held, fetchResults, fetchReports>>
work  == <<exec, computed, submitCall>>
vars  == <<mvars, votes, peerState, answerChan, msgs, wstate, wproc,
           validateResult, fetch, work>>

Hash == Space
ZeroHash == 0
NoAnswer == -1

\* The unit tasks, and the answers an executer may give: a hash for each
\* output key of the task, of which there need not be one for each unit.
Units == 1 .. UnitTaskCnt
AnsHash == UNION {[1 .. n -> Hash] : n \in OutputCnts}

\* What travels between the master's handler and the workers' handlers:
\* the MasterReqMsg of the broadcast, the WorkerResMsg that answers it and
\* the TaskMetaInfo that answers that one.
Message == [type : {"CPROC_WAIT", "CPROC_RES", "CPROC_META"}, worker : Workers]
Msg(t, w) == [type |-> t, worker |-> w]

\* What the contract posts to the master for a Submit.
Call == [caller : Workers, ansHash : AnsHash]

\* Every session of a worker is a session for this task: the request names
\* the master that sent it, and the contract the master deployed.
TypeOK ==
    /\ mstate \in {"UN", "DEPLOYING", "RUNNING", "TERMINATING", "TERMINATED"}
    /\ mproc \in {"idle", "live", "returned", "crashed"}
    /\ deployResult \in {"none", "ok", "failed"}
    /\ listening \in BOOLEAN
    /\ terminateCalls \in Nat
    /\ peerState \in [Workers -> {"NONE", "RUNNING", "SUBMITTED"}]
    /\ peerAnswers \in [Workers -> [Units -> Hash \cup {NoAnswer}]]
    /\ answers \in [Units -> [Hash -> Nat]]
    /\ validAnswers \in [Units -> Hash]
    /\ validAnswerCnt \in [Units -> Nat]
    /\ answerCnt \in Nat
    /\ answerChan \in Seq(Call)
    /\ msgs \subseteq Message
    /\ wstate \in [Workers -> {"NONE", "PREPARING", "STARTED", "FETCHING", "RUNNING"}]
    /\ wproc \in [Workers -> {"idle", "live", "returned", "crashed"}]
    /\ validateResult \in [Workers -> {"none", "ok"}]
    /\ held \in [Workers -> SUBSET Groups]
    /\ fetchResults \in [Workers -> SUBSET BOOLEAN]
    /\ fetchReports \in [Workers -> SUBSET BOOLEAN]
    /\ exec \in [Workers -> {"idle", "running", "ok", "failed"}]
    /\ computed \in [Workers -> AnsHash]
    /\ submitCall \in [Workers -> {"none", "calling", "notified"}]

Init ==
    /\ mstate = "UN" /\ mproc = "idle"
    /\ deployResult = "none" /\ listening = FALSE /\ terminateCalls = 0
    /\ peerState = [w \in Workers |-> "NONE"]
    /\ peerAnswers = [w \in Workers |-> [i \in Units |-> NoAnswer]]
    /\ answers = [i \in Units |-> [h \in Hash |-> 0]]
    /\ validAnswers = [i \in Units |-> ZeroHash]
    /\ validAnswerCnt = [i \in Units |-> 0]
    /\ answerCnt = 0
    /\ answerChan = <<>>
    /\ msgs = {}
    /\ wstate = [w \in Workers |-> "NONE"]
    /\ wproc = [w \in Workers |-> "idle"]
    /\ validateResult = [w \in Workers |-> "none"]
    /\ held = [w \in Workers |-> InitHeld]
    /\ fetchResults = [w \in Workers |-> {}]
    /\ fetchReports = [w \in Workers |-> {}]
    /\ exec = [w \in Workers |-> "idle"]
    /\ \E n \in OutputCnts :
          computed = [w \in Workers |-> [i \in 1 .. n |-> ZeroHash]]
    /\ submitCall = [w \in Workers |-> "none"]

-----------------------------------------------------------------------------
(* The master session *)

\* Start: Deploy posts its result, the listener is added, the loop started.
Start ==
    /\ mproc = "idle"
    /\ mproc' = "live"
    /\ mstate' = "DEPLOYING"
    /\ deployResult' \in {IF ok THEN "ok" ELSE "failed" : ok \in DeployOutcomes}
    /\ UNCHANGED <<listening, terminateCalls, votes, peerState, answerChan,
                   msgs, wstate, wproc, validateResult, fetch, work>>

\* The session listens to submissions before it publishes the task.
DeployResult ==
    /\ mproc = "live" /\ deployResult # "none"
    /\ deployResult' = "none"
    /\ IF mstate = "DEPLOYING"
       THEN IF deployResult = "ok"
            THEN /\ listening' = TRUE
                 /\ mstate' = "RUNNING"
                 /\ msgs' = msgs \cup {Msg("CPROC_WAIT", w) : w \in Workers}
                 /\ mproc' = mproc
            ELSE mproc' = "returned" /\ UNCHANGED <<listening, mstate, msgs>>
       ELSE UNCHANGED <<mproc, listening, mstate, msgs>>
    /\ UNCHANGED <<terminateCalls, votes, peerState, answerChan, wstate,
                   wproc, validateResult, fetch, work>>

\* A worker that is new gets the task's meta data and may submit from now
\* on.  Nothing looks at the state of the session.
PeerRes(w) ==
    LET res == Msg("CPROC_RES", w) IN
    /\ mproc = "live" /\ res \in msgs
    /\ IF peerState[w] = "NONE"
       THEN /\ peerState' = [peerState EXCEPT ![w] = "RUNNING"]
            /\ msgs' = (msgs \ {res}) \cup {Msg("CPROC_META", w)}
       ELSE peerState' = peerState /\ msgs' = msgs \ {res}
    /\ UNCHANGED <<mvars, votes, answerChan, wstate, wproc, validateResult,
                   fetch, work>>

\* Mutants: a tie counts, one settled unit is enough, the winner must have
\* more answers than there are.
CanTerminateOnTie(cnts, n) ==
    /\ n >= MinAnswerCnt
    /\ \A i \in Units : cnts[i] * 2 >= n
CanTerminateOnOneUnit(cnts, n) ==
    /\ n >= MinAnswerCnt
    /\ \E i \in Units : cnts[i] * 2 > n
CanTerminateNever(cnts, n) ==
    /\ n >= MinAnswerCnt
    /\ \A i \in Units : cnts[i] > n

CanTerminate(cnts, n) ==
    /\ n >= MinAnswerCnt
    /\ \A i \in Units : cnts[i] * 2 > n

\* The hashes the loop of line 171 gets through: it stops at the first that
\* cannot be unmasked, or that has no unit, where it panics.
Readable(w, ans) ==
    {i \in Units \cap DOMAIN ans :
        \A j \in 1 .. i : ~UnconfoundPanics(ans[j], ConfoundKey[w])}

\* Mutant: the incremented count is not written back to the map.
CountAnswerUnsaved(w, ans) ==
    LET read   == Readable(w, ans)
        answer == [i \in Units |-> IF i \in read
                                   THEN Unconfound(ans[i], ConfoundKey[w]) ELSE NoAnswer]
        cnt    == [i \in read |-> answers[i][answer[i]] + 1]
        ahead  == {i \in read : validAnswerCnt[i] < cnt[i]}
    IN  /\ peerState' = [peerState EXCEPT ![w] = "SUBMITTED"]
        /\ peerAnswers' = [peerAnswers EXCEPT ![w] = answer]
        /\ validAnswers' = [i \in Units |-> IF i \in ahead THEN answer[i] ELSE validAnswers[i]]
        /\ validAnswerCnt' = [i \in Units |-> IF i \in ahead THEN cnt[i] ELSE validAnswerCnt[i]]
        /\ answerCnt' = answerCnt + 1
        /\ UNCHANGED answers

\* Counting one worker's hashes: unmask, count, and remember for every unit
\* the first answer that got strictly ahead.
CountAnswer(w, ans) ==
    LET read   == Readable(w, ans)
        answer == [i \in Units |-> IF i \in read
                                   THEN Unconfound(ans[i], ConfoundKey[w]) ELSE NoAnswer]
        cnt    == [i \in read |-> answers[i][answer[i]] + 1]
        ahead  == {i \in read : validAnswerCnt[i] < cnt[i]}
    IN  /\ peerState' = [peerState EXCEPT ![w] = "SUBMITTED"]
        /\ peerAnswers' = [peerAnswers EXCEPT ![w] = answer]
        /\ answers' = [i \in Units |-> IF i \in read
                                       THEN [answers[i] EXCEPT ![answer[i]] = cnt[i]]
                                       ELSE answers[i]]
        /\ validAnswers' = [i \in Units |-> IF i \in ahead THEN answer[i] ELSE validAnswers[i]]
        /\ validAnswerCnt' = [i \in Units |-> IF i \in ahead THEN cnt[i] ELSE validAnswerCnt[i]]
        /\ answerCnt' = answerCnt + 1

\* An answer of a worker that was given the task and has not answered yet.
PeerAnswer ==
    LET call == Head(answerChan) IN
    /\ mproc = "live" /\ answerChan # <<>>
    /\ answerChan' = Tail(answerChan)
    /\ IF peerState[call.caller] = "RUNNING"
       THEN /\ Readable(call.caller, call.ansHash) = DOMAIN call.ansHash
            /\ CountAnswer(call.caller, call.ansHash)
            /\ IF CanTerminate(validAnswerCnt', answerCnt')
               THEN mstate' = "TERMINATING" /\ terminateCalls' = terminateCalls + 1
               ELSE UNCHANGED <<mstate, terminateCalls>>
       ELSE UNCHANGED <<peerState, votes, mstate, terminateCalls>>
    /\ UNCHANGED <<mproc, deployResult, listening, msgs, wstate, wproc,
                   validateResult, fetch, work>>

\* big.Int.Bytes() drops leading zero bytes, and slicing what is left to 20
\* bytes panics, as does a hash more than there are units: the process of the
\* master is gone, with the answer taken and counted up to there.
PeerAnswerPanics ==
    LET call == Head(answerChan) IN
    /\ mproc = "live" /\ answerChan # <<>>
    /\ answerChan' = Tail(answerChan)
    /\ peerState[call.caller] = "RUNNING"
    /\ Readable(call.caller, call.ansHash) # DOMAIN call.ansHash
    /\ CountAnswer(call.caller, call.ansHash)
    /\ mproc' = "crashed"
    /\ UNCHANGED <<mstate, deployResult, listening, terminateCalls, msgs,
                   wstate, wproc, validateResult, fetch, work>>

\* Mutant: the session closes the task without waiting for the result.
TerminateResultEarly ==
    /\ mproc = "live" /\ mstate = "RUNNING"
    /\ terminateCalls' = terminateCalls - 1
    /\ mstate' = "TERMINATED"
    /\ mproc' = "returned"
    /\ UNCHANGED <<deployResult, listening, votes, peerState, answerChan,
                   msgs, wstate, wproc, validateResult, fetch, work>>

TerminateResult ==
    /\ mproc = "live" /\ terminateCalls > 0
    /\ terminateCalls' = terminateCalls - 1
    /\ mstate' = "TERMINATED"
    /\ mproc' = "returned"
    /\ UNCHANGED <<deployResult, listening, votes, peerState, answerChan,
                   msgs, wstate, wproc, validateResult, fetch, work>>

-----------------------------------------------------------------------------
(* The worker *)

\* The worker starts a session for a request of the master that signed it;
\* its first step is to have the contract validated.
TaskRequest(w) ==
    LET req == Msg("CPROC_WAIT", w) IN
    /\ req \in msgs
    /\ msgs' = msgs \ {req}
    /\ wstate' = [wstate EXCEPT ![w] = "PREPARING"]
    /\ wproc' = [wproc EXCEPT ![w] = "live"]
    /\ validateResult' = [validateResult EXCEPT ![w] = "ok"]
    /\ UNCHANGED <<mvars, votes, peerState, answerChan, fetch, work>>

ValidateResult(w) ==
    /\ wproc[w] = "live" /\ validateResult[w] # "none"
    /\ validateResult' = [validateResult EXCEPT ![w] = "none"]
    /\ IF wstate[w] = "PREPARING"
       THEN /\ wstate' = [wstate EXCEPT ![w] = "STARTED"]
            /\ msgs' = msgs \cup {Msg("CPROC_RES", w)}
       ELSE UNCHANGED <<wstate, msgs>>
    /\ UNCHANGED <<mvars, votes, peerState, answerChan, wproc, fetch, work>>

\* The meta data of the task: the worker starts to purchase its input files.
Meta(w) ==
    LET meta == Msg("CPROC_META", w) IN
    /\ wproc[w] = "live" /\ meta \in msgs
    /\ msgs' = msgs \ {meta}
    /\ wstate' = [wstate EXCEPT ![w] = IF @ = "STARTED" THEN "FETCHING" ELSE @]
    /\ UNCHANGED <<mvars, votes, peerState, answerChan, wproc,
                   validateResult, fetch, work>>

\* Mutant: the session waits on for a success after a purchase that failed.
PurchaseResultWaits(w, ok) ==
    /\ wproc[w] = "live" /\ ok \in fetchResults[w]
    /\ fetchResults' = [fetchResults EXCEPT ![w] = @ \ {ok}]
    /\ IF wstate[w] = "FETCHING" /\ ok
       THEN /\ FirstGroup \in held[w]
            /\ wstate' = [wstate EXCEPT ![w] = "RUNNING"]
            /\ exec' = [exec EXCEPT ![w] = "running"]
       ELSE UNCHANGED <<wstate, exec>>
    /\ UNCHANGED <<mvars, votes, peerState, answerChan, msgs, wproc,
                   validateResult, held, fetchReports, computed, submitCall>>

\* The purchase is over, whatever its result says; the files of the first
\* group are read, and reading a key that is not there panics.
PurchaseResult(w, ok) ==
    /\ wproc[w] = "live" /\ ok \in fetchResults[w]
    /\ fetchResults' = [fetchResults EXCEPT ![w] = @ \ {ok}]
    /\ IF wstate[w] = "FETCHING"
       THEN /\ FirstGroup \in held[w]
            /\ wstate' = [wstate EXCEPT ![w] = "RUNNING"]
            /\ exec' = [exec EXCEPT ![w] = "running"]
       ELSE UNCHANGED <<wstate, exec>>
    /\ UNCHANGED <<mvars, votes, peerState, answerChan, msgs, wproc,
                   validateResult, held, fetchReports, computed, submitCall>>

PurchaseResultPanics(w) ==
    /\ wproc[w] = "live" /\ fetchResults[w] # {}
    /\ wstate[w] = "FETCHING" /\ FirstGroup \notin held[w]
    /\ wproc' = [wproc EXCEPT ![w] = "crashed"]
    /\ UNCHANGED <<mvars, votes, peerState, answerChan, msgs, wstate,
                   validateResult, fetch, work>>

\* Mutant: the executer's result is submitted again.
ExecuteResultAgain(w) ==
    /\ wproc[w] = "live" /\ exec[w] = "ok" /\ submitCall[w] # "calling"
    /\ \A i \in DOMAIN computed[w] : ~ConfoundPanics(computed[w][i], ConfoundKey[w])
    /\ submitCall' = [submitCall EXCEPT ![w] = "calling"]
    /\ UNCHANGED <<mvars, votes, peerState, answerChan, msgs, wstate, wproc,
                   validateResult, fetch, exec, computed>>

\* The answers are masked with the worker's key and submitted.
ExecuteResult(w) ==
    /\ wproc[w] = "live" /\ exec[w] = "ok" /\ submitCall[w] = "none"
    /\ \A i \in DOMAIN computed[w] : ~ConfoundPanics(computed[w][i], ConfoundKey[w])
    /\ submitCall' = [submitCall EXCEPT ![w] = "calling"]
    /\ UNCHANGED <<mvars, votes, peerState, answerChan, msgs, wstate, wproc,
                   validateResult, fetch, exec, computed>>

ExecuteResultPanics(w) ==
    /\ wproc[w] = "live" /\ exec[w] = "ok" /\ submitCall[w] = "none"
    /\ \E i \in DOMAIN computed[w] : ConfoundPanics(computed[w][i], ConfoundKey[w])
    /\ wproc' = [wproc EXCEPT ![w] = "crashed"]
    /\ UNCHANGED <<mvars, votes, peerState, answerChan, msgs, wstate,
                   validateResult, fetch, work>>

\* The session ends with the result of Submit.
SubmitResult(w) ==
    /\ wproc[w] = "live" /\ submitCall[w] = "notified"
    /\ wproc' = [wproc EXCEPT ![w] = "returned"]
    /\ UNCHANGED <<mvars, votes, peerState, answerChan, msgs, wstate,
                   validateResult, fetch, work>>

-----------------------------------------------------------------------------
(* What the worker waits for: its file system, its executer, the contract *)

\* From the meta data on, a purchase is under way; what it does after the
\* session ended is not looked at any more.
Fetching(w) == wproc[w] = "live" /\ wstate[w] \in {"FETCHING", "RUNNING"}

\* The parallel purchase stores the files of a group.
FileArrives(w, g) ==
    /\ Fetching(w) /\ g \notin held[w]
    /\ held' = [held EXCEPT ![w] = @ \cup {g}]
    /\ UNCHANGED <<mvars, votes, peerState, answerChan, msgs, wstate, wproc,
                   validateResult, fetchResults, fetchReports, work>>

\* The parallel purchase posts a result, as module Fetch says: success once
\* every group is there, failure when its timer fires, possibly both.  The
\* channel it reaches the session by has room for one.
FetchReport(w, ok) ==
    /\ Fetching(w)
    /\ fetchReports[w] \subseteq {TRUE} \ {ok} /\ fetchResults[w] = {}
    /\ ok => held[w] = Groups
    /\ fetchReports' = [fetchReports EXCEPT ![w] = @ \cup {ok}]
    /\ fetchResults' = [fetchResults EXCEPT ![w] = {ok}]
    /\ UNCHANGED <<mvars, votes, peerState, answerChan, msgs, wstate, wproc,
                   validateResult, held, work>>

\* The executer ends with a hash for every output key, or with a failure, to
\* which the session does not react.
ExecuteDone(w, ok, ans) ==
    /\ wproc[w] = "live" /\ exec[w] = "running"
    /\ exec' = [exec EXCEPT ![w] = IF ok THEN "ok" ELSE "failed"]
    /\ computed' = IF ok THEN [computed EXCEPT ![w] = ans] ELSE computed
    /\ UNCHANGED <<mvars, votes, peerState, answerChan, msgs, wstate, wproc,
                   validateResult, fetch, submitCall>>

\* What the worker submits for what its executer computed.
Masked(w) == [i \in DOMAIN computed[w] |-> Confound(computed[w][i], ConfoundKey[w])]

\* Mutant: the send to the listener does not wait for a place in the channel,
\* and the goroutine ends without it.
SubmitNotifyGivesUp(w) ==
    /\ submitCall[w] = "calling"
    /\ IF listening
       THEN IF Len(answerChan) < AnswerCap
            THEN /\ answerChan' = Append(answerChan, [caller |-> w, ansHash |-> Masked(w)])
                 /\ submitCall' = [submitCall EXCEPT ![w] = "notified"]
            ELSE answerChan' = answerChan /\ submitCall' = [submitCall EXCEPT ![w] = "given up"]
       ELSE answerChan' = answerChan /\ submitCall' = [submitCall EXCEPT ![w] = "notified"]
    /\ UNCHANGED <<mvars, votes, peerState, msgs, wstate, wproc,
                   validateResult, fetch, exec, computed>>

\* The goroutine of Submit: it blocks in the send to the listener while the
\* channel is full, and posts the result to the worker only after it.
SubmitNotify(w) ==
    /\ submitCall[w] = "calling"
    /\ submitCall' = [submitCall EXCEPT ![w] = "notified"]
    /\ IF listening
       THEN /\ Len(answerChan) < AnswerCap
            /\ answerChan' = Append(answerChan, [caller |-> w, ansHash |-> Masked(w)])
       ELSE answerChan' = answerChan
    /\ UNCHANGED <<mvars, votes, peerState, msgs, wstate, wproc,
                   validateResult, fetch, exec, computed>>

-----------------------------------------------------------------------------
Master ==
    \/ Start
    \/ DeployResult
    \/ \E w \in Workers : PeerRes(w)
    \/ PeerAnswer
    \/ PeerAnswerPanics
    \/ TerminateResult

Worker(w) ==
    \/ TaskRequest(w)
    \/ ValidateResult(w)
    \/ Meta(w)
    \/ \E ok \in BOOLEAN : PurchaseResult(w, ok)
    \/ PurchaseResultPanics(w)
    \/ ExecuteResult(w)
    \/ ExecuteResultPanics(w)
    \/ SubmitResult(w)

Environment(w) ==
    \/ \E g \in Groups : FileArrives(w, g)
    \/ \E ok \in FetchOutcomes : FetchReport(w, ok)
    \/ \E ok \in ExecOutcomes, ans \in [DOMAIN computed[w] -> Hashes] : ExecuteDone(w, ok, ans)
    \/ SubmitNotify(w)

Next == Master \/ \E w \in Workers : Worker(w) \/ Environment(w)

Spec == Init /\ [][Next]_vars

\* The Go scheduler runs every goroutine that can run, a select that has an
\* event takes one, and each event is taken at most once, so weak fairness
\* of the two event loops is what the runtime gives.  The purchase ends by
\* its timer at the latest.  What a worker waits for are goroutines of their
\* own, but each takes a bounded number of steps, so that weak fairness of
\* them together leaves none of them behind.
Fairness ==
    /\ WF_vars(Master)
    /\ \A w \in Workers : WF_vars(Worker(w)) /\ WF_vars(Environment(w))

FairSpec == Spec /\ Fairness
-----------------------------------------------------------------------------
(* Properties *)

Submitted == {w \in Workers : peerState[w] = "SUBMITTED"}
Supporters(i, h) == {w \in Submitted : peerAnswers[w][i] = h}

\* The counters run() updates are a tally: answers[i][h] is the number of
\* peers whose recorded answer for unit i is h, answerCnt the number of
\* peers that submitted, whatever order and however late answers arrive.
VoteTally ==
    /\ answerCnt = Cardinality(Submitted)
    /\ \A i \in Units, h \in Hash : answers[i][h] = Cardinality(Supporters(i, h))

\* The running maximum of master/session.go:184-187 is right: no hash of a unit
\* has more votes than validAnswers[i], and validAnswerCnt[i] are its votes.
WinnerIsMode ==
    \A i \in Units :
        /\ answers[i][validAnswers[i]] = validAnswerCnt[i]
        /\ \A h \in Hash : answers[i][h] <= validAnswerCnt[i]

\* For every unit, more than half of the peers that submitted, at least
\* MinAnswerCnt in all, gave the answer the session will report.
Decided ==
    /\ Cardinality(Submitted) >= MinAnswerCnt
    /\ \A i \in Units :
          2 * Cardinality(Supporters(i, validAnswers[i])) > Cardinality(Submitted)

\* The session turns to TERMINATING only when the vote is decided: a fact
\* about the peers and their answers, not about the counters run() compares.
TerminateOnMajority ==
    [][mstate # "TERMINATING" /\ mstate' = "TERMINATING" => Decided']_vars

\* The guard of the peerAnswerChan case (line 165 of master/session.go) never
\* drops an answer: a worker submits what it was given, so a caller in the channel
\* is a peer in state RUNNING, and is in it once.
AnswersExpected ==
    /\ \A n \in 1 .. Len(answerChan) : peerState[answerChan[n].caller] = "RUNNING"
    /\ \A m, n \in 1 .. Len(answerChan) :
          answerChan[m].caller = answerChan[n].caller => m = n

\* Masking and unmasking agree: what the master counts for a worker is what
\* the worker's executer computed, unless the sum needs a 21st byte (then
\* the worker cut the low byte off).  Only a master that died of an answer
\* has left a hash of it uncounted.
AnswerRoundTrip ==
    \A w \in Workers : \A i \in Units \cap DOMAIN computed[w] :
        peerState[w] = "SUBMITTED" /\ computed[w][i] + ConfoundKey[w] < HashLimit
            => \/ peerAnswers[w][i] = computed[w][i]
               \/ peerAnswers[w][i] = NoAnswer /\ mproc = "crashed"

\* In the end each Submit has come back to its worker, unless the master left
\* its loop with the channel full: then the goroutine, and the worker's
\* session, wait forever.
Answered(w) ==
    \/ wproc[w] = "returned"
    \/ mproc # "live" /\ Len(answerChan) = AnswerCap

SubmitReturns == <>[](\A w \in Workers : submitCall[w] # "none" => Answered(w))

\* What may keep a deployed task from its end: an answer that cannot be
\* masked or read, an executer that failed, no majority although all workers
\* have answered.  A worker whose purchase failed may have nothing to read
\* when it goes on all the same; after a good one it has.
Spoiled ==
    \/ mproc = "crashed"
    \/ \E w \in Workers :
        \/ exec[w] = "failed"
        \/ wproc[w] = "crashed" /\ (wstate[w] = "RUNNING" \/ fetchReports[w] # {TRUE})
    \/ Submitted = Workers /\ ~Decided

\* Every other deployed task is TERMINATED, although its last workers may be
\* stuck in Submit, answers arrive while it is TERMINATING, and the loop of a
\* worker starts executing whatever the result of its purchase says.
TaskCompletes == (mstate = "RUNNING") ~> (mstate = "TERMINATED" \/ Spoiled)

\* The master session implements the vote.
Phase ==
    IF mstate = "TERMINATED" THEN "closed"
    ELSE IF mproc \in {"crashed", "returned"} THEN "stopped"
    ELSE IF mstate = "TERMINATING" THEN "closing"
    ELSE "open"

MV == INSTANCE MajorityVote
        WITH voted <- Submitted, vote <- peerAnswers,
             winner <- validAnswers, phase <- Phase

\* Every step of the master, the workers and the contract is a vote, the
\* closing of the poll, its end, or nothing at all.
ImplementsVote == MV!Spec
=============================================================================

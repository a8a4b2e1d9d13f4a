--------------------------- MODULE CalcTaskProofs ---------------------------
(***************************************************************************)
(* Theorems about CalcTask, for every number of workers, units, hashes and *)
(* groups and every capacity.                                              *)
(***************************************************************************)
EXTENDS CalcTask, FiniteSetTheorems, SequenceTheorems, TLAPS

-----------------------------------------------------------------------------
(* Masking *)

\* A byte more or less: HashLimit is the 20-byte range (master/session.go:175).
LEMMA HashLimitNat == HashLimit \in Nat /\ HashLimit >= HashUnit /\ HashUnit > 0
  BY HashBaseAssumption DEF HashLimit

\* Dropping the low byte of a 21-byte sum leaves a 20-byte hash.
LEMMA DivBound == ASSUME NEW n \in Nat, NEW L \in Nat, n < 2 * L
                  PROVE  n \div HashBase \in Nat /\ n \div HashBase < L
<1> DEFINE q == n \div HashBase
<1>1. q \in Nat /\ HashBase * q <= n
  BY HashBaseAssumption, SMTT(30)
<1>2. 2 * q <= HashBase * q
  BY <1>1, HashBaseAssumption, SMTT(30)
<1> QED BY <1>1, <1>2, HashBaseAssumption

\* What the worker submits is a hash (worker/session.go:143-147).
LEMMA ConfoundType == ASSUME NEW h \in Space, NEW k \in Space
                      PROVE  Confound(h, k) \in Space
  BY HashLimitNat, DivBound DEF Confound, First20, Space

\* What the master counts is a hash (master/session.go:172-175).
LEMMA UnconfoundType == ASSUME NEW h \in Space, NEW k \in Space
                        PROVE  Unconfound(h, k) \in Space
  BY HashLimitNat DEF Unconfound, First20, Space, Magnitude

\* Unmasking inverts masking when the sum fits 20 bytes.
THEOREM RoundTrip == ASSUME NEW h \in Space, NEW k \in Space, h + k < HashLimit
                     PROVE  Unconfound(Confound(h, k), k) = h
  BY HashLimitNat DEF Confound, Unconfound, First20, Space, Magnitude

-----------------------------------------------------------------------------
(* Type correctness *)

\* The zero value of a hash is one.
LEMMA ZeroHashType == ZeroHash \in Hash
  BY HashLimitNat, HashBaseAssumption DEF ZeroHash, Hash, Space

\* Updating one entry of a table keeps its type.
LEMMA ExceptType ==
  ASSUME NEW A, NEW B, NEW f \in [A -> B], NEW a, NEW b \in B
  PROVE  [f EXCEPT ![a] = b] \in [A -> B]
  OBVIOUS

\* The messages a worker sends are messages.
LEMMA MsgType == \A w \in Workers : /\ Msg("CPROC_WAIT", w) \in Message
                                     /\ Msg("CPROC_RES", w) \in Message
                                     /\ Msg("CPROC_META", w) \in Message
  BY DEF Msg, Message

\* No hash is NoAnswer.
LEMMA NoAnswerIs == NoAnswer \notin Hash
  BY HashLimitNat DEF NoAnswer, Hash, Space

\* The hashes a worker submits are hashes (worker/session.go:143-147).
LEMMA MaskedType == ASSUME TypeOK, NEW w \in Workers PROVE Masked(w) \in AnsHash
<1>1. PICK n \in OutputCnts : computed[w] \in [1 .. n -> Hash]
  BY DEF TypeOK, AnsHash
<1>2. Masked(w) \in [1 .. n -> Hash]
  BY <1>1, ConfoundType, HashesAssumption DEF Masked, Hash
<1> QED BY <1>2 DEF AnsHash

\* What run() makes of the hashes ans of worker w.
Answer(w, ans) ==
    [i \in Units |-> IF i \in Readable(w, ans) THEN Unconfound(ans[i], ConfoundKey[w])
                                               ELSE NoAnswer]

\* What counting does, unit by unit and hash by hash (master/session.go:166-188).
LEMMA CountIs ==
  ASSUME TypeOK, NEW w \in Workers, NEW ans \in AnsHash, CountAnswer(w, ans)
  PROVE  LET a == Answer(w, ans)
         IN  /\ a \in [Units -> Hash \cup {NoAnswer}]
             /\ peerState' = [peerState EXCEPT ![w] = "SUBMITTED"]
             /\ peerAnswers' = [peerAnswers EXCEPT ![w] = a]
             /\ answerCnt' = answerCnt + 1
             /\ answers' \in [Units -> [Hash -> Nat]]
             /\ validAnswers' \in [Units -> Hash]
             /\ validAnswerCnt' \in [Units -> Nat]
             /\ \A i \in Units, h \in Hash :
                   answers'[i][h] = IF h = a[i] THEN answers[i][h] + 1 ELSE answers[i][h]
             /\ \A i \in Units :
                   IF a[i] \in Hash /\ validAnswerCnt[i] < answers[i][a[i]] + 1
                   THEN validAnswers'[i] = a[i] /\ validAnswerCnt'[i] = answers[i][a[i]] + 1
                   ELSE validAnswers'[i] = validAnswers[i] /\ validAnswerCnt'[i] = validAnswerCnt[i]
<1> DEFINE a     == Answer(w, ans)
           read  == Readable(w, ans)
           cnt   == [i \in read |-> answers[i][a[i]] + 1]
           ahead == {i \in read : validAnswerCnt[i] < cnt[i]}
<1>1. /\ peerState' = [peerState EXCEPT ![w] = "SUBMITTED"]
      /\ peerAnswers' = [peerAnswers EXCEPT ![w] = a]
      /\ answers' = [i \in Units |-> IF i \in read
                                     THEN [answers[i] EXCEPT ![a[i]] = cnt[i]] ELSE answers[i]]
      /\ validAnswers' = [i \in Units |-> IF i \in ahead THEN a[i] ELSE validAnswers[i]]
      /\ validAnswerCnt' = [i \in Units |-> IF i \in ahead THEN cnt[i] ELSE validAnswerCnt[i]]
      /\ answerCnt' = answerCnt + 1
  BY DEF CountAnswer, Answer
<1>2. PICK n \in OutputCnts : ans \in [1 .. n -> Hash]
  BY DEF AnsHash
<1>3. read \subseteq Units /\ read \subseteq DOMAIN ans
  BY DEF Readable
<1>4. \A i \in read : a[i] \in Hash
  BY <1>2, <1>3, UnconfoundType, HashesAssumption DEF Answer, Hash
<1>5. \A i \in Units : i \notin read => a[i] = NoAnswer
  BY DEF Answer
<1>6. a \in [Units -> Hash \cup {NoAnswer}]
  <2>1. a = [i \in Units |-> a[i]]
    BY DEF Answer
  <2> HIDE DEF a
  <2> QED BY <1>4, <1>5, <2>1
<1>7. /\ answers \in [Units -> [Hash -> Nat]] /\ validAnswers \in [Units -> Hash]
      /\ validAnswerCnt \in [Units -> Nat]
  BY DEF TypeOK
<1> HIDE DEF a, read
<1>8. \A i \in read : cnt[i] = answers[i][a[i]] + 1 /\ cnt[i] \in Nat
  BY <1>3, <1>4, <1>7
<1> HIDE DEF cnt
<1>9. \A i \in Units : i \in read <=> a[i] \in Hash
  BY <1>4, <1>5, NoAnswerIs
<1>10. answers' \in [Units -> [Hash -> Nat]]
  BY <1>1, <1>4, <1>7, <1>8
<1>11. ASSUME NEW i \in Units, NEW h \in Hash
       PROVE  answers'[i][h] = IF h = a[i] THEN answers[i][h] + 1 ELSE answers[i][h]
  <2>1. CASE i \in read
    BY <1>1, <1>4, <1>7, <1>8, <2>1
  <2>2. CASE i \notin read
    BY <1>1, <1>5, <2>2, NoAnswerIs
  <2> QED BY <2>1, <2>2
<1>12. \A i \in Units : i \in ahead <=> a[i] \in Hash /\ validAnswerCnt[i] < answers[i][a[i]] + 1
  BY <1>8, <1>9
<1>13. ahead \subseteq read
  OBVIOUS
<1> HIDE DEF ahead
<1>14. validAnswers' \in [Units -> Hash] /\ validAnswerCnt' \in [Units -> Nat]
  BY <1>1, <1>4, <1>7, <1>8, <1>13
<1>15. ASSUME NEW i \in Units
       PROVE  IF a[i] \in Hash /\ validAnswerCnt[i] < answers[i][a[i]] + 1
              THEN validAnswers'[i] = a[i] /\ validAnswerCnt'[i] = answers[i][a[i]] + 1
              ELSE validAnswers'[i] = validAnswers[i] /\ validAnswerCnt'[i] = validAnswerCnt[i]
  BY <1>1, <1>8, <1>12, <1>13
<1> QED BY <1>1, <1>6, <1>10, <1>11, <1>14, <1>15 DEF a

\* The head of the channel is a submission of a worker.
LEMMA HeadIs ==
  ASSUME TypeOK, answerChan # <<>>
  PROVE  /\ Head(answerChan) \in Call /\ Head(answerChan).caller \in Workers
         /\ Head(answerChan).ansHash \in AnsHash
         /\ Tail(answerChan) \in Seq(Call)
<1>1. answerChan \in Seq(Call)
  BY DEF TypeOK
<1>2. Head(answerChan) \in Call /\ Tail(answerChan) \in Seq(Call)
  BY <1>1, HeadTailProperties
<1> QED BY <1>2 DEF Call

\* Counting keeps the types.
LEMMA CountType ==
  ASSUME TypeOK, NEW w \in Workers, NEW ans \in AnsHash, CountAnswer(w, ans)
  PROVE  /\ peerState' \in [Workers -> {"NONE", "RUNNING", "SUBMITTED"}]
         /\ peerAnswers' \in [Workers -> [Units -> Hash \cup {NoAnswer}]]
         /\ answers' \in [Units -> [Hash -> Nat]]
         /\ validAnswers' \in [Units -> Hash]
         /\ validAnswerCnt' \in [Units -> Nat]
         /\ answerCnt' \in Nat
<1> DEFINE a == Answer(w, ans)
<1>1. /\ peerState' = [peerState EXCEPT ![w] = "SUBMITTED"]
      /\ peerAnswers' = [peerAnswers EXCEPT ![w] = a]
      /\ a \in [Units -> Hash \cup {NoAnswer}]
      /\ answerCnt' = answerCnt + 1
      /\ answers' \in [Units -> [Hash -> Nat]]
      /\ validAnswers' \in [Units -> Hash]
      /\ validAnswerCnt' \in [Units -> Nat]
  BY CountIs
<1> HIDE DEF a
<1>2. /\ peerState \in [Workers -> {"NONE", "RUNNING", "SUBMITTED"}]
      /\ peerAnswers \in [Workers -> [Units -> Hash \cup {NoAnswer}]]
      /\ answerCnt \in Nat
  BY DEF TypeOK
<1>3. [peerAnswers EXCEPT ![w] = a] \in [Workers -> [Units -> Hash \cup {NoAnswer}]]
  BY <1>1, <1>2, ExceptType, Zenon
<1> QED BY <1>1, <1>2, <1>3

\* Every step of the three parties keeps the state well typed.
LEMMA TypeStep == TypeOK /\ [Next]_vars => TypeOK'
<1> SUFFICES ASSUME TypeOK, [Next]_vars PROVE TypeOK'
  OBVIOUS
<1> USE DEF TypeOK, mvars, votes, fetch, work
<1>1. CASE Start
  <2>1. deployResult' \in {"ok", "failed"}
    BY <1>1 DEF Start
  <2> QED BY <1>1, <2>1 DEF Start
<1>2. CASE DeployResult
  <2>1. msgs' \subseteq Message
    BY <1>2, MsgType DEF DeployResult
  <2>2. /\ mstate' \in {"UN", "DEPLOYING", "RUNNING", "TERMINATING", "TERMINATED"}
        /\ mproc' \in {"idle", "live", "returned", "crashed"}
        /\ listening' \in BOOLEAN
    BY <1>2 DEF DeployResult
  <2> QED BY <1>2, <2>1, <2>2 DEF DeployResult
<1>3. ASSUME NEW w \in Workers, PeerRes(w) PROVE TypeOK'
  <2>1. msgs' \subseteq Message
    BY <1>3, MsgType DEF PeerRes
  <2>2. peerState' \in [Workers -> {"NONE", "RUNNING", "SUBMITTED"}]
    <3>1. \/ peerState' = peerState
          \/ peerState' = [peerState EXCEPT ![w] = "RUNNING"]
      BY <1>3 DEF PeerRes
    <3> QED BY <3>1, ExceptType
  <2> QED BY <1>3, <2>1, <2>2 DEF PeerRes
<1>4. CASE PeerAnswer
  <2> DEFINE call == Head(answerChan)
  <2>1. answerChan # <<>> /\ answerChan' = Tail(answerChan)
    BY <1>4 DEF PeerAnswer
  <2>2. call.caller \in Workers /\ call.ansHash \in AnsHash /\ answerChan' \in Seq(Call)
    BY <2>1, HeadIs
  <2>3. CASE peerState[call.caller] = "RUNNING"
    <3>1. /\ CountAnswer(call.caller, call.ansHash)
          /\ mstate' \in {mstate, "TERMINATING"}
          /\ terminateCalls' \in {terminateCalls, terminateCalls + 1}
      BY <1>4, <2>3 DEF PeerAnswer
    <3>2. /\ peerState' \in [Workers -> {"NONE", "RUNNING", "SUBMITTED"}]
          /\ peerAnswers' \in [Workers -> [Units -> Hash \cup {NoAnswer}]]
          /\ answers' \in [Units -> [Hash -> Nat]]
          /\ validAnswers' \in [Units -> Hash]
          /\ validAnswerCnt' \in [Units -> Nat]
          /\ answerCnt' \in Nat
      BY <2>2, <3>1, CountType
    <3>3. UNCHANGED <<mproc, deployResult, listening, msgs, wstate, wproc,
                      validateResult, held, fetchResults, fetchReports, exec,
                      computed, submitCall>>
      BY <1>4 DEF PeerAnswer
    <3>4. /\ mstate' \in {"UN", "DEPLOYING", "RUNNING", "TERMINATING", "TERMINATED"}
          /\ terminateCalls' \in Nat
      BY <3>1
    <3> HIDE DEF call
    <3> QED BY <2>2, <3>2, <3>3, <3>4
  <2>4. CASE peerState[call.caller] # "RUNNING"
    BY <1>4, <2>2, <2>4 DEF PeerAnswer
  <2> QED BY <2>3, <2>4
<1>5. CASE PeerAnswerPanics
  <2> DEFINE call == Head(answerChan)
  <2>1. /\ answerChan # <<>> /\ answerChan' = Tail(answerChan)
        /\ CountAnswer(call.caller, call.ansHash)
    BY <1>5 DEF PeerAnswerPanics
  <2>2. call.caller \in Workers /\ call.ansHash \in AnsHash /\ answerChan' \in Seq(Call)
    BY <2>1, HeadIs
  <2>3. /\ peerState' \in [Workers -> {"NONE", "RUNNING", "SUBMITTED"}]
        /\ peerAnswers' \in [Workers -> [Units -> Hash \cup {NoAnswer}]]
        /\ answers' \in [Units -> [Hash -> Nat]]
        /\ validAnswers' \in [Units -> Hash]
        /\ validAnswerCnt' \in [Units -> Nat]
        /\ answerCnt' \in Nat
    BY <2>1, <2>2, CountType
  <2>4. /\ UNCHANGED <<mstate, deployResult, listening, terminateCalls, msgs, wstate, wproc,
                       validateResult, held, fetchResults, fetchReports, exec,
                       computed, submitCall>>
        /\ mproc' = "crashed"
    BY <1>5 DEF PeerAnswerPanics
  <2> HIDE DEF call
  <2> QED BY <2>2, <2>3, <2>4
<1>6. CASE TerminateResult
  BY <1>6 DEF TerminateResult
<1>7. ASSUME NEW w \in Workers, Worker(w) PROVE TypeOK'
  <2>1. CASE TaskRequest(w)
    BY <2>1 DEF TaskRequest
  <2>2. CASE ValidateResult(w)
    <3>1. msgs' \subseteq Message
      BY <2>2, MsgType DEF ValidateResult
    <3>2. /\ wstate' = wstate \/ wstate' = [wstate EXCEPT ![w] = "STARTED"]
          /\ validateResult' = [validateResult EXCEPT ![w] = "none"]
      BY <2>2 DEF ValidateResult
    <3> QED BY <2>2, <3>1, <3>2 DEF ValidateResult
  <2>3. CASE Meta(w)
    BY <2>3 DEF Meta
  <2>4. ASSUME NEW ok \in BOOLEAN, PurchaseResult(w, ok) PROVE TypeOK'
    BY <2>4 DEF PurchaseResult
  <2>5. CASE PurchaseResultPanics(w)
    BY <2>5 DEF PurchaseResultPanics
  <2>6. CASE ExecuteResult(w)
    BY <2>6 DEF ExecuteResult
  <2>7. CASE ExecuteResultPanics(w)
    BY <2>7 DEF ExecuteResultPanics
  <2>8. CASE SubmitResult(w)
    BY <2>8 DEF SubmitResult
  <2> QED BY <1>7, <2>1, <2>2, <2>3, <2>4, <2>5, <2>6, <2>7, <2>8 DEF Worker
<1>8. ASSUME NEW w \in Workers, Environment(w) PROVE TypeOK'
  <2>1. ASSUME NEW g \in Groups, FileArrives(w, g) PROVE TypeOK'
    BY <2>1 DEF FileArrives
  <2>2. ASSUME NEW ok \in FetchOutcomes, FetchReport(w, ok) PROVE TypeOK'
    BY <2>2, OutcomesAssumption DEF FetchReport
  <2>3. ASSUME NEW ok \in ExecOutcomes, NEW ans \in [DOMAIN computed[w] -> Hashes],
               ExecuteDone(w, ok, ans)
        PROVE  TypeOK'
    <3>1. PICK n \in OutputCnts : computed[w] \in [1 .. n -> Hash]
      BY DEF AnsHash
    <3>2. ans \in AnsHash
      BY <3>1, HashesAssumption DEF AnsHash, Hash
    <3>3. computed' \in [Workers -> AnsHash]
      BY <2>3, <3>2 DEF ExecuteDone
    <3> QED BY <2>3, <3>3 DEF ExecuteDone
  <2>4. CASE SubmitNotify(w)
    <3> DEFINE c == [caller |-> w, ansHash |-> Masked(w)]
    <3>1. \/ answerChan' = answerChan
          \/ answerChan' = Append(answerChan, c)
      BY <2>4 DEF SubmitNotify
    <3>2. c \in Call
      BY MaskedType DEF Call
    <3> HIDE DEF c
    <3>3. answerChan \in Seq(Call)
      OBVIOUS
    <3>4. Append(answerChan, c) \in Seq(Call)
      BY <3>2, <3>3, AppendProperties, Zenon
    <3>5. answerChan' \in Seq(Call)
      BY <3>1, <3>3, <3>4
    <3> QED BY <2>4, <3>5 DEF SubmitNotify
  <2> QED BY <1>8, <2>1, <2>2, <2>3, <2>4 DEF Environment
<1>9. CASE UNCHANGED vars
  BY <1>9 DEF vars
<1> QED BY <1>1, <1>2, <1>3, <1>4, <1>5, <1>6, <1>7, <1>8, <1>9 DEF Next, Master

\* The program's state is always well typed.
THEOREM TypeCorrect == Spec => []TypeOK
<1>1. Init => TypeOK
  <2> SUFFICES ASSUME Init PROVE TypeOK
    OBVIOUS
  <2>1. answerChan \in Seq(Call)
    BY DEF Init
  <2>2. /\ peerAnswers \in [Workers -> [Units -> Hash \cup {NoAnswer}]]
        /\ answers \in [Units -> [Hash -> Nat]]
        /\ computed \in [Workers -> AnsHash]
        /\ validAnswers \in [Units -> Hash]
    BY ZeroHashType DEF Init, AnsHash
  <2>3. held \in [Workers -> SUBSET Groups] /\ fetchResults \in [Workers -> SUBSET BOOLEAN]
    BY GroupsAssumption DEF Init
  <2> QED BY <2>1, <2>2, <2>3 DEF Init, TypeOK
<1> QED BY <1>1, TypeStep, PTL DEF Spec

-----------------------------------------------------------------------------
(* The vote *)

\* The answer of peer w with the masked hashes ans is counted in this step.
Counted(w, ans) == peerState[w] = "RUNNING" /\ CountAnswer(w, ans)

\* Only the peerAnswerChan case of run() touches the vote.
LEMMA CountedOrNot ==
  ASSUME TypeOK, [Next]_vars
  PROVE  \/ UNCHANGED votes /\ Submitted' = Submitted
         \/ /\ PeerAnswer \/ PeerAnswerPanics
            /\ \E w \in Workers, ans \in AnsHash : Counted(w, ans)
<1> DEFINE Same == UNCHANGED votes /\ Submitted' = Submitted
<1>1. ASSUME UNCHANGED <<votes, peerState>> PROVE Same
  BY <1>1 DEF votes, Submitted
<1>2. CASE Start \/ DeployResult \/ TerminateResult \/ UNCHANGED vars
  BY <1>1, <1>2 DEF Start, DeployResult, TerminateResult, vars
<1>3. ASSUME NEW w \in Workers, PeerRes(w) PROVE Same
  <2>1. UNCHANGED votes
    BY <1>3 DEF PeerRes
  <2>2. \/ peerState' = peerState
        \/ peerState[w] = "NONE" /\ peerState' = [peerState EXCEPT ![w] = "RUNNING"]
    BY <1>3 DEF PeerRes
  <2>3. peerState \in [Workers -> {"NONE", "RUNNING", "SUBMITTED"}]
    BY DEF TypeOK
  <2>4. Submitted' = Submitted
    BY <2>2, <2>3 DEF Submitted
  <2> QED BY <2>1, <2>4
<1>4. ASSUME PeerAnswer \/ PeerAnswerPanics
      PROVE  Same \/ \E w \in Workers, ans \in AnsHash : Counted(w, ans)
  <2> DEFINE call == Head(answerChan)
  <2>1. call.caller \in Workers /\ call.ansHash \in AnsHash
    BY <1>4, HeadIs DEF PeerAnswer, PeerAnswerPanics
  <2>2. CASE peerState[call.caller] = "RUNNING"
    <3>1. Counted(call.caller, call.ansHash)
      BY <1>4, <2>2 DEF PeerAnswer, PeerAnswerPanics, Counted
    <3> QED BY <2>1, <3>1
  <2>3. CASE peerState[call.caller] # "RUNNING"
    BY <1>1, <1>4, <2>3 DEF PeerAnswer, PeerAnswerPanics
  <2> QED BY <2>2, <2>3
<1>5. ASSUME NEW w \in Workers, Worker(w) PROVE Same
  BY <1>1, <1>5 DEF Worker, TaskRequest, ValidateResult, Meta, PurchaseResult,
                    PurchaseResultPanics, ExecuteResult, ExecuteResultPanics, SubmitResult
<1>6. ASSUME NEW w \in Workers, Environment(w) PROVE Same
  BY <1>1, <1>6 DEF Environment, FileArrives, FetchReport, ExecuteDone, SubmitNotify
<1> QED BY <1>2, <1>3, <1>4, <1>5, <1>6 DEF Next, Master

\* Counting the answer of w makes w, and nobody else, a supporter of what it
\* answered.
LEMMA SupportersStep ==
  ASSUME TypeOK, NEW w \in Workers, NEW ans \in AnsHash, Counted(w, ans)
  PROVE  LET a == Answer(w, ans)
         IN  /\ w \notin Submitted
             /\ Submitted' = Submitted \cup {w}
             /\ \A i \in Units, h \in Hash :
                   Supporters(i, h)' = IF h = a[i] THEN Supporters(i, h) \cup {w}
                                                 ELSE Supporters(i, h)
<1> DEFINE a == Answer(w, ans)
<1>1. /\ peerState \in [Workers -> {"NONE", "RUNNING", "SUBMITTED"}]
      /\ peerAnswers \in [Workers -> [Units -> Hash \cup {NoAnswer}]]
      /\ peerState[w] = "RUNNING"
      /\ peerState' = [peerState EXCEPT ![w] = "SUBMITTED"]
      /\ peerAnswers' = [peerAnswers EXCEPT ![w] = a]
  BY CountIs DEF TypeOK, Counted
<1> HIDE DEF a
<1>2. w \notin Submitted /\ Submitted' = Submitted \cup {w}
  BY <1>1 DEF Submitted
<1>3. ASSUME NEW i \in Units, NEW h \in Hash
      PROVE  Supporters(i, h)' = IF h = a[i] THEN Supporters(i, h) \cup {w}
                                           ELSE Supporters(i, h)
  <2>1. peerAnswers'[w][i] = a[i]
    BY <1>1
  <2>2. \A v \in Submitted : peerAnswers'[v][i] = peerAnswers[v][i]
    BY <1>1, <1>2 DEF Submitted
  <2> QED BY <1>2, <2>1, <2>2 DEF Supporters
<1> QED BY <1>2, <1>3 DEF a

\* The sets that are counted are finite.
LEMMA FiniteVoters ==
  /\ IsFiniteSet(Submitted)
  /\ \A i \in Units, h \in Hash : IsFiniteSet(Supporters(i, h))
  BY WorkersAssumption, FS_Subset DEF Submitted, Supporters

VoteInv == VoteTally /\ WinnerIsMode

\* Counting keeps the tally and the running maximum right.
LEMMA VoteStep == TypeOK /\ VoteInv /\ [Next]_vars => VoteInv'
<1> SUFFICES ASSUME TypeOK, VoteInv, [Next]_vars PROVE VoteInv'
  OBVIOUS
<1>1. CASE UNCHANGED votes /\ Submitted' = Submitted
  BY <1>1 DEF VoteInv, VoteTally, WinnerIsMode, Supporters, votes
<1>2. ASSUME NEW w \in Workers, NEW ans \in AnsHash, Counted(w, ans)
      PROVE  VoteInv'
  <2> DEFINE a == Answer(w, ans)
  <2>1. /\ w \notin Submitted
        /\ Submitted' = Submitted \cup {w}
        /\ \A i \in Units, h \in Hash :
              Supporters(i, h)' = IF h = a[i] THEN Supporters(i, h) \cup {w}
                                            ELSE Supporters(i, h)
    BY <1>2, SupportersStep
  <2>2. /\ answerCnt' = answerCnt + 1
        /\ \A i \in Units, h \in Hash :
              answers'[i][h] = IF h = a[i] THEN answers[i][h] + 1 ELSE answers[i][h]
        /\ \A i \in Units :
              IF a[i] \in Hash /\ validAnswerCnt[i] < answers[i][a[i]] + 1
              THEN validAnswers'[i] = a[i] /\ validAnswerCnt'[i] = answers[i][a[i]] + 1
              ELSE validAnswers'[i] = validAnswers[i] /\ validAnswerCnt'[i] = validAnswerCnt[i]
    BY <1>2, CountIs DEF Counted
  <2>3. /\ answers \in [Units -> [Hash -> Nat]]
        /\ validAnswers \in [Units -> Hash]
        /\ validAnswerCnt \in [Units -> Nat]
    BY DEF TypeOK
  <2> HIDE DEF a
  <2>6. answerCnt' = Cardinality(Submitted')
    BY <2>1, <2>2, FiniteVoters, FS_AddElement DEF VoteInv, VoteTally
  <2>7. ASSUME NEW i \in Units, NEW h \in Hash
        PROVE  answers'[i][h] = Cardinality(Supporters(i, h)')
    <3>1. w \notin Supporters(i, h) /\ IsFiniteSet(Supporters(i, h))
      BY <2>1, FiniteVoters DEF Supporters
    <3>2. Cardinality(Supporters(i, h) \cup {w}) = Cardinality(Supporters(i, h)) + 1
      BY <3>1, FS_AddElement
    <3>3. answers[i][h] = Cardinality(Supporters(i, h))
      BY DEF VoteInv, VoteTally
    <3>4. Supporters(i, h)' = IF h = a[i] THEN Supporters(i, h) \cup {w} ELSE Supporters(i, h)
      BY <2>1
    <3>5. answers'[i][h] = IF h = a[i] THEN answers[i][h] + 1 ELSE answers[i][h]
      BY <2>2
    <3> QED BY <3>2, <3>3, <3>4, <3>5
  <2>8. ASSUME NEW i \in Units
        PROVE  /\ answers'[i][validAnswers'[i]] = validAnswerCnt'[i]
               /\ \A h \in Hash : answers'[i][h] <= validAnswerCnt'[i]
    <3>1. /\ answers[i][validAnswers[i]] = validAnswerCnt[i]
          /\ \A h \in Hash : answers[i][h] <= validAnswerCnt[i]
      BY DEF VoteInv, WinnerIsMode
    <3>2. /\ validAnswers[i] \in Hash /\ validAnswerCnt[i] \in Nat
          /\ \A h \in Hash : answers[i][h] \in Nat
      BY <2>3
    <3>3. CASE a[i] \in Hash /\ validAnswerCnt[i] < answers[i][a[i]] + 1
      <4>1. validAnswers'[i] = a[i] /\ validAnswerCnt'[i] = answers[i][a[i]] + 1
        BY <2>2, <3>3
      <4> QED BY <2>2, <3>1, <3>2, <3>3, <4>1
    <3>4. CASE ~(a[i] \in Hash /\ validAnswerCnt[i] < answers[i][a[i]] + 1)
      <4>1. validAnswers'[i] = validAnswers[i] /\ validAnswerCnt'[i] = validAnswerCnt[i]
        BY <2>2, <3>4
      <4>2. CASE a[i] \in Hash
        BY <2>2, <3>1, <3>2, <3>4, <4>1, <4>2
      <4>3. CASE a[i] \notin Hash
        BY <2>2, <3>1, <3>2, <4>1, <4>3
      <4> QED BY <4>2, <4>3
    <3> QED BY <3>3, <3>4
  <2> QED BY <2>6, <2>7, <2>8 DEF VoteInv, VoteTally, WinnerIsMode
<1> QED BY <1>1, <1>2, CountedOrNot

\* Before the first answer everybody has zero votes.
LEMMA VoteInit == Init => VoteInv
<1> SUFFICES ASSUME Init PROVE VoteInv
  OBVIOUS
<1>1. Submitted = {} /\ \A i \in Units, h \in Hash : Supporters(i, h) = {}
  BY DEF Init, Submitted, Supporters
<1>2. Cardinality({}) = 0
  BY FS_EmptySet
<1>3. \A i \in Units : /\ validAnswers[i] \in Hash /\ validAnswerCnt[i] = 0
                      /\ \A h \in Hash : answers[i][h] = 0
  BY ZeroHashType DEF Init
<1>4. VoteTally
  BY <1>1, <1>2, <1>3 DEF Init, VoteTally
<1>5. WinnerIsMode
  BY <1>3 DEF WinnerIsMode
<1> QED BY <1>4, <1>5 DEF VoteInv

\* The counters of the master are the votes of its peers, at any time.
THEOREM TallyCorrect == Spec => []VoteTally
<1>1. VoteInv => VoteTally
  BY DEF VoteInv
<1> QED BY <1>1, VoteInit, VoteStep, TypeCorrect, PTL DEF Spec

\* What the master would report is the answer with the most votes.
THEOREM WinnerCorrect == Spec => []WinnerIsMode
<1>1. VoteInv => WinnerIsMode
  BY DEF VoteInv
<1> QED BY <1>1, VoteInit, VoteStep, TypeCorrect, PTL DEF Spec

\* With counters that are right, the test of lines 190-198 is the majority
\* of the peers.
LEMMA CanTerminateMeans ==
  ASSUME TypeOK, VoteInv
  PROVE  CanTerminate(validAnswerCnt, answerCnt) <=> Decided
<1>1. /\ answerCnt = Cardinality(Submitted) /\ answerCnt \in Nat
      /\ \A i \in Units : /\ validAnswerCnt[i] \in Nat
                          /\ validAnswerCnt[i] = Cardinality(Supporters(i, validAnswers[i]))
  BY DEF TypeOK, VoteInv, VoteTally, WinnerIsMode
<1> QED BY <1>1 DEF CanTerminate, Decided

\* The session stops waiting for answers only on a majority of its peers.
THEOREM MajorityCorrect == Spec => TerminateOnMajority
<1>1. TypeOK /\ TypeOK' /\ VoteInv' /\ [Next]_vars =>
        [mstate # "TERMINATING" /\ mstate' = "TERMINATING" => Decided']_vars
  <2> SUFFICES ASSUME TypeOK, TypeOK', VoteInv', [Next]_vars,
                      mstate # "TERMINATING", mstate' = "TERMINATING"
               PROVE  Decided'
    OBVIOUS
  <2>1. PeerAnswer
    BY DEF Next, Master, Worker, Environment, vars, mvars, Start, DeployResult,
           PeerRes, PeerAnswerPanics, TerminateResult, TaskRequest,
           ValidateResult, Meta, PurchaseResult, PurchaseResultPanics,
           ExecuteResult, ExecuteResultPanics, SubmitResult, FileArrives,
           FetchReport, ExecuteDone, SubmitNotify
  <2>2. CanTerminate(validAnswerCnt', answerCnt')
    BY <2>1 DEF PeerAnswer
  <2>3. CanTerminate(validAnswerCnt, answerCnt)'
    BY <2>2 DEF CanTerminate
  <2> QED BY <2>3, CanTerminateMeans, PTL
<1> QED BY <1>1, VoteInit, VoteStep, TypeCorrect, PTL DEF Spec, TerminateOnMajority

-----------------------------------------------------------------------------
(* The master session implements MajorityVote *)

\* What the phases of the session rest on: Terminate is called by the
\* transition to TERMINATING, its result ends the loop.
PhaseInv ==
    /\ mproc = "idle" => mstate = "UN"
    /\ mproc = "live" => mstate # "TERMINATED"
    /\ terminateCalls > 0 => mstate \in {"TERMINATING", "TERMINATED"}

\* What an action of a worker, its file system or executer leaves alone.
LEMMA WorkerFrame ==
  ASSUME NEW w \in Workers, Worker(w) \/ Environment(w)
  PROVE  UNCHANGED <<mvars, votes, peerState>>
  BY DEF Worker, Environment, TaskRequest, ValidateResult, Meta, PurchaseResult,
         PurchaseResultPanics, ExecuteResult, ExecuteResultPanics, SubmitResult,
         FileArrives, FetchReport, ExecuteDone, SubmitNotify

\* Every step keeps what relates the phases of the vote to the master.
LEMMA PhaseStep == TypeOK /\ PhaseInv /\ [Next]_vars => PhaseInv'
<1> SUFFICES ASSUME TypeOK, PhaseInv, [Next]_vars PROVE PhaseInv'
  OBVIOUS
<1> USE DEF PhaseInv
<1>0. ASSUME UNCHANGED mvars PROVE PhaseInv'
  BY <1>0 DEF mvars
<1>1. CASE Start
  BY <1>1 DEF Start
<1>2. CASE DeployResult
  BY <1>2 DEF DeployResult
<1>3. CASE PeerAnswer
  BY <1>3 DEF PeerAnswer
<1>4. CASE PeerAnswerPanics
  BY <1>4 DEF PeerAnswerPanics
<1>5. CASE TerminateResult
  BY <1>5 DEF TerminateResult
<1>6. ASSUME NEW w \in Workers, PeerRes(w) PROVE PhaseInv'
  BY <1>0, <1>6 DEF PeerRes
<1>7. CASE UNCHANGED vars
  BY <1>0, <1>7 DEF vars
<1> QED BY <1>0, <1>1, <1>2, <1>3, <1>4, <1>5, <1>6, <1>7, WorkerFrame DEF Next, Master

\* The abstract vote counts with the same operator.
LEMMA CardinalityIs == \A S : MV!Cardinality(S) = Cardinality(S)
  BY DEF MV!Cardinality, Cardinality

\* The abstract votes are the supporters of the detailed state.
LEMMA SupportIs ==
  \A i, h : MV!Support(Submitted', peerAnswers', i, h) = Cardinality(Supporters(i, h)')
  BY CardinalityIs DEF MV!Support, Supporters

\* The turn to TERMINATING is the abstract closing of the poll.
LEMMA MajorityIs == MV!Majority(Submitted', peerAnswers', validAnswers') <=> Decided'
  BY CardinalityIs DEF MV!Majority, Decided, MV!Support, Supporters

\* Counting an answer is a vote.
LEMMA VoteIs ==
  ASSUME TypeOK, TypeOK', VoteInv, VoteInv',
         NEW w \in Workers, NEW ans \in AnsHash, Counted(w, ans)
  PROVE  MV!Vote(w, Answer(w, ans)) /\ Answer(w, ans) \in MV!Ballot
<1> DEFINE a == Answer(w, ans)
<1>1. /\ w \notin Submitted
      /\ Submitted' = Submitted \cup {w}
      /\ a \in [Units -> Hash \cup {NoAnswer}]
      /\ peerAnswers' = [peerAnswers EXCEPT ![w] = a]
      /\ \A i \in Units, h \in Hash :
            answers'[i][h] = IF h = a[i] THEN answers[i][h] + 1 ELSE answers[i][h]
      /\ \A i \in Units :
            IF a[i] \in Hash /\ validAnswerCnt[i] < answers[i][a[i]] + 1
            THEN validAnswers'[i] = a[i] /\ validAnswerCnt'[i] = answers[i][a[i]] + 1
            ELSE validAnswers'[i] = validAnswers[i] /\ validAnswerCnt'[i] = validAnswerCnt[i]
  BY SupportersStep, CountIs DEF Counted
<1>2. /\ validAnswers \in [Units -> Hash] /\ validAnswers' \in [Units -> Hash]
      /\ answers' \in [Units -> [Hash -> Nat]] /\ answers \in [Units -> [Hash -> Nat]]
      /\ validAnswerCnt \in [Units -> Nat]
  BY DEF TypeOK
<1> HIDE DEF a
<1>3. \A i \in Units, h \in Hash :
        MV!Support(Submitted', peerAnswers', i, h) = answers'[i][h]
  BY SupportIs DEF VoteInv, VoteTally
<1>4. ASSUME NEW i \in Units
      PROVE  /\ MV!IsMode(Submitted', peerAnswers', i, validAnswers'[i])
             /\ \/ validAnswers'[i] = validAnswers[i]
                \/ ~MV!IsMode(Submitted', peerAnswers', i, validAnswers[i])
  <2>1. /\ answers'[i][validAnswers'[i]] = validAnswerCnt'[i]
        /\ \A h \in Hash : answers'[i][h] <= validAnswerCnt'[i]
        /\ answers[i][validAnswers[i]] = validAnswerCnt[i]
    BY DEF VoteInv, WinnerIsMode
  <2>2. MV!IsMode(Submitted', peerAnswers', i, validAnswers'[i])
    BY <1>2, <1>3, <2>1 DEF MV!IsMode, Hash
  <2>3. ASSUME validAnswers'[i] # validAnswers[i]
        PROVE  ~MV!IsMode(Submitted', peerAnswers', i, validAnswers[i])
    <3>1. /\ a[i] \in Hash /\ validAnswers'[i] = a[i]
          /\ validAnswerCnt[i] < answers[i][a[i]] + 1
      BY <1>1, <2>3
    <3>2. /\ validAnswers[i] \in Hash
          /\ answers'[i][validAnswers[i]] = answers[i][validAnswers[i]]
          /\ answers'[i][a[i]] = answers[i][a[i]] + 1
      BY <1>1, <1>2, <2>3, <3>1
    <3>3. answers'[i][validAnswers[i]] < answers'[i][a[i]]
      BY <2>1, <3>1, <3>2
    <3>4. answers'[i][validAnswers[i]] \in Nat /\ answers'[i][a[i]] \in Nat
      BY <1>2, <3>1, <3>2
    <3> QED BY <1>3, <3>1, <3>2, <3>3, <3>4 DEF MV!IsMode, Hash
  <2> QED BY <2>2, <2>3
<1>5. MV!Vote(w, a)
  BY <1>1, <1>2, <1>4 DEF MV!Vote, Hash
<1> QED BY <1>1, <1>5 DEF MV!Ballot, Hash, a

\* An answer that is counted to its end is a vote, and it may close the poll.
LEMMA CastStep ==
  ASSUME TypeOK, TypeOK', VoteInv, VoteInv', PhaseInv, PeerAnswer,
         NEW w \in Workers, NEW ans \in AnsHash, Counted(w, ans)
  PROVE  MV!Next
<1>1. MV!Vote(w, Answer(w, ans)) /\ Answer(w, ans) \in MV!Ballot
  BY VoteIs
<1>2. Phase \in {"open", "closing"}
  BY DEF PhaseInv, PeerAnswer, Phase
<1>3. Phase' = IF Decided' THEN "closing" ELSE Phase
  <2>1. CanTerminate(validAnswerCnt', answerCnt') <=> Decided'
    <3>1. CanTerminate(validAnswerCnt, answerCnt)' <=> Decided'
      BY CanTerminateMeans, PTL
    <3> QED BY <3>1 DEF CanTerminate
  <2>2. mproc = "live" /\ mproc' = "live" /\ mstate # "TERMINATED"
    BY DEF PhaseInv, PeerAnswer
  <2>3. IF Decided' THEN mstate' = "TERMINATING" ELSE mstate' = mstate
    <3>1. peerState[Head(answerChan).caller] = "RUNNING"
      <4>1. peerState' # peerState
        BY CountIs DEF TypeOK, Counted
      <4> QED BY <4>1 DEF PeerAnswer
    <3> QED BY <2>1, <3>1 DEF PeerAnswer
  <2> QED BY <2>2, <2>3 DEF Phase
<1>4. MV!Cast(w, Answer(w, ans))
  BY <1>1, <1>2, <1>3, MajorityIs DEF MV!Cast
<1> QED BY <1>1, <1>4 DEF MV!Next

\* An answer that the master dies of is a vote, and stops the poll.
LEMMA DieStep ==
  ASSUME TypeOK, TypeOK', VoteInv, VoteInv', PhaseInv, PeerAnswerPanics,
         NEW w \in Workers, NEW ans \in AnsHash, Counted(w, ans)
  PROVE  MV!Next
<1>1. MV!Vote(w, Answer(w, ans)) /\ Answer(w, ans) \in MV!Ballot
  BY VoteIs
<1>2. /\ mproc = "live" /\ mproc' = "crashed"
      /\ mstate # "TERMINATED" /\ mstate' = mstate
  BY DEF PeerAnswerPanics, PhaseInv
<1>3. Phase \in {"open", "closing"} /\ Phase' = "stopped"
  BY <1>2 DEF Phase
<1>4. MV!DieVoting(w, Answer(w, ans))
  BY <1>1, <1>3 DEF MV!DieVoting
<1> QED BY <1>1, <1>4 DEF MV!Next

\* Nothing was counted when the submitters are the same.
LEMMA SameMeansIdle ==
  ASSUME TypeOK, Submitted' = Submitted, answerChan # <<>>,
         peerState[Head(answerChan).caller] = "RUNNING"
  PROVE  ~CountAnswer(Head(answerChan).caller, Head(answerChan).ansHash)
  BY HeadIs, SupportersStep DEF Counted

\* Every other step is the end of the poll, or no step of the vote at all.
LEMMA OtherStep ==
  ASSUME TypeOK, PhaseInv, [Next]_vars, UNCHANGED votes, Submitted' = Submitted
  PROVE  [MV!Next]_(MV!vvars)
<1> DEFINE Same == UNCHANGED <<Submitted, peerAnswers, validAnswers>>
<1>1. Same
  BY DEF votes
<1>2. ASSUME Phase' = Phase PROVE UNCHANGED MV!vvars
  BY <1>1, <1>2 DEF MV!vvars
<1>3. ASSUME UNCHANGED mvars PROVE Phase' = Phase
  BY <1>3 DEF mvars, Phase
<1>4. CASE Start
  <2>1. Phase' = Phase
    BY <1>4 DEF Start, Phase, PhaseInv
  <2> QED BY <1>2, <2>1
<1>5. CASE DeployResult
  <2>1. Phase' = Phase \/ (Phase = "open" /\ Phase' = "stopped")
    BY <1>5 DEF DeployResult, Phase, PhaseInv
  <2> QED BY <1>1, <1>2, <2>1 DEF MV!Next, MV!Stop
<1>6. CASE PeerAnswer
  <2>1. Phase' = Phase
    <3>1. peerState[Head(answerChan).caller] # "RUNNING"
      BY <1>6, SameMeansIdle DEF PeerAnswer
    <3> QED BY <1>6, <3>1 DEF PeerAnswer, Phase
  <2> QED BY <1>2, <2>1
<1>7. ~PeerAnswerPanics
  BY SameMeansIdle DEF PeerAnswerPanics
<1>8. CASE TerminateResult
  <2>1. mproc = "live" /\ mstate = "TERMINATING"
    BY <1>8 DEF TerminateResult, PhaseInv
  <2>2. mproc' = "returned" /\ mstate' = "TERMINATED"
    BY <1>8 DEF TerminateResult
  <2>3. Phase = "closing" /\ Phase' = "closed"
    BY <2>1, <2>2 DEF Phase
  <2> QED BY <1>1, <2>3 DEF MV!Next, MV!Close
<1>9. ASSUME NEW w \in Workers, PeerRes(w) PROVE UNCHANGED MV!vvars
  BY <1>2, <1>3, <1>9 DEF PeerRes
<1>10. CASE UNCHANGED vars
  BY <1>2, <1>3, <1>10 DEF vars
<1>11. ASSUME NEW w \in Workers, Worker(w) \/ Environment(w) PROVE UNCHANGED MV!vvars
  BY <1>2, <1>3, <1>11, WorkerFrame
<1> QED BY <1>4, <1>5, <1>6, <1>7, <1>8, <1>9, <1>10, <1>11 DEF Next, Master

\* A sub task is a majority vote: each behaviour of master, workers, contract
\* and network is one of MajorityVote.
THEOREM VoteImplemented == Spec => ImplementsVote
<1>1. Init => MV!Init
  <2> SUFFICES ASSUME Init PROVE MV!Init
    OBVIOUS
  <2>1. Submitted = {} /\ Phase = "open"
    BY DEF Init, Submitted, Phase
  <2>2. /\ peerAnswers = [w \in Workers |-> [i \in Units |-> NoAnswer]]
        /\ validAnswers \in [Units -> Space]
    BY ZeroHashType DEF Init, Hash
  <2> QED BY <2>1, <2>2 DEF MV!Init
<1>2. Init => PhaseInv
  BY DEF Init, PhaseInv
<1>3. /\ TypeOK /\ TypeOK' /\ VoteInv /\ VoteInv' /\ PhaseInv
      /\ [Next]_vars
      => [MV!Next]_(MV!vvars)
  BY CountedOrNot, CastStep, DieStep, OtherStep
<1> QED BY <1>1, <1>2, <1>3, VoteInit, VoteStep, PhaseStep, TypeCorrect, PTL
        DEF Spec, ImplementsVote, MV!Spec

-----------------------------------------------------------------------------
(* The way of an answer *)

\* The meta data comes once, after the master has put the worker among its
\* peers; it is fetched for once and executed once, and nothing is computed
\* after the answer was submitted.
WorkFollowsMeta ==
    \A w \in Workers :
        /\ Msg("CPROC_META", w) \in msgs =>
              peerState[w] # "NONE" /\ exec[w] = "idle" /\ wstate[w] # "FETCHING"
        /\ wstate[w] = "FETCHING" => peerState[w] # "NONE" /\ exec[w] = "idle"
        /\ exec[w] # "idle" => peerState[w] # "NONE"
        /\ submitCall[w] # "none" => exec[w] = "ok"

\* An answer on its way is of a worker that is expected to submit, and is
\* what this worker computed; so is an answer that was counted, to its end
\* if the master lives.
AnswerFollowsWork ==
    /\ \A w \in Workers :
        /\ submitCall[w] = "calling" => peerState[w] = "RUNNING"
        /\ peerState[w] = "SUBMITTED" =>
              /\ submitCall[w] = "notified"
              /\ peerAnswers[w] = Answer(w, Masked(w))
              /\ Readable(w, Masked(w)) = DOMAIN Masked(w) \/ mproc = "crashed"
    /\ \A n \in 1 .. Len(answerChan), w \in Workers :
          answerChan[n].caller = w =>
              submitCall[w] = "notified" /\ answerChan[n].ansHash = Masked(w)

SubmitInv == WorkFollowsMeta /\ AnswerFollowsWork /\ AnswersExpected

\* Messages are the same if their kind and their worker are.
LEMMA MsgEq == ASSUME NEW t, NEW u, NEW w, NEW v
               PROVE  Msg(t, w) = Msg(u, v) <=> t = u /\ w = v
  BY DEF Msg

\* The part of WorkFollowsMeta about one worker.
Follows(w) ==
    /\ Msg("CPROC_META", w) \in msgs =>
          peerState[w] # "NONE" /\ exec[w] = "idle" /\ wstate[w] # "FETCHING"
    /\ wstate[w] = "FETCHING" => peerState[w] # "NONE" /\ exec[w] = "idle"
    /\ exec[w] # "idle" => peerState[w] # "NONE"
    /\ submitCall[w] # "none" => exec[w] = "ok"

\* A worker that is not touched.
LEMMA FollowsFrame ==
  ASSUME NEW w \in Workers, Follows(w),
         Msg("CPROC_META", w) \in msgs' => Msg("CPROC_META", w) \in msgs,
         peerState[w] # "NONE" => peerState'[w] # "NONE",
         wstate'[w] = "FETCHING" => wstate[w] = "FETCHING",
         exec'[w] = exec[w], submitCall'[w] = submitCall[w]
  PROVE  Follows(w)'
  BY DEF Follows

\* Every step keeps the order of meta data, purchase, execution and
\* submission (worker/session.go:72-160).
LEMMA FollowsStep == TypeOK /\ WorkFollowsMeta /\ [Next]_vars => WorkFollowsMeta'
<1> SUFFICES ASSUME TypeOK, WorkFollowsMeta, [Next]_vars, NEW v \in Workers PROVE Follows(v)'
  BY DEF WorkFollowsMeta, Follows
<1>1. Follows(v)
  BY DEF WorkFollowsMeta, Follows
<1>2. CASE Start \/ TerminateResult \/ UNCHANGED vars
  BY <1>1, <1>2, FollowsFrame DEF Start, TerminateResult, vars, work
<1>3. CASE DeployResult
  <2>1. \/ msgs' = msgs
        \/ msgs' = msgs \cup {Msg("CPROC_WAIT", w) : w \in Workers}
    BY <1>3 DEF DeployResult
  <2>2. Msg("CPROC_META", v) \in msgs' => Msg("CPROC_META", v) \in msgs
    <3>1. ASSUME NEW w \in Workers PROVE Msg("CPROC_META", v) # Msg("CPROC_WAIT", w)
      BY MsgEq
    <3> QED BY <2>1, <3>1
  <2> QED BY <1>1, <1>3, <2>2, FollowsFrame DEF DeployResult, work
<1>4. ASSUME NEW w \in Workers, PeerRes(w) PROVE Follows(v)'
  <2>1. UNCHANGED <<wstate, work>>
    BY <1>4 DEF PeerRes
  <2>2. CASE w = v /\ peerState[w] = "NONE"
    <3>1. peerState'[v] = "RUNNING"
      BY <1>4, <2>2 DEF PeerRes, TypeOK
    <3>2. exec[v] = "idle" /\ wstate[v] # "FETCHING"
      BY <1>1, <2>2 DEF Follows
    <3> QED BY <1>1, <2>1, <3>1, <3>2 DEF Follows, work
  <2>3. CASE ~(w = v /\ peerState[w] = "NONE")
    <3>1. Msg("CPROC_META", v) \in msgs' => Msg("CPROC_META", v) \in msgs
      BY <1>4, <2>3, MsgEq DEF PeerRes
    <3>2. peerState[v] # "NONE" => peerState'[v] # "NONE"
      BY <1>4 DEF PeerRes, TypeOK
    <3> QED BY <1>1, <2>1, <3>1, <3>2, FollowsFrame DEF work
  <2> QED BY <2>2, <2>3
<1>5. CASE PeerAnswer \/ PeerAnswerPanics
  <2>1. /\ UNCHANGED <<msgs, wstate, work>>
        /\ \/ peerState' = peerState
           \/ peerState' = [peerState EXCEPT ![Head(answerChan).caller] = "SUBMITTED"]
    BY <1>5 DEF PeerAnswer, PeerAnswerPanics, CountAnswer
  <2>2. peerState[v] # "NONE" => peerState'[v] # "NONE"
    BY <2>1 DEF TypeOK
  <2> QED BY <1>1, <2>1, <2>2, FollowsFrame DEF work
<1>6. ASSUME NEW w \in Workers, Worker(w) PROVE Follows(v)'
  <2>1. peerState' = peerState
    BY <1>6, WorkerFrame
  <2>2. CASE TaskRequest(w)
    <3>1. wstate'[v] = "FETCHING" => wstate[v] = "FETCHING"
      BY <2>2 DEF TaskRequest, TypeOK
    <3> QED BY <1>1, <2>1, <2>2, <3>1, FollowsFrame DEF TaskRequest, work
  <2>3. CASE ValidateResult(w)
    <3>1. wstate'[v] = "FETCHING" => wstate[v] = "FETCHING"
      BY <2>3 DEF ValidateResult, TypeOK
    <3>2. Msg("CPROC_META", v) \in msgs' => Msg("CPROC_META", v) \in msgs
      BY <2>3, MsgEq DEF ValidateResult
    <3> QED BY <1>1, <2>1, <2>3, <3>1, <3>2, FollowsFrame DEF ValidateResult, work
  <2>4. CASE Meta(w)
    <3>1. /\ Msg("CPROC_META", w) \in msgs /\ msgs' = msgs \ {Msg("CPROC_META", w)}
          /\ wstate' = [wstate EXCEPT ![w] = IF @ = "STARTED" THEN "FETCHING" ELSE @]
          /\ UNCHANGED work
      BY <2>4 DEF Meta
    <3>2. CASE w = v
      <4>1. peerState[v] # "NONE" /\ exec[v] = "idle" /\ Msg("CPROC_META", v) \notin msgs'
        BY <1>1, <3>1, <3>2 DEF Follows
      <4> QED BY <1>1, <2>1, <3>1, <4>1 DEF Follows, work
    <3>3. CASE w # v
      <4>1. wstate'[v] = wstate[v]
        BY <3>1, <3>3 DEF TypeOK
      <4> QED BY <1>1, <2>1, <3>1, <4>1, FollowsFrame DEF work
    <3> QED BY <3>2, <3>3
  <2>5. ASSUME NEW ok \in BOOLEAN, PurchaseResult(w, ok) PROVE Follows(v)'
    <3>1. UNCHANGED <<msgs, submitCall>>
      BY <2>5 DEF PurchaseResult
    <3>2. CASE w = v /\ wstate[w] = "FETCHING"
      <4>1. wstate'[v] = "RUNNING" /\ exec'[v] = "running"
        BY <2>5, <3>2 DEF PurchaseResult, TypeOK
      <4>2. peerState[v] # "NONE" /\ exec[v] = "idle"
        BY <1>1, <3>2 DEF Follows
      <4> QED BY <1>1, <2>1, <3>1, <3>2, <4>1, <4>2 DEF Follows
    <3>3. CASE ~(w = v /\ wstate[w] = "FETCHING")
      <4>1. wstate'[v] = wstate[v] /\ exec'[v] = exec[v]
        BY <2>5, <3>3 DEF PurchaseResult, TypeOK
      <4> QED BY <1>1, <2>1, <3>1, <4>1, FollowsFrame
    <3> QED BY <3>2, <3>3
  <2>6. CASE ExecuteResult(w)
    <3>1. /\ exec[w] = "ok" /\ submitCall' = [submitCall EXCEPT ![w] = "calling"]
          /\ UNCHANGED <<msgs, wstate, exec>>
      BY <2>6 DEF ExecuteResult
    <3>2. submitCall'[v] # submitCall[v] => exec[v] = "ok"
      BY <3>1 DEF TypeOK
    <3> QED BY <1>1, <2>1, <3>1, <3>2 DEF Follows
  <2>7. CASE PurchaseResultPanics(w) \/ ExecuteResultPanics(w) \/ SubmitResult(w)
    BY <1>1, <2>1, <2>7, FollowsFrame
       DEF PurchaseResultPanics, ExecuteResultPanics, SubmitResult, work
  <2> QED BY <1>6, <2>2, <2>3, <2>4, <2>5, <2>6, <2>7 DEF Worker
<1>7. ASSUME NEW w \in Workers, Environment(w) PROVE Follows(v)'
  <2>1. peerState' = peerState /\ msgs' = msgs /\ wstate' = wstate
    BY <1>7 DEF Environment, FileArrives, FetchReport, ExecuteDone, SubmitNotify
  <2>2. CASE UNCHANGED work
    BY <1>1, <2>1, <2>2, FollowsFrame DEF work
  <2>3. ASSUME NEW ok \in BOOLEAN, NEW ans, ExecuteDone(w, ok, ans) PROVE Follows(v)'
    <3>1. CASE w = v
      <4>1. exec[v] = "running" /\ exec'[v] # "idle" /\ submitCall' = submitCall
        BY <2>3, <3>1 DEF ExecuteDone, TypeOK
      <4> QED BY <1>1, <2>1, <4>1 DEF Follows
    <3>2. CASE w # v
      <4>1. exec'[v] = exec[v] /\ submitCall' = submitCall
        BY <2>3, <3>2 DEF ExecuteDone, TypeOK
      <4> QED BY <1>1, <2>1, <4>1, FollowsFrame
    <3> QED BY <3>1, <3>2
  <2>4. CASE SubmitNotify(w)
    <3>1. exec' = exec /\ submitCall[w] = "calling" /\ submitCall' = [submitCall EXCEPT ![w] = "notified"]
      BY <2>4 DEF SubmitNotify
    <3>2. submitCall'[v] # "none" => submitCall[v] # "none"
      BY <3>1 DEF TypeOK
    <3> QED BY <1>1, <2>1, <3>1, <3>2 DEF Follows
  <2>5. CASE (\E g \in Groups : FileArrives(w, g)) \/ (\E ok \in FetchOutcomes : FetchReport(w, ok))
    BY <2>2, <2>5 DEF FileArrives, FetchReport
  <2> QED BY <1>7, <2>3, <2>4, <2>5, OutcomesAssumption DEF Environment
<1> QED BY <1>2, <1>3, <1>4, <1>5, <1>6, <1>7 DEF Next, Master

\* The callers in the channel are workers (chain/calc_contract.go:88-96).
LEMMA CallerType ==
  ASSUME answerChan \in Seq(Call)
  PROVE  \A n \in 1 .. Len(answerChan) : answerChan[n].caller \in Workers
<1>1. \A n \in 1 .. Len(answerChan) : answerChan[n] \in Call
  OBVIOUS
<1> QED BY <1>1 DEF Call

\* What neither the vote, the channel nor the workers' calls take part in.
LEMMA AnswerFrame ==
  ASSUME AnswerFollowsWork, AnswersExpected,
         UNCHANGED <<peerAnswers, answerChan, computed, submitCall>>,
         mproc = "crashed" => mproc' = "crashed",
         \A w \in Workers : /\ peerState[w] = "RUNNING" => peerState'[w] = "RUNNING"
                            /\ peerState'[w] = "SUBMITTED" => peerState[w] = "SUBMITTED",
         TypeOK
  PROVE  AnswerFollowsWork' /\ AnswersExpected'
<1>1. \A n \in 1 .. Len(answerChan) : answerChan[n].caller \in Workers
  BY CallerType DEF TypeOK
<1>2. \A w : Masked(w)' = Masked(w)
  BY DEF Masked
<1>3. \A w \in Workers : peerState'[w] = "SUBMITTED" =>
        \/ Readable(w, Masked(w)) = DOMAIN Masked(w)
        \/ mproc' = "crashed"
  BY DEF AnswerFollowsWork
<1> QED BY <1>1, <1>2, <1>3 DEF AnswerFollowsWork, AnswersExpected

\* The guard of the peerAnswerChan case holds, the answer that is counted is
\* what the worker submitted, and the next one is from somebody else
\* (master/session.go:160-200).
LEMMA AnswerTakenStep ==
  ASSUME TypeOK, AnswerFollowsWork, AnswersExpected, PeerAnswer \/ PeerAnswerPanics
  PROVE  AnswerFollowsWork' /\ AnswersExpected'
<1> DEFINE call == Head(answerChan)
           c == call.caller
<1>1. answerChan \in Seq(Call) /\ answerChan # <<>> /\ answerChan' = Tail(answerChan)
  BY DEF TypeOK, PeerAnswer, PeerAnswerPanics
<1>2. /\ call \in Call /\ call = answerChan[1]
      /\ Len(answerChan) \in Nat /\ 1 \in 1 .. Len(answerChan)
      /\ Len(answerChan') = Len(answerChan) - 1
      /\ \A n \in 1 .. Len(answerChan') : answerChan'[n] = answerChan[n + 1] /\ n + 1 \in 1 .. Len(answerChan)
  BY <1>1, HeadTailProperties
<1>3. \A n \in 1 .. Len(answerChan) : answerChan[n].caller \in Workers
  BY <1>1, CallerType
<1>4. c \in Workers /\ call.ansHash \in AnsHash /\ peerState[c] = "RUNNING"
  BY <1>2, <1>3 DEF AnswersExpected, Call
<1>5. submitCall[c] = "notified" /\ call.ansHash = Masked(c)
  BY <1>2, <1>4 DEF AnswerFollowsWork
<1>6. /\ CountAnswer(c, call.ansHash)
      /\ Readable(c, call.ansHash) = DOMAIN call.ansHash \/ mproc' = "crashed"
      /\ mproc = "live"
      /\ UNCHANGED work
  BY <1>4 DEF PeerAnswer, PeerAnswerPanics
<1>7. /\ \A w \in Workers : peerState'[w] = IF w = c THEN "SUBMITTED" ELSE peerState[w]
      /\ peerAnswers'[c] = Answer(c, call.ansHash)
      /\ \A w \in Workers : w # c => peerAnswers'[w] = peerAnswers[w]
  <2> HIDE DEF c
  <2>1. /\ peerState' = [peerState EXCEPT ![c] = "SUBMITTED"]
        /\ peerAnswers' = [peerAnswers EXCEPT ![c] = Answer(c, call.ansHash)]
    BY <1>4, <1>6, CountIs
  <2>2. DOMAIN peerState = Workers /\ DOMAIN peerAnswers = Workers
    BY DEF TypeOK
  <2> QED BY <1>4, <2>1, <2>2
<1> HIDE DEF call
<1>9. \A w : Masked(w)' = Masked(w)
  BY <1>6 DEF Masked, work
<1>10. submitCall' = submitCall
  BY <1>6 DEF work
<1>11. \A n \in 1 .. Len(answerChan') : answerChan'[n].caller \in Workers /\ answerChan'[n].caller # c
  BY <1>2, <1>3 DEF AnswersExpected
<1>12. AnswersExpected'
  <2>1. \A n \in 1 .. Len(answerChan') : peerState'[answerChan'[n].caller] = "RUNNING"
    BY <1>2, <1>7, <1>11 DEF AnswersExpected
  <2>2. \A m, n \in 1 .. Len(answerChan') : answerChan'[m].caller = answerChan'[n].caller => m = n
    BY <1>2 DEF AnswersExpected
  <2> QED BY <2>1, <2>2 DEF AnswersExpected
<1>13. AnswerFollowsWork'
  <2>1. ASSUME NEW w \in Workers
        PROVE  /\ submitCall'[w] = "calling" => peerState'[w] = "RUNNING"
               /\ peerState'[w] = "SUBMITTED" =>
                     /\ submitCall'[w] = "notified"
                     /\ peerAnswers'[w] = Answer(w, Masked(w))
                     /\ Readable(w, Masked(w)) = DOMAIN Masked(w) \/ mproc' = "crashed"
    <3>1. CASE w = c
      BY <1>5, <1>6, <1>7, <1>10, <3>1
    <3>2. CASE w # c
      BY <1>6, <1>7, <1>10, <3>2 DEF AnswerFollowsWork
    <3> QED BY <3>1, <3>2
  <2>2. \A n \in 1 .. Len(answerChan'), w \in Workers : answerChan'[n].caller = w =>
            submitCall'[w] = "notified" /\ answerChan'[n].ansHash = Masked(w)
    BY <1>2, <1>10 DEF AnswerFollowsWork
  <2>3. \A w : /\ Answer(w, Masked(w))' = Answer(w, Masked(w))
               /\ Readable(w, Masked(w))' = Readable(w, Masked(w))
    BY <1>9 DEF Answer, Readable
  <2> QED BY <1>9, <2>1, <2>2, <2>3 DEF AnswerFollowsWork
<1> QED BY <1>12, <1>13

\* A worker that submits was given the task and has not submitted before
\* (worker/session.go:139-160).
LEMMA SubmitStep ==
  ASSUME TypeOK, WorkFollowsMeta, AnswerFollowsWork, AnswersExpected, NEW w \in Workers,
         \/ ExecuteResult(w)
         \/ SubmitNotify(w)
         \/ \E ok \in BOOLEAN, ans \in [DOMAIN computed[w] -> Hashes] : ExecuteDone(w, ok, ans)
  PROVE  AnswerFollowsWork' /\ AnswersExpected'
<1>1. \A n \in 1 .. Len(answerChan) : answerChan[n].caller \in Workers
  BY CallerType DEF TypeOK
<1>2. UNCHANGED <<peerState, peerAnswers, mproc>>
  BY DEF ExecuteResult, SubmitNotify, ExecuteDone, votes, mvars
<1>3. CASE ExecuteResult(w)
  <2>1. /\ exec[w] = "ok" /\ submitCall[w] = "none" /\ submitCall' = [submitCall EXCEPT ![w] = "calling"]
        /\ UNCHANGED <<computed, answerChan>>
    BY <1>3 DEF ExecuteResult
  <2>2. peerState[w] = "RUNNING"
    BY <2>1 DEF TypeOK, WorkFollowsMeta, AnswerFollowsWork
  <2>3. \A v \in Workers : submitCall'[v] = IF v = w THEN "calling" ELSE submitCall[v]
    BY <2>1 DEF TypeOK
  <2>4. \A v : Masked(v)' = Masked(v)
    BY <2>1 DEF Masked
  <2> QED BY <1>1, <1>2, <2>1, <2>2, <2>3, <2>4 DEF AnswerFollowsWork, AnswersExpected
<1>4. ASSUME NEW ok \in BOOLEAN, NEW ans, ExecuteDone(w, ok, ans)
      PROVE  AnswerFollowsWork' /\ AnswersExpected'
  <2>1. /\ exec[w] = "running" /\ UNCHANGED <<submitCall, answerChan>>
        /\ computed' = [computed EXCEPT ![w] = ans] \/ computed' = computed
    BY <1>4 DEF ExecuteDone
  <2>2. submitCall[w] = "none"
    BY <2>1 DEF TypeOK, WorkFollowsMeta
  <2>3. \A v \in Workers : v # w => Masked(v)' = Masked(v)
    BY <2>1 DEF TypeOK, Masked
  <2> QED BY <1>1, <1>2, <2>1, <2>2, <2>3 DEF AnswerFollowsWork, AnswersExpected
<1>5. CASE SubmitNotify(w)
  <2>1. /\ submitCall[w] = "calling" /\ submitCall' = [submitCall EXCEPT ![w] = "notified"]
        /\ UNCHANGED computed
        /\ \/ answerChan' = answerChan
           \/ answerChan' = Append(answerChan, [caller |-> w, ansHash |-> Masked(w)])
    BY <1>5 DEF SubmitNotify
  <2>2. peerState[w] = "RUNNING"
    BY <2>1 DEF AnswerFollowsWork
  <2>3. \A v \in Workers : submitCall'[v] = IF v = w THEN "notified" ELSE submitCall[v]
    BY <2>1 DEF TypeOK
  <2>4. \A v : Masked(v)' = Masked(v)
    BY <2>1 DEF Masked
  <2>5. CASE answerChan' = answerChan
    BY <1>1, <1>2, <2>1, <2>2, <2>3, <2>4, <2>5 DEF AnswerFollowsWork, AnswersExpected
  <2>6. CASE answerChan' = Append(answerChan, [caller |-> w, ansHash |-> Masked(w)])
    <3> DEFINE c == [caller |-> w, ansHash |-> Masked(w)]
    <3>1. c.caller = w /\ c.ansHash = Masked(w)
      OBVIOUS
    <3> HIDE DEF c
    <3>2. /\ Len(answerChan) \in Nat /\ Len(answerChan') = Len(answerChan) + 1
          /\ answerChan'[Len(answerChan) + 1] = c
          /\ \A n \in 1 .. Len(answerChan) : answerChan'[n] = answerChan[n]
      <4>1. answerChan \in Seq(Call)
        BY DEF TypeOK
      <4>2. answerChan' = Append(answerChan, c)
        BY <2>6 DEF c
      <4>3. answerChan \in Seq(Call \cup {c})
        BY <4>1
      <4> QED BY <4>2, <4>3, AppendProperties
    <3>3. \A n \in 1 .. Len(answerChan) : answerChan[n].caller # w
      BY <2>1 DEF AnswerFollowsWork
    <3>4. \A n \in 1 .. Len(answerChan') : n \in 1 .. Len(answerChan) \/ n = Len(answerChan) + 1
      BY <3>2
    <3>5. AnswersExpected'
      <4>1. \A n \in 1 .. Len(answerChan') : peerState'[answerChan'[n].caller] = "RUNNING"
        BY <1>1, <1>2, <2>2, <3>1, <3>2, <3>4 DEF AnswersExpected
      <4>2. \A m, n \in 1 .. Len(answerChan') : answerChan'[m].caller = answerChan'[n].caller => m = n
        BY <3>1, <3>2, <3>3, <3>4 DEF AnswersExpected
      <4> QED BY <4>1, <4>2 DEF AnswersExpected
    <3>6. AnswerFollowsWork'
      <4>1. \A n \in 1 .. Len(answerChan'), v \in Workers : answerChan'[n].caller = v =>
                submitCall'[v] = "notified" /\ answerChan'[n].ansHash = Masked(v)'
        BY <1>1, <2>3, <2>4, <3>1, <3>2, <3>4 DEF AnswerFollowsWork
      <4> QED BY <1>2, <2>1, <2>2, <2>3, <2>4, <4>1 DEF AnswerFollowsWork
    <3> QED BY <3>5, <3>6
  <2> QED BY <2>1, <2>5, <2>6
<1> QED BY <1>3, <1>4, <1>5

\* Every step keeps it.
LEMMA SubmitInvStep == TypeOK /\ SubmitInv /\ [Next]_vars => SubmitInv'
<1> SUFFICES ASSUME TypeOK, SubmitInv, [Next]_vars PROVE AnswerFollowsWork' /\ AnswersExpected'
  BY FollowsStep DEF SubmitInv
<1> DEFINE Goal == AnswerFollowsWork' /\ AnswersExpected'
<1>1. AnswerFollowsWork /\ AnswersExpected /\ WorkFollowsMeta
  BY DEF SubmitInv
<1>2. ASSUME UNCHANGED <<peerState, votes, answerChan, computed, submitCall>>,
             mproc = "crashed" => mproc' = "crashed"
      PROVE  Goal
  <2>1. peerAnswers' = peerAnswers
    BY <1>2 DEF votes
  <2> QED BY <1>1, <1>2, <2>1, AnswerFrame
<1> HIDE DEF Goal
<1>3. CASE Start \/ DeployResult \/ TerminateResult \/ UNCHANGED vars
  <2>1. /\ UNCHANGED <<peerState, votes, answerChan, work>>
        /\ mproc = "crashed" => mproc' = "crashed"
    BY <1>3 DEF Start, DeployResult, TerminateResult, vars, mvars
  <2>2. UNCHANGED <<computed, submitCall>>
    BY <2>1 DEF work
  <2> QED BY <1>2, <2>1, <2>2 DEF Goal
<1>4. ASSUME NEW w \in Workers, PeerRes(w) PROVE Goal
  <2>1. /\ UNCHANGED <<votes, answerChan, work>>
        /\ \/ peerState' = peerState
           \/ peerState[w] = "NONE" /\ peerState' = [peerState EXCEPT ![w] = "RUNNING"]
    BY <1>4 DEF PeerRes
  <2>2. \A v \in Workers : /\ peerState[v] = "RUNNING" => peerState'[v] = "RUNNING"
                           /\ peerState'[v] = "SUBMITTED" => peerState[v] = "SUBMITTED"
    BY <2>1 DEF TypeOK
  <2>3. mproc' = mproc
    BY <1>4 DEF PeerRes, mvars
  <2> QED BY <1>1, <2>1, <2>2, <2>3, AnswerFrame DEF Goal, votes, work
<1>5. CASE PeerAnswer \/ PeerAnswerPanics
  BY <1>1, <1>5, AnswerTakenStep DEF Goal
<1>6. ASSUME NEW w \in Workers, Worker(w) PROVE Goal
  <2>1. CASE ExecuteResult(w)
    BY <1>1, <2>1, SubmitStep DEF Goal
  <2>2. CASE ~ExecuteResult(w)
    BY <1>2, <1>6, <2>2 DEF Worker, TaskRequest, ValidateResult, Meta, PurchaseResult,
         PurchaseResultPanics, ExecuteResultPanics, SubmitResult, work, mvars
  <2> QED BY <2>1, <2>2
<1>7. ASSUME NEW w \in Workers, Environment(w) PROVE Goal
  <2>1. CASE SubmitNotify(w) \/ \E ok \in ExecOutcomes, ans \in [DOMAIN computed[w] -> Hashes] : ExecuteDone(w, ok, ans)
    BY <1>1, <2>1, OutcomesAssumption, SubmitStep DEF Goal
  <2>2. CASE (\E g \in Groups : FileArrives(w, g)) \/ \E ok \in FetchOutcomes : FetchReport(w, ok)
    BY <1>2, <2>2 DEF FileArrives, FetchReport, work, mvars
  <2> QED BY <1>7, <2>1, <2>2 DEF Environment
<1> QED BY <1>3, <1>4, <1>5, <1>6, <1>7 DEF Next, Master, Goal

\* Nothing is on its way at the start.
LEMMA SubmitInvInit == Init => SubmitInv
<1> SUFFICES ASSUME Init PROVE SubmitInv
  OBVIOUS
<1>1. Len(answerChan) = 0
  BY DEF Init
<1> QED BY <1>1 DEF Init, SubmitInv, WorkFollowsMeta, AnswerFollowsWork, AnswersExpected

\* The guard of the peerAnswerChan case never drops an answer
\* (master/session.go:165).
THEOREM ExpectedCorrect == Spec => []AnswersExpected
<1>1. SubmitInv => AnswersExpected
  BY DEF SubmitInv
<1> QED BY <1>1, SubmitInvInit, SubmitInvStep, TypeCorrect, PTL DEF Spec

\* What the master counts for a worker is what the worker computed, unless the
\* sum with the key is too long (worker/session.go:143, master/session.go:172).
THEOREM RoundTripCorrect == Spec => []AnswerRoundTrip
<1>1. TypeOK /\ SubmitInv => AnswerRoundTrip
  <2> SUFFICES ASSUME TypeOK, SubmitInv, NEW w \in Workers,
                      NEW i \in Units \cap DOMAIN computed[w],
                      peerState[w] = "SUBMITTED", computed[w][i] + ConfoundKey[w] < HashLimit
               PROVE  \/ peerAnswers[w][i] = computed[w][i]
                      \/ peerAnswers[w][i] = NoAnswer /\ mproc = "crashed"
    BY DEF AnswerRoundTrip
  <2>1. /\ peerAnswers[w] = Answer(w, Masked(w))
        /\ Readable(w, Masked(w)) = DOMAIN Masked(w) \/ mproc = "crashed"
    BY DEF SubmitInv, AnswerFollowsWork
  <2>2. DOMAIN Masked(w) = DOMAIN computed[w] /\ Masked(w)[i] = Confound(computed[w][i], ConfoundKey[w])
    BY DEF Masked
  <2>3. computed[w][i] \in Space /\ ConfoundKey[w] \in Space
    <3>1. PICK n \in OutputCnts : computed[w] \in [1 .. n -> Hash]
      BY DEF TypeOK, AnsHash
    <3> QED BY <3>1, HashesAssumption DEF Hash
  <2>4. CASE i \in Readable(w, Masked(w))
    <3>1. peerAnswers[w][i] = Unconfound(Masked(w)[i], ConfoundKey[w])
      BY <2>1, <2>4 DEF Answer
    <3> QED BY <2>2, <2>3, <3>1, RoundTrip
  <2>5. CASE i \notin Readable(w, Masked(w))
    BY <2>1, <2>2, <2>5 DEF Answer
  <2> QED BY <2>4, <2>5
<1> QED BY <1>1, SubmitInvInit, SubmitInvStep, TypeCorrect, PTL DEF Spec
=============================================================================

---------------------------- MODULE CalcContract ----------------------------
(***************************************************************************)
(* The simulated chain of calculation contracts (chain/calc_contract.go):  *)
(* one counter for the addresses and one map of contracts, for all nodes   *)
(* of the process, with nothing that orders concurrent calls.              *)
(***************************************************************************)
EXTENDS Integers, FiniteSets

CONSTANTS
    Callers,         \* ids of the nodes that listen to a contract
    TaskIDs,
    Sinks,           \* channels that listen to submissions
    nobody,          \* no contract, no channel
    MaxAddress       \* the largest address that is handed out

VARIABLES
    addressNum,
    calcContracts    \* calcContracts[a]: deploy info and SubmitListeners

chainvars == <<addressNum, calcContracts>>

Addresses == 1 .. MaxAddress
Contract == [deployer : Callers, task : TaskIDs, submit : [Callers -> Sinks \cup {nobody}]]

ChainTypeOK ==
    /\ addressNum \in 0 .. MaxAddress
    /\ calcContracts \in [Addresses -> Contract \cup {nobody}]

ChainInit == addressNum = 0 /\ calcContracts = [a \in Addresses |-> nobody]

\* Deploy counts ...
TakeAddress == addressNum' = addressNum + 1 /\ UNCHANGED calcContracts

\* ... and takes what the counter is by now for the address, at which the
\* new contract replaces whatever is there.
Deploy(id, task) ==
    /\ calcContracts' = [calcContracts EXCEPT ![addressNum] =
           [deployer |-> id, task |-> task, submit |-> [c \in Callers |-> nobody]]]
    /\ UNCHANGED addressNum

\* Validate finds the contract, and with it its deployer and its task.
Valid(a) == calcContracts[a] # nobody

\* ListenSubmit: one listener for every node.
ListenSubmit(a, id, sink) ==
    /\ calcContracts' = [calcContracts EXCEPT ![a].submit[id] = sink]
    /\ UNCHANGED addressNum

\* Whom the goroutine of a Submit sends the call to.
SubmitListeners(a) == {c \in Callers : calcContracts[a].submit[c] # nobody}
=============================================================================

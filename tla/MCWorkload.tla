----------------------------- MODULE MCWorkload -----------------------------
(* The drivers of Batching, the pipeline of a validator, the workload of a file,  *)
(* blocks replayed, and the orchestrator of benchmarks, on small workloads: a     *)
(* behaviour is of one of them.                                                   *)
EXTENDS Batching, Pipeline, WorkloadFile, BlockLoader, Orchestrator

TwoClusters ==
    <<[token |-> "T", families |-> <<<<"a", "x">>, <<"b", "z">>>>],
      [token |-> "U", families |-> <<<<"c", "y">>>>]>>
FirstContentions == {p \in ContendedChoices : Member(p[1]) = "a" /\ Member(p[2]) = "c"}

Tx(n, price, to, data, list) ==
    [caller |-> <<7, n>>, chain_id |-> 1, nonce |-> n, gas_price |-> price, gas_limit |-> 35000,
     transact_to |-> to, value |-> n, data |-> data, access_list |-> list]
Transfer(n) == Tx(n, 300, <<9, 9>>, <<1, n>>, <<>>)
Creation(n) == Tx(n, 0, Create, <<1>>, <<<<<<9, 9>>, <<<<0, 1>>, <<2, 0>>>>>>>>)
Legacy(n) ==
    LET tx == [Transfer(n) EXCEPT !.chain_id = None]
        req == [nonce |-> n, gas_price |-> 300, gas |-> 35000, to |-> <<9, 9>>, value |-> n,
                data |-> <<1, n>>]
    IN [WriteLine(tx) EXCEPT !.raw = RlpLegacy(req)]
SignedLine(n) == [WriteLine(Transfer(n)) EXCEPT !.raw = Signed(@, <<<<1>>, <<3>>, <<4>>>>)]
Blank == [WriteLine(Transfer(0)) EXCEPT !.words = 0]
ThreeWords == [WriteLine(Transfer(0)) EXCEPT !.words = 3]
NoAddress == [WriteLine(Transfer(0)) EXCEPT !.address = FALSE]
SomeFiles ==
    {<<WriteLine(Transfer(0)), Blank, WriteLine(Creation(1)), ThreeWords, Legacy(2),
       SignedLine(3), WriteLine(Transfer(256)), WriteLine(Creation(5)), WriteLine(Transfer(6)),
       NoAddress>>,
     <<Blank, NoAddress>>, <<ThreeWords, WriteLine(Transfer(1))>>}

Eoa(balance, nonce) ==
    [balance |-> balance, nonce |-> nonce, code |-> NoCode, slots |-> [h \in {} |-> 0]]
Counter == [balance |-> 0, nonce |-> 1, code |-> "counter", slots |-> Slot :> 5]
SomeOrigins ==
    {[p |-> Eoa(2, 0), q |-> Eoa(0, 3), k |-> Counter], [p |-> Eoa(3, 1), q |-> Eoa(1, 0)]}

SixMachines == <<"m1", "m2", "m3", "m4", "m5", "m6">>
TwoRegions == [m \in ToSet(SixMachines) |-> IF m \in {"m1", "m2", "m4"} THEN 1 ELSE 2]
SomeActive == {ToSet(SixMachines), {"m1", "m5"}}
TwoLoads == <<4, 0>>
SomeFaults ==
    {[kind |-> "permanent", faults |-> f] : f \in {0, 1}}
    \cup {[kind |-> "recovery", faults |-> f] : f \in {2, 3}}

vars == <<batchingVars, pipelineVars, fileVars, loaderVars, orchVars>>

NoDriver ==
    /\ driver = "none" /\ phase = "off" /\ pool = <<>> /\ batch = <<>>
    /\ storage = InitialStorage /\ executed = <<>> /\ IdleThreads
    /\ record = <<>> /\ replay = InitialStorage /\ replayed = 0 /\ fastPath = FALSE

Init ==
    \/ BatchingInit /\ PipelineOff /\ FileOff /\ LoaderOff /\ OrchestratorOff
    \/ NoDriver /\ PipelineInit /\ FileOff /\ LoaderOff /\ OrchestratorOff
    \/ NoDriver /\ PipelineOff /\ FileInit /\ LoaderOff /\ OrchestratorOff
    \/ NoDriver /\ PipelineOff /\ FileOff /\ LoaderInit /\ OrchestratorOff
    \/ NoDriver /\ PipelineOff /\ FileOff /\ LoaderOff /\ OrchestratorInit

Next ==
    \/ BatchingNext /\ UNCHANGED <<pipelineVars, fileVars, loaderVars, orchVars>>
    \/ PipelineNext /\ UNCHANGED <<batchingVars, fileVars, loaderVars, orchVars>>
    \/ FileNext /\ UNCHANGED <<batchingVars, pipelineVars, loaderVars, orchVars>>
    \/ LoaderNext /\ UNCHANGED <<batchingVars, pipelineVars, fileVars, orchVars>>
    \/ OrchestratorNext /\ UNCHANGED <<batchingVars, pipelineVars, fileVars, loaderVars>>

Spec == Init /\ [][Next]_vars /\ BatchingFairness /\ PipelineFairness /\ FileFairness
             /\ OrchestratorFairness
=============================================================================

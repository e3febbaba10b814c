---------------------------- MODULE Orchestrator ----------------------------
(* The orchestrator runs a list of benchmarks on cloud machines over ssh      *)
(* (orchestrator.rs, faults.rs, ssh.rs, protocol/mysticeti.rs): it cleans the  *)
(* machines, writes their configuration, boots a node on each, kills and       *)
(* reboots nodes, and scrapes their metrics.  A machine has tmux sessions, a   *)
(* configuration and the databases of the authorities it has run.              *)
(* An ssh command reaches some of its machines or all of them, and may fail in *)
(* either case; the user may interrupt the run and start it again.             *)
EXTENDS Integers, Sequences, FiniteSets, SequencesExt, FiniteSetsExt

CONSTANTS
    Machines,          \* all instances, in the provider's order
    Region,            \* the position of an instance's region in settings.regions
    ActiveSets,        \* the sets of instances that may be active
    Committee,         \* --committee: parameters.nodes
    Loads,             \* --loads: one benchmark each
    Monitoring,        \* settings.monitoring
    DedicatedClients,  \* settings.dedicated_clients
    FaultsTypes,       \* values of settings.faults
    MaxTicks,          \* bound: ticks of faults_interval in a benchmark
    MaxFailures,       \* bound: failed ssh commands and interrupts
    MaxAttempts        \* bound: invocations of the orchestrator

VARIABLES
    orchPc, attempt, benchmark,
    active, faultsType,            \* the machines and the settings of all attempts
    selected,                      \* select_instances of them
    latestCommitteeSize,           \* run_benchmarks' latest_committee_size
    killedNodes, dead, ticks,      \* run's killed_nodes, CrashRecoverySchedule::dead
    jobs, node, config, databases, \* of each machine
    failures

settingVars == <<attempt, active, faultsType, selected>>
runVars == <<killedNodes, dead, ticks>>
machineVars == <<jobs, node, config, databases>>
orchVars == <<settingVars, orchPc, benchmark, latestCommitteeSize, runVars, machineVars, failures>>

NoNode == [authority |-> -1, config |-> <<>>]
NoConfig == [committee |-> <<>>, load |-> -1]

-----------------------------------------------------------------------------
(* select_instances                                                          *)

InstancesByRegions(available) ==
    [r \in 1 .. Max({Region[i] : i \in ToSet(Machines)}) |->
        SelectSeq(Machines, LAMBDA i : i \in available /\ Region[i] = r)]
Without(queues, picked) ==
    [r \in DOMAIN queues |-> SelectSeq(queues[r], LAMBDA i : i \notin picked)]

\* The regions in turn, over and over: the first n of all their instances.
Cycle(queues, n) ==
    LET places == {p \in (DOMAIN queues) \X (1 .. Len(Machines)) : p[2] <= Len(queues[p[1]])}
        before(p) == {q \in places : q[2] < p[2] \/ (q[2] = p[2] /\ q[1] < p[1])}
        place(k) == CHOOSE p \in places : Cardinality(before(p)) = k - 1
    IN [k \in 1 .. n |-> queues[place(k)[1]][place(k)[2]]]

MinimumInstances == Committee + DedicatedClients + (IF Monitoring THEN 1 ELSE 0)
NoSelection == [monitor |-> {}, dedicated |-> <<>>, nodes |-> <<>>]
Selection(available) ==
    LET queues == InstancesByRegions(available)
        monitor == IF Monitoring /\ queues[1] # <<>> THEN {Head(queues[1])} ELSE {}
        dedicated == Cycle(Without(queues, monitor), DedicatedClients)
        nodes == Cycle(Without(queues, monitor \cup ToSet(dedicated)), Committee)
    IN IF Cardinality(available) < MinimumInstances THEN NoSelection
       ELSE [monitor |-> monitor, dedicated |-> dedicated, nodes |-> nodes]

\* It is called at every step of a benchmark, with the same instances.
Monitor == selected.monitor
Nodes == selected.nodes
Clients == IF selected.dedicated = <<>> THEN Nodes ELSE selected.dedicated

-----------------------------------------------------------------------------
(* CrashRecoverySchedule::update: what to kill, what to boot, the new dead.  *)

Crashed(l, h) == SubSeq(Nodes, l + 1, h)

Update ==
    LET max == faultsType.faults
        min == max \div 3
        range == IF dead = 0 /\ min # 0 THEN <<0, min>>
                 ELSE IF dead = min /\ min # 0 THEN <<min, 2 * min>>
                 ELSE <<2 * min, max>>
        none == [kill |-> <<>>, boot |-> <<>>, dead |-> dead]
    IN IF faultsType.kind = "permanent"
       THEN IF dead = 0 THEN [none EXCEPT !.kill = Crashed(0, max), !.dead = max] ELSE none
       ELSE IF dead = max THEN [none EXCEPT !.boot = Crashed(0, max), !.dead = 0]
       ELSE [none EXCEPT !.kill = Crashed(range[1], range[2]), !.dead = @ + range[2] - range[1]]

-----------------------------------------------------------------------------
(* Commands.  execute_per_instance waits for all machines and fails if one    *)
(* fails; a retry of a command whose answer was lost may fail although the    *)
(* first try was executed.                                                    *)

Ssh(targets, reached, ok, next) ==
    /\ reached \subseteq targets
    /\ IF ok THEN reached = targets ELSE failures < MaxFailures
    /\ failures' = failures + (IF ok THEN 0 ELSE 1)
    /\ orchPc' = IF ok THEN next ELSE "failed"

\* Mutant: the databases stay.
CleanedSessions(reached) ==
    /\ jobs' = [i \in DOMAIN jobs |-> IF i \in reached THEN {} ELSE jobs[i]]
    /\ node' = [i \in DOMAIN node |-> IF i \in reached THEN NoNode ELSE node[i]]
    /\ UNCHANGED <<config, databases>>
\* tmux kill-server, and rm of the databases.
Cleaned(reached) ==
    /\ jobs' = [i \in DOMAIN jobs |-> IF i \in reached THEN {} ELSE jobs[i]]
    /\ node' = [i \in DOMAIN node |-> IF i \in reached THEN NoNode ELSE node[i]]
    /\ databases' = [i \in DOMAIN databases |-> IF i \in reached THEN {} ELSE databases[i]]
    /\ UNCHANGED config

\* A session in the background: tmux refuses a second one of the same name.
Refused(targets, id) == \E i \in targets : \E job \in jobs[i] : job.id = id
StartJob(reached, job) ==
    jobs' = [i \in DOMAIN jobs |-> IF i \in reached THEN jobs[i] \cup {job} ELSE jobs[i]]

\* node_command: the authority is the position in the list of machines to boot. The node
\* opens the database of its authority if there is one.
Boot(machines, reached) ==
    LET at(i) == CHOOSE k \in DOMAIN machines : machines[k] = i
        opened(i) == {s \in databases[i] : s.authority = at(i) - 1}
        new(i) == [authority |-> at(i) - 1, since |-> <<attempt, benchmark>>]
    IN /\ node' = [i \in DOMAIN node |->
                     IF i \in reached THEN [authority |-> at(i) - 1, config |-> config[i]] ELSE node[i]]
       /\ databases' = [i \in DOMAIN databases |->
                     IF i \in reached /\ opened(i) = {} THEN databases[i] \cup {new(i)} ELSE databases[i]]
       /\ UNCHANGED <<jobs, config>>

\* The metrics of a node answer.
Reachable(machines) == \A i \in machines : node[i] # NoNode /\ node[i].config # NoConfig

-----------------------------------------------------------------------------
(* run_benchmarks                                                            *)

\* cleanup
Cleanup(pc, next) ==
    /\ orchPc = pc
    /\ \E reached \in SUBSET active, ok \in BOOLEAN :
          Ssh(active, reached, ok, next) /\ Cleaned(reached)
    /\ UNCHANGED <<settingVars, benchmark, runVars, latestCommitteeSize>>

Prepare == Cleanup("prepare", "install")

\* install has no effect that matters here; --skip-testbed-update skips both.
Install ==
    /\ orchPc = "install"
    /\ \/ \E reached \in SUBSET active, ok \in BOOLEAN : Ssh(active, reached, ok, "update")
       \/ orchPc' = "clean" /\ UNCHANGED failures
    /\ UNCHANGED <<settingVars, benchmark, runVars, latestCommitteeSize, machineVars>>

Background(pc, targets, job, next) ==
    /\ orchPc = pc
    /\ \E reached \in SUBSET targets, ok \in BOOLEAN :
          IF Refused(targets, job.id)
          THEN orchPc' = "refused" /\ UNCHANGED <<failures, jobs>>
          ELSE Ssh(targets, reached, ok, next) /\ StartJob(reached, job)
    /\ UNCHANGED <<settingVars, benchmark, runVars, node, config, databases>>

StartUpdate ==
    /\ Background("update", active, [id |-> "update", config |-> NoConfig], "waitUpdate")
    /\ UNCHANGED latestCommitteeSize

\* The command that a session runs comes to its end: genesis_command writes the parameters
\* and the committee.
JobEnds(i) ==
    /\ \E job \in jobs[i] :
          /\ jobs' = [jobs EXCEPT ![i] = @ \ {job}]
          /\ config' = [config EXCEPT ![i] = IF job.id = "configure" THEN job.config ELSE @]
    /\ UNCHANGED <<orchPc, settingVars, benchmark, latestCommitteeSize, runVars,
                   node, databases, failures>>

Terminated(targets, id) == ~Refused(targets, id)
\* Mutant: until the command is running.
WaitForRunning(pc, targets, id, next) ==
    /\ orchPc = pc
    /\ \E ok \in BOOLEAN :
          (ok => \A i \in targets : ~Terminated({i}, id)) /\ Ssh(targets, targets, ok, next)
    /\ UNCHANGED <<settingVars, benchmark, runVars, machineVars>>
\* wait_for_command
WaitForCommand(pc, targets, id, next) ==
    /\ orchPc = pc
    /\ \E ok \in BOOLEAN : (ok => Terminated(targets, id)) /\ Ssh(targets, targets, ok, next)
    /\ UNCHANGED <<settingVars, benchmark, runVars, machineVars>>

WaitUpdate ==
    WaitForCommand("waitUpdate", active, "update", "clean") /\ UNCHANGED latestCommitteeSize
CleanBenchmark == Cleanup("clean", "monitor")

\* start_monitoring: the first to select instances. Then configure, unless the size of the
\* committee is that of the last configuration.
StartMonitoring ==
    /\ orchPc = "monitor"
    /\ IF selected = NoSelection
       THEN orchPc' = "insufficient" /\ UNCHANGED failures
       ELSE \E reached \in SUBSET Monitor, ok \in BOOLEAN :
               Ssh(Monitor, reached, ok, IF latestCommitteeSize # Committee THEN "configure" ELSE "boot")
    /\ UNCHANGED <<settingVars, benchmark, latestCommitteeSize, runVars, machineVars>>

Configured == ToSet(Nodes) \cup ToSet(selected.dedicated)
Configure ==
    /\ Background("configure", Configured,
                  [id |-> "configure",
                   config |-> [committee |-> Nodes, load |-> Loads[benchmark] \div Committee]],
                  "waitConfigure")
    /\ UNCHANGED latestCommitteeSize
WaitConfigure ==
    /\ WaitForCommand("waitConfigure", Configured, "configure", "boot")
    /\ latestCommitteeSize' = IF orchPc' = "boot" THEN Committee ELSE latestCommitteeSize

\* boot_nodes: the session of a node must not be there already.
BootNodes(machines, next) ==
    IF \E i \in ToSet(machines) : node[i] # NoNode
    THEN orchPc' = "refused" /\ UNCHANGED <<failures, machineVars>>
    ELSE \E reached \in SUBSET ToSet(machines), ok \in BOOLEAN :
            Ssh(ToSet(machines), reached, ok, next) /\ Boot(machines, reached)
RunNodes ==
    /\ orchPc = "boot"
    /\ BootNodes(Nodes, "waitBoot")
    /\ UNCHANGED <<settingVars, benchmark, latestCommitteeSize, runVars>>

\* wait_for_success of boot_nodes; run_clients waits again, if there is load. A benchmark of
\* no duration ends here, with the nodes running. Then run begins.
WaitBoot ==
    /\ orchPc = "waitBoot" /\ Reachable(ToSet(Nodes))
    /\ orchPc' \in {"done", "clients"}
    /\ UNCHANGED <<settingVars, benchmark, latestCommitteeSize, runVars, machineVars,
                   failures>>
RunClients ==
    /\ orchPc = "clients"
    /\ Loads[benchmark] = 0 \/ Reachable(ToSet(Clients))
    /\ orchPc' = "run" /\ killedNodes' = {} /\ dead' = 0 /\ ticks' = 0
    /\ UNCHANGED <<settingVars, benchmark, latestCommitteeSize, machineVars, failures>>

\* The metrics of all but the killed nodes, until the duration is over. The measurements
\* are left out.
Scrape ==
    /\ orchPc = "run"
    /\ LET left == ToSet(Clients) \ killedNodes
       IN IF ~Reachable(left) THEN orchPc' = "refused" /\ UNCHANGED failures
          ELSE \E ok \in BOOLEAN, next \in {"run", "cleanEnd"} : Ssh(left, left, ok, next)
    /\ UNCHANGED <<settingVars, benchmark, latestCommitteeSize, runVars, machineVars>>

\* A tick of faults_interval.
Faults ==
    /\ orchPc = "run" /\ ticks < MaxTicks
    /\ ticks' = ticks + 1 /\ dead' = Update.dead
    /\ killedNodes' = (killedNodes \cup ToSet(Update.kill)) \ ToSet(Update.boot)
    /\ IF Update.boot # <<>> THEN BootNodes(Update.boot, "waitReboot")
       ELSE \E reached \in SUBSET ToSet(Update.kill), ok \in BOOLEAN :
               /\ Update.kill = <<>> => ok
               /\ Ssh(ToSet(Update.kill), reached, ok, "run")
               /\ node' = [i \in DOMAIN node |-> IF i \in reached THEN NoNode ELSE node[i]]
               /\ UNCHANGED <<jobs, config, databases>>
    /\ UNCHANGED <<settingVars, benchmark, latestCommitteeSize>>
WaitReboot ==
    /\ orchPc = "waitReboot" /\ Reachable(ToSet(Crashed(0, faultsType.faults)))
    /\ orchPc' = "run"
    /\ UNCHANGED <<settingVars, benchmark, latestCommitteeSize, runVars, machineVars,
                   failures>>
CleanEnd == Cleanup("cleanEnd", "next")

NextBenchmark ==
    /\ orchPc = "next"
    /\ IF benchmark < Len(Loads) THEN orchPc' = "clean" /\ benchmark' = benchmark + 1
       ELSE orchPc' = "done" /\ UNCHANGED benchmark
    /\ UNCHANGED <<settingVars, latestCommitteeSize, runVars, machineVars, failures>>

\* The process is stopped; the user runs it again.
Interrupt ==
    /\ orchPc \notin {"off", "done", "failed", "insufficient", "refused"} /\ failures < MaxFailures
    /\ failures' = failures + 1 /\ orchPc' = "failed"
    /\ UNCHANGED <<settingVars, benchmark, latestCommitteeSize, runVars, machineVars>>
Restart ==
    /\ orchPc \in {"done", "failed"} /\ attempt < MaxAttempts
    /\ attempt' = attempt + 1 /\ benchmark' = 1 /\ latestCommitteeSize' = 0 /\ orchPc' = "prepare"
    /\ killedNodes' = {} /\ dead' = 0 /\ ticks' = 0
    /\ UNCHANGED <<active, faultsType, selected, machineVars, failures>>

-----------------------------------------------------------------------------
Machines0 ==
    /\ attempt = 1 /\ benchmark = 1 /\ latestCommitteeSize = 0 /\ failures = 0
    /\ killedNodes = {} /\ dead = 0 /\ ticks = 0
    /\ jobs = [i \in ToSet(Machines) |-> {}] /\ node = [i \in ToSet(Machines) |-> NoNode]
    /\ config = [i \in ToSet(Machines) |-> NoConfig] /\ databases = [i \in ToSet(Machines) |-> {}]
OrchestratorInit ==
    /\ orchPc = "prepare" /\ active \in ActiveSets /\ faultsType \in FaultsTypes /\ Machines0
    /\ selected = Selection(active)
OrchestratorOff ==
    orchPc = "off" /\ active = {} /\ faultsType = {} /\ selected = NoSelection /\ Machines0

OrchestratorStep ==
    \/ Prepare \/ Install \/ StartUpdate \/ WaitUpdate \/ CleanBenchmark \/ StartMonitoring
    \/ Configure \/ WaitConfigure \/ RunNodes \/ WaitBoot \/ RunClients \/ Scrape \/ Faults
    \/ WaitReboot \/ CleanEnd \/ NextBenchmark
OrchestratorNext ==
    OrchestratorStep \/ Interrupt \/ Restart \/ \E i \in ToSet(Machines) : JobEnds(i)

\* The orchestrator goes on, the commands of the sessions end, and so does the duration of
\* a benchmark.
OrchestratorFairness ==
    /\ WF_orchVars(OrchestratorStep)
    /\ WF_orchVars(Scrape /\ orchPc' # "run")
    /\ \A i \in ToSet(Machines) : WF_orchVars(JobEnds(i))

-----------------------------------------------------------------------------
(* Properties.                                                               *)

\* What is measured is the benchmark that was asked for, whatever earlier benchmarks, failed
\* commands and interrupted runs have left on the machines: every node that is not killed
\* runs as the authority of its place in the committee, also after a reboot, with the
\* configuration of this committee and the database of this benchmark only; no other
\* machine runs one; and no command meets what an earlier one has left (cleanup,
\* node_command, CrashRecoverySchedule::update).
MeasuresCommittee ==
    /\ orchPc # "refused"
    /\ orchPc = "run" =>
        /\ killedNodes = ToSet(Crashed(0, dead)) /\ dead <= faultsType.faults
        /\ \A i \in active :
              LET place == {k \in DOMAIN Nodes : Nodes[k] = i}
              IN IF place = {} \/ i \in killedNodes THEN node[i] = NoNode
                 ELSE \E k \in place :
                        /\ node[i].authority = k - 1 /\ node[i].config.committee = Nodes
                        /\ databases[i] = {[authority |-> k - 1, since |-> <<attempt, benchmark>>]}

\* The benchmarks come to an end: no wait for a session or for metrics lasts for ever
\* (wait_for_command, wait_for_success).
BenchmarksEnd == orchPc # "off" => []<>(orchPc \in {"off", "done", "failed", "insufficient"})

\* "These parameters are stored along with the performance data and should be used to
\* reproduce the results." (benchmark.rs): the nodes run with the load of the benchmark.
LoadAsStated ==
    orchPc = "run" =>
        \A i \in ToSet(Nodes) \ killedNodes : node[i].config.load = Loads[benchmark] \div Committee
=============================================================================

------------------------------ MODULE Watchers ------------------------------
(***************************************************************************)
(* agents/docker_agent.go and agents/file_agent.go: agents that compare a  *)
(* scan with the one before.                                               *)
(*                                                                         *)
(* Between two runs containers go through Docker's life cycle and          *)
(* directories change size; a run may find Docker absent, fail, or see     *)
(* only a part of a directory.  An agent that is disabled makes no run, as *)
(* one whose tick has not come yet.  Names of containers are what a scan   *)
(* knows them by: a container that is removed and created again is the     *)
(* same name.                                                              *)
(***************************************************************************)
EXTENDS BaseAgent, FiniteSets

CONSTANTS
  Containers,      \* names
  Watched,         \* names filterWatchList keeps: the watch list, or all
  Paths,           \* FileAgent.watchPaths
  Sizes,           \* sizes of a directory, in MB
  MaxSizeMB,       \* FileAgent.maxSizeMB
  MaxRuns          \* bound: runs of each agent

ASSUME WatchedAssumption == Watched \subseteq Containers
ASSUME SizesAssumption == Sizes \subseteq Nat /\ MaxSizeMB \in Nat
ASSUME MaxRunsAssumption == MaxRuns \in Nat

VARIABLES
  container,       \* Docker: state of each name, and whether it is unhealthy
  docker,          \* BaseAgent of the Docker agent
  prevStates,      \* DockerAgent.prevStates
  prevUnhealthy,   \* DockerAgent.prevUnhealthy
  told,            \* history: reported stopped, and not seen running since
  detour,          \* history: seen in a third state since it was last seen running
  ill,             \* history: seen unhealthy, and reported, since it was last seen healthy
  twice,           \* history: a stop or an illness was reported that had been already
  size,            \* file system: size of each directory
  file,            \* BaseAgent of the file agent
  prevSizes,       \* FileAgent.prevSizes
  measured         \* history: the last two measurements of a directory and what was said

world == <<container, size>>
dockerVars == <<docker, prevStates, prevUnhealthy, told, detour, ill, twice>>
fileVars == <<file, prevSizes, measured>>
WatchVars == <<world, dockerVars, fileVars>>

NotSeen == "not seen"
Absent == [status |-> "absent", unhealthy |-> FALSE]

\* Only a running container has a health.
ContainerStates ==
  {Absent, [status |-> "running", unhealthy |-> TRUE]}
    \union [status : {"created", "running", "paused", "exited"}, unhealthy : {FALSE}]

Unmeasured == -1
NoMeasure == [before |-> Unmeasured, after |-> Unmeasured, complete |-> TRUE, raised |-> FALSE]

WatchInit ==
  /\ container = [n \in Containers |-> Absent]
  /\ docker = NewBaseAgent
  /\ prevStates = [n \in Containers |-> NotSeen]
  /\ prevUnhealthy = [n \in Containers |-> FALSE]
  /\ told = {} /\ detour = {} /\ ill = {} /\ twice = FALSE
  /\ size = [p \in Paths |-> 0]
  /\ file = NewBaseAgent
  /\ prevSizes = [p \in Paths |-> Unmeasured]
  /\ measured = [p \in Paths |-> NoMeasure]

-----------------------------------------------------------------------------
(* The Docker agent                                                        *)

\* Docker's life cycle: nothing goes to created but a new container.
ContainerChanges(n, s) ==
  /\ s # container[n]
  /\ s.status = "created" => container[n] = Absent
  /\ container[n].status = "created" => s.status \in {"running", "absent"}
  /\ s.status \in {"paused", "exited"} => container[n].status \in {"running", "paused"}
  /\ container' = [container EXCEPT ![n] = s]
  /\ UNCHANGED <<size, dockerVars, fileVars>>

Listed == {n \in Watched : container[n] # Absent}
Is(n, status) == container[n].status = status

\* detectChanges: a container first seen exited, one that was running, and one
\* that has become unhealthy.
StopAlerts ==
  {n \in Listed : Is(n, "exited") /\ prevStates[n] \in {NotSeen, "running"}}
HealthAlerts ==
  {n \in Listed : container[n].unhealthy /\ ~ prevUnhealthy[n]}

DockerRuns == docker.runCount < MaxRuns

\* Docker does not answer: the cycle is ignored and counts as a success.
DockerAbsent ==
  /\ DockerRuns
  /\ docker' = RecordSuccess(docker)
  /\ UNCHANGED <<world, fileVars, prevStates, prevUnhealthy, told, detour, ill, twice>>

\* Docker answers and the list cannot be read.
ListFails ==
  /\ DockerRuns
  /\ docker' = RecordError(docker)
  /\ UNCHANGED <<world, fileVars, prevStates, prevUnhealthy, told, detour, ill, twice>>

\* Mutant: containers that are not in the list are forgotten.
RememberListed ==
  /\ prevStates' = [n \in Containers |-> IF n \in Listed THEN container[n].status ELSE NotSeen]
  /\ prevUnhealthy' = [n \in Containers |-> n \in Listed /\ container[n].unhealthy]

\* The new states replace the old ones; a name that is gone keeps its own.
Remember ==
  /\ prevStates' = [n \in Containers |->
                      IF n \in Listed THEN container[n].status ELSE prevStates[n]]
  /\ prevUnhealthy' = [n \in Containers |->
                         IF n \in Listed THEN container[n].unhealthy ELSE prevUnhealthy[n]]

\* What the reports so far say of the containers listed now.
Account ==
  LET running == {n \in Listed : Is(n, "running")}
      other == {n \in Listed : ~ Is(n, "running") /\ ~ Is(n, "exited")}
  IN  /\ told' = (told \ running) \union StopAlerts
      /\ detour' = (detour \ running) \union other
      /\ ill' = {n \in ill \union HealthAlerts : n \in Listed => container[n].unhealthy}
      /\ twice' = \/ twice
                  \/ StopAlerts \intersect told # {}
                  \/ HealthAlerts \intersect ill # {}

DockerScan ==
  /\ DockerRuns
  /\ docker' = IF StopAlerts \union HealthAlerts = {}
                 THEN RecordSuccess(docker) ELSE RecordAlert(docker)
  /\ Remember
  /\ Account
  /\ UNCHANGED <<world, fileVars>>

-----------------------------------------------------------------------------
(* The file agent                                                          *)

SizeChanges(p, s) ==
  /\ s # size[p]
  /\ size' = [size EXCEPT ![p] = s]
  /\ UNCHANGED <<container, dockerVars, fileVars>>

\* Half of an odd limit is no whole number of MB.
Grew(growth) == 2 * growth > MaxSizeMB

\* Mutant: a directory that cannot be read counts as empty.
MeasuredOrEmpty(p, failing, total) == IF p \in failing THEN 0 ELSE total[p]
\* A scan that fails leaves the size of the one before.
Measured(p, failing, total) == IF p \in failing THEN prevSizes[p] ELSE total[p]

GrowthAlert(p, failing, total) ==
  p \notin failing /\ prevSizes[p] # Unmeasured /\ Grew(total[p] - prevSizes[p])

\* One run over all paths: failing is what ScanDirectory reports as an error,
\* hidden the paths where Walk was refused a part and skipped it without one,
\* and large whether a file is above the limit.
FileScan(failing, hidden, large) ==
  LET total == [p \in Paths |-> IF p \in hidden THEN size[p] \div 2 ELSE size[p]]
  IN  /\ file.runCount < MaxRuns
      /\ large => failing # Paths
      /\ prevSizes' = [p \in Paths |-> Measured(p, failing, total)]
      /\ file' = IF large \/ \E p \in Paths : GrowthAlert(p, failing, total)
                   THEN RecordAlert(file) ELSE RecordSuccess(file)
      /\ measured' = [p \in Paths |->
                        IF p \in failing THEN measured[p]
                        ELSE [before |-> measured[p].after, after |-> size[p],
                              complete |-> p \notin hidden
                                /\ prevSizes[p] \in {Unmeasured, measured[p].after},
                              raised |-> GrowthAlert(p, failing, total)]]
      /\ UNCHANGED <<world, dockerVars>>

DockerNext ==
  \/ \E n \in Containers, s \in ContainerStates : ContainerChanges(n, s)
  \/ DockerAbsent \/ ListFails \/ DockerScan

FileNext ==
  \/ \E p \in Paths, s \in Sizes : SizeChanges(p, s)
  \/ \E failing, hidden \in SUBSET Paths, large \in BOOLEAN :
       failing \intersect hidden = {} /\ FileScan(failing, hidden, large)

WatchNext == DockerNext \/ FileNext

WatchSpec == WatchInit /\ [][WatchNext]_WatchVars

-----------------------------------------------------------------------------
(* Properties                                                              *)

WatchTypeOK ==
  /\ container \in [Containers -> ContainerStates]
  /\ docker \in BaseAgents(MaxRuns)
  /\ prevStates \in [Containers -> {NotSeen, "created", "running", "paused", "exited"}]
  /\ prevUnhealthy \in [Containers -> BOOLEAN]
  /\ told \subseteq Watched /\ detour \subseteq Watched /\ ill \subseteq Watched
  /\ twice \in BOOLEAN
  /\ size \in [Paths -> Sizes \union {0}]
  /\ file \in BaseAgents(MaxRuns)
  /\ prevSizes \in [Paths -> Int]

\* A container last seen exited was reported, or seen in a third state (created,
\* paused) after it last ran, and what is reported is reported once.
StopsReportedOnce ==
  /\ \A n \in Watched : prevStates[n] = "exited" => n \in told \union detour
  /\ \A n \in Watched : prevUnhealthy[n] => n \in ill
  /\ ~ twice

\* A directory is said to have grown exactly when it has, since the last scan that
\* could read it, unless a part of it was hidden from either scan.
GrowthReported ==
  \A p \in Paths :
    (measured[p].complete /\ measured[p].before # Unmeasured) =>
      (measured[p].raised <=> Grew(measured[p].after - measured[p].before))

\* Whatever runs fail, and whatever disappears in between, both agents report
\* changes once and miss none they can see.
ChangesReported == StopsReportedOnce /\ GrowthReported
=============================================================================

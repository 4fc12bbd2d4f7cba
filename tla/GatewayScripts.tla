--------------------------- MODULE GatewayScripts ---------------------------
(***************************************************************************)
(* The operator's scripts start-gateway.ps1, stop-gateway.ps1 and          *)
(* restart-gateway.ps1, which control the gateway's process by a PID file. *)
(* Commands may overlap.  A gateway process that was launched comes to     *)
(* listen on the port or, when the port is taken, exits; it may crash, and *)
(* it may be too busy to answer /health in time.                           *)
(***************************************************************************)
EXTENDS Integers

CONSTANTS
  Starts,     \* runs of start-gateway.ps1, each made once; the three are disjoint
  Stops,      \* runs of stop-gateway.ps1
  Restarts,   \* runs of restart-gateway.ps1
  Pids,       \* process ids Windows will give to gateways, each once
  None

Commands == Starts \cup Stops \cup Restarts

VARIABLES
  alive,      \* gateway processes that run
  used,       \* process ids given so far
  listener,   \* the process that listens on the port
  pidFile,    \* what logs/mt5-gateway.pid holds
  pc,         \* where each command is
  existing,   \* $existing: the process a command believes to be running
  launched,   \* $process: the process a command started
  target      \* history: what the PID file held when a stop began

processes == <<alive, used, listener>>
vars == <<processes, pidFile, pc, existing, launched, target>>

Locations == {"idle", "stop", "remove_file", "look", "health", "write_file",
              "verify", "exit_0", "exit_1"}

Go(c, from, to) == pc[c] = from /\ pc' = [pc EXCEPT ![c] = to]

(* Get-RunningGatewayProcess.  Without a PID file it is $null; with one,   *)
(* the assignment to $pid, PowerShell's read-only $PID, throws and the     *)
(* catch block returns $null.                                              *)
RunningGatewayProcess == None

-----------------------------------------------------------------------------
(* stop-gateway.ps1, which is also the first half of restart-gateway.ps1.  *)

BeginStop(c) ==
  /\ c \in Stops \cup Restarts
  /\ existing' = [existing EXCEPT ![c] = RunningGatewayProcess]
  /\ target' = [target EXCEPT ![c] = pidFile]
  /\ Go(c, "idle", IF existing'[c] = None THEN "remove_file" ELSE "stop")
  /\ UNCHANGED <<processes, pidFile, launched>>

StopProcess(c) ==
  /\ Go(c, "stop", "remove_file")
  /\ alive' = alive \ {existing[c]}
  /\ listener' = IF listener = existing[c] THEN None ELSE listener
  /\ UNCHANGED <<used, pidFile, existing, launched, target>>

RemovePidFile(c) ==
  /\ Go(c, "remove_file", IF c \in Restarts THEN "look" ELSE "exit_0")
  /\ pidFile' = None
  /\ UNCHANGED <<processes, existing, launched, target>>

-----------------------------------------------------------------------------
(* start-gateway.ps1.                                                      *)

BeginStart(c) ==
  /\ c \in Starts /\ Go(c, "idle", "look")
  /\ UNCHANGED <<processes, pidFile, existing, launched, target>>

LookForProcess(c) ==
  /\ Go(c, "look", "health")
  /\ existing' = [existing EXCEPT ![c] = RunningGatewayProcess]
  /\ UNCHANGED <<processes, pidFile, launched, target>>

(* Test-GatewayHealth.Ok, then the two reasons to leave it at that.        *)
AlreadyRunning(c) ==
  /\ Go(c, "health", "exit_0")
  /\ existing[c] # None \/ listener # None
  /\ UNCHANGED <<processes, pidFile, existing, launched, target>>

(* Nobody answers: nobody listens, or the listener is too busy.            *)
LaunchProcess(c) ==
  /\ Go(c, "health", "write_file")
  /\ existing[c] = None
  /\ \E p \in Pids \ used :
       /\ used' = used \cup {p}
       /\ alive' = alive \cup {p}
       /\ launched' = [launched EXCEPT ![c] = p]
  /\ UNCHANGED <<listener, pidFile, existing, target>>

WritePidFile(c) ==
  /\ Go(c, "write_file", "verify")
  /\ pidFile' = launched[c]
  /\ UNCHANGED <<processes, existing, launched, target>>

Verify(c) ==
  /\ \/ listener # None /\ Go(c, "verify", "exit_0")
     \/ Go(c, "verify", "exit_1")
  /\ UNCHANGED <<processes, pidFile, existing, launched, target>>

-----------------------------------------------------------------------------
(* The gateway's process: uvicorn binds the port, or fails to and exits.   *)

Bind(p) ==
  /\ p \in alive /\ listener = None
  /\ listener' = p
  /\ UNCHANGED <<alive, used, pidFile, pc, existing, launched, target>>

Exit(p) ==
  /\ p \in alive
  /\ alive' = alive \ {p}
  /\ listener' = IF listener = p THEN None ELSE listener
  /\ UNCHANGED <<used, pidFile, pc, existing, launched, target>>

Init ==
  /\ alive = {} /\ used = {} /\ listener = None
  /\ pidFile = None
  /\ pc = [c \in Commands |-> "idle"]
  /\ existing = [c \in Commands |-> None]
  /\ launched = [c \in Commands |-> None]
  /\ target = [c \in Commands |-> None]

Stop(c) == BeginStop(c) \/ StopProcess(c) \/ RemovePidFile(c)

Start(c) ==
  BeginStart(c) \/ LookForProcess(c) \/ AlreadyRunning(c) \/ LaunchProcess(c)
    \/ WritePidFile(c) \/ Verify(c)

Next ==
  \/ \E c \in Commands : Stop(c) \/ Start(c)
  \/ \E p \in Pids : Bind(p) \/ Exit(p)

Spec == Init /\ [][Next]_vars

-----------------------------------------------------------------------------
(* A claim of the documentation that the code does not keep.               *)

(* docs/deploy-operacao.md:99: stop ends the process saved in the PID      *)
(* file.  Asked when the script has ended.                                 *)
StopEndsProcess ==
  \A c \in Stops : pc[c] = "exit_0" => target[c] \notin alive

=============================================================================

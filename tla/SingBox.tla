------------------------------ MODULE SingBox ------------------------------
(***************************************************************************)
(* A probe of a node from outside (internal/validator): a proxy is asked   *)
(* directly, any other node through a sing-box process that the probe      *)
(* starts for itself (startSingBoxHTTPClient).  The port that process      *)
(* listens on is found free and given back (pickFreePort) before the       *)
(* process takes it, and another probe may find it free too.               *)
(*                                                                         *)
(* The processes are modelled by what startSingBoxHTTPClient expects of    *)
(* them: they listen on their port, or exit; a process that is killed and  *)
(* waited for gives its port back.                                         *)
(***************************************************************************)
EXTENDS Naturals, FiniteSets

CONSTANTS
    Probers,        \* goroutines that probe nodes
    Targets,        \* the nodes
    Tunnelled,      \* those of KindV2Ray
    Ports           \* ports of 127.0.0.1

NoProber == "nobody"
NoTarget == "nothing"
NoPort == "no port"

ASSUME SingBoxAssumption ==
    /\ Tunnelled \subseteq Targets /\ IsFiniteSet(Probers)
    /\ NoProber \notin Probers /\ NoTarget \notin Targets /\ NoPort \notin Ports

VARIABLES
    bpc,        \* where each probe is
    target,     \* the node it probes
    port,       \* listen_port of its config
    dirs,       \* probes whose tmpDir is there
    process,    \* its sing-box: none, starting, listening or exited
    listener,   \* the probe whose process listens on each port
    measured,   \* the node that answered the probe's request
    raced       \* history: probes that count on a port another one counts on

singBoxVars == <<bpc, target, port, dirs, process, listener, measured, raced>>

SingBoxInit ==
    /\ bpc = [p \in Probers |-> "idle"]
    /\ target = [p \in Probers |-> NoTarget]
    /\ port = [p \in Probers |-> NoPort]
    /\ dirs = {}
    /\ process = [p \in Probers |-> "none"]
    /\ listener = [q \in Ports |-> NoProber]
    /\ measured = [p \in Probers |-> NoTarget]
    /\ raced = {}

ProbeGoes(p, where) == bpc' = [bpc EXCEPT ![p] = where]

-----------------------------------------------------------------------------
\* ProbeNodeAccessSuite: a node that no TCP connection reaches is not asked.
BeginProbe(p, t) ==
    /\ bpc[p] = "idle"
    /\ target' = [target EXCEPT ![p] = t]
    /\ \E alive \in BOOLEAN :
          ProbeGoes(p, IF ~alive THEN "done" ELSE IF t \in Tunnelled THEN "pick" ELSE "direct")
    /\ UNCHANGED <<port, dirs, process, listener, measured, raced>>

\* httpClientForProxy.
AskDirectly(p) ==
    /\ bpc[p] = "direct"
    /\ measured' \in {measured, [measured EXCEPT ![p] = target[p]]}
    /\ ProbeGoes(p, "done")
    /\ UNCHANGED <<target, port, dirs, process, listener, raced>>

FreePortsAny == Ports       \* mutant: the port is not tried
FreePorts == {q \in Ports : listener[q] = NoProber}

\* Other probes that count on the port, which their process has yet to take, or
\* has lost.
Waiters(p, q) ==
    {v \in Probers \ {p} : /\ port[v] = q /\ process[v] # "listening"
                           /\ bpc[v] \in {"config", "start", "waiting", "ask", "cleanup"}}

\* pickFreePort: the port is free again when it returns.
PickFreePort(p) ==
    /\ bpc[p] = "pick"
    /\ \/ \E q \in FreePorts :
             /\ port' = [port EXCEPT ![p] = q]
             /\ raced' = raced \cup Waiters(p, q) \cup (IF Waiters(p, q) = {} THEN {} ELSE {p})
             /\ ProbeGoes(p, "config")
       \/ UNCHANGED <<port, raced>> /\ ProbeGoes(p, "done")
    /\ UNCHANGED <<target, dirs, process, listener, measured>>

\* MkdirTemp and WriteFile; what failed leaves nothing.
WriteConfig(p) ==
    /\ bpc[p] = "config"
    /\ \/ dirs' = dirs \cup {p} /\ ProbeGoes(p, "start")
       \/ UNCHANGED dirs /\ ProbeGoes(p, "done")
    /\ UNCHANGED <<target, port, process, listener, measured, raced>>

StartProcess(p) ==
    /\ bpc[p] = "start"
    /\ \/ process' = [process EXCEPT ![p] = "starting"] /\ ProbeGoes(p, "waiting") /\ UNCHANGED dirs
       \/ dirs' = dirs \ {p} /\ ProbeGoes(p, "done") /\ UNCHANGED process
    /\ UNCHANGED <<target, port, listener, measured, raced>>

\* waitTCP: something listens on the port.
Ready(p) ==
    /\ bpc[p] = "waiting"
    /\ listener[port[p]] # NoProber
    /\ ProbeGoes(p, "ask")
    /\ UNCHANGED <<target, port, dirs, process, listener, measured, raced>>

AfterGivingUpDone == "done"     \* mutant: nothing is cleaned up
AfterGivingUp == "cleanup"

\* ... or its deadline, or the context, has passed.
GiveUp(p) ==
    /\ bpc[p] = "waiting"
    /\ ProbeGoes(p, AfterGivingUp)
    /\ UNCHANGED <<target, port, dirs, process, listener, measured, raced>>

\* A request through the port: whoever listens there answers for its node.
AskThroughPort(p) ==
    /\ bpc[p] = "ask"
    /\ \/ /\ listener[port[p]] # NoProber
          /\ measured' = [measured EXCEPT ![p] = target[listener[port[p]]]]
       \/ UNCHANGED measured
    /\ ProbeGoes(p, "cleanup")
    /\ UNCHANGED <<target, port, dirs, process, listener, raced>>

FreedBy(p) == [q \in Ports |-> IF listener[q] = p THEN NoProber ELSE listener[q]]

\* cleanup: kill, Wait, RemoveAll.
CleanUp(p) ==
    /\ bpc[p] = "cleanup"
    /\ process' = [process EXCEPT ![p] = "none"]
    /\ listener' = FreedBy(p)
    /\ dirs' = dirs \ {p}
    /\ ProbeGoes(p, "done")
    /\ UNCHANGED <<target, port, measured, raced>>

\* The caller has the result.
EndProbe(p) ==
    /\ bpc[p] = "done"
    /\ target' = [target EXCEPT ![p] = NoTarget]
    /\ port' = [port EXCEPT ![p] = NoPort]
    /\ measured' = [measured EXCEPT ![p] = NoTarget]
    /\ raced' = raced \ {p}
    /\ ProbeGoes(p, "idle")
    /\ UNCHANGED <<dirs, process, listener>>

\* The process takes its port, or exits: the port is taken.
Bind(p) ==
    /\ process[p] = "starting"
    /\ IF listener[port[p]] = NoProber
       THEN /\ process' = [process EXCEPT ![p] = "listening"]
            /\ listener' = [listener EXCEPT ![port[p]] = p]
       ELSE process' = [process EXCEPT ![p] = "exited"] /\ UNCHANGED listener
    /\ UNCHANGED <<bpc, target, port, dirs, measured, raced>>

\* It rejects its config, crashes, or is killed with its context.
Exit(p) ==
    /\ process[p] \in {"starting", "listening"}
    /\ process' = [process EXCEPT ![p] = "exited"]
    /\ listener' = FreedBy(p)
    /\ UNCHANGED <<bpc, target, port, dirs, measured, raced>>

ProbeStep(p) ==
    \/ AskDirectly(p) \/ PickFreePort(p) \/ WriteConfig(p) \/ StartProcess(p)
    \/ Ready(p) \/ GiveUp(p) \/ AskThroughPort(p) \/ CleanUp(p)

-----------------------------------------------------------------------------
\* A probe leaves no process, no port and no directory behind, wherever it fails.
NothingLeft ==
    \A p \in Probers : bpc[p] \in {"idle", "done"} =>
        /\ process[p] = "none" /\ p \notin dirs
        /\ \A q \in Ports : listener[q] # p

\* A node is measured through its own tunnel, unless two probes count on one port
\* that was free for both: the process of one had yet to take it, or had exited.
\* A tunnel that is up when a probe begins is never mistaken for its own.
WrongTunnelOnlyByRace ==
    \A p \in Probers : measured[p] \in {NoTarget, target[p]} \/ p \in raced
=============================================================================

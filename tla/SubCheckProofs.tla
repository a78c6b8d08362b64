--------------------------- MODULE SubCheckProofs ---------------------------
(***************************************************************************)
(* Proofs about SubCheck and the probes of SingBox it runs, for any        *)
(* workers, ports and subscription, whatever the processes do.             *)
(***************************************************************************)
EXTENDS SubCheck, TLAPS

ProbeTyped ==
    /\ bpc \in [Probers -> {"idle", "pick", "direct", "config", "start", "waiting", "ask",
                            "cleanup", "done"}]
    /\ target \in [Probers -> Targets \cup {NoTarget}]
    /\ port \in [Probers -> Ports \cup {NoPort}]
    /\ dirs \subseteq Probers
    /\ process \in [Probers -> {"none", "starting", "listening", "exited"}]
    /\ listener \in [Ports -> Probers \cup {NoProber}]
    /\ measured \in [Probers -> Targets \cup {NoTarget}]
    /\ raced \subseteq Probers

\* A probe that counts on the port it picked.
Holds(p) == bpc[p] \in {"config", "start", "waiting", "ask", "cleanup"}

\* What a probe has made is there only until its cleanup ...
Tidy ==
    /\ \A p \in Probers : process[p] # "none" => bpc[p] \in {"waiting", "ask", "cleanup"}
    /\ \A p \in dirs : bpc[p] \in {"start", "waiting", "ask", "cleanup"}

\* ... a port has the process of a probe that picked it, or none ...
PortsOwned ==
    /\ \A p \in Probers, q \in Ports :
          listener[q] = p <=> process[p] = "listening" /\ port[p] = q
    /\ \A p \in Probers : Holds(p) => port[p] \in Ports

\* ... and probes that count on one port are known to.
RacesKnown ==
    \A p, v \in Probers : Holds(p) /\ Holds(v) /\ port[p] = port[v] /\ p # v => p \in raced

\* A probe measures its node, or raced for its port.
Measures ==
    \A p \in Probers :
        /\ bpc[p] = "idle" => measured[p] = NoTarget
        /\ Holds(p) \/ bpc[p] = "pick" => target[p] \in Tunnelled
        /\ \/ measured[p] \in {NoTarget, target[p]}
           \/ p \in raced /\ {measured[p], target[p]} \subseteq Tunnelled

ProbeInv == ProbeTyped /\ Tidy /\ PortsOwned /\ RacesKnown /\ Measures

\* Every step that concerns the probes.
ProbesNext ==
    \/ \E p \in Probers : \/ \E t \in Targets : BeginProbe(p, t)
                          \/ ProbeStep(p) \/ EndProbe(p) \/ Bind(p) \/ Exit(p)
    \/ UNCHANGED singBoxVars

-----------------------------------------------------------------------------
(* The probes.                                                             *)

\* Steps of a probe that concern neither processes, nor directories, nor ports.
LEMMA BeginKeepsProbes ==
    ASSUME SingBoxAssumption, ProbeInv, NEW p \in Probers, NEW t \in Targets, BeginProbe(p, t)
    PROVE  ProbeInv'
<1>1. PICK where \in {"done", "pick", "direct"} :
         /\ bpc' = [bpc EXCEPT ![p] = where]
         /\ where = "pick" => t \in Tunnelled
  BY DEF BeginProbe, ProbeGoes
<1>2. /\ bpc[p] = "idle" /\ target' = [target EXCEPT ![p] = t]
      /\ UNCHANGED <<port, dirs, process, listener, measured, raced>>
  BY DEF BeginProbe
<1>3. /\ \A v \in Probers : bpc'[v] = IF v = p THEN where ELSE bpc[v]
      /\ \A v \in Probers : target'[v] = IF v = p THEN t ELSE target[v]
  BY <1>1, <1>2 DEF ProbeInv, ProbeTyped
<1>4. ProbeTyped'
  BY <1>1, <1>2 DEF ProbeInv, ProbeTyped
<1>5. Tidy'
  BY <1>1, <1>2, <1>3 DEF ProbeInv, Tidy, ProbeTyped
<1>6. PortsOwned' /\ RacesKnown'
  BY <1>1, <1>2, <1>3 DEF ProbeInv, PortsOwned, RacesKnown, Holds
<1>7. Measures'
  BY <1>1, <1>2, <1>3 DEF ProbeInv, Measures, Holds
<1> QED
  BY <1>4, <1>5, <1>6, <1>7 DEF ProbeInv

\* A request measures the node of whoever listens on the port: its own process, or
\* that of a probe that counts on the same port.
LEMMA AskKeepsProbes ==
    ASSUME SingBoxAssumption, ProbeInv, NEW p \in Probers, AskDirectly(p) \/ AskThroughPort(p)
    PROVE  ProbeInv'
<1>1. UNCHANGED <<target, port, dirs, process, listener, raced>>
  BY DEF AskDirectly, AskThroughPort
<1>2. PICK where \in {"done", "cleanup"} :
         /\ bpc' = [bpc EXCEPT ![p] = where]
         /\ where = "done" => bpc[p] = "direct"
         /\ where = "cleanup" => bpc[p] = "ask"
  BY DEF AskDirectly, AskThroughPort, ProbeGoes
<1>3. \A v \in Probers : bpc'[v] = IF v = p THEN where ELSE bpc[v]
  BY <1>2 DEF ProbeInv, ProbeTyped
<1>4. PICK t \in Targets \cup {NoTarget} :
         /\ measured' = [measured EXCEPT ![p] = t]
         /\ \/ t \in {NoTarget, target[p]}
            \/ p \in raced /\ {t, target[p]} \subseteq Tunnelled
  <2>1. CASE measured' = measured
    <3>1. measured' = [measured EXCEPT ![p] = measured[p]] /\ measured[p] \in Targets \cup {NoTarget}
      BY <2>1 DEF ProbeInv, ProbeTyped
    <3>2. \/ measured[p] \in {NoTarget, target[p]}
          \/ p \in raced /\ {measured[p], target[p]} \subseteq Tunnelled
      BY DEF ProbeInv, Measures
    <3> QED
      BY <3>1, <3>2
  <2>2. CASE measured' = [measured EXCEPT ![p] = target[p]]
    <3>1. target[p] \in Targets \cup {NoTarget}
      BY DEF ProbeInv, ProbeTyped
    <3> QED
      BY <2>2, <3>1
  <2>3. CASE /\ AskThroughPort(p)
             /\ listener[port[p]] # NoProber
             /\ measured' = [measured EXCEPT ![p] = target[listener[port[p]]]]
    <3> DEFINE v == listener[port[p]]
    <3>1. Holds(p) /\ port[p] \in Ports
      BY <2>3 DEF AskThroughPort, Holds, ProbeInv, PortsOwned
    <3>2. v \in Probers /\ process[v] = "listening" /\ port[v] = port[p]
      BY <2>3, <3>1 DEF ProbeInv, ProbeTyped, PortsOwned
    <3>3. Holds(v)
      BY <3>2 DEF ProbeInv, Tidy, Holds
    <3>4. target[v] \in Tunnelled /\ target[p] \in Tunnelled /\ Tunnelled \subseteq Targets
      BY <3>1, <3>2, <3>3 DEF ProbeInv, Measures, SingBoxAssumption
    <3>5. v = p \/ p \in raced
      BY <3>1, <3>2, <3>3 DEF ProbeInv, RacesKnown
    <3> QED
      BY <2>3, <3>4, <3>5
  <2> QED
    BY <2>1, <2>2, <2>3 DEF AskDirectly, AskThroughPort
<1>5. \A v \in Probers : measured'[v] = IF v = p THEN t ELSE measured[v]
  BY <1>4 DEF ProbeInv, ProbeTyped
<1>6. ProbeTyped'
  BY <1>1, <1>2, <1>4 DEF ProbeInv, ProbeTyped
<1>7. \A v \in Probers : Holds(v)' <=> Holds(v)
  BY <1>2, <1>3 DEF Holds
<1>8. Tidy'
  BY <1>1, <1>2, <1>3 DEF ProbeInv, Tidy, ProbeTyped
<1>9. PortsOwned' /\ RacesKnown'
  BY <1>1, <1>7 DEF ProbeInv, PortsOwned, RacesKnown
<1>10. Measures'
  BY <1>1, <1>2, <1>3, <1>4, <1>5, <1>7 DEF ProbeInv, Measures
<1> QED
  BY <1>6, <1>8, <1>9, <1>10 DEF ProbeInv

\* A probe picks a port that is free: it owns none yet, and those that count on the
\* same port are in a race with it.
LEMMA PickKeepsProbes ==
    ASSUME SingBoxAssumption, ProbeInv, NEW p \in Probers, PickFreePort(p)
    PROVE  ProbeInv'
<1>1. bpc[p] = "pick" /\ UNCHANGED <<target, dirs, process, listener, measured>>
  BY DEF PickFreePort
<1>2. CASE UNCHANGED <<port, raced>> /\ ProbeGoes(p, "done")
  <2>1. \A v \in Probers : bpc'[v] = IF v = p THEN "done" ELSE bpc[v]
    BY <1>2 DEF ProbeGoes, ProbeInv, ProbeTyped
  <2>2. ProbeTyped'
    BY <1>1, <1>2 DEF ProbeGoes, ProbeInv, ProbeTyped
  <2>3. Tidy'
    BY <1>1, <2>1 DEF ProbeInv, Tidy, ProbeTyped
  <2>4. PortsOwned' /\ RacesKnown'
    BY <1>1, <1>2, <2>1 DEF ProbeInv, PortsOwned, RacesKnown, Holds
  <2>5. Measures'
    BY <1>1, <1>2, <2>1 DEF ProbeInv, Measures, Holds
  <2> QED
    BY <2>2, <2>3, <2>4, <2>5 DEF ProbeInv
<1>3. ASSUME NEW q \in FreePorts, port' = [port EXCEPT ![p] = q], ProbeGoes(p, "config"),
             raced' = raced \cup Waiters(p, q) \cup (IF Waiters(p, q) = {} THEN {} ELSE {p})
      PROVE  ProbeInv'
  <2>1. q \in Ports /\ listener[q] = NoProber
    BY <1>3 DEF FreePorts
  <2>2. /\ \A v \in Probers : bpc'[v] = IF v = p THEN "config" ELSE bpc[v]
        /\ \A v \in Probers : port'[v] = IF v = p THEN q ELSE port[v]
    BY <1>3 DEF ProbeGoes, ProbeInv, ProbeTyped
  <2>3. Waiters(p, q) \subseteq Probers
    BY DEF Waiters
  <2>4. ProbeTyped'
    BY <1>1, <1>3, <2>1, <2>3 DEF ProbeGoes, ProbeInv, ProbeTyped
  <2>5. Tidy'
    BY <1>1, <2>2 DEF ProbeInv, Tidy, ProbeTyped
  <2>6. process[p] # "listening"
    BY <1>1 DEF ProbeInv, Tidy
  <2>7. PortsOwned'
    BY <1>1, <2>1, <2>2, <2>6 DEF ProbeInv, PortsOwned, Holds
  <2>8. \A v \in Probers : Holds(v) /\ port[v] = q /\ v # p => v \in Waiters(p, q)
    <3> SUFFICES ASSUME NEW v \in Probers, Holds(v), port[v] = q, v # p
                 PROVE  v \in Waiters(p, q)
      OBVIOUS
    <3>1. listener[q] # v
      BY <2>1 DEF SingBoxAssumption
    <3>2. process[v] # "listening"
      BY <2>1, <3>1 DEF ProbeInv, PortsOwned
    <3> QED
      BY <3>2 DEF Waiters, Holds
  <2>9. RacesKnown'
    BY <1>1, <1>3, <2>2, <2>8 DEF ProbeInv, RacesKnown, Holds
  <2>10. Measures'
    BY <1>1, <1>3, <2>2 DEF ProbeInv, Measures, Holds
  <2> QED
    BY <2>4, <2>5, <2>7, <2>9, <2>10 DEF ProbeInv
<1> QED
  BY <1>2, <1>3 DEF PickFreePort

\* The config, the start of the process, and the wait for it.
LEMMA StartKeepsProbes ==
    ASSUME SingBoxAssumption, ProbeInv, NEW p \in Probers,
           WriteConfig(p) \/ StartProcess(p) \/ Ready(p) \/ GiveUp(p)
    PROVE  ProbeInv'
<1>1. UNCHANGED <<target, port, listener, measured, raced>>
  BY DEF WriteConfig, StartProcess, Ready, GiveUp
<1>2. PICK where \in {"start", "waiting", "ask", "cleanup", "done"} :
         bpc' = [bpc EXCEPT ![p] = where]
  BY DEF WriteConfig, StartProcess, Ready, GiveUp, AfterGivingUp, ProbeGoes
<1>3. \A v \in Probers : bpc'[v] = IF v = p THEN where ELSE bpc[v]
  BY <1>2 DEF ProbeInv, ProbeTyped
<1>4. (Holds(p) /\ process[p] # "listening") \/ bpc[p] = "waiting"
  BY DEF WriteConfig, StartProcess, Ready, GiveUp, Holds, ProbeInv, Tidy
<1>5. /\ process' \in [Probers -> {"none", "starting", "listening", "exited"}]
      /\ dirs' \subseteq Probers
      /\ \A v \in Probers : v # p => process'[v] = process[v] /\ (v \in dirs' <=> v \in dirs)
      /\ process'[p] = "listening" <=> process[p] = "listening"
      /\ process'[p] # "none" => where \in {"waiting", "ask", "cleanup"}
      /\ p \in dirs' => where \in {"start", "waiting", "ask", "cleanup"}
  <2>1. bpc'[p] = where
    BY <1>3
  <2>2. CASE WriteConfig(p)
    BY <2>1, <2>2 DEF WriteConfig, ProbeGoes, ProbeInv, ProbeTyped, Tidy
  <2>3. CASE StartProcess(p)
    BY <2>1, <2>3 DEF StartProcess, ProbeGoes, ProbeInv, ProbeTyped, Tidy
  <2>4. CASE Ready(p) \/ GiveUp(p)
    BY <2>1, <2>4 DEF Ready, GiveUp, AfterGivingUp, ProbeGoes, ProbeInv, ProbeTyped, Tidy
  <2> QED
    BY <2>2, <2>3, <2>4
<1>6. \A v \in Probers : Holds(v)' => Holds(v)
  BY <1>3, <1>4 DEF Holds
<1>7. ProbeTyped'
  BY <1>1, <1>2, <1>5 DEF ProbeInv, ProbeTyped
<1>8. Tidy'
  BY <1>3, <1>5 DEF ProbeInv, Tidy, ProbeTyped
<1>9. PortsOwned'
  BY <1>1, <1>5, <1>6 DEF ProbeInv, PortsOwned
<1>10. RacesKnown'
  BY <1>1, <1>6 DEF ProbeInv, RacesKnown
<1>11. Measures'
  BY <1>1, <1>2, <1>3, <1>6 DEF ProbeInv, Measures
<1> QED
  BY <1>7, <1>8, <1>9, <1>10, <1>11 DEF ProbeInv

\* A process that is killed, or exits, gives its port back.
LEMMA CleanUpKeepsProbes ==
    ASSUME SingBoxAssumption, ProbeInv, NEW p \in Probers, CleanUp(p) \/ Exit(p)
    PROVE  ProbeInv'
<1>1. UNCHANGED <<target, port, measured, raced>> /\ listener' = FreedBy(p)
  BY DEF CleanUp, Exit
<1>2. /\ \A v \in Probers : v # p => process'[v] = process[v] /\ bpc'[v] = bpc[v]
      /\ process'[p] \in {"none", "exited"}
      /\ process' \in [Probers -> {"none", "starting", "listening", "exited"}]
      /\ bpc' \in [Probers -> {"idle", "pick", "direct", "config", "start", "waiting", "ask",
                               "cleanup", "done"}]
      /\ dirs' \subseteq dirs
  BY DEF CleanUp, Exit, ProbeGoes, ProbeInv, ProbeTyped
<1>3. \/ bpc'[p] = "done" /\ process'[p] = "none" /\ p \notin dirs'
      \/ bpc'[p] = bpc[p] /\ process[p] # "none"
  BY DEF CleanUp, Exit, ProbeGoes, ProbeInv, ProbeTyped
<1>4. \A q \in Ports : listener'[q] = IF listener[q] = p THEN NoProber ELSE listener[q]
  BY <1>1 DEF FreedBy
<1>5. listener' \in [Ports -> Probers \cup {NoProber}]
  BY <1>1 DEF FreedBy, ProbeInv, ProbeTyped
<1>6. \A v \in Probers : (Holds(v)' => Holds(v)) /\ (bpc'[v] \in {"idle", "pick"} => bpc'[v] = bpc[v])
  BY <1>2, <1>3 DEF Holds
<1>7. ProbeTyped'
  BY <1>1, <1>2, <1>5 DEF ProbeInv, ProbeTyped
<1>8. Tidy'
  BY <1>2, <1>3 DEF ProbeInv, Tidy, ProbeTyped
<1>9. PortsOwned'
  <2>1. ASSUME NEW v \in Probers, NEW q \in Ports
        PROVE  listener'[q] = v <=> process'[v] = "listening" /\ port[v] = q
    <3>1. v # NoProber
      BY DEF SingBoxAssumption
    <3> QED
      BY <1>2, <1>4, <3>1 DEF ProbeInv, PortsOwned
  <2> QED
    BY <1>1, <1>6, <2>1 DEF ProbeInv, PortsOwned
<1>10. RacesKnown'
  BY <1>1, <1>6 DEF ProbeInv, RacesKnown
<1>11. Measures'
  BY <1>1, <1>6 DEF ProbeInv, Measures
<1> QED
  BY <1>7, <1>8, <1>9, <1>10, <1>11 DEF ProbeInv

\* A process takes the port of its probe if it is free.
LEMMA BindKeepsProbes ==
    ASSUME SingBoxAssumption, ProbeInv, NEW p \in Probers, Bind(p)
    PROVE  ProbeInv'
<1>1. process[p] = "starting" /\ UNCHANGED <<bpc, target, port, dirs, measured, raced>>
  BY DEF Bind
<1>2. Holds(p) /\ port[p] \in Ports
  BY <1>1 DEF ProbeInv, Tidy, PortsOwned, Holds
<1>3. \/ /\ listener[port[p]] = NoProber
         /\ process' = [process EXCEPT ![p] = "listening"]
         /\ listener' = [listener EXCEPT ![port[p]] = p]
      \/ process' = [process EXCEPT ![p] = "exited"] /\ listener' = listener
  BY DEF Bind
<1>4. ProbeTyped'
  BY <1>1, <1>2, <1>3 DEF ProbeInv, ProbeTyped
<1>5. Tidy'
  BY <1>1, <1>3 DEF ProbeInv, Tidy, ProbeTyped
<1>6. PortsOwned'
  <2>1. \A v \in Probers : v # NoProber
    BY DEF SingBoxAssumption
  <2> QED
    BY <1>1, <1>2, <1>3, <2>1 DEF ProbeInv, PortsOwned, ProbeTyped, Holds
<1>7. RacesKnown' /\ Measures'
  BY <1>1 DEF ProbeInv, RacesKnown, Measures, Holds
<1> QED
  BY <1>4, <1>5, <1>6, <1>7 DEF ProbeInv

\* A probe that ends has cleaned up.
LEMMA EndKeepsProbes ==
    ASSUME SingBoxAssumption, ProbeInv, NEW p \in Probers, EndProbe(p)
    PROVE  ProbeInv'
<1>1. /\ bpc[p] = "done" /\ bpc' = [bpc EXCEPT ![p] = "idle"]
      /\ target' = [target EXCEPT ![p] = NoTarget] /\ port' = [port EXCEPT ![p] = NoPort]
      /\ measured' = [measured EXCEPT ![p] = NoTarget] /\ raced' = raced \ {p}
      /\ UNCHANGED <<dirs, process, listener>>
  BY DEF EndProbe, ProbeGoes
<1>2. /\ \A v \in Probers : v # p => /\ bpc'[v] = bpc[v] /\ target'[v] = target[v]
                                     /\ port'[v] = port[v] /\ measured'[v] = measured[v]
                                     /\ v \in raced' <=> v \in raced
      /\ bpc'[p] = "idle" /\ measured'[p] = NoTarget
  BY <1>1 DEF ProbeInv, ProbeTyped
<1>3. process[p] = "none" /\ p \notin dirs
  BY <1>1 DEF ProbeInv, Tidy
<1>4. ProbeTyped'
  BY <1>1 DEF ProbeInv, ProbeTyped
<1>5. Tidy'
  BY <1>1, <1>2, <1>3 DEF ProbeInv, Tidy, ProbeTyped
<1>6. PortsOwned'
  BY <1>1, <1>2, <1>3 DEF ProbeInv, PortsOwned, Holds
<1>7. RacesKnown'
  BY <1>2 DEF ProbeInv, RacesKnown, Holds
<1>8. Measures'
  BY <1>2 DEF ProbeInv, Measures, Holds
<1> QED
  BY <1>4, <1>5, <1>6, <1>7, <1>8 DEF ProbeInv

\* Every step that concerns the probes keeps their invariant.
LEMMA ProbesStep ==
    ASSUME SingBoxAssumption, ProbeInv, ProbesNext
    PROVE  ProbeInv'
<1>1. CASE UNCHANGED singBoxVars
  BY <1>1 DEF singBoxVars, ProbeInv, ProbeTyped, Tidy, PortsOwned, RacesKnown, Measures, Holds
<1> QED
  BY <1>1, BeginKeepsProbes, AskKeepsProbes, PickKeepsProbes, StartKeepsProbes, CleanUpKeepsProbes,
     BindKeepsProbes, EndKeepsProbes DEF ProbesNext, ProbeStep

\* A probe that has begun neither ends nor changes its node by a step of its own.
LEMMA ProbeGoesOn ==
    ASSUME ProbeTyped, NEW p \in Probers, ProbeStep(p) \/ Bind(p) \/ Exit(p)
    PROVE  /\ target' = target
           /\ \A v \in Probers : bpc'[v] = "idle" <=> bpc[v] = "idle"
<1>1. CASE ProbeStep(p)
  <2>1. target' = target
    BY <1>1 DEF ProbeStep, AskDirectly, PickFreePort, WriteConfig, StartProcess, Ready, GiveUp,
                AskThroughPort, CleanUp
  <2>2. PICK where \in {"config", "start", "waiting", "ask", "cleanup", "done"} :
           bpc' = [bpc EXCEPT ![p] = where]
    BY <1>1 DEF ProbeStep, AskDirectly, PickFreePort, WriteConfig, StartProcess, Ready, GiveUp,
                AfterGivingUp, AskThroughPort, CleanUp, ProbeGoes
  <2>3. bpc[p] # "idle"
    BY <1>1 DEF ProbeStep, AskDirectly, PickFreePort, WriteConfig, StartProcess, Ready, GiveUp,
                AskThroughPort, CleanUp
  <2> QED
    BY <2>1, <2>2, <2>3 DEF ProbeTyped
<1>2. CASE Bind(p) \/ Exit(p)
  BY <1>2 DEF Bind, Exit
<1> QED
  BY <1>1, <1>2

-----------------------------------------------------------------------------
(* The check.                                                              *)

\* Jobs are sent in order, and no worker leaves before they all are.
Sending ==
    /\ spc \in {"sending", "waiting", "returned"}
    /\ sent \in 0 .. Len(Subscription)
    /\ jobs \in [Probers -> 0 .. sent]
    /\ gone \subseteq Probers
    /\ results \in [Entries -> Targets \cup {NoTarget, NotChecked}]
    /\ spc # "sending" => sent = Len(Subscription) \/ cancelled
    /\ spc = "returned" => gone = Probers
    /\ \A p \in gone : jobs[p] = 0

\* A worker that has a job probes the node of that job, which no other has and
\* whose result is open.
Working ==
    \A p \in Probers :
        /\ jobs[p] = 0 <=> bpc[p] = "idle"
        /\ jobs[p] # 0 => target[p] = Subscription[jobs[p]] /\ results[jobs[p]] = NotChecked
        /\ \A v \in Probers : jobs[v] = jobs[p] /\ jobs[p] # 0 => v = p

\* An entry that was sent has a result, or a worker; and a result is its own.
Placed ==
    \A i \in Entries :
        /\ i > sent => results[i] = NotChecked
        /\ i <= sent => results[i] # NotChecked \/ \E p \in Probers : jobs[p] = i
        /\ \/ results[i] \in {NotChecked, NoTarget, Subscription[i]}
           \/ {results[i], Subscription[i]} \subseteq Tunnelled

CheckInv == ProbeInv /\ Sending /\ Working /\ Placed

\* A worker gets the next entry, which no other has.
LEMMA SendKeepsResults ==
    ASSUME SingBoxAssumption, SubCheckAssumption, CheckInv, NEW p \in Probers, SendJob(p)
    PROVE  CheckInv'
<1> DEFINE n == sent + 1
<1>1. /\ sent \in Nat /\ Len(Subscription) \in Nat /\ sent < Len(Subscription)
      /\ Entries = 1 .. Len(Subscription) /\ n \in Entries
      /\ \A i \in Entries : Subscription[i] \in Targets
  BY DEF CheckInv, Sending, SendJob, SubCheckAssumption, Entries
<1>2. /\ spc = "sending" /\ sent' = n /\ jobs[p] = 0 /\ p \notin gone
      /\ jobs' = [jobs EXCEPT ![p] = n] /\ BeginProbe(p, Subscription[n])
      /\ UNCHANGED <<spc, gone, results, cancelled>>
  BY DEF SendJob
<1>3. /\ target' = [target EXCEPT ![p] = Subscription[n]]
      /\ \A v \in Probers : bpc'[v] = "idle" <=> v # p /\ bpc[v] = "idle"
  BY <1>2 DEF BeginProbe, ProbeGoes, CheckInv, ProbeInv, ProbeTyped
<1>4. ProbeInv'
  BY <1>1, <1>2, BeginKeepsProbes DEF CheckInv
<1>5. \A v \in Probers : /\ jobs'[v] = IF v = p THEN n ELSE jobs[v]
                         /\ target'[v] = IF v = p THEN Subscription[n] ELSE target[v]
                         /\ jobs[v] \in 0 .. sent
  BY <1>2, <1>3 DEF CheckInv, ProbeInv, ProbeTyped, Sending
<1>6. Sending'
  BY <1>1, <1>2, <1>5 DEF CheckInv, Sending
<1>7. results[n] = NotChecked
  BY <1>1 DEF CheckInv, Placed
<1>8. Working'
  BY <1>1, <1>2, <1>3, <1>5, <1>7 DEF CheckInv, Working
<1>9. Placed'
  BY <1>1, <1>2, <1>5 DEF CheckInv, Placed, Entries
<1> QED
  BY <1>4, <1>6, <1>8, <1>9 DEF CheckInv

\* A worker stores what it measured in the place of the entry it has.
LEMMA StoreKeepsResults ==
    ASSUME SingBoxAssumption, SubCheckAssumption, CheckInv, NEW p \in Probers, StoreResult(p)
    PROVE  CheckInv'
<1> DEFINE n == jobs[p]
<1>1. /\ sent \in Nat /\ Len(Subscription) \in Nat
      /\ Entries = 1 .. Len(Subscription) /\ n \in Entries
      /\ \A i \in Entries : Subscription[i] \in Targets
  <2>1. /\ sent \in 0 .. Len(Subscription) /\ Len(Subscription) \in Nat
        /\ Entries = 1 .. Len(Subscription)
        /\ \A i \in Entries : Subscription[i] \in Targets
    BY DEF CheckInv, Sending, SubCheckAssumption, Entries
  <2>2. n \in 0 .. sent /\ n # 0
    BY DEF CheckInv, Sending, StoreResult
  <2> QED
    BY <2>1, <2>2
<1>2. /\ n # 0 /\ results' = [results EXCEPT ![n] = measured[p]]
      /\ jobs' = [jobs EXCEPT ![p] = 0] /\ EndProbe(p)
      /\ UNCHANGED <<spc, sent, gone, cancelled>>
  BY DEF StoreResult, PlaceOf
<1>3. /\ target' = [target EXCEPT ![p] = NoTarget]
      /\ \A v \in Probers : bpc'[v] = "idle" <=> v = p \/ bpc[v] = "idle"
  BY <1>2 DEF EndProbe, ProbeGoes, CheckInv, ProbeInv, ProbeTyped
<1>4. ProbeInv'
  BY <1>2, EndKeepsProbes DEF CheckInv
<1>5. /\ \A v \in Probers : /\ jobs'[v] = IF v = p THEN 0 ELSE jobs[v]
                            /\ v # p => target'[v] = target[v]
                            /\ jobs[v] \in 0 .. sent
      /\ \A i \in Entries : results'[i] = IF i = n THEN measured[p] ELSE results[i]
  BY <1>2, <1>3 DEF CheckInv, ProbeInv, ProbeTyped, Sending
<1>6. measured[p] \in Targets \cup {NoTarget} /\ measured[p] # NotChecked
  <2>1. measured[p] \in Targets \cup {NoTarget}
    BY DEF CheckInv, ProbeInv, ProbeTyped
  <2>2. NoTarget # NotChecked /\ NotChecked \notin Targets
    BY DEF SubCheckAssumption, NoTarget, NotChecked
  <2> QED
    BY <2>1, <2>2
<1>7. \/ measured[p] \in {NoTarget, Subscription[n]}
      \/ {measured[p], Subscription[n]} \subseteq Tunnelled
  BY <1>2 DEF CheckInv, ProbeInv, Measures, Working
<1>8. Sending'
  <2>1. Sending
    BY DEF CheckInv
  <2>2. results' \in [Entries -> Targets \cup {NoTarget, NotChecked}]
    BY <1>2, <1>6, <2>1 DEF Sending, Entries
  <2>3. jobs' \in [Probers -> 0 .. sent]
    BY <1>2, <2>1 DEF Sending
  <2> QED
    BY <1>2, <2>1, <2>2, <2>3 DEF Sending, Entries
<1>9. Working'
  BY <1>1, <1>2, <1>3, <1>5 DEF CheckInv, Working
<1>10. Placed'
  <2> SUFFICES ASSUME NEW i \in Entries
               PROVE  /\ i > sent => results'[i] = NotChecked
                      /\ i <= sent => \/ results'[i] # NotChecked
                                      \/ \E v \in Probers : jobs'[v] = i
                      /\ \/ results'[i] \in {NotChecked, NoTarget, Subscription[i]}
                         \/ {results'[i], Subscription[i]} \subseteq Tunnelled
    BY <1>2 DEF Placed, Entries
  <2>1. CASE i = n
    <3>1. results'[i] = measured[p] /\ ~(i > sent)
      BY <1>1, <1>5, <2>1 DEF CheckInv, Sending
    <3> QED
      BY <1>6, <1>7, <2>1, <3>1
  <2>2. CASE i # n
    <3>1. results'[i] = results[i]
      BY <1>5, <2>2
    <3>2. \A v \in Probers : jobs[v] = i => jobs'[v] = i
      BY <1>1, <1>5, <2>2
    <3> QED
      BY <3>1, <3>2 DEF CheckInv, Placed
  <2> QED
    BY <2>1, <2>2
<1> QED
  BY <1>4, <1>8, <1>9, <1>10 DEF CheckInv

\* Every step of the check tool keeps its invariant.
LEMMA CheckStep ==
    ASSUME SingBoxAssumption, SubCheckAssumption, CheckInv, [SubCheckNext]_subCheckVars
    PROVE  CheckInv'
<1>1. ASSUME NEW p \in Probers, ProbeStep(p) \/ Bind(p) \/ Exit(p), UNCHANGED checkVars
      PROVE  CheckInv'
  <2>1. ProbeInv'
    BY <1>1, ProbesStep DEF CheckInv, ProbesNext
  <2>2. target' = target /\ \A v \in Probers : bpc'[v] = "idle" <=> bpc[v] = "idle"
    BY <1>1, ProbeGoesOn DEF CheckInv, ProbeInv
  <2> QED
    BY <1>1, <2>1, <2>2 DEF CheckInv, checkVars, Sending, Working, Placed, Entries
<1>2. ASSUME \/ EndSending \/ Return \/ Interrupt \/ UNCHANGED subCheckVars
             \/ \E p \in Probers : LeaveWorker(p)
      PROVE  CheckInv'
  <2>1. UNCHANGED <<singBoxVars, sent, jobs, results>>
    BY <1>2 DEF EndSending, Return, Interrupt, LeaveWorker, subCheckVars, checkVars
  <2>2. ProbeInv'
    BY <2>1, ProbesStep DEF CheckInv, ProbesNext
  <2>3. Sending'
    BY <1>2, <2>1 DEF CheckInv, Sending, Entries, EndSending, ClosesJobs, Return, Interrupt,
                      LeaveWorker, subCheckVars, checkVars
  <2>4. Working' /\ Placed'
    BY <2>1 DEF CheckInv, Working, Placed, Entries, singBoxVars
  <2> QED
    BY <2>2, <2>3, <2>4 DEF CheckInv
<1> QED
  BY <1>1, <1>2, SendKeepsResults, StoreKeepsResults DEF SubCheckNext, WorkerStepOf

\* No entry is sent, and no probe has begun, at first.
LEMMA CheckInitially ==
    ASSUME SingBoxAssumption, SubCheckAssumption, SubCheckInit
    PROVE  CheckInv
<1>1. Len(Subscription) \in Nat /\ Entries = 1 .. Len(Subscription)
  BY DEF SubCheckAssumption, Entries
<1>2. \A p \in Probers : p # NoProber
  BY DEF SingBoxAssumption
<1>3. ProbeInv
  BY <1>2 DEF SubCheckInit, SingBoxInit, ProbeInv, ProbeTyped, Tidy, PortsOwned, RacesKnown, Measures,
              Holds
<1>4. Sending
  BY <1>1 DEF SubCheckInit, Sending
<1>5. Working
  BY DEF SubCheckInit, SingBoxInit, Working
<1>6. Placed
  BY <1>1 DEF SubCheckInit, Placed
<1> QED
  BY <1>3, <1>4, <1>5, <1>6 DEF CheckInv

-----------------------------------------------------------------------------
\* The workers and their probes: in every state of the check tool a probe has
\* only what its progress allows, no two jobs are one, and results are placed.
THEOREM CheckInvariant == SubCheckSpec => []CheckInv
<1>1. SubCheckInit => CheckInv
  BY CheckInitially, SingBoxAssumption, SubCheckAssumption
<1>2. CheckInv /\ [SubCheckNext]_subCheckVars => CheckInv'
  BY CheckStep, SingBoxAssumption, SubCheckAssumption
<1> QED
  BY <1>1, <1>2, PTL DEF SubCheckSpec

\* Wherever startSingBoxHTTPClient fails, and however its process ends, a probe
\* that has ended leaves no process, no port and no directory.
THEOREM ProbesLeaveNothing == SubCheckSpec => []NothingLeft
<1>1. CheckInv => NothingLeft
  BY DEF CheckInv, ProbeInv, Tidy, PortsOwned, NothingLeft
<1> QED
  BY <1>1, CheckInvariant, PTL

\* A node is measured through the tunnel of another only when both of their
\* probes counted on one port that pickFreePort found free.
THEOREM TunnelsAreOwn == SubCheckSpec => []WrongTunnelOnlyByRace
<1>1. CheckInv => WrongTunnelOnlyByRace
  BY DEF CheckInv, ProbeInv, Measures, WrongTunnelOnlyByRace
<1> QED
  BY <1>1, CheckInvariant, PTL

\* CheckNodes returns a result for each node it sent, in the place of the node.
THEOREM ResultsAreInPlace == SubCheckSpec => []ResultsInPlace
<1>1. ASSUME CheckInv, spc = "returned"
      PROVE  ResultsInPlace
  <2>1. /\ sent \in Nat /\ Entries = 1 .. Len(Subscription) /\ Len(Subscription) \in Nat
        /\ sent <= Len(Subscription)
    BY <1>1, SubCheckAssumption DEF CheckInv, Sending, SubCheckAssumption, Entries
  <2>2. \A p \in Probers : jobs[p] = 0
    BY <1>1 DEF CheckInv, Sending
  <2>3. \A i \in Entries : results[i] = NotChecked <=> i > sent
    BY <1>1, <2>1, <2>2 DEF CheckInv, Placed
  <2> QED
    BY <1>1, <2>1, <2>3 DEF CheckInv, Sending, Placed, ResultsInPlace
<1>2. CheckInv => ResultsInPlace
  BY <1>1 DEF ResultsInPlace
<1> QED
  BY <1>2, CheckInvariant, PTL

=============================================================================

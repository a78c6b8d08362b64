------------------------------ MODULE MCParts ------------------------------
(* The parts of the program whose models share no state with one another,   *)
(* in one module: a behaviour is one of the part that has the focus, the    *)
(* others rest in an initial state.                                         *)
EXTENDS SourceFetch, RateLimiter, SyncVerify, WalGuard, PoolUpkeep, Lifecycle, SubCheck,
        NodeMaven, Catalog

CONSTANTS Parts, s1, s2, k1, r1, r2, l1, l2, tk, c1, p1, p2, v1, v2, x1, q1, q2

VARIABLE focus

MCSources == {s1, s2}
MCClients == {k1}
MCRequests == {r1, r2}
MCVerified == 1 .. 3
MCLoops == {l1, l2}
MCReaders == {c1}
MCReleases == << <<[name |-> "a", url |-> "a1"], [name |-> "b", url |-> "b1"]>>,
                 <<[name |-> "a", url |-> "a2"], [name |-> "b", url |-> "b1"]>> >>
MCMavenSource == [name |-> "nodemaven", url |-> "n1"]
MCProbers == {p1, p2}
MCTargets == {v1, v2, x1}
MCTunnelled == {v1, v2}
MCPorts == {q1, q2}
MCSubscription == <<v1, v2, x1>>
MCItem(key, spelling) == [key |-> key, spelling |-> spelling]
MCListing == << <<MCItem("a", "A"), MCItem("b", "1")>>, <<MCItem("a", "a"), MCItem("c", "1")>>,
                <<MCItem("b", "one")>> >>

\* Credentials with escapes: what reading and writing them makes of them.
MCEscapes == [c \in {"", "pw", "p%2541", "p%41", "pA", "p%25", "p%", "a%20b", "a b", "a+b", "a%2Bb"} |->
    CASE c = "p%2541" -> "p%41" [] c = "p%41" -> "pA" [] c = "p%25" -> "p%"
      [] c \in {"p%", "a b"} -> Unreadable [] c = "a%20b" -> "a b" [] c = "a%2Bb" -> "a+b"
      [] OTHER -> c]
MCQueryEscape == [c \in {"", "pw", "p%41", "pA", "p%", "a b", "a+b"} |->
    CASE c = "p%41" -> "p%2541" [] c = "p%" -> "p%25" [] c = "a b" -> "a+b"
      [] c = "a+b" -> "a%2Bb" [] OTHER -> c]
MCNamed(l, name) == [l EXCEPT !.name = name]
MCFeed(type, lines) == [type |-> type, lines |-> lines, scheme |-> "http"]
MCWs == [Link("vmess", "b", "id") EXCEPT !.transport = "ws", !.path = "/p", !.security = "tls"]
MCTrojan == [Link("trojan", "b", "a%20b") EXCEPT !.security = "tls"]
MCFeeds == {
    MCFeed("text", <<Link("socks5", "a1", "pw")>>), MCFeed("text", <<Link("http", "h", "p%2541")>>),
    MCFeed("topchina", <<Link("http", "a1", "p%41"), Link("http", "a2", ""),
                         Link("http", "a2", "p%25")>>),
    MCFeed("nodemaven_api", <<[proto |-> "socks5h", at |-> "a1", country |-> "HK"]>>),
    MCFeed("sub_base64",
        <<MCNamed(Link("ss", "a1", "pw"), <<Word("n"), <<"dash", 2>>>>),
          MCNamed(MCWs, <<<<"ip", "a1">>, <<"bar", "|">>, Word("n")>>)>>),
    MCFeed("sub_base64", <<Link("http", "a1", "p%41"), Link("http", "h", "pw")>>),
    MCFeed("sub_base64", <<Link("http", "a1", "p%25")>>),
    MCFeed("sub_base64", <<MCTrojan, Link("gopher", "a1", "")>>),
    MCFeed("clash_yaml",
        <<[Entry("trojan", Link("trojan", "b", "pw")) EXCEPT !.name = <<Word("n")>>, !.sni = "s"],
          [Entry("ss", Link("ss", "b", "a/b")) EXCEPT !.name = <<Word("n")>>]>>) }
MCVerdicts == {[country |-> "HK", purity |-> "88"], [country |-> "BR", purity |-> ""]}

\* What rests has one initial state; at most one row to be verified was valid, and
\* at most one banned; the nodes of the pool are alike, and the last is up.
VerifyStarted ==
    /\ VerifyInit
    /\ focus # "verify" => row = [n \in Nodes |-> CHOOSE r \in StartRows : r.at = 0]
    /\ \A m, n \in Nodes : row[m] = row[n] /\ (row[m].valid \/ row[m].ban # 0) => m = n
PoolStarted ==
    /\ PoolInit
    /\ focus # "pool" => /\ standing = [n \in PoolNodes |-> New]
                         /\ byAge = [i \in PoolNodes |-> i]
    /\ up = {3}
LifecycleStarted == LifecycleInit /\ (focus # "lifecycle" => version = 0)

PartsInit ==
    /\ focus \in Parts
    /\ VerifyStarted /\ PoolStarted /\ LifecycleStarted
    /\ Init /\ LimiterInit /\ WalInit /\ SubCheckInit /\ MavenInit /\ CatalogInit

partsVars == <<vars, limiterVars, verifyVars, walVars, poolVars, lifecycleVars, subCheckVars, mavenVars,
               catalogVars>>

PartsNext ==
    /\ UNCHANGED focus
    /\ \/ /\ focus = "fetch" /\ Next
          /\ UNCHANGED <<limiterVars, verifyVars, walVars, poolVars, lifecycleVars, subCheckVars,
                         mavenVars, catalogVars>>
       \/ /\ focus = "limiter" /\ LimiterNext
          /\ UNCHANGED <<vars, verifyVars, walVars, poolVars, lifecycleVars, subCheckVars, mavenVars,
                         catalogVars>>
       \/ /\ focus = "verify" /\ VerifyNext
          /\ UNCHANGED <<vars, limiterVars, walVars, poolVars, lifecycleVars, subCheckVars, mavenVars,
                         catalogVars>>
       \/ /\ focus = "wal" /\ WalNext
          /\ UNCHANGED <<vars, limiterVars, verifyVars, poolVars, lifecycleVars, subCheckVars, mavenVars,
                         catalogVars>>
       \/ /\ focus = "pool" /\ PoolNext
          /\ UNCHANGED <<vars, limiterVars, verifyVars, walVars, lifecycleVars, subCheckVars, mavenVars,
                         catalogVars>>
       \/ /\ focus = "lifecycle" /\ LifecycleNext
          /\ UNCHANGED <<vars, limiterVars, verifyVars, walVars, poolVars, subCheckVars, mavenVars,
                         catalogVars>>
       \/ /\ focus = "subcheck" /\ SubCheckNext
          /\ UNCHANGED <<vars, limiterVars, verifyVars, walVars, poolVars, lifecycleVars, mavenVars,
                         catalogVars>>
       \/ /\ focus = "maven" /\ MavenNext
          /\ UNCHANGED <<vars, limiterVars, verifyVars, walVars, poolVars, lifecycleVars, subCheckVars,
                         catalogVars>>
       \/ /\ focus = "catalog" /\ CatalogNext
          /\ UNCHANGED <<vars, limiterVars, verifyVars, walVars, poolVars, lifecycleVars, subCheckVars,
                         mavenVars>>

PartsSafety == PartsInit /\ [][PartsNext]_<<focus, partsVars>>

\* The fairness of each part, while it has the focus.
PartsProgress ==
    /\ PartsSafety
    /\ Fairness             \* nothing of it is enabled before a tick,
    /\ VerifyFairness       \* nor of this before a request
    /\ \A g \in Guards : /\ SF_walVars(focus = "wal" /\ Enforce(g))
                         /\ WF_walVars(focus = "wal" /\ GuardStep(g))
    /\ \A r \in Readers : WF_walVars(focus = "wal" /\ EndRead(r))
    /\ WF_poolVars(focus = "pool" /\ CountFresh)
    /\ WF_poolVars(focus = "pool" /\ AskForChecks)
    /\ WF_poolVars(focus = "pool" /\ BeginCheck)
    /\ \A n \in PoolNodes : /\ WF_poolVars(focus = "pool" /\ EndCheck(n))
                            /\ WF_poolVars(focus = "pool" /\ BanEnds(n))
    /\ WF_subCheckVars(focus = "subcheck"
                          /\ (EndSending \/ Return \/ \E p \in Probers : SendJob(p)))
    /\ \A p \in Probers : WF_subCheckVars(focus = "subcheck" /\ WorkerStepOf(p))
    /\ WF_mavenVars(focus = "maven" /\ MavenNext)
=============================================================================

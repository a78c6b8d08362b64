------------------------------ MODULE Catalog ------------------------------
(***************************************************************************)
(* The table of nodes as a catalogue of proxies: what the readers of a     *)
(* source put into it (internal/core/supervisor.go fetchOne, UpsertNodes)  *)
(* and what the subscriptions take from it (RenderPlain, RenderV2Ray,      *)
(* RenderClash), which another pool, a source of this one or the check     *)
(* tool reads again.                                                       *)
(***************************************************************************)
EXTENDS ClashExport

CONSTANTS
    Feeds,          \* [type, lines, scheme]: what a source delivers
    Verdicts,       \* [country, purity]: what a check that passes finds out
    IngestMax,      \* IngestMaxPerSource, 0 for no limit
    MaxImports,     \* bound: fetches
    MaxVerdicts     \* bound: checks

WellFormedEntry(e) ==
    /\ e = [type |-> e.type, server |-> e.server, cred |-> e.cred, tls |-> e.tls,
            network |-> e.network, path |-> e.path, servername |-> e.servername,
            sni |-> e.sni, name |-> e.name]
    /\ IsSeq(e.name)

LinesOfType(type, lines) ==
    /\ IsSeq(lines)
    /\ type \in {"text", "topchina", "sub_base64"} => \A l \in Range(lines) : WellFormed(l)
    /\ type = "clash_yaml" => \A e \in Range(lines) : WellFormedEntry(e)

ASSUME CatalogAssumption ==
    \A feed \in Feeds :
        /\ feed.type \in {"text", "topchina", "nodemaven_api", "sub_base64", "clash_yaml"}
        /\ LinesOfType(feed.type, feed.lines)

VARIABLES
    catalog,    \* fingerprint -> row
    doc,        \* the last subscription that was rendered
    imports,    \* fetches so far
    verdicts,   \* checks so far
    alive       \* no line has ended the program

catalogVars == <<catalog, doc, imports, verdicts, alive>>

NoDoc == [format |-> "none", from |-> <<>>]

CatalogInit ==
    /\ catalog = <<>> /\ doc = NoDoc
    /\ imports = 0 /\ verdicts = 0 /\ alive = TRUE

(***************************************************************************)
(* Reading a source                                                        *)
(***************************************************************************)
\* An item has no credentials, and they are no part of its fingerprint.
MavenNode(item) ==
    LET l == Link(IF item.proto \in ProxyProtocols \ {"socks5h"} THEN item.proto ELSE "http",
                  item.at, "")
    IN  [Node("proxy", l, l, <<>>) EXCEPT !.fp = <<"proxy", l.proto, l.at>>,
                                          !.maven = TRUE, !.country = item.country]

Read(type, lines, scheme) ==
    CASE type = "text"          -> ParseGeneric(lines, scheme)
      [] type = "topchina"      -> ParseTopChina(lines)
      [] type = "nodemaven_api" -> Mapped(lines, MavenNode)
      [] type = "sub_base64"    -> ParseBase64Subscription(lines)
      [] type = "clash_yaml"    -> ParseClashYAML(lines)

\* A longer list is shuffled and cut.
Cut(batch) ==
    IF IngestMax = 0 \/ Len(batch) <= IngestMax THEN {batch}
    ELSE {Mapped(order, LAMBDA i : batch[i]) :
            order \in UNION {SetToSeqs(K) : K \in kSubset(IngestMax, DOMAIN batch)}}

\* ON CONFLICT(fingerprint) DO UPDATE: the address of the row stays.
Refreshed(row, n) ==
    [row EXCEPT !.uri = n.uri,
                !.name = IF n.name # <<>> THEN n.name ELSE @,
                !.country = IF @ = "" THEN n.country ELSE @]

\* The first of equal fingerprints in a batch counts.
Upserted(table, batch) ==
    LET fps == {batch[i].fp : i \in DOMAIN batch}
        First(fp) == batch[Min({i \in DOMAIN batch : batch[i].fp = fp})]
    IN  [fp \in DOMAIN table \cup fps |->
            CASE fp \notin fps          -> table[fp]
              [] fp \notin DOMAIN table -> First(fp)
              [] OTHER                  -> Refreshed(table[fp], First(fp))]

Take(batch) ==
    /\ alive /\ imports < MaxImports
    /\ imports' = imports + 1
    /\ \/ /\ Panics \in Range(batch)
          /\ alive' = FALSE
          /\ UNCHANGED catalog
       \/ /\ Panics \notin Range(batch)
          /\ \E some \in Cut(batch) : catalog' = Upserted(catalog, some)
          /\ UNCHANGED alive
    /\ UNCHANGED <<doc, verdicts>>

FetchFeed(feed) == Take(Read(feed.type, feed.lines, feed.scheme))

\* A check that passed: NodeCheck has the rest. A row without address never passes.
CheckPasses(fp, v) ==
    /\ alive /\ verdicts < MaxVerdicts
    /\ catalog[fp].link.at # ""
    /\ catalog' = [catalog EXCEPT ![fp].status = "valid", ![fp].country = v.country,
                                  ![fp].purity = v.purity]
    /\ verdicts' = verdicts + 1
    /\ UNCHANGED <<doc, imports, alive>>

(***************************************************************************)
(* Subscriptions                                                           *)
(***************************************************************************)
\* QueryFreshValidNodes: valid rows in the order of their scores, which is any.
Listings == SetToSeqs({fp \in DOMAIN catalog : catalog[fp].status = "valid"})

PlainLine(n, format) ==
    IF format = "hostport" /\ n.kind = "proxy" THEN Link("", n.link.at, "") ELSE n.uri

Document(format, listing) ==
    LET rows == Mapped(listing, LAMBDA fp : catalog[fp])
        rendered == Rendered(rows)
    IN  IF format = "clash"
        THEN [format |-> format, from |-> listing, rendered |-> rendered,
              lines |-> Mapped(rendered, LAMBDA r : r.entry), groups |-> ClashGroups(rendered)]
        ELSE [format |-> format, from |-> listing,
              lines |-> Mapped(rows, LAMBDA n : PlainLine(n, format))]

Formats == {"uri", "hostport", "v2ray", "clash"}

RenderDoc(format) ==
    /\ alive
    /\ \E listing \in Listings : doc' = Document(format, listing)
    /\ UNCHANGED <<catalog, imports, verdicts, alive>>

\* The lines each reader finds in a document: base64 is no text, and a reader
\* of links or of YAML finds nothing in the other kind.
LinesOf(d, type) ==
    CASE type = "clash_yaml" -> IF d.format = "clash" THEN d.lines ELSE <<>>
      [] type = "sub_base64" -> IF d.format = "clash" THEN <<>> ELSE d.lines
      [] type = "text"       -> IF d.format \in {"uri", "hostport"} THEN d.lines ELSE <<>>

\* The subscription of this pool is a source of it too.
ReadBack(type) ==
    /\ doc # NoDoc
    /\ Take(Read(type, LinesOf(doc, type), "http"))

\* The check tool: an explicit format wins, then the content.
DetectFormat(d, explicit) ==
    IF explicit = "clash" \/ (explicit = "auto" /\ d.format = "clash")
    THEN "clash_yaml" ELSE "sub_base64"
ToolNodes(d, explicit) ==
    LET type == DetectFormat(d, explicit) IN Read(type, LinesOf(d, type), "http")

CatalogNext ==
    \/ \E feed \in Feeds : FetchFeed(feed)
    \/ \E fp \in DOMAIN catalog, v \in Verdicts : CheckPasses(fp, v)
    \/ \E format \in Formats : RenderDoc(format)
    \/ \E type \in {"text", "sub_base64", "clash_yaml"} : ReadBack(type)

CatalogSpec == CatalogInit /\ [][CatalogNext]_catalogVars

(***************************************************************************)
(* Properties                                                              *)
(***************************************************************************)
\* The credential of a proxy has no escape left: it is read as it is written.
Settled(n) == n.kind = "proxy" => Unescape[n.link.cred] = n.link.cred

\* An import writes the link of a row anew and leaves its address: whatever the
\* sources delivered, the link that the subscriptions hand out (RenderPlain,
\* RenderV2Ray) is read back as the proxy that the checks of the row dial, and,
\* unless the row came from NodeMaven, as the same row. Credentials that are
\* unescaped once more at each reading are the exception.
LinkIsTheNode ==
    \A fp \in DOMAIN catalog :
        LET n == catalog[fp]  read == ParseURI(n.uri) IN
        n.link.at # "" /\ Settled(n) =>
            /\ read \notin {Failed, Panics}
            /\ read.link = n.link
            /\ n.maven \/ read.fp = fp

\* What a Clash entry can say of a node, and the reader of this pool takes from it.
\* It writes a space of a password as +, which url.Parse leaves, and a uuid as it is.
Carried(n) ==
    LET l == n.link
        Survives == Unescape[QueryEscape[l.cred]] = l.cred
    IN
    \/ l.proto \in {"http", "socks5"} /\ Settled(n) /\ Survives
    \/ l.proto = "ss" /\ l.cred \notin HalfCreds \cup Slashed
    \/ l.proto = "trojan" /\ l.security = "tls" /\ l.transport = "" /\ l.path = "" /\ Survives
    \/ /\ l.proto \in {"vmess", "vless"}
       /\ l.security \in {"", "tls"} /\ l.sni = "" /\ l.aid = 0
       /\ l.transport = "ws" \/ (l.transport = "" /\ l.path = "")
       /\ l.proto = "vless" => Unescape[l.cred] = l.cred

\* README.md:163: the check tool recognises the Clash file of this project. Every
\* node whose parts a Clash entry carries is read back from it as the same row
\* (but for NodeMaven's), and no listing makes it read two rows as one.
ClashReadsBack ==
    doc.format = "clash" /\ alive =>
        \A i \in DOMAIN doc.from :
            LET n == catalog[doc.from[i]] IN
            Carried(n) /\ ~n.maven =>
                \E m \in Range(ToolNodes(doc, "auto")) : m.fp = n.fp

\* A Clash client refuses a file whose groups name what it does not define, and a
\* proxy in no region cannot be chosen by region: each group names proxies, groups
\* or DIRECT; each proxy is in both automatic groups and in its region's.
EveryProxySelectable ==
    doc.format = "clash" =>
        LET Members(g) == Range(g.members)
            groups == Range(doc.groups)
            names == {r.name : r \in Range(doc.rendered)}
            known == names \cup {g.name : g \in groups} \cup {NamedGroup("DIRECT")}
        IN  /\ \A g \in groups : g.members # <<>> /\ Members(g) \subseteq known
            /\ \A name \in names :
                   Cardinality({g \in groups : name \in Members(g)}) >= 3
            /\ \A g \in groups : g.name # NamedGroup("select") =>
                   \E h \in groups : h.name = NamedGroup("select") /\ g.name \in Members(h)

\* Two proxies of a file have one name only if a name that a source delivered ends
\* in the number that ensureUniqueName gave to another: it counts the names before
\* the number, never the ones it made.
DuplicateOnlyBySuffix ==
    doc.format = "clash" =>
        \A i, j \in DOMAIN doc.rendered :
            i # j /\ doc.rendered[i].name = doc.rendered[j].name =>
                \E a, b \in {i, j} : \E k \in 2..Len(doc.rendered) :
                    doc.rendered[a].base = Append(doc.rendered[b].base, <<"dash", k>>)
=============================================================================

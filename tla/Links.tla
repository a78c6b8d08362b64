------------------------------- MODULE Links -------------------------------
(***************************************************************************)
(* What the readers of the pool take from a line: a proxy address, a share *)
(* link, an entry of a Clash file, and the fingerprint that identifies the *)
(* proxy (internal/model, internal/v2ray/parse.go, internal/sources).      *)
(*                                                                         *)
(* A link is a record of the parts the fingerprints are built from. at is  *)
(* the host with its port, cred the user name and password, method and     *)
(* password, or uuid, as it is written; path stands for the ws path and    *)
(* host header. A name is a sequence of tokens (see ClashExport).          *)
(***************************************************************************)
EXTENDS Naturals, Sequences, FiniteSets, SequencesExt

CONSTANTS
    Unescape,       \* what url.Parse makes of a written credential, or Unreadable
    QueryEscape,    \* how url.QueryEscape writes a credential
    Slashed,        \* credentials of ss whose base64 form has a slash
    HalfCreds,      \* credentials of ss that lack a method or a password
    IPv4Ports       \* the places that the ip:port pattern matches in a text

Unreadable == "unreadable"

ASSUME LinksAssumption ==
    /\ DOMAIN QueryEscape \subseteq DOMAIN Unescape
    /\ \A c \in DOMAIN Unescape : Unescape[c] \in DOMAIN Unescape \cup {Unreadable}

ProxyProtocols == {"http", "https", "socks4", "socks5", "socks5h"}

Link(proto, at, cred) ==
    [proto |-> proto, at |-> at, cred |-> cred, transport |-> "", security |-> "",
     path |-> "", sni |-> "", aid |-> 0, name |-> <<>>]

\* A sequence, of whatever.
IsSeq(s) == s \in Seq(Range(s))

\* The parts that the links of a kind do not have are empty.
WellFormed(l) ==
    /\ l = [proto |-> l.proto, at |-> l.at, cred |-> l.cred, transport |-> l.transport,
            security |-> l.security, path |-> l.path, sni |-> l.sni, aid |-> l.aid,
            name |-> l.name]
    /\ l.proto # "vmess" => l.aid = 0
    /\ l.proto \notin {"vmess", "vless", "trojan"} =>
           l.transport = "" /\ l.security = "" /\ l.path = "" /\ l.sni = ""
    /\ IsSeq(l.name)

Failed == [kind |-> "error"]
Panics == [kind |-> "panic"]

FingerprintNoCred(kind, l) == <<kind, l.proto, l.at>>   \* mutant: no credentials

\* What a proxy is identified by: the hash of these parts, in their order.
Fingerprint(kind, l) ==
    CASE l.proto = "vmess" ->
            <<kind, l.proto, l.at, l.cred, l.transport, l.security, l.path, l.sni, l.aid>>
      [] l.proto \in {"vless", "trojan"} ->
            <<kind, l.proto, l.at, l.cred, l.transport, l.security, l.path, l.sni>>
      [] OTHER -> <<kind, l.proto, l.at, l.cred>>

\* url.Parse refuses a bad escape; what is written has neither escapes nor name.
CanNormalize(l) == l.proto \in ProxyProtocols /\ Unescape[l.cred] # Unreadable
Normalized(l) == Link(l.proto, l.at, Unescape[l.cred])

Node(kind, l, uri, name) ==
    [kind |-> kind, fp |-> Fingerprint(kind, l), link |-> [l EXCEPT !.name = <<>>],
     uri |-> uri, name |-> name, country |-> "", maven |-> FALSE,
     status |-> "unknown", purity |-> ""]

\* The normalised form is normalised once more; the error of that is dropped
\* and the missing URL used.
ParseProxyURI(l) ==
    IF ~CanNormalize(l) THEN Failed
    ELSE IF ~CanNormalize(Normalized(l)) THEN Panics
    ELSE Node("proxy", Normalized(Normalized(l)), Normalized(l), <<>>)

\* base64 keeps ss credentials from escapes; a slash in it ends the authority.
ParseShareURI(l) ==
    CASE l.proto = "ss" ->
            IF l.cred \in Slashed \/ l.cred = "" THEN Failed ELSE Node("v2ray", l, l, l.name)
      [] l.proto = "vmess" -> Node("v2ray", l, l, l.name)
      [] l.proto \in {"vless", "trojan"} ->
            IF Unescape[l.cred] = Unreadable THEN Failed
            ELSE Node("v2ray", [l EXCEPT !.cred = Unescape[@]], l, l.name)
      [] OTHER -> Failed

ParseURI(l) == IF l.proto \in ProxyProtocols THEN ParseProxyURI(l) ELSE ParseShareURI(l)

(***************************************************************************)
(* Texts: every URL, then every ip:port, which those URLs contain too, as  *)
(* an address of the source's default scheme.                              *)
(***************************************************************************)
Candidate(normalized) ==
    IF CanNormalize(normalized)
    THEN Node("proxy", Normalized(normalized), normalized, <<>>)
    ELSE Node("proxy", Link("", "", ""), normalized, <<>>)

\* The first of equal elements stays.
Unique(s) == FoldLeft(LAMBDA t, x : IF Contains(t, x) THEN t ELSE Append(t, x), <<>>, s)
Mapped(s, Op(_)) == [i \in DOMAIN s |-> Op(s[i])]
\* What s has of S, in its order.
Only(s, S) == FoldLeft(LAMBDA t, x : IF x \in S THEN Append(t, x) ELSE t, <<>>, s)

ParseGeneric(lines, scheme) ==
    LET urls == Only(lines, {l \in Range(lines) : CanNormalize(l)})
        bare == Only(lines, {l \in Range(lines) : l.at \in IPv4Ports})
        texts == Mapped(urls, Normalized)
                   \o Mapped(bare, LAMBDA l : Link(scheme, l.at, ""))
    IN  Mapped(Unique(texts), Candidate)

\* A row of the table is an address and a user name, whose password is 1.
ParseTopChina(rows) ==
    LET good == Only(rows, {r \in Range(rows) : r.cred # "" /\ r.at \in IPv4Ports /\ CanNormalize(r)})
    IN  Mapped(Unique(Mapped(good, Normalized)), Candidate)

\* Lines that do not parse are skipped; one that panics ends the program.
Kept(parsed) == Only(parsed, Range(parsed) \ {Failed})

ParseBase64Subscription(lines) == Kept(Mapped(lines, ParseURI))

(***************************************************************************)
(* Clash entries. servername of vmess and vless, the alterId, and the      *)
(* transport of trojan are not read.                                       *)
(***************************************************************************)
ClashTypes == {"http", "socks5", "ss", "vmess", "vless", "trojan"}

PathOf(e) == IF e.type \in {"vmess", "vless"} THEN e.path ELSE ""

ClashToLink(e) ==
    [proto |-> e.type, at |-> e.server,
     cred |-> IF e.type \in {"http", "socks5", "trojan"} THEN QueryEscape[e.cred] ELSE e.cred,
     transport |-> IF e.type \in {"vmess", "vless"} THEN e.network ELSE "",
     security |-> IF e.type = "trojan" \/ (e.tls /\ e.type \in {"vmess", "vless"})
                  THEN "tls" ELSE "",
     path |-> PathOf(e),
     sni |-> IF e.type = "trojan" THEN e.sni ELSE "",
     aid |-> 0,
     name |-> e.name]

ParseClashYAML(entries) ==
    LET read == Only(entries, {e \in Range(entries) : e.type \in ClashTypes})
    IN  Kept(Mapped(Mapped(read, ClashToLink), ParseURI))
=============================================================================

----------------------------- MODULE ClashExport -----------------------------
(***************************************************************************)
(* The Clash file of the pool (internal/sub/clash.go): which nodes get an  *)
(* entry, how the entries are named, and the groups that list the names.   *)
(*                                                                         *)
(* A name is a sequence of tokens: <<"word", w>>, <<"ip", a>> (an IPv4     *)
(* address), <<"bar", "|">> (separators), <<"flag", c>>, <<"country", c>>, *)
(* <<"pure", p>> and <<"dash", k>> (a trailing "-k").                      *)
(***************************************************************************)
EXTENDS Links, TLC

RegionOf(country) ==
    CASE country \in {"HK", "MO"} -> "hk-mo"
      [] country = "TW"           -> "tw"
      [] country = "JP"           -> "jp"
      [] country = "SG"           -> "sg"
      [] country \in {"US", "CA"} -> "us"
      [] country = "KR"           -> "kr"
      [] country \in {"GB", "DE", "NL", "FR", "SE", "CH", "IT", "ES", "PL", "NO", "FI", "IE",
                      "AT", "BE", "DK", "CZ", "PT", "HU", "RO", "LU"} -> "europe"
      [] OTHER                    -> "other"

Word(w) == <<"word", w>>
NamedGroup(g) == <<Word(g)>>            \* the name of a group, or of DIRECT

CountryKnown(country) == Len(country) = 2

\* Addresses go, and the separators at both ends.
SanitizeName(name, proto) ==
    LET kept == Only(name, {t \in Range(name) : t[1] # "ip"})
        solid == {i \in DOMAIN kept : kept[i][1] # "bar"}
    IN  IF solid = {} THEN <<Word(proto)>>
        ELSE SubSeq(kept, Min(solid), Max(solid))

\* A name that already has the flag or the country is left as it is.
Decorated(n, name) ==
    LET flag == <<"flag", n.country>>
        land == <<"country", n.country>>
        pure == <<"pure", n.purity>>
        fore == <<flag, land, <<"bar", "|">>>> \o name
    IN  IF ~CountryKnown(n.country) \/ Contains(name, flag) \/ Contains(name, land) THEN name
        ELSE IF n.purity = "" \/ Contains(fore, pure) THEN fore
        ELSE fore \o <<<<"bar", "|">>, pure>>

(***************************************************************************)
(* Entries                                                                 *)
(***************************************************************************)
Entry(type, l) ==
    [type |-> type, server |-> l.at, cred |-> l.cred, tls |-> FALSE, network |-> "",
     path |-> "", servername |-> "", sni |-> "", name |-> <<>>]

PathLost(l) == ""           \* mutant: ws without its path and Host header
WsPath(l) == l.path

WithWs(e, l) ==
    IF l.transport = "ws" THEN [e EXCEPT !.network = "ws", !.path = WsPath(l)] ELSE e

\* Clash has no socks4.
ProxyEntry(n) ==
    CASE n.link.proto \in {"http", "https"} ->
            {[Entry("http", n.link) EXCEPT !.tls = (n.link.proto = "https")]}
      [] n.link.proto \in {"socks5", "socks5h"} -> {Entry("socks5", n.link)}
      [] OTHER -> {}

\* The link of the row is parsed again.
V2RayEntry(n) ==
    LET p == ParseURI(n.uri)  l == p.link IN
    CASE p = Failed -> {}
      [] l.proto = "ss" -> IF l.cred \in HalfCreds THEN {} ELSE {Entry("ss", l)}
      [] l.proto \in {"vmess", "vless"} ->
            {WithWs([Entry(l.proto, l) EXCEPT !.tls = (l.security = "tls"),
                                              !.servername = l.sni], l)}
      [] OTHER -> {WithWs([Entry("trojan", l) EXCEPT !.tls = TRUE, !.sni = l.sni], l)}

\* No entry or one.
ClashEntry(n) == IF n.kind = "proxy" THEN ProxyEntry(n) ELSE V2RayEntry(n)
OwnName(n) == IF n.kind = "proxy" THEN n.name ELSE n.uri.name
DisplayName(n) == Decorated(n, SanitizeName(OwnName(n), n.link.proto))

(***************************************************************************)
(* The loop of RenderClash: names already used are counted, by the name    *)
(* they had before a number was added. The sorting by name and the parts   *)
(* of the file that are the same for every listing are left out.           *)
(***************************************************************************)
TimesUsedOnce(out, name) ==         \* mutant: used[name]++ is forgotten
    IF \E i \in DOMAIN out : out[i].base = name THEN 1 ELSE 0
TimesUsed(out, name) == Cardinality({i \in DOMAIN out : out[i].base = name})

Numbered(name, k) == IF k = 1 THEN name ELSE Append(name, <<"dash", k>>)
UniqueName(out, name) == Numbered(name, TimesUsed(out, name) + 1)

RenderedEntry(n, name) ==
    LET entry == CHOOSE e \in ClashEntry(n) : TRUE
    IN  [entry |-> [entry EXCEPT !.name = name], name |-> name,
         base |-> DisplayName(n), region |-> RegionOf(n.country)]

Add(out, n) ==
    IF ClashEntry(n) = {} THEN out
    ELSE Append(out, RenderedEntry(n, UniqueName(out, DisplayName(n))))

Rendered(listing) == FoldLeft(Add, <<>>, listing)

(***************************************************************************)
(* Groups: two over all names, one for each region that has any, and the   *)
(* one a user selects from.                                                *)
(***************************************************************************)
RegionOrderShort == <<"hk-mo", "tw", "jp", "sg", "us", "kr", "europe">>     \* mutant
RegionOrder == <<"hk-mo", "tw", "jp", "sg", "us", "kr", "europe", "other">>

Group(name, members) == [name |-> NamedGroup(name), members |-> members]

ClashGroups(rendered) ==
    LET names == Mapped(rendered, LAMBDA r : r.name)
        In(region) == Mapped(Only(rendered, {r \in Range(rendered) : r.region = region}),
                             LAMBDA r : r.name)
        automatic == IF names = <<>> THEN <<>>
                     ELSE <<Group("auto", names), Group("fallback", names)>>
        regions == Mapped(Only(RegionOrder, {g \in Range(RegionOrder) : In(g) # <<>>}),
                          LAMBDA g : Group(g, In(g)))
        groups == automatic \o regions
    IN  Append(groups, Group("select",
            <<NamedGroup("DIRECT")>> \o Mapped(groups, LAMBDA g : g.name)))
=============================================================================

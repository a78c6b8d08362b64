--------------------------- MODULE CatalogProofs ---------------------------
(***************************************************************************)
(* Proofs about what is read from the sources and handed out again: the    *)
(* pages of NodeMaven and the catalogue, for any listings, feeds and       *)
(* escapes.  What the folds of these modules compute is shown by           *)
(* induction: a number for which it fails would have a least one.          *)
(***************************************************************************)
EXTENDS NodeMaven, Catalog, WellFoundedInduction, FiniteSetTheorems, SequenceTheorems, TLAPS

-----------------------------------------------------------------------------
(* Induction.                                                              *)

Less == OpToRel(<, Nat)

\* A set of numbers has a least one.
LEMMA LeastNumber ==
    ASSUME NEW S, S \subseteq Nat, S # {}
    PROVE  \E n \in S : \A m \in S : n <= m
<1>1. \E n \in S : \A m \in S : <<m, n>> \notin Less
  BY WFMin, NatLessThanWellFounded DEF Less
<1>2. PICK n \in S : \A m \in S : <<m, n>> \notin Less
  BY <1>1
<1>3. ASSUME NEW m \in S
      PROVE  n <= m
  <2>1. m < n => <<m, n>> \in Less
    BY DEF Less, OpToRel
  <2> QED
    BY <1>2, <2>1
<1> QED
  BY <1>3

\* What holds of 0, and of a number when it holds of the one before, holds of all.
LEMMA NumbersByInduction ==
    ASSUME NEW S, 0 \in S, \A n \in Nat : n \in S => n + 1 \in S
    PROVE  Nat \subseteq S
<1> SUFFICES ASSUME Nat \ S # {}
             PROVE  FALSE
  OBVIOUS
<1>1. PICK n \in Nat \ S : \A m \in Nat \ S : n <= m
  BY LeastNumber
<1>2. n - 1 \in Nat /\ n - 1 \notin Nat \ S
  BY <1>1
<1> QED
  BY <1>1, <1>2

\* The greatest of the first n numbers is n ...
LEMMA LastIsMax ==
    ASSUME NEW n \in Nat, NEW S \in SUBSET (1 .. n), n \in S
    PROVE  Max(S) = n
<1>1. \A m \in S : n >= m
  OBVIOUS
<1>2. \A k \in S : (\A m \in S : k >= m) => k = n
  BY <1>1
<1> QED
  BY <1>1, <1>2 DEF Max

\* ... and some of them have a greatest.
LEMMA MaxIsMember ==
    ASSUME NEW n \in Nat, NEW S \in SUBSET (1 .. n), S # {}
    PROVE  Max(S) \in S
<1> DEFINE Above == {m \in Nat : \A k \in S : k <= m}
<1>1. Above \subseteq Nat /\ n \in Above
  OBVIOUS
<1>2. PICK m \in Above : \A k \in Above : m <= k
  BY <1>1, LeastNumber
<1>3. PICK k \in S : TRUE
  OBVIOUS
<1>4. ASSUME m \notin S
      PROVE  FALSE
  <2>1. m - 1 \in Above
    BY <1>3, <1>4
  <2> QED
    BY <1>2, <2>1
<1> QED
  BY <1>2, <1>4 DEF Max

-----------------------------------------------------------------------------
(* Folds. FoldLeft takes the greatest of a set of places last.             *)

\* g folds n steps, as FoldLeft does: step takes a result and a place to the next.
FoldsTo(g, out, step, n) ==
    \A S \in SUBSET (1 .. n) : g[S] = IF S = {} THEN out ELSE step[<<g[S \ {Max(S)}], Max(S)>>]

CanFold(A, out, step, n) == \E g \in [SUBSET (1 .. n) -> A] : FoldsTo(g, out, step, n)

\* A fold of n steps over values of A exists, and its results are in A.
LEMMA FoldExists ==
    ASSUME NEW A, NEW out \in A, NEW n \in Nat, NEW step \in [A \X (1 .. n) -> A]
    PROVE  CanFold(A, out, step, n)
<1> DEFINE Can == {k \in Nat : k <= n => CanFold(A, out, step, k)}
<1>1. 0 \in Can
  <2> DEFINE g == [S \in SUBSET (1 .. 0) |-> out]
  <2>1. \A S \in SUBSET (1 .. 0) : S = {}
    OBVIOUS
  <2>2. g \in [SUBSET (1 .. 0) -> A] /\ FoldsTo(g, out, step, 0)
    BY <2>1 DEF FoldsTo
  <2> QED
    BY <2>2 DEF CanFold
<1>2. ASSUME NEW k \in Nat, k \in Can
      PROVE  k + 1 \in Can
  <2> DEFINE m == k + 1
  <2> SUFFICES ASSUME m <= n
               PROVE  CanFold(A, out, step, m)
    OBVIOUS
  <2>1. PICK g \in [SUBSET (1 .. k) -> A] : FoldsTo(g, out, step, k)
    <3>1. k <= n
      OBVIOUS
    <3>2. CanFold(A, out, step, k)
      BY <1>2, <3>1
    <3> QED
      BY <3>2 DEF CanFold
  <2> DEFINE h == [S \in SUBSET (1 .. m) |->
                      IF m \in S THEN step[<<g[S \ {m}], m>>] ELSE g[S]]
  <2>2. ASSUME NEW S \in SUBSET (1 .. m)
        PROVE  /\ h[S] \in A
               /\ h[S] = IF S = {} THEN out ELSE step[<<h[S \ {Max(S)}], Max(S)>>]
    <3>1. CASE m \in S
      <4>1. Max(S) = m
        BY <3>1, LastIsMax
      <4>2. S \ {m} \in SUBSET (1 .. k) /\ S \ {m} \in SUBSET (1 .. m) /\ m \notin S \ {m} /\ S # {}
        BY <3>1
      <4>3. h[S \ {m}] = g[S \ {m}] /\ g[S \ {m}] \in A /\ m \in 1 .. n
        BY <2>1, <4>2
      <4>4. h[S] = step[<<g[S \ {m}], m>>] /\ h[S] \in A
        BY <3>1, <4>3
      <4> QED
        BY <4>1, <4>2, <4>3, <4>4
    <3>2. CASE m \notin S
      <4>1. S \in SUBSET (1 .. k) /\ h[S] = g[S] /\ g[S] \in A
        BY <2>1, <3>2
      <4>2. CASE S = {}
        BY <2>1, <4>1, <4>2 DEF FoldsTo
      <4>3. CASE S # {}
        <5>1. Max(S) \in S
          BY <4>1, <4>3, MaxIsMember
        <5>2. h[S \ {Max(S)}] = g[S \ {Max(S)}]
          BY <3>2
        <5>3. g[S] = step[<<g[S \ {Max(S)}], Max(S)>>]
          BY <2>1, <4>1, <4>3 DEF FoldsTo
        <5> QED
          BY <4>1, <4>3, <5>2, <5>3
      <4> QED
        BY <4>2, <4>3
    <3> QED
      BY <3>1, <3>2
  <2>3. h \in [SUBSET (1 .. m) -> A] /\ FoldsTo(h, out, step, m)
    BY <2>2 DEF FoldsTo
  <2> QED
    BY <2>3 DEF CanFold
<1>3. n \in Can
  <2> HIDE DEF Can
  <2> QED
    BY <1>1, <1>2, NumbersByInduction
<1> QED
  BY <1>3

\* The first k places, without the greatest, are the first k - 1.
LEMMA FirstPlaces ==
    ASSUME NEW n \in Nat, NEW k \in 1 .. n
    PROVE  /\ 1 .. k \in SUBSET (1 .. n) /\ 1 .. k # {}
           /\ Max(1 .. k) = k /\ (1 .. k) \ {Max(1 .. k)} = 1 .. (k - 1)
<1>1. k \in 1 .. k /\ 1 .. k \in SUBSET (1 .. n) /\ 1 .. k \in SUBSET (1 .. k)
  <2>1. k \in 1 .. k
    OBVIOUS
  <2>2. 1 .. k \subseteq 1 .. n /\ 1 .. k \subseteq 1 .. k
    OBVIOUS
  <2> QED
    BY <2>1, <2>2
<1>2. Max(1 .. k) = k
  BY <1>1, LastIsMax
<1>3. (1 .. k) \ {k} = 1 .. (k - 1)
  OBVIOUS
<1> QED
  BY <1>1, <1>2, <1>3

-----------------------------------------------------------------------------
(* The merge of a page.                                                    *)

MergeItem(out, item) == IF Seen(item, out) THEN out ELSE Append(out, item)

\* g folds the first n items, as FoldLeft does: over sets of their places.
Merges(g, out, items, n) ==
    g = [S \in SUBSET (1 .. n) |->
            IF S = {} THEN out ELSE MergeItem(g[S \ {Max(S)}], items[Max(S)])]

\* Merge adds the items one after the other.
LEMMA MergeGoesOn ==
    ASSUME NEW K, NEW out \in Seq(K), NEW items \in Seq(K)
    PROVE  \E f : /\ f[0] = out /\ Merge(out, items) = f[Len(items)]
                  /\ \A k \in 1 .. Len(items) : f[k] = MergeItem(f[k - 1], items[k])
<1> DEFINE n == Len(items)
           A == Seq(K)
           step == [w \in A \X (1 .. n) |-> MergeItem(w[1], items[w[2]])]
           g == CHOOSE h : Merges(h, out, items, n)
           f == [k \in 0 .. n |-> g[1 .. k]]
<1>1. n \in Nat /\ DOMAIN items = 1 .. n /\ \A k \in 1 .. n : items[k] \in K
  OBVIOUS
<1>2. Merges(g, out, items, n)
  <2>1. \A a \in A, k \in 1 .. n : MergeItem(a, items[k]) \in A
    BY <1>1 DEF MergeItem
  <2>2. step \in [A \X (1 .. n) -> A]
    BY <2>1
  <2>3. \A a \in A, k \in 1 .. n : step[<<a, k>>] = MergeItem(a, items[k])
    OBVIOUS
  <2> HIDE DEF step, A
  <2>4. out \in A
    BY DEF A
  <2>5. PICK h \in [SUBSET (1 .. n) -> A] : FoldsTo(h, out, step, n)
    BY <1>1, <2>2, <2>4, FoldExists DEF CanFold
  <2>6. \A S \in SUBSET (1 .. n) : S # {} => h[S \ {Max(S)}] \in A /\ Max(S) \in 1 .. n
    BY <1>1, MaxIsMember
  <2>7. \A S \in SUBSET (1 .. n) :
            h[S] = IF S = {} THEN out ELSE MergeItem(h[S \ {Max(S)}], items[Max(S)])
    BY <2>3, <2>5, <2>6 DEF FoldsTo
  <2>8. Merges(h, out, items, n)
    BY <2>7 DEF Merges
  <2> QED
    BY <2>8
<1>3. Merge(out, items) = g[1 .. n]
  BY <1>1 DEF Merge, Merges, FoldLeft, MapThenFoldSet, MergeItem
<1> HIDE DEF g
<1>4. ASSUME NEW k \in 1 .. n
      PROVE  f[k] = MergeItem(f[k - 1], items[k])
  <2>1. f[k] = g[1 .. k] /\ f[k - 1] = g[1 .. (k - 1)]
    BY <1>1
  <2>2. g[1 .. k] = MergeItem(g[(1 .. k) \ {Max(1 .. k)}], items[Max(1 .. k)])
    BY <1>1, <1>2, FirstPlaces DEF Merges
  <2> HIDE DEF f
  <2>3. Max(1 .. k) = k /\ (1 .. k) \ {Max(1 .. k)} = 1 .. (k - 1)
    BY <1>1, FirstPlaces
  <2> QED
    BY <2>1, <2>2, <2>3, Zenon
<1>5. f[0] = out
  <2>1. 1 .. 0 = {} /\ {} \in SUBSET (1 .. n)
    BY <1>1
  <2>2. g[{}] = out
    BY <1>2, <2>1 DEF Merges
  <2> QED
    BY <1>1, <2>1, <2>2
<1>6. Merge(out, items) = f[n]
  BY <1>1, <1>3
<1> QED
  BY <1>4, <1>5, <1>6

Distinct(out) == \A i, j \in DOMAIN out : KeyOf(out[i]) = KeyOf(out[j]) => i = j

\* One item: its key is there afterwards, and no key twice.
LEMMA MergeItemKeeps ==
    ASSUME NEW K, NEW out \in Seq(K), NEW item \in K, Distinct(out)
    PROVE  /\ MergeItem(out, item) \in Seq(K) /\ Distinct(MergeItem(out, item))
           /\ Keys(MergeItem(out, item)) = Keys(out) \cup {KeyOf(item)}
<1>1. CASE Seen(item, out)
  BY <1>1 DEF MergeItem, Seen, Keys
<1>2. CASE ~Seen(item, out)
  <2> DEFINE new == Append(out, item)
             n == Len(out)
  <2>1. n \in Nat /\ DOMAIN out = 1 .. n /\ DOMAIN new = 1 .. (n + 1)
        /\ new[n + 1] = item /\ \A i \in 1 .. n : new[i] = out[i]
    OBVIOUS
  <2>2. Distinct(new)
    BY <1>2, <2>1 DEF Distinct, Seen
  <2>3. Keys(new) = Keys(out) \cup {KeyOf(item)}
    BY <2>1 DEF Keys
  <2> QED
    BY <1>2, <2>2, <2>3 DEF MergeItem
<1> QED
  BY <1>1, <1>2

\* A page: every key of it is there afterwards, and no key twice.
LEMMA MergeKeeps ==
    ASSUME NEW K, NEW out \in Seq(K), NEW items \in Seq(K), Distinct(out)
    PROVE  /\ Merge(out, items) \in Seq(K) /\ Distinct(Merge(out, items))
           /\ Keys(Merge(out, items)) = Keys(out) \cup Keys(items)
<1> DEFINE n == Len(items)
<1>1. PICK f : /\ f[0] = out /\ Merge(out, items) = f[n]
               /\ \A k \in 1 .. n : f[k] = MergeItem(f[k - 1], items[k])
  BY MergeGoesOn
<1>2. n \in Nat /\ DOMAIN items = 1 .. n /\ \A k \in 1 .. n : items[k] \in K
  OBVIOUS
<1> DEFINE Right(k) == /\ f[k] \in Seq(K) /\ Distinct(f[k])
                       /\ Keys(f[k]) = Keys(out) \cup {KeyOf(items[i]) : i \in 1 .. k}
           S == {k \in Nat : k <= n => Right(k)}
<1>3. 0 \in S
  BY <1>1
<1>4. ASSUME NEW k \in Nat, k \in S
      PROVE  k + 1 \in S
  <2> SUFFICES ASSUME k + 1 <= n
               PROVE  Right(k + 1)
    OBVIOUS
  <2>1. Right(k) /\ k + 1 \in 1 .. n /\ (k + 1) - 1 = k
    BY <1>2, <1>4
  <2>2. f[k + 1] = MergeItem(f[k], items[k + 1]) /\ items[k + 1] \in K
    BY <1>1, <1>2, <2>1
  <2>3. /\ f[k + 1] \in Seq(K) /\ Distinct(f[k + 1])
        /\ Keys(f[k + 1]) = Keys(f[k]) \cup {KeyOf(items[k + 1])}
    <3> DEFINE a == f[k]  x == items[k + 1]
    <3>1. a \in Seq(K) /\ Distinct(a) /\ x \in K
      BY <2>1, <2>2
    <3> HIDE DEF a, x
    <3>2. /\ MergeItem(a, x) \in Seq(K) /\ Distinct(MergeItem(a, x))
          /\ Keys(MergeItem(a, x)) = Keys(a) \cup {KeyOf(x)}
      BY <3>1, MergeItemKeeps
    <3>3. f[k + 1] = MergeItem(a, x)
      BY <2>2 DEF a, x
    <3> QED
      BY <3>2, <3>3 DEF a, x
  <2>4. {KeyOf(items[i]) : i \in 1 .. (k + 1)} =
            {KeyOf(items[i]) : i \in 1 .. k} \cup {KeyOf(items[k + 1])}
    OBVIOUS
  <2>5. Keys(f[k + 1]) = Keys(out) \cup {KeyOf(items[i]) : i \in 1 .. (k + 1)}
    <3>1. Keys(f[k + 1]) = (Keys(out) \cup {KeyOf(items[i]) : i \in 1 .. k}) \cup {KeyOf(items[k + 1])}
      BY <2>1, <2>3, Zenon
    <3> QED
      BY <2>4, <3>1
  <2> QED
    BY <2>3, <2>5
<1>5. n \in S
  <2> HIDE DEF S
  <2> QED
    BY <1>2, <1>3, <1>4, NumbersByInduction
<1>6. Keys(items) = {KeyOf(items[i]) : i \in 1 .. n}
  BY <1>2 DEF Keys
<1>7. Right(n)
  BY <1>2, <1>5
<1> QED
  BY <1>1, <1>6, <1>7, Zenon

-----------------------------------------------------------------------------
(* The pages of NodeMaven.                                                 *)

PageAnswers == {FailedPage} \cup {Page(Listing[p]) : p \in PageNumbers}

MavenTyped ==
    /\ mpc \in {"probe", "collect", "returned", "failed"}
    /\ pages \in 0 .. Len(Listing)
    /\ ppc \in [PageNumbers -> {"none", "started", "fetching", "fetched", "sent", "done"}]
    /\ page \in [PageNumbers -> PageAnswers]
    /\ \A p \in PageNumbers : page[p] \in {FailedPage, Page(Listing[p])}
    /\ outCh \in Seq(PageAnswers)
    /\ merged \in Seq(MavenItems) /\ Distinct(merged)

\* Only the pages asked for have a goroutine, and the channel is closed after them.
PagesAsked ==
    /\ mpc = "probe" => pages = 0 /\ outCh = <<>> /\ merged = <<>> /\ ~closed
    /\ \A p \in PageNumbers : ppc[p] # "none" <=> p <= pages
    /\ closed \/ mpc = "returned" => AllDone
    /\ mpc = "returned" => outCh = <<>>

HasSent(p) == ppc[p] \in {"sent", "done"}
InChannel(ch) == UNION {Keys(ch[i].items) : i \in DOMAIN ch}

\* What is merged, or will be, is what the pages that were sent list.
NothingDropped ==
    Keys(merged) \cup InChannel(outCh) =
        UNION {Keys(page[p].items) : p \in {q \in PageNumbers : HasSent(q)}}

MavenInv == MavenTyped /\ PagesAsked /\ NothingDropped

\* A page that is sent is in the channel after the others.
LEMMA SentIsInChannel ==
    ASSUME NEW A, NEW ch \in Seq(A), NEW a \in A
    PROVE  InChannel(Append(ch, a)) = InChannel(ch) \cup Keys(a.items)
<1> DEFINE n == Len(ch)
           new == Append(ch, a)
<1>1. /\ n \in Nat /\ DOMAIN ch = 1 .. n /\ DOMAIN new = 1 .. (n + 1)
      /\ new[n + 1] = a /\ \A i \in 1 .. n : new[i] = ch[i]
  OBVIOUS
<1> HIDE DEF new
<1>2. \A x : x \in InChannel(new) <=> \E i \in 1 .. (n + 1) : x \in Keys(new[i].items)
  BY <1>1 DEF InChannel
<1>3. \A x : x \in InChannel(ch) <=> \E i \in 1 .. n : x \in Keys(ch[i].items)
  BY <1>1 DEF InChannel
<1>4. \A i : i \in 1 .. (n + 1) <=> i \in 1 .. n \/ i = n + 1
  BY <1>1
<1>5. \A x : x \in InChannel(new) <=> x \in InChannel(ch) \/ x \in Keys(a.items)
  BY <1>1, <1>2, <1>3, <1>4
<1> QED
  BY <1>5 DEF new

\* A page that is received is in the channel no more.
LEMMA ReceivedIsOutOfChannel ==
    ASSUME NEW A, NEW ch \in Seq(A), ch # <<>>
    PROVE  /\ Head(ch) \in A /\ Tail(ch) \in Seq(A)
           /\ InChannel(ch) = Keys(Head(ch).items) \cup InChannel(Tail(ch))
<1> DEFINE n == Len(ch)
           rest == Tail(ch)
<1>1. /\ n \in Nat \ {0} /\ DOMAIN ch = 1 .. n /\ DOMAIN rest = 1 .. (n - 1)
      /\ Head(ch) = ch[1] /\ Head(ch) \in A /\ rest \in Seq(A)
      /\ \A i \in 1 .. (n - 1) : rest[i] = ch[i + 1]
  OBVIOUS
<1> HIDE DEF rest
<1>2. \A x : x \in InChannel(ch) <=> \E i \in 1 .. n : x \in Keys(ch[i].items)
  BY <1>1 DEF InChannel
<1>3. \A x : x \in InChannel(rest) <=> \E i \in 1 .. (n - 1) : x \in Keys(rest[i].items)
  BY <1>1 DEF InChannel
<1>4. \A i \in 1 .. n : i = 1 \/ (i - 1 \in 1 .. (n - 1) /\ rest[i - 1] = ch[i])
  BY <1>1
<1>5. \A i \in 1 .. (n - 1) : i + 1 \in 1 .. n
  BY <1>1
<1>6. 1 \in 1 .. n
  BY <1>1
<1>7. \A x : x \in InChannel(ch) <=> x \in Keys(ch[1].items) \/ x \in InChannel(rest)
  BY <1>1, <1>2, <1>3, <1>4, <1>5, <1>6
<1> QED
  BY <1>1, <1>7 DEF rest

\* A quotient by d, times d, is at most what was divided; d is at least as much
\* as what it divides to nothing; and what has a greater product is greater.
LEMMA Quotient ==
    ASSUME NEW x \in Nat, NEW d \in Nat \ {0}
    PROVE  x \div d \in Nat /\ d * (x \div d) <= x /\ (x < d => x \div d = 0)
<1>1. x \div d \in Nat
  OBVIOUS
<1>2. d * (x \div d) <= x
  OBVIOUS
<1>3. x < d => x \div d = 0
  OBVIOUS
<1> QED
  BY <1>1, <1>2, <1>3

\* More pages hold more items.
LEMMA GreaterProduct ==
    ASSUME NEW d \in Nat \ {0}, NEW x \in Int, NEW n \in Nat, x >= n + 1
    PROVE  d * x >= d * n + d
<1>1. d * x >= d * (n + 1)
  OBVIOUS
<1>2. d * (n + 1) = d * n + d
  OBVIOUS
<1>3. d * x \in Int /\ d * n \in Int /\ d * (n + 1) \in Int
  OBVIOUS
<1> QED
  BY <1>1, <1>2, <1>3

\* No more pages are asked for than are listed.
LEMMA PagesAreListed ==
    ASSUME NEW total \in 0 .. PerPage * Len(Listing)
    PROVE  PagesFor(total) \in 0 .. Len(Listing) /\ (total = 0 => PagesFor(total) = 0)
<1> DEFINE n == Len(Listing)
           all == (total + PerPage - 1) \div PerPage
<1>1. /\ PerPage \in Nat \ {0} /\ MaxPages \in Nat
      /\ Listing \in Seq(Seq(MavenItems))
  BY NodeMavenAssumption
<1>2. n \in Nat
  BY <1>1
<1>3. PerPage * n \in Nat
  BY <1>1, <1>2
<1>4. total \in Nat /\ total <= PerPage * n /\ total + PerPage - 1 \in Nat
  BY <1>1, <1>3
<1>5. /\ all \in Nat /\ PerPage * all <= total + PerPage - 1
      /\ total + PerPage - 1 < PerPage => all = 0
  BY <1>1, <1>4, Quotient
<1> HIDE DEF n, all
<1>6. all <= n
  <2> SUFFICES ASSUME all >= n + 1
               PROVE  FALSE
    BY <1>2, <1>5
  <2>1. PerPage * all >= PerPage * n + PerPage
    BY <1>1, <1>2, <1>5, GreaterProduct
  <2>2. PerPage * all \in Int
    BY <1>1, <1>5
  <2> QED
    BY <1>1, <1>3, <1>4, <1>5, <2>1, <2>2
<1>7. total = 0 => all = 0
  BY <1>1, <1>5
<1>8. PagesFor(total) = IF all > MaxPages THEN MaxPages ELSE all
  BY DEF PagesFor, all
<1>9. PagesFor(total) \in 0 .. n /\ (total = 0 => PagesFor(total) = 0)
  BY <1>1, <1>2, <1>5, <1>6, <1>7, <1>8
<1> QED
  BY <1>9 DEF n

-----------------------------------------------------------------------------
(* Nothing of the pages is dropped on the way, or returned twice.           *)

\* What has been sent is what the pages list, as long as neither changes.
LEMMA SentStays ==
    ASSUME NothingDropped, UNCHANGED <<merged, outCh>>,
           \A p \in PageNumbers : (HasSent(p)' <=> HasSent(p)) /\ (HasSent(p) => page'[p] = page[p])
    PROVE  NothingDropped'
<1> DEFINE Sent(p, x) == HasSent(p) /\ x \in Keys(page[p].items)
<1>1. \A p \in PageNumbers : HasSent(p) => Keys(page'[p].items) = Keys(page[p].items)
  OBVIOUS
<1>2. \A x : x \in Keys(merged) \cup InChannel(outCh) <=> \E p \in PageNumbers : Sent(p, x)
  BY DEF NothingDropped
<1>3. \A x : x \in Keys(merged') \cup InChannel(outCh') <=> x \in Keys(merged) \cup InChannel(outCh)
  OBVIOUS
<1>4. \A x : x \in Keys(merged') \cup InChannel(outCh') <=>
             \E p \in PageNumbers : HasSent(p)' /\ x \in Keys(page'[p].items)
  BY <1>1, <1>2, <1>3
<1> QED
  BY <1>4 DEF NothingDropped

\* Nothing was fetched before the first page.
LEMMA PagesInitially ==
    ASSUME MavenInit
    PROVE  MavenInv
<1>1. Len(Listing) \in Nat /\ PageNumbers = 1 .. Len(Listing)
  BY NodeMavenAssumption DEF PageNumbers
<1>2. MavenTyped
  BY <1>1 DEF MavenInit, MavenTyped, PageAnswers, Distinct
<1>3. PagesAsked
  BY <1>1 DEF MavenInit, PagesAsked, AllDone
<1>4. NothingDropped
  BY DEF MavenInit, NothingDropped, HasSent, Keys, InChannel
<1> QED
  BY <1>2, <1>3, <1>4 DEF MavenInv

\* The goroutine of a page runs while the pages are collected and the channel is
\* open, and leaves it so.
LEMMA GoroutineGoesOn ==
    ASSUME MavenTyped, PagesAsked, NEW p \in PageNumbers, NEW where,
           ppc[p] # "none", ppc[p] # "done", where # "none",
           ppc' = [ppc EXCEPT ![p] = where], UNCHANGED <<mpc, pages, closed>>
    PROVE  PagesAsked'
<1>1. Len(Listing) \in Nat /\ PageNumbers = 1 .. Len(Listing)
  BY NodeMavenAssumption DEF PageNumbers
<1>2. p <= pages /\ pages \in Nat /\ p \in 1 .. pages
  BY <1>1 DEF MavenTyped, PagesAsked
<1>3. ~AllDone
  BY <1>2 DEF AllDone
<1>4. ~closed /\ mpc # "returned" /\ mpc # "probe"
  BY <1>1, <1>2, <1>3 DEF PagesAsked
<1>5. \A q \in PageNumbers : ppc'[q] # "none" <=> ppc[q] # "none"
  BY DEF MavenTyped
<1> QED
  BY <1>4, <1>5 DEF PagesAsked

\* Each step of the fetch and of its page goroutines keeps the invariant.
LEMMA PagesStep ==
    ASSUME MavenInv, [MavenNext]_mavenVars
    PROVE  MavenInv'
<1>1. /\ Len(Listing) \in Nat /\ PageNumbers = 1 .. Len(Listing)
      /\ \A p \in PageNumbers : Listing[p] \in Seq(MavenItems)
  BY NodeMavenAssumption DEF PageNumbers
<1>2. MavenTyped /\ PagesAsked /\ NothingDropped
  BY DEF MavenInv
<1>3. \A p \in PageNumbers : Page(Listing[p]) \in PageAnswers
  BY DEF PageAnswers
<1>4. CASE UNCHANGED mavenVars
  <2>1. MavenTyped' /\ PagesAsked'
    BY <1>2, <1>4 DEF mavenVars, MavenTyped, PagesAsked, AllDone
  <2>2. NothingDropped'
    BY <1>2, <1>4, SentStays DEF mavenVars, HasSent
  <2> QED
    BY <2>1, <2>2 DEF MavenInv
<1>5. CASE ProbeTotal
  <2>1. /\ mpc = "probe" /\ pages = 0 /\ outCh = <<>> /\ merged = <<>> /\ ~closed
        /\ UNCHANGED <<page, outCh, closed, merged>>
    BY <1>2, <1>5 DEF ProbeTotal, PagesAsked
  <2>2. \A p \in PageNumbers : ~HasSent(p)
    BY <1>1, <1>2, <2>1 DEF PagesAsked, HasSent
  <2>3. CASE mpc' = "failed" /\ UNCHANGED <<pages, ppc>>
    <3>1. MavenTyped' /\ PagesAsked'
      BY <1>2, <2>1, <2>3 DEF MavenTyped, PagesAsked, AllDone
    <3>2. NothingDropped'
      BY <1>2, <2>1, <2>3, SentStays DEF HasSent
    <3> QED
      BY <3>1, <3>2 DEF MavenInv
  <2>4. ASSUME NEW total \in 0 .. PerPage * Len(Listing),
               pages' = PagesFor(total),
               mpc' = IF total = 0 THEN "returned" ELSE "collect",
               ppc' = [p \in PageNumbers |-> IF p <= PagesFor(total) THEN "started" ELSE "none"]
        PROVE  MavenInv'
    <3>1. PagesFor(total) \in 0 .. Len(Listing) /\ (total = 0 => PagesFor(total) = 0)
      BY PagesAreListed
    <3>2. MavenTyped'
      BY <1>2, <2>1, <2>4, <3>1 DEF MavenTyped
    <3>3. PagesAsked'
      BY <1>1, <1>2, <2>1, <2>4, <3>1 DEF PagesAsked, AllDone
    <3>4. \A p \in PageNumbers : ~HasSent(p)'
      BY <1>1, <2>4 DEF HasSent
    <3>5. NothingDropped'
      BY <1>2, <2>1, <2>2, <3>4, SentStays
    <3> QED
      BY <3>2, <3>3, <3>5 DEF MavenInv
  <2> QED
    BY <1>5, <2>3, <2>4 DEF ProbeTotal
<1>6. ASSUME NEW p \in PageNumbers, Acquire(p)
      PROVE  MavenInv'
  <2>1. ppc[p] = "started" /\ ppc' = [ppc EXCEPT ![p] = "fetching"]
        /\ UNCHANGED <<mpc, pages, page, outCh, closed, merged>>
    BY <1>6 DEF Acquire, PageGoes
  <2>2. MavenTyped'
    BY <1>2, <2>1 DEF MavenTyped
  <2>3. PagesAsked'
    BY <1>2, <2>1, GoroutineGoesOn
  <2>4. \A q \in PageNumbers : (HasSent(q)' <=> HasSent(q)) /\ page'[q] = page[q]
    BY <1>2, <2>1 DEF MavenTyped, HasSent
  <2>5. NothingDropped'
    BY <1>2, <2>1, <2>4, SentStays
  <2> QED
    BY <2>2, <2>3, <2>5 DEF MavenInv
<1>7. ASSUME NEW p \in PageNumbers, FetchPage(p)
      PROVE  MavenInv'
  <2>1. /\ ppc[p] = "fetching" /\ ppc' = [ppc EXCEPT ![p] = "fetched"]
        /\ page' = page \/ page' = [page EXCEPT ![p] = Page(Listing[p])]
        /\ UNCHANGED <<mpc, pages, outCh, closed, merged>>
    BY <1>7 DEF FetchPage, PageGoes
  <2>2. MavenTyped'
    BY <1>2, <1>3, <2>1 DEF MavenTyped
  <2>3. PagesAsked'
    BY <1>2, <2>1, GoroutineGoesOn
  <2>4. \A q \in PageNumbers : (HasSent(q)' <=> HasSent(q)) /\ (HasSent(q) => page'[q] = page[q])
    BY <1>2, <2>1 DEF MavenTyped, HasSent
  <2>5. NothingDropped'
    BY <1>2, <2>1, <2>4, SentStays
  <2> QED
    BY <2>2, <2>3, <2>5 DEF MavenInv
<1>8. ASSUME NEW p \in PageNumbers, SendPage(p)
      PROVE  MavenInv'
  <2>1. ppc[p] = "fetched" /\ ppc' = [ppc EXCEPT ![p] = "sent"]
        /\ outCh' = Append(outCh, page[p]) /\ UNCHANGED <<mpc, pages, page, closed, merged>>
    BY <1>8 DEF SendPage, PageGoes
  <2>2. page[p] \in PageAnswers /\ outCh \in Seq(PageAnswers)
    BY <1>2 DEF MavenTyped
  <2>3. MavenTyped'
    BY <1>2, <2>1, <2>2 DEF MavenTyped
  <2>5. PagesAsked'
    BY <1>2, <2>1, GoroutineGoesOn
  <2>6. InChannel(outCh') = InChannel(outCh) \cup Keys(page[p].items)
    BY <2>1, <2>2, SentIsInChannel
  <2>7. \A q \in PageNumbers : HasSent(q)' <=> HasSent(q) \/ q = p
    BY <1>2, <2>1 DEF MavenTyped, HasSent
  <2>8. NothingDropped'
    BY <1>2, <2>1, <2>6, <2>7 DEF NothingDropped
  <2> QED
    BY <2>3, <2>5, <2>8 DEF MavenInv
<1>9. ASSUME NEW p \in PageNumbers, PageDone(p)
      PROVE  MavenInv'
  <2>1. ppc[p] = "sent" /\ ppc' = [ppc EXCEPT ![p] = "done"]
        /\ UNCHANGED <<mpc, pages, page, outCh, closed, merged>>
    BY <1>9 DEF PageDone, PageGoes
  <2>2. MavenTyped'
    BY <1>2, <2>1 DEF MavenTyped
  <2>3. PagesAsked'
    BY <1>2, <2>1, GoroutineGoesOn
  <2>4. \A q \in PageNumbers : (HasSent(q)' <=> HasSent(q)) /\ page'[q] = page[q]
    BY <1>2, <2>1 DEF MavenTyped, HasSent
  <2>5. NothingDropped'
    BY <1>2, <2>1, <2>4, SentStays
  <2> QED
    BY <2>2, <2>3, <2>5 DEF MavenInv
<1>10. CASE CloseChannel
  <2>1. AllDone /\ mpc = "collect" /\ closed' = TRUE
        /\ UNCHANGED <<mpc, pages, ppc, page, outCh, merged>>
    BY <1>10 DEF CloseChannel
  <2>2. MavenTyped' /\ PagesAsked'
    BY <1>2, <2>1 DEF MavenTyped, PagesAsked, AllDone
  <2>3. NothingDropped'
    BY <1>2, <2>1, SentStays DEF HasSent
  <2> QED
    BY <2>2, <2>3 DEF MavenInv
<1>11. CASE ReceivePage
  <2>1. mpc = "collect" /\ outCh # <<>> /\ merged' = Merge(merged, Head(outCh).items)
        /\ outCh' = Tail(outCh) /\ UNCHANGED <<mpc, pages, ppc, page, closed>>
    BY <1>11 DEF ReceivePage
  <2>2. outCh \in Seq(PageAnswers) /\ merged \in Seq(MavenItems) /\ Distinct(merged)
    BY <1>2 DEF MavenTyped
  <2>3. /\ Head(outCh) \in PageAnswers /\ outCh' \in Seq(PageAnswers)
        /\ InChannel(outCh) = Keys(Head(outCh).items) \cup InChannel(outCh')
    BY <2>1, <2>2, ReceivedIsOutOfChannel
  <2>4. Head(outCh).items \in Seq(MavenItems)
    <3>1. \A a \in PageAnswers : a.items = <<>> \/ \E p \in PageNumbers : a.items = Listing[p]
      BY DEF PageAnswers, FailedPage, Page
    <3>2. <<>> \in Seq(MavenItems)
      OBVIOUS
    <3> QED
      BY <1>1, <2>3, <3>1, <3>2
  <2>5. /\ merged' \in Seq(MavenItems) /\ Distinct(merged')
        /\ Keys(merged') = Keys(merged) \cup Keys(Head(outCh).items)
    BY <2>1, <2>2, <2>4, MergeKeeps
  <2>6. MavenTyped'
    BY <1>2, <2>1, <2>3, <2>5 DEF MavenTyped, Distinct
  <2>7. PagesAsked'
    BY <1>2, <2>1 DEF PagesAsked, AllDone
  <2>8. NothingDropped'
    BY <1>2, <2>1, <2>3, <2>5 DEF NothingDropped, HasSent
  <2> QED
    BY <2>6, <2>7, <2>8 DEF MavenInv
<1>12. CASE ChannelDrained
  <2>1. mpc = "collect" /\ outCh = <<>> /\ closed /\ mpc' = "returned"
        /\ UNCHANGED <<pages, ppc, page, outCh, closed, merged>>
    BY <1>12 DEF ChannelDrained
  <2>2. MavenTyped' /\ PagesAsked'
    BY <1>2, <2>1 DEF MavenTyped, PagesAsked, AllDone
  <2>3. NothingDropped'
    BY <1>2, <2>1, SentStays DEF HasSent
  <2> QED
    BY <2>2, <2>3 DEF MavenInv
<1> QED
  BY <1>4, <1>5, <1>6, <1>7, <1>8, <1>9, <1>10, <1>11, <1>12 DEF MavenNext

\* What FetchAllNodeMaven returns is every proxy of every page that was answered,
\* once, whatever the pages list, in whatever order they come and however the API
\* spells a proxy on two of them.
THEOREM PagesAreMerged == MavenSpec => []PagesMerged
<1>1. MavenInit => MavenInv
  BY PagesInitially
<1>2. MavenInv /\ [MavenNext]_mavenVars => MavenInv'
  BY PagesStep
<1>3. MavenInv => PagesMerged
  <2> SUFFICES ASSUME MavenInv, mpc = "returned"
               PROVE  PagesMerged
    BY DEF PagesMerged
  <2>1. MavenTyped /\ PagesAsked /\ NothingDropped
    BY DEF MavenInv
  <2>2. AllDone /\ outCh = <<>>
    BY <2>1 DEF PagesAsked
  <2>3. Len(Listing) \in Nat /\ PageNumbers = 1 .. Len(Listing)
    BY NodeMavenAssumption DEF PageNumbers
  <2>4. \A p : p \in PageNumbers /\ HasSent(p) <=> p \in 1 .. pages
    BY <2>1, <2>2, <2>3 DEF MavenTyped, PagesAsked, AllDone, HasSent
  <2>5. \A p \in PageNumbers : /\ page[p].ok => page[p].items = Listing[p]
                               /\ ~page[p].ok => page[p].items = <<>>
    BY <2>1 DEF MavenTyped, FailedPage, Page
  <2>6. Keys(<<>>) = {} /\ InChannel(outCh) = {}
    BY <2>2 DEF Keys, InChannel
  <2>7. \A x : x \in Keys(merged) <=>
                 \E p \in PageNumbers : HasSent(p) /\ x \in Keys(page[p].items)
    BY <2>1, <2>6 DEF NothingDropped
  <2>8. \A x : x \in Keys(merged) <=>
                 \E p \in 1 .. pages : page[p].ok /\ x \in Keys(Listing[p])
    BY <2>4, <2>5, <2>6, <2>7
  <2>9. Keys(merged) = UNION {Keys(Listing[p]) : p \in {q \in 1 .. pages : page[q].ok}}
    BY <2>8
  <2> QED
    BY <2>1, <2>9 DEF PagesMerged, MavenTyped, Distinct
<1> QED
  BY <1>1, <1>2, <1>3, PTL DEF MavenSpec

-----------------------------------------------------------------------------
(* Choosing some elements of a sequence, and dropping equal ones.          *)

OnlyItem(t, x, S) == IF x \in S THEN Append(t, x) ELSE t
UniqueItem(t, x) == IF Contains(t, x) THEN t ELSE Append(t, x)

\* g folds the first n items as Only does.
Onlys(g, T, items, n) ==
    g = [S \in SUBSET (1 .. n) |->
            IF S = {} THEN <<>> ELSE OnlyItem(g[S \ {Max(S)}], items[Max(S)], T)]

\* Only takes the elements one after the other.
LEMMA OnlyGoesOn ==
    ASSUME NEW K, NEW items \in Seq(K), NEW T
    PROVE  \E f : /\ f[0] = <<>> /\ Only(items, T) = f[Len(items)]
                  /\ \A k \in 1 .. Len(items) : f[k] = OnlyItem(f[k - 1], items[k], T)
<1> DEFINE n == Len(items)
           A == Seq(K)
           step == [w \in A \X (1 .. n) |-> OnlyItem(w[1], items[w[2]], T)]
           g == CHOOSE h : Onlys(h, T, items, n)
           f == [k \in 0 .. n |-> g[1 .. k]]
<1>1. n \in Nat /\ DOMAIN items = 1 .. n /\ \A k \in 1 .. n : items[k] \in K
  OBVIOUS
<1>2. Onlys(g, T, items, n)
  <2>1. \A a \in A, k \in 1 .. n : OnlyItem(a, items[k], T) \in A
    BY <1>1 DEF OnlyItem
  <2>2. step \in [A \X (1 .. n) -> A]
    BY <2>1
  <2>3. \A a \in A, k \in 1 .. n : step[<<a, k>>] = OnlyItem(a, items[k], T)
    OBVIOUS
  <2>4. <<>> \in A
    OBVIOUS
  <2> HIDE DEF step, A
  <2>5. PICK h \in [SUBSET (1 .. n) -> A] : FoldsTo(h, <<>>, step, n)
    BY <1>1, <2>2, <2>4, FoldExists DEF CanFold
  <2>6. \A S \in SUBSET (1 .. n) : S # {} => h[S \ {Max(S)}] \in A /\ Max(S) \in 1 .. n
    BY <1>1, MaxIsMember
  <2>7. \A S \in SUBSET (1 .. n) :
            h[S] = IF S = {} THEN <<>> ELSE OnlyItem(h[S \ {Max(S)}], items[Max(S)], T)
    BY <2>3, <2>5, <2>6 DEF FoldsTo
  <2>8. Onlys(h, T, items, n)
    BY <2>7 DEF Onlys
  <2> QED
    BY <2>8
<1>3. Only(items, T) = g[1 .. n]
  BY <1>1 DEF Only, Onlys, FoldLeft, MapThenFoldSet, OnlyItem
<1> HIDE DEF g
<1>4. ASSUME NEW k \in 1 .. n
      PROVE  f[k] = OnlyItem(f[k - 1], items[k], T)
  <2>1. f[k] = g[1 .. k] /\ f[k - 1] = g[1 .. (k - 1)]
    BY <1>1
  <2>2. g[1 .. k] = OnlyItem(g[(1 .. k) \ {Max(1 .. k)}], items[Max(1 .. k)], T)
    BY <1>1, <1>2, FirstPlaces DEF Onlys
  <2> HIDE DEF f
  <2>3. Max(1 .. k) = k /\ (1 .. k) \ {Max(1 .. k)} = 1 .. (k - 1)
    BY <1>1, FirstPlaces
  <2> QED
    BY <2>1, <2>2, <2>3, Zenon
<1>5. f[0] = <<>>
  <2>1. 1 .. 0 = {} /\ {} \in SUBSET (1 .. n)
    BY <1>1
  <2>2. g[{}] = <<>>
    BY <1>2, <2>1 DEF Onlys
  <2> QED
    BY <1>1, <2>1, <2>2
<1>6. Only(items, T) = f[n]
  BY <1>1, <1>3
<1> QED
  BY <1>4, <1>5, <1>6

\* g folds the first n items as Unique does.
Uniques(g, items, n) ==
    g = [S \in SUBSET (1 .. n) |->
            IF S = {} THEN <<>> ELSE UniqueItem(g[S \ {Max(S)}], items[Max(S)])]

\* Unique takes the elements one after the other.
LEMMA UniqueGoesOn ==
    ASSUME NEW K, NEW items \in Seq(K)
    PROVE  \E f : /\ f[0] = <<>> /\ Unique(items) = f[Len(items)]
                  /\ \A k \in 1 .. Len(items) : f[k] = UniqueItem(f[k - 1], items[k])
<1> DEFINE n == Len(items)
           A == Seq(K)
           step == [w \in A \X (1 .. n) |-> UniqueItem(w[1], items[w[2]])]
           g == CHOOSE h : Uniques(h, items, n)
           f == [k \in 0 .. n |-> g[1 .. k]]
<1>1. n \in Nat /\ DOMAIN items = 1 .. n /\ \A k \in 1 .. n : items[k] \in K
  OBVIOUS
<1>2. Uniques(g, items, n)
  <2>1. \A a \in A, k \in 1 .. n : UniqueItem(a, items[k]) \in A
    BY <1>1 DEF UniqueItem
  <2>2. step \in [A \X (1 .. n) -> A]
    BY <2>1
  <2>3. \A a \in A, k \in 1 .. n : step[<<a, k>>] = UniqueItem(a, items[k])
    OBVIOUS
  <2>4. <<>> \in A
    OBVIOUS
  <2> HIDE DEF step, A
  <2>5. PICK h \in [SUBSET (1 .. n) -> A] : FoldsTo(h, <<>>, step, n)
    BY <1>1, <2>2, <2>4, FoldExists DEF CanFold
  <2>6. \A S \in SUBSET (1 .. n) : S # {} => h[S \ {Max(S)}] \in A /\ Max(S) \in 1 .. n
    BY <1>1, MaxIsMember
  <2>7. \A S \in SUBSET (1 .. n) :
            h[S] = IF S = {} THEN <<>> ELSE UniqueItem(h[S \ {Max(S)}], items[Max(S)])
    BY <2>3, <2>5, <2>6 DEF FoldsTo
  <2>8. Uniques(h, items, n)
    BY <2>7 DEF Uniques
  <2> QED
    BY <2>8
<1>3. Unique(items) = g[1 .. n]
  BY <1>1 DEF Unique, Uniques, FoldLeft, MapThenFoldSet, UniqueItem
<1> HIDE DEF g
<1>4. ASSUME NEW k \in 1 .. n
      PROVE  f[k] = UniqueItem(f[k - 1], items[k])
  <2>1. f[k] = g[1 .. k] /\ f[k - 1] = g[1 .. (k - 1)]
    BY <1>1
  <2>2. g[1 .. k] = UniqueItem(g[(1 .. k) \ {Max(1 .. k)}], items[Max(1 .. k)])
    BY <1>1, <1>2, FirstPlaces DEF Uniques
  <2> HIDE DEF f
  <2>3. Max(1 .. k) = k /\ (1 .. k) \ {Max(1 .. k)} = 1 .. (k - 1)
    BY <1>1, FirstPlaces
  <2> QED
    BY <2>1, <2>2, <2>3, Zenon
<1>5. f[0] = <<>>
  <2>1. 1 .. 0 = {} /\ {} \in SUBSET (1 .. n)
    BY <1>1
  <2>2. g[{}] = <<>>
    BY <1>2, <2>1 DEF Uniques
  <2> QED
    BY <1>1, <2>1, <2>2
<1>6. Unique(items) = f[n]
  BY <1>1, <1>3
<1> QED
  BY <1>4, <1>5, <1>6

\* An element that is appended is in the range.
LEMMA RangeOfAppend ==
    ASSUME NEW K, NEW s \in Seq(K), NEW x
    PROVE  Range(Append(s, x)) = Range(s) \cup {x}
<1> DEFINE n == Len(s)
           new == Append(s, x)
<1>1. /\ n \in Nat /\ DOMAIN s = 1 .. n /\ DOMAIN new = 1 .. (n + 1)
      /\ new[n + 1] = x /\ \A i \in 1 .. n : new[i] = s[i]
  OBVIOUS
<1> HIDE DEF new
<1>2. \A y : y \in Range(new) <=> \E i \in 1 .. (n + 1) : new[i] = y
  BY <1>1 DEF Range
<1>3. \A y : y \in Range(s) <=> \E i \in 1 .. n : s[i] = y
  BY <1>1 DEF Range
<1>4. \A i : i \in 1 .. (n + 1) <=> i \in 1 .. n \/ i = n + 1
  BY <1>1
<1>5. \A y : y \in Range(new) <=> y \in Range(s) \/ y = x
  BY <1>1, <1>2, <1>3, <1>4
<1> QED
  BY <1>5 DEF new

\* Only leaves the elements that are in T.
LEMMA OnlyKeeps ==
    ASSUME NEW K, NEW items \in Seq(K), NEW T
    PROVE  Only(items, T) \in Seq(K) /\ Range(Only(items, T)) = Range(items) \cap T
<1> DEFINE n == Len(items)
           First(k) == {items[i] : i \in 1 .. k}
<1>1. PICK f : /\ f[0] = <<>> /\ Only(items, T) = f[n]
               /\ \A k \in 1 .. n : f[k] = OnlyItem(f[k - 1], items[k], T)
  BY OnlyGoesOn
<1>2. n \in Nat /\ DOMAIN items = 1 .. n /\ \A k \in 1 .. n : items[k] \in K
  OBVIOUS
<1> DEFINE Right == {k \in Nat : k <= n => f[k] \in Seq(K) /\ Range(f[k]) = First(k) \cap T}
<1>3. 0 \in Right
  <2>1. Range(<<>>) = {} /\ First(0) = {} /\ <<>> \in Seq(K)
    BY DEF Range
  <2> QED
    BY <1>1, <2>1
<1>4. ASSUME NEW k \in Nat, k \in Right
      PROVE  k + 1 \in Right
  <2> SUFFICES ASSUME k + 1 <= n
               PROVE  f[k + 1] \in Seq(K) /\ Range(f[k + 1]) = First(k + 1) \cap T
    OBVIOUS
  <2> DEFINE x == items[k + 1]
  <2>1. f[k] \in Seq(K) /\ Range(f[k]) = First(k) \cap T /\ x \in K
    BY <1>2, <1>4
  <2>2. f[k + 1] = OnlyItem(f[k], x, T)
    BY <1>1, <1>2
  <2>3. First(k + 1) = First(k) \cup {x}
    OBVIOUS
  <2> HIDE DEF First, x
  <2>4. Range(Append(f[k], x)) = Range(f[k]) \cup {x} /\ Append(f[k], x) \in Seq(K)
    BY <2>1, RangeOfAppend
  <2> QED
    BY <2>1, <2>2, <2>3, <2>4 DEF OnlyItem
<1>5. n \in Right
  <2> HIDE DEF Right
  <2> QED
    BY <1>2, <1>3, <1>4, NumbersByInduction
<1>6. Range(items) = First(n)
  BY <1>2 DEF Range
<1> QED
  BY <1>1, <1>2, <1>5, <1>6

\* Unique leaves the elements there were.
LEMMA UniqueKeeps ==
    ASSUME NEW K, NEW items \in Seq(K)
    PROVE  Unique(items) \in Seq(K) /\ Range(Unique(items)) = Range(items)
<1> DEFINE n == Len(items)
           First(k) == {items[i] : i \in 1 .. k}
<1>1. PICK f : /\ f[0] = <<>> /\ Unique(items) = f[n]
               /\ \A k \in 1 .. n : f[k] = UniqueItem(f[k - 1], items[k])
  BY UniqueGoesOn
<1>2. n \in Nat /\ DOMAIN items = 1 .. n /\ \A k \in 1 .. n : items[k] \in K
  OBVIOUS
<1> DEFINE Right == {k \in Nat : k <= n => f[k] \in Seq(K) /\ Range(f[k]) = First(k)}
<1>3. 0 \in Right
  <2>1. Range(<<>>) = {} /\ First(0) = {} /\ <<>> \in Seq(K)
    BY DEF Range
  <2> QED
    BY <1>1, <2>1
<1>4. ASSUME NEW k \in Nat, k \in Right
      PROVE  k + 1 \in Right
  <2> SUFFICES ASSUME k + 1 <= n
               PROVE  f[k + 1] \in Seq(K) /\ Range(f[k + 1]) = First(k + 1)
    OBVIOUS
  <2> DEFINE x == items[k + 1]
  <2>1. f[k] \in Seq(K) /\ Range(f[k]) = First(k) /\ x \in K
    BY <1>2, <1>4
  <2>2. f[k + 1] = UniqueItem(f[k], x)
    BY <1>1, <1>2
  <2>3. First(k + 1) = First(k) \cup {x}
    OBVIOUS
  <2> HIDE DEF First, x
  <2>4. Range(Append(f[k], x)) = Range(f[k]) \cup {x} /\ Append(f[k], x) \in Seq(K)
    BY <2>1, RangeOfAppend
  <2>5. Contains(f[k], x) => x \in Range(f[k])
    <3>1. DOMAIN f[k] = 1 .. Len(f[k])
      BY <2>1
    <3> QED
      BY <3>1 DEF Contains, Range
  <2> QED
    BY <2>1, <2>2, <2>3, <2>4, <2>5 DEF UniqueItem
<1>5. n \in Right
  <2> HIDE DEF Right
  <2> QED
    BY <1>2, <1>3, <1>4, NumbersByInduction
<1>6. Range(items) = First(n)
  BY <1>2 DEF Range
<1> QED
  BY <1>1, <1>2, <1>5, <1>6

-----------------------------------------------------------------------------
(* The rows of the catalogue.                                              *)

\* What the reader of links makes of the link of n is n.
ReadsBack(n) ==
    n.link.at # "" /\ Settled(n) =>
        /\ ParseURI(n.uri) \notin {Failed, Panics}
        /\ ParseURI(n.uri).link = n.link
        /\ n.maven \/ ParseURI(n.uri).fp = n.fp

ShareProtocols == {"ss", "vmess", "vless", "trojan"}

\* The credential of a node is one that was read.
WasRead(kind, proto, cred) ==
    /\ kind = "proxy" \/ proto \in {"vless", "trojan"} => cred # Unreadable
    /\ proto = "ss" => cred # ""
CredentialRead(n) == WasRead(n.kind, n.link.proto, n.link.cred)

\* Every node that a reader makes, and every row.
Made(n) ==
    /\ n = [kind |-> n.kind, fp |-> n.fp, link |-> n.link, uri |-> n.uri, name |-> n.name,
            country |-> n.country, maven |-> n.maven, status |-> n.status, purity |-> n.purity]
    /\ \/ n.kind = "proxy" /\ n.link.proto \in ProxyProtocols \cup {""}
       \/ n.kind = "v2ray" /\ n.link.proto \in ShareProtocols
    /\ WellFormed(n.link) /\ n.link.name = <<>>
    /\ WellFormed(n.uri) /\ IsSeq(n.name)
    /\ n.maven \in BOOLEAN
    /\ IF n.maven THEN /\ n.kind = "proxy" /\ n.link.cred = ""
                       /\ n.fp = <<"proxy", n.link.proto, n.link.at>>
       ELSE n.fp = Fingerprint(n.kind, n.link)
    /\ CredentialRead(n) /\ ReadsBack(n)
    /\ n.status = "valid" => n.link.at # ""

MadeBatch(batch) == IsSeq(batch) /\ \A n \in Range(batch) : n = Panics \/ Made(n)

\* The fingerprint of a node says which link it has.
LEMMA FingerprintSays ==
    ASSUME NEW kind, NEW l
    PROVE  LET fp == Fingerprint(kind, l)
               long == l.proto \in {"vmess", "vless", "trojan"}
           IN  /\ fp[1] = kind /\ fp[2] = l.proto /\ fp[3] = l.at /\ fp[4] = l.cred
               /\ \A proto, at : fp # <<"proxy", proto, at>>
               /\ long => /\ fp[5] = l.transport /\ fp[6] = l.security
                          /\ fp[7] = l.path /\ fp[8] = l.sni
               /\ l.proto = "vmess" => fp[9] = l.aid
<1>1. CASE l.proto = "vmess"
  <2>1. Fingerprint(kind, l) = <<kind, l.proto, l.at, l.cred, l.transport, l.security, l.path, l.sni, l.aid>>
    BY <1>1 DEF Fingerprint
  <2> QED
    BY <1>1, <2>1
<1>2. CASE l.proto \in {"vless", "trojan"}
  <2>1. Fingerprint(kind, l) = <<kind, l.proto, l.at, l.cred, l.transport, l.security, l.path, l.sni>>
    BY <1>2 DEF Fingerprint
  <2> QED
    BY <1>2, <2>1
<1>3. CASE l.proto \notin {"vmess", "vless", "trojan"}
  <2>1. Fingerprint(kind, l) = <<kind, l.proto, l.at, l.cred>>
    BY <1>3 DEF Fingerprint
  <2> QED
    BY <1>3, <2>1
<1> QED
  BY <1>1, <1>2, <1>3

\* Equal triples have equal parts.
LEMMA EqualTriples ==
    ASSUME NEW x, NEW y, NEW u, NEW v, <<"proxy", x, y>> = <<"proxy", u, v>>
    PROVE  x = u /\ y = v
  OBVIOUS

\* Two nodes with one fingerprint are one proxy.
LEMMA OneFingerprintOneProxy ==
    ASSUME NEW m, NEW n, Made(m), Made(n), m.fp = n.fp
    PROVE  m.kind = n.kind /\ m.link = n.link /\ m.maven = n.maven
<1> DEFINE a == m.link
           b == n.link
<1>1. WellFormed(a) /\ WellFormed(b) /\ a.name = <<>> /\ b.name = <<>>
  BY DEF Made
<1>2. CASE m.maven /\ n.maven
  <2>1. /\ m.kind = "proxy" /\ a.cred = "" /\ m.fp = <<"proxy", a.proto, a.at>>
        /\ n.kind = "proxy" /\ b.cred = "" /\ n.fp = <<"proxy", b.proto, b.at>>
    BY <1>2 DEF Made
  <2>2. a.proto = b.proto /\ a.at = b.at
    <3> HIDE DEF a, b
    <3>1. <<"proxy", a.proto, a.at>> = <<"proxy", b.proto, b.at>>
      BY <2>1, Zenon
    <3> QED
      BY <3>1, EqualTriples
  <2>3. a.proto \in ProxyProtocols \cup {""}
    BY <2>1 DEF Made
  <2>4. a.proto \notin {"vmess", "vless", "trojan"}
    BY <2>3 DEF ProxyProtocols
  <2> HIDE DEF a, b
  <2>5. a = b
    BY <1>1, <2>1, <2>2, <2>4 DEF WellFormed
  <2> QED
    BY <1>2, <2>1, <2>5 DEF a, b
<1>3. CASE m.maven /\ ~n.maven
  <2>1. m.fp = <<"proxy", a.proto, a.at>> /\ n.fp = Fingerprint(n.kind, b)
    BY <1>3 DEF Made
  <2>2. Fingerprint(n.kind, b) # <<"proxy", a.proto, a.at>>
    BY FingerprintSays
  <2> HIDE DEF a, b
  <2> QED
    BY <2>1, <2>2, Zenon
<1>4. CASE ~m.maven /\ n.maven
  <2>1. n.fp = <<"proxy", b.proto, b.at>> /\ m.fp = Fingerprint(m.kind, a)
    BY <1>4 DEF Made
  <2>2. Fingerprint(m.kind, a) # <<"proxy", b.proto, b.at>>
    BY FingerprintSays
  <2> HIDE DEF a, b
  <2> QED
    BY <2>1, <2>2, Zenon
<1>5. CASE ~m.maven /\ ~n.maven
  <2>1. Fingerprint(m.kind, a) = Fingerprint(n.kind, b)
    BY <1>5 DEF Made
  <2> HIDE DEF a, b
  <2>2. m.kind = n.kind /\ a.proto = b.proto /\ a.at = b.at /\ a.cred = b.cred
    BY <2>1, FingerprintSays
  <2>3. a.proto \in {"vmess", "vless", "trojan"} =>
            a.transport = b.transport /\ a.security = b.security /\ a.path = b.path /\ a.sni = b.sni
    BY <2>1, <2>2, FingerprintSays
  <2>4. a.aid = b.aid
    <3>1. CASE a.proto = "vmess"
      <4>1. Fingerprint(m.kind, a)[9] = a.aid
        BY <3>1, FingerprintSays
      <4>0. b.proto = "vmess"
        BY <2>2, <3>1
      <4>2. Fingerprint(n.kind, b)[9] = b.aid
        BY <4>0, FingerprintSays
      <4> QED
        BY <2>1, <4>1, <4>2
    <3>2. CASE a.proto # "vmess"
      BY <1>1, <2>2, <3>2 DEF WellFormed
    <3> QED
      BY <3>1, <3>2
  <2>5. a = b
    BY <1>1, <2>2, <2>3, <2>4 DEF WellFormed
  <2>6. m.maven = n.maven
    BY <1>5 DEF Made
  <2> QED
    BY <2>2, <2>5, <2>6 DEF a, b
<1>6. m.maven \in BOOLEAN /\ n.maven \in BOOLEAN
  BY DEF Made
<1> QED
  BY <1>2, <1>3, <1>4, <1>5, <1>6

\* The empty name is a sequence.
LEMMA EmptyIsSeq == IsSeq(<<>>)
  BY DEF IsSeq

\* A link without name has none to drop.
LEMMA NameDropped ==
    ASSUME NEW l, WellFormed(l), l.name = <<>>
    PROVE  [l EXCEPT !.name = <<>>] = l
  BY DEF WellFormed

\* The parts of a link of a proxy.
LEMMA ProxyLink ==
    ASSUME NEW p, NEW at, NEW c
    PROVE  /\ WellFormed(Link(p, at, c))
           /\ Link(p, at, c).proto = p /\ Link(p, at, c).at = at /\ Link(p, at, c).cred = c
           /\ Link(p, at, c).name = <<>>
           /\ [Link(p, at, c) EXCEPT !.name = <<>>] = Link(p, at, c)
<1>1. /\ Link(p, at, c).proto = p /\ Link(p, at, c).at = at /\ Link(p, at, c).cred = c
      /\ Link(p, at, c).name = <<>> /\ Link(p, at, c).aid = 0
      /\ Link(p, at, c).transport = "" /\ Link(p, at, c).security = ""
      /\ Link(p, at, c).path = "" /\ Link(p, at, c).sni = ""
  BY DEF Link
<1>2. WellFormed(Link(p, at, c))
  BY <1>1, EmptyIsSeq DEF WellFormed, Link
<1>3. [Link(p, at, c) EXCEPT !.name = <<>>] = Link(p, at, c)
  BY <1>1, <1>2, NameDropped
<1> QED
  BY <1>1, <1>2, <1>3

\* A node is not an error.
LEMMA NodeIsNoError ==
    ASSUME NEW n, n.kind \in {"proxy", "v2ray"}
    PROVE  n # Failed /\ n # Panics
<1>1. Failed.kind = "error" /\ Panics.kind = "panic"
  BY DEF Failed, Panics
<1> QED
  BY <1>1

\* What the reader of links makes of a proxy.
LEMMA ProxyIsRead ==
    ASSUME NEW uri, CanNormalize(uri), CanNormalize(Normalized(uri)),
           NEW l, l = Link(uri.proto, uri.at, Unescape[Unescape[uri.cred]])
    PROVE  /\ ParseURI(uri) = Node("proxy", l, Normalized(uri), <<>>)
           /\ ParseURI(uri) \notin {Failed, Panics}
           /\ ParseURI(uri).link = l /\ ParseURI(uri).fp = Fingerprint("proxy", l)
<1>1. Normalized(Normalized(uri)) = l
  BY ProxyLink DEF Normalized
<1>2. ParseURI(uri) = Node("proxy", l, Normalized(uri), <<>>)
  BY <1>1 DEF ParseURI, ParseProxyURI, CanNormalize
<1>3. [l EXCEPT !.name = <<>>] = l
  BY ProxyLink
<1> DEFINE n == ParseURI(uri)
<1>4. n = Node("proxy", l, Normalized(uri), <<>>)
  BY <1>2
<1> HIDE DEF n
<1>5. n.fp = Fingerprint("proxy", l) /\ n.link = [l EXCEPT !.name = <<>>] /\ n.kind = "proxy"
  BY <1>4 DEF Node
<1>6. n.link = l
  BY <1>3, <1>5, Zenon
<1>7. n # Failed /\ n # Panics
  BY <1>5, NodeIsNoError
<1> QED
  BY <1>2, <1>5, <1>6, <1>7 DEF n

\* A node of a proxy is as it should be if its link is read back.
LEMMA ProxyMade ==
    ASSUME NEW l, WellFormed(l), l.name = <<>>, l.proto \in ProxyProtocols \cup {""},
           l.cred # Unreadable, NEW uri, WellFormed(uri),
           NEW n, n = Node("proxy", l, uri, <<>>), ReadsBack(n)
    PROVE  Made(n)
<1>1. [l EXCEPT !.name = <<>>] = l
  BY NameDropped
<1>2. n = [kind |-> n.kind, fp |-> n.fp, link |-> n.link, uri |-> n.uri, name |-> n.name,
           country |-> n.country, maven |-> n.maven, status |-> n.status, purity |-> n.purity]
  BY DEF Node
<1>3. /\ n.kind = "proxy" /\ n.fp = Fingerprint("proxy", l) /\ n.uri = uri /\ n.name = <<>>
      /\ n.link = [l EXCEPT !.name = <<>>] /\ n.maven = FALSE /\ n.status = "unknown"
  BY DEF Node
<1>4. IsSeq(n.name) /\ n.link = l
  BY <1>1, <1>3, EmptyIsSeq, Zenon
<1>5. CredentialRead(n)
  <2>1. l.proto # "ss"
    BY DEF ProxyProtocols
  <2> QED
    BY <1>4, <2>1 DEF CredentialRead, WasRead
<1> QED
  BY <1>2, <1>3, <1>4, <1>5 DEF Made

\* What is read and normalised is read back, when no escape is left in it.
LEMMA NormalizedReadsBack ==
    ASSUME NEW x, CanNormalize(x), NEW n, n = Node("proxy", Normalized(x), x, <<>>)
    PROVE  ReadsBack(n)
<1> DEFINE l == Normalized(x)
<1>1. l = Link(x.proto, x.at, Unescape[x.cred]) /\ l.proto = x.proto /\ l.at = x.at
      /\ l.cred = Unescape[x.cred] /\ [l EXCEPT !.name = <<>>] = l
  BY ProxyLink DEF Normalized
<1>2. n.kind = "proxy" /\ n.uri = x /\ n.fp = Fingerprint("proxy", l)
  BY DEF Node
<1>3. n.link = [l EXCEPT !.name = <<>>]
  BY DEF Node
<1> HIDE DEF l
<1>4. n.link = l
  BY <1>1, <1>3, Zenon
<1> SUFFICES ASSUME Settled(n)
             PROVE  /\ ParseURI(x) \notin {Failed, Panics}
                    /\ ParseURI(x).link = l /\ ParseURI(x).fp = n.fp
  BY <1>2, <1>4 DEF ReadsBack
<1>5. Unescape[l.cred] = l.cred
  BY <1>2, <1>4 DEF Settled
<1>6. CanNormalize(l)
  BY <1>1, <1>5 DEF CanNormalize
<1>7. CanNormalize(Normalized(x))
  BY <1>6 DEF l
<1>8. Unescape[Unescape[x.cred]] = Unescape[x.cred]
  BY <1>1, <1>5
<1>9. l = Link(x.proto, x.at, Unescape[Unescape[x.cred]])
  BY <1>1, <1>8
<1>10. /\ ParseURI(x) \notin {Failed, Panics}
       /\ ParseURI(x).link = l /\ ParseURI(x).fp = Fingerprint("proxy", l)
  BY <1>7, <1>9, ProxyIsRead
<1> QED
  BY <1>2, <1>10, Zenon

\* A proxy that the reader of links takes.
LEMMA ParsedProxyMade ==
    ASSUME NEW l, ParseProxyURI(l) \notin {Failed, Panics}
    PROVE  Made(ParseProxyURI(l))
<1> DEFINE x == Normalized(l)
           n == ParseProxyURI(l)
<1>1. CanNormalize(l) /\ CanNormalize(x) /\ n = Node("proxy", Normalized(x), x, <<>>)
  BY DEF ParseProxyURI
<1>2. WellFormed(x) /\ x.proto = l.proto
  BY ProxyLink DEF Normalized
<1> HIDE DEF x, n
<1>3. ReadsBack(n)
  BY <1>1, NormalizedReadsBack
<1>4. /\ WellFormed(Normalized(x)) /\ Normalized(x).name = <<>> /\ Normalized(x).proto = x.proto
      /\ Normalized(x).cred # Unreadable
  BY <1>1, ProxyLink DEF Normalized, CanNormalize
<1>5. x.proto \in ProxyProtocols
  BY <1>1 DEF CanNormalize
<1> QED
  BY <1>1, <1>2, <1>3, <1>4, <1>5, ProxyMade DEF n

\* A proxy found in a text.
LEMMA CandidateMade ==
    ASSUME NEW x, WellFormed(x)
    PROVE  Made(Candidate(x))
<1> DEFINE n == Candidate(x)
<1>1. CASE CanNormalize(x)
  <2>1. n = Node("proxy", Normalized(x), x, <<>>)
    BY <1>1 DEF Candidate
  <2> HIDE DEF n
  <2>2. ReadsBack(n)
    BY <1>1, <2>1, NormalizedReadsBack
  <2>3. /\ WellFormed(Normalized(x)) /\ Normalized(x).name = <<>> /\ Normalized(x).proto = x.proto
        /\ Normalized(x).cred # Unreadable
    BY <1>1, ProxyLink DEF Normalized, CanNormalize
  <2>4. x.proto \in ProxyProtocols
    BY <1>1 DEF CanNormalize
  <2> QED
    BY <2>1, <2>2, <2>3, <2>4, ProxyMade DEF n
<1>2. CASE ~CanNormalize(x)
  <2> DEFINE l == Link("", "", "")
  <2>1. n = Node("proxy", l, x, <<>>)
    BY <1>2 DEF Candidate
  <2>2. WellFormed(l) /\ l.name = <<>> /\ l.proto = "" /\ l.at = "" /\ l.cred # Unreadable
    BY EmptyIsSeq DEF Link, WellFormed, Unreadable
  <2> HIDE DEF n, l
  <2>3. n.link = [l EXCEPT !.name = <<>>]
    BY <2>1 DEF Node
  <2>4. n.link.at = ""
    BY <2>2, <2>3, NameDropped
  <2>5. ReadsBack(n)
    BY <2>4 DEF ReadsBack
  <2> QED
    BY <2>1, <2>2, <2>5, ProxyMade DEF n
<1> QED
  BY <1>1, <1>2

\* A proxy of NodeMaven.
LEMMA MavenMade ==
    ASSUME NEW item
    PROVE  Made(MavenNode(item))
<1> DEFINE p == IF item.proto \in ProxyProtocols \ {"socks5h"} THEN item.proto ELSE "http"
           l == Link(p, item.at, "")
           n == MavenNode(item)
<1>1. p \in ProxyProtocols
  BY DEF ProxyProtocols
<1> HIDE DEF p
<1>2. /\ WellFormed(l) /\ l.name = <<>> /\ l.proto = p /\ l.at = item.at /\ l.cred = ""
      /\ l = Link(p, item.at, "")
  BY EmptyIsSeq, <1>1 DEF Link, WellFormed
<1>3. n = [Node("proxy", l, l, <<>>) EXCEPT !.fp = <<"proxy", l.proto, l.at>>,
                                            !.maven = TRUE, !.country = item.country]
  BY DEF MavenNode, p
<1> HIDE DEF l, n
<1>4. [l EXCEPT !.name = <<>>] = l
  BY <1>2, NameDropped
<1>5. /\ n = [kind |-> n.kind, fp |-> n.fp, link |-> n.link, uri |-> n.uri, name |-> n.name,
              country |-> n.country, maven |-> n.maven, status |-> n.status, purity |-> n.purity]
      /\ n.kind = "proxy" /\ n.fp = <<"proxy", l.proto, l.at>> /\ n.uri = l /\ n.name = <<>>
      /\ n.link = [l EXCEPT !.name = <<>>] /\ n.maven = TRUE /\ n.status = "unknown"
  BY <1>3 DEF Node
<1>6. n.link = l /\ IsSeq(n.name)
  BY <1>4, <1>5, EmptyIsSeq, Zenon
<1>7. ReadsBack(n)
  <2> SUFFICES ASSUME Settled(n)
               PROVE  ParseURI(l) \notin {Failed, Panics} /\ ParseURI(l).link = l
    BY <1>5, <1>6 DEF ReadsBack
  <2>1. Unescape[""] = ""
    BY <1>2, <1>5, <1>6 DEF Settled
  <2>2. CanNormalize(l)
    BY <1>1, <1>2, <2>1 DEF CanNormalize, Unreadable
  <2>3. Normalized(l) = l
    BY <1>2, <2>1 DEF Normalized
  <2>4. l = Link(l.proto, l.at, Unescape[Unescape[l.cred]])
    BY <1>2, <2>1
  <2> QED
    BY <2>2, <2>3, <2>4, ProxyIsRead, Zenon
<1>8. CredentialRead(n)
  <2>1. n.link.cred # Unreadable /\ n.link.proto # "ss"
    BY <1>1, <1>2, <1>6 DEF Unreadable, ProxyProtocols
  <2> QED
    BY <2>1 DEF CredentialRead, WasRead
<1> QED
  BY <1>1, <1>2, <1>5, <1>6, <1>7, <1>8 DEF Made, n

\* The name is no part of the fingerprint.
LEMMA NameIsNoPart ==
    ASSUME NEW kind, NEW l, WellFormed(l), NEW m, m = [l EXCEPT !.name = <<>>]
    PROVE  /\ WellFormed(m) /\ m.name = <<>> /\ m.proto = l.proto /\ m.cred = l.cred
           /\ Fingerprint(kind, m) = Fingerprint(kind, l)
<1>1. /\ m.proto = l.proto /\ m.at = l.at /\ m.cred = l.cred /\ m.transport = l.transport
      /\ m.security = l.security /\ m.path = l.path /\ m.sni = l.sni /\ m.aid = l.aid
      /\ m.name = <<>>
      /\ m = [proto |-> m.proto, at |-> m.at, cred |-> m.cred, transport |-> m.transport,
              security |-> m.security, path |-> m.path, sni |-> m.sni, aid |-> m.aid,
              name |-> m.name]
  BY DEF WellFormed
<1>2. /\ l.proto # "vmess" => l.aid = 0
      /\ l.proto \notin {"vmess", "vless", "trojan"} =>
             l.transport = "" /\ l.security = "" /\ l.path = "" /\ l.sni = ""
  BY DEF WellFormed
<1>3. IsSeq(m.name)
  BY <1>1, EmptyIsSeq, Zenon
<1>4. WellFormed(m)
  BY <1>1, <1>2, <1>3 DEF WellFormed
<1>5. Fingerprint(kind, m) = Fingerprint(kind, l)
  BY <1>1 DEF Fingerprint
<1> QED
  BY <1>1, <1>4, <1>5

\* Another credential leaves a link as well formed as it was.
LEMMA CredentialReplaced ==
    ASSUME NEW l, WellFormed(l), NEW c, NEW m, m = [l EXCEPT !.cred = c]
    PROVE  WellFormed(m) /\ m.proto = l.proto
<1>1. /\ m.proto = l.proto /\ m.transport = l.transport /\ m.security = l.security
      /\ m.path = l.path /\ m.sni = l.sni /\ m.aid = l.aid /\ m.name = l.name
      /\ m = [proto |-> m.proto, at |-> m.at, cred |-> m.cred, transport |-> m.transport,
              security |-> m.security, path |-> m.path, sni |-> m.sni, aid |-> m.aid,
              name |-> m.name]
  BY DEF WellFormed
<1>2. /\ l.proto # "vmess" => l.aid = 0
      /\ l.proto \notin {"vmess", "vless", "trojan"} =>
             l.transport = "" /\ l.security = "" /\ l.path = "" /\ l.sni = ""
      /\ IsSeq(l.name)
  BY DEF WellFormed
<1>3. IsSeq(m.name)
  BY <1>1, <1>2, Zenon
<1> QED
  BY <1>1, <1>2, <1>3 DEF WellFormed

\* A share link that the reader of links takes.
LEMMA ShareMade ==
    ASSUME NEW l, WellFormed(l), ParseShareURI(l) # Failed
    PROVE  Made(ParseShareURI(l)) /\ l.proto \in ShareProtocols
<1> DEFINE n == ParseShareURI(l)
<1>1. l.proto \in ShareProtocols
  BY DEF ParseShareURI, ShareProtocols
<1>2. \E m : /\ WellFormed(m) /\ m.proto = l.proto /\ WasRead("v2ray", l.proto, m.cred)
             /\ n = Node("v2ray", m, l, l.name)
  <2>1. CASE l.proto \in {"ss", "vmess"}
    <3>1. n = Node("v2ray", l, l, l.name) /\ (l.proto = "ss" => l.cred # "")
      BY <2>1 DEF ParseShareURI
    <3> HIDE DEF n
    <3>2. WasRead("v2ray", l.proto, l.cred)
      BY <2>1, <3>1 DEF WasRead
    <3> QED
      BY <3>1, <3>2
  <2>2. CASE l.proto \in {"vless", "trojan"}
    <3> DEFINE m == [l EXCEPT !.cred = Unescape[l.cred]]
    <3>1. n = Node("v2ray", m, l, l.name)
      BY <2>2 DEF ParseShareURI
    <3>2. m.proto = l.proto /\ WellFormed(m)
      BY CredentialReplaced
    <3>3. Unescape[l.cred] # Unreadable
      BY <2>2 DEF ParseShareURI
    <3>4. m.cred = Unescape[l.cred]
      BY DEF WellFormed
    <3> HIDE DEF m, n
    <3>5. WasRead("v2ray", l.proto, m.cred)
      BY <2>2, <3>3, <3>4 DEF WasRead
    <3> QED
      BY <3>1, <3>2, <3>5
  <2> QED
    BY <1>1, <2>1, <2>2 DEF ShareProtocols
<1>3. ParseURI(l) = n
  BY <1>1 DEF ParseURI, ShareProtocols, ProxyProtocols
<1> HIDE DEF n
<1>4. PICK m : /\ WellFormed(m) /\ m.proto = l.proto /\ WasRead("v2ray", l.proto, m.cred)
               /\ n = Node("v2ray", m, l, l.name)
  BY <1>2
<1>5. /\ n = [kind |-> n.kind, fp |-> n.fp, link |-> n.link, uri |-> n.uri, name |-> n.name,
              country |-> n.country, maven |-> n.maven, status |-> n.status, purity |-> n.purity]
      /\ n.kind = "v2ray" /\ n.fp = Fingerprint("v2ray", m) /\ n.uri = l /\ n.name = l.name
      /\ n.link = [m EXCEPT !.name = <<>>] /\ n.maven = FALSE /\ n.status = "unknown"
  BY <1>4 DEF Node
<1>6. /\ WellFormed(n.link) /\ n.link.name = <<>> /\ n.link.proto = l.proto
      /\ Fingerprint("v2ray", n.link) = n.fp /\ n.link.cred = m.cred
  <2> DEFINE q == n.link
  <2>1. q = [m EXCEPT !.name = <<>>] /\ WellFormed(m)
    BY <1>4, <1>5
  <2> HIDE DEF q
  <2>2. /\ WellFormed(q) /\ q.name = <<>> /\ q.proto = m.proto /\ q.cred = m.cred
        /\ Fingerprint("v2ray", q) = Fingerprint("v2ray", m)
    BY <2>1, NameIsNoPart
  <2>3. m.proto = l.proto /\ n.fp = Fingerprint("v2ray", m)
    BY <1>4, <1>5
  <2> HIDE DEF n
  <2> QED
    BY <2>2, <2>3, Zenon DEF q
<1>7. ReadsBack(n)
  <2>1. ParseURI(n.uri) = n
    BY <1>3, <1>5, Zenon
  <2>2. n # Failed /\ n # Panics
    BY <1>5, NodeIsNoError
  <2> HIDE DEF n
  <2> QED
    BY <2>1, <2>2 DEF ReadsBack
<1>8. IsSeq(n.name)
  BY <1>5 DEF WellFormed
<1>9. CredentialRead(n)
  BY <1>4, <1>5, <1>6, Zenon DEF CredentialRead
<1> QED
  BY <1>1, <1>5, <1>6, <1>7, <1>8, <1>9 DEF Made, n

\* What the reader of links makes of a line.
LEMMA LineMade ==
    ASSUME NEW l, WellFormed(l), ParseURI(l) \notin {Failed, Panics}
    PROVE  Made(ParseURI(l))
<1>1. CASE l.proto \in ProxyProtocols
  BY <1>1, ParsedProxyMade DEF ParseURI
<1>2. CASE l.proto \notin ProxyProtocols
  BY <1>2, ShareMade DEF ParseURI
<1> QED
  BY <1>1, <1>2

-----------------------------------------------------------------------------
(* The readers.                                                            *)

\* Sequences of some set, what a sequence is mapped to, and two sequences in a row.
LEMMA SeqIsSeq ==
    ASSUME NEW K, NEW s \in Seq(K)
    PROVE  IsSeq(s) /\ DOMAIN s = 1 .. Len(s) /\ Len(s) \in Nat /\ Range(s) \subseteq K
<1>1. DOMAIN s = 1 .. Len(s) /\ Len(s) \in Nat /\ \A i \in 1 .. Len(s) : s[i] \in K
  OBVIOUS
<1>2. s = [i \in 1 .. Len(s) |-> s[i]]
  OBVIOUS
<1>3. \A i \in 1 .. Len(s) : s[i] \in Range(s)
  BY <1>1 DEF Range
<1>4. s \in Seq(Range(s))
  BY <1>1, <1>2, <1>3
<1>5. Range(s) \subseteq K
  BY <1>1 DEF Range
<1> QED
  BY <1>1, <1>4, <1>5 DEF IsSeq

\* A sequence that is mapped is as long as it was.
LEMMA MappedIsSeq ==
    ASSUME NEW s, IsSeq(s), NEW t, t = [i \in DOMAIN s |-> t[i]]
    PROVE  IsSeq(t) /\ Len(t) = Len(s) /\ DOMAIN t = DOMAIN s
<1>1. DOMAIN s = 1 .. Len(s) /\ Len(s) \in Nat
  BY SeqIsSeq DEF IsSeq
<1>2. DOMAIN t = 1 .. Len(s) /\ \A i \in 1 .. Len(s) : t[i] \in Range(t)
  BY <1>1 DEF Range
<1>3. t = [i \in 1 .. Len(s) |-> t[i]]
  BY <1>1
<1>4. t \in Seq(Range(t)) /\ Len(t) = Len(s)
  BY <1>1, <1>2, <1>3
<1> QED
  BY <1>1, <1>2, <1>4 DEF IsSeq

\* Two sequences in a row have the elements of both.
LEMMA JoinedIsSeq ==
    ASSUME NEW s, IsSeq(s), NEW t, IsSeq(t)
    PROVE  IsSeq(s \o t) /\ Range(s \o t) = Range(s) \cup Range(t)
<1> DEFINE K == Range(s) \cup Range(t)
           m == Len(s)
           n == Len(t)
           u == s \o t
<1>1. /\ DOMAIN s = 1 .. m /\ m \in Nat /\ DOMAIN t = 1 .. n /\ n \in Nat
      /\ s \in Seq(Range(s)) /\ t \in Seq(Range(t))
  BY SeqIsSeq DEF IsSeq
<1>2. s \in Seq(K) /\ t \in Seq(K)
  <2>1. \A i \in 1 .. m : s[i] \in K
    BY <1>1 DEF Range
  <2>2. \A i \in 1 .. n : t[i] \in K
    BY <1>1 DEF Range
  <2>3. s = [i \in 1 .. m |-> s[i]] /\ t = [i \in 1 .. n |-> t[i]]
    BY <1>1
  <2> HIDE DEF K
  <2> QED
    BY <1>1, <2>1, <2>2, <2>3
<1> HIDE DEF K
<1>3. /\ u \in Seq(K) /\ Len(u) = m + n
      /\ \A i \in 1 .. (m + n) : u[i] = IF i <= m THEN s[i] ELSE t[i - m]
  BY <1>2, ConcatProperties
<1>4. DOMAIN u = 1 .. (m + n) /\ IsSeq(u)
  BY <1>3, SeqIsSeq
<1> HIDE DEF u, m, n
<1>5. ASSUME NEW x \in Range(u)
      PROVE  x \in Range(s) \cup Range(t)
  <2>1. PICK i \in 1 .. (m + n) : u[i] = x
    BY <1>4 DEF Range
  <2>2. CASE i <= m
    <3>1. i \in 1 .. m /\ x = s[i]
      BY <1>1, <1>3, <2>1, <2>2
    <3> QED
      BY <1>1, <3>1 DEF Range
  <2>3. CASE ~(i <= m)
    <3>1. i - m \in 1 .. n /\ x = t[i - m]
      BY <1>1, <1>3, <2>1, <2>3
    <3> QED
      BY <1>1, <3>1 DEF Range
  <2> QED
    BY <2>2, <2>3
<1>6. ASSUME NEW x \in Range(s)
      PROVE  x \in Range(u)
  <2>1. PICK i \in 1 .. m : s[i] = x
    BY <1>1 DEF Range
  <2>2. i \in 1 .. (m + n) /\ u[i] = x
    BY <1>1, <1>3, <2>1
  <2> QED
    BY <1>4, <2>2 DEF Range
<1>7. ASSUME NEW x \in Range(t)
      PROVE  x \in Range(u)
  <2>1. PICK i \in 1 .. n : t[i] = x
    BY <1>1 DEF Range
  <2>2. m + i \in 1 .. (m + n) /\ ~(m + i <= m) /\ (m + i) - m = i
    BY <1>1
  <2>3. u[m + i] = x
    BY <1>3, <2>1, <2>2
  <2> QED
    BY <1>4, <2>2, <2>3 DEF Range
<1>8. Range(u) = Range(s) \cup Range(t)
  BY <1>5, <1>6, <1>7
<1> QED
  BY <1>4, <1>8 DEF u

\* What is chosen from a sequence is a sequence of elements of it.
LEMMA OnlySome ==
    ASSUME NEW s, IsSeq(s), NEW T
    PROVE  IsSeq(Only(s, T)) /\ Range(Only(s, T)) = Range(s) \cap T
<1>1. s \in Seq(Range(s))
  BY DEF IsSeq
<1>2. Only(s, T) \in Seq(Range(s)) /\ Range(Only(s, T)) = Range(s) \cap T
  BY <1>1, OnlyKeeps
<1> QED
  BY <1>2, SeqIsSeq

\* A text.
LEMMA TextMade ==
    ASSUME NEW texts, IsSeq(texts), \A x \in Range(texts) : WellFormed(x)
    PROVE  MadeBatch(Mapped(Unique(texts), Candidate))
<1> DEFINE u == Unique(texts)
           t == Mapped(u, Candidate)
<1>1. IsSeq(u) /\ Range(u) = Range(texts)
  <2>1. texts \in Seq(Range(texts))
    BY DEF IsSeq
  <2>2. u \in Seq(Range(texts)) /\ Range(u) = Range(texts)
    BY <2>1, UniqueKeeps
  <2> QED
    BY <2>2, SeqIsSeq
<1>2. t = [i \in DOMAIN u |-> Candidate(u[i])]
  BY DEF Mapped
<1> HIDE DEF u, t
<1>3. IsSeq(t)
  BY <1>1, <1>2, MappedIsSeq
<1>4. \A x \in Range(t) : \E y \in Range(u) : x = Candidate(y)
  BY <1>2 DEF Range
<1>5. \A x \in Range(t) : Made(x)
  BY <1>1, <1>4, CandidateMade
<1> QED
  BY <1>3, <1>5 DEF MadeBatch, t, u

\* The nodes of a text are as they should be ...
LEMMA GenericMade ==
    ASSUME NEW lines, IsSeq(lines), NEW scheme
    PROVE  MadeBatch(ParseGeneric(lines, scheme))
<1> DEFINE urls == Only(lines, {l \in Range(lines) : CanNormalize(l)})
           bare == Only(lines, {l \in Range(lines) : l.at \in IPv4Ports})
           a == Mapped(urls, Normalized)
           b == Mapped(bare, LAMBDA l : Link(scheme, l.at, ""))
<1>1. IsSeq(urls) /\ IsSeq(bare)
  BY OnlySome
<1>2. ParseGeneric(lines, scheme) = Mapped(Unique(a \o b), Candidate)
  BY DEF ParseGeneric
<1> HIDE DEF urls, bare
<1>3. a = [i \in DOMAIN urls |-> Normalized(urls[i])]
  BY DEF Mapped
<1>4. b = [i \in DOMAIN bare |-> Link(scheme, bare[i].at, "")]
  BY DEF Mapped
<1> HIDE DEF a, b
<1>5. IsSeq(a) /\ IsSeq(b)
  BY <1>1, <1>3, <1>4, MappedIsSeq
<1>6. \A x \in Range(a) : WellFormed(x)
  BY <1>3, ProxyLink DEF Range, Normalized
<1>7. \A x \in Range(b) : WellFormed(x)
  <2>1. \A at : WellFormed(Link(scheme, at, ""))
    BY EmptyIsSeq DEF Link, WellFormed
  <2> QED
    BY <1>4, <2>1 DEF Range
<1>8. IsSeq(a \o b) /\ Range(a \o b) = Range(a) \cup Range(b)
  BY <1>5, JoinedIsSeq
<1>9. \A x \in Range(a \o b) : WellFormed(x)
  BY <1>6, <1>7, <1>8
<1> QED
  BY <1>2, <1>8, <1>9, TextMade

\* ... so are those of a table of addresses ...
LEMMA TopChinaMade ==
    ASSUME NEW rows, IsSeq(rows)
    PROVE  MadeBatch(ParseTopChina(rows))
<1> DEFINE good == Only(rows, {r \in Range(rows) : r.cred # "" /\ r.at \in IPv4Ports /\ CanNormalize(r)})
           a == Mapped(good, Normalized)
<1>1. IsSeq(good)
  BY OnlySome
<1>2. ParseTopChina(rows) = Mapped(Unique(a), Candidate)
  BY DEF ParseTopChina
<1> HIDE DEF good
<1>3. a = [i \in DOMAIN good |-> Normalized(good[i])]
  BY DEF Mapped
<1> HIDE DEF a
<1>4. IsSeq(a)
  BY <1>1, <1>3, MappedIsSeq
<1>5. \A x \in Range(a) : WellFormed(x)
  BY <1>3, ProxyLink DEF Range, Normalized
<1> QED
  BY <1>2, <1>4, <1>5, TextMade

\* ... and those of the pages of NodeMaven.
LEMMA MavenItemsMade ==
    ASSUME NEW items, IsSeq(items)
    PROVE  MadeBatch(Mapped(items, MavenNode))
<1> DEFINE t == Mapped(items, MavenNode)
<1>1. t = [i \in DOMAIN items |-> MavenNode(items[i])]
  BY DEF Mapped
<1> HIDE DEF t
<1>2. IsSeq(t)
  BY <1>1, MappedIsSeq
<1>3. \A x \in Range(t) : Made(x)
  BY <1>1, MavenMade DEF Range
<1> QED
  BY <1>2, <1>3 DEF MadeBatch, t

\* The lines of a subscription.
LEMMA LinesMade ==
    ASSUME NEW lines, IsSeq(lines), \A l \in Range(lines) : WellFormed(l)
    PROVE  MadeBatch(Kept(Mapped(lines, ParseURI)))
<1> DEFINE t == Mapped(lines, ParseURI)
           u == Kept(t)
<1>1. t = [i \in DOMAIN lines |-> ParseURI(lines[i])]
  BY DEF Mapped
<1>2. u = Only(t, Range(t) \ {Failed})
  BY DEF Kept
<1> HIDE DEF t, u
<1>3. IsSeq(t)
  BY <1>1, MappedIsSeq
<1>4. IsSeq(u) /\ Range(u) = Range(t) \cap (Range(t) \ {Failed})
  BY <1>2, <1>3, OnlySome
<1>5. \A x \in Range(t) : \E l \in Range(lines) : x = ParseURI(l)
  BY <1>1 DEF Range
<1>6. ASSUME NEW x \in Range(u)
      PROVE  x = Panics \/ Made(x)
  <2>1. x \in Range(t) /\ x # Failed
    BY <1>4
  <2>2. PICK l \in Range(lines) : x = ParseURI(l)
    BY <1>5, <2>1
  <2>3. WellFormed(l)
    OBVIOUS
  <2>4. ParseURI(l) = Panics \/ Made(ParseURI(l))
    BY <2>1, <2>2, <2>3, LineMade
  <2> QED
    BY <2>2, <2>4, Zenon
<1> QED
  BY <1>4, <1>6 DEF MadeBatch, t, u

\* A Clash entry as a link.
LEMMA EntryIsLink ==
    ASSUME NEW e, WellFormedEntry(e), e.type \in ClashTypes
    PROVE  WellFormed(ClashToLink(e))
<1> DEFINE l == ClashToLink(e)
<1>1. /\ l = [proto |-> l.proto, at |-> l.at, cred |-> l.cred, transport |-> l.transport,
              security |-> l.security, path |-> l.path, sni |-> l.sni, aid |-> l.aid,
              name |-> l.name]
      /\ l.proto = e.type /\ l.aid = 0 /\ l.name = e.name
  BY DEF ClashToLink
<1>2. l.proto \notin {"vmess", "vless", "trojan"} =>
          l.transport = "" /\ l.security = "" /\ l.path = "" /\ l.sni = ""
  BY DEF ClashToLink, PathOf
<1> HIDE DEF l
<1>3. IsSeq(l.name)
  BY <1>1 DEF WellFormedEntry
<1>4. WellFormed(l)
  BY <1>1, <1>2, <1>3 DEF WellFormed
<1> QED
  BY <1>4 DEF l

\* The nodes of a Clash file are as they should be.
LEMMA EntriesMade ==
    ASSUME NEW entries, IsSeq(entries), \A e \in Range(entries) : WellFormedEntry(e)
    PROVE  MadeBatch(ParseClashYAML(entries))
<1> DEFINE read == Only(entries, {e \in Range(entries) : e.type \in ClashTypes})
           t == Mapped(read, ClashToLink)
<1>1. IsSeq(read) /\ Range(read) = Range(entries) \cap {e \in Range(entries) : e.type \in ClashTypes}
  BY OnlySome
<1>2. ParseClashYAML(entries) = Kept(Mapped(t, ParseURI))
  BY DEF ParseClashYAML
<1> HIDE DEF read
<1>3. t = [i \in DOMAIN read |-> ClashToLink(read[i])]
  BY DEF Mapped
<1> HIDE DEF t
<1>4. IsSeq(t)
  BY <1>1, <1>3, MappedIsSeq
<1>5. \A l \in Range(t) : \E e \in Range(read) : l = ClashToLink(e)
  BY <1>3 DEF Range
<1>6. \A l \in Range(t) : WellFormed(l)
  BY <1>1, <1>5, EntryIsLink
<1> QED
  BY <1>2, <1>4, <1>6, LinesMade

\* Whatever is read, is nodes as they should be, and lines that end the program.
LEMMA ReadMakes ==
    ASSUME NEW type \in {"text", "topchina", "nodemaven_api", "sub_base64", "clash_yaml"},
           NEW lines, LinesOfType(type, lines), NEW scheme
    PROVE  MadeBatch(Read(type, lines, scheme))
<1>1. IsSeq(lines)
  BY DEF LinesOfType
<1>2. CASE type = "text"
  BY <1>1, <1>2, GenericMade DEF Read
<1>3. CASE type = "topchina"
  BY <1>1, <1>3, TopChinaMade DEF Read
<1>4. CASE type = "nodemaven_api"
  BY <1>1, <1>4, MavenItemsMade DEF Read
<1>5. CASE type = "sub_base64"
  <2>1. \A l \in Range(lines) : WellFormed(l)
    BY <1>5 DEF LinesOfType
  <2> QED
    BY <1>1, <1>5, <2>1, LinesMade DEF Read, ParseBase64Subscription
<1>6. CASE type = "clash_yaml"
  <2>1. \A e \in Range(lines) : WellFormedEntry(e)
    BY <1>6 DEF LinesOfType
  <2> QED
    BY <1>1, <1>6, <2>1, EntriesMade DEF Read
<1> QED
  BY <1>2, <1>3, <1>4, <1>5, <1>6

-----------------------------------------------------------------------------
(* The table.                                                              *)

\* Some places have a first.
LEMMA MinIsMember ==
    ASSUME NEW S, S \subseteq Nat, S # {}
    PROVE  Min(S) \in S
<1>1. \E n \in S : \A m \in S : n <= m
  BY LeastNumber
<1> QED
  BY <1>1 DEF Min

\* What is cut from a batch is a batch of elements of it.
LEMMA CutKeeps ==
    ASSUME NEW batch, IsSeq(batch), NEW some \in Cut(batch)
    PROVE  IsSeq(some) /\ Range(some) \subseteq Range(batch)
<1>1. CASE some = batch
  BY <1>1
<1>2. CASE some # batch
  <2>1. DOMAIN batch = 1 .. Len(batch) /\ Len(batch) \in Nat
    BY SeqIsSeq DEF IsSeq
  <2>2. PICK K \in kSubset(IngestMax, DOMAIN batch) :
            \E order \in SetToSeqs(K) : some = Mapped(order, LAMBDA i : batch[i])
    BY <1>2 DEF Cut
  <2>10. PICK order \in SetToSeqs(K) : some = Mapped(order, LAMBDA i : batch[i])
    BY <2>2
  <2>3. K \in SUBSET (1 .. Len(batch))
    BY <2>1, <2>2 DEF kSubset
  <2>4. Cardinality(K) \in Nat
    <3>1. IsFiniteSet(1 .. Len(batch))
      BY <2>1, FS_Interval
    <3>2. IsFiniteSet(K)
      BY <2>3, <3>1, FS_Subset
    <3> QED
      BY <3>2, FS_CardinalityType
  <2>5. order \in [1 .. Cardinality(K) -> K]
    BY <2>10 DEF SetToSeqs
  <2>6. IsSeq(order)
    <3>1. order \in Seq(K)
      BY <2>4, <2>5
    <3> QED
      BY <3>1, SeqIsSeq
  <2>7. some = [i \in DOMAIN order |-> batch[order[i]]]
    BY <2>10 DEF Mapped
  <2>8. IsSeq(some)
    BY <2>6, <2>7, MappedIsSeq
  <2>9. \A x \in Range(some) : \E j \in DOMAIN batch : x = batch[j]
    BY <2>1, <2>3, <2>5, <2>7 DEF Range
  <2> QED
    BY <2>8, <2>9 DEF Range
<1> QED
  BY <1>1, <1>2

\* An import writes the link and the name of a row anew, and no part that identifies it.
LEMMA RefreshedParts ==
    ASSUME NEW row, NEW n, NEW new, new = Refreshed(row, n),
           row = [kind |-> row.kind, fp |-> row.fp, link |-> row.link, uri |-> row.uri,
                  name |-> row.name, country |-> row.country, maven |-> row.maven,
                  status |-> row.status, purity |-> row.purity]
    PROVE  /\ new = [kind |-> new.kind, fp |-> new.fp, link |-> new.link, uri |-> new.uri,
                     name |-> new.name, country |-> new.country, maven |-> new.maven,
                     status |-> new.status, purity |-> new.purity]
           /\ new.kind = row.kind /\ new.fp = row.fp /\ new.link = row.link
           /\ new.maven = row.maven /\ new.uri = n.uri /\ new.status = row.status
           /\ new.name = n.name \/ new.name = row.name
  BY DEF Refreshed

\* A row that is refreshed by a node with its fingerprint has the link of that node.
LEMMA RefreshedMade ==
    ASSUME NEW row, Made(row), NEW n, Made(n), row.fp = n.fp
    PROVE  Made(Refreshed(row, n)) /\ Refreshed(row, n).fp = row.fp
<1> DEFINE new == Refreshed(row, n)
<1>1. row.kind = n.kind /\ row.link = n.link /\ row.maven = n.maven
  BY OneFingerprintOneProxy
<1>2. row = [kind |-> row.kind, fp |-> row.fp, link |-> row.link, uri |-> row.uri,
             name |-> row.name, country |-> row.country, maven |-> row.maven,
             status |-> row.status, purity |-> row.purity]
  BY DEF Made
<1>3. /\ new = [kind |-> new.kind, fp |-> new.fp, link |-> new.link, uri |-> new.uri,
                name |-> new.name, country |-> new.country, maven |-> new.maven,
                status |-> new.status, purity |-> new.purity]
      /\ new.kind = row.kind /\ new.fp = row.fp /\ new.link = row.link /\ new.maven = row.maven
      /\ new.uri = n.uri /\ new.status = row.status /\ (new.name = n.name \/ new.name = row.name)
  BY <1>2, RefreshedParts
<1> HIDE DEF new
<1>4. /\ \/ row.kind = "proxy" /\ row.link.proto \in ProxyProtocols \cup {""}
         \/ row.kind = "v2ray" /\ row.link.proto \in ShareProtocols
      /\ WellFormed(row.link) /\ row.link.name = <<>>
      /\ IsSeq(row.name) /\ row.maven \in BOOLEAN
      /\ IF row.maven THEN /\ row.kind = "proxy" /\ row.link.cred = ""
                           /\ row.fp = <<"proxy", row.link.proto, row.link.at>>
         ELSE row.fp = Fingerprint(row.kind, row.link)
      /\ CredentialRead(row) /\ (row.status = "valid" => row.link.at # "")
  BY DEF Made
<1>5. WellFormed(n.uri) /\ IsSeq(n.name) /\ ReadsBack(n)
  BY DEF Made
<1>6. IsSeq(new.name)
  BY <1>3, <1>4, <1>5
<1>7. ReadsBack(new)
  <2>1. new.link = n.link /\ new.kind = n.kind /\ new.uri = n.uri
        /\ new.fp = n.fp /\ new.maven = n.maven
    BY <1>1, <1>3
  <2>2. Settled(new) <=> Settled(n)
    BY <2>1 DEF Settled
  <2> QED
    BY <1>5, <2>1, <2>2 DEF ReadsBack
<1>9. CredentialRead(new)
  BY <1>3, <1>4 DEF CredentialRead
<1>8. Made(new)
  BY <1>3, <1>4, <1>5, <1>6, <1>7, <1>9 DEF Made
<1> QED
  BY <1>3, <1>8 DEF new

TableMade(table) ==
    /\ table = [fp \in DOMAIN table |-> table[fp]]
    /\ \A fp \in DOMAIN table : Made(table[fp]) /\ table[fp].fp = fp

\* A table of rows as they should be stays one when nodes as they should be are taken.
LEMMA UpsertMade ==
    ASSUME NEW table, TableMade(table), NEW batch, IsSeq(batch),
           \A n \in Range(batch) : Made(n)
    PROVE  TableMade(Upserted(table, batch))
<1> DEFINE fps == {batch[i].fp : i \in DOMAIN batch}
           First(fp) == batch[Min({i \in DOMAIN batch : batch[i].fp = fp})]
           new == Upserted(table, batch)
<1>1. new = [fp \in DOMAIN table \cup fps |->
                 CASE fp \notin fps          -> table[fp]
                   [] fp \notin DOMAIN table -> First(fp)
                   [] OTHER                  -> Refreshed(table[fp], First(fp))]
  BY DEF Upserted
<1>2. ASSUME NEW fp \in fps
      PROVE  Made(First(fp)) /\ First(fp).fp = fp
  <2> DEFINE S == {i \in DOMAIN batch : batch[i].fp = fp}
  <2>1. DOMAIN batch = 1 .. Len(batch) /\ Len(batch) \in Nat
    BY SeqIsSeq DEF IsSeq
  <2>2. S \subseteq Nat /\ S # {}
    BY <2>1
  <2>3. Min(S) \in S
    BY <2>2, MinIsMember
  <2>4. First(fp) = batch[Min(S)] /\ batch[Min(S)].fp = fp /\ batch[Min(S)] \in Range(batch)
    BY <2>3 DEF Range
  <2> QED
    BY <2>4
<1> HIDE DEF fps, First, new
<1>3. ASSUME NEW fp \in DOMAIN new
      PROVE  Made(new[fp]) /\ new[fp].fp = fp
  <2>1. CASE fp \notin fps
    <3>1. new[fp] = table[fp] /\ fp \in DOMAIN table
      BY <1>1, <2>1
    <3> QED
      BY <3>1 DEF TableMade
  <2>2. CASE fp \in fps /\ fp \notin DOMAIN table
    <3>1. new[fp] = First(fp)
      BY <1>1, <2>2
    <3> QED
      BY <1>2, <2>2, <3>1
  <2>3. CASE fp \in fps /\ fp \in DOMAIN table
    <3>1. new[fp] = Refreshed(table[fp], First(fp))
      BY <1>1, <2>3
    <3>2. Made(table[fp]) /\ table[fp].fp = fp /\ Made(First(fp)) /\ First(fp).fp = fp
      BY <1>2, <2>3 DEF TableMade
    <3> QED
      BY <3>1, <3>2, RefreshedMade
  <2> QED
    BY <2>1, <2>2, <2>3
<1>4. new = [fp \in DOMAIN new |-> new[fp]]
  BY <1>1
<1> QED
  BY <1>3, <1>4 DEF TableMade, new

-----------------------------------------------------------------------------
(* The names of a Clash file.                                              *)

\* A name without addresses and separators at its ends is a sequence.
LEMMA SanitizedIsSeq ==
    ASSUME NEW name, IsSeq(name), NEW proto
    PROVE  IsSeq(SanitizeName(name, proto))
<1> DEFINE kept == Only(name, {t \in Range(name) : t[1] # "ip"})
           solid == {i \in DOMAIN kept : kept[i][1] # "bar"}
           n == Len(kept)
<1>1. IsSeq(kept)
  BY OnlySome
<1> HIDE DEF kept
<1>2. DOMAIN kept = 1 .. n /\ n \in Nat /\ kept \in Seq(Range(kept))
  BY <1>1, SeqIsSeq DEF IsSeq
<1>3. SanitizeName(name, proto) = IF solid = {} THEN <<Word(proto)>>
                                  ELSE SubSeq(kept, Min(solid), Max(solid))
  BY DEF SanitizeName, kept
<1>4. solid \in SUBSET (1 .. n) /\ solid \subseteq Nat
  BY <1>2
<1> HIDE DEF solid, n
<1>5. CASE solid = {}
  <2>1. <<Word(proto)>> \in Seq({Word(proto)})
    OBVIOUS
  <2>2. IsSeq(<<Word(proto)>>)
    BY <2>1, SeqIsSeq
  <2> QED
    BY <1>3, <1>5, <2>2
<1>6. CASE solid # {}
  <2>1. Min(solid) \in 1 .. n /\ Max(solid) \in 1 .. n
    BY <1>2, <1>4, <1>6, MinIsMember, MaxIsMember
  <2>2. SubSeq(kept, Min(solid), Max(solid)) \in Seq(Range(kept))
    BY <1>2, <2>1 DEF n
  <2>3. IsSeq(SubSeq(kept, Min(solid), Max(solid)))
    BY <2>2, SeqIsSeq
  <2> QED
    BY <1>3, <1>6, <2>3
<1> QED
  BY <1>5, <1>6

\* So is what it is decorated to.
LEMMA DecoratedIsSeq ==
    ASSUME NEW n, NEW name, IsSeq(name)
    PROVE  IsSeq(Decorated(n, name))
<1> DEFINE flag == <<"flag", n.country>>
           land == <<"country", n.country>>
           pure == <<"pure", n.purity>>
           bar == <<"bar", "|">>
           fore == <<flag, land, bar>> \o name
           hind == <<bar, pure>>
<1>1. \/ Decorated(n, name) = name
      \/ Decorated(n, name) = fore
      \/ Decorated(n, name) = fore \o hind
  BY DEF Decorated
<1> HIDE DEF flag, land, pure, bar
<1>2. <<flag, land, bar>> \in Seq({flag, land, bar}) /\ hind \in Seq({bar, pure})
  OBVIOUS
<1>3. IsSeq(<<flag, land, bar>>) /\ IsSeq(hind)
  BY <1>2, SeqIsSeq
<1>4. IsSeq(fore)
  BY <1>3, JoinedIsSeq
<1> HIDE DEF fore, hind
<1>5. IsSeq(fore \o hind)
  BY <1>3, <1>4, JoinedIsSeq
<1> QED
  BY <1>1, <1>4, <1>5

\* The name that is shown for a row is a sequence.
LEMMA DisplayIsSeq ==
    ASSUME NEW n, Made(n)
    PROVE  IsSeq(DisplayName(n))
<1>1. IsSeq(n.name) /\ IsSeq(n.uri.name)
  BY DEF Made, WellFormed
<1>2. IsSeq(OwnName(n))
  BY <1>1 DEF OwnName
<1> QED
  BY <1>2, SanitizedIsSeq, DecoratedIsSeq DEF DisplayName

\* How often a name was used is a number, and at most the number of entries.
LEMMA UsesAreCounted ==
    ASSUME NEW K, NEW out \in Seq(K), NEW name
    PROVE  TimesUsed(out, name) \in 0 .. Len(out)
<1> DEFINE S == {i \in DOMAIN out : out[i].base = name}
<1>1. DOMAIN out = 1 .. Len(out) /\ Len(out) \in Nat
  OBVIOUS
<1>2. IsFiniteSet(1 .. Len(out)) /\ Cardinality(1 .. Len(out)) = Len(out)
  BY <1>1, FS_Interval
<1>3. S \in SUBSET (1 .. Len(out))
  BY <1>1
<1> HIDE DEF S
<1>4. IsFiniteSet(S) /\ Cardinality(S) <= Len(out)
  BY <1>2, <1>3, FS_Subset
<1>5. Cardinality(S) \in Nat
  BY <1>4, FS_CardinalityType
<1>6. TimesUsed(out, name) = Cardinality(S)
  BY DEF TimesUsed, S
<1> QED
  BY <1>1, <1>4, <1>5, <1>6

\* An entry more is one more use of its name before a number, and of no other.
LEMMA OneMoreUse ==
    ASSUME NEW K, NEW out \in Seq(K), NEW r, NEW name
    PROVE  TimesUsed(Append(out, r), name) =
               IF r.base = name THEN TimesUsed(out, name) + 1 ELSE TimesUsed(out, name)
<1> DEFINE n == Len(out)
           new == Append(out, r)
           S == {i \in DOMAIN out : out[i].base = name}
           T == {i \in DOMAIN new : new[i].base = name}
<1>1. /\ n \in Nat /\ DOMAIN out = 1 .. n /\ DOMAIN new = 1 .. (n + 1)
      /\ new[n + 1] = r /\ \A i \in 1 .. n : new[i] = out[i]
  OBVIOUS
<1> HIDE DEF n, new
<1>2. S \in SUBSET (1 .. n) /\ n + 1 \notin S
  BY <1>1
<1>3. T = IF r.base = name THEN S \cup {n + 1} ELSE S
  <2>1. \A i \in 1 .. n : i \in T <=> i \in S
    BY <1>1
  <2>2. n + 1 \in T <=> r.base = name
    BY <1>1
  <2>3. T \subseteq 1 .. (n + 1)
    BY <1>1
  <2>4. \A i \in 1 .. (n + 1) : i \in 1 .. n \/ i = n + 1
    BY <1>1
  <2> HIDE DEF S, T
  <2>5. CASE r.base = name
    <3>1. \A i : i \in T <=> i \in S \/ i = n + 1
      BY <1>2, <2>1, <2>2, <2>3, <2>4, <2>5
    <3> QED
      BY <2>5, <3>1
  <2>6. CASE r.base # name
    <3>1. \A i : i \in T <=> i \in S
      BY <1>2, <2>1, <2>2, <2>3, <2>4, <2>6
    <3> QED
      BY <2>6, <3>1
  <2> QED
    BY <2>5, <2>6
<1>4. IsFiniteSet(1 .. n)
  BY <1>1, FS_Interval
<1> HIDE DEF S, T
<1>5. IsFiniteSet(S)
  BY <1>2, <1>4, FS_Subset
<1>6. Cardinality(S \cup {n + 1}) = Cardinality(S) + 1
  BY <1>2, <1>5, FS_AddElement
<1>7. TimesUsed(out, name) = Cardinality(S) /\ TimesUsed(new, name) = Cardinality(T)
  BY DEF TimesUsed, S, T
<1> QED
  BY <1>3, <1>6, <1>7 DEF new

\* A name with a number is a sequence, and different numbers make different names.
LEMMA NumberedNames ==
    ASSUME NEW b, IsSeq(b)
    PROVE  /\ \A k \in Nat \ {0} : IsSeq(Numbered(b, k))
           /\ \A j, k \in Nat \ {0} : Numbered(b, j) = Numbered(b, k) => j = k
<1>1. b \in Seq(Range(b)) /\ Len(b) \in Nat
  BY DEF IsSeq
<1>2. ASSUME NEW k \in Nat \ {0}
      PROVE  IsSeq(Append(b, <<"dash", k>>))
  <2> DEFINE d == <<"dash", k>>
             K == Range(b) \cup {d}
  <2> HIDE DEF d
  <2>1. b \in Seq(K)
    <3>1. Range(b) \subseteq K
      OBVIOUS
    <3> HIDE DEF K
    <3> QED
      BY <1>1, <3>1
  <2>2. d \in K
    OBVIOUS
  <2> HIDE DEF K
  <2>3. Append(b, d) \in Seq(K)
    BY <2>1, <2>2
  <2>4. IsSeq(Append(b, d))
    BY <2>3, SeqIsSeq
  <2> QED
    BY <2>4 DEF d
<1>3. ASSUME NEW k \in Nat \ {0}
      PROVE  /\ Len(Append(b, <<"dash", k>>)) = Len(b) + 1
             /\ Append(b, <<"dash", k>>)[Len(b) + 1] = <<"dash", k>>
  <2> DEFINE d == <<"dash", k>>
             K == Range(b) \cup {d}
  <2> HIDE DEF d
  <2>1. b \in Seq(K) /\ d \in K
    <3>1. Range(b) \subseteq K /\ d \in K
      OBVIOUS
    <3> HIDE DEF K
    <3> QED
      BY <1>1, <3>1
  <2> HIDE DEF K
  <2>2. Len(Append(b, d)) = Len(b) + 1 /\ Append(b, d)[Len(b) + 1] = d
    BY <2>1
  <2> QED
    BY <2>2 DEF d
<1>4. ASSUME NEW j \in Nat \ {0}, NEW k \in Nat \ {0}, Numbered(b, j) = Numbered(b, k)
      PROVE  j = k
  <2>1. \A i \in Nat \ {0} : i # 1 => Numbered(b, i) # b
    BY <1>1, <1>3 DEF Numbered
  <2>2. CASE j = 1 \/ k = 1
    BY <1>4, <2>1, <2>2 DEF Numbered
  <2>3. CASE j # 1 /\ k # 1
    <3>1. Append(b, <<"dash", j>>) = Append(b, <<"dash", k>>)
      BY <1>4, <2>3 DEF Numbered
    <3>2. <<"dash", j>> = <<"dash", k>>
      BY <1>3, <3>1, Zenon
    <3> QED
      BY <3>2
  <2> QED
    BY <2>2, <2>3
<1>5. \A k \in Nat \ {0} : IsSeq(Numbered(b, k))
  BY <1>2 DEF Numbered
<1> QED
  BY <1>4, <1>5

\* Names with numbers are one name only if one is the other with a number.
LEMMA NumberedApart ==
    ASSUME NEW b, IsSeq(b), NEW c, IsSeq(c), b # c,
           NEW j \in Nat \ {0}, NEW k \in Nat \ {0}, Numbered(b, j) = Numbered(c, k)
    PROVE  \/ k # 1 /\ b = Append(c, <<"dash", k>>)
           \/ j # 1 /\ c = Append(b, <<"dash", j>>)
<1>1. CASE j = 1 \/ k = 1
  BY <1>1 DEF Numbered
<1>2. CASE j # 1 /\ k # 1
  <2> DEFINE d == <<"dash", j>>
             e == <<"dash", k>>
             K == (Range(b) \cup Range(c)) \cup {d, e}
  <2>1. Append(b, d) = Append(c, e)
    BY <1>2 DEF Numbered
  <2> HIDE DEF d, e
  <2>2. /\ Range(b) \subseteq K /\ Range(c) \subseteq K /\ d \in K /\ e \in K
        /\ b \in Seq(Range(b)) /\ c \in Seq(Range(c))
    BY DEF IsSeq
  <2> HIDE DEF K
  <2>3. b \in Seq(K) /\ c \in Seq(K)
    BY <2>2
  <2>4. b = c
    BY <2>1, <2>2, <2>3, AppendInjective
  <2> QED
    BY <2>4
<1> QED
  BY <1>1, <1>2

EntriesOf(rows) == {RenderedEntry(n, Numbered(DisplayName(n), k)) : n \in Range(rows), k \in Nat}

\* g folds the first n rows as Rendered does.
Renders(g, rows, n) ==
    g = [S \in SUBSET (1 .. n) |->
            IF S = {} THEN <<>> ELSE Add(g[S \ {Max(S)}], rows[Max(S)])]

\* Rendered adds the rows one after the other.
LEMMA AddGoesOn ==
    ASSUME NEW rows, IsSeq(rows)
    PROVE  \E f : /\ f[0] = <<>> /\ Rendered(rows) = f[Len(rows)]
                  /\ \A k \in 1 .. Len(rows) : f[k] = Add(f[k - 1], rows[k])
<1> DEFINE n == Len(rows)
           A == Seq(EntriesOf(rows))
           step == [w \in A \X (1 .. n) |-> Add(w[1], rows[w[2]])]
           g == CHOOSE h : Renders(h, rows, n)
           f == [k \in 0 .. n |-> g[1 .. k]]
<1>1. n \in Nat /\ DOMAIN rows = 1 .. n /\ \A k \in 1 .. n : rows[k] \in Range(rows)
  <2>1. n \in Nat /\ DOMAIN rows = 1 .. n
    BY SeqIsSeq DEF IsSeq
  <2> QED
    BY <2>1 DEF Range
<1>2. Renders(g, rows, n)
  <2>1. ASSUME NEW a \in A, NEW k \in 1 .. n
        PROVE  Add(a, rows[k]) \in A
    <3> DEFINE x == rows[k]
               t == TimesUsed(a, DisplayName(x))
               r == RenderedEntry(x, Numbered(DisplayName(x), t + 1))
    <3>1. t \in Nat /\ x \in Range(rows)
      <4>1. t \in 0 .. Len(a) /\ Len(a) \in Nat
        BY UsesAreCounted
      <4> QED
        BY <1>1, <4>1
    <3>2. r \in EntriesOf(rows)
      BY <3>1 DEF EntriesOf
    <3>3. Add(a, x) = a \/ Add(a, x) = Append(a, r)
      BY DEF Add, UniqueName
    <3> HIDE DEF r, x
    <3> QED
      BY <3>2, <3>3 DEF x
  <2>2. step \in [A \X (1 .. n) -> A]
    BY <2>1
  <2>3. \A a \in A, k \in 1 .. n : step[<<a, k>>] = Add(a, rows[k])
    OBVIOUS
  <2>4. <<>> \in A
    OBVIOUS
  <2> HIDE DEF step, A
  <2>5. PICK h \in [SUBSET (1 .. n) -> A] : FoldsTo(h, <<>>, step, n)
    BY <1>1, <2>2, <2>4, FoldExists DEF CanFold
  <2>6. \A S \in SUBSET (1 .. n) : S # {} => h[S \ {Max(S)}] \in A /\ Max(S) \in 1 .. n
    BY <1>1, MaxIsMember
  <2>7. \A S \in SUBSET (1 .. n) :
            h[S] = IF S = {} THEN <<>> ELSE Add(h[S \ {Max(S)}], rows[Max(S)])
    BY <2>3, <2>5, <2>6 DEF FoldsTo
  <2>8. Renders(h, rows, n)
    BY <2>7 DEF Renders
  <2> QED
    BY <2>8
<1>3. Rendered(rows) = g[1 .. n]
  BY <1>1 DEF Rendered, Renders, FoldLeft, MapThenFoldSet
<1> HIDE DEF g
<1>4. ASSUME NEW k \in 1 .. n
      PROVE  f[k] = Add(f[k - 1], rows[k])
  <2>1. f[k] = g[1 .. k] /\ f[k - 1] = g[1 .. (k - 1)]
    BY <1>1
  <2>2. g[1 .. k] = Add(g[(1 .. k) \ {Max(1 .. k)}], rows[Max(1 .. k)])
    BY <1>1, <1>2, FirstPlaces DEF Renders
  <2> HIDE DEF f
  <2>3. Max(1 .. k) = k /\ (1 .. k) \ {Max(1 .. k)} = 1 .. (k - 1)
    BY <1>1, FirstPlaces
  <2> QED
    BY <2>1, <2>2, <2>3, Zenon
<1>5. f[0] = <<>>
  <2>1. 1 .. 0 = {} /\ {} \in SUBSET (1 .. n)
    BY <1>1
  <2>2. g[{}] = <<>>
    BY <1>2, <2>1 DEF Renders
  <2> QED
    BY <1>1, <2>1, <2>2
<1>6. Rendered(rows) = f[n]
  BY <1>1, <1>3
<1> QED
  BY <1>4, <1>5, <1>6

\* Each name is the name before the number with a number that was counted, and
\* the same name before the number has another number each time.
NamesFine(out) ==
    /\ \A i \in DOMAIN out :
           /\ IsSeq(out[i].base)
           /\ \E k \in 1 .. TimesUsed(out, out[i].base) : out[i].name = Numbered(out[i].base, k)
    /\ \A i, j \in DOMAIN out : i # j /\ out[i].base = out[j].base => out[i].name # out[j].name

\* A name that was numbered by its uses so far is like no other of the same base.
LEMMA AddKeeps ==
    ASSUME NEW K, NEW out \in Seq(K), NamesFine(out), NEW r, IsSeq(r.base),
           r.name = Numbered(r.base, TimesUsed(out, r.base) + 1)
    PROVE  NamesFine(Append(out, r))
<1> DEFINE n == Len(out)
           new == Append(out, r)
           t == TimesUsed(out, r.base)
<1>1. /\ n \in Nat /\ DOMAIN out = 1 .. n /\ DOMAIN new = 1 .. (n + 1)
      /\ new[n + 1] = r /\ \A i \in 1 .. n : new[i] = out[i]
  OBVIOUS
<1>2. \A b : TimesUsed(out, b) \in Nat
  <2>1. \A b : TimesUsed(out, b) \in 0 .. n
    BY UsesAreCounted
  <2> QED
    BY <1>1, <2>1
<1>3. \A b : TimesUsed(new, b) = IF r.base = b THEN TimesUsed(out, b) + 1 ELSE TimesUsed(out, b)
  BY OneMoreUse
<1>4. \A i : i \in 1 .. (n + 1) <=> i \in 1 .. n \/ i = n + 1
  BY <1>1
<1> HIDE DEF new, n
<1>5. ASSUME NEW i \in 1 .. n
      PROVE  /\ IsSeq(new[i].base)
             /\ \E k \in 1 .. TimesUsed(new, new[i].base) : new[i].name = Numbered(new[i].base, k)
             /\ new[i].base = r.base => new[i].name # r.name
  <2> DEFINE b == out[i].base
  <2>1. new[i] = out[i] /\ IsSeq(b)
    BY <1>1 DEF NamesFine
  <2>2. PICK k \in 1 .. TimesUsed(out, b) : out[i].name = Numbered(b, k)
    BY <1>1 DEF NamesFine
  <2>3. TimesUsed(out, b) \in Nat
    BY <1>2
  <2>4. TimesUsed(new, b) = TimesUsed(out, b) \/ TimesUsed(new, b) = TimesUsed(out, b) + 1
    BY <1>3
  <2> HIDE DEF b
  <2>5. k \in 1 .. TimesUsed(new, b) /\ k \in Nat \ {0}
    BY <2>3, <2>4
  <2>6. ASSUME b = r.base
        PROVE  out[i].name # r.name
    <3>1. t \in Nat /\ t + 1 \in Nat \ {0} /\ k \in 1 .. t /\ k # t + 1
      BY <1>2, <2>2, <2>6
    <3>2. Numbered(r.base, k) # Numbered(r.base, t + 1)
      BY <2>5, <3>1, NumberedNames
    <3> QED
      BY <2>2, <2>6, <3>2
  <2>7. new[i].base = b /\ new[i].name = Numbered(b, k)
    BY <2>1, <2>2 DEF b
  <2>8. \E j \in 1 .. TimesUsed(new, new[i].base) : new[i].name = Numbered(new[i].base, j)
    BY <2>5, <2>7, Zenon
  <2> QED
    BY <2>1, <2>6, <2>7, <2>8
<1>6. \E k \in 1 .. TimesUsed(new, r.base) : r.name = Numbered(r.base, k)
  <2>1. TimesUsed(new, r.base) = t + 1 /\ t \in Nat
    BY <1>2, <1>3
  <2>2. t + 1 \in 1 .. TimesUsed(new, r.base)
    BY <2>1
  <2> QED
    BY <2>2
<1>7. ASSUME NEW i \in DOMAIN new
      PROVE  /\ IsSeq(new[i].base)
             /\ \E k \in 1 .. TimesUsed(new, new[i].base) : new[i].name = Numbered(new[i].base, k)
  <2>1. CASE i \in 1 .. n
    BY <1>5, <2>1
  <2>2. CASE i = n + 1
    <3>1. new[i] = r
      BY <1>1, <2>2
    <3> QED
      BY <1>6, <3>1, Zenon
  <2> QED
    BY <1>1, <1>4, <2>1, <2>2
<1>8. ASSUME NEW i \in DOMAIN new, NEW j \in DOMAIN new, i # j, new[i].base = new[j].base
      PROVE  new[i].name # new[j].name
  <2>1. CASE i \in 1 .. n /\ j \in 1 .. n
    BY <1>1, <1>8, <2>1 DEF NamesFine
  <2>2. CASE i = n + 1
    <3>1. new[i] = r /\ j \in 1 .. n
      BY <1>1, <1>4, <1>8, <2>2
    <3> QED
      BY <1>5, <1>8, <3>1
  <2>3. CASE j = n + 1
    <3>1. new[j] = r /\ i \in 1 .. n
      BY <1>1, <1>4, <1>8, <2>3
    <3> QED
      BY <1>5, <1>8, <3>1
  <2> QED
    BY <1>1, <1>4, <2>1, <2>2, <2>3
<1> QED
  BY <1>7, <1>8 DEF NamesFine, new

EntryShape(e) ==
    e = [type |-> e.type, server |-> e.server, cred |-> e.cred, tls |-> e.tls,
         network |-> e.network, path |-> e.path, servername |-> e.servername,
         sni |-> e.sni, name |-> e.name]

\* An entry keeps its fields when one or two of them are set.
LEMMA ShapeIsKept ==
    ASSUME NEW x, EntryShape(x), NEW v, NEW w
    PROVE  /\ EntryShape([x EXCEPT !.tls = v])
           /\ EntryShape([x EXCEPT !.tls = v, !.servername = w])
           /\ EntryShape([x EXCEPT !.tls = v, !.sni = w])
           /\ EntryShape([x EXCEPT !.network = v, !.path = w])
<1>1. ASSUME NEW y, EntryShape(y), NEW u
      PROVE  /\ EntryShape([y EXCEPT !.tls = u]) /\ EntryShape([y EXCEPT !.servername = u])
             /\ EntryShape([y EXCEPT !.sni = u]) /\ EntryShape([y EXCEPT !.network = u])
             /\ EntryShape([y EXCEPT !.path = u])
  <2>1. EntryShape([y EXCEPT !.tls = u])
    BY <1>1 DEF EntryShape
  <2>2. EntryShape([y EXCEPT !.servername = u])
    BY <1>1 DEF EntryShape
  <2>3. EntryShape([y EXCEPT !.sni = u])
    BY <1>1 DEF EntryShape
  <2>4. EntryShape([y EXCEPT !.network = u])
    BY <1>1 DEF EntryShape
  <2>5. EntryShape([y EXCEPT !.path = u])
    BY <1>1 DEF EntryShape
  <2> QED
    BY <2>1, <2>2, <2>3, <2>4, <2>5
<1>2. EntryShape([x EXCEPT !.tls = v]) /\ EntryShape([x EXCEPT !.network = v])
  BY <1>1
<1>3. /\ EntryShape([[x EXCEPT !.tls = v] EXCEPT !.servername = w])
      /\ EntryShape([[x EXCEPT !.tls = v] EXCEPT !.sni = w])
      /\ EntryShape([[x EXCEPT !.network = v] EXCEPT !.path = w])
  BY <1>1, <1>2
<1> QED
  BY <1>2, <1>3, Zenon

\* A new entry has the fields of an entry.
LEMMA ShapeOfNew ==
    ASSUME NEW type, NEW l
    PROVE  EntryShape(Entry(type, l))
  BY DEF EntryShape, Entry

\* An entry has the fields of an entry, whatever it is made from ...
LEMMA ShapeOfEntry ==
    ASSUME NEW n, NEW e \in ClashEntry(n)
    PROVE  EntryShape(e)
<1>4. ASSUME NEW x, EntryShape(x), NEW l
      PROVE  EntryShape(WithWs(x, l))
  <2>1. WithWs(x, l) = x \/ WithWs(x, l) = [x EXCEPT !.network = "ws", !.path = WsPath(l)]
    BY DEF WithWs
  <2>2. EntryShape([x EXCEPT !.network = "ws", !.path = WsPath(l)])
    BY <1>4, ShapeIsKept, Zenon
  <2> QED
    BY <1>4, <2>1, <2>2, Zenon
<1>5. CASE n.kind = "proxy"
  <2> DEFINE secure == (n.link.proto = "https")
             plain == Entry("http", n.link)
  <2>1. e \in ProxyEntry(n)
    BY <1>5 DEF ClashEntry
  <2>2. e = [plain EXCEPT !.tls = secure] \/ e = Entry("socks5", n.link)
    BY <2>1 DEF ProxyEntry
  <2>3. EntryShape(plain) /\ EntryShape(Entry("socks5", n.link))
    BY ShapeOfNew, Zenon
  <2> HIDE DEF secure, plain
  <2>4. EntryShape([plain EXCEPT !.tls = secure])
    BY <2>3, ShapeIsKept, Zenon
  <2> QED
    BY <2>2, <2>3, <2>4, Zenon
<1>6. CASE n.kind # "proxy"
  <2> DEFINE l == ParseURI(n.uri).link
             secure == (l.security = "tls")
             some == [Entry(l.proto, l) EXCEPT !.tls = secure, !.servername = l.sni]
             trojan == [Entry("trojan", l) EXCEPT !.tls = TRUE, !.sni = l.sni]
  <2>1. e \in V2RayEntry(n)
    BY <1>6 DEF ClashEntry
  <2>2. e = Entry("ss", l) \/ e = WithWs(some, l) \/ e = WithWs(trojan, l)
    BY <2>1 DEF V2RayEntry
  <2> HIDE DEF l, secure
  <2>3. EntryShape(Entry("ss", l)) /\ EntryShape(some) /\ EntryShape(trojan)
    BY ShapeOfNew, ShapeIsKept, Zenon
  <2> HIDE DEF some, trojan
  <2>4. EntryShape(WithWs(some, l)) /\ EntryShape(WithWs(trojan, l))
    BY <1>4, <2>3, Zenon
  <2> QED
    BY <2>2, <2>3, <2>4, Zenon
<1> QED
  BY <1>5, <1>6

\* ... and can be read again when it has its name.
LEMMA NamedEntry ==
    ASSUME NEW e, EntryShape(e), NEW name, IsSeq(name)
    PROVE  WellFormedEntry([e EXCEPT !.name = name])
<1>1. [e EXCEPT !.name = name].name = name
  BY DEF EntryShape
<1>2. EntryShape([e EXCEPT !.name = name])
  BY DEF EntryShape
<1> QED
  BY <1>1, <1>2 DEF WellFormedEntry, EntryShape

Named(n, name, entry) ==
    [entry |-> [entry EXCEPT !.name = name], name |-> name,
     base |-> DisplayName(n), region |-> RegionOf(n.country)]

\* What is rendered from rows as they should be.
LEMMA RenderedFine ==
    ASSUME NEW rows, IsSeq(rows), \A n \in Range(rows) : Made(n)
    PROVE  /\ Rendered(rows) \in Seq(EntriesOf(rows)) /\ NamesFine(Rendered(rows))
           /\ \A r \in Range(Rendered(rows)) : WellFormedEntry(r.entry)
<1> DEFINE n == Len(rows)
           K == {r \in EntriesOf(rows) : WellFormedEntry(r.entry)}
<1>1. n \in Nat /\ DOMAIN rows = 1 .. n /\ \A k \in 1 .. n : rows[k] \in Range(rows)
  <2>1. n \in Nat /\ DOMAIN rows = 1 .. n
    BY SeqIsSeq DEF IsSeq
  <2> QED
    BY <2>1 DEF Range
<1>2. PICK f : /\ f[0] = <<>> /\ Rendered(rows) = f[n]
               /\ \A k \in 1 .. n : f[k] = Add(f[k - 1], rows[k])
  BY AddGoesOn
<1> DEFINE Right == {k \in Nat : k <= n => f[k] \in Seq(K) /\ NamesFine(f[k])}
<1>3. 0 \in Right
  <2>1. NamesFine(<<>>)
    BY DEF NamesFine
  <2>2. <<>> \in Seq(K)
    OBVIOUS
  <2> HIDE DEF K
  <2> QED
    BY <1>2, <2>1, <2>2
<1>4. ASSUME NEW k \in Nat, k \in Right
      PROVE  k + 1 \in Right
  <2> SUFFICES ASSUME k + 1 <= n
               PROVE  f[k + 1] \in Seq(K) /\ NamesFine(f[k + 1])
    OBVIOUS
  <2> DEFINE x == rows[k + 1]
             out == f[k]
             b == DisplayName(x)
             t == TimesUsed(out, b)
             name == Numbered(b, t + 1)
             r == RenderedEntry(x, name)
  <2>1. k + 1 \in 1 .. n /\ (k + 1) - 1 = k /\ k <= n
    BY <1>1
  <2>2. out \in Seq(K) /\ NamesFine(out) /\ x \in Range(rows) /\ Made(x)
    BY <1>1, <1>4, <2>1
  <2>3. f[k + 1] = Add(out, x)
    BY <1>2, <2>1
  <2>4. IsSeq(b)
    BY <2>2, DisplayIsSeq
  <2>5. t \in Nat /\ t + 1 \in Nat \ {0}
    <3> HIDE DEF K, out, b
    <3>1. t \in 0 .. Len(out) /\ Len(out) \in Nat
      BY <2>2, UsesAreCounted
    <3> QED
      BY <3>1
  <2>6. IsSeq(name)
    BY <2>4, <2>5, NumberedNames
  <2>7. CASE ClashEntry(x) = {}
    <3>1. f[k + 1] = out
      BY <2>3, <2>7 DEF Add
    <3> QED
      BY <2>2, <3>1
  <2>8. CASE ClashEntry(x) # {}
    <3> DEFINE e == CHOOSE y \in ClashEntry(x) : TRUE
    <3>1. f[k + 1] = Append(out, r)
      BY <2>3, <2>8 DEF Add, UniqueName
    <3>2. e \in ClashEntry(x)
      BY <2>8
    <3>3. r = Named(x, name, e)
      BY DEF RenderedEntry, Named
    <3>4. r \in EntriesOf(rows)
      BY <2>2, <2>5 DEF EntriesOf
    <3> HIDE DEF e, name, K, out, x, r
    <3>5. EntryShape(e)
      BY <3>2, ShapeOfEntry
    <3>6. WellFormedEntry([e EXCEPT !.name = name])
      BY <2>6, <3>5, NamedEntry
    <3>7. r.entry = [e EXCEPT !.name = name] /\ r.name = name /\ r.base = b
      BY <3>3 DEF Named
    <3> HIDE DEF b
    <3>8. r \in K
      BY <3>4, <3>6, <3>7 DEF K
    <3>9. Append(out, r) \in Seq(K)
      BY <2>2, <3>8
    <3>10. NamesFine(Append(out, r))
      BY <2>2, <2>4, <3>7, AddKeeps DEF name
    <3> QED
      BY <3>1, <3>9, <3>10
  <2> QED
    BY <2>7, <2>8
<1>5. n \in Right
  <2> HIDE DEF Right
  <2> QED
    BY <1>1, <1>3, <1>4, NumbersByInduction
<1>6. Rendered(rows) \in Seq(K) /\ NamesFine(Rendered(rows))
  BY <1>1, <1>2, <1>5
<1>7. Range(Rendered(rows)) \subseteq K /\ K \subseteq EntriesOf(rows)
  <2>1. Range(Rendered(rows)) \subseteq K
    <3> HIDE DEF K
    <3> QED
      BY <1>6, SeqIsSeq
  <2> QED
    BY <2>1
<1>8. Rendered(rows) \in Seq(EntriesOf(rows))
  <2> HIDE DEF K
  <2> QED
    BY <1>6, <1>7
<1> QED
  BY <1>6, <1>7, <1>8

-----------------------------------------------------------------------------
(* The groups of a Clash file.                                             *)

\* Every country is in a region that has its group.
LEMMA RegionsAreListed ==
    /\ IsSeq(RegionOrder)
    /\ \A country : RegionOf(country) \in Range(RegionOrder)
    /\ "auto" \notin Range(RegionOrder) /\ "fallback" \notin Range(RegionOrder)
<1> DEFINE K == {"hk-mo", "tw", "jp", "sg", "us", "kr", "europe", "other"}
<1>1. /\ DOMAIN RegionOrder = 1 .. 8
      /\ RegionOrder[1] = "hk-mo" /\ RegionOrder[2] = "tw" /\ RegionOrder[3] = "jp"
      /\ RegionOrder[4] = "sg" /\ RegionOrder[5] = "us" /\ RegionOrder[6] = "kr"
      /\ RegionOrder[7] = "europe" /\ RegionOrder[8] = "other"
  BY DEF RegionOrder
<1>2. RegionOrder \in Seq(K)
  BY DEF RegionOrder
<1>3. \A i \in 1 .. 8 : i \in {1, 2, 3, 4, 5, 6, 7, 8}
  OBVIOUS
<1>4. Range(RegionOrder) = K
  <2>1. \A i \in 1 .. 8 : RegionOrder[i] \in K
    BY <1>1, <1>3
  <2>2. \A x \in K : \E i \in 1 .. 8 : RegionOrder[i] = x
    BY <1>1
  <2> QED
    BY <1>1, <2>1, <2>2 DEF Range
<1>5. \A country : RegionOf(country) \in K
  BY DEF RegionOf
<1>6. "auto" \notin K /\ "fallback" \notin K
  OBVIOUS
<1> HIDE DEF K
<1> QED
  BY <1>2, <1>4, <1>5, <1>6, SeqIsSeq

\* The elements of a sequence are finitely many, and none only if it is empty.
LEMMA RangeIsFinite ==
    ASSUME NEW s, IsSeq(s)
    PROVE  IsFiniteSet(Range(s)) /\ (Range(s) = {} <=> s = <<>>)
<1>1. DOMAIN s = 1 .. Len(s) /\ Len(s) \in Nat /\ s \in Seq(Range(s))
  BY SeqIsSeq DEF IsSeq
<1>2. IsFiniteSet(DOMAIN s)
  BY <1>1, FS_Interval
<1>3. s \in [DOMAIN s -> Range(s)] /\ \A y \in Range(s) : \E i \in DOMAIN s : s[i] = y
  BY <1>1 DEF Range
<1>4. s \in Surjection(DOMAIN s, Range(s))
  BY <1>3 DEF Surjection
<1>5. IsFiniteSet(Range(s))
  BY <1>2, <1>4, FS_Surjection
<1>6. Range(<<>>) = {}
  BY DEF Range
<1>7. s # <<>> => Range(s) # {}
  <2>1. s # <<>> => 1 \in DOMAIN s
    BY <1>1
  <2> QED
    BY <2>1 DEF Range
<1> QED
  BY <1>5, <1>6, <1>7

\* Three things in a finite set are three things.
LEMMA AtLeastThree ==
    ASSUME NEW S, IsFiniteSet(S), NEW a \in S, NEW b \in S, NEW c \in S,
           a # b, a # c, b # c
    PROVE  Cardinality(S) >= 3
<1>1. IsFiniteSet({a}) /\ Cardinality({a}) = 1
  BY FS_Singleton
<1>2. IsFiniteSet({a} \cup {b}) /\ Cardinality({a} \cup {b}) = 2
  <2>1. /\ IsFiniteSet({a} \cup {b})
        /\ Cardinality({a} \cup {b}) =
              IF b \in {a} THEN Cardinality({a}) ELSE Cardinality({a}) + 1
    BY <1>1, FS_AddElement, Zenon
  <2>2. b \notin {a}
    OBVIOUS
  <2> QED
    BY <1>1, <2>1, <2>2
<1>3. /\ IsFiniteSet(({a} \cup {b}) \cup {c})
      /\ Cardinality(({a} \cup {b}) \cup {c}) = 3
  <2> DEFINE two == {a} \cup {b}
  <2>1. IsFiniteSet(two) /\ Cardinality(two) = 2 /\ c \notin two
    BY <1>2
  <2> HIDE DEF two
  <2>2. /\ IsFiniteSet(two \cup {c})
        /\ Cardinality(two \cup {c}) =
              IF c \in two THEN Cardinality(two) ELSE Cardinality(two) + 1
    BY <2>1, FS_AddElement, Zenon
  <2>3. IsFiniteSet(two \cup {c}) /\ Cardinality(two \cup {c}) = 3
    BY <2>1, <2>2
  <2> QED
    BY <2>3 DEF two
<1>4. ({a} \cup {b}) \cup {c} \in SUBSET S
  OBVIOUS
<1>5. 3 <= Cardinality(S)
  BY <1>3, <1>4, FS_Subset
<1>6. Cardinality(S) \in Nat
  BY FS_CardinalityType
<1> QED
  BY <1>5, <1>6

NamesIn(rendered, region) ==
    Mapped(Only(rendered, {r \in Range(rendered) : r.region = region}), LAMBDA r : r.name)
AllNames(rendered) == Mapped(rendered, LAMBDA r : r.name)
Automatic(rendered) ==
    IF AllNames(rendered) = <<>> THEN <<>>
    ELSE <<Group("auto", AllNames(rendered)), Group("fallback", AllNames(rendered))>>
Regional(rendered) ==
    Mapped(Only(RegionOrder, {g \in Range(RegionOrder) : NamesIn(rendered, g) # <<>>}),
           LAMBDA g : Group(g, NamesIn(rendered, g)))
SelectMembers(groups) == <<NamedGroup("DIRECT")>> \o Mapped(groups, LAMBDA g : g.name)

\* The groups are the automatic ones, those of the regions and the one to select from.
LEMMA GroupsAre ==
    ASSUME NEW rendered
    PROVE  LET groups == Automatic(rendered) \o Regional(rendered)
           IN  ClashGroups(rendered) = Append(groups, Group("select", SelectMembers(groups)))
  BY DEF ClashGroups, Automatic, Regional, AllNames, NamesIn, SelectMembers

\* The names of a region are those of its proxies; all names are all.
LEMMA NamesOfRegion ==
    ASSUME NEW rendered, IsSeq(rendered), NEW region
    PROVE  /\ IsSeq(NamesIn(rendered, region)) /\ IsSeq(AllNames(rendered))
           /\ \A x : x \in Range(NamesIn(rendered, region)) <=>
                        \E r \in Range(rendered) : r.region = region /\ x = r.name
           /\ \A x : x \in Range(AllNames(rendered)) <=> \E r \in Range(rendered) : x = r.name
<1> DEFINE some == Only(rendered, {r \in Range(rendered) : r.region = region})
           t == NamesIn(rendered, region)
           u == AllNames(rendered)
<1>1. /\ IsSeq(some)
      /\ Range(some) = Range(rendered) \cap {r \in Range(rendered) : r.region = region}
  BY OnlySome
<1>2. t = [i \in DOMAIN some |-> some[i].name] /\ u = [i \in DOMAIN rendered |-> rendered[i].name]
  BY DEF NamesIn, AllNames, Mapped
<1> HIDE DEF some, t, u
<1>3. IsSeq(t) /\ IsSeq(u)
  BY <1>1, <1>2, MappedIsSeq
<1>4. \A x : x \in Range(t) <=> \E r \in Range(some) : x = r.name
  BY <1>2 DEF Range
<1>5. \A x : x \in Range(u) <=> \E r \in Range(rendered) : x = r.name
  BY <1>2 DEF Range
<1>6. \A x : x \in Range(t) <=> \E r \in Range(rendered) : r.region = region /\ x = r.name
  BY <1>1, <1>4
<1> QED
  BY <1>3, <1>5, <1>6 DEF t, u

\* Which groups there are.
LEMMA WhichGroups ==
    ASSUME NEW rendered, IsSeq(rendered)
    PROVE  LET auto == Group("auto", AllNames(rendered))
               fallback == Group("fallback", AllNames(rendered))
               region(g) == Group(g, NamesIn(rendered, g))
               groups == Automatic(rendered) \o Regional(rendered)
               select == Group("select", SelectMembers(groups))
           IN  /\ IsSeq(ClashGroups(rendered))
               /\ Range(ClashGroups(rendered)) = Range(groups) \cup {select}
               /\ \A g : g \in Range(groups) <=>
                     \/ AllNames(rendered) # <<>> /\ g \in {auto, fallback}
                     \/ \E x \in Range(RegionOrder) :
                           NamesIn(rendered, x) # <<>> /\ g = region(x)
               /\ IsSeq(SelectMembers(groups))
               /\ \A x : x \in Range(SelectMembers(groups)) <=>
                     x = NamedGroup("DIRECT") \/ \E g \in Range(groups) : x = g.name
<1> DEFINE auto == Group("auto", AllNames(rendered))
           fallback == Group("fallback", AllNames(rendered))
           region(g) == Group(g, NamesIn(rendered, g))
           some == Only(RegionOrder, {g \in Range(RegionOrder) : NamesIn(rendered, g) # <<>>})
           a == Automatic(rendered)
           b == Regional(rendered)
           groups == a \o b
           select == Group("select", SelectMembers(groups))
           m == Mapped(groups, LAMBDA g : g.name)
           direct == <<NamedGroup("DIRECT")>>
<1>1. IsSeq(a) /\ \A g : g \in Range(a) <=> AllNames(rendered) # <<>> /\ g \in {auto, fallback}
  <2>1. CASE AllNames(rendered) = <<>>
    <3>1. a = <<>> /\ Range(<<>>) = {}
      BY <2>1 DEF Automatic, Range
    <3> QED
      BY <2>1, <3>1, EmptyIsSeq
  <2>2. CASE AllNames(rendered) # <<>>
    <3>1. a = <<auto, fallback>>
      BY <2>2 DEF Automatic
    <3> HIDE DEF auto, fallback, a
    <3>2. a \in Seq({auto, fallback}) /\ a[1] = auto /\ a[2] = fallback /\ DOMAIN a = {1, 2}
      BY <3>1
    <3>3. IsSeq(a) /\ Range(a) = {auto, fallback}
      BY <3>2, SeqIsSeq DEF Range
    <3> QED
      BY <2>2, <3>3
  <2> QED
    BY <2>1, <2>2
<1>2. /\ IsSeq(b)
      /\ \A g : g \in Range(b) <=>
             \E x \in Range(RegionOrder) : NamesIn(rendered, x) # <<>> /\ g = region(x)
  <2>1. IsSeq(RegionOrder)
    BY RegionsAreListed
  <2>2. /\ IsSeq(some)
        /\ Range(some) = Range(RegionOrder)
                            \cap {g \in Range(RegionOrder) : NamesIn(rendered, g) # <<>>}
    BY <2>1, OnlySome
  <2>3. b = [i \in DOMAIN some |-> region(some[i])]
    BY DEF Regional, Mapped
  <2> HIDE DEF some, b, region
  <2>4. IsSeq(b)
    BY <2>2, <2>3, MappedIsSeq
  <2>5. \A g : g \in Range(b) <=> \E x \in Range(some) : g = region(x)
    BY <2>3 DEF Range
  <2> QED
    BY <2>2, <2>4, <2>5
<1> HIDE DEF a, b, auto, fallback, region
<1>3. IsSeq(groups) /\ Range(groups) = Range(a) \cup Range(b)
  BY <1>1, <1>2, JoinedIsSeq
<1>4. m = [i \in DOMAIN groups |-> groups[i].name]
  BY DEF Mapped
<1>5. ClashGroups(rendered) = Append(groups, select)
  BY GroupsAre DEF a, b
<1>6. SelectMembers(groups) = direct \o m
  BY DEF SelectMembers
<1> HIDE DEF groups, m, select
<1>7. IsSeq(m) /\ \A x : x \in Range(m) <=> \E g \in Range(groups) : x = g.name
  BY <1>3, <1>4, MappedIsSeq DEF Range
<1>8. IsSeq(direct) /\ Range(direct) = {NamedGroup("DIRECT")}
  <2>1. direct \in Seq({NamedGroup("DIRECT")}) /\ direct[1] = NamedGroup("DIRECT")
        /\ DOMAIN direct = {1}
    OBVIOUS
  <2> HIDE DEF direct
  <2> QED
    BY <2>1, SeqIsSeq DEF Range
<1> HIDE DEF direct
<1>9. IsSeq(direct \o m) /\ Range(direct \o m) = Range(direct) \cup Range(m)
  BY <1>7, <1>8, JoinedIsSeq
<1>10. groups \in Seq(Range(groups))
  BY <1>3 DEF IsSeq
<1>11. Range(Append(groups, select)) = Range(groups) \cup {select}
  BY <1>10, RangeOfAppend
<1>12. IsSeq(Append(groups, select))
  <2> DEFINE K == Range(groups) \cup {select}
  <2>1. Range(groups) \subseteq K /\ select \in K
    OBVIOUS
  <2> HIDE DEF K
  <2>2. groups \in Seq(K)
    BY <1>10, <2>1
  <2>3. Append(groups, select) \in Seq(K)
    BY <2>1, <2>2
  <2> QED
    BY <2>3, SeqIsSeq
<1>13. \A g : g \in Range(groups) <=> \/ AllNames(rendered) # <<>> /\ g \in {auto, fallback}
                                      \/ \E x \in Range(RegionOrder) :
                                            NamesIn(rendered, x) # <<>> /\ g = region(x)
  BY <1>1, <1>2, <1>3
<1>14. IsSeq(SelectMembers(groups))
       /\ \A x : x \in Range(SelectMembers(groups)) <=>
                    x = NamedGroup("DIRECT") \/ \E g \in Range(groups) : x = g.name
  BY <1>6, <1>7, <1>8, <1>9
<1> QED
  BY <1>5, <1>11, <1>12, <1>13, <1>14 DEF groups, select, a, b, auto, fallback, region

\* Groups of one name are one group's.
LEMMA GroupNames ==
    ASSUME NEW a, NEW b, NEW s, NEW t
    PROVE  /\ Group(a, s).name = NamedGroup(a) /\ Group(a, s).members = s
           /\ Group(a, s) = Group(b, t) => a = b
<1>1. Group(a, s).name = NamedGroup(a) /\ Group(a, s).members = s
  BY DEF Group
<1>2. Group(b, t).name = NamedGroup(b)
  BY DEF Group
<1>3. NamedGroup(a) = NamedGroup(b) => a = b
  <2>1. NamedGroup(a)[1] = Word(a) /\ NamedGroup(b)[1] = Word(b)
    BY DEF NamedGroup
  <2>2. Word(a)[2] = a /\ Word(b)[2] = b
    BY DEF Word
  <2> QED
    BY <2>1, <2>2, Zenon
<1>4. Group(a, s) = Group(b, t) => a = b
  BY <1>1, <1>2, <1>3, Zenon
<1> QED
  BY <1>1, <1>4

\* Every proxy is in three groups, and every group names what there is.
LEMMA Selectable ==
    ASSUME NEW rendered, IsSeq(rendered),
           \A r \in Range(rendered) : r.region \in Range(RegionOrder)
    PROVE  LET groups == Range(ClashGroups(rendered))
               names == {r.name : r \in Range(rendered)}
               known == names \cup {g.name : g \in groups} \cup {NamedGroup("DIRECT")}
           IN  /\ \A g \in groups : g.members # <<>> /\ Range(g.members) \subseteq known
               /\ \A name \in names :
                      Cardinality({g \in groups : name \in Range(g.members)}) >= 3
               /\ \A g \in groups : g.name # NamedGroup("select") =>
                      \E h \in groups : h.name = NamedGroup("select")
                                            /\ g.name \in Range(h.members)
<1> DEFINE groups == Range(ClashGroups(rendered))
           names == {r.name : r \in Range(rendered)}
           known == names \cup {g.name : g \in groups} \cup {NamedGroup("DIRECT")}
           all == AllNames(rendered)
           In(g) == NamesIn(rendered, g)
           auto == Group("auto", all)
           fallback == Group("fallback", all)
           listed == Range(Automatic(rendered) \o Regional(rendered))
           members == SelectMembers(Automatic(rendered) \o Regional(rendered))
           select == Group("select", members)
<1>1. /\ groups = listed \cup {select} /\ IsSeq(members) /\ IsSeq(ClashGroups(rendered))
      /\ \A g : g \in listed <=> \/ all # <<>> /\ g \in {auto, fallback}
                                 \/ \E x \in Range(RegionOrder) : In(x) # <<>> /\ g = Group(x, In(x))
      /\ \A x : x \in Range(members) <=>
                   x = NamedGroup("DIRECT") \/ \E g \in listed : x = g.name
  BY WhichGroups
<1>2. /\ IsSeq(all) /\ \A x : x \in Range(all) <=> x \in names
      /\ \A region : /\ IsSeq(In(region))
                     /\ \A x : x \in Range(In(region)) <=>
                            \E r \in Range(rendered) : r.region = region /\ x = r.name
  BY NamesOfRegion
<1>3. /\ auto.members = all /\ fallback.members = all
      /\ \A x : Group(x, In(x)).members = In(x)
      /\ select.members = members /\ select.name = NamedGroup("select")
  BY GroupNames
<1>4. /\ auto # fallback
      /\ \A x \in Range(RegionOrder) : Group(x, In(x)) # auto /\ Group(x, In(x)) # fallback
  <2>1. "auto" # "fallback" /\ "auto" \notin Range(RegionOrder) /\ "fallback" \notin Range(RegionOrder)
    BY RegionsAreListed
  <2>2. auto # fallback
    BY <2>1, GroupNames
  <2>3. ASSUME NEW x \in Range(RegionOrder)
        PROVE  Group(x, In(x)) # auto /\ Group(x, In(x)) # fallback
    BY <2>1, GroupNames
  <2> QED
    BY <2>2, <2>3
<1>5. IsFiniteSet(groups)
  BY <1>1, RangeIsFinite
<1> HIDE DEF groups, all, In, auto, fallback, listed, members, select
<1>6. ASSUME NEW g \in groups
      PROVE  g.members # <<>> /\ Range(g.members) \subseteq known
  <2>1. CASE g = select
    <3>1. g.members = members
      BY <1>3, <2>1
    <3>2. NamedGroup("DIRECT") \in Range(members)
      BY <1>1
    <3>3. members # <<>>
      BY <1>1, <3>2, RangeIsFinite
    <3>4. ASSUME NEW x \in Range(members)
          PROVE  x \in known
      <4>1. x = NamedGroup("DIRECT") \/ \E h \in groups : x = h.name
        BY <1>1
      <4> QED
        BY <4>1
    <3> QED
      BY <3>1, <3>3, <3>4
  <2>2. CASE all # <<>> /\ g \in {auto, fallback}
    <3>1. g.members = all
      BY <1>3, <2>2
    <3>2. Range(all) \subseteq names
      BY <1>2
    <3> QED
      BY <2>2, <3>1, <3>2
  <2>3. ASSUME NEW x \in Range(RegionOrder), In(x) # <<>>, g = Group(x, In(x))
        PROVE  g.members # <<>> /\ Range(g.members) \subseteq known
    <3>1. g.members = In(x)
      BY <1>3, <2>3
    <3>2. Range(In(x)) \subseteq names
      BY <1>2
    <3> QED
      BY <2>3, <3>1, <3>2
  <2>4. g = select \/ g \in listed
    BY <1>1
  <2> QED
    BY <1>1, <2>1, <2>2, <2>3, <2>4
<1>7. ASSUME NEW name \in names
      PROVE  Cardinality({g \in groups : name \in Range(g.members)}) >= 3
  <2> DEFINE S == {g \in groups : name \in Range(g.members)}
  <2>1. PICK r \in Range(rendered) : name = r.name
    OBVIOUS
  <2> DEFINE x == r.region
             region == Group(x, In(x))
  <2>2. x \in Range(RegionOrder)
    OBVIOUS
  <2>3. name \in Range(all) /\ name \in Range(In(x))
    BY <1>2, <2>1
  <2>4. all # <<>> /\ In(x) # <<>>
    <3>1. Range(<<>>) = {}
      BY DEF Range
    <3> QED
      BY <2>3, <3>1
  <2>5. auto \in groups /\ fallback \in groups
    BY <1>1, <2>4
  <2>6. region \in groups
    BY <1>1, <2>2, <2>4
  <2>7. auto.members = all /\ fallback.members = all /\ region.members = In(x)
    BY <1>3
  <2>8. region # auto /\ region # fallback /\ auto # fallback
    BY <1>4, <2>2
  <2> HIDE DEF x, region
  <2>9. auto \in S /\ fallback \in S /\ region \in S
    BY <2>3, <2>5, <2>6, <2>7
  <2>10. IsFiniteSet(S)
    <3>1. S \in SUBSET groups
      OBVIOUS
    <3> HIDE DEF S
    <3> QED
      BY <1>5, <3>1, FS_Subset
  <2> HIDE DEF S
  <2>11. Cardinality(S) >= 3
    BY <2>8, <2>9, <2>10, AtLeastThree
  <2> QED
    BY <2>11 DEF S
<1>8. ASSUME NEW g \in groups, g.name # NamedGroup("select")
      PROVE  \E h \in groups : h.name = NamedGroup("select") /\ g.name \in Range(h.members)
  <2>1. g \in listed /\ select \in groups
    BY <1>1, <1>3, <1>8
  <2>2. g.name \in Range(select.members)
    BY <1>1, <1>3, <2>1
  <2> QED
    BY <1>3, <2>1, <2>2
<1> QED
  BY <1>6, <1>7, <1>8 DEF groups


-----------------------------------------------------------------------------
(* What a Clash entry carries.                                             *)

\* Links with the same parts have the same fingerprint.
LEMMA SameFingerprint ==
    ASSUME NEW kind, NEW a, NEW b, a.proto = b.proto, a.at = b.at, a.cred = b.cred,
           a.proto \in {"vmess", "vless", "trojan"} =>
               /\ a.transport = b.transport /\ a.security = b.security
               /\ a.path = b.path /\ a.sni = b.sni,
           a.proto = "vmess" => a.aid = b.aid
    PROVE  Fingerprint(kind, a) = Fingerprint(kind, b)
<1>1. CASE a.proto = "vmess"
  BY <1>1 DEF Fingerprint
<1>2. CASE a.proto \in {"vless", "trojan"}
  BY <1>2 DEF Fingerprint
<1>3. CASE a.proto \notin {"vmess", "vless", "trojan"}
  BY <1>3 DEF Fingerprint
<1> QED
  BY <1>1, <1>2, <1>3

\* The fingerprint of a node is that of its link.
LEMMA NodeFingerprint ==
    ASSUME NEW kind \in {"proxy", "v2ray"}, NEW l, NEW uri, NEW name,
           NEW n, n = Node(kind, l, uri, name)
    PROVE  n \notin {Failed, Panics} /\ n.fp = Fingerprint(kind, l)
<1>1. n.kind = kind /\ n.fp = Fingerprint(kind, l)
  BY DEF Node
<1>2. n # Failed /\ n # Panics
  BY <1>1, NodeIsNoError
<1> QED
  BY <1>1, <1>2

\* The name of an entry is no part of what its link is made of.
LEMMA EntryParts ==
    ASSUME NEW e, EntryShape(e), NEW name, NEW x, x = [e EXCEPT !.name = name]
    PROVE  /\ x.type = e.type /\ x.server = e.server /\ x.cred = e.cred /\ x.tls = e.tls
           /\ x.network = e.network /\ x.path = e.path /\ x.sni = e.sni
  BY DEF EntryShape

\* What a link takes from the entry it is written for.
TakenFrom(q, x) ==
    /\ q.proto = x.type /\ q.at = x.server /\ q.aid = 0
    /\ x.type \in {"http", "socks5", "trojan"} => q.cred = QueryEscape[x.cred]
    /\ x.type \notin {"http", "socks5", "trojan"} => q.cred = x.cred
    /\ x.type \in {"vmess", "vless"} =>
           /\ q.transport = x.network /\ q.path = x.path /\ q.sni = ""
           /\ q.security = IF x.tls THEN "tls" ELSE ""
    /\ x.type = "trojan" =>
           q.transport = "" /\ q.path = "" /\ q.sni = x.sni /\ q.security = "tls"

AllParts(q) ==
    q = [proto |-> q.proto, at |-> q.at, cred |-> q.cred, transport |-> q.transport,
         security |-> q.security, path |-> q.path, sni |-> q.sni, aid |-> q.aid,
         name |-> q.name]

\* The link that is written for an entry is a record with those parts.
LEMMA EntryLinkParts ==
    ASSUME NEW x
    PROVE  TakenFrom(ClashToLink(x), x) /\ AllParts(ClashToLink(x))
<1>1. CASE x.type \in {"vmess", "vless"}
  BY <1>1 DEF ClashToLink, PathOf, TakenFrom, AllParts
<1>2. CASE x.type \notin {"vmess", "vless"}
  BY <1>2 DEF ClashToLink, PathOf, TakenFrom, AllParts
<1> QED
  BY <1>1, <1>2

\* The entry x is read as a node with the fingerprint fp.
ReadAs(x, fp) ==
    LET q == ClashToLink(x)
    IN  x.type \in ClashTypes /\ ParseURI(q) \notin {Failed, Panics} /\ ParseURI(q).fp = fp

\* The entry of a plain proxy is read as the same proxy.
LEMMA ProxyEntryReadsBack ==
    ASSUME NEW n, Made(n), n.kind = "proxy", ~n.maven, Carried(n)
    PROVE  /\ ClashEntry(n) # {}
           /\ \A e \in ClashEntry(n) : \A name : ReadAs([e EXCEPT !.name = name], n.fp)
<1> DEFINE l == n.link
<1>1. /\ l.proto \in {"http", "socks5"} /\ Unescape[l.cred] = l.cred
      /\ Unescape[QueryEscape[l.cred]] = l.cred
  <2>2. l.proto \notin {"ss", "trojan", "vmess", "vless"}
    BY DEF Made, ProxyProtocols
  <2>1. l.proto \in {"http", "socks5"} /\ Settled(n) /\ Unescape[QueryEscape[l.cred]] = l.cred
    BY <2>2 DEF Carried
  <2> QED
    BY <2>1 DEF Settled
<1>2. l.cred # Unreadable /\ n.fp = Fingerprint("proxy", l)
  BY DEF Made, CredentialRead, WasRead
<1>3. ClashEntry(n) # {}
  BY <1>1 DEF ClashEntry, ProxyEntry
<1>4. ASSUME NEW e \in ClashEntry(n)
      PROVE  e.type = l.proto /\ e.server = l.at /\ e.cred = l.cred
  <2>1. e \in ProxyEntry(n)
    BY DEF ClashEntry
  <2>2. CASE l.proto = "http"
    <3>1. e = [Entry("http", l) EXCEPT !.tls = (l.proto = "https")]
      BY <2>1, <2>2 DEF ProxyEntry
    <3> QED
      BY <2>2, <3>1 DEF Entry
  <2>3. CASE l.proto = "socks5"
    <3>1. e = Entry("socks5", l)
      BY <2>1, <2>3 DEF ProxyEntry
    <3> QED
      BY <2>3, <3>1 DEF Entry
  <2> QED
    BY <1>1, <2>2, <2>3
<1> HIDE DEF l
<1>5. ASSUME NEW e \in ClashEntry(n), NEW name
      PROVE  ReadAs([e EXCEPT !.name = name], n.fp)
  <2> DEFINE x == [e EXCEPT !.name = name]
             q == ClashToLink(x)
             m == Link(q.proto, q.at, l.cred)
  <2>1. x.type = l.proto /\ x.server = l.at /\ x.cred = l.cred
    BY <1>4, ShapeOfEntry, EntryParts
  <2> HIDE DEF x
  <2>2. q.proto = l.proto /\ q.at = l.at /\ q.cred = QueryEscape[l.cred]
    <3>0. TakenFrom(q, x)
      BY EntryLinkParts
    <3> HIDE DEF q
    <3>1. /\ q.proto = x.type /\ q.at = x.server
          /\ x.type \in {"http", "socks5", "trojan"} => q.cred = QueryEscape[x.cred]
      BY <3>0 DEF TakenFrom
    <3>2. q.cred = QueryEscape[x.cred]
      BY <1>1, <2>1, <3>1
    <3> QED
      BY <2>1, <3>1, <3>2, Zenon
  <2> HIDE DEF q
  <2>3. Unescape[q.cred] = l.cred /\ Unescape[Unescape[q.cred]] = l.cred
    BY <1>1, <2>2
  <2>4. Normalized(q) = m
    BY <2>3 DEF Normalized
  <2>5. m.proto = l.proto /\ m.at = l.at /\ m.cred = l.cred
    BY <2>2, ProxyLink
  <2>6. CanNormalize(q)
    BY <1>1, <1>2, <2>2, <2>3 DEF CanNormalize, ProxyProtocols
  <2>7. CanNormalize(m)
    BY <1>1, <1>2, <2>5 DEF CanNormalize, ProxyProtocols
  <2>8. m = Link(q.proto, q.at, Unescape[Unescape[q.cred]])
    BY <2>3
  <2> HIDE DEF m
  <2>9. ParseURI(q) \notin {Failed, Panics} /\ ParseURI(q).fp = Fingerprint("proxy", m)
    BY <2>4, <2>6, <2>7, <2>8, ProxyIsRead
  <2>10. m.proto \notin {"vmess", "vless", "trojan"}
    BY <1>1, <2>5
  <2>11. Fingerprint("proxy", m) = Fingerprint("proxy", l)
    BY <2>5, <2>10, SameFingerprint
  <2>12. x.type \in ClashTypes
    BY <1>1, <2>1 DEF ClashTypes
  <2> QED
    BY <1>2, <2>9, <2>11, <2>12 DEF ReadAs, x, q
<1> QED
  BY <1>3, <1>5

\* An entry is read as what its link is parsed as.
LEMMA ReadAsNode ==
    ASSUME NEW x, x.type \in ClashTypes, NEW kind \in {"proxy", "v2ray"}, NEW m, NEW fp,
           NEW uri, NEW name, ParseURI(ClashToLink(x)) = Node(kind, m, uri, name),
           Fingerprint(kind, m) = fp
    PROVE  ReadAs(x, fp)
<1> DEFINE y == Node(kind, m, uri, name)
<1>1. y \notin {Failed, Panics} /\ y.fp = Fingerprint(kind, m)
  BY NodeFingerprint
<1> HIDE DEF y
<1>2. ParseURI(ClashToLink(x)) = y
  BY DEF y
<1> QED
  BY <1>1, <1>2 DEF ReadAs

\* An entry that says all of an ss, a trojan, a vmess or vless link is read as that link.
LEMMA SSReads ==
    ASSUME NEW x, NEW l, x.type = "ss", l.proto = "ss", x.server = l.at, x.cred = l.cred,
           l.cred \notin Slashed, l.cred # ""
    PROVE  ReadAs(x, Fingerprint("v2ray", l))
<1> DEFINE q == ClashToLink(x)
<1>0. TakenFrom(q, x)
  BY EntryLinkParts
<1> HIDE DEF q
<1>1. q.proto = "ss" /\ q.at = l.at /\ q.cred = l.cred
  <2>1. /\ q.proto = x.type /\ q.at = x.server
        /\ x.type \notin {"http", "socks5", "trojan"} => q.cred = x.cred
    BY <1>0 DEF TakenFrom
  <2> QED
    BY <2>1
<1>2. x.type \in ClashTypes
  BY DEF ClashTypes
<1>3. ParseURI(q) = Node("v2ray", q, q, q.name)
  BY <1>1 DEF ParseURI, ParseShareURI, ProxyProtocols
<1>4. Fingerprint("v2ray", q) = Fingerprint("v2ray", l)
  BY <1>1, SameFingerprint
<1> QED
  BY <1>2, <1>3, <1>4, ReadAsNode DEF q

\* A trojan password survives only if its escaped form is read back.
LEMMA TrojanReads ==
    ASSUME NEW x, NEW l, x.type = "trojan", l.proto = "trojan", x.server = l.at,
           x.cred = l.cred, x.sni = l.sni, l.security = "tls", l.transport = "", l.path = "",
           Unescape[QueryEscape[l.cred]] = l.cred, l.cred # Unreadable
    PROVE  ReadAs(x, Fingerprint("v2ray", l))
<1> DEFINE q == ClashToLink(x)
           m == [q EXCEPT !.cred = Unescape[q.cred]]
<1>0. TakenFrom(q, x) /\ AllParts(q)
  BY EntryLinkParts
<1> HIDE DEF q
<1>1. q.proto = "trojan" /\ q.at = l.at /\ q.cred = QueryEscape[l.cred]
  <2>1. /\ q.proto = x.type /\ q.at = x.server
        /\ x.type \in {"http", "socks5", "trojan"} => q.cred = QueryEscape[x.cred]
    BY <1>0 DEF TakenFrom
  <2>2. q.cred = QueryEscape[x.cred]
    BY <2>1
  <2> QED
    BY <2>1, <2>2, Zenon
<1>2. q.transport = "" /\ q.path = "" /\ q.sni = l.sni /\ q.security = "tls"
  <2>1. x.type = "trojan" =>
            q.transport = "" /\ q.path = "" /\ q.sni = x.sni /\ q.security = "tls"
    BY <1>0 DEF TakenFrom
  <2> QED
    BY <2>1
<1>3. x.type \in ClashTypes
  BY DEF ClashTypes
<1>4. /\ m.proto = q.proto /\ m.at = q.at /\ m.cred = Unescape[q.cred]
      /\ m.transport = q.transport /\ m.security = q.security /\ m.path = q.path
      /\ m.sni = q.sni
  BY <1>0 DEF AllParts
<1>5. ParseURI(q) = Node("v2ray", m, q, q.name)
  BY <1>1 DEF ParseURI, ParseShareURI, ProxyProtocols
<1> HIDE DEF m
<1>6. Unescape[q.cred] = l.cred
  BY <1>1
<1>7. Fingerprint("v2ray", m) = Fingerprint("v2ray", l)
  <2>1. /\ m.proto = l.proto /\ m.at = l.at /\ m.cred = l.cred
        /\ m.transport = l.transport /\ m.security = l.security
        /\ m.path = l.path /\ m.sni = l.sni
    BY <1>1, <1>2, <1>4, <1>6, Zenon
  <2>2. m.proto # "vmess"
    BY <1>1, <1>4
  <2> QED
    BY <2>1, <2>2, SameFingerprint
<1> QED
  BY <1>3, <1>5, <1>7, ReadAsNode DEF q

\* The entry x of a vmess or vless link says all of it.
VEntry(x, l) ==
    /\ l.proto \in {"vmess", "vless"} /\ x.type = l.proto /\ x.server = l.at /\ x.cred = l.cred
    /\ x.network = l.transport /\ x.path = l.path /\ l.sni = "" /\ l.aid = 0
    /\ l.security = IF x.tls THEN "tls" ELSE ""
    /\ l.proto = "vless" => Unescape[l.cred] = l.cred /\ l.cred # Unreadable

\* A uuid is written as it is, so that it must have no escapes.
LEMMA VReads ==
    ASSUME NEW x, NEW l, VEntry(x, l)
    PROVE  ReadAs(x, Fingerprint("v2ray", l))
<1> DEFINE q == ClashToLink(x)
           m == IF l.proto = "vmess" THEN q ELSE [q EXCEPT !.cred = Unescape[q.cred]]
<1>0. /\ l.proto \in {"vmess", "vless"} /\ x.type = l.proto /\ x.server = l.at /\ x.cred = l.cred
      /\ l.proto = "vless" => Unescape[l.cred] = l.cred /\ l.cred # Unreadable
  BY DEF VEntry
<1>10. TakenFrom(q, x) /\ AllParts(q)
  BY EntryLinkParts
<1> HIDE DEF q
<1>1. q.proto = l.proto /\ q.at = l.at /\ q.aid = l.aid /\ q.cred = l.cred
  <2>1. /\ q.proto = x.type /\ q.at = x.server
        /\ x.type \notin {"http", "socks5", "trojan"} => q.cred = x.cred
    BY <1>10 DEF TakenFrom
  <2>2. q.aid = l.aid
    BY <1>10 DEF VEntry, TakenFrom
  <2>3. q.cred = x.cred
    BY <1>0, <2>1
  <2> QED
    BY <1>0, <2>1, <2>2, <2>3, Zenon
<1>2. q.transport = l.transport /\ q.path = l.path /\ q.sni = l.sni /\ q.security = l.security
  <2>1. /\ q.transport = x.network /\ q.path = x.path /\ q.sni = ""
        /\ q.security = IF x.tls THEN "tls" ELSE ""
    BY <1>0, <1>10 DEF TakenFrom
  <2>2. /\ x.network = l.transport /\ x.path = l.path /\ l.sni = ""
        /\ l.security = IF x.tls THEN "tls" ELSE ""
    BY DEF VEntry
  <2> QED
    BY <2>1, <2>2, Zenon
<1>3. x.type \in ClashTypes
  BY <1>0 DEF ClashTypes
<1>4. LET o == [q EXCEPT !.cred = Unescape[q.cred]]
      IN  /\ o.proto = q.proto /\ o.at = q.at /\ o.cred = Unescape[q.cred] /\ o.aid = q.aid
          /\ o.transport = q.transport /\ o.security = q.security /\ o.path = q.path
          /\ o.sni = q.sni
  BY <1>10 DEF AllParts
<1>5. ParseURI(q) = Node("v2ray", m, q, q.name)
  <2>1. CASE l.proto = "vmess"
    BY <1>1, <2>1 DEF ParseURI, ParseShareURI, ProxyProtocols
  <2>2. CASE l.proto = "vless"
    <3>1. q.proto = "vless" /\ Unescape[q.cred] # Unreadable
      BY <1>0, <1>1, <2>2
    <3>2. m = [q EXCEPT !.cred = Unescape[q.cred]]
      BY <2>2
    <3> HIDE DEF m
    <3> QED
      BY <3>1, <3>2 DEF ParseURI, ParseShareURI, ProxyProtocols
  <2> QED
    BY <1>0, <2>1, <2>2
<1>6. /\ m.proto = l.proto /\ m.at = l.at /\ m.cred = l.cred /\ m.transport = l.transport
      /\ m.path = l.path /\ m.sni = l.sni /\ m.security = l.security /\ m.aid = l.aid
  <2>1. CASE l.proto = "vmess"
    BY <1>1, <1>2, <2>1
  <2>2. CASE l.proto = "vless"
    <3> DEFINE o == [q EXCEPT !.cred = Unescape[q.cred]]
    <3>1. m = o
      BY <2>2
    <3>2. Unescape[q.cred] = l.cred
      BY <1>0, <1>1, <2>2
    <3> HIDE DEF m
    <3>3. /\ o.proto = q.proto /\ o.at = q.at /\ o.cred = Unescape[q.cred] /\ o.aid = q.aid
          /\ o.transport = q.transport /\ o.security = q.security /\ o.path = q.path
          /\ o.sni = q.sni
      BY <1>4
    <3> HIDE DEF o
    <3> QED
      BY <1>1, <1>2, <3>1, <3>2, <3>3, Zenon
  <2> QED
    BY <1>0, <2>1, <2>2
<1> HIDE DEF m
<1>7. Fingerprint("v2ray", m) = Fingerprint("v2ray", l)
  <2>1. m.proto \in {"vmess", "vless"}
    BY <1>0, <1>6
  <2> QED
    BY <1>6, <2>1 DEF Fingerprint
<1>8. ParseURI(ClashToLink(x)) = Node("v2ray", m, q, q.name)
  BY <1>5 DEF q
<1>9. "v2ray" \in {"proxy", "v2ray"}
  OBVIOUS
<1> QED
  BY <1>3, <1>7, <1>8, <1>9, ReadAsNode, Zenon

WsOrPlain(l) == l.transport = "ws" \/ (l.transport = "" /\ l.path = "")
IsPlain(b) == b.network = "" /\ b.path = ""

\* A ws transport changes the network and the path of an entry only.
LEMMA WsEntryParts ==
    ASSUME NEW b, EntryShape(b), IsPlain(b), NEW l, WsOrPlain(l)
    PROVE  LET x == WithWs(b, l)
           IN  /\ x.type = b.type /\ x.server = b.server /\ x.cred = b.cred /\ x.tls = b.tls
               /\ x.network = l.transport /\ x.path = l.path
<1> DEFINE e == WithWs(b, l)
           Goal == /\ e.type = b.type /\ e.server = b.server /\ e.cred = b.cred
                   /\ e.tls = b.tls /\ e.network = l.transport /\ e.path = l.path
<1>1. b.network = "" /\ b.path = ""
  BY DEF IsPlain
<1>2. ASSUME l.transport = "ws"
      PROVE  Goal
  <2>1. e = [b EXCEPT !.network = "ws", !.path = l.path]
    BY <1>2 DEF WithWs, WsPath
  <2> HIDE DEF e
  <2> QED
    BY <1>2, <2>1 DEF EntryShape
<1>3. ASSUME l.transport = "", l.path = ""
      PROVE  Goal
  <2>1. e = b
    BY <1>3 DEF WithWs
  <2> HIDE DEF e
  <2> QED
    BY <1>1, <1>3, <2>1, Zenon
<1>4. Goal
  BY <1>2, <1>3 DEF WsOrPlain
<1> QED
  BY <1>4

\* The entry of a share link, under whatever name, says what it is made from.
LEMMA TrojanEntryParts ==
    ASSUME NEW l, NEW name, NEW v
    PROVE  LET x == [[Entry("trojan", l) EXCEPT !.tls = v, !.sni = l.sni] EXCEPT !.name = name]
           IN  x.type = "trojan" /\ x.server = l.at /\ x.cred = l.cred /\ x.sni = l.sni
  BY DEF Entry

\* The same for ss ...
LEMMA SSEntryParts ==
    ASSUME NEW l, NEW name, NEW x, x = [Entry("ss", l) EXCEPT !.name = name]
    PROVE  x.type = "ss" /\ x.server = l.at /\ x.cred = l.cred
  BY DEF Entry

SaysAll(x, l, secure) ==
    /\ x.type = l.proto /\ x.server = l.at /\ x.cred = l.cred /\ x.tls = secure
    /\ x.network = l.transport /\ x.path = l.path

\* ... and for vmess and vless.
LEMMA VEntryParts ==
    ASSUME NEW l, WsOrPlain(l), NEW name, NEW secure
    PROVE  LET b == [Entry(l.proto, l) EXCEPT !.tls = secure, !.servername = l.sni]
           IN  SaysAll([WithWs(b, l) EXCEPT !.name = name], l, secure)
<1> DEFINE b == [Entry(l.proto, l) EXCEPT !.tls = secure, !.servername = l.sni]
           e == WithWs(b, l)
           x == [e EXCEPT !.name = name]
<1>1. /\ EntryShape(b) /\ IsPlain(b)
      /\ b.type = l.proto /\ b.server = l.at /\ b.cred = l.cred /\ b.tls = secure
  <2>1. EntryShape(b)
    BY ShapeOfNew, ShapeIsKept, Zenon
  <2>2. IsPlain(b)
    BY DEF Entry, IsPlain
  <2>3. b.type = l.proto /\ b.server = l.at /\ b.cred = l.cred /\ b.tls = secure
    BY DEF Entry
  <2> QED
    BY <2>1, <2>2, <2>3, Zenon
<1> HIDE DEF b
<1>2. /\ e.type = b.type /\ e.server = b.server /\ e.cred = b.cred /\ e.tls = b.tls
      /\ e.network = l.transport /\ e.path = l.path
  BY <1>1, WsEntryParts, Zenon
<1>3. EntryShape(e)
  BY <1>1 DEF EntryShape, WithWs
<1> HIDE DEF e
<1>4. /\ x.type = e.type /\ x.server = e.server /\ x.cred = e.cred /\ x.tls = e.tls
      /\ x.network = e.network /\ x.path = e.path
  BY <1>3, EntryParts
<1> HIDE DEF x
<1>5. SaysAll(x, l, secure)
  BY <1>1, <1>2, <1>4, Zenon DEF SaysAll
<1> QED
  BY <1>5 DEF x, e, b

\* The entry of a share link is read as the same link.
LEMMA ShareEntryReadsBack ==
    ASSUME NEW n, Made(n), n.kind = "v2ray", n.link.at # "", ~n.maven, Carried(n)
    PROVE  /\ ClashEntry(n) # {}
           /\ \A e \in ClashEntry(n) : \A name : ReadAs([e EXCEPT !.name = name], n.fp)
<1> DEFINE l == n.link
<1>1. ParseURI(n.uri) # Failed /\ ParseURI(n.uri).link = l
  <2>1. Settled(n) /\ ReadsBack(n)
    BY DEF Made, Settled
  <2> QED
    BY <2>1 DEF ReadsBack
<1>2. l.proto \in ShareProtocols /\ n.fp = Fingerprint("v2ray", l)
  BY DEF Made
<1>3. WasRead("v2ray", l.proto, l.cred)
  BY DEF Made, CredentialRead
<1>4. ClashEntry(n) = V2RayEntry(n)
  BY DEF ClashEntry
<1>5. CASE l.proto = "ss"
  <2>1. l.cred \notin HalfCreds /\ l.cred \notin Slashed /\ l.cred # ""
    BY <1>3, <1>5 DEF Carried, WasRead
  <2>2. ClashEntry(n) = {Entry("ss", l)}
    BY <1>1, <1>4, <1>5, <2>1 DEF V2RayEntry
  <2> HIDE DEF l
  <2>3. ASSUME NEW e \in ClashEntry(n), NEW name
        PROVE  ReadAs([e EXCEPT !.name = name], n.fp)
    <3> DEFINE x == [Entry("ss", l) EXCEPT !.name = name]
    <3>1. [e EXCEPT !.name = name] = x
      BY <2>2
    <3>2. x.type = "ss" /\ x.server = l.at /\ x.cred = l.cred
      BY SSEntryParts
    <3> HIDE DEF x
    <3>3. ReadAs(x, Fingerprint("v2ray", l))
      BY <1>5, <2>1, <3>2, SSReads
    <3> QED
      BY <1>2, <3>1, <3>3
  <2> QED
    BY <2>2, <2>3
<1>6. CASE l.proto = "trojan"
  <2>1. /\ l.security = "tls" /\ l.transport = "" /\ l.path = ""
        /\ Unescape[QueryEscape[l.cred]] = l.cred /\ l.cred # Unreadable
    BY <1>3, <1>6 DEF Carried, WasRead
  <2>2. ClashEntry(n) = {[Entry("trojan", l) EXCEPT !.tls = TRUE, !.sni = l.sni]}
    BY <1>1, <1>4, <1>6, <2>1 DEF V2RayEntry, WithWs
  <2> HIDE DEF l
  <2>3. ASSUME NEW e \in ClashEntry(n), NEW name
        PROVE  ReadAs([e EXCEPT !.name = name], n.fp)
    <3> DEFINE x == [[Entry("trojan", l) EXCEPT !.tls = TRUE, !.sni = l.sni]
                        EXCEPT !.name = name]
    <3>1. [e EXCEPT !.name = name] = x
      BY <2>2
    <3>2. x.type = "trojan" /\ x.server = l.at /\ x.cred = l.cred /\ x.sni = l.sni
      BY TrojanEntryParts
    <3> HIDE DEF x
    <3>3. ReadAs(x, Fingerprint("v2ray", l))
      BY <1>6, <2>1, <3>2, TrojanReads
    <3> QED
      BY <1>2, <3>1, <3>3
  <2> QED
    BY <2>2, <2>3
<1>7. CASE l.proto \in {"vmess", "vless"}
  <2> DEFINE secure == l.security = "tls"
             base == [Entry(l.proto, l) EXCEPT !.tls = secure, !.servername = l.sni]
  <2>1. /\ l.security \in {"", "tls"} /\ l.sni = "" /\ l.aid = 0
        /\ l.transport = "ws" \/ (l.transport = "" /\ l.path = "")
        /\ l.proto = "vless" => Unescape[l.cred] = l.cred /\ l.cred # Unreadable
    BY <1>3, <1>7 DEF Carried, WasRead
  <2>2. ClashEntry(n) = {WithWs(base, l)}
    BY <1>1, <1>4, <1>7 DEF V2RayEntry
  <2>4. l.security = IF secure THEN "tls" ELSE ""
    BY <2>1
  <2>5. WsOrPlain(l)
    BY <2>1 DEF WsOrPlain
  <2> HIDE DEF l, secure
  <2>3. ASSUME NEW e \in ClashEntry(n), NEW name
        PROVE  ReadAs([e EXCEPT !.name = name], n.fp)
    <3> DEFINE x == [WithWs(base, l) EXCEPT !.name = name]
    <3>1. [e EXCEPT !.name = name] = x
      BY <2>2
    <3>2. SaysAll(x, l, secure)
      BY <2>5, VEntryParts, Zenon
    <3> HIDE DEF x
    <3>3. VEntry(x, l)
      BY <1>7, <2>1, <2>4, <3>2, Zenon DEF VEntry, SaysAll
    <3>4. ReadAs(x, Fingerprint("v2ray", l))
      BY <3>3, VReads, Zenon
    <3> QED
      BY <1>2, <3>1, <3>4
  <2> QED
    BY <2>2, <2>3
<1> QED
  BY <1>2, <1>5, <1>6, <1>7 DEF ShareProtocols

\* Every entry of a file that can be read is among what is read.
LEMMA EntryIsRead ==
    ASSUME NEW entries, IsSeq(entries), NEW x \in Range(entries), NEW fp, ReadAs(x, fp)
    PROVE  \E m \in Range(ParseClashYAML(entries)) : m.fp = fp
<1> DEFINE known == {e \in Range(entries) : e.type \in ClashTypes}
           read == Only(entries, known)
           t == Mapped(read, ClashToLink)
           u == Mapped(t, ParseURI)
           n == ParseURI(ClashToLink(x))
<1>1. IsSeq(read) /\ Range(read) = Range(entries) \cap known
  BY OnlySome
<1>2. x \in known
  BY DEF ReadAs
<1>3. n # Failed /\ n.fp = fp
  BY DEF ReadAs
<1>4. ParseClashYAML(entries) = Kept(u)
  BY DEF ParseClashYAML
<1> HIDE DEF read, known
<1>5. t = [i \in DOMAIN read |-> ClashToLink(read[i])]
  BY DEF Mapped
<1>6. u = [i \in DOMAIN t |-> ParseURI(t[i])]
  BY DEF Mapped
<1> HIDE DEF t, u, n
<1>7. IsSeq(t) /\ DOMAIN t = DOMAIN read
  BY <1>1, <1>5, MappedIsSeq
<1>8. IsSeq(u) /\ DOMAIN u = DOMAIN t
  BY <1>6, <1>7, MappedIsSeq
<1>9. PICK i \in DOMAIN read : read[i] = x
  BY <1>1, <1>2 DEF Range
<1>10. u[i] = n /\ i \in DOMAIN u
  BY <1>5, <1>6, <1>7, <1>8, <1>9 DEF n
<1>11. n \in Range(u) /\ n \in Range(u) \ {Failed}
  BY <1>3, <1>10 DEF Range
<1>12. n \in Range(Kept(u))
  BY <1>8, <1>11, OnlySome DEF Kept
<1> QED
  BY <1>3, <1>4, <1>12

\* The row n has its entry in out.
HasEntry(n, out) ==
    ClashEntry(n) = {} \/ \E r \in Range(out) : \E e \in ClashEntry(n) : \E name :
                                                   r.entry = [e EXCEPT !.name = name]

\* Every row that has an entry at all has it in the file.
LEMMA RowsHaveEntries ==
    ASSUME NEW rows, IsSeq(rows)
    PROVE  \A n \in Range(rows) : HasEntry(n, Rendered(rows))
<1> DEFINE n == Len(rows)
           K == EntriesOf(rows)
<1>1. n \in Nat /\ DOMAIN rows = 1 .. n /\ \A k \in 1 .. n : rows[k] \in Range(rows)
  <2>1. n \in Nat /\ DOMAIN rows = 1 .. n
    BY SeqIsSeq DEF IsSeq
  <2> QED
    BY <2>1 DEF Range
<1>2. PICK f : /\ f[0] = <<>> /\ Rendered(rows) = f[n]
               /\ \A k \in 1 .. n : f[k] = Add(f[k - 1], rows[k])
  BY AddGoesOn
<1> DEFINE Right == {k \in Nat : k <= n =>
                        f[k] \in Seq(K) /\ \A i \in 1 .. k : HasEntry(rows[i], f[k])}
<1>3. 0 \in Right
  <2>1. <<>> \in Seq(K) /\ 1 .. 0 = {}
    OBVIOUS
  <2> HIDE DEF K
  <2>2. f[0] \in Seq(K) /\ \A i \in 1 .. 0 : HasEntry(rows[i], f[0])
    BY <1>2, <2>1
  <2> QED
    BY <2>2
<1>4. ASSUME NEW k \in Nat, k \in Right
      PROVE  k + 1 \in Right
  <2> SUFFICES ASSUME k + 1 <= n
               PROVE  f[k + 1] \in Seq(K) /\ \A i \in 1 .. (k + 1) : HasEntry(rows[i], f[k + 1])
    OBVIOUS
  <2> DEFINE x == rows[k + 1]
             out == f[k]
             t == TimesUsed(out, DisplayName(x))
             name == Numbered(DisplayName(x), t + 1)
             r == RenderedEntry(x, name)
  <2>1. k + 1 \in 1 .. n /\ (k + 1) - 1 = k /\ k <= n
    BY <1>1
  <2>2. out \in Seq(K) /\ x \in Range(rows) /\ \A i \in 1 .. k : HasEntry(rows[i], out)
    BY <1>1, <1>4, <2>1
  <2>3. f[k + 1] = Add(out, x)
    BY <1>2, <2>1
  <2>4. \A i \in 1 .. (k + 1) : i \in 1 .. k \/ rows[i] = x
    BY <1>1
  <2>5. CASE ClashEntry(x) = {}
    <3>1. f[k + 1] = out
      BY <2>3, <2>5 DEF Add
    <3>2. HasEntry(x, out)
      BY <2>5 DEF HasEntry
    <3> HIDE DEF out, x, K
    <3> QED
      BY <2>2, <2>4, <3>1, <3>2
  <2>6. CASE ClashEntry(x) # {}
    <3> DEFINE e == CHOOSE y \in ClashEntry(x) : TRUE
    <3>1. f[k + 1] = Append(out, r)
      BY <2>3, <2>6 DEF Add, UniqueName
    <3>2. t \in Nat
      <4> HIDE DEF K, out, x
      <4>1. t \in 0 .. Len(out) /\ Len(out) \in Nat
        BY <2>2, UsesAreCounted
      <4> QED
        BY <4>1
    <3>3. r \in K
      <4>1. t + 1 \in Nat
        BY <3>2
      <4> QED
        BY <2>2, <4>1 DEF EntriesOf
    <3>4. e \in ClashEntry(x)
      BY <2>6
    <3>5. r.entry = [e EXCEPT !.name = name]
      <4>1. r = Named(x, name, e)
        BY DEF RenderedEntry, Named
      <4> HIDE DEF r, x, name, e
      <4> QED
        BY <4>1 DEF Named
    <3> HIDE DEF e, name, K, out, x, r
    <3>6. Append(out, r) \in Seq(K) /\ Range(Append(out, r)) = Range(out) \cup {r}
      BY <2>2, <3>3, RangeOfAppend
    <3>7. HasEntry(x, Append(out, r))
      BY <3>4, <3>5, <3>6 DEF HasEntry
    <3>8. \A i \in 1 .. k : HasEntry(rows[i], Append(out, r))
      BY <2>2, <3>6 DEF HasEntry
    <3> QED
      BY <2>4, <3>1, <3>6, <3>7, <3>8
  <2> QED
    BY <2>5, <2>6
<1>5. n \in Right
  <2> HIDE DEF Right
  <2> QED
    BY <1>1, <1>3, <1>4, NumbersByInduction
<1>6. \A i \in 1 .. n : HasEntry(rows[i], Rendered(rows))
  BY <1>1, <1>2, <1>5
<1> QED
  BY <1>1, <1>6 DEF Range

\* The lines of a file have the row n, if an entry can say all of it.
Given(n, lines) ==
    Carried(n) /\ ~n.maven => \E x \in Range(lines) : ReadAs(x, n.fp)

\* What is rendered from valid rows gives them.
LEMMA RowsAreGiven ==
    ASSUME NEW rows, IsSeq(rows), NEW n \in Range(rows), Made(n), n.link.at # ""
    PROVE  Given(n, Mapped(Rendered(rows), LAMBDA r : r.entry))
<1> DEFINE out == Rendered(rows)
           lines == Mapped(out, LAMBDA r : r.entry)
<1> SUFFICES ASSUME Carried(n), ~n.maven
             PROVE  \E x \in Range(lines) : ReadAs(x, n.fp)
  BY DEF Given
<1>1. /\ ClashEntry(n) # {}
      /\ \A e \in ClashEntry(n) : \A name : ReadAs([e EXCEPT !.name = name], n.fp)
  <2>1. n.kind = "proxy" \/ n.kind = "v2ray"
    BY DEF Made
  <2>2. CASE n.kind = "proxy"
    BY <2>2, ProxyEntryReadsBack
  <2>3. CASE n.kind = "v2ray"
    BY <2>3, ShareEntryReadsBack
  <2> QED
    BY <2>1, <2>2, <2>3
<1>2. HasEntry(n, out)
  BY RowsHaveEntries
<1>3. lines = [i \in DOMAIN out |-> out[i].entry]
  BY DEF Mapped
<1> HIDE DEF out, lines
<1>4. PICK r \in Range(out) : \E e \in ClashEntry(n) : \E name : r.entry = [e EXCEPT !.name = name]
  BY <1>1, <1>2 DEF HasEntry
<1>5. ReadAs(r.entry, n.fp)
  BY <1>1, <1>4
<1>6. r.entry \in Range(lines)
  BY <1>3 DEF Range
<1> QED
  BY <1>5, <1>6

\* Whether a row is given does not depend on what changes in it.
LEMMA StillGiven ==
    ASSUME NEW n, Made(n), NEW m, Made(m), m.fp = n.fp, NEW lines, Given(n, lines)
    PROVE  Given(m, lines)
<1>1. m.kind = n.kind /\ m.link = n.link /\ m.maven = n.maven
  BY OneFingerprintOneProxy
<1>2. Carried(m) => Carried(n)
  BY <1>1 DEF Carried, Settled
<1> QED
  BY <1>1, <1>2 DEF Given

-----------------------------------------------------------------------------
(* The catalogue.                                                          *)

DocMade ==
    \/ doc = NoDoc
    \/ /\ doc.format = "clash" /\ LinesOfType("clash_yaml", doc.lines)
       /\ IsSeq(doc.rendered) /\ NamesFine(doc.rendered)
       /\ \A r \in Range(doc.rendered) : r.region \in Range(RegionOrder)
       /\ doc.groups = ClashGroups(doc.rendered)
    \/ doc.format \in Formats \ {"clash"} /\ LinesOfType("text", doc.lines)

\* The rows a Clash file was made from are still there, and the file gives them.
DocGiven ==
    doc.format = "clash" =>
        \A i \in DOMAIN doc.from :
            doc.from[i] \in DOMAIN catalog /\ Given(catalog[doc.from[i]], doc.lines)

\* Every row reads back as itself, and so does what was rendered from them.
CatalogInv == TableMade(catalog) /\ IsFiniteSet(DOMAIN catalog) /\ DocMade /\ DocGiven

\* An empty table and no document.
LEMMA CatalogInitially ==
    ASSUME CatalogInit
    PROVE  CatalogInv
<1>1. TableMade(catalog)
  BY DEF CatalogInit, TableMade
<1>2. DOMAIN catalog = {}
  BY DEF CatalogInit
<1>3. DocMade
  BY DEF CatalogInit, DocMade
<1>4. DocGiven
  BY DEF CatalogInit, DocGiven, NoDoc
<1> QED
  BY <1>1, <1>2, <1>3, <1>4, FS_EmptySet DEF CatalogInv

\* Rows stay, and the files that were made from them still give them.
LEMMA GivenStays ==
    ASSUME TableMade(catalog), TableMade(catalog'), DOMAIN catalog \subseteq DOMAIN catalog',
           DocGiven, doc' = doc
    PROVE  DocGiven'
<1> SUFFICES ASSUME doc.format = "clash", NEW i \in DOMAIN doc.from
             PROVE  doc.from[i] \in DOMAIN catalog' /\ Given(catalog'[doc.from[i]], doc.lines)
  BY DEF DocGiven
<1> DEFINE fp == doc.from[i]
<1>1. fp \in DOMAIN catalog /\ fp \in DOMAIN catalog' /\ Given(catalog[fp], doc.lines)
  BY DEF DocGiven
<1> HIDE DEF fp
<1>2. /\ Made(catalog[fp]) /\ catalog[fp].fp = fp
      /\ Made(catalog'[fp]) /\ catalog'[fp].fp = fp
  BY <1>1 DEF TableMade
<1>3. Given(catalog'[fp], doc.lines)
  BY <1>1, <1>2, StillGiven
<1> QED
  BY <1>1, <1>3 DEF fp

\* The rows after a fetch are those before it and those of the batch.
LEMMA TakeKeeps ==
    ASSUME CatalogInv, NEW batch, MadeBatch(batch), Take(batch)
    PROVE  CatalogInv'
<1>1. DocMade'
  BY DEF Take, CatalogInv, DocMade
<1>2. CASE UNCHANGED catalog
  BY <1>1, <1>2 DEF CatalogInv, TableMade, DocGiven, Take
<1>3. ASSUME Panics \notin Range(batch), NEW some \in Cut(batch),
             catalog' = Upserted(catalog, some)
      PROVE  TableMade(catalog') /\ IsFiniteSet(DOMAIN catalog') /\ DocGiven'
  <2>1. IsSeq(some) /\ Range(some) \subseteq Range(batch)
    BY <1>3, CutKeeps DEF MadeBatch
  <2>2. \A n \in Range(some) : Made(n)
    BY <1>3, <2>1 DEF MadeBatch
  <2>3. TableMade(catalog')
    BY <1>3, <2>1, <2>2, UpsertMade DEF CatalogInv
  <2> DEFINE fps == {some[i].fp : i \in DOMAIN some}
  <2>4. DOMAIN catalog' = DOMAIN catalog \cup fps
    BY <1>3 DEF Upserted
  <2>5. IsFiniteSet(fps)
    <3>1. DOMAIN some = 1 .. Len(some) /\ Len(some) \in Nat
      BY <2>1, SeqIsSeq DEF IsSeq
    <3>2. IsFiniteSet(DOMAIN some)
      BY <3>1, FS_Interval
    <3> DEFINE g == [i \in DOMAIN some |-> some[i].fp]
    <3>3. fps = {g[i] : i \in DOMAIN some}
      OBVIOUS
    <3>4. g \in [DOMAIN some -> fps] /\ \A y \in fps : \E i \in DOMAIN some : g[i] = y
      BY <3>3
    <3>5. g \in Surjection(DOMAIN some, fps)
      <4> HIDE DEF g, fps
      <4> QED
        BY <3>4 DEF Surjection
    <3> HIDE DEF g, fps
    <3> QED
      BY <3>2, <3>5, FS_Surjection
  <2>6. IsFiniteSet(DOMAIN catalog')
    <3> HIDE DEF fps
    <3> QED
      BY <2>4, <2>5, FS_Union DEF CatalogInv
  <2>7. DocGiven'
    <3> HIDE DEF fps
    <3> QED
      BY <2>3, <2>4, GivenStays DEF CatalogInv, Take
  <2> QED
    BY <2>3, <2>6, <2>7
<1> QED
  BY <1>1, <1>2, <1>3 DEF Take, CatalogInv

\* A check changes the status, the country and the purity of a row.
LEMMA CheckedParts ==
    ASSUME NEW row, NEW v, NEW c, NEW p, NEW new,
           new = [row EXCEPT !.status = v, !.country = c, !.purity = p],
           row = [kind |-> row.kind, fp |-> row.fp, link |-> row.link, uri |-> row.uri,
                  name |-> row.name, country |-> row.country, maven |-> row.maven,
                  status |-> row.status, purity |-> row.purity]
    PROVE  /\ new = [kind |-> new.kind, fp |-> new.fp, link |-> new.link, uri |-> new.uri,
                     name |-> new.name, country |-> new.country, maven |-> new.maven,
                     status |-> new.status, purity |-> new.purity]
           /\ new.kind = row.kind /\ new.fp = row.fp /\ new.link = row.link
           /\ new.uri = row.uri /\ new.name = row.name /\ new.maven = row.maven
  OBVIOUS

\* A check changes what no link and no fingerprint is made of.
LEMMA CheckKeeps ==
    ASSUME CatalogInv, NEW fp \in DOMAIN catalog, NEW v \in Verdicts, CheckPasses(fp, v)
    PROVE  CatalogInv'
<1> DEFINE row == catalog[fp]
           new == [row EXCEPT !.status = "valid", !.country = v.country, !.purity = v.purity]
<1>1. Made(row) /\ row.fp = fp
  BY DEF CatalogInv, TableMade
<1>2. catalog = [f \in DOMAIN catalog |-> catalog[f]]
  BY DEF CatalogInv, TableMade
<1>3. DOMAIN catalog' = DOMAIN catalog /\ catalog' = [f \in DOMAIN catalog |-> catalog'[f]]
  BY <1>2 DEF CheckPasses
<1>4. \A f \in DOMAIN catalog : f # fp => catalog'[f] = catalog[f]
  BY <1>2 DEF CheckPasses
<1>5. catalog'[fp] = new
  BY <1>2 DEF CheckPasses
<1>6. /\ new = [kind |-> new.kind, fp |-> new.fp, link |-> new.link, uri |-> new.uri,
                name |-> new.name, country |-> new.country, maven |-> new.maven,
                status |-> new.status, purity |-> new.purity]
      /\ new.kind = row.kind /\ new.fp = row.fp /\ new.link = row.link
      /\ new.uri = row.uri /\ new.name = row.name /\ new.maven = row.maven
  <2>1. row = [kind |-> row.kind, fp |-> row.fp, link |-> row.link, uri |-> row.uri,
               name |-> row.name, country |-> row.country, maven |-> row.maven,
               status |-> row.status, purity |-> row.purity]
    BY <1>1 DEF Made
  <2>2. new = [row EXCEPT !.status = "valid", !.country = v.country, !.purity = v.purity]
    OBVIOUS
  <2> HIDE DEF row, new
  <2> QED
    BY <2>1, <2>2, CheckedParts
<1> HIDE DEF new, row
<1>7. Made(new)
  <2>2. CredentialRead(new)
    BY <1>1, <1>6 DEF Made, CredentialRead
  <2>3. new.link.at # ""
    BY <1>6 DEF CheckPasses, row
  <2>1. ReadsBack(new)
    <3>1. ReadsBack(row)
      BY <1>1 DEF Made
    <3>2. Settled(new) <=> Settled(row)
      BY <1>6 DEF Settled
    <3> QED
      BY <1>6, <3>1, <3>2 DEF ReadsBack
  <2> QED
    BY <1>1, <1>6, <2>1, <2>2, <2>3 DEF Made
<1>8. \A f \in DOMAIN catalog : Made(catalog'[f]) /\ catalog'[f].fp = f
  <2>1. \A f \in DOMAIN catalog : Made(catalog[f]) /\ catalog[f].fp = f
    BY DEF CatalogInv, TableMade
  <2> QED
    BY <1>1, <1>4, <1>5, <1>6, <1>7, <2>1
<1>9. TableMade(catalog')
  BY <1>3, <1>8 DEF TableMade
<1>10. DocMade'
  BY DEF CheckPasses, CatalogInv, DocMade
<1>11. DocGiven'
  BY <1>3, <1>9, GivenStays DEF CheckPasses, CatalogInv
<1> QED
  BY <1>3, <1>9, <1>10, <1>11 DEF CatalogInv

\* A document is made of rows of the table.
LEMMA RowsListed ==
    ASSUME CatalogInv, NEW listing \in Listings
    PROVE  LET rows == Mapped(listing, LAMBDA fp : catalog[fp])
           IN  /\ IsSeq(rows) /\ DOMAIN rows = DOMAIN listing
               /\ \A n \in Range(rows) : Made(n) /\ n.link.at # ""
               /\ \A i \in DOMAIN listing : listing[i] \in DOMAIN catalog
                                          /\ catalog[listing[i]] \in Range(rows)
<1> DEFINE S == {fp \in DOMAIN catalog : catalog[fp].status = "valid"}
           rows == Mapped(listing, LAMBDA fp : catalog[fp])
<1>1. S \in SUBSET DOMAIN catalog /\ listing \in SetToSeqs(S)
  BY DEF Listings
<1>2. Cardinality(S) \in Nat
  <2> HIDE DEF S
  <2>1. IsFiniteSet(S)
    BY <1>1, FS_Subset DEF CatalogInv
  <2> QED
    BY <2>1, FS_CardinalityType
<1> HIDE DEF S
<1>3. listing \in [1 .. Cardinality(S) -> S]
  BY <1>1 DEF SetToSeqs
<1>4. listing \in Seq(S)
  BY <1>2, <1>3
<1>5. IsSeq(listing)
  BY <1>4, SeqIsSeq
<1>6. rows = [i \in DOMAIN listing |-> catalog[listing[i]]]
  BY DEF Mapped
<1> HIDE DEF rows
<1>7. IsSeq(rows) /\ DOMAIN rows = DOMAIN listing
  BY <1>5, <1>6, MappedIsSeq
<1>8. \A i \in DOMAIN listing :
          listing[i] \in DOMAIN catalog /\ catalog[listing[i]].status = "valid"
  BY <1>1, <1>3 DEF S
<1>9. \A n \in Range(rows) : Made(n) /\ n.status = "valid"
  BY <1>6, <1>8 DEF Range, CatalogInv, TableMade
<1>10. \A n \in Range(rows) : n.link.at # ""
  BY <1>9 DEF Made
<1>11. \A i \in DOMAIN listing : catalog[listing[i]] \in Range(rows)
  BY <1>6, <1>7 DEF Range
<1> QED
  BY <1>7, <1>8, <1>9, <1>10, <1>11 DEF rows

\* The lines of a subscription are links.
LEMMA PlainLineFine ==
    ASSUME NEW n, Made(n), NEW format
    PROVE  WellFormed(PlainLine(n, format))
<1>1. WellFormed(n.uri)
  BY DEF Made
<1>2. \A at : WellFormed(Link("", at, ""))
  BY EmptyIsSeq DEF Link, WellFormed
<1> QED
  BY <1>1, <1>2 DEF PlainLine

\* A subscription has links that are well formed, or entries, names and groups as they should be.
LEMMA RenderKeeps ==
    ASSUME CatalogInv, NEW format \in Formats, RenderDoc(format)
    PROVE  CatalogInv'
<1>1. PICK listing \in Listings : doc' = Document(format, listing)
  BY DEF RenderDoc
<1> DEFINE rows == Mapped(listing, LAMBDA fp : catalog[fp])
           rendered == Rendered(rows)
           entries == Mapped(rendered, LAMBDA r : r.entry)
           links == Mapped(rows, LAMBDA n : PlainLine(n, format))
<1>2. /\ IsSeq(rows) /\ \A n \in Range(rows) : Made(n) /\ n.link.at # ""
      /\ \A i \in DOMAIN listing : listing[i] \in DOMAIN catalog
                                 /\ catalog[listing[i]] \in Range(rows)
  BY RowsListed
<1>3. CASE format = "clash"
  <2>1. /\ doc'.format = "clash" /\ doc'.rendered = rendered /\ doc'.lines = entries
        /\ doc'.groups = ClashGroups(rendered) /\ doc'.from = listing
    BY <1>1, <1>3 DEF Document
  <2> HIDE DEF rows
  <2>10. \A n \in Range(rows) : Given(n, entries)
    BY <1>2, RowsAreGiven
  <2>2. /\ rendered \in Seq(EntriesOf(rows)) /\ NamesFine(rendered)
        /\ \A r \in Range(rendered) : WellFormedEntry(r.entry)
    BY <1>2, RenderedFine
  <2>3. entries = [i \in DOMAIN rendered |-> rendered[i].entry]
    BY DEF Mapped
  <2>9. \A r \in Range(rendered) : r.region \in Range(RegionOrder)
    <3>1. Range(rendered) \subseteq EntriesOf(rows)
      BY <2>2, SeqIsSeq
    <3>2. \A n, name : RenderedEntry(n, name).region = RegionOf(n.country)
      BY DEF RenderedEntry
    <3> QED
      BY <3>1, <3>2, RegionsAreListed DEF EntriesOf
  <2> HIDE DEF rendered, entries
  <2>4. IsSeq(rendered)
    BY <2>2, SeqIsSeq
  <2>5. IsSeq(entries)
    BY <2>3, <2>4, MappedIsSeq
  <2>6. \A e \in Range(entries) : WellFormedEntry(e)
    BY <2>2, <2>3 DEF Range
  <2>7. LinesOfType("clash_yaml", entries)
    BY <2>5, <2>6 DEF LinesOfType
  <2>8. DocMade'
    BY <2>1, <2>2, <2>4, <2>7, <2>9 DEF DocMade
  <2>11. DocGiven'
    <3>1. catalog' = catalog
      BY DEF RenderDoc
    <3> QED
      BY <1>2, <2>1, <2>10, <3>1 DEF DocGiven
  <2> QED
    BY <2>8, <2>11 DEF RenderDoc, CatalogInv, TableMade
<1>4. CASE format # "clash"
  <2>1. doc'.format = format /\ doc'.lines = links
    BY <1>1, <1>4 DEF Document
  <2> HIDE DEF rows
  <2>2. links = [i \in DOMAIN rows |-> PlainLine(rows[i], format)]
    BY DEF Mapped
  <2> HIDE DEF links
  <2>3. IsSeq(links)
    BY <1>2, <2>2, MappedIsSeq
  <2>4. \A l \in Range(links) : WellFormed(l)
    <3> SUFFICES ASSUME NEW l \in Range(links)
                 PROVE  WellFormed(l)
      OBVIOUS
    <3>1. PICK i \in DOMAIN rows : l = PlainLine(rows[i], format)
      BY <2>2 DEF Range
    <3>2. Made(rows[i])
      BY <1>2, <3>1 DEF Range
    <3> QED
      BY <3>1, <3>2, PlainLineFine, Zenon
  <2>5. LinesOfType("text", links)
    BY <2>3, <2>4 DEF LinesOfType
  <2>6. DocMade'
    BY <1>4, <2>1, <2>5 DEF DocMade
  <2>7. DocGiven'
    BY <1>4, <2>1 DEF DocGiven
  <2> QED
    BY <2>6, <2>7 DEF RenderDoc, CatalogInv, TableMade
<1> QED
  BY <1>3, <1>4

\* A document holds lines of the kind that each reader finds in it.
LEMMA ReadBackKeeps ==
    ASSUME CatalogInv, NEW type \in {"text", "sub_base64", "clash_yaml"}, ReadBack(type)
    PROVE  CatalogInv'
<1> DEFINE lines == LinesOf(doc, type)
<1>1. doc # NoDoc /\ DocMade /\ Take(Read(type, lines, "http"))
  BY DEF ReadBack, CatalogInv
<1>2. \A t : LinesOfType(t, <<>>)
  <2>1. Range(<<>>) = {}
    BY DEF Range
  <2> QED
    BY <2>1, EmptyIsSeq DEF LinesOfType
<1>3. LinesOfType(type, lines)
  <2>1. CASE type = "clash_yaml"
    BY <1>1, <1>2, <2>1 DEF LinesOf, DocMade
  <2>2. CASE type \in {"text", "sub_base64"}
    <3>1. doc.format # "clash" => LinesOfType("text", doc.lines)
      BY <1>1 DEF DocMade
    <3>2. LinesOfType("text", doc.lines) => LinesOfType(type, doc.lines)
      BY <2>2 DEF LinesOfType
    <3>3. lines = <<>> \/ (doc.format # "clash" /\ lines = doc.lines)
      BY <2>2 DEF LinesOf
    <3> HIDE DEF lines
    <3> QED
      BY <1>2, <3>1, <3>2, <3>3
  <2> QED
    BY <2>1, <2>2
<1> HIDE DEF lines
<1>4. MadeBatch(Read(type, lines, "http"))
  BY <1>3, ReadMakes
<1> QED
  BY <1>1, <1>4, TakeKeeps

\* Every step keeps the invariant ...
LEMMA CatalogStep ==
    ASSUME CatalogInv, [CatalogNext]_catalogVars
    PROVE  CatalogInv'
<1>1. ASSUME NEW feed \in Feeds, FetchFeed(feed)
      PROVE  CatalogInv'
  <2>1. MadeBatch(Read(feed.type, feed.lines, feed.scheme))
    BY CatalogAssumption, ReadMakes
  <2> QED
    BY <1>1, <2>1, TakeKeeps DEF FetchFeed
<1>2. CASE UNCHANGED catalogVars
  BY <1>2 DEF catalogVars, CatalogInv, TableMade, DocMade, DocGiven
<1> QED
  BY <1>1, <1>2, CheckKeeps, RenderKeeps, ReadBackKeeps DEF CatalogNext

\* ... which therefore always holds.
LEMMA CatalogInvHolds == CatalogSpec => []CatalogInv
<1>1. CatalogInit => CatalogInv
  BY CatalogInitially
<1>2. CatalogInv /\ [CatalogNext]_catalogVars => CatalogInv'
  BY CatalogStep
<1> QED
  BY <1>1, <1>2, PTL DEF CatalogSpec

\* Whatever the sources delivered, in whatever order, and whatever was rendered
\* and read again: the link that the subscriptions hand out for a row is read
\* back as the proxy that the checks of the row dial, and as the same row.
THEOREM LinksAreTheNodes == CatalogSpec => []LinkIsTheNode
<1>1. CatalogInv => LinkIsTheNode
  BY DEF CatalogInv, TableMade, Made, ReadsBack, LinkIsTheNode
<1> QED
  BY <1>1, CatalogInvHolds, PTL

\* Two proxies of a Clash file have one name only if a name that was delivered
\* ends in the number that another was given.
THEOREM NamesRepeatOnlyBySuffix == CatalogSpec => []DuplicateOnlyBySuffix
<1>1. CatalogInv => DuplicateOnlyBySuffix
  <2> SUFFICES ASSUME CatalogInv, doc.format = "clash",
                      NEW i \in DOMAIN doc.rendered, NEW j \in DOMAIN doc.rendered,
                      i # j, doc.rendered[i].name = doc.rendered[j].name
               PROVE  \E a, b \in {i, j} : \E k \in 2 .. Len(doc.rendered) :
                          doc.rendered[a].base = Append(doc.rendered[b].base, <<"dash", k>>)
    BY DEF DuplicateOnlyBySuffix
  <2> DEFINE out == doc.rendered
             b == out[i].base
             c == out[j].base
  <2>1. IsSeq(out) /\ NamesFine(out)
    BY DEF CatalogInv, DocMade, NoDoc
  <2>2. \A name : TimesUsed(out, name) \in 0 .. Len(out)
    <3>1. out \in Seq(Range(out))
      BY <2>1 DEF IsSeq
    <3> QED
      BY <3>1, UsesAreCounted
  <2> HIDE DEF out
  <2>3. IsSeq(b) /\ IsSeq(c) /\ b # c
    BY <2>1 DEF NamesFine, out
  <2>4. PICK k \in 1 .. TimesUsed(out, b) : out[i].name = Numbered(b, k)
    BY <2>1 DEF NamesFine, out
  <2>5. PICK l \in 1 .. TimesUsed(out, c) : out[j].name = Numbered(c, l)
    BY <2>1 DEF NamesFine, out
  <2>6. Len(out) \in Nat
    BY <2>1 DEF IsSeq
  <2>7. k \in Nat \ {0} /\ k <= Len(out) /\ l \in Nat \ {0} /\ l <= Len(out)
    BY <2>2, <2>4, <2>5, <2>6
  <2> HIDE DEF b, c
  <2>8. Numbered(b, k) = Numbered(c, l)
    BY <2>4, <2>5 DEF out
  <2>9. \/ l # 1 /\ b = Append(c, <<"dash", l>>)
        \/ k # 1 /\ c = Append(b, <<"dash", k>>)
    BY <2>3, <2>7, <2>8, NumberedApart
  <2>10. CASE l # 1 /\ b = Append(c, <<"dash", l>>)
    <3>1. l \in 2 .. Len(out)
      BY <2>6, <2>7, <2>10
    <3> QED
      BY <2>10, <3>1 DEF b, c, out
  <2>11. CASE k # 1 /\ c = Append(b, <<"dash", k>>)
    <3>1. k \in 2 .. Len(out)
      BY <2>6, <2>7, <2>11
    <3> QED
      BY <2>11, <3>1 DEF b, c, out
  <2> QED
    BY <2>9, <2>10, <2>11
<1> QED
  BY <1>1, CatalogInvHolds, PTL

\* Every proxy of a Clash file can be chosen: by hand, automatically and in its
\* region, and no group names what the file does not define.
THEOREM ProxiesAreSelectable == CatalogSpec => []EveryProxySelectable
<1>1. CatalogInv => EveryProxySelectable
  <2> SUFFICES ASSUME CatalogInv, doc.format = "clash"
               PROVE  EveryProxySelectable
    BY DEF EveryProxySelectable
  <2>1. /\ IsSeq(doc.rendered) /\ doc.groups = ClashGroups(doc.rendered)
        /\ \A r \in Range(doc.rendered) : r.region \in Range(RegionOrder)
    BY DEF CatalogInv, DocMade, NoDoc
  <2> QED
    BY <2>1, Selectable DEF EveryProxySelectable
<1> QED
  BY <1>1, CatalogInvHolds, PTL

\* The check tool, and a pool whose source the file is, read every row that an
\* entry can say all of back as the same row, whatever else the file lists.
THEOREM ClashFilesReadBack == CatalogSpec => []ClashReadsBack
<1>1. CatalogInv => ClashReadsBack
  <2> SUFFICES ASSUME CatalogInv, doc.format = "clash", NEW i \in DOMAIN doc.from,
                      Carried(catalog[doc.from[i]]), ~catalog[doc.from[i]].maven
               PROVE  \E m \in Range(ToolNodes(doc, "auto")) : m.fp = catalog[doc.from[i]].fp
    BY DEF ClashReadsBack
  <2> DEFINE n == catalog[doc.from[i]]
  <2>1. PICK x \in Range(doc.lines) : ReadAs(x, n.fp)
    BY DEF CatalogInv, DocGiven, Given
  <2>2. IsSeq(doc.lines)
    BY DEF CatalogInv, DocMade, NoDoc, LinesOfType
  <2>3. ToolNodes(doc, "auto") = ParseClashYAML(doc.lines)
    BY DEF ToolNodes, DetectFormat, LinesOf, Read
  <2> HIDE DEF n
  <2>4. \E m \in Range(ParseClashYAML(doc.lines)) : m.fp = n.fp
    BY <2>1, <2>2, EntryIsRead
  <2> QED
    BY <2>3, <2>4 DEF n
<1> QED
  BY <1>1, CatalogInvHolds, PTL

=============================================================================

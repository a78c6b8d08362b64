-------------------------- MODULE NodeCheckProofs --------------------------
(***************************************************************************)
(* Proofs about NodeCheck for any number of fingerprints and workers, with *)
(* samples and with statements that fail; and, where single flight covers  *)
(* every check, about the order of the checks of a node.                   *)
(***************************************************************************)
EXTENDS NodeCheck, FiniteSetTheorems, SequenceTheorems, TLAPS

Rows == [id : Nat \ {0}, born : Nat, status : {"unknown", "valid", "invalid"},
         lastSeen : Nat, lastChecked : Nat, lastOK : Nat,
         okCount : Nat, failCount : Nat, failStreak : Nat, banUntil : Nat]
Entries == [at : Nat, ok : BOOLEAN]

Typed ==
    /\ clock \in Nat
    /\ row \in [Fingerprints -> Rows \cup {NoRow}]
    /\ nextId \in Nat \ {0}
    /\ checks \subseteq [id : Nat, fp : Fingerprints, at : Nat, ok : BOOLEAN, born : Nat]
    /\ log \in [Fingerprints -> Seq(Entries)]
    /\ pc \in [Workers -> {"idle", "load", "probe", "apply", "ban"}]
    /\ job \in [Workers -> [id : Nat, fp : Fingerprints]]
    /\ checkedAt \in [Workers -> Nat]
    /\ snap \in [Workers -> Rows \cup {NoRow}]
    /\ outcome \in [Workers -> BOOLEAN]
    /\ cutoff \in Nat

\* An id is given out once, and to one row at a time.
IdsAreUnique ==
    /\ \A f \in Fingerprints : Exists(f) => row[f].id < nextId /\ row[f].born = row[f].id
    /\ \A f, g \in Fingerprints :
          Exists(f) /\ Exists(g) /\ row[f].id = row[g].id => f = g

Measuring(w) == pc[w] \in {"probe", "apply", "ban"}

\* The row a worker loaded, if it is still there, is that of its fingerprint.
SnapsAreOfTheirJobs ==
    \A w \in Workers : Measuring(w) =>
        /\ snap[w] \in Rows /\ snap[w].id < nextId /\ snap[w].born = snap[w].id
        /\ job[w].fp \in Fingerprints
        /\ \A f \in Fingerprints : Exists(f) /\ row[f].id = snap[w].id => f = job[w].fp

TableInv == Typed /\ IdsAreUnique /\ SnapsAreOfTheirJobs /\ ChecksBelong

-----------------------------------------------------------------------------
(* The store.                                                              *)

\* A row that is there has the fields of one; none has the id of NoRow.
LEMMA ExistsIsRow ==
    ASSUME Typed, NEW f \in Fingerprints
    PROVE  Exists(f) <=> row[f] \in Rows
BY DEF Typed, Exists, Rows, NoRow

\* What ApplyNodeCheck makes of a row is a row: the same one, one check older.
LEMMA CheckedIsRow ==
    ASSUME NEW r \in Rows, NEW at \in Nat, NEW ok \in BOOLEAN
    PROVE  /\ Checked(r, at, ok) \in Rows
           /\ Checked(r, at, ok).id = r.id
           /\ Checked(r, at, ok).born = r.born
           /\ Checked(r, at, ok).lastChecked = at
           /\ Checked(r, at, ok).okCount = IF ok THEN r.okCount + 1 ELSE r.okCount
           /\ Checked(r, at, ok).failCount = IF ok THEN r.failCount ELSE r.failCount + 1
           /\ Checked(r, at, ok).failStreak = IF ok THEN 0 ELSE r.failStreak + 1
           /\ Checked(r, at, ok).status = IF ok THEN "valid" ELSE "invalid"
<1>1. r.okCount + 1 \in Nat /\ r.failCount + 1 \in Nat /\ r.failStreak + 1 \in Nat
  BY DEF Rows
<1>2. CASE ok
  BY <1>1, <1>2 DEF Checked, Rows
<1>3. CASE ~ok
  BY <1>1, <1>3 DEF Checked, Rows
<1> QED
  BY <1>2, <1>3

\* UpsertNodes inserts a row.
LEMMA NewRowIsRow ==
    ASSUME Typed, NEW at \in Nat
    PROVE  NewRow(nextId, at) \in Rows
BY DEF NewRow, Rows, Typed

\* What a step of the store may do to the rows: no row gets an id that was given
\* out before, and ids stay unique.
RowsKept ==
    /\ row' \in [Fingerprints -> Rows \cup {NoRow}]
    /\ log' \in [Fingerprints -> Seq(Entries)]
    /\ nextId' \in Nat /\ nextId' >= nextId
    /\ \A f \in Fingerprints : Exists(f)' =>
          /\ row'[f].id < nextId' /\ row'[f].born = row'[f].id
          /\ row'[f].id < nextId => Exists(f) /\ row[f].id = row'[f].id
    /\ \A f, g \in Fingerprints :
          Exists(f)' /\ Exists(g)' /\ row'[f].id = row'[g].id => f = g

\* UpsertNodes takes no row away, and gives none another id.
LEMMA UpsertKeepsRows ==
    ASSUME Typed, IdsAreUnique, NEW f \in Fingerprints, NEW at \in Nat, Upsert(f, at)
    PROVE  /\ RowsKept
           /\ \A g \in Fingerprints : Exists(g) =>
                 Exists(g)' /\ row'[g].id = row[g].id /\ row'[g].born = row[g].born
<1>1. CASE Exists(f)
  <2>1. /\ row' = [row EXCEPT ![f] = [row[f] EXCEPT !.lastSeen = at]]
        /\ UNCHANGED <<nextId, log>>
    BY <1>1 DEF Upsert
  <2>2. /\ row[f] \in Rows /\ [row[f] EXCEPT !.lastSeen = at] \in Rows
        /\ [row[f] EXCEPT !.lastSeen = at].id = row[f].id
        /\ [row[f] EXCEPT !.lastSeen = at].born = row[f].born
    BY <1>1, ExistsIsRow DEF Rows
  <2>3. row' \in [Fingerprints -> Rows \cup {NoRow}]
    BY <2>1, <2>2 DEF Typed
  <2>4. \A g \in Fingerprints : /\ Exists(g)' <=> Exists(g)
                                /\ row'[g].id = row[g].id /\ row'[g].born = row[g].born
    BY <1>1, <2>1, <2>2 DEF Typed, Exists, NoRow, Rows
  <2> QED
    BY <2>1, <2>3, <2>4 DEF RowsKept, IdsAreUnique, Typed
<1>2. CASE ~Exists(f)
  <2>1. /\ row' = [row EXCEPT ![f] = NewRow(nextId, at)]
        /\ nextId' = nextId + 1
        /\ log' = [log EXCEPT ![f] = <<>>]
    BY <1>2 DEF Upsert, InsertedId
  <2>2. /\ NewRow(nextId, at) \in Rows
        /\ NewRow(nextId, at).id = nextId /\ NewRow(nextId, at).born = nextId
    BY NewRowIsRow DEF NewRow
  <2>3. /\ row' \in [Fingerprints -> Rows \cup {NoRow}]
        /\ log' \in [Fingerprints -> Seq(Entries)]
    BY <2>1, <2>2 DEF Typed
  <2>4. \A g \in Fingerprints : g # f => row'[g] = row[g]
    BY <2>1 DEF Typed
  <2>5. row'[f].id = nextId /\ row'[f].born = nextId
    BY <2>1, <2>2 DEF Typed
  <2>6. \A g \in Fingerprints : g # f => (Exists(g)' <=> Exists(g))
    BY <2>4 DEF Exists
  <2>7. \A g \in Fingerprints : Exists(g) => g # f
    BY <1>2
  <2>8. nextId \in Nat
    BY DEF Typed
  <2>9. \A g \in Fingerprints : Exists(g) =>
           row[g].id \in Nat /\ row[g].id < nextId /\ row[g].born = row[g].id
    BY ExistsIsRow DEF Rows, IdsAreUnique
  <2>10. \A g \in Fingerprints : Exists(g)' =>
            /\ row'[g].id < nextId' /\ row'[g].born = row'[g].id
            /\ row'[g].id < nextId => Exists(g) /\ row[g].id = row'[g].id
    BY <2>1, <2>4, <2>5, <2>6, <2>8, <2>9
  <2>11. \A g, h \in Fingerprints :
            Exists(g)' /\ Exists(h)' /\ row'[g].id = row'[h].id => g = h
    BY <2>4, <2>5, <2>6, <2>8, <2>9 DEF IdsAreUnique
  <2> QED
    BY <2>1, <2>3, <2>4, <2>6, <2>7, <2>8, <2>10, <2>11 DEF RowsKept
<1> QED
  BY <1>1, <1>2

\* ApplyNodeCheck takes no row away, and gives none another id, whether the row of
\* the check is still there or not.
LEMMA ApplyKeepsRows ==
    ASSUME Typed, IdsAreUnique, NEW i \in Nat, NEW f, NEW at \in Nat, NEW ok \in BOOLEAN,
           NEW born, ApplyNodeCheck(i, f, at, ok, born)
    PROVE  /\ RowsKept
           /\ \A g \in Fingerprints : Exists(g) =>
                 Exists(g)' /\ row'[g].id = row[g].id /\ row'[g].born = row[g].born
<1>1. CASE WithId(i) = {}
  BY <1>1 DEF ApplyNodeCheck, tableVars, RowsKept, IdsAreUnique, Typed, Exists
<1>2. CASE WithId(i) # {}
  <2>1. /\ row' = [g \in Fingerprints |->
                       IF g \in WithId(i) THEN Checked(row[g], at, ok) ELSE row[g]]
        /\ log' = [g \in Fingerprints |->
                       IF g \in WithId(i) THEN Append(log[g], [at |-> at, ok |-> ok])
                       ELSE log[g]]
        /\ nextId' = nextId
    BY <1>2 DEF ApplyNodeCheck
  <2>2. \A g \in Fingerprints :
           /\ row'[g] \in Rows \cup {NoRow}
           /\ Exists(g)' <=> Exists(g)
           /\ Exists(g) => row'[g].id = row[g].id /\ row'[g].born = row[g].born
    <3> SUFFICES ASSUME NEW g \in Fingerprints
                 PROVE  /\ row'[g] \in Rows \cup {NoRow}
                        /\ Exists(g)' <=> Exists(g)
                        /\ Exists(g) => row'[g].id = row[g].id /\ row'[g].born = row[g].born
      OBVIOUS
    <3>1. CASE g \in WithId(i)
      <4>1. row[g] \in Rows /\ row'[g] = Checked(row[g], at, ok) /\ Exists(g)
        BY <2>1, <3>1, ExistsIsRow DEF WithId
      <4>2. row'[g] \in Rows /\ row'[g].id = row[g].id /\ row'[g].born = row[g].born
        BY <4>1, CheckedIsRow
      <4> QED
        BY <4>1, <4>2 DEF Exists, NoRow, Rows
    <3>2. CASE g \notin WithId(i)
      BY <2>1, <3>2 DEF Typed, Exists
    <3> QED
      BY <3>1, <3>2
  <2>3. \A g \in Fingerprints : log'[g] \in Seq(Entries)
    <3>1. [at |-> at, ok |-> ok] \in Entries
      BY DEF Entries
    <3> QED
      BY <2>1, <3>1, AppendProperties DEF Typed
  <2>4. /\ row' \in [Fingerprints -> Rows \cup {NoRow}]
        /\ log' \in [Fingerprints -> Seq(Entries)]
    BY <2>1, <2>2, <2>3
  <2> QED
    BY <2>1, <2>2, <2>4 DEF RowsKept, IdsAreUnique, Typed
<1> QED
  BY <1>1, <1>2

\* A ban, or its end, takes no row away, and gives none another id.
LEMMA SetBanKeepsRows ==
    ASSUME Typed, IdsAreUnique, NEW i \in Nat, NEW until \in Nat, SetBan(i, until),
           UNCHANGED <<nextId, log>>
    PROVE  /\ RowsKept
           /\ \A g \in Fingerprints : Exists(g) =>
                 Exists(g)' /\ row'[g].id = row[g].id /\ row'[g].born = row[g].born
<1>1. \A g \in Fingerprints :
         /\ row'[g] \in Rows \cup {NoRow}
         /\ Exists(g)' <=> Exists(g)
         /\ Exists(g) => row'[g].id = row[g].id /\ row'[g].born = row[g].born
  <2> SUFFICES ASSUME NEW g \in Fingerprints
               PROVE  /\ row'[g] \in Rows \cup {NoRow}
                      /\ Exists(g)' <=> Exists(g)
                      /\ Exists(g) => row'[g].id = row[g].id /\ row'[g].born = row[g].born
    OBVIOUS
  <2>1. CASE g \in WithId(i)
    <3>1. row[g] \in Rows /\ row'[g] = [row[g] EXCEPT !.banUntil = until] /\ Exists(g)
      BY <2>1, ExistsIsRow DEF WithId, SetBan
    <3>2. row'[g] \in Rows /\ row'[g].id = row[g].id /\ row'[g].born = row[g].born
      BY <3>1 DEF Rows
    <3> QED
      BY <3>1, <3>2 DEF Exists, NoRow, Rows
  <2>2. CASE g \notin WithId(i)
    BY <2>2 DEF Typed, Exists, SetBan
  <2> QED
    BY <2>1, <2>2
<1>2. row' \in [Fingerprints -> Rows \cup {NoRow}]
  BY <1>1 DEF SetBan
<1> QED
  BY <1>1, <1>2 DEF RowsKept, IdsAreUnique, Typed

\* The cleanup loop only takes rows away: an id that is gone is not given out again.
LEMMA PruneKeepsRows ==
    ASSUME Typed, IdsAreUnique, PruneInvalidNodes
    PROVE  RowsKept
<1>1. \A f \in Fingerprints : row'[f] \in {row[f], NoRow} /\ log'[f] \in {log[f], <<>>}
  BY DEF PruneInvalidNodes
<1>2. /\ row' \in [Fingerprints -> Rows \cup {NoRow}]
      /\ log' \in [Fingerprints -> Seq(Entries)]
  BY DEF PruneInvalidNodes, Typed
<1>3. \A f \in Fingerprints : Exists(f)' => Exists(f) /\ row'[f] = row[f]
  BY <1>1 DEF Exists
<1> QED
  BY <1>2, <1>3 DEF RowsKept, IdsAreUnique, Typed, PruneInvalidNodes

\* Nothing happens to the tables.
LEMMA IdleKeepsRows ==
    ASSUME Typed, IdsAreUnique, UNCHANGED tableVars
    PROVE  /\ RowsKept
           /\ \A g \in Fingerprints : Exists(g) =>
                 Exists(g)' /\ row'[g].id = row[g].id /\ row'[g].born = row[g].born
BY DEF tableVars, RowsKept, IdsAreUnique, Typed, Exists

\* Checks whose rows stay what they are belong to them.
LEMMA ChecksStayWithRows ==
    ASSUME Typed, ChecksBelong, checks' \subseteq checks,
           \A g \in Fingerprints : Exists(g) =>
              Exists(g)' /\ row'[g].id = row[g].id /\ row'[g].born = row[g].born
    PROVE  ChecksBelong'
BY DEF ChecksBelong, Typed

\* A worker that neither loads nor ends keeps what is known of its row.
LEMMA SnapStaysWithJob ==
    ASSUME Typed, SnapsAreOfTheirJobs, RowsKept, NEW w \in Workers, Measuring(w),
           snap'[w] = snap[w], job'[w].fp = job[w].fp
    PROVE  /\ snap'[w] \in Rows /\ snap'[w].id < nextId' /\ snap'[w].born = snap'[w].id
           /\ job'[w].fp \in Fingerprints
           /\ \A f \in Fingerprints : Exists(f)' /\ row'[f].id = snap'[w].id => f = job'[w].fp
<1>1. /\ snap[w] \in Rows /\ snap[w].id < nextId /\ snap[w].born = snap[w].id
      /\ job[w].fp \in Fingerprints
      /\ \A f \in Fingerprints : Exists(f) /\ row[f].id = snap[w].id => f = job[w].fp
  BY DEF SnapsAreOfTheirJobs
<1>2. snap[w].id \in Nat /\ nextId \in Nat
  BY <1>1 DEF Rows, Typed
<1> QED
  BY <1>1, <1>2 DEF RowsKept

-----------------------------------------------------------------------------
(* The invariant of the tables.                                            *)

\* The tables are empty at first.
LEMMA TableInitially == NodeCheckAssumption /\ Init => TableInv
<1> SUFFICES ASSUME Fingerprints # {}, Init
             PROVE  TableInv
  BY DEF NodeCheckAssumption
<1>1. (CHOOSE f \in Fingerprints : TRUE) \in Fingerprints
  OBVIOUS
<1> QED
  BY <1>1 DEF Init, TableInv, Typed, IdsAreUnique, SnapsAreOfTheirJobs, ChecksBelong,
              Measuring, Exists, NoRow, Entries

\* Steps that leave the tables and the loaded rows alone.
LEMMA TablesUntouched ==
    ASSUME TableInv, UNCHANGED <<tableVars, snap, outcome>>, clock' \in Nat, cutoff' \in Nat,
           checkedAt' \in [Workers -> Nat],
           job' \in [Workers -> [id : Nat, fp : Fingerprints]],
           pc' \in [Workers -> {"idle", "load", "probe", "apply", "ban"}],
           \A w \in Workers : Measuring(w)' => Measuring(w) /\ job'[w].fp = job[w].fp
    PROVE  TableInv'
<1>1. Typed' /\ IdsAreUnique' /\ ChecksBelong'
  BY DEF TableInv, tableVars, Typed, IdsAreUnique, ChecksBelong, Exists
<1>2. SnapsAreOfTheirJobs'
  BY DEF TableInv, tableVars, SnapsAreOfTheirJobs, Exists
<1> QED
  BY <1>1, <1>2 DEF TableInv

\* Steps of the store that no worker takes.
LEMMA TablesKept ==
    ASSUME TableInv, RowsKept, ChecksBelong', clock' \in Nat, cutoff' \in Nat,
           checks' \subseteq checks, UNCHANGED workerVars
    PROVE  TableInv'
<1>1. Typed'
  BY DEF TableInv, Typed, RowsKept, workerVars
<1>2. IdsAreUnique'
  BY DEF RowsKept, IdsAreUnique
<1>3. SnapsAreOfTheirJobs'
  <2> SUFFICES ASSUME NEW w \in Workers, Measuring(w)'
               PROVE  /\ snap'[w] \in Rows /\ snap'[w].id < nextId' /\ snap'[w].born = snap'[w].id
                      /\ job'[w].fp \in Fingerprints
                      /\ \A f \in Fingerprints :
                            Exists(f)' /\ row'[f].id = snap'[w].id => f = job'[w].fp
    BY DEF SnapsAreOfTheirJobs
  <2>1. Measuring(w) /\ snap'[w] = snap[w] /\ job'[w].fp = job[w].fp
    BY DEF workerVars, Measuring
  <2> QED
    BY <2>1, SnapStaysWithJob DEF TableInv
<1> QED
  BY <1>1, <1>2, <1>3 DEF TableInv

\* A worker that takes a task leaves the tables alone.
LEMMA BeginNodeKeepsTables ==
    ASSUME TableInv, NEW w \in Workers, NEW i \in 1 .. nextId - 1, BeginNode(w, i)
    PROVE  TableInv'
<1>1. /\ job' \in [Workers -> [id : Nat, fp : Fingerprints]]
      /\ \A v \in Workers : job'[v].fp = job[v].fp
  <2>1. i \in Nat
    BY DEF TableInv, Typed
  <2>2. job' = [job EXCEPT ![w] = [job[w] EXCEPT !.id = i]]
    BY DEF BeginNode
  <2>3. [job[w] EXCEPT !.id = i] \in [id : Nat, fp : Fingerprints]
    BY <2>1 DEF TableInv, Typed
  <2> QED
    BY <2>2, <2>3 DEF TableInv, Typed
<1>2. /\ pc' = [pc EXCEPT ![w] = "load"] /\ checkedAt' = [checkedAt EXCEPT ![w] = clock]
      /\ UNCHANGED <<clock, tableVars, snap, outcome, cutoff>>
  BY DEF BeginNode, Goto
<1>3. /\ pc' \in [Workers -> {"idle", "load", "probe", "apply", "ban"}]
      /\ checkedAt' \in [Workers -> Nat]
      /\ \A v \in Workers : Measuring(v)' => Measuring(v)
  BY <1>2 DEF TableInv, Typed, Measuring
<1> QED
  BY <1>1, <1>2, <1>3, TablesUntouched DEF TableInv, Typed

\* A worker that takes a sample leaves the tables alone, and has no row yet.
LEMMA BeginSampleKeepsTables ==
    ASSUME TableInv, NEW w \in Workers, NEW f \in Fingerprints, BeginSample(w, f)
    PROVE  TableInv'
<1>1. /\ job' = [job EXCEPT ![w] = [id |-> 0, fp |-> f]]
      /\ checkedAt' = [checkedAt EXCEPT ![w] = clock]
      /\ pc' = [pc EXCEPT ![w] = "load"]
      /\ UNCHANGED <<clock, snap, outcome, cutoff>>
  BY DEF BeginSample, Goto
<1>2. /\ RowsKept /\ checks' = checks
      /\ \A g \in Fingerprints : Exists(g) =>
            Exists(g)' /\ row'[g].id = row[g].id /\ row'[g].born = row[g].born
  <2>1. CASE Upsert(f, clock)
    BY <2>1, UpsertKeepsRows DEF TableInv, Typed, Upsert
  <2>2. CASE UNCHANGED tableVars
    BY <2>2, IdleKeepsRows DEF TableInv, tableVars
  <2> QED
    BY <2>1, <2>2 DEF BeginSample
<1>3. [id |-> 0, fp |-> f] \in [id : Nat, fp : Fingerprints]
  OBVIOUS
<1>4. Typed'
  <2>1. /\ job' \in [Workers -> [id : Nat, fp : Fingerprints]]
        /\ checkedAt' \in [Workers -> Nat]
        /\ pc' \in [Workers -> {"idle", "load", "probe", "apply", "ban"}]
    BY <1>1, <1>3 DEF TableInv, Typed
  <2>2. /\ row' \in [Fingerprints -> Rows \cup {NoRow}]
        /\ log' \in [Fingerprints -> Seq(Entries)]
        /\ nextId' \in Nat \ {0}
    BY <1>2 DEF TableInv, Typed, RowsKept
  <2> QED
    BY <1>1, <1>2, <2>1, <2>2 DEF TableInv, Typed
<1>5. SnapsAreOfTheirJobs'
  <2> SUFFICES ASSUME NEW v \in Workers, Measuring(v)'
               PROVE  /\ snap'[v] \in Rows /\ snap'[v].id < nextId' /\ snap'[v].born = snap'[v].id
                      /\ job'[v].fp \in Fingerprints
                      /\ \A g \in Fingerprints :
                            Exists(g)' /\ row'[g].id = snap'[v].id => g = job'[v].fp
    BY DEF SnapsAreOfTheirJobs
  <2>1. v # w /\ Measuring(v) /\ snap'[v] = snap[v] /\ job'[v].fp = job[v].fp
    BY <1>1 DEF TableInv, Typed, Measuring
  <2> QED
    BY <1>2, <2>1, SnapStaysWithJob DEF TableInv
<1>6. IdsAreUnique'
  BY <1>2 DEF RowsKept, IdsAreUnique
<1>7. ChecksBelong'
  BY <1>2, ChecksStayWithRows DEF TableInv
<1> QED
  BY <1>4, <1>5, <1>6, <1>7 DEF TableInv

\* A worker loads its row, or stores its sample first: the row it has from then on
\* is that of its fingerprint.
LEMMA LoadKeepsTables ==
    ASSUME TableInv, NEW w \in Workers, Load(w)
    PROVE  TableInv'
<1>1. CASE UNCHANGED <<job, snap>> /\ Goto(w, "idle")
  <2>1. pc' = [pc EXCEPT ![w] = "idle"] /\ UNCHANGED <<clock, tableVars, checkedAt, outcome, cutoff>>
    BY <1>1 DEF Load, Goto
  <2>2. /\ pc' \in [Workers -> {"idle", "load", "probe", "apply", "ban"}]
        /\ \A v \in Workers : Measuring(v)' => Measuring(v)
    BY <2>1 DEF TableInv, Typed, Measuring
  <2> QED
    BY <1>1, <2>1, <2>2, TablesUntouched DEF TableInv, Typed
<1>2. ASSUME NEW f \in Target(w), snap' = [snap EXCEPT ![w] = row[f]],
             job' = [job EXCEPT ![w].fp = f], Goto(w, "probe")
      PROVE  TableInv'
  <2>1. f \in Fingerprints /\ Exists(f)
    <3>1. CASE job[w].id = 0
      BY <1>2, <3>1 DEF Target, TableInv, Typed
    <3>2. CASE job[w].id # 0
      BY <1>2, <3>2 DEF Target, WithId
    <3> QED
      BY <3>1, <3>2
  <2>2. row[f] \in Rows
    BY <2>1, ExistsIsRow DEF TableInv
  <2>3. pc' = [pc EXCEPT ![w] = "probe"] /\ UNCHANGED <<clock, tableVars, checkedAt, outcome, cutoff>>
    BY <1>2 DEF Load, Goto
  <2>4. Typed'
    BY <1>2, <2>1, <2>2, <2>3 DEF TableInv, Typed, tableVars
  <2>5. SnapsAreOfTheirJobs'
    <3> SUFFICES ASSUME NEW v \in Workers, Measuring(v)'
                 PROVE  /\ snap'[v] \in Rows /\ snap'[v].id < nextId
                        /\ snap'[v].born = snap'[v].id
                        /\ job'[v].fp \in Fingerprints
                        /\ \A g \in Fingerprints :
                              Exists(g) /\ row[g].id = snap'[v].id => g = job'[v].fp
      BY <2>3 DEF SnapsAreOfTheirJobs, tableVars, Exists
    <3>1. CASE v = w
      <4>1. snap'[w] = row[f] /\ job'[w].fp = f
        BY <1>2 DEF TableInv, Typed
      <4> QED
        BY <2>1, <2>2, <3>1, <4>1 DEF TableInv, IdsAreUnique
    <3>2. CASE v # w
      <4>1. snap'[v] = snap[v] /\ job'[v].fp = job[v].fp /\ Measuring(v)
        BY <1>2, <2>3, <3>2 DEF TableInv, Typed, Measuring
      <4> QED
        BY <4>1 DEF TableInv, SnapsAreOfTheirJobs
    <3> QED
      BY <3>1, <3>2
  <2> QED
    BY <2>3, <2>4, <2>5 DEF TableInv, IdsAreUnique, ChecksBelong, Exists, tableVars
<1> QED
  BY <1>1, <1>2 DEF Load

\* The probe itself concerns no table.
LEMMA ProbeKeepsTables ==
    ASSUME TableInv, NEW w \in Workers, Probe(w)
    PROVE  TableInv'
<1>1. /\ pc[w] = "probe" /\ pc' = [pc EXCEPT ![w] = "apply"]
      /\ outcome' \in [Workers -> BOOLEAN]
      /\ UNCHANGED <<clock, tableVars, job, checkedAt, snap, cutoff>>
  BY DEF Probe, Goto, TableInv, Typed
<1>2. Typed'
  BY <1>1 DEF TableInv, Typed, tableVars
<1>3. \A v \in Workers : Measuring(v)' => Measuring(v)
  BY <1>1 DEF TableInv, Typed, Measuring
<1>4. SnapsAreOfTheirJobs'
  BY <1>1, <1>3 DEF TableInv, SnapsAreOfTheirJobs, tableVars, Exists
<1> QED
  BY <1>1, <1>2, <1>4 DEF TableInv, IdsAreUnique, ChecksBelong, Exists, tableVars

\* A worker's step that keeps the rows' ids and adds no check but its own.
LEMMA ApplyKeepsTables ==
    ASSUME TableInv, NEW w \in Workers, Apply(w)
    PROVE  TableInv'
<1>1. /\ Measuring(w)
      /\ snap[w] \in Rows /\ snap[w].id < nextId /\ snap[w].born = snap[w].id
      /\ job[w].fp \in Fingerprints
      /\ \A f \in Fingerprints : Exists(f) /\ row[f].id = snap[w].id => f = job[w].fp
  BY DEF TableInv, SnapsAreOfTheirJobs, Apply, Measuring
<1>2. /\ snap[w].id \in Nat /\ snap[w].born \in Nat /\ checkedAt[w] \in Nat
      /\ outcome[w] \in BOOLEAN
  BY <1>1 DEF Rows, TableInv, Typed
<1>3. UNCHANGED <<clock, job, checkedAt, snap, outcome, cutoff>>
  BY DEF Apply
<1>4. /\ pc' \in [Workers -> {"idle", "load", "probe", "apply", "ban"}]
      /\ \A v \in Workers : Measuring(v)' => Measuring(v)
  <2>1. pc' = [pc EXCEPT ![w] = IF ~outcome[w] /\ Streak(w) >= 3 THEN "ban" ELSE "idle"]
    BY DEF Apply, Goto
  <2> QED
    BY <1>1, <2>1 DEF TableInv, Typed, Measuring
<1>5. /\ RowsKept
      /\ \A g \in Fingerprints : Exists(g) =>
            Exists(g)' /\ row'[g].id = row[g].id /\ row'[g].born = row[g].born
  <2>1. CASE ApplyNodeCheck(snap[w].id, job[w].fp, checkedAt[w], outcome[w], snap[w].born)
    BY <1>2, <2>1, ApplyKeepsRows DEF TableInv
  <2>2. CASE UNCHANGED tableVars
    BY <2>2, IdleKeepsRows DEF TableInv
  <2> QED
    BY <2>1, <2>2 DEF Apply
<1>6. /\ checks' \subseteq [id : Nat, fp : Fingerprints, at : Nat, ok : BOOLEAN, born : Nat]
      /\ ChecksBelong'
  <2>1. CASE checks' = checks
    BY <1>5, <2>1, ChecksStayWithRows DEF TableInv, Typed
  <2>2. ASSUME ApplyNodeCheck(snap[w].id, job[w].fp, checkedAt[w], outcome[w], snap[w].born),
               WithId(snap[w].id) # {}
        PROVE  /\ checks' \subseteq [id : Nat, fp : Fingerprints, at : Nat, ok : BOOLEAN,
                                     born : Nat]
               /\ ChecksBelong'
    <3> DEFINE new == [id |-> snap[w].id, fp |-> job[w].fp, at |-> checkedAt[w],
                       ok |-> outcome[w], born |-> snap[w].born]
    <3>1. checks' = checks \cup {new}
      BY <2>2 DEF ApplyNodeCheck
    <3>2. new \in [id : Nat, fp : Fingerprints, at : Nat, ok : BOOLEAN, born : Nat]
      BY <1>1, <1>2
    <3>3. PICK f \in Fingerprints : Exists(f) /\ row[f].id = snap[w].id
      BY <2>2 DEF WithId
    <3>4. f = job[w].fp /\ row[f].born = snap[w].born
      BY <1>1, <3>3 DEF TableInv, IdsAreUnique
    <3>5. /\ row'[new.fp] # NoRow
          /\ row'[new.fp].id = new.id /\ row'[new.fp].born = new.born
      BY <1>5, <3>3, <3>4 DEF Exists
    <3>6. \A k \in checks : k.fp \in Fingerprints /\ Exists(k.fp) /\ row[k.fp].id = k.id
                            /\ row[k.fp].born = k.born
      BY DEF TableInv, Typed, ChecksBelong
    <3>7. \A k \in checks :
             row'[k.fp] # NoRow /\ row'[k.fp].id = k.id /\ row'[k.fp].born = k.born
      BY <1>5, <3>6 DEF Exists
    <3> HIDE DEF new
    <3>8. ChecksBelong'
      BY <3>1, <3>5, <3>7 DEF ChecksBelong, Exists
    <3> QED
      BY <3>1, <3>2, <3>8 DEF TableInv, Typed
  <2> QED
    BY <2>1, <2>2 DEF Apply, ApplyNodeCheck, tableVars
<1>7. Typed'
  <2>1. /\ row' \in [Fingerprints -> Rows \cup {NoRow}]
        /\ log' \in [Fingerprints -> Seq(Entries)]
        /\ nextId' \in Nat \ {0}
    BY <1>5 DEF TableInv, Typed, RowsKept
  <2> QED
    BY <1>3, <1>4, <1>6, <2>1 DEF TableInv, Typed
<1>8. IdsAreUnique'
  BY <1>5 DEF RowsKept, IdsAreUnique
<1>9. SnapsAreOfTheirJobs'
  <2> SUFFICES ASSUME NEW v \in Workers, Measuring(v)'
               PROVE  /\ snap'[v] \in Rows /\ snap'[v].id < nextId' /\ snap'[v].born = snap'[v].id
                      /\ job'[v].fp \in Fingerprints
                      /\ \A g \in Fingerprints :
                            Exists(g)' /\ row'[g].id = snap'[v].id => g = job'[v].fp
    BY DEF SnapsAreOfTheirJobs
  <2>1. Measuring(v) /\ snap'[v] = snap[v] /\ job'[v].fp = job[v].fp
    BY <1>3, <1>4
  <2> QED
    BY <1>5, <2>1, SnapStaysWithJob DEF TableInv
<1> QED
  BY <1>6, <1>7, <1>8, <1>9 DEF TableInv

\* The ban that follows a streak is set on the row the worker has, if it is there.
LEMMA AutoBanKeepsTables ==
    ASSUME TableInv, NEW w \in Workers, AutoBan(w)
    PROVE  TableInv'
<1>1. /\ snap[w].id \in Nat
      /\ clock + BanFor(Streak(w)) \in Nat
  <2>1. snap[w] \in Rows
    BY DEF TableInv, SnapsAreOfTheirJobs, AutoBan, Measuring
  <2>2. BanFor(Streak(w)) \in Nat
    BY DEF BanFor, OneHour, FifteenMinutes, FiveMinutes
  <2>3. snap[w].id \in Nat
    BY <2>1 DEF Rows
  <2>4. clock \in Nat
    BY DEF TableInv, Typed
  <2> QED
    BY <2>2, <2>3, <2>4
<1>2. /\ UNCHANGED <<clock, nextId, checks, log, job, checkedAt, snap, outcome, cutoff>>
      /\ pc' = [pc EXCEPT ![w] = "idle"]
  BY DEF AutoBan, Goto
<1>3. /\ RowsKept
      /\ \A g \in Fingerprints : Exists(g) =>
            Exists(g)' /\ row'[g].id = row[g].id /\ row'[g].born = row[g].born
  <2>1. CASE SetBan(snap[w].id, clock + BanFor(Streak(w)))
    <3>1. UNCHANGED <<nextId, log>>
      BY <1>2
    <3> QED
      BY <1>1, <2>1, <3>1, SetBanKeepsRows DEF TableInv
  <2>2. CASE UNCHANGED row
    BY <1>2, <2>2 DEF TableInv, RowsKept, IdsAreUnique, Typed, Exists
  <2> QED
    BY <2>1, <2>2 DEF AutoBan
<1>4. Typed'
  BY <1>2, <1>3 DEF TableInv, Typed, RowsKept
<1>5. IdsAreUnique'
  BY <1>3 DEF RowsKept, IdsAreUnique
<1>6. SnapsAreOfTheirJobs'
  <2> SUFFICES ASSUME NEW v \in Workers, Measuring(v)'
               PROVE  /\ snap'[v] \in Rows /\ snap'[v].id < nextId' /\ snap'[v].born = snap'[v].id
                      /\ job'[v].fp \in Fingerprints
                      /\ \A g \in Fingerprints :
                            Exists(g)' /\ row'[g].id = snap'[v].id => g = job'[v].fp
    BY DEF SnapsAreOfTheirJobs
  <2>1. Measuring(v) /\ snap'[v] = snap[v] /\ job'[v].fp = job[v].fp
    BY <1>2 DEF TableInv, Typed, Measuring
  <2> QED
    BY <1>3, <2>1, SnapStaysWithJob DEF TableInv
<1>7. ChecksBelong'
  BY <1>2, <1>3, ChecksStayWithRows DEF TableInv
<1> QED
  BY <1>4, <1>5, <1>6, <1>7 DEF TableInv

\* The fetcher, the buttons and the cleanup loop, at any moment of a check.
LEMMA OtherWritersKeepTables ==
    ASSUME NodeCheckAssumption, TableInv,
           \/ \E f \in Fingerprints : Ingest(f) \/ BanButton(f) \/ UnbanButton(f)
           \/ PruneChecks \/ PruneInvalidNodes
    PROVE  TableInv'
<1>1. ASSUME NEW f \in Fingerprints, Ingest(f)
      PROVE  TableInv'
  <2>1. PICK d \in 0 .. MaxFetchDelay : d < clock /\ Upsert(f, clock - d)
    BY <1>1 DEF Ingest
  <2>2. clock - d \in Nat
    BY <2>1 DEF TableInv, Typed, NodeCheckAssumption
  <2>3. /\ RowsKept
        /\ \A g \in Fingerprints : Exists(g) =>
              Exists(g)' /\ row'[g].id = row[g].id /\ row'[g].born = row[g].born
    BY <2>1, <2>2, UpsertKeepsRows DEF TableInv
  <2>4. checks' = checks
    BY <2>1 DEF Upsert
  <2>5. ChecksBelong'
    BY <2>3, <2>4, ChecksStayWithRows DEF TableInv
  <2> QED
    BY <1>1, <2>3, <2>4, <2>5, TablesKept DEF Ingest, TableInv, Typed
<1>2. ASSUME NEW f \in Fingerprints, NEW until \in Nat, Exists(f), SetBan(row[f].id, until),
             UNCHANGED <<clock, nextId, checks, log, workerVars, cutoff>>
      PROVE  TableInv'
  <2>1. row[f].id \in Nat
    BY <1>2, ExistsIsRow DEF TableInv, Rows
  <2>2. /\ RowsKept
        /\ \A g \in Fingerprints : Exists(g) =>
              Exists(g)' /\ row'[g].id = row[g].id /\ row'[g].born = row[g].born
    BY <1>2, <2>1, SetBanKeepsRows DEF TableInv
  <2>3. ChecksBelong'
    BY <1>2, <2>2, ChecksStayWithRows DEF TableInv
  <2> QED
    BY <1>2, <2>2, <2>3, TablesKept DEF TableInv, Typed
<1>3. ASSUME NEW f \in Fingerprints, BanButton(f)
      PROVE  TableInv'
  <2>1. clock + ManualBan \in Nat
    BY DEF NodeCheckAssumption, TableInv, Typed
  <2> QED
    BY <1>2, <1>3, <2>1 DEF BanButton
<1>4. ASSUME NEW f \in Fingerprints, UnbanButton(f)
      PROVE  TableInv'
  BY <1>2, <1>4 DEF UnbanButton
<1>5. CASE PruneChecks
  <2>2. checks' \subseteq checks /\ UNCHANGED <<clock, row, nextId, log, workerVars>>
        /\ cutoff' = clock
    BY <1>5 DEF PruneChecks
  <2>3. RowsKept
    BY <2>2 DEF TableInv, RowsKept, IdsAreUnique, Typed, Exists
  <2>4. ChecksBelong'
    BY <2>2 DEF TableInv, ChecksBelong, Exists
  <2> QED
    BY <2>2, <2>3, <2>4, TablesKept DEF TableInv, Typed
<1>6. CASE PruneInvalidNodes
  <2>1. RowsKept
    BY <1>6, PruneKeepsRows DEF TableInv
  <2>2. checks' = {k \in checks : \A f \in Fingerprints : Prunable(f) => row[f].id # k.id}
    BY <1>6 DEF PruneInvalidNodes
  <2>3. ChecksBelong'
    <3> SUFFICES ASSUME NEW k \in checks'
                 PROVE  Exists(k.fp)' /\ row'[k.fp].id = k.id /\ row'[k.fp].born = k.born
      BY DEF ChecksBelong
    <3>1. k \in checks /\ k.fp \in Fingerprints /\ Exists(k.fp) /\ row[k.fp].id = k.id
          /\ row[k.fp].born = k.born
      BY <2>2 DEF TableInv, Typed, ChecksBelong
    <3>2. ~Prunable(k.fp)
      BY <2>2, <3>1
    <3>3. row'[k.fp] = row[k.fp]
      BY <1>6, <3>1, <3>2 DEF PruneInvalidNodes
    <3> QED
      BY <3>1, <3>3 DEF Exists
  <2> QED
    BY <1>6, <2>1, <2>2, <2>3, TablesKept DEF PruneInvalidNodes, TableInv, Typed
<1> QED
  BY <1>1, <1>3, <1>4, <1>5, <1>6

\* Every step of the node check keeps its tables.
LEMMA TableStep ==
    ASSUME NodeCheckAssumption, TableInv, [Next]_vars
    PROVE  TableInv'
<1>1. CASE UNCHANGED vars
  BY <1>1 DEF vars, workerVars, tableVars, TableInv, Typed, IdsAreUnique, SnapsAreOfTheirJobs,
              ChecksBelong, Measuring, Exists
<1>2. CASE Tick
  <2>1. clock' \in Nat /\ UNCHANGED <<tableVars, workerVars, cutoff>>
    BY <1>2 DEF Tick, TableInv, Typed
  <2> QED
    BY <2>1 DEF workerVars, tableVars, TableInv, Typed, IdsAreUnique, SnapsAreOfTheirJobs,
                ChecksBelong, Measuring, Exists
<1>3. ASSUME NEW w \in Workers, RunOne(w)
      PROVE  TableInv'
  BY <1>3, BeginNodeKeepsTables, BeginSampleKeepsTables, LoadKeepsTables, ProbeKeepsTables,
     ApplyKeepsTables, AutoBanKeepsTables DEF RunOne
<1>4. CASE \/ \E f \in Fingerprints : Ingest(f) \/ BanButton(f) \/ UnbanButton(f)
           \/ PruneChecks \/ PruneInvalidNodes
  BY <1>4, OtherWritersKeepTables
<1> QED
  BY <1>1, <1>2, <1>3, <1>4 DEF Next

\* The tables are typed, ids are unique and never reused, and every row of
\* node_checks, and every row a worker has loaded, is of the node it names.
THEOREM TableInvariant == Spec => []TableInv
<1>1. Init => TableInv
  BY NodeCheckAssumption, TableInitially
<1>2. TableInv /\ [Next]_vars => TableInv'
  BY NodeCheckAssumption, TableStep
<1> QED
  BY <1>1, <1>2, PTL DEF Spec

\* A check is only ever recorded against the very row its worker measured,
\* whatever is pruned or ingested again while it runs: the ids of nodes.id are
\* AUTOINCREMENT and ApplyNodeCheck writes by id, under the foreign key.
THEOREM ChecksBelongToRows == Spec => []ChecksBelong
<1>1. TableInv => ChecksBelong
  BY DEF TableInv
<1> QED
  BY <1>1, TableInvariant, PTL

-----------------------------------------------------------------------------
(* The counters of a row and the checks applied to it.                     *)

PassedIn(s) == {k \in DOMAIN s : s[k].ok}
TrailingIn(s) == {k \in DOMAIN s : \A m \in k .. Len(s) : ~s[m].ok}

Matches(r, s) ==
    /\ r.okCount = Cardinality(PassedIn(s))
    /\ r.failCount = Len(s) - Cardinality(PassedIn(s))
    /\ r.failStreak = Cardinality(TrailingIn(s))
    /\ r.status = IF s = <<>> THEN "unknown" ELSE IF s[Len(s)].ok THEN "valid" ELSE "invalid"

\* The passed checks and the trailing failures of a log are finitely many.
LEMMA CountsAreFinite ==
    ASSUME NEW s \in Seq(Entries)
    PROVE  /\ IsFiniteSet(PassedIn(s)) /\ Cardinality(PassedIn(s)) \in Nat
           /\ IsFiniteSet(TrailingIn(s)) /\ Cardinality(TrailingIn(s)) \in Nat
<1>1. IsFiniteSet(DOMAIN s)
  BY FS_Interval
<1>2. PassedIn(s) \subseteq DOMAIN s /\ TrailingIn(s) \subseteq DOMAIN s
  BY DEF PassedIn, TrailingIn
<1> QED
  BY <1>1, <1>2, FS_Subset, FS_CardinalityType

\* A log that is empty counts nothing; one check more counts once, and a passed
\* one ends the run of failures.
LEMMA EmptyCounts ==
    /\ Cardinality(PassedIn(<<>>)) = 0
    /\ Cardinality(TrailingIn(<<>>)) = 0
<1>1. PassedIn(<<>>) = {} /\ TrailingIn(<<>>) = {}
  BY DEF PassedIn, TrailingIn
<1> QED
  BY <1>1, FS_EmptySet

\* One check more: what it adds to the checks that passed, and to the failures at
\* the end.
LEMMA AppendCounts ==
    ASSUME NEW s \in Seq(Entries), NEW e \in Entries
    PROVE  LET t == Append(s, e)
           IN /\ Len(t) = Len(s) + 1 /\ t[Len(t)] = e /\ t # <<>>
              /\ Cardinality(PassedIn(t)) =
                    IF e.ok THEN Cardinality(PassedIn(s)) + 1 ELSE Cardinality(PassedIn(s))
              /\ Cardinality(TrailingIn(t)) =
                    IF e.ok THEN 0 ELSE Cardinality(TrailingIn(s)) + 1
<1> DEFINE t == Append(s, e)
           n == Len(s) + 1
<1>1. /\ Len(t) = n /\ t[n] = e /\ DOMAIN t = 1 .. n /\ DOMAIN s = 1 .. Len(s)
      /\ n \in Nat /\ Len(s) \in Nat /\ t # <<>>
      /\ \A k \in 1 .. Len(s) : t[k] = s[k]
  BY AppendProperties
<1> HIDE DEF t
<1>2. n \notin PassedIn(s) /\ n \notin TrailingIn(s)
  BY <1>1 DEF PassedIn, TrailingIn
<1>3. CASE e.ok
  <2>1. PassedIn(t) = PassedIn(s) \cup {n}
    BY <1>1, <1>3 DEF PassedIn
  <2>2. TrailingIn(t) = {}
    BY <1>1, <1>3 DEF TrailingIn
  <2>3. Cardinality(PassedIn(t)) = Cardinality(PassedIn(s)) + 1
    BY <1>2, <2>1, CountsAreFinite, FS_AddElement
  <2>4. Cardinality(TrailingIn(t)) = 0
    BY <2>2, FS_EmptySet
  <2> QED
    BY <1>1, <1>3, <2>3, <2>4 DEF t
<1>4. CASE ~e.ok
  <2>1. PassedIn(t) = PassedIn(s)
    BY <1>1, <1>4 DEF PassedIn
  <2>2. TrailingIn(t) = TrailingIn(s) \cup {n}
    <3>1. n \in TrailingIn(t)
      BY <1>1, <1>4 DEF TrailingIn
    <3>2. \A k \in 1 .. Len(s) : k \in TrailingIn(t) <=> k \in TrailingIn(s)
      BY <1>1, <1>4 DEF TrailingIn
    <3>3. TrailingIn(t) \subseteq 1 .. n /\ TrailingIn(s) \subseteq 1 .. Len(s)
      BY <1>1 DEF TrailingIn
    <3> QED
      BY <1>1, <3>1, <3>2, <3>3
  <2>3. Cardinality(TrailingIn(t)) = Cardinality(TrailingIn(s)) + 1
    BY <1>2, <2>2, CountsAreFinite, FS_AddElement
  <2> QED
    BY <1>1, <1>4, <2>1, <2>3 DEF t
<1> QED
  BY <1>3, <1>4

\* ApplyNodeCheck keeps a row and its log together.
LEMMA CheckedMatches ==
    ASSUME NEW r \in Rows, NEW s \in Seq(Entries), Matches(r, s),
           NEW at \in Nat, NEW ok \in BOOLEAN
    PROVE  Matches(Checked(r, at, ok), Append(s, [at |-> at, ok |-> ok]))
<1> DEFINE e == [at |-> at, ok |-> ok]
           t == Append(s, e)
<1>1. e \in Entries /\ e.ok = ok
  BY DEF Entries
<1>2. /\ Len(t) = Len(s) + 1 /\ t[Len(t)] = e /\ t # <<>>
      /\ Cardinality(PassedIn(t)) =
            IF ok THEN Cardinality(PassedIn(s)) + 1 ELSE Cardinality(PassedIn(s))
      /\ Cardinality(TrailingIn(t)) = IF ok THEN 0 ELSE Cardinality(TrailingIn(s)) + 1
  BY <1>1, AppendCounts
<1>3. Len(s) \in Nat /\ Cardinality(PassedIn(s)) \in Nat /\ Cardinality(TrailingIn(s)) \in Nat
  BY CountsAreFinite
<1>4. LET c == Checked(r, at, ok)
      IN /\ c.okCount = IF ok THEN r.okCount + 1 ELSE r.okCount
         /\ c.failCount = IF ok THEN r.failCount ELSE r.failCount + 1
         /\ c.failStreak = IF ok THEN 0 ELSE r.failStreak + 1
         /\ c.status = IF ok THEN "valid" ELSE "invalid"
  BY CheckedIsRow
<1> HIDE DEF t
<1>5. Matches(Checked(r, at, ok), t)
  BY <1>1, <1>2, <1>3, <1>4 DEF Matches
<1> QED
  BY <1>5 DEF t

\* What a row counts is not touched when it is seen again or banned.
LEMMA UncountedMatches ==
    ASSUME NEW r \in Rows, NEW s, Matches(r, s), NEW n
    PROVE  Matches([r EXCEPT !.lastSeen = n], s) /\ Matches([r EXCEPT !.banUntil = n], s)
BY DEF Matches, Rows

Counting == \A f \in Fingerprints : Exists(f) => Matches(row[f], log[f])

\* UpsertNodes leaves the counters of a row as they are, and starts a new one at zero.
LEMMA UpsertCounts ==
    ASSUME Typed, Counting, NEW f \in Fingerprints, NEW at \in Nat, Upsert(f, at)
    PROVE  Counting'
<1> SUFFICES ASSUME NEW g \in Fingerprints, Exists(g)'
             PROVE  Matches(row'[g], log'[g])
  BY DEF Counting
<1>1. CASE Exists(f)
  <2>1. row' = [row EXCEPT ![f] = [row[f] EXCEPT !.lastSeen = at]] /\ log' = log
    BY <1>1 DEF Upsert
  <2>2. CASE g = f
    BY <1>1, <2>1, <2>2, ExistsIsRow, UncountedMatches DEF Counting, Typed
  <2>3. CASE g # f
    BY <2>1, <2>3 DEF Counting, Typed, Exists
  <2> QED
    BY <2>2, <2>3
<1>2. CASE ~Exists(f)
  <2>1. row' = [row EXCEPT ![f] = NewRow(nextId, at)] /\ log' = [log EXCEPT ![f] = <<>>]
    BY <1>2 DEF Upsert, InsertedId
  <2>2. CASE g = f
    <3>1. row'[g] = NewRow(nextId, at) /\ log'[g] = <<>>
      BY <2>1, <2>2 DEF Typed
    <3>2. Len(<<>>) = 0
      OBVIOUS
    <3> QED
      BY <3>1, <3>2, EmptyCounts DEF Matches, NewRow
  <2>3. CASE g # f
    BY <2>1, <2>3 DEF Counting, Typed, Exists
  <2> QED
    BY <2>2, <2>3
<1> QED
  BY <1>1, <1>2

\* ApplyNodeCheck counts the check that it logs.
LEMMA ApplyCounts ==
    ASSUME Typed, Counting, NEW i, NEW f, NEW at \in Nat, NEW ok \in BOOLEAN, NEW born,
           ApplyNodeCheck(i, f, at, ok, born)
    PROVE  Counting'
<1>1. CASE WithId(i) = {}
  BY <1>1 DEF ApplyNodeCheck, tableVars, Counting, Exists
<1>2. CASE WithId(i) # {}
  <2> SUFFICES ASSUME NEW g \in Fingerprints, Exists(g)'
               PROVE  Matches(row'[g], log'[g])
    BY DEF Counting
  <2>1. CASE g \in WithId(i)
    <3>1. row'[g] = Checked(row[g], at, ok) /\ log'[g] = Append(log[g], [at |-> at, ok |-> ok])
      BY <1>2, <2>1 DEF ApplyNodeCheck
    <3>2. Exists(g) /\ row[g] \in Rows /\ log[g] \in Seq(Entries)
      BY <2>1, ExistsIsRow DEF WithId, Typed
    <3> QED
      BY <3>1, <3>2, CheckedMatches DEF Counting
  <2>2. CASE g \notin WithId(i)
    BY <1>2, <2>2 DEF ApplyNodeCheck, Counting, Exists
  <2> QED
    BY <2>1, <2>2
<1> QED
  BY <1>1, <1>2

\* A ban counts nothing.
LEMMA SetBanCounts ==
    ASSUME Typed, Counting, NEW i, NEW until, SetBan(i, until), log' = log
    PROVE  Counting'
<1> SUFFICES ASSUME NEW g \in Fingerprints, Exists(g)'
             PROVE  Matches(row'[g], log'[g])
  BY DEF Counting
<1>1. CASE g \in WithId(i)
  <2>1. Exists(g) /\ row[g] \in Rows /\ row'[g] = [row[g] EXCEPT !.banUntil = until]
    BY <1>1, ExistsIsRow DEF WithId, SetBan
  <2>2. Matches(row[g], log[g])
    BY <2>1 DEF Counting
  <2>3. Matches([row[g] EXCEPT !.banUntil = until], log[g])
    BY <2>1, <2>2, UncountedMatches
  <2> QED
    BY <2>1, <2>3
<1>2. CASE g \notin WithId(i)
  BY <1>2 DEF SetBan, Counting, Exists
<1> QED
  BY <1>1, <1>2

\* Every step keeps the counters of each row what its checks make them.
LEMMA CountingStep ==
    ASSUME NodeCheckAssumption, TableInv, Counting, [Next]_vars
    PROVE  Counting'
<1>1. ASSUME UNCHANGED <<row, log>>
      PROVE  Counting'
  BY <1>1 DEF Counting, Exists
<1>2. CASE UNCHANGED vars \/ Tick \/ PruneChecks
  BY <1>1, <1>2 DEF vars, tableVars, Tick, PruneChecks
<1>3. ASSUME NEW w \in Workers, NEW i \in 1 .. nextId - 1, BeginNode(w, i)
      PROVE  Counting'
  BY <1>1, <1>3 DEF BeginNode, tableVars
<1>4. ASSUME NEW w \in Workers, NEW f \in Fingerprints, BeginSample(w, f)
      PROVE  Counting'
  BY <1>1, <1>4, UpsertCounts DEF BeginSample, tableVars, TableInv, Typed
<1>5. ASSUME NEW w \in Workers, Load(w) \/ Probe(w)
      PROVE  Counting'
  BY <1>1, <1>5 DEF Load, Probe, tableVars
<1>6. ASSUME NEW w \in Workers, Apply(w)
      PROVE  Counting'
  BY <1>1, <1>6, ApplyCounts DEF Apply, tableVars, TableInv, Typed
<1>7. ASSUME NEW w \in Workers, AutoBan(w)
      PROVE  Counting'
  BY <1>1, <1>7, SetBanCounts DEF AutoBan, TableInv
<1>8. ASSUME NEW f \in Fingerprints, Ingest(f)
      PROVE  Counting'
  <2>1. PICK d \in 0 .. MaxFetchDelay : d < clock /\ Upsert(f, clock - d)
    BY <1>8 DEF Ingest
  <2>2. clock - d \in Nat
    BY <2>1 DEF TableInv, Typed, NodeCheckAssumption
  <2> QED
    BY <2>1, <2>2, UpsertCounts DEF TableInv
<1>9. ASSUME NEW f \in Fingerprints, BanButton(f) \/ UnbanButton(f)
      PROVE  Counting'
  BY <1>9, SetBanCounts DEF BanButton, UnbanButton, TableInv
<1>10. CASE PruneInvalidNodes
  BY <1>10 DEF PruneInvalidNodes, Counting, Exists
<1> QED
  BY <1>2, <1>3, <1>4, <1>5, <1>6, <1>7, <1>8, <1>9, <1>10 DEF Next, RunOne

\* No lost update: counters, streak and status of a row are those of the checks
\* applied to it, in commit order, whatever workers, samples and failing
\* statements overlap: ApplyNodeCheck increments in SQL, inside a transaction.
THEOREM CountersMatch == Spec => []CountersMatchLog
<1>1. Init => Counting
  BY DEF Init, Counting, Exists
<1>2. TableInv /\ Counting /\ [Next]_vars => Counting'
  BY NodeCheckAssumption, CountingStep
<1>3. Counting => CountersMatchLog
  BY DEF Counting, Matches, PassedIn, TrailingIn, CountersMatchLog, Passed, Trailing
<1> QED
  BY <1>1, <1>2, <1>3, TableInvariant, PTL DEF Spec

-----------------------------------------------------------------------------
(* The order of a node's checks, where every task names a node: no two     *)
(* checks of a node are in flight, so they are applied as they were begun. *)

Busy(w) == pc[w] # "idle"

\* A node has one check in flight, and it is of the row the worker loaded.
InFlight ==
    \A w \in Workers : Busy(w) =>
        /\ job[w].id # 0 /\ job[w].id < nextId
        /\ Measuring(w) => snap[w].id = job[w].id
        /\ \A v \in Workers : Busy(v) /\ job[v].id = job[w].id => v = w

\* A check that goes on stays the check of the same node.
FlightsGoOn ==
    \A w \in Workers : Busy(w)' =>
        /\ Busy(w) /\ job'[w].id = job[w].id
        /\ Measuring(w)' => \/ Measuring(w) /\ snap'[w] = snap[w]
                            \/ snap'[w].id = job[w].id

\* Workers that go on with their nodes are still no two on one.
LEMMA FlightsGoOnInFlight ==
    ASSUME TableInv, InFlight, FlightsGoOn, nextId' \in Nat, nextId' >= nextId
    PROVE  InFlight'
<1>1. nextId \in Nat /\ \A w \in Workers : job[w].id \in Nat
  BY DEF TableInv, Typed
<1> QED
  BY <1>1 DEF InFlight, FlightsGoOn, Busy

\* Every step keeps the workers on different nodes, when single flight covers them
\* all.
LEMMA FlightStep ==
    ASSUME NodeCheckAssumption, ~Sampling, TableInv, InFlight, [Next]_vars
    PROVE  InFlight'
<1>1. ASSUME UNCHANGED workerVars, nextId' \in {nextId, nextId + 1}
      PROVE  InFlight'
  <2>1. FlightsGoOn
    BY <1>1 DEF workerVars, FlightsGoOn, Busy, Measuring
  <2>2. nextId' \in Nat /\ nextId' >= nextId
    BY <1>1 DEF TableInv, Typed
  <2> QED
    BY <2>1, <2>2, FlightsGoOnInFlight
<1>2. CASE UNCHANGED vars \/ Tick \/ PruneChecks \/ PruneInvalidNodes
  BY <1>1, <1>2 DEF vars, tableVars, Tick, PruneChecks, PruneInvalidNodes
<1>3. ASSUME NEW f \in Fingerprints, Ingest(f) \/ BanButton(f) \/ UnbanButton(f)
      PROVE  InFlight'
  BY <1>1, <1>3 DEF Ingest, Upsert, BanButton, UnbanButton
<1>4. ASSUME NEW w \in Workers, NEW i \in 1 .. nextId - 1, BeginNode(w, i)
      PROVE  InFlight'
  <2>1. i \in Nat /\ i # 0 /\ i < nextId
    BY DEF TableInv, Typed
  <2>2. /\ pc' = [pc EXCEPT ![w] = "load"] /\ UNCHANGED <<snap, nextId>>
        /\ \A v \in Workers : job'[v].id = IF v = w THEN i ELSE job[v].id
        /\ \A v \in Workers : ~Busy(v) \/ job[v].id # i
    BY <1>4 DEF BeginNode, Goto, NotInFlight, TableInv, Typed, tableVars, Busy
  <2> QED
    BY <2>1, <2>2 DEF InFlight, Busy, Measuring, TableInv, Typed
<1>5. ASSUME NEW w \in Workers, NEW f \in Fingerprints, BeginSample(w, f)
      PROVE  InFlight'
  BY <1>5 DEF BeginSample
<1>6. ASSUME NEW w \in Workers, Load(w)
      PROVE  InFlight'
  <2>1. nextId' = nextId /\ nextId \in Nat /\ pc[w] = "load"
    BY <1>6 DEF Load, tableVars, TableInv, Typed
  <2>2. CASE UNCHANGED <<job, snap>> /\ Goto(w, "idle")
    BY <2>1, <2>2, FlightsGoOnInFlight
       DEF FlightsGoOn, Goto, Busy, Measuring, TableInv, Typed
  <2>3. ASSUME NEW f \in Target(w), snap' = [snap EXCEPT ![w] = row[f]],
               job' = [job EXCEPT ![w].fp = f], Goto(w, "probe")
        PROVE  InFlight'
    <3>1. job[w].id # 0
      BY <2>1 DEF InFlight, Busy
    <3>2. row[f].id = job[w].id
      BY <2>3, <3>1 DEF Target, WithId
    <3>3. \A v \in Workers : job'[v].id = job[v].id
      BY <2>3 DEF TableInv, Typed
    <3>4. \A v \in Workers : snap'[v] = IF v = w THEN row[f] ELSE snap[v]
      BY <2>3 DEF TableInv, Typed
    <3>5. \A v \in Workers : pc'[v] = IF v = w THEN "probe" ELSE pc[v]
      BY <2>3 DEF TableInv, Typed, Goto
    <3>6. FlightsGoOn
      BY <2>1, <3>2, <3>3, <3>4, <3>5 DEF FlightsGoOn, Busy, Measuring
    <3> QED
      BY <2>1, <3>6, FlightsGoOnInFlight
  <2> QED
    BY <1>6, <2>2, <2>3 DEF Load
<1>7. ASSUME NEW w \in Workers, Probe(w) \/ Apply(w) \/ AutoBan(w)
      PROVE  InFlight'
  <2>1. nextId' = nextId /\ nextId \in Nat /\ Measuring(w) /\ UNCHANGED <<job, snap>>
    BY <1>7 DEF Probe, Apply, AutoBan, ApplyNodeCheck, tableVars, TableInv, Typed, Measuring
  <2>2. \E where : pc' = [pc EXCEPT ![w] = where]
    BY <1>7 DEF Probe, Apply, AutoBan, Goto
  <2>3. FlightsGoOn
    BY <2>1, <2>2 DEF FlightsGoOn, Busy, Measuring, TableInv, Typed
  <2> QED
    BY <2>1, <2>3, FlightsGoOnInFlight
<1> QED
  BY <1>2, <1>3, <1>4, <1>5, <1>6, <1>7 DEF Next, RunOne

\* The checks applied to a row are no later than its last, and that is no later
\* than a check in flight.
InOrder ==
    /\ \A f \in Fingerprints : Exists(f) =>
          /\ row[f].lastChecked <= clock
          /\ \A k \in DOMAIN log[f] : log[f][k].at <= row[f].lastChecked
    /\ \A w \in Workers : Busy(w) =>
          /\ checkedAt[w] <= clock
          /\ \A f \in WithId(job[w].id) : row[f].lastChecked <= checkedAt[w]

\* What every step but Apply does to the rows: they keep what they count.
RowsUnchecked ==
    \A f \in Fingerprints : Exists(f)' =>
        \/ /\ Exists(f) /\ row'[f].id = row[f].id /\ log'[f] = log[f]
           /\ row'[f].lastChecked = row[f].lastChecked
           /\ row'[f].failStreak = row[f].failStreak
        \/ row'[f].id = nextId /\ row'[f].lastChecked = 0 /\ log'[f] = <<>>

\* UpsertNodes leaves the order of the checks alone.
LEMMA UpsertUnchecked ==
    ASSUME Typed, NEW f \in Fingerprints, NEW at \in Nat, Upsert(f, at)
    PROVE  RowsUnchecked
<1> SUFFICES ASSUME NEW g \in Fingerprints, Exists(g)'
             PROVE  \/ /\ Exists(g) /\ row'[g].id = row[g].id /\ log'[g] = log[g]
                       /\ row'[g].lastChecked = row[g].lastChecked
                       /\ row'[g].failStreak = row[g].failStreak
                    \/ row'[g].id = nextId /\ row'[g].lastChecked = 0 /\ log'[g] = <<>>
  BY DEF RowsUnchecked
<1>1. CASE Exists(f)
  <2>1. row' = [row EXCEPT ![f] = [row[f] EXCEPT !.lastSeen = at]] /\ log' = log
    BY <1>1 DEF Upsert
  <2>2. CASE g = f
    BY <1>1, <2>1, <2>2, ExistsIsRow DEF Typed, Rows
  <2>3. CASE g # f
    BY <2>1, <2>3 DEF Typed, Exists
  <2> QED
    BY <2>2, <2>3
<1>2. CASE ~Exists(f)
  <2>1. row' = [row EXCEPT ![f] = NewRow(nextId, at)] /\ log' = [log EXCEPT ![f] = <<>>]
    BY <1>2 DEF Upsert, InsertedId
  <2>2. CASE g = f
    BY <2>1, <2>2 DEF Typed, NewRow
  <2>3. CASE g # f
    BY <2>1, <2>3 DEF Typed, Exists
  <2> QED
    BY <2>2, <2>3
<1> QED
  BY <1>1, <1>2

\* A ban leaves the order of the checks alone.
LEMMA SetBanUnchecked ==
    ASSUME Typed, NEW i, NEW until, SetBan(i, until), log' = log
    PROVE  RowsUnchecked
<1> SUFFICES ASSUME NEW g \in Fingerprints, Exists(g)'
             PROVE  /\ Exists(g) /\ row'[g].id = row[g].id /\ log'[g] = log[g]
                    /\ row'[g].lastChecked = row[g].lastChecked
                    /\ row'[g].failStreak = row[g].failStreak
  BY DEF RowsUnchecked
<1>1. CASE g \in WithId(i)
  <2>1. Exists(g) /\ row[g] \in Rows /\ row'[g] = [row[g] EXCEPT !.banUntil = until]
    BY <1>1, ExistsIsRow DEF WithId, SetBan
  <2> QED
    BY <2>1 DEF Rows
<1>2. CASE g \notin WithId(i)
  BY <1>2 DEF SetBan, Exists
<1> QED
  BY <1>1, <1>2

\* What every step but Apply does: it leaves what rows count alone, and a check
\* that begins takes the present time.
LEMMA UncheckedStep ==
    ASSUME NodeCheckAssumption, TableInv, [Next]_vars, ~\E w \in Workers : Apply(w)
    PROVE  /\ RowsUnchecked /\ clock' \in {clock, clock + 1}
           /\ \A w \in Workers : Busy(w)' =>
                 \/ Busy(w) /\ job'[w].id = job[w].id /\ checkedAt'[w] = checkedAt[w]
                 \/ checkedAt'[w] = clock
<1> DEFINE Goal == /\ RowsUnchecked /\ clock' \in {clock, clock + 1}
                   /\ \A w \in Workers : Busy(w)' =>
                         \/ Busy(w) /\ job'[w].id = job[w].id /\ checkedAt'[w] = checkedAt[w]
                         \/ checkedAt'[w] = clock
<1>1. ASSUME UNCHANGED <<row, log>>
      PROVE  RowsUnchecked
  BY <1>1 DEF RowsUnchecked, Exists
<1>2. ASSUME UNCHANGED workerVars
      PROVE  \A w \in Workers : Busy(w)' =>
                Busy(w) /\ job'[w].id = job[w].id /\ checkedAt'[w] = checkedAt[w]
  BY <1>2 DEF workerVars, Busy
<1>3. CASE UNCHANGED vars \/ Tick \/ PruneChecks
  BY <1>1, <1>2, <1>3 DEF vars, tableVars, Tick, PruneChecks
<1>4. CASE PruneInvalidNodes
  <2>1. RowsUnchecked
    BY <1>4 DEF PruneInvalidNodes, RowsUnchecked, Exists
  <2> QED
    BY <1>2, <1>4, <2>1 DEF PruneInvalidNodes
<1>5. ASSUME NEW f \in Fingerprints, Ingest(f)
      PROVE  Goal
  <2>1. PICK d \in 0 .. MaxFetchDelay : d < clock /\ Upsert(f, clock - d)
    BY <1>5 DEF Ingest
  <2>2. clock - d \in Nat
    BY <2>1 DEF TableInv, Typed, NodeCheckAssumption
  <2>3. RowsUnchecked
    BY <2>1, <2>2, UpsertUnchecked DEF TableInv
  <2> QED
    BY <1>2, <1>5, <2>3 DEF Ingest
<1>6. ASSUME NEW f \in Fingerprints, BanButton(f) \/ UnbanButton(f)
      PROVE  Goal
  <2>1. RowsUnchecked
    BY <1>6, SetBanUnchecked DEF BanButton, UnbanButton, TableInv
  <2> QED
    BY <1>2, <1>6, <2>1 DEF BanButton, UnbanButton
<1>7. ASSUME NEW w \in Workers, NEW i \in 1 .. nextId - 1, BeginNode(w, i)
      PROVE  Goal
  <2>1. RowsUnchecked /\ clock' = clock
    BY <1>1, <1>7 DEF BeginNode, tableVars
  <2>2. \A v \in Workers : v # w =>
           pc'[v] = pc[v] /\ job'[v].id = job[v].id /\ checkedAt'[v] = checkedAt[v]
    BY <1>7 DEF BeginNode, Goto, TableInv, Typed
  <2>3. checkedAt'[w] = clock
    BY <1>7 DEF BeginNode, TableInv, Typed
  <2> QED
    BY <2>1, <2>2, <2>3 DEF Busy
<1>8. ASSUME NEW w \in Workers, NEW f \in Fingerprints, BeginSample(w, f)
      PROVE  Goal
  <2>1. RowsUnchecked /\ clock' = clock
    BY <1>1, <1>8, UpsertUnchecked DEF BeginSample, tableVars, TableInv, Typed
  <2>2. \A v \in Workers : v # w =>
           pc'[v] = pc[v] /\ job'[v].id = job[v].id /\ checkedAt'[v] = checkedAt[v]
    BY <1>8 DEF BeginSample, Goto, TableInv, Typed
  <2>3. checkedAt'[w] = clock
    BY <1>8 DEF BeginSample, TableInv, Typed
  <2> QED
    BY <2>1, <2>2, <2>3 DEF Busy
<1>9. ASSUME NEW w \in Workers, Load(w) \/ Probe(w) \/ AutoBan(w)
      PROVE  Goal
  <2>1. RowsUnchecked
    BY <1>1, <1>9, SetBanUnchecked DEF Load, Probe, AutoBan, tableVars, TableInv
  <2>2. clock' = clock /\ checkedAt' = checkedAt /\ Busy(w)
    BY <1>9 DEF Load, Probe, AutoBan, Busy
  <2>3. \A v \in Workers : job'[v].id = job[v].id
    <3>1. ASSUME NEW f, job' = [job EXCEPT ![w].fp = f]
          PROVE  \A v \in Workers : job'[v].id = job[v].id
      BY <3>1 DEF TableInv, Typed
    <3>2. job' = job \/ \E f : job' = [job EXCEPT ![w].fp = f]
      BY <1>9 DEF Load, Probe, AutoBan
    <3> QED
      BY <3>1, <3>2
  <2>4. \A v \in Workers : v # w => pc'[v] = pc[v]
    BY <1>9 DEF Load, Probe, AutoBan, Goto, TableInv, Typed
  <2> QED
    BY <2>1, <2>2, <2>3, <2>4 DEF Busy
<1> QED
  BY <1>3, <1>4, <1>5, <1>6, <1>7, <1>8, <1>9 DEF Next, RunOne

\* What ApplyNodeCheck does to the rows, for a check that is in flight.
LEMMA ApplyShape ==
    ASSUME TableInv, InFlight, NEW w \in Workers, Apply(w)
    PROVE  /\ UNCHANGED <<clock, job, checkedAt, snap>> /\ Busy(w)
           /\ snap[w].id = job[w].id
           /\ \A v \in Workers : v # w => pc'[v] = pc[v]
           /\ pc'[w] = IF ~outcome[w] /\ Streak(w) >= 3 THEN "ban" ELSE "idle"
           /\ \A f \in Fingerprints :
                 /\ Exists(f)' <=> Exists(f)
                 /\ Exists(f) => row'[f].id = row[f].id
           /\ \A f \in Fingerprints : Exists(f) =>
                 \/ UNCHANGED <<row[f], log[f]>>
                 \/ /\ row[f].id = job[w].id
                    /\ row'[f] = Checked(row[f], checkedAt[w], outcome[w])
                    /\ log'[f] = Append(log[f], [at |-> checkedAt[w], ok |-> outcome[w]])
           /\ ~StoreMayFail => \A f \in WithId(job[w].id) :
                 row'[f] = Checked(row[f], checkedAt[w], outcome[w])
<1>1. UNCHANGED <<clock, job, checkedAt, snap>> /\ Busy(w) /\ snap[w].id = job[w].id
  BY DEF Apply, Busy, InFlight, Measuring
<1>2. /\ \A v \in Workers : v # w => pc'[v] = pc[v]
      /\ pc'[w] = IF ~outcome[w] /\ Streak(w) >= 3 THEN "ban" ELSE "idle"
  <2>1. pc' = [pc EXCEPT ![w] = IF ~outcome[w] /\ Streak(w) >= 3 THEN "ban" ELSE "idle"]
    BY DEF Apply, Goto
  <2> QED
    BY <2>1 DEF TableInv, Typed
<1>3. snap[w].id \in Nat /\ checkedAt[w] \in Nat /\ outcome[w] \in BOOLEAN
  BY DEF TableInv, Typed, SnapsAreOfTheirJobs, Apply, Measuring, Rows
<1>4. CASE UNCHANGED tableVars
  <2>1. ~StoreMayFail => WithId(snap[w].id) = {}
    <3> SUFFICES ASSUME ~StoreMayFail, NEW f \in WithId(snap[w].id)
                 PROVE  FALSE
      OBVIOUS
    <3>1. f \in Fingerprints /\ Exists(f) /\ row[f] \in Rows
      BY ExistsIsRow DEF WithId, TableInv
    <3>2. log'[f] = Append(log[f], [at |-> checkedAt[w], ok |-> outcome[w]])
      BY <3>1 DEF Apply, ApplyNodeCheck
    <3>3. Len(log'[f]) = Len(log[f]) + 1 /\ Len(log[f]) \in Nat
      BY <1>3, <3>1, <3>2, AppendProperties DEF TableInv, Typed, Entries
    <3> QED
      BY <1>4, <3>3 DEF tableVars
  <2> QED
    BY <1>1, <1>2, <1>4, <2>1 DEF tableVars, Exists
<1>5. CASE /\ ApplyNodeCheck(snap[w].id, job[w].fp, checkedAt[w], outcome[w], snap[w].born)
           /\ WithId(snap[w].id) # {}
  <2>1. \A f \in Fingerprints :
           IF f \in WithId(snap[w].id)
           THEN /\ row'[f] = Checked(row[f], checkedAt[w], outcome[w])
                /\ log'[f] = Append(log[f], [at |-> checkedAt[w], ok |-> outcome[w]])
           ELSE row'[f] = row[f] /\ log'[f] = log[f]
    BY <1>5 DEF ApplyNodeCheck
  <2>2. \A f \in Fingerprints :
           /\ Exists(f)' <=> Exists(f)
           /\ Exists(f) => row'[f].id = row[f].id
    <3> SUFFICES ASSUME NEW f \in Fingerprints
                 PROVE  /\ Exists(f)' <=> Exists(f)
                        /\ Exists(f) => row'[f].id = row[f].id
      OBVIOUS
    <3>1. CASE f \in WithId(snap[w].id)
      <4>1. row[f] \in Rows /\ Exists(f)
        BY <3>1, ExistsIsRow DEF WithId, TableInv
      <4>2. row'[f] \in Rows /\ row'[f].id = row[f].id
        BY <1>3, <2>1, <3>1, <4>1, CheckedIsRow
      <4> QED
        BY <4>1, <4>2 DEF Exists, Rows, NoRow
    <3>2. CASE f \notin WithId(snap[w].id)
      BY <2>1, <3>2 DEF Exists
    <3> QED
      BY <3>1, <3>2
  <2> QED
    BY <1>1, <1>2, <2>1, <2>2 DEF WithId
<1> QED
  BY <1>4, <1>5 DEF Apply, ApplyNodeCheck

\* Every step keeps the checks of a row in the order in which they began.
LEMMA OrderStep ==
    ASSUME NodeCheckAssumption, TableInv, InFlight, InOrder, [Next]_vars
    PROVE  InOrder'
<1>1. /\ clock \in Nat
      /\ \A w \in Workers : checkedAt[w] \in Nat
      /\ \A f \in Fingerprints : Exists(f) => row[f] \in Rows /\ row[f].lastChecked \in Nat
      /\ \A f \in Fingerprints : log[f] \in Seq(Entries)
  BY ExistsIsRow DEF TableInv, Typed, Rows
<1>2. CASE ~\E w \in Workers : Apply(w)
  <2>1. /\ RowsUnchecked /\ clock' \in {clock, clock + 1}
        /\ \A w \in Workers : Busy(w)' =>
              \/ Busy(w) /\ job'[w].id = job[w].id /\ checkedAt'[w] = checkedAt[w]
              \/ checkedAt'[w] = clock
    BY <1>2, UncheckedStep
  <2>2. ASSUME NEW f \in Fingerprints, Exists(f)'
        PROVE  /\ row'[f].lastChecked <= clock /\ row'[f].lastChecked <= clock'
               /\ \A k \in DOMAIN log'[f] : log'[f][k].at <= row'[f].lastChecked
    BY <1>1, <2>1, <2>2 DEF RowsUnchecked, InOrder
  <2>3. ASSUME NEW w \in Workers, Busy(w)'
        PROVE  /\ checkedAt'[w] <= clock'
               /\ \A f \in WithId(job[w].id)' : row'[f].lastChecked <= checkedAt'[w]
    <3>1. CASE checkedAt'[w] = clock
      BY <1>1, <2>1, <2>2, <3>1 DEF WithId
    <3>2. CASE Busy(w) /\ job'[w].id = job[w].id /\ checkedAt'[w] = checkedAt[w]
      <4>1. ASSUME NEW f \in Fingerprints, Exists(f)', row'[f].id = job'[w].id
            PROVE  row'[f].lastChecked <= checkedAt'[w]
        BY <1>1, <2>1, <3>2, <4>1 DEF RowsUnchecked, InOrder, WithId
      <4>2. checkedAt'[w] <= clock'
        BY <1>1, <2>1, <3>2 DEF InOrder
      <4> QED
        BY <4>1, <4>2 DEF WithId
    <3> QED
      BY <2>1, <2>3, <3>1, <3>2
  <2> QED
    BY <2>2, <2>3 DEF InOrder
<1>3. ASSUME NEW w \in Workers, Apply(w)
      PROVE  InOrder'
  <2>1. /\ UNCHANGED <<clock, job, checkedAt, snap>> /\ Busy(w)
        /\ \A v \in Workers : v # w => pc'[v] = pc[v]
        /\ \A f \in Fingerprints :
              /\ Exists(f)' <=> Exists(f)
              /\ Exists(f) => row'[f].id = row[f].id
        /\ \A f \in Fingerprints : Exists(f) =>
              \/ UNCHANGED <<row[f], log[f]>>
              \/ /\ row[f].id = job[w].id
                 /\ row'[f] = Checked(row[f], checkedAt[w], outcome[w])
                 /\ log'[f] = Append(log[f], [at |-> checkedAt[w], ok |-> outcome[w]])
    BY <1>3, ApplyShape
  <2>2. outcome[w] \in BOOLEAN /\ checkedAt[w] \in Nat /\ checkedAt[w] <= clock
    BY <2>1 DEF TableInv, Typed, InOrder
  <2>3. ASSUME NEW f \in Fingerprints, Exists(f), row[f].id = job[w].id,
               row'[f] = Checked(row[f], checkedAt[w], outcome[w]),
               log'[f] = Append(log[f], [at |-> checkedAt[w], ok |-> outcome[w]])
        PROVE  /\ row'[f].lastChecked = checkedAt[w]
               /\ \A k \in DOMAIN log'[f] : log'[f][k].at <= row'[f].lastChecked
    <3>1. row[f] \in Rows /\ row[f].lastChecked \in Nat /\ log[f] \in Seq(Entries)
      BY <1>1, <2>3
    <3>2. row[f].lastChecked <= checkedAt[w]
      BY <2>1, <2>3 DEF InOrder, WithId
    <3>3. \A k \in DOMAIN log[f] : log[f][k].at <= checkedAt[w] /\ log[f][k].at \in Nat
      <4> SUFFICES ASSUME NEW k \in DOMAIN log[f]
                   PROVE  log[f][k].at <= checkedAt[w] /\ log[f][k].at \in Nat
        OBVIOUS
      <4>1. log[f][k] \in Entries
        BY <3>1
      <4>2. log[f][k].at \in Nat
        BY <4>1 DEF Entries
      <4>3. log[f][k].at <= row[f].lastChecked
        BY <2>3 DEF InOrder
      <4> QED
        BY <2>2, <3>1, <3>2, <4>2, <4>3
    <3>4. [at |-> checkedAt[w], ok |-> outcome[w]] \in Entries
      BY <2>2 DEF Entries
    <3>5. \A k \in DOMAIN log'[f] : log'[f][k].at <= checkedAt[w]
      BY <2>2, <2>3, <3>1, <3>3, <3>4
    <3>6. row'[f].lastChecked = checkedAt[w]
      <4>1. Checked(row[f], checkedAt[w], outcome[w]).lastChecked = checkedAt[w]
        BY <3>1 DEF Checked, Rows
      <4> QED
        BY <2>3, <4>1
    <3> QED
      BY <3>5, <3>6
  <2>4. ASSUME NEW f \in Fingerprints, Exists(f)'
        PROVE  /\ row'[f].lastChecked <= clock'
               /\ \A k \in DOMAIN log'[f] : log'[f][k].at <= row'[f].lastChecked
    BY <2>1, <2>2, <2>3, <2>4 DEF InOrder
  <2>5. ASSUME NEW v \in Workers, Busy(v)',
               NEW f \in Fingerprints, Exists(f)', row'[f].id = job'[v].id
        PROVE  row'[f].lastChecked <= checkedAt'[v]
    <3>1. CASE v = w
      BY <1>1, <2>1, <2>2, <2>3, <2>5, <3>1 DEF InOrder, WithId
    <3>2. CASE v # w
      <4>1. Busy(v) /\ job[v].id # job[w].id
        BY <2>1, <2>5, <3>2 DEF Busy, InFlight
      <4> QED
        BY <2>1, <2>5, <4>1 DEF InOrder, WithId
    <3> QED
      BY <3>1, <3>2
  <2>6. \A v \in Workers : Busy(v)' => checkedAt'[v] <= clock'
    BY <2>1, <2>2 DEF Busy, InOrder
  <2> QED
    BY <2>4, <2>5, <2>6 DEF InOrder, WithId
<1> QED
  BY <1>2, <1>3

\* A valid node's most recent check passed: without source samples a node has
\* one check in flight (ValidatorQueue), so runOne applies its checks in the
\* order of their last_checked_at, failing statements included.
THEOREM LatestCheckDecides ==
    ASSUME ~Sampling
    PROVE  Spec => []ValidMeansLatestCheckOK
<1>1. Init => InFlight /\ InOrder
  BY DEF Init, InFlight, InOrder, Busy, Exists
<1>2. TableInv /\ InFlight /\ InOrder /\ [Next]_vars => InFlight' /\ InOrder'
  BY NodeCheckAssumption, FlightStep, OrderStep
<1>3. InOrder => ValidMeansLatestCheckOK
  BY DEF InOrder, ValidMeansLatestCheckOK
<1> QED
  BY <1>1, <1>2, <1>3, TableInvariant, PTL DEF Spec

-----------------------------------------------------------------------------
(* The automatic ban: where every statement succeeds, too, the streak a    *)
(* worker loaded is the row's until its own check is applied.              *)

StreaksAgree ==
    \A w \in Workers : Measuring(w) => \A f \in WithId(job[w].id) :
        IF pc[w] = "ban" THEN row[f].failStreak = Streak(w) /\ Streak(w) >= 3
        ELSE row[f].failStreak = snap[w].failStreak

\* Every step keeps the streak that a worker counts on that of its row.
LEMMA StreakStep ==
    ASSUME NodeCheckAssumption, ~Sampling, ~StoreMayFail, TableInv, InFlight, StreaksAgree,
           [Next]_vars
    PROVE  StreaksAgree'
<1> SUFFICES ASSUME NEW w \in Workers, Measuring(w)',
                    NEW f \in Fingerprints, Exists(f)', row'[f].id = job'[w].id
             PROVE  IF pc'[w] = "ban" THEN row'[f].failStreak = Streak(w)' /\ Streak(w)' >= 3
                    ELSE row'[f].failStreak = snap'[w].failStreak
  BY DEF StreaksAgree, WithId
<1> DEFINE Agrees == IF pc'[w] = "ban" THEN row'[f].failStreak = Streak(w)' /\ Streak(w)' >= 3
                     ELSE row'[f].failStreak = snap'[w].failStreak
<1>1. ASSUME RowsUnchecked, Measuring(w), job'[w].id = job[w].id, snap'[w] = snap[w],
             pc'[w] = "ban" <=> pc[w] = "ban"
      PROVE  Agrees
  <2>1. job[w].id < nextId /\ job[w].id \in Nat /\ nextId \in Nat
    BY <1>1 DEF InFlight, Busy, Measuring, TableInv, Typed
  <2>2. Exists(f) /\ row[f].id = job[w].id /\ row'[f].failStreak = row[f].failStreak
    BY <1>1, <2>1 DEF RowsUnchecked
  <2> QED
    BY <1>1, <2>2 DEF StreaksAgree, WithId, Streak
<1>2. CASE \E v \in Workers : Apply(v)
  <2>1. PICK v \in Workers : Apply(v)
    BY <1>2
  <2>2. /\ UNCHANGED <<job, snap>> /\ Busy(v) /\ pc[v] = "apply"
        /\ \A u \in Workers : u # v => pc'[u] = pc[u]
        /\ pc'[v] = IF ~outcome[v] /\ Streak(v) >= 3 THEN "ban" ELSE "idle"
        /\ \A g \in Fingerprints :
              /\ Exists(g)' <=> Exists(g)
              /\ Exists(g) => row'[g].id = row[g].id
        /\ \A g \in Fingerprints : Exists(g) =>
              \/ row'[g] = row[g]
              \/ row[g].id = job[v].id
        /\ \A g \in WithId(job[v].id) : row'[g] = Checked(row[g], checkedAt[v], outcome[v])
    BY <2>1, ApplyShape DEF Apply
  <2>3. CASE w = v
    <3>1. ~outcome[v] /\ Streak(v) >= 3 /\ pc'[w] = "ban"
      BY <2>2, <2>3 DEF Measuring
    <3>2. f \in WithId(job[v].id) /\ row[f].failStreak = snap[v].failStreak
      BY <2>2, <2>3 DEF WithId, StreaksAgree, Measuring
    <3>3. row[f] \in Rows /\ checkedAt[v] \in Nat /\ outcome[v] \in BOOLEAN
      BY <3>2, ExistsIsRow DEF WithId, TableInv, Typed
    <3>4. Checked(row[f], checkedAt[v], outcome[v]).failStreak = row[f].failStreak + 1
      BY <3>1, <3>3 DEF Checked, Rows
    <3>5. row'[f].failStreak = Streak(v)
      BY <2>2, <3>2, <3>4 DEF Streak
    <3> QED
      BY <2>2, <2>3, <3>1, <3>5 DEF Streak
  <2>4. CASE w # v
    <3>1. Measuring(w) /\ pc'[w] = pc[w] /\ job[w].id # job[v].id
      BY <2>2, <2>4 DEF Measuring, InFlight, Busy
    <3>2. Exists(f) /\ row[f].id = job[w].id /\ row'[f] = row[f]
      BY <2>2, <3>1
    <3> QED
      BY <2>2, <3>1, <3>2 DEF StreaksAgree, WithId, Streak
  <2> QED
    BY <2>3, <2>4
<1>3. CASE ~\E v \in Workers : Apply(v)
  <2>1. RowsUnchecked
    BY <1>3, UncheckedStep
  <2>2. CASE UNCHANGED workerVars
    BY <1>1, <2>1, <2>2 DEF workerVars, Measuring
  <2>3. ASSUME NEW v \in Workers, v # w, UNCHANGED <<pc[w], job[w].id, snap[w]>>
        PROVE  Agrees
    BY <1>1, <2>1, <2>3 DEF Measuring
  <2>4. ASSUME NEW v \in Workers, RunOne(v)
        PROVE  Agrees
    <3>1. CASE v # w
      <4>1. pc'[w] = pc[w] /\ snap'[w] = snap[w]
        BY <1>3, <2>4, <3>1
           DEF RunOne, BeginNode, BeginSample, Load, Probe, AutoBan, Goto, TableInv, Typed
      <4>2. job'[w] = job[w]
        BY <1>3, <2>4, <3>1
           DEF RunOne, BeginNode, BeginSample, Load, Probe, AutoBan, TableInv, Typed
      <4> QED
        BY <2>3, <3>1, <4>1, <4>2
    <3>2. CASE v = w
      <4>1. ~\E i \in 1 .. nextId - 1 : BeginNode(w, i)
        BY DEF BeginNode, Goto, Measuring, TableInv, Typed
      <4>2. ~\E g \in Fingerprints : BeginSample(w, g)
        BY DEF BeginSample
      <4>3. ~AutoBan(w)
        BY DEF AutoBan, Goto, Measuring, TableInv, Typed
      <4>4. ASSUME Load(w)
            PROVE  Agrees
        <5>1. PICK g \in Target(w) : /\ snap' = [snap EXCEPT ![w] = row[g]]
                                     /\ job' = [job EXCEPT ![w].fp = g]
                                     /\ pc' = [pc EXCEPT ![w] = "probe"]
          BY <4>4 DEF Load, Goto, Measuring, TableInv, Typed
        <5>2. job[w].id # 0 /\ row' = row
          BY <4>4 DEF Load, InFlight, Busy, tableVars
        <5>3. g \in Fingerprints /\ Exists(g) /\ row[g].id = job[w].id
          BY <5>1, <5>2 DEF Target, WithId
        <5>4. job'[w].id = job[w].id /\ snap'[w] = row[g] /\ pc'[w] = "probe"
          BY <5>1 DEF TableInv, Typed
        <5>5. f = g
          BY <5>2, <5>3, <5>4 DEF TableInv, IdsAreUnique, Exists
        <5> QED
          BY <5>2, <5>4, <5>5
      <4>5. ASSUME Probe(w)
            PROVE  Agrees
        <5>1. Measuring(w) /\ pc[w] = "probe" /\ pc'[w] = "apply" /\ UNCHANGED <<job, snap>>
          BY <4>5 DEF Probe, Goto, Measuring, TableInv, Typed
        <5> QED
          BY <1>1, <2>1, <5>1
      <4> QED
        BY <1>3, <2>4, <3>2, <4>1, <4>2, <4>3, <4>4, <4>5 DEF RunOne
    <3> QED
      BY <3>1, <3>2
  <2>5. ASSUME ~\E v \in Workers : RunOne(v)
        PROVE  UNCHANGED workerVars
    BY <2>5 DEF Next, vars, Tick, Ingest, BanButton, UnbanButton, PruneChecks, PruneInvalidNodes
  <2> QED
    BY <2>2, <2>4, <2>5
<1> QED
  BY <1>2, <1>3

\* An automatic ban follows at least three failures in a row and is as long as
\* the streak the table shows, although runOne reckons with the streak it loaded
\* before the probe: nothing else counts a failure of that node meanwhile.
THEOREM AutoBanIsByStreak ==
    ASSUME ~Sampling, ~StoreMayFail
    PROVE  Spec => AutoBanMatchesStreak
<1>1. Init => InFlight /\ StreaksAgree
  BY DEF Init, InFlight, StreaksAgree, Busy, Measuring
<1>2. TableInv /\ InFlight /\ StreaksAgree /\ [Next]_vars => InFlight' /\ StreaksAgree'
  BY NodeCheckAssumption, FlightStep, StreakStep
<1>3. ASSUME TableInv, InFlight, StreaksAgree, [Next]_vars,
             NEW w \in Workers, pc[w] = "ban", pc'[w] = "idle", NEW f \in WithId(snap[w].id)
      PROVE  row[f].failStreak >= 3 /\ row'[f].banUntil = clock + BanFor(row[f].failStreak)
  <2>1. AutoBan(w)
    <3>1. PICK v \in Workers : RunOne(v)
      BY <1>3 DEF Next, vars, workerVars, Tick, Ingest, BanButton, UnbanButton, PruneChecks,
                  PruneInvalidNodes
    <3>2. v = w
      BY <1>3, <3>1 DEF RunOne, BeginNode, BeginSample, Load, Probe, Apply, AutoBan, Goto,
                        TableInv, Typed
    <3> QED
      BY <1>3, <3>1, <3>2 DEF RunOne, BeginNode, BeginSample, Load, Probe, Apply
  <2>2. snap[w].id = job[w].id /\ f \in Fingerprints /\ Exists(f) /\ row[f] \in Rows
    BY <1>3, ExistsIsRow DEF InFlight, Busy, Measuring, WithId, TableInv
  <2>3. row[f].failStreak = Streak(w) /\ Streak(w) >= 3
    BY <1>3, <2>2 DEF StreaksAgree, Measuring
  <2>4. row'[f] = [row[f] EXCEPT !.banUntil = clock + BanFor(Streak(w))]
    BY <1>3, <2>1, <2>2 DEF AutoBan, SetBan
  <2> QED
    BY <2>2, <2>3, <2>4 DEF Rows
<1>4. TableInv /\ InFlight /\ StreaksAgree /\ [Next]_vars
      => [\A w \in Workers :
             pc[w] = "ban" /\ pc'[w] = "idle" =>
                \A f \in WithId(snap[w].id) :
                   /\ row[f].failStreak >= 3
                   /\ row'[f].banUntil = clock + BanFor(row[f].failStreak)]_vars
  BY <1>3
<1> QED
  BY <1>1, <1>2, <1>4, TableInvariant, PTL DEF Spec, AutoBanMatchesStreak

=============================================================================

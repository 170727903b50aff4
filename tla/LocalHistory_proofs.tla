-------------------------- MODULE LocalHistory_proofs --------------------------
(***************************************************************************)
(* The safety properties of LocalHistory, for every set of files, ids and  *)
(* connections and any number of deletes, crashes and restarts.            *)
(*                                                                         *)
(* All of them follow from one inductive invariant, IInv.  Its parts say,  *)
(* beyond the properties themselves, where a record may be while it is     *)
(* neither in a file nor in the store (SpoolInv, BatchInv), how far each   *)
(* cached view of the history reaches (ViewInv), and that a client only    *)
(* knows ids which every view already covers (ShownInv): that is why no    *)
(* delete can overtake the fold of its own target.                         *)
(***************************************************************************)
EXTENDS LocalHistory, TLAPS

(***************************************************************************)
(* What one appended row does to a history: lemmas about LocalStore.       *)
(***************************************************************************)
\* Every row of h is still there in g, with its identity, and stays deleted.
Extends(h, g) ==
    /\ DOMAIN h \subseteq DOMAIN g
    /\ \A n \in DOMAIN h :
        /\ g[n].id = h[n].id /\ g[n].target = h[n].target
        /\ h[n].dead => g[n].dead

\* What makes a history a good one, given the ids of other hosts' records: ids
\* are unique, a record is marked deleted exactly if it has a tombstone, and a
\* tombstone names a record that is here or on another host.
StoreInv(h, foreign) ==
    /\ h \in Seq(Row)
    /\ \A m, n \in DOMAIN h : h[m].id = h[n].id /\ h[m].id # NoId => m = n
    /\ \A n \in DOMAIN h : h[n].id # NoId => (h[n].dead <=> h[n].id \in TombstonedIds(h))
    /\ \A i \in TombstonedIds(h) : i \in foreign \/ Indexed(h, i)
    /\ \A n \in DOMAIN h : h[n].id \notin foreign

\* A row appended by appendOne, field by field.
LEMMA AppendOneRows ==
    ASSUME NEW h \in Seq(Row), NEW r \in Row, ~(r.id # NoId /\ Indexed(h, r.id)),
           NEW g, g = AppendOne(h, r)
    PROVE  /\ g \in Seq(Row)
           /\ Len(g) = Len(h) + 1
           /\ DOMAIN h = 1..Len(h)
           /\ DOMAIN g = 1..(Len(h) + 1)
           /\ g[Len(h) + 1] = r
           /\ \A n \in 1..Len(h) :
                /\ g[n].id = h[n].id /\ g[n].target = h[n].target
                /\ g[n].dead <=> (h[n].dead \/ (r.target # NoId /\ h[n].id = r.target))
  <1> DEFINE s == Stamped(h, r.target)
  <1>1. /\ \A n \in 1..Len(h) : h[n] \in Row
        /\ DOMAIN h = 1..Len(h) /\ Len(h) \in Nat
    OBVIOUS
  <1>2. /\ s = [n \in 1..Len(h) |-> s[n]]
        /\ \A n \in 1..Len(h) : s[n] \in Row
        /\ \A n \in 1..Len(h) :
             /\ s[n].id = h[n].id /\ s[n].target = h[n].target
             /\ s[n].dead <=> (h[n].dead \/ (r.target # NoId /\ h[n].id = r.target))
    BY <1>1 DEF Stamped, Row
  <1>3. s \in Seq(Row) /\ Len(s) = Len(h)
    BY <1>1, <1>2
  <1>4. g = Append(s, r)
    BY DEF AppendOne
  <1> HIDE DEF s
  <1>5. g \in Seq(Row) /\ Len(g) = Len(h) + 1 /\ g[Len(h) + 1] = r
    BY <1>1, <1>3, <1>4
  <1>6. \A n \in 1..Len(h) : g[n] = s[n]
    BY <1>1, <1>3, <1>4
  <1> QED
    BY <1>1, <1>2, <1>5, <1>6

\* A row whose id the new row does not name is left as it is.
LEMMA AppendOneUntouched ==
    ASSUME NEW h \in Seq(Row), NEW r \in Row, NEW n \in DOMAIN h, h[n].id # r.target
    PROVE  AppendOne(h, r)[n] = h[n]
  <1> DEFINE s == Stamped(h, r.target)
  <1>1. /\ DOMAIN h = 1..Len(h) /\ Len(h) \in Nat /\ \A k \in 1..Len(h) : h[k] \in Row
    OBVIOUS
  <1>2. /\ s = [k \in 1..Len(h) |-> s[k]] /\ \A k \in 1..Len(h) : s[k] \in Row
        /\ s[n] = h[n]
    BY <1>1 DEF Stamped, Row
  <1>3. s \in Seq(Row) /\ Len(s) = Len(h)
    BY <1>1, <1>2
  <1> HIDE DEF s
  <1>4. Append(s, r)[n] = s[n]
    BY <1>1, <1>3
  <1> QED
    BY <1>2, <1>4 DEF AppendOne, s

\* The empty history is a good one.
LEMMA EmptyHistory ==
    ASSUME NEW foreign
    PROVE  StoreInv(<< >>, foreign) /\ Extends(<< >>, << >>)
  BY DEF StoreInv, Extends, TombstonedIds, Indexed

\* appendOne returns a history that extends the one it was given.
LEMMA AppendOneExtends ==
    ASSUME NEW h \in Seq(Row), NEW r \in Row
    PROVE  /\ AppendOne(h, r) \in Seq(Row)
           /\ Extends(h, AppendOne(h, r))
           /\ Len(h) <= Len(AppendOne(h, r))
           /\ r.id # NoId => Indexed(AppendOne(h, r), r.id)
  <1>1. CASE r.id # NoId /\ Indexed(h, r.id)
    BY <1>1 DEF AppendOne, Extends
  <1>2. CASE ~(r.id # NoId /\ Indexed(h, r.id))
    <2> DEFINE g == AppendOne(h, r)
    <2>1. /\ g \in Seq(Row)
          /\ Len(g) = Len(h) + 1
          /\ DOMAIN h = 1..Len(h)
          /\ DOMAIN g = 1..(Len(h) + 1)
          /\ g[Len(h) + 1] = r
          /\ \A n \in 1..Len(h) :
               /\ g[n].id = h[n].id /\ g[n].target = h[n].target
               /\ g[n].dead <=> (h[n].dead \/ (r.target # NoId /\ h[n].id = r.target))
      BY <1>2, AppendOneRows
    <2>2. Len(h) \in Nat
      OBVIOUS
    <2> HIDE DEF g
    <2>3. Extends(h, g)
      BY <2>1, <2>2 DEF Extends
    <2>4. Indexed(g, r.id)
      BY <2>1, <2>2 DEF Indexed
    <2> QED
      BY <2>1, <2>2, <2>3, <2>4 DEF g
  <1> QED
    BY <1>1, <1>2

\* Extends is an order, and an extension keeps every id indexed.
LEMMA ExtendsTrans ==
    ASSUME NEW f, NEW g, NEW h, Extends(f, g), Extends(g, h)
    PROVE  Extends(f, h)
  BY DEF Extends

LEMMA ExtendsIndexed ==
    ASSUME NEW h, NEW g, Extends(h, g), NEW i, Indexed(h, i)
    PROVE  Indexed(g, i)
  BY DEF Extends, Indexed

\* A command, tag or prompt keeps the history good, whether it is new or not.
LEMMA AppendRecordKeeps ==
    ASSUME NEW foreign, NEW h, StoreInv(h, foreign), NEW i \in Ids \ foreign
    PROVE  /\ StoreInv(AppendOne(h, RecordRow(i)), foreign)
           /\ TombstonedIds(AppendOne(h, RecordRow(i))) = TombstonedIds(h)
  <1> DEFINE r == RecordRow(i)
             g == AppendOne(h, r)
  <1>1. r \in Row /\ r.id = i /\ r.target = NoId /\ ~r.dead /\ i # NoId /\ h \in Seq(Row)
    BY IdsAssumption DEF RecordRow, Row, StoreInv
  <1>2. CASE Indexed(h, i)
    BY <1>1, <1>2 DEF AppendOne
  <1>3. CASE ~Indexed(h, i)
    <2>1. /\ g \in Seq(Row)
          /\ DOMAIN h = 1..Len(h)
          /\ DOMAIN g = 1..(Len(h) + 1)
          /\ g[Len(h) + 1] = r
          /\ \A n \in 1..Len(h) :
               /\ g[n].id = h[n].id /\ g[n].target = h[n].target
               /\ g[n].dead <=> (h[n].dead \/ (r.target # NoId /\ h[n].id = r.target))
      BY <1>1, <1>3, AppendOneRows
    <2>2. Len(h) \in Nat
      BY <1>1
    <2> HIDE DEF g, r
    <2>3. TombstonedIds(g) = TombstonedIds(h)
      BY <1>1, <2>1, <2>2 DEF TombstonedIds
    <2>4. i \notin TombstonedIds(h)
      BY <1>3 DEF StoreInv
    <2>5. \A m, n \in DOMAIN g : g[m].id = g[n].id /\ g[m].id # NoId => m = n
      BY <1>1, <1>3, <2>1, <2>2 DEF StoreInv, Indexed
    <2>6. \A n \in DOMAIN g : g[n].id # NoId => (g[n].dead <=> g[n].id \in TombstonedIds(g))
      BY <1>1, <2>1, <2>2, <2>3, <2>4 DEF StoreInv
    <2>7. \A j \in TombstonedIds(g) : j \in foreign \/ Indexed(g, j)
      BY <2>1, <2>2, <2>3 DEF StoreInv, Indexed
    <2>8. \A n \in DOMAIN g : g[n].id \notin foreign
      BY <1>1, <2>1, <2>2 DEF StoreInv
    <2> QED
      BY <2>1, <2>3, <2>5, <2>6, <2>7, <2>8 DEF StoreInv, g, r
  <1> QED
    BY <1>2, <1>3

\* So does the tombstone of a record that is here or on another host.
LEMMA AppendTombstoneKeeps ==
    ASSUME NEW foreign, NoId \notin foreign, NEW h, StoreInv(h, foreign), NEW i \in Ids,
           i \in foreign \/ Indexed(h, i)
    PROVE  StoreInv(AppendOne(h, Tombstone(i)), foreign)
  <1> DEFINE r == Tombstone(i)
             g == AppendOne(h, r)
  <1>1. r \in Row /\ r.id = NoId /\ r.target = i /\ ~r.dead /\ i # NoId /\ h \in Seq(Row)
    BY IdsAssumption DEF Tombstone, Row, StoreInv
  <1>11. ~(r.id # NoId /\ Indexed(h, r.id))
    BY <1>1
  <1> HIDE DEF r
  <1>2. /\ g \in Seq(Row)
        /\ DOMAIN h = 1..Len(h)
        /\ DOMAIN g = 1..(Len(h) + 1)
        /\ g[Len(h) + 1] = r
        /\ \A n \in 1..Len(h) :
             /\ g[n].id = h[n].id /\ g[n].target = h[n].target
             /\ g[n].dead <=> (h[n].dead \/ (r.target # NoId /\ h[n].id = r.target))
    BY <1>1, <1>11, AppendOneRows
  <1>3. Len(h) \in Nat
    BY <1>1
  <1> HIDE DEF g, r
  <1>4. TombstonedIds(g) = TombstonedIds(h) \cup {i}
    BY <1>1, <1>2, <1>3 DEF TombstonedIds
  <1>5. \A m, n \in DOMAIN g : g[m].id = g[n].id /\ g[m].id # NoId => m = n
    BY <1>1, <1>2, <1>3 DEF StoreInv
  <1>6. \A n \in DOMAIN g : g[n].id # NoId => (g[n].dead <=> g[n].id \in TombstonedIds(g))
    BY <1>1, <1>2, <1>3, <1>4 DEF StoreInv
  <1>7. \A j \in TombstonedIds(g) : j \in foreign \/ Indexed(g, j)
    BY <1>1, <1>2, <1>3, <1>4 DEF StoreInv, Indexed
  <1>8. \A n \in DOMAIN g : g[n].id \notin foreign
    BY <1>1, <1>2, <1>3 DEF StoreInv
  <1> QED
    BY <1>2, <1>5, <1>6, <1>7, <1>8 DEF StoreInv, g, r

\* In a good history DeletedMs marks and tombstones tell the same live set.
LEMMA MarksAgreeWithReplay ==
    ASSUME NEW foreign, NEW h, StoreInv(h, foreign)
    PROVE  All(h) = Replayed(h)
  BY IdsAssumption DEF StoreInv, All, Replayed, IsCommand

(***************************************************************************)
(* The inductive invariant.                                                *)
(***************************************************************************)
\* Where published files are, and what the ingest goroutine may do when.
SpoolInv ==
    /\ todo \subseteq spool
    /\ \A f \in spool \cup DrainedSet : content[f] # NoId
    /\ \A f \in Files : content[f] \notin Imports \cup Foreign
    /\ phase = "down" => ipc = "idle"
    /\ phase = "starting" => ipc \in {"idle", "drain", "append"}

\* The open transaction is ahead of the store by what it has applied.
BatchInv ==
    /\ applied <= Len(drained)
    /\ ipc # "append" => applied = 0
    /\ ipc \notin {"drain", "append"} => drained = << >>
    /\ ipc = "append" =>
        /\ StoreInv(work, Foreign) /\ Extends(hist, work) /\ Len(hist) <= Len(work)
        /\ TombstonedIds(work) = TombstonedIds(hist)
        /\ \A k \in 1..applied : Indexed(work, content[drained[k]])

\* A view is a set of seqs up to a bound that the store has reached.
View(seqs, last) ==
    /\ last <= Len(hist)
    /\ \A n \in seqs : n \in 1..last /\ hist[n].id \in Commands

\* The corpus, the snapshot and the rows in flight are views, in this order.
ViewInv ==
    /\ View(corpus, lastSeq)
    /\ snap # NoSnap => View(snap.recs, snap.lastSeq)
    /\ from <= lastSeq
    /\ ipc # "since" => from = 0
    /\ ipc = "since" => \A n \in corpus : n <= from
    /\ ipc = "fold" => \E a, b \in 0..Len(hist) :
        /\ DOMAIN rows = (a + 1)..b
        /\ \A k \in (a + 1)..b : rows[k] = hist[k]
        /\ \A n \in corpus : n <= a
        /\ a <= lastSeq

\* An id that a client was shown is stored, and below every fold to come.
ShownInv ==
    /\ \A i \in shown : i \in Foreign \/ Indexed(hist, i)
    /\ Serving => \A n \in DOMAIN hist : hist[n].id \in shown =>
        /\ n <= lastSeq
        /\ ipc = "since" => n <= from
        /\ ipc = "fold" => n \notin DOMAIN rows

\* A delete that has yet to drop its row has written its tombstone.
DeletingInv == \A c \in Conns : deleting[c] \in TombstonedIds(hist) \cup {NoId}

\* Live commands below a view's bound are in the view, or were skipped.
CompleteInv ==
    /\ Serving => \A n \in All(hist) : n <= lastSeq => n \in corpus \cup skipped
    /\ snap # NoSnap => \A n \in All(hist) : n <= snap.lastSeq => n \in snap.recs \cup skipped

\* A deleted command in the snapshot will be dropped when the tail is folded in.
SnapshotClean ==
    snap # NoSnap => \A n \in snap.recs : hist[n].dead =>
        n \in stale \/ \E m \in (snap.lastSeq + 1)..Len(hist) : hist[m].target = hist[n].id

IInv ==
    /\ TypeOK
    /\ StoreInv(hist, Foreign)
    /\ SpoolInv
    /\ BatchInv
    /\ ViewInv
    /\ ShownInv
    /\ DeletingInv
    /\ CompleteInv
    /\ SnapshotClean
    /\ LostOnlyInDrain
    /\ CorpusMissesOnlySkipped
    /\ CorpusShowsOnlyStale

\* The parts of the invariant that only speak of the corpus and the snapshot.
Searchable ==
    ViewInv /\ ShownInv /\ DeletingInv /\ CompleteInv /\ SnapshotClean
      /\ CorpusMissesOnlySkipped /\ CorpusShowsOnlyStale

LEMMA InitInv == Init => IInv
  <1> SUFFICES ASSUME Init PROVE IInv
    OBVIOUS
  <1> USE DEF Init
  <1>a. DOMAIN NoRows = {}
    BY DEF NoRows
  <1>b. << >> \in Seq(Row) /\ << >> \in Seq(Files)
    OBVIOUS
  <1>c. content \in [Files -> Ids \cup {NoId}] /\ deleting \in [Conns -> Ids \cup {NoId}]
    OBVIOUS
  <1>1. TypeOK
    BY <1>a, <1>b, <1>c, HistoryAssumption DEF TypeOK, IngestSteps
  <1>2. StoreInv(hist, Foreign)
    BY EmptyHistory
  <1>3. DrainedSet = {} /\ All(hist) = {}
    BY DEF DrainedSet, All
  <1>4. SpoolInv /\ BatchInv /\ LostOnlyInDrain
    BY <1>3, IdsAssumption, HistoryAssumption DEF SpoolInv, BatchInv, LostOnlyInDrain
  <1>5. ViewInv /\ ShownInv /\ DeletingInv /\ CompleteInv /\ SnapshotClean
    BY <1>3 DEF ViewInv, View, ShownInv, DeletingInv, CompleteInv, SnapshotClean, Serving
  <1>6. CorpusMissesOnlySkipped /\ CorpusShowsOnlyStale
    BY DEF CorpusMissesOnlySkipped, CorpusShowsOnlyStale, Serving
  <1> QED
    BY <1>1, <1>2, <1>4, <1>5, <1>6 DEF IInv

\* A step that leaves the store, the snapshot and the daemon's views alone.
LEMMA SearchableUnchanged ==
    ASSUME Searchable,
           UNCHANGED <<hist, snap, from, rows, corpus, lastSeq, deleting, shown, skipped, unread, stale>>,
           Serving' => Serving,
           ipc' = ipc \/ {ipc, ipc'} \cap {"refresh", "since", "fold"} = {}
    PROVE  Searchable'
  BY DEF Searchable, ViewInv, View, ShownInv, DeletingInv, CompleteInv, SnapshotClean,
         CorpusMissesOnlySkipped, CorpusShowsOnlyStale, All

LEMMA SpoolAppendKeeps ==
    ASSUME IInv, NEW f \in Files, NEW i \in Ids, SpoolAppend(f, i)
    PROVE  IInv'
  <1> USE DEF SpoolAppend, disk, ingest, ram, history
  <1>1. TypeOK'
    BY DEF IInv, TypeOK
  <1>2. StoreInv(hist, Foreign)'
    BY DEF IInv
  <1>3. DrainedSet' = DrainedSet
    BY DEF DrainedSet
  <1>4. content \in [Files -> Ids \cup {NoId}] /\ spool \subseteq Files /\ DrainedSet \subseteq Files
    BY DEF IInv, TypeOK, DrainedSet
  <1>5. SpoolInv'
    BY <1>3, <1>4, IdsAssumption DEF IInv, SpoolInv
  <1>6. \A k \in 1..applied : content'[drained[k]] = content[drained[k]]
    <2> SUFFICES ASSUME NEW k \in 1..applied PROVE content'[drained[k]] = content[drained[k]]
      OBVIOUS
    <2>1. drained \in Seq(Files) /\ applied \in Nat /\ applied <= Len(drained)
      BY DEF IInv, TypeOK, BatchInv
    <2>2. k \in DOMAIN drained /\ drained[k] \in DrainedSet
      BY <2>1 DEF DrainedSet
    <2>3. content[drained[k]] # NoId
      BY <2>2 DEF IInv, SpoolInv
    <2> QED
      BY <1>4, <2>2, <2>3
  <1>7. BatchInv'
    BY <1>6 DEF IInv, BatchInv
  <1>8. LostOnlyInDrain'
    BY <1>3, <1>4 DEF IInv, LostOnlyInDrain
  <1>9. Searchable'
    BY SearchableUnchanged DEF IInv, Searchable, Serving
  <1> QED
    BY <1>1, <1>2, <1>5, <1>7, <1>8, <1>9 DEF IInv, Searchable

LEMMA WakeKeeps ==
    ASSUME IInv, WakeIngest \/ TakeWake
    PROVE  IInv'
  <1> USE DEF WakeIngest, TakeWake, disk, ingest, ram, history
  <1>1. TypeOK'
    BY DEF IInv, TypeOK
  <1>2. StoreInv(hist, Foreign)' /\ SpoolInv' /\ BatchInv' /\ LostOnlyInDrain'
    BY DEF IInv, SpoolInv, BatchInv, LostOnlyInDrain, DrainedSet
  <1>3. Searchable'
    BY SearchableUnchanged DEF IInv, Searchable, Serving
  <1> QED
    BY <1>1, <1>2, <1>3 DEF IInv, Searchable

LEMMA StartKeeps ==
    ASSUME IInv, Start \/ StartIngest
    PROVE  IInv'
  <1> USE DEF Start, StartIngest, disk, ingest, ram, history
  <1>1. TypeOK'
    BY DEF IInv, TypeOK, IngestSteps
  <1>2. StoreInv(hist, Foreign)' /\ SpoolInv' /\ BatchInv' /\ LostOnlyInDrain'
    BY DEF IInv, SpoolInv, BatchInv, LostOnlyInDrain, DrainedSet
  <1>3. Searchable'
    BY SearchableUnchanged DEF IInv, Searchable, SpoolInv, Serving
  <1> QED
    BY <1>1, <1>2, <1>3 DEF IInv, Searchable

\* What Drain's slice holds after one more file.
LEMMA DrainedOneMore ==
    ASSUME drained \in Seq(Files), NEW f \in Files, drained' = Append(drained, f)
    PROVE  /\ drained' \in Seq(Files) /\ DrainedSet' = DrainedSet \cup {f}
           /\ Len(drained') = Len(drained) + 1
           /\ \A k \in 1..Len(drained) : drained'[k] = drained[k]
  <1>1. /\ Len(drained) \in Nat /\ DOMAIN drained = 1..Len(drained)
        /\ DOMAIN drained' = 1..(Len(drained) + 1) /\ Len(drained') = Len(drained) + 1
        /\ \A k \in 1..Len(drained) : drained'[k] = drained[k]
        /\ drained'[Len(drained) + 1] = f
        /\ drained' \in Seq(Files)
    OBVIOUS
  <1>2. DrainedSet' \subseteq DrainedSet \cup {f}
    BY <1>1 DEF DrainedSet
  <1>3. DrainedSet \subseteq DrainedSet' /\ f \in DrainedSet'
    BY <1>1 DEF DrainedSet
  <1> QED
    BY <1>1, <1>2, <1>3

LEMMA DrainFileKeeps ==
    ASSUME IInv, DrainFile
    PROVE  IInv'
  <1> USE DEF DrainFile, ram
  <1>1. PICK f \in todo :
          /\ todo' = todo \ {f} /\ spool' = spool \ {f}
          /\ \/ drained' = Append(drained, f) /\ lost' = lost
             \/ drained' = drained /\ lost' = lost \cup {f}
    OBVIOUS
  <1>2. f \in Files /\ f \in spool /\ drained \in Seq(Files)
    BY DEF IInv, TypeOK, SpoolInv
  <1>3. /\ drained' \in Seq(Files) /\ lost' \subseteq Files
        /\ DrainedSet' \subseteq DrainedSet \cup {f} /\ DrainedSet \subseteq DrainedSet'
        /\ f \in DrainedSet' \cup lost' /\ lost \subseteq lost'
        /\ Len(drained) <= Len(drained')
    <2>1. CASE drained' = Append(drained, f) /\ lost' = lost
      BY <1>2, <2>1, DrainedOneMore DEF IInv, TypeOK
    <2>2. CASE drained' = drained /\ lost' = lost \cup {f}
      BY <1>2, <2>2 DEF IInv, TypeOK, DrainedSet
    <2> QED
      BY <1>1, <2>1, <2>2
  <1>4. TypeOK'
    BY <1>1, <1>3 DEF IInv, TypeOK
  <1>5. SpoolInv' /\ StoreInv(hist, Foreign)'
    BY <1>1, <1>2, <1>3 DEF IInv, SpoolInv
  <1>6. BatchInv'
    BY <1>2, <1>3 DEF IInv, BatchInv, TypeOK
  <1>7. LostOnlyInDrain'
    BY <1>1, <1>3 DEF IInv, LostOnlyInDrain
  <1>8. Searchable'
    BY SearchableUnchanged DEF IInv, Searchable, Serving
  <1> QED
    BY <1>4, <1>5, <1>6, <1>7, <1>8 DEF IInv, Searchable

\* The files of an abandoned drain join the lost ones.
LEMMA AbandonedDrain ==
    ASSUME IInv, lost' = lost \cup DrainedSet, UNCHANGED <<content, spool, hist>>,
           drained' = << >>
    PROVE  LostOnlyInDrain' /\ DrainedSet' = {} /\ DrainedSet \subseteq Files
  BY DEF IInv, TypeOK, LostOnlyInDrain, DrainedSet

LEMMA IngestFailsKeeps ==
    ASSUME IInv, IngestFails
    PROVE  IInv'
  <1> USE DEF IngestFails, disk, ram
  <1>1. LostOnlyInDrain' /\ DrainedSet' = {} /\ DrainedSet \subseteq Files
    BY AbandonedDrain
  <1>2. TypeOK'
    BY <1>1 DEF IInv, TypeOK, IngestSteps
  <1>3. SpoolInv' /\ StoreInv(hist, Foreign)' /\ BatchInv'
    BY <1>1 DEF IInv, SpoolInv, BatchInv
  <1>4. Searchable'
    BY SearchableUnchanged DEF IInv, Searchable, Serving
  <1> QED
    BY <1>1, <1>2, <1>3, <1>4 DEF IInv, Searchable

LEMMA DrainDoneKeeps ==
    ASSUME IInv, DrainDone
    PROVE  IInv'
  <1> USE DEF DrainDone, disk, ram, history
  <1>1. TypeOK'
    BY DEF IInv, TypeOK, IngestSteps
  <1>2. Extends(hist, hist) /\ Len(hist) <= Len(hist)
    BY DEF Extends, IInv, TypeOK
  <1>3. SpoolInv' /\ StoreInv(hist, Foreign)'
    BY DEF IInv, SpoolInv, DrainedSet
  <1>4. BatchInv'
    BY <1>2 DEF IInv, BatchInv
  <1>5. LostOnlyInDrain'
    BY DEF IInv, LostOnlyInDrain, DrainedSet
  <1>6. Searchable'
    BY SearchableUnchanged DEF IInv, Searchable, Serving
  <1> QED
    BY <1>1, <1>3, <1>4, <1>5, <1>6 DEF IInv, Searchable

-------------------------------------------------------------------------------
(* The history grows: a batch, an import, a tombstone *)

\* How a longer history leaves the views of the old one in order.
LEMMA HistoryGrows ==
    ASSUME IInv, StoreInv(hist', Foreign), Extends(hist, hist'), Len(hist) <= Len(hist'),
           UNCHANGED <<snap, from, rows, corpus, lastSeq, shown, skipped, stale>>,
           Serving' => Serving,
           ipc' = ipc \/ {ipc, ipc'} \cap {"since", "fold"} = {},
           ipc = "fold" => \A k \in DOMAIN rows : hist'[k] = hist[k]
    PROVE  /\ ViewInv' /\ ShownInv' /\ CompleteInv' /\ SnapshotClean'
           /\ \A n \in All(hist') : n \in DOMAIN hist => n \in All(hist)
  <1>1. /\ hist \in Seq(Row) /\ hist' \in Seq(Row)
        /\ DOMAIN hist = 1..Len(hist) /\ DOMAIN hist' = 1..Len(hist')
        /\ Len(hist) \in Nat /\ Len(hist') \in Nat
    BY DEF IInv, StoreInv
  <1>2. \A n \in DOMAIN hist : /\ n \in DOMAIN hist'
                               /\ hist'[n].id = hist[n].id /\ hist'[n].target = hist[n].target
                               /\ hist[n].dead => hist'[n].dead
    BY DEF Extends
  <1>3. /\ lastSeq \in Nat /\ corpus \subseteq Nat /\ shown \subseteq Ids
        /\ snap # NoSnap => snap.lastSeq \in Nat /\ snap.recs \subseteq Nat
    BY DEF IInv, TypeOK
  <1>4. \A n \in All(hist') : n \in DOMAIN hist => n \in All(hist)
    BY <1>2 DEF All, IsCommand
  <1>5. View(corpus, lastSeq)' /\ (snap # NoSnap => View(snap.recs, snap.lastSeq))'
    BY <1>1, <1>2, <1>3 DEF IInv, ViewInv, View
  <1>6. ASSUME ipc' = "fold"
        PROVE  (\E a, b \in 0..Len(hist) :
                  /\ DOMAIN rows = (a + 1)..b
                  /\ \A k \in (a + 1)..b : rows[k] = hist[k]
                  /\ \A n \in corpus : n <= a
                  /\ a <= lastSeq)'
    <2>1. ipc = "fold"
      BY <1>6
    <2>2. PICK a, b \in 0..Len(hist) : /\ DOMAIN rows = (a + 1)..b
                                       /\ \A k \in (a + 1)..b : rows[k] = hist[k]
                                       /\ \A n \in corpus : n <= a
                                       /\ a <= lastSeq
      BY <2>1 DEF IInv, ViewInv
    <2>3. a \in 0..Len(hist') /\ b \in 0..Len(hist')
      BY <1>1
    <2> QED
      BY <2>1, <2>2, <2>3
  <1>7. ViewInv'
    BY <1>5, <1>6 DEF IInv, ViewInv
  <1>8. \A n \in DOMAIN hist' : hist'[n].id \in shown => n \in DOMAIN hist /\ hist[n].id \in shown
    <2> SUFFICES ASSUME NEW n \in DOMAIN hist', hist'[n].id \in shown
                 PROVE  n \in DOMAIN hist /\ hist[n].id \in shown
      OBVIOUS
    <2>1. hist'[n].id # NoId /\ hist'[n].id \notin Foreign
      BY <1>3, IdsAssumption DEF StoreInv
    <2>2. PICK m \in DOMAIN hist : hist[m].id = hist'[n].id
      BY <2>1 DEF IInv, ShownInv, Indexed
    <2>3. m = n
      BY <1>2, <2>1, <2>2 DEF StoreInv
    <2> QED
      BY <2>2, <2>3
  <1>9. \A i \in shown : i \in Foreign \/ Indexed(hist', i)
    BY ExtendsIndexed DEF IInv, ShownInv
  <1>10. ShownInv'
    BY <1>8, <1>9 DEF IInv, ShownInv
  <1>11. CompleteInv'
    BY <1>1, <1>3, <1>4 DEF IInv, CompleteInv, ViewInv, View, All
  <1>12. SnapshotClean'
    <2> SUFFICES ASSUME snap # NoSnap, NEW n \in snap.recs, hist'[n].dead, n \notin stale
                 PROVE  \E m \in (snap.lastSeq + 1)..Len(hist') : hist'[m].target = hist'[n].id
      BY DEF SnapshotClean
    <2>1. /\ n \in DOMAIN hist /\ hist[n].id \in Commands /\ hist[n].id # NoId
          /\ snap.lastSeq \in Nat /\ snap.lastSeq <= Len(hist)
      BY <1>1, <1>3, IdsAssumption DEF IInv, ViewInv, View
    <2>2. CASE hist[n].dead
      BY <1>1, <1>2, <2>1, <2>2 DEF IInv, SnapshotClean
    <2>3. CASE ~hist[n].dead
      <3>1. hist'[n].id \in TombstonedIds(hist') /\ hist[n].id \notin TombstonedIds(hist)
        BY <1>2, <2>1, <2>3 DEF IInv, StoreInv
      <3>2. PICK m \in DOMAIN hist' : hist'[m].target = hist'[n].id
        BY <3>1 DEF TombstonedIds
      <3>3. m \notin DOMAIN hist
        BY <1>2, <2>1, <3>1, <3>2 DEF TombstonedIds
      <3> QED
        BY <1>1, <2>1, <3>2, <3>3
    <2> QED
      BY <2>2, <2>3
  <1> QED
    BY <1>4, <1>7, <1>10, <1>11, <1>12

\* A drained file holds the id of a record made on this machine.
LEMMA DrainedContent ==
    ASSUME IInv, NEW k \in 1..Len(drained)
    PROVE  content[drained[k]] \in Ids \ Foreign /\ drained[k] \in DrainedSet
  <1>1. drained \in Seq(Files) /\ content \in [Files -> Ids \cup {NoId}]
    BY DEF IInv, TypeOK
  <1>2. drained[k] \in Files /\ drained[k] \in DrainedSet
    BY <1>1 DEF DrainedSet
  <1> QED
    BY <1>1, <1>2 DEF IInv, SpoolInv

LEMMA AppendNextKeeps ==
    ASSUME IInv, AppendNext
    PROVE  IInv'
  <1> USE DEF AppendNext, disk, ram, history
  <1> DEFINE i == content[drained[applied + 1]]
  <1>1. /\ applied \in Nat /\ applied + 1 \in 1..Len(drained) /\ Len(drained) \in Nat
        /\ ipc = "append" /\ ipc' = ipc
    BY DEF IInv, TypeOK
  <1>2. i \in Ids \ Foreign
    BY <1>1, DrainedContent
  <1>3. /\ StoreInv(work, Foreign) /\ Extends(hist, work) /\ Len(hist) <= Len(work)
        /\ TombstonedIds(work) = TombstonedIds(hist)
        /\ \A k \in 1..applied : Indexed(work, content[drained[k]])
    BY <1>1 DEF IInv, BatchInv
  <1>4. work' = AppendOne(work, RecordRow(i))
    OBVIOUS
  <1>5. RecordRow(i) \in Row /\ RecordRow(i).id = i /\ i # NoId
    BY <1>2, IdsAssumption DEF RecordRow, Row
  <1> HIDE DEF i
  <1>6. StoreInv(work', Foreign) /\ TombstonedIds(work') = TombstonedIds(work)
    BY <1>2, <1>3, <1>4, AppendRecordKeeps
  <1>7. work \in Seq(Row) /\ work' \in Seq(Row) /\ hist \in Seq(Row)
    BY <1>3, <1>6 DEF StoreInv, IInv
  <1>8. Extends(work, work') /\ Len(work) <= Len(work') /\ Indexed(work', i)
    BY <1>4, <1>5, <1>7, AppendOneExtends
  <1>9. Extends(hist, work') /\ Len(hist) <= Len(work')
    <2>1. Extends(hist, work')
      BY <1>3, <1>8, ExtendsTrans
    <2> QED
      BY <1>3, <1>7, <1>8, <2>1
  <1>10. \A k \in 1..(applied + 1) : Indexed(work', content[drained[k]])
    <2>1. \A k \in 1..applied : Indexed(work', content[drained[k]])
      BY <1>3, <1>8, ExtendsIndexed
    <2> QED
      BY <1>1, <1>8, <2>1 DEF i
  <1>11. TypeOK'
    BY <1>1, <1>7 DEF IInv, TypeOK
  <1>12. BatchInv'
    BY <1>1, <1>3, <1>6, <1>9, <1>10 DEF IInv, BatchInv
  <1>13. StoreInv(hist, Foreign)' /\ SpoolInv' /\ LostOnlyInDrain'
    BY DEF IInv, SpoolInv, LostOnlyInDrain, DrainedSet
  <1>14. Searchable'
    BY <1>1, SearchableUnchanged DEF IInv, Searchable, Serving
  <1> QED
    BY <1>11, <1>12, <1>13, <1>14 DEF IInv, Searchable

LEMMA CommitKeeps ==
    ASSUME IInv, Commit
    PROVE  IInv'
  <1> USE DEF Commit, ram, history
  <1>1. /\ StoreInv(work, Foreign) /\ Extends(hist, work) /\ Len(hist) <= Len(work)
        /\ TombstonedIds(work) = TombstonedIds(hist)
        /\ \A k \in 1..Len(drained) : Indexed(work, content[drained[k]])
    BY DEF IInv, BatchInv
  <1>2. hist' = work /\ hist \in Seq(Row) /\ work \in Seq(Row)
    BY DEF IInv, TypeOK
  <1>3. TypeOK'
    BY <1>2 DEF IInv, TypeOK, IngestSteps
  <1>4. SpoolInv' /\ BatchInv'
    BY DEF IInv, SpoolInv, BatchInv, DrainedSet
  <1>5. LostOnlyInDrain'
    <2> SUFFICES ASSUME NEW f \in Files, content[f] # NoId, f \notin spool \cup lost
                 PROVE  Indexed(work, content[f])
      BY DEF LostOnlyInDrain
    <2>1. CASE Indexed(hist, content[f])
      BY <1>1, <2>1, ExtendsIndexed
    <2>2. CASE f \in DrainedSet
      <3>1. PICK k \in DOMAIN drained : f = drained[k]
        BY <2>2 DEF DrainedSet
      <3>2. k \in 1..Len(drained)
        BY <3>1 DEF IInv, TypeOK
      <3> QED
        BY <1>1, <3>1, <3>2
    <2> QED
      BY <2>1, <2>2 DEF IInv, LostOnlyInDrain
  <1>6. /\ ViewInv' /\ ShownInv' /\ CompleteInv' /\ SnapshotClean'
        /\ \A n \in All(hist') : n \in DOMAIN hist => n \in All(hist)
    BY <1>1, <1>2, HistoryGrows DEF Serving
  <1>7. DeletingInv'
    BY <1>1 DEF IInv, DeletingInv
  <1>8. CorpusMissesOnlySkipped'
    <2> SUFFICES ASSUME Serving, NEW n \in All(work), n \notin corpus \cup skipped,
                        ~(n \in unread /\ n > lastSeq)
                 PROVE  ipc' = "refresh" /\ n > lastSeq
      BY DEF CorpusMissesOnlySkipped, Serving
    <2>1. n \notin DOMAIN hist
      BY <1>6, <1>2 DEF IInv, CorpusMissesOnlySkipped
    <2>2. n \in 1..Len(work) /\ DOMAIN hist = 1..Len(hist) /\ Len(work) \in Nat /\ Len(hist) \in Nat
      BY <1>2 DEF All
    <2>3. lastSeq \in Nat /\ lastSeq <= Len(hist)
      BY DEF IInv, TypeOK, ViewInv, View
    <2> QED
      BY <2>1, <2>2, <2>3 DEF Serving
  <1>9. CorpusShowsOnlyStale'
    <2> SUFFICES ASSUME Serving, NEW n \in corpus, work[n].dead
                 PROVE  hist[n].dead /\ hist[n].id = work[n].id
      BY DEF IInv, CorpusShowsOnlyStale, Serving
    <2>1. n \in DOMAIN hist /\ hist[n].id \in Commands /\ hist[n].id # NoId
      BY <1>2, IdsAssumption DEF IInv, ViewInv, View, TypeOK
    <2>2. n \in DOMAIN work /\ work[n].id = hist[n].id
      BY <1>1, <2>1 DEF Extends
    <2>3. work[n].id \in TombstonedIds(hist)
      BY <1>1, <2>1, <2>2 DEF StoreInv
    <2> QED
      BY <2>1, <2>2, <2>3 DEF IInv, StoreInv
  <1> QED
    BY <1>1, <1>2, <1>3, <1>4, <1>5, <1>6, <1>7, <1>8, <1>9 DEF IInv

LEMMA ImportKeeps ==
    ASSUME IInv, NEW i \in Imports, Import(i)
    PROVE  IInv'
  <1> USE DEF Import, ingest, ram, history
  <1>1. i \in Ids \ Foreign /\ ipc = "idle" /\ ~Serving /\ ~Serving'
    BY HistoryAssumption DEF IInv, SpoolInv, Serving
  <1>2. RecordRow(i) \in Row /\ hist \in Seq(Row)
    BY <1>1, IdsAssumption DEF RecordRow, Row, IInv, TypeOK
  <1>3. StoreInv(hist', Foreign) /\ TombstonedIds(hist') = TombstonedIds(hist)
    BY <1>1, AppendRecordKeeps DEF IInv
  <1>4. /\ hist' \in Seq(Row) /\ Extends(hist, hist') /\ Len(hist) <= Len(hist')
    BY <1>2, AppendOneExtends
  <1>5. TypeOK'
    BY <1>4 DEF IInv, TypeOK
  <1>6. SpoolInv' /\ BatchInv'
    BY <1>1 DEF IInv, SpoolInv, BatchInv, DrainedSet
  <1>7. LostOnlyInDrain'
    BY <1>4, ExtendsIndexed DEF IInv, LostOnlyInDrain, DrainedSet
  <1>8. ViewInv' /\ ShownInv' /\ CompleteInv' /\ SnapshotClean'
    BY <1>1, <1>3, <1>4, HistoryGrows
  <1>9. DeletingInv' /\ CorpusMissesOnlySkipped' /\ CorpusShowsOnlyStale'
    BY <1>1, <1>3 DEF IInv, DeletingInv, CorpusMissesOnlySkipped, CorpusShowsOnlyStale
  <1> QED
    BY <1>3, <1>5, <1>6, <1>7, <1>8, <1>9 DEF IInv

LEMMA DeleteAppendKeeps ==
    ASSUME IInv, NEW c \in Conns, NEW i \in Ids, DeleteAppend(c, i)
    PROVE  IInv'
  <1> USE DEF DeleteAppend, ingest, ram, history
  <1>1. /\ Serving /\ ipc # "append" /\ hist \in Seq(Row) /\ NoId \notin Foreign
        /\ i \in Foreign \/ Indexed(hist, i)
    BY IdsAssumption, HistoryAssumption DEF Serving, IInv, TypeOK, ShownInv
  <1>2. /\ Tombstone(i) \in Row /\ Tombstone(i).id = NoId
        /\ Tombstone(i).target = i /\ i # NoId
    BY IdsAssumption DEF Tombstone, Row
  <1>3. StoreInv(hist', Foreign)
    BY <1>1, AppendTombstoneKeeps DEF IInv
  <1>4. /\ hist' \in Seq(Row) /\ Extends(hist, hist') /\ Len(hist) <= Len(hist')
    BY <1>1, <1>2, AppendOneExtends
  <1>5. /\ Len(hist') = Len(hist) + 1 /\ hist'[Len(hist) + 1] = Tombstone(i)
        /\ DOMAIN hist = 1..Len(hist) /\ DOMAIN hist' = 1..(Len(hist) + 1) /\ Len(hist) \in Nat
        /\ \A n \in DOMAIN hist :
            /\ hist'[n].id = hist[n].id
            /\ hist'[n].dead => hist[n].dead \/ hist[n].id = i
    <2> DEFINE t == Tombstone(i)
    <2>1. ~(t.id # NoId /\ Indexed(hist, t.id)) /\ t \in Row /\ t.target = i
      BY <1>2
    <2>2. hist' = AppendOne(hist, t)
      OBVIOUS
    <2> HIDE DEF t
    <2>3. /\ Len(hist') = Len(hist) + 1 /\ hist'[Len(hist) + 1] = t
          /\ DOMAIN hist = 1..Len(hist) /\ DOMAIN hist' = 1..(Len(hist) + 1)
          /\ \A n \in 1..Len(hist) :
               /\ hist'[n].id = hist[n].id
               /\ hist'[n].dead <=> (hist[n].dead \/ (t.target # NoId /\ hist[n].id = t.target))
      BY <1>1, <2>1, <2>2, AppendOneRows
    <2> QED
      BY <1>1, <2>1, <2>3 DEF t
  <1>6. \A n \in DOMAIN hist : hist[n].id # i => hist'[n] = hist[n]
    BY <1>1, <1>2, AppendOneUntouched
  <1>7. TypeOK'
    BY <1>4 DEF IInv, TypeOK
  <1>8. SpoolInv' /\ BatchInv'
    BY <1>1 DEF IInv, SpoolInv, BatchInv, DrainedSet
  <1>9. LostOnlyInDrain'
    BY <1>4, ExtendsIndexed DEF IInv, LostOnlyInDrain, DrainedSet
  <1>10. ASSUME ipc = "fold", NEW k \in DOMAIN rows PROVE hist'[k] = hist[k]
    <2>1. k \in DOMAIN hist
      BY <1>5, <1>10 DEF IInv, ViewInv
    <2>2. hist[k].id # i
      BY <1>1, <1>10, <2>1 DEF IInv, ShownInv
    <2> QED
      BY <1>6, <2>1, <2>2
  <1>11. /\ ViewInv' /\ ShownInv' /\ CompleteInv' /\ SnapshotClean'
         /\ \A n \in All(hist') : n \in DOMAIN hist => n \in All(hist)
    BY <1>3, <1>4, <1>10, HistoryGrows DEF Serving
  <1>12. DeletingInv'
    <2>1. i \in TombstonedIds(hist')
      BY <1>2, <1>5 DEF TombstonedIds
    <2>2. TombstonedIds(hist) \subseteq TombstonedIds(hist')
      BY <1>4 DEF Extends, TombstonedIds
    <2> QED
      BY <2>1, <2>2 DEF IInv, DeletingInv, TypeOK
  <1>13. CorpusMissesOnlySkipped'
    <2>1. \A n \in All(hist') : n \in All(hist)
      BY <1>2, <1>5, <1>11, IdsAssumption DEF All, IsCommand
    <2> QED
      BY <1>1, <2>1 DEF IInv, CorpusMissesOnlySkipped
  <1>14. CorpusShowsOnlyStale'
    <2> SUFFICES ASSUME NEW n \in corpus, hist'[n].dead, n \notin stale
                 PROVE  \E d \in Conns : deleting'[d] = hist'[n].id
      BY DEF CorpusShowsOnlyStale
    <2>1. n \in DOMAIN hist /\ hist[n].id # NoId
      BY <1>5, IdsAssumption DEF IInv, ViewInv, View, TypeOK
    <2>2. CASE hist[n].id = i
      BY <1>5, <2>1, <2>2 DEF IInv, TypeOK
    <2>3. CASE hist[n].dead
      <3>1. PICK d \in Conns : deleting[d] = hist[n].id
        BY <1>1, <2>3 DEF IInv, CorpusShowsOnlyStale
      <3>2. d # c
        BY <2>1, <3>1
      <3> QED
        BY <1>5, <2>1, <3>1, <3>2 DEF IInv, TypeOK
    <2> QED
      BY <1>5, <2>1, <2>2, <2>3
  <1> QED
    BY <1>3, <1>7, <1>8, <1>9, <1>11, <1>12, <1>13, <1>14 DEF IInv

-------------------------------------------------------------------------------
(* The views change: a fold, a drop, a snapshot, a start, a stop *)

\* The bound that foldRows computes, for a run of rows from a + 1 to b.
LEMMA FoldBound ==
    ASSUME NEW last \in Nat, NEW a \in Nat, NEW b \in Nat,
           NEW rs, DOMAIN rs = (a + 1)..b
    PROVE  FoldLastSeq(last, rs) = IF a < b /\ last < b THEN b ELSE last
  <1> DEFINE S == {last} \cup (a + 1)..b
             max == IF a < b /\ last < b THEN b ELSE last
  <1>1. max \in S /\ \A k \in S : k <= max
    OBVIOUS
  <1>2. \A m \in S : (\A k \in S : k <= m) => m = max
    BY <1>1
  <1> HIDE DEF max
  <1>3. (CHOOSE m \in S : \A k \in S : k <= m) = max
    BY <1>1, <1>2
  <1> QED
    BY <1>3 DEF FoldLastSeq, max

\* foldRows on a view and a run of rows of the store.
LEMMA FoldView ==
    ASSUME StoreInv(hist, Foreign), NEW seqs, NEW last \in Nat, View(seqs, last),
           NEW a \in Nat, NEW b \in Nat, b <= Len(hist),
           NEW rs, DOMAIN rs = (a + 1)..b, \A k \in (a + 1)..b : rs[k] = hist[k]
    PROVE  /\ View(FoldCorpus(seqs, rs), FoldLastSeq(last, rs))
           /\ \A n \in All(hist) : n \in seqs \/ n \in (a + 1)..b => n \in FoldCorpus(seqs, rs)
           /\ \A n \in FoldCorpus(seqs, rs) : hist[n].dead =>
                n \in seqs /\ \A k \in (a + 1)..b : hist[k].target # hist[n].id
  <1>1. /\ FoldLastSeq(last, rs) \in Nat /\ last <= FoldLastSeq(last, rs)
        /\ FoldLastSeq(last, rs) <= Len(hist) /\ \A k \in (a + 1)..b : k <= FoldLastSeq(last, rs)
    BY FoldBound DEF View, StoreInv
  <1>2. DOMAIN hist = 1..Len(hist) /\ Len(hist) \in Nat /\ (a + 1)..b \subseteq DOMAIN hist
    BY DEF StoreInv
  <1>3. View(FoldCorpus(seqs, rs), FoldLastSeq(last, rs))
    BY <1>1, <1>2 DEF View, FoldCorpus, IsCommand
  <1>4. Deleted(rs) = {hist[k].target : k \in (a + 1)..b} \ {NoId}
    BY DEF Deleted
  <1>5. ASSUME NEW n \in All(hist), n \in seqs \/ n \in (a + 1)..b
        PROVE  n \in FoldCorpus(seqs, rs)
    <2>1. hist[n].id # NoId /\ ~hist[n].dead /\ n \in DOMAIN hist
      BY IdsAssumption DEF All, IsCommand
    <2>2. hist[n].id \notin TombstonedIds(hist)
      BY <2>1 DEF StoreInv
    <2>3. hist[n].id \notin Deleted(rs)
      BY <1>2, <1>4, <2>2 DEF TombstonedIds
    <2> QED
      BY <1>5, <2>3 DEF FoldCorpus, All
  <1>6. ASSUME NEW n \in FoldCorpus(seqs, rs), hist[n].dead
        PROVE  n \in seqs /\ \A k \in (a + 1)..b : hist[k].target # hist[n].id
    <2>1. n \in seqs /\ hist[n].id \notin Deleted(rs)
      BY <1>6 DEF FoldCorpus, IsCommand
    <2>2. hist[n].id # NoId
      BY <2>1, IdsAssumption DEF View
    <2> QED
      BY <1>4, <2>1, <2>2
  <1> QED
    BY <1>3, <1>5, <1>6

\* What a query may show of a view names a stored record.
LEMMA ShownOfView ==
    ASSUME StoreInv(hist, Foreign), NEW seqs, NEW last \in Nat, View(seqs, last),
           NEW n \in DOMAIN hist, hist[n].id \in IdsOf(seqs)
    PROVE  n \in seqs /\ n <= last
  <1>1. PICK m \in seqs : hist[m].id = hist[n].id
    BY DEF IdsOf
  <1>2. m \in DOMAIN hist /\ hist[m].id # NoId /\ m <= last
    BY IdsAssumption DEF View, StoreInv
  <1>3. m = n
    BY <1>1, <1>2 DEF StoreInv
  <1> QED
    BY <1>1, <1>2, <1>3

LEMMA ViewIndexed ==
    ASSUME StoreInv(hist, Foreign), NEW seqs, NEW last \in Nat, View(seqs, last),
           NEW i \in IdsOf(seqs)
    PROVE  Indexed(hist, i) /\ i \in Ids
  BY IdsAssumption DEF IdsOf, View, Indexed, StoreInv

LEMMA ReadKeeps ==
    ASSUME IInv, ReadLastSeq \/ ReadRows \/ ReadFails
    PROVE  IInv'
  <1> USE DEF disk, ram, history
  <1>1. /\ hist \in Seq(Row) /\ DOMAIN hist = 1..Len(hist) /\ Len(hist) \in Nat
        /\ from \in Nat /\ lastSeq \in Nat
    BY DEF IInv, TypeOK
  <1>2. SpoolInv' /\ StoreInv(hist, Foreign)' /\ BatchInv' /\ LostOnlyInDrain'
    BY DEF ReadLastSeq, ReadRows, ReadFails, IInv, SpoolInv, BatchInv, LostOnlyInDrain, DrainedSet
  <1>3. DeletingInv' /\ CompleteInv' /\ SnapshotClean' /\ CorpusShowsOnlyStale'
    BY DEF ReadLastSeq, ReadRows, ReadFails, IInv, DeletingInv, CompleteInv, SnapshotClean, CorpusShowsOnlyStale,
           Serving, All
  <1>4. CASE ReadLastSeq
    <2>1. TypeOK'
      BY <1>1, <1>4 DEF ReadLastSeq, IInv, TypeOK, IngestSteps
    <2>2. ViewInv'
      BY <1>1, <1>4 DEF ReadLastSeq, IInv, ViewInv, View
    <2>3. ShownInv'
      BY <1>4 DEF ReadLastSeq, IInv, ShownInv, Serving
    <2>4. CorpusMissesOnlySkipped'
      BY <1>4 DEF ReadLastSeq, IInv, CorpusMissesOnlySkipped, Serving, All
    <2> QED
      BY <1>2, <1>3, <2>1, <2>2, <2>3, <2>4 DEF IInv
  <1>5. CASE ReadRows
    <2>1. /\ ipc = "since" /\ from <= lastSeq /\ from \in 0..Len(hist)
          /\ \A n \in corpus : n <= from
          /\ DOMAIN Since(hist, from) = (from + 1)..Len(hist)
          /\ \A k \in (from + 1)..Len(hist) : Since(hist, from)[k] = hist[k] /\ hist[k] \in Row
      BY <1>1, <1>5 DEF ReadRows, IInv, ViewInv, View, Since
    <2>2. TypeOK'
      BY <1>1, <1>5, <2>1 DEF ReadRows, IInv, TypeOK, IngestSteps
    <2>3. ViewInv'
      BY <1>1, <1>5, <2>1 DEF ReadRows, IInv, ViewInv, View
    <2>4. ShownInv'
      BY <1>1, <1>5, <2>1 DEF ReadRows, IInv, ShownInv, Serving
    <2>5. \A n \in All(hist) : n \in 1..Len(hist)
      BY <1>1 DEF All
    <2>6. CorpusMissesOnlySkipped'
      BY <1>1, <1>5, <2>1, <2>5 DEF ReadRows, IInv, CorpusMissesOnlySkipped, Serving, All
    <2> QED
      BY <1>2, <1>3, <2>2, <2>3, <2>4, <2>6 DEF IInv
  <1>6. CASE ReadFails
    <2>a. (from + 1)..Len(hist) \subseteq Nat /\ unread \subseteq Nat
      BY <1>1 DEF IInv, TypeOK
    <2>b. ipc' = "idle" /\ from' = 0 /\ unread' \subseteq Nat
      BY <1>6, <2>a DEF ReadFails
    <2>c. ipc' \in IngestSteps
      BY <2>b DEF IngestSteps
    <2>1. TypeOK'
      BY <1>1, <1>6, <2>b, <2>c DEF ReadFails, IInv, TypeOK
    <2>2. ViewInv'
      BY <1>1, <1>6 DEF ReadFails, IInv, ViewInv, View
    <2>3. ShownInv'
      BY <1>6 DEF ReadFails, IInv, ShownInv, Serving
    <2>4. CorpusMissesOnlySkipped'
      <3> SUFFICES ASSUME Serving, NEW n \in All(hist), n \notin corpus \cup skipped
                   PROVE  n \in unread' /\ n > lastSeq
        BY <1>6 DEF ReadFails, CorpusMissesOnlySkipped, Serving, All
      <3>1. n \in 1..Len(hist) /\ ~(n <= lastSeq)
        BY <1>1 DEF IInv, CompleteInv, All
      <3>2. n \in (from + 1)..Len(hist)
        BY <1>1, <3>1 DEF IInv, ViewInv
      <3> QED
        BY <1>1, <1>6, <3>1, <3>2 DEF ReadFails
    <2> QED
      BY <1>2, <1>3, <2>1, <2>2, <2>3, <2>4 DEF IInv
  <1> QED
    BY <1>4, <1>5, <1>6

LEMMA FoldRowsKeeps ==
    ASSUME IInv, FoldRows
    PROVE  IInv'
  <1> USE DEF FoldRows, disk, history
  <1> DEFINE c == FoldCorpus(corpus, rows)
             m == FoldLastSeq(lastSeq, rows)
  <1>1. /\ hist \in Seq(Row) /\ DOMAIN hist = 1..Len(hist) /\ Len(hist) \in Nat
        /\ lastSeq \in Nat /\ from = 0 /\ StoreInv(hist, Foreign) /\ View(corpus, lastSeq)
        /\ Serving
    BY DEF IInv, TypeOK, ViewInv, SpoolInv, Serving
  <1>2. PICK a, b \in 0..Len(hist) : /\ DOMAIN rows = (a + 1)..b
                                     /\ \A k \in (a + 1)..b : rows[k] = hist[k]
                                     /\ \A n \in corpus : n <= a
                                     /\ a <= lastSeq
    BY DEF IInv, ViewInv
  <1>3. /\ a \in Nat /\ b \in Nat /\ b <= Len(hist)
        /\ m \in Nat /\ (m = IF a < b /\ lastSeq < b THEN b ELSE lastSeq)
    <2>1. a \in Nat /\ b \in Nat /\ b <= Len(hist)
      BY <1>1
    <2>2. m = IF a < b /\ lastSeq < b THEN b ELSE lastSeq
      BY <1>1, <1>2, <2>1, FoldBound
    <2> QED
      BY <1>1, <2>1, <2>2
  <1>4. /\ View(c, m)
        /\ \A n \in All(hist) : n \in corpus \/ n \in (a + 1)..b => n \in c
        /\ \A n \in c : hist[n].dead => n \in corpus
    BY <1>1, <1>2, <1>3, FoldView
  <1>5. c \subseteq Nat /\ corpus' = c /\ lastSeq' = m /\ IdsOf(c) \subseteq Ids
    BY <1>1, <1>3, <1>4, ViewIndexed DEF View
  <1> HIDE DEF c, m
  <1>6. shown' = shown \cup IdsOf(c)
    BY <1>5
  <1>7. TypeOK'
    BY <1>3, <1>5, <1>6 DEF IInv, TypeOK, IngestSteps, NoRows
  <1>8. SpoolInv' /\ StoreInv(hist, Foreign)' /\ BatchInv' /\ LostOnlyInDrain'
    BY DEF IInv, SpoolInv, BatchInv, LostOnlyInDrain, DrainedSet
  <1>9. ViewInv'
    BY <1>1, <1>3, <1>4, <1>5 DEF IInv, ViewInv, View
  <1>10. ShownInv'
    <2>1. \A i \in shown' : i \in Foreign \/ Indexed(hist, i)
      BY <1>1, <1>3, <1>4, <1>6, ViewIndexed DEF IInv, ShownInv
    <2>2. \A n \in DOMAIN hist : hist[n].id \in shown' => n <= m
      BY <1>1, <1>3, <1>4, <1>6, ShownOfView DEF IInv, ShownInv
    <2> QED
      BY <1>5, <2>1, <2>2 DEF ShownInv
  <1>11. ASSUME NEW n \in All(hist), n \notin c \cup skipped
         PROVE  n \in unread /\ n > m
    <2>1. n \in 1..Len(hist) /\ n \notin corpus \cup skipped /\ n \notin (a + 1)..b
      BY <1>1, <1>4, <1>11 DEF All
    <2>2. n > lastSeq
      BY <1>1, <2>1 DEF IInv, CompleteInv
    <2>3. n \in unread
      BY <1>1, <1>2, <2>1 DEF IInv, CorpusMissesOnlySkipped
    <2> QED
      BY <1>1, <1>2, <1>3, <2>1, <2>2, <2>3
  <1>12. CompleteInv' /\ CorpusMissesOnlySkipped'
    <2>1. \A n \in All(hist) : n <= m => n \in c \cup skipped
      BY <1>1, <1>3, <1>11 DEF All
    <2> QED
      BY <1>5, <1>11, <2>1 DEF IInv, CompleteInv, CorpusMissesOnlySkipped
  <1>13. CorpusShowsOnlyStale'
    BY <1>1, <1>4, <1>5 DEF IInv, CorpusShowsOnlyStale
  <1>14. DeletingInv' /\ SnapshotClean'
    BY DEF IInv, DeletingInv, SnapshotClean
  <1> QED
    BY <1>7, <1>8, <1>9, <1>10, <1>12, <1>13, <1>14 DEF IInv

LEMMA DeleteDropKeeps ==
    ASSUME IInv, NEW c \in Conns, DeleteDrop(c)
    PROVE  IInv'
  <1> USE DEF DeleteDrop, disk, ingest
  <1>1. /\ hist \in Seq(Row) /\ DOMAIN hist = 1..Len(hist) /\ Len(hist) \in Nat
        /\ lastSeq \in Nat /\ lastSeq <= Len(hist) /\ StoreInv(hist, Foreign)
        /\ View(corpus, lastSeq) /\ corpus \subseteq Nat /\ skipped \subseteq Nat
        /\ deleting \in [Conns -> Ids \cup {NoId}]
    BY DEF IInv, TypeOK, ViewInv, View
  <1>2. /\ corpus' \subseteq corpus /\ Unfolded \subseteq Nat
        /\ \A n \in corpus : n \in corpus' \/ hist[n].id = deleting[c]
        /\ \/ lastSeq' = Len(hist) /\ skipped' = skipped \cup Unfolded
           \/ lastSeq' = lastSeq /\ skipped' = skipped
    <2>0. /\ corpus' = {n \in corpus : hist[n].id # deleting[c]}
          /\ \/ /\ lastSeq' = IF Len(hist) > lastSeq THEN LastSeq(hist) ELSE lastSeq
                /\ skipped' = skipped \cup Unfolded
             \/ UNCHANGED <<lastSeq, skipped>>
      OBVIOUS
    <2>1. corpus' \subseteq corpus /\ \A n \in corpus : n \in corpus' \/ hist[n].id = deleting[c]
      BY <2>0
    <2>2. Unfolded \subseteq Nat
      BY <1>1 DEF Unfolded
    <2>3. LastSeq(hist) = Len(hist) /\ Len(hist) \in Nat /\ lastSeq \in Nat /\ lastSeq <= Len(hist)
      BY <1>1 DEF LastSeq
    <2>4. (IF Len(hist) > lastSeq THEN LastSeq(hist) ELSE lastSeq) = Len(hist)
      BY <2>3
    <2> QED
      BY <2>0, <2>1, <2>2, <2>4
  <1>a. /\ lastSeq' \in Nat /\ lastSeq <= lastSeq' /\ lastSeq' <= Len(hist)
         /\ skipped \subseteq skipped' /\ skipped' \subseteq Nat
    <2>1. /\ Len(hist) \in Nat /\ lastSeq \in Nat /\ lastSeq <= Len(hist)
          /\ skipped \subseteq Nat /\ Unfolded \subseteq Nat
      BY <1>1, <1>2
    <2>2. CASE lastSeq' = Len(hist) /\ skipped' = skipped \cup Unfolded
      BY <2>1, <2>2
    <2>3. CASE lastSeq' = lastSeq /\ skipped' = skipped
      BY <2>1, <2>3
    <2> QED
      BY <1>2, <2>2, <2>3
  <1>3. TypeOK'
    <2>1. corpus' \subseteq Nat /\ deleting' \in [Conns -> Ids \cup {NoId}]
      BY <1>1, <1>2
    <2> QED
      BY <1>a, <2>1 DEF IInv, TypeOK
  <1>4. SpoolInv' /\ StoreInv(hist, Foreign)' /\ BatchInv' /\ LostOnlyInDrain'
    BY DEF IInv, SpoolInv, BatchInv, LostOnlyInDrain, DrainedSet
  <1>5. ViewInv'
    <2>1. View(corpus, lastSeq)' /\ (snap # NoSnap => View(snap.recs, snap.lastSeq))'
      BY <1>1, <1>2, <1>a DEF IInv, ViewInv, View
    <2>2. from' <= lastSeq'
      BY <1>1, <1>a DEF IInv, ViewInv, TypeOK
    <2>3. \A a \in 0..Len(hist) : a <= lastSeq => a <= lastSeq'
      BY <1>1, <1>a
    <2> QED
      BY <1>2, <2>1, <2>2, <2>3 DEF IInv, ViewInv
  <1>6. ShownInv'
    BY <1>1, <1>a DEF IInv, ShownInv, Serving
  <1>7. DeletingInv'
    BY <1>1 DEF IInv, DeletingInv
  <1>8. \A n \in All(hist) : n \in corpus => n \in corpus'
    <2> SUFFICES ASSUME NEW n \in All(hist), hist[n].id = deleting[c] PROVE FALSE
      BY <1>2
    <2>1. n \in DOMAIN hist /\ hist[n].id # NoId /\ ~hist[n].dead
      BY IdsAssumption DEF All, IsCommand
    <2>2. hist[n].id \in TombstonedIds(hist)
      BY <2>1 DEF IInv, DeletingInv
    <2> QED
      BY <1>1, <2>1, <2>2 DEF StoreInv
  <1>9. \A n \in All(hist) : n \in 1..Len(hist) /\ (n > lastSeq => n \in Unfolded)
    BY <1>1, IdsAssumption DEF All, IsCommand, Unfolded
  <1>10. CorpusMissesOnlySkipped' /\ CompleteInv'
    <2>1. Serving => \A n \in All(hist) : n <= lastSeq => n \in corpus' \cup skipped'
      BY <1>1, <1>8, <1>a DEF IInv, CompleteInv
    <2>2. CASE lastSeq' = Len(hist) /\ skipped' = skipped \cup Unfolded
      <3>1. Serving => \A n \in All(hist) : n \in corpus' \cup skipped'
        <4> SUFFICES ASSUME Serving, NEW n \in All(hist)  PROVE n \in corpus' \cup skipped'
          OBVIOUS
        <4>1. n <= lastSeq \/ n \in Unfolded
          BY <1>1, <1>9
        <4> QED
          BY <2>1, <2>2, <4>1
      <3> QED
        BY <1>a, <3>1 DEF IInv, CorpusMissesOnlySkipped, CompleteInv, Serving
    <2>3. CASE lastSeq' = lastSeq /\ skipped' = skipped
      BY <1>8, <2>1, <2>3 DEF IInv, CorpusMissesOnlySkipped, CompleteInv, Serving
    <2> QED
      BY <1>2, <2>2, <2>3
  <1>11. CorpusShowsOnlyStale'
    <2> SUFFICES ASSUME Serving, NEW n \in corpus', hist[n].dead, n \notin stale
                 PROVE  \E d \in Conns : deleting'[d] = hist[n].id
      BY DEF CorpusShowsOnlyStale, Serving
    <2>1. n \in corpus /\ hist[n].id # deleting[c]
      OBVIOUS
    <2>2. PICK d \in Conns : deleting[d] = hist[n].id
      BY <2>1 DEF IInv, CorpusShowsOnlyStale
    <2> QED
      BY <1>1, <2>1, <2>2
  <1>12. SnapshotClean'
    BY DEF IInv, SnapshotClean
  <1> QED
    BY <1>3, <1>4, <1>5, <1>6, <1>7, <1>10, <1>11, <1>12 DEF IInv

\* The daemon's view, written out, is a good snapshot.
LEMMA SnapshotIsGood ==
    ASSUME IInv, Serving, snap' = SnapshotOfCorpus, stale' = stale \cup Overtaken,
           UNCHANGED <<hist, skipped>>
    PROVE  /\ snap' \in [lastSeq : Nat, recs : SUBSET Nat] /\ stale' \subseteq Nat
           /\ (snap # NoSnap => View(snap.recs, snap.lastSeq))'
           /\ (snap # NoSnap => \A n \in All(hist) :
                 n <= snap.lastSeq => n \in snap.recs \cup skipped)'
           /\ SnapshotClean'
  <1>1. /\ hist \in Seq(Row) /\ DOMAIN hist = 1..Len(hist) /\ Len(hist) \in Nat
        /\ lastSeq \in Nat /\ corpus \subseteq Nat /\ stale \subseteq Nat
        /\ View(corpus, lastSeq) /\ StoreInv(hist, Foreign)
    BY DEF IInv, TypeOK, ViewInv
  <1>2. snap'.lastSeq = lastSeq /\ snap'.recs = corpus
        /\ snap' \in [lastSeq : Nat, recs : SUBSET Nat]
    BY <1>1 DEF SnapshotOfCorpus
  <1>3. stale' \subseteq Nat
    BY <1>1 DEF Overtaken
  <1>4. View(snap.recs, snap.lastSeq)'
    BY <1>1, <1>2 DEF View
  <1>5. \A n \in All(hist) : n <= lastSeq => n \in corpus \cup skipped
    BY DEF IInv, CompleteInv
  <1>6. SnapshotClean'
    <2> SUFFICES ASSUME NEW n \in corpus, hist[n].dead, n \notin Overtaken
                 PROVE  \E k \in (lastSeq + 1)..Len(hist) : hist[k].target = hist[n].id
      BY <1>2 DEF SnapshotClean
    <2>1. n \in DOMAIN hist /\ hist[n].id # NoId
      BY <1>1, IdsAssumption DEF View
    <2>2. hist[n].id \in TombstonedIds(hist)
      BY <1>1, <2>1 DEF StoreInv
    <2>3. PICK k \in DOMAIN hist : hist[k].target = hist[n].id
      BY <2>2 DEF TombstonedIds
    <2>4. k \notin 1..lastSeq
      BY <2>3 DEF Overtaken
    <2> QED
      BY <1>1, <2>3, <2>4
  <1> QED
    BY <1>2, <1>3, <1>4, <1>5, <1>6 DEF All

LEMMA TakeSnapshotKeeps ==
    ASSUME IInv, TakeSnapshot
    PROVE  IInv'
  <1> USE DEF TakeSnapshot, ingest, ram
  <1>1. Serving
    BY DEF Serving
  <1>2. /\ snap' \in [lastSeq : Nat, recs : SUBSET Nat] /\ stale' \subseteq Nat
        /\ (snap # NoSnap => View(snap.recs, snap.lastSeq))'
        /\ (snap # NoSnap => \A n \in All(hist) :
              n <= snap.lastSeq => n \in snap.recs \cup skipped)'
        /\ SnapshotClean'
    BY <1>1, SnapshotIsGood
  <1>3. TypeOK'
    BY <1>2 DEF IInv, TypeOK
  <1>4. SpoolInv' /\ StoreInv(hist, Foreign)' /\ BatchInv' /\ LostOnlyInDrain'
    BY DEF IInv, SpoolInv, BatchInv, LostOnlyInDrain, DrainedSet
  <1>5. ViewInv'
    BY <1>2 DEF IInv, ViewInv, View
  <1>6. CompleteInv'
    BY <1>2 DEF IInv, CompleteInv, Serving
  <1>7. ShownInv' /\ DeletingInv' /\ CorpusMissesOnlySkipped' /\ CorpusShowsOnlyStale'
    BY DEF IInv, ShownInv, DeletingInv, CorpusMissesOnlySkipped, CorpusShowsOnlyStale, Serving
  <1> QED
    BY <1>2, <1>3, <1>4, <1>5, <1>6, <1>7 DEF IInv

LEMMA SnapshotUnusableKeeps ==
    ASSUME IInv, SnapshotUnusable
    PROVE  IInv'
  <1> USE DEF SnapshotUnusable, ingest, ram, history
  <1>1. TypeOK'
    BY DEF IInv, TypeOK
  <1>2. SpoolInv' /\ StoreInv(hist, Foreign)' /\ BatchInv' /\ LostOnlyInDrain'
    BY DEF IInv, SpoolInv, BatchInv, LostOnlyInDrain, DrainedSet
  <1>3. ViewInv' /\ CompleteInv' /\ SnapshotClean'
    BY DEF IInv, ViewInv, View, CompleteInv, SnapshotClean, Serving
  <1>4. ShownInv' /\ DeletingInv' /\ CorpusMissesOnlySkipped' /\ CorpusShowsOnlyStale'
    BY DEF IInv, ShownInv, DeletingInv, CorpusMissesOnlySkipped, CorpusShowsOnlyStale, Serving
  <1> QED
    BY <1>1, <1>2, <1>3, <1>4 DEF IInv

LEMMA LoadCorpusKeeps ==
    ASSUME IInv, LoadCorpus
    PROVE  IInv'
  <1> USE DEF LoadCorpus, disk, ingest, history
  <1>1. /\ hist \in Seq(Row) /\ DOMAIN hist = 1..Len(hist) /\ Len(hist) \in Nat
        /\ StoreInv(hist, Foreign) /\ from = 0 /\ LastSeq(hist) = Len(hist)
        /\ snap # NoSnap => snap.lastSeq \in Nat /\ View(snap.recs, snap.lastSeq)
    BY DEF IInv, TypeOK, ViewInv, LastSeq
  \* Either way the corpus is a view of the whole store.
  <1>2. /\ View(corpus', Len(hist)) /\ lastSeq' = Len(hist)
        /\ \A n \in All(hist) : n \in corpus' \cup skipped
        /\ \A n \in corpus' : hist[n].dead => n \in stale
    <2>1. CASE snap # NoSnap /\ snap.lastSeq <= LastSeq(hist)
      <3> DEFINE a == snap.lastSeq
                 b == Len(hist)
                 tail == Since(hist, a)
      <3>1. /\ a \in Nat /\ b \in Nat /\ a <= b /\ DOMAIN tail = (a + 1)..b
            /\ \A k \in (a + 1)..b : tail[k] = hist[k]
            /\ corpus' = FoldCorpus(snap.recs, tail) /\ lastSeq' = FoldLastSeq(a, tail)
            /\ View(snap.recs, a)
        BY <1>1, <2>1 DEF Since
      <3> HIDE DEF a, tail
      <3>2. lastSeq' = b
        <4>1. FoldLastSeq(a, tail) = IF a < b /\ a < b THEN b ELSE a
          BY <3>1, FoldBound
        <4> QED
          BY <3>1, <4>1
      <3>3. /\ View(FoldCorpus(snap.recs, tail), FoldLastSeq(a, tail))
            /\ \A n \in All(hist) :
                 n \in snap.recs \/ n \in (a + 1)..b => n \in FoldCorpus(snap.recs, tail)
            /\ \A n \in FoldCorpus(snap.recs, tail) : hist[n].dead =>
                 n \in snap.recs /\ \A k \in (a + 1)..b : hist[k].target # hist[n].id
        BY <1>1, <3>1, FoldView
      <3>4. \A n \in All(hist) : n \in 1..b /\ (n <= a => n \in snap.recs \cup skipped)
        BY <1>1, <2>1 DEF IInv, CompleteInv, All, a
      <3>5. \A n \in All(hist) : n \in corpus' \cup skipped
        BY <3>1, <3>3, <3>4
      <3>6. \A n \in corpus' : hist[n].dead => n \in stale
        BY <2>1, <3>1, <3>3 DEF IInv, SnapshotClean, a
      <3> QED
        BY <3>1, <3>2, <3>3, <3>5, <3>6
    <2>2. CASE ~(snap # NoSnap /\ snap.lastSeq <= LastSeq(hist))
      BY <1>1, <2>2 DEF View, All, IsCommand
    <2> QED
      BY <2>1, <2>2
  <1>3. corpus' \subseteq Nat /\ IdsOf(corpus') \subseteq Ids /\ lastSeq' \in Nat
    BY <1>1, <1>2, ViewIndexed DEF View
  <1>4. shown' = shown \cup IdsOf(corpus')
    OBVIOUS
  <1>5. TypeOK'
    BY <1>3, <1>4 DEF IInv, TypeOK
  <1>6. SpoolInv' /\ StoreInv(hist, Foreign)' /\ BatchInv' /\ LostOnlyInDrain'
    BY DEF IInv, SpoolInv, BatchInv, LostOnlyInDrain, DrainedSet
  <1>7. ViewInv'
    BY <1>1, <1>2 DEF IInv, ViewInv, View
  <1>8. ShownInv'
    <2>1. \A i \in shown' : i \in Foreign \/ Indexed(hist, i)
      BY <1>1, <1>2, <1>4, ViewIndexed DEF IInv, ShownInv
    <2> QED
      BY <1>1, <1>2, <2>1 DEF ShownInv
  <1>9. CompleteInv' /\ CorpusMissesOnlySkipped'
    BY <1>2 DEF IInv, CompleteInv, CorpusMissesOnlySkipped
  <1>10. CorpusShowsOnlyStale'
    BY <1>2 DEF CorpusShowsOnlyStale
  <1>11. DeletingInv' /\ SnapshotClean'
    BY DEF IInv, DeletingInv, SnapshotClean
  <1> QED
    BY <1>5, <1>6, <1>7, <1>8, <1>9, <1>10, <1>11 DEF IInv

LEMMA StopKeeps ==
    ASSUME IInv, Stop
    PROVE  IInv'
  <1> USE DEF Stop, disk, ingest, ram, history
  <1>1. TypeOK'
    BY DEF IInv, TypeOK
  <1>2. SpoolInv' /\ StoreInv(hist, Foreign)' /\ BatchInv' /\ LostOnlyInDrain'
    BY DEF IInv, SpoolInv, BatchInv, LostOnlyInDrain, DrainedSet
  <1>3. Searchable'
    BY SearchableUnchanged DEF IInv, Searchable, Serving
  <1> QED
    BY <1>1, <1>2, <1>3 DEF IInv, Searchable

\* What is left of the invariant to show when the daemon's RAM is gone.
LEMMA RamLostKeeps ==
    ASSUME IInv, RamLost, UNCHANGED <<content, spool, hist, shown, skipped>>,
           snap' \in [lastSeq : Nat, recs : SUBSET Nat] \cup {NoSnap},
           lost' \subseteq Files, stale' \subseteq Nat, LostOnlyInDrain',
           (snap # NoSnap => View(snap.recs, snap.lastSeq))',
           (snap # NoSnap => \A n \in All(hist) : n <= snap.lastSeq => n \in snap.recs \cup skipped)',
           SnapshotClean'
    PROVE  IInv'
  <1> USE DEF RamLost
  <1>1. DrainedSet' = {} /\ DOMAIN rows' = {}
    BY DEF DrainedSet, NoRows
  <1>2. TypeOK'
    <2>1. << >> \in Seq(Files) /\ << >> \in Seq(Row)
      OBVIOUS
    <2>2. deleting' \in [Conns -> Ids \cup {NoId}]
      OBVIOUS
    <2> QED
      BY <1>1, <2>1, <2>2 DEF IInv, TypeOK, IngestSteps
  <1>3. SpoolInv' /\ StoreInv(hist, Foreign)' /\ BatchInv'
    BY <1>1 DEF IInv, SpoolInv, BatchInv
  <1>4. ViewInv'
    BY DEF IInv, ViewInv, View, TypeOK
  <1>5. ShownInv' /\ DeletingInv' /\ CompleteInv' /\ CorpusMissesOnlySkipped' /\ CorpusShowsOnlyStale'
    BY DEF IInv, ShownInv, DeletingInv, CompleteInv, CorpusMissesOnlySkipped, CorpusShowsOnlyStale, Serving
  <1> QED
    BY <1>2, <1>3, <1>4, <1>5 DEF IInv

LEMMA FinishKeeps ==
    ASSUME IInv, Finish
    PROVE  IInv'
  <1>1. Serving /\ DrainedSet = {} /\ DrainedSet' = {}
    BY DEF Finish, RamLost, Serving, IInv, BatchInv, DrainedSet
  <1>2. LostOnlyInDrain' /\ lost' \subseteq Files
    BY <1>1 DEF Finish, IInv, LostOnlyInDrain, TypeOK
  <1>3. CASE snap' = SnapshotOfCorpus /\ stale' = stale \cup Overtaken
    BY <1>1, <1>2, <1>3, SnapshotIsGood, RamLostKeeps DEF Finish
  <1>4. CASE UNCHANGED <<snap, stale>>
    <2>1. /\ snap' \in [lastSeq : Nat, recs : SUBSET Nat] \cup {NoSnap} /\ stale' \subseteq Nat
          /\ (snap # NoSnap => View(snap.recs, snap.lastSeq))'
          /\ (snap # NoSnap => \A n \in All(hist) :
                n <= snap.lastSeq => n \in snap.recs \cup skipped)'
          /\ SnapshotClean'
      BY <1>4 DEF Finish, IInv, TypeOK, ViewInv, View, CompleteInv, SnapshotClean, All
    <2> QED
      BY <1>2, <2>1, RamLostKeeps DEF Finish
  <1> QED
    BY <1>3, <1>4 DEF Finish

LEMMA CrashKeeps ==
    ASSUME IInv, Crash
    PROVE  IInv'
  <1>1. LostOnlyInDrain' /\ DrainedSet \subseteq Files
    BY AbandonedDrain DEF Crash, disk, RamLost
  <1>2. lost' \subseteq Files
    BY <1>1 DEF Crash, IInv, TypeOK
  <1>3. /\ snap' \in [lastSeq : Nat, recs : SUBSET Nat] \cup {NoSnap} /\ stale' \subseteq Nat
        /\ (snap # NoSnap => View(snap.recs, snap.lastSeq))'
        /\ (snap # NoSnap => \A n \in All(hist) : n <= snap.lastSeq => n \in snap.recs \cup skipped)'
        /\ SnapshotClean'
    BY DEF Crash, disk, IInv, TypeOK, ViewInv, View, CompleteInv, SnapshotClean, All
  <1> QED
    BY <1>1, <1>2, <1>3, RamLostKeeps DEF Crash, disk

-------------------------------------------------------------------------------

LEMMA StepKeeps ==
    IInv /\ [Next]_vars => IInv'
  <1> SUFFICES ASSUME IInv, [Next]_vars PROVE IInv'
    OBVIOUS
  <1>1. ASSUME NEW f \in Files, NEW i \in Ids, SpoolAppend(f, i) PROVE IInv'
    BY <1>1, SpoolAppendKeeps
  <1>2. CASE WakeIngest \/ TakeWake
    BY <1>2, WakeKeeps
  <1>3. ASSUME NEW i \in Imports, Import(i) PROVE IInv'
    BY <1>3, ImportKeeps
  <1>4. CASE Start \/ StartIngest
    BY <1>4, StartKeeps
  <1>5. CASE DrainFile
    BY <1>5, DrainFileKeeps
  <1>6. CASE DrainDone
    BY <1>6, DrainDoneKeeps
  <1>7. CASE AppendNext
    BY <1>7, AppendNextKeeps
  <1>8. CASE Commit
    BY <1>8, CommitKeeps
  <1>9. CASE ReadLastSeq \/ ReadRows \/ ReadFails
    BY <1>9, ReadKeeps
  <1>10. CASE FoldRows
    BY <1>10, FoldRowsKeeps
  <1>11. CASE IngestFails
    BY <1>11, IngestFailsKeeps
  <1>12. ASSUME NEW c \in Conns, NEW i \in Ids, DeleteAppend(c, i) PROVE IInv'
    BY <1>12, DeleteAppendKeeps
  <1>13. ASSUME NEW c \in Conns, DeleteDrop(c) PROVE IInv'
    BY <1>13, DeleteDropKeeps
  <1>14. CASE TakeSnapshot
    BY <1>14, TakeSnapshotKeeps
  <1>15. CASE SnapshotUnusable
    BY <1>15, SnapshotUnusableKeeps
  <1>16. CASE LoadCorpus
    BY <1>16, LoadCorpusKeeps
  <1>17. CASE Stop
    BY <1>17, StopKeeps
  <1>18. CASE Finish
    BY <1>18, FinishKeeps
  <1>19. CASE Crash
    BY <1>19, CrashKeeps
  <1>20. CASE UNCHANGED vars
    <2>1. TypeOK'
      BY <1>20 DEF vars, IInv, TypeOK
    <2>2. SpoolInv' /\ StoreInv(hist, Foreign)' /\ BatchInv' /\ LostOnlyInDrain'
      BY <1>20 DEF vars, IInv, SpoolInv, BatchInv, LostOnlyInDrain, DrainedSet
    <2>3. Searchable'
      BY <1>20, SearchableUnchanged DEF vars, IInv, Searchable, Serving
    <2> QED
      BY <2>1, <2>2, <2>3 DEF IInv, Searchable
  <1> QED
    BY <1>1, <1>2, <1>3, <1>4, <1>5, <1>6, <1>7, <1>8, <1>9, <1>10, <1>11, <1>12, <1>13, <1>14,
       <1>15, <1>16, <1>17, <1>18, <1>19, <1>20 DEF Next, IngestStep

LEMMA Invariance == Spec => []IInv
  BY InitInv, StepKeeps, PTL DEF Spec

-------------------------------------------------------------------------------
(* The theorems *)

\* Every variable keeps its type.
THEOREM TypeCorrect == Spec => []TypeOK
  <1>1. IInv => TypeOK
    BY DEF IInv
  <1> QED
    BY <1>1, Invariance, PTL

\* No record is stored twice, whatever is retried, re-imported or re-drained.
THEOREM RecordsStoredOnce == Spec => []StoredOnce
  <1>1. IInv => StoredOnce
    BY DEF IInv, StoreInv, StoredOnce
  <1> QED
    BY <1>1, Invariance, PTL

\* The DeletedMs marks of this store say what a replay of its stream says.
THEOREM MarksAreReplayed == Spec => []ReplayAgrees
  <1>1. IInv => ReplayAgrees
    BY MarksAgreeWithReplay DEF IInv, ReplayAgrees
  <1> QED
    BY <1>1, Invariance, PTL

\* The stream holds a record once and replays to the marks.
THEOREM StreamIsConsistent == Spec => []StreamConsistent
  <1>1. StoredOnce /\ ReplayAgrees => StreamConsistent
    BY DEF StreamConsistent
  <1> QED
    BY <1>1, RecordsStoredOnce, MarksAreReplayed, PTL

\* A published record vanishes only when the drain's read of its file fails, or
\* between Drain's unlink and the commit.
THEOREM RecordsLostOnlyInDrain == Spec => []LostOnlyInDrain
  <1>1. IInv => LostOnlyInDrain
    BY DEF IInv
  <1> QED
    BY <1>1, Invariance, PTL

\* corpus.snap never runs ahead of the store.
THEOREM SnapshotBehindStore == Spec => []SnapshotNotAhead
  <1>1. IInv => SnapshotNotAhead
    BY DEF IInv, ViewInv, View, SnapshotNotAhead, LastSeq
  <1> QED
    BY <1>1, Invariance, PTL

\* Rows are folded in above the whole corpus.
THEOREM FoldsAboveCorpus == Spec => []FoldsAbove
  <1>1. IInv => FoldsAbove
    <2> SUFFICES ASSUME IInv, ipc = "fold", NEW k \in DOMAIN rows, NEW n \in corpus
                 PROVE  n < k
      BY DEF FoldsAbove
    <2>1. PICK a, b \in 0..Len(hist) : DOMAIN rows = (a + 1)..b /\ n <= a
      BY DEF IInv, ViewInv
    <2>2. corpus \subseteq Nat /\ Len(hist) \in Nat
      BY DEF IInv, TypeOK
    <2> QED
      BY <2>1, <2>2
  <1> QED
    BY <1>1, Invariance, PTL

\* A live command that cannot be searched for is being folded in, was skipped, or
\* waits above lastSeq because a read failed.
THEOREM OnlySkippedMissing == Spec => []CorpusMissesOnlySkipped
  <1>1. IInv => CorpusMissesOnlySkipped
    BY DEF IInv
  <1> QED
    BY <1>1, Invariance, PTL

\* A deleted command that can be searched for is being dropped or was in a
\* snapshot taken after a later delete.
THEOREM OnlyStaleShown == Spec => []CorpusShowsOnlyStale
  <1>1. IInv => CorpusShowsOnlyStale
    BY DEF IInv
  <1> QED
    BY <1>1, Invariance, PTL

(***************************************************************************)
(* LocalHistory implements HistoryPromise, and its history only grows.     *)
(*                                                                         *)
(* A commit or an import maps to Record, the tombstone's transaction to    *)
(* Delete, a spool file's rename to Accept; every other step is a stutter. *)
(* The one fact to add to IInv is that stored ids were accepted.           *)
(***************************************************************************)
Accepted == Imports \cup ({content[f] : f \in Files} \ {NoId})

AcceptedInv ==
    /\ \A n \in DOMAIN hist : hist[n].id \in Accepted \cup {NoId}
    /\ ipc = "append" => \A n \in DOMAIN work : work[n].id \in Accepted \cup {NoId}

\* appendOne brings in no id but the one it is given.
LEMMA AppendOneIds ==
    ASSUME NEW h \in Seq(Row), NEW r \in Row, NEW S, r.id \in S,
           \A n \in DOMAIN h : h[n].id \in S
    PROVE  \A n \in DOMAIN AppendOne(h, r) : AppendOne(h, r)[n].id \in S
  <1>1. CASE r.id # NoId /\ Indexed(h, r.id)
    BY <1>1 DEF AppendOne
  <1>2. CASE ~(r.id # NoId /\ Indexed(h, r.id))
    <2> DEFINE g == AppendOne(h, r)
    <2>1. /\ DOMAIN h = 1..Len(h) /\ DOMAIN g = 1..(Len(h) + 1) /\ g[Len(h) + 1] = r
          /\ \A n \in 1..Len(h) : g[n].id = h[n].id
      BY <1>2, AppendOneRows
    <2>2. Len(h) \in Nat
      OBVIOUS
    <2> HIDE DEF g
    <2>3. \A n \in DOMAIN g : g[n].id \in S
      BY <2>1, <2>2
    <2> QED
      BY <2>3 DEF g
  <1> QED
    BY <1>1, <1>2

\* The live commands are the stored ones without a tombstone.
LEMMA LiveIds ==
    ASSUME NEW foreign, NEW h, StoreInv(h, foreign)
    PROVE  {h[n].id : n \in All(h)} = ({h[n].id : n \in DOMAIN h} \cap Commands) \ TombstonedIds(h)
  <1>1. \A n \in DOMAIN h : h[n].id \in Commands =>
            (h[n].dead <=> h[n].id \in TombstonedIds(h))
    BY IdsAssumption DEF StoreInv
  <1> QED
    BY <1>1 DEF All, IsCommand

\* The three ways a step leaves the store.
LEMMA StoreSteps ==
    ASSUME IInv, [Next]_vars
    PROVE  \/ hist' = hist
           \/ /\ Extends(hist, hist') /\ TombstonedIds(hist') = TombstonedIds(hist)
              /\ content' = content /\ ipc' # "append"
              /\ \/ ipc = "append" /\ hist' = work
                 \/ \E i \in Imports : hist' = AppendOne(hist, RecordRow(i))
           \/ /\ Extends(hist, hist') /\ content' = content /\ ipc # "append" /\ ipc' # "append"
              /\ \E i \in Ids : /\ i \in Foreign \/ Indexed(hist, i)
                                /\ hist' = AppendOne(hist, Tombstone(i))
  <1>1. CASE Commit
    BY <1>1 DEF Commit, IInv, BatchInv
  <1>2. ASSUME NEW i \in Imports, Import(i)
        PROVE  /\ Extends(hist, hist') /\ TombstonedIds(hist') = TombstonedIds(hist)
               /\ content' = content /\ ipc' # "append"
               /\ hist' = AppendOne(hist, RecordRow(i))
    <2>1. i \in Ids \ Foreign /\ RecordRow(i) \in Row /\ hist \in Seq(Row)
      BY HistoryAssumption, IdsAssumption DEF RecordRow, Row, IInv, TypeOK
    <2>2. hist' = AppendOne(hist, RecordRow(i)) /\ content' = content /\ ipc' # "append"
      BY <1>2 DEF Import, ingest, IInv, SpoolInv
    <2>3. Extends(hist, hist')
      BY <2>1, <2>2, AppendOneExtends
    <2>4. TombstonedIds(hist') = TombstonedIds(hist)
      BY <2>1, <2>2, AppendRecordKeeps DEF IInv
    <2> QED
      BY <2>2, <2>3, <2>4
  <1>3. ASSUME NEW c \in Conns, NEW i \in Ids, DeleteAppend(c, i)
        PROVE  /\ Extends(hist, hist') /\ content' = content /\ ipc # "append" /\ ipc' # "append"
               /\ i \in Foreign \/ Indexed(hist, i)
               /\ hist' = AppendOne(hist, Tombstone(i))
    <2>1. Tombstone(i) \in Row /\ hist \in Seq(Row)
      BY IdsAssumption DEF Tombstone, Row, IInv, TypeOK
    <2>2. /\ hist' = AppendOne(hist, Tombstone(i)) /\ content' = content
          /\ ipc # "append" /\ ipc' # "append" /\ (i \in Foreign \/ Indexed(hist, i))
      BY <1>3 DEF DeleteAppend, ingest, IInv, ShownInv
    <2>3. Extends(hist, hist')
      BY <2>1, <2>2, AppendOneExtends
    <2> QED
      BY <2>2, <2>3
  <1>4. CASE \/ \E f \in Files, i \in Ids : SpoolAppend(f, i)
             \/ WakeIngest \/ TakeWake \/ StartIngest \/ DrainFile \/ DrainDone \/ AppendNext
             \/ ReadLastSeq \/ ReadRows \/ FoldRows \/ IngestFails \/ ReadFails
             \/ \E c \in Conns : DeleteDrop(c)
    BY <1>4 DEF SpoolAppend, WakeIngest, TakeWake, StartIngest, DrainFile, DrainDone, AppendNext,
                ReadLastSeq, ReadRows, FoldRows, IngestFails, ReadFails, DeleteDrop, disk
  <1>5. CASE TakeSnapshot \/ SnapshotUnusable \/ Start \/ LoadCorpus \/ Stop \/ Finish \/ Crash
    BY <1>5 DEF TakeSnapshot, SnapshotUnusable, Start, LoadCorpus, Stop, Finish, Crash, disk
  <1>6. CASE UNCHANGED vars
    BY <1>6 DEF vars
  <1> QED
    BY <1>1, <1>2, <1>3, <1>4, <1>5, <1>6 DEF Next, IngestStep

-------------------------------------------------------------------------------

\* Rows keep seq and identity, and deletion is final.
THEOREM HistoryOnlyGrows == Spec => HistoryAppendOnly
  <1>1. IInv /\ [Next]_vars =>
          [\A n \in DOMAIN hist :
             /\ n \in DOMAIN hist'
             /\ hist'[n].id = hist[n].id /\ hist'[n].target = hist[n].target
             /\ hist[n].dead => hist'[n].dead]_hist
    BY StoreSteps DEF Extends
  <1> QED
    BY <1>1, Invariance, PTL DEF Spec, HistoryAppendOnly

-------------------------------------------------------------------------------
(* Stored ids were accepted *)

LEMMA AcceptedGrows ==
    ASSUME IInv, [Next]_vars
    PROVE  /\ Accepted \subseteq Accepted'
           /\ \/ content' = content
              \/ \E i \in Ids : Accepted' = Accepted \cup {i}
  <1>1. ASSUME NEW f \in Files, NEW i \in Ids, SpoolAppend(f, i)
        PROVE  Accepted' = Accepted \cup {i}
    <2>1. /\ content \in [Files -> Ids \cup {NoId}] /\ content[f] = NoId
          /\ content' = [content EXCEPT ![f] = i] /\ i # NoId
      BY <1>1, IdsAssumption DEF SpoolAppend, IInv, TypeOK
    <2>2. content'[f] = i /\ \A g \in Files \ {f} : content'[g] = content[g]
      BY <2>1
    <2> QED
      BY <2>1, <2>2 DEF Accepted
  <1>2. CASE \/ \E i \in Imports : Import(i)
             \/ \E c \in Conns, i \in Ids : DeleteAppend(c, i)
             \/ \E c \in Conns : DeleteDrop(c)
             \/ WakeIngest \/ IngestStep \/ IngestFails \/ ReadFails
    BY <1>2 DEF Import, DeleteAppend, DeleteDrop, WakeIngest, IngestFails, ReadFails, IngestStep, TakeWake,
                StartIngest, DrainFile, DrainDone, AppendNext, Commit, ReadLastSeq, ReadRows,
                FoldRows, disk, Accepted
  <1>3. CASE TakeSnapshot \/ SnapshotUnusable \/ Start \/ LoadCorpus \/ Stop \/ Finish \/ Crash
    BY <1>3 DEF TakeSnapshot, SnapshotUnusable, Start, LoadCorpus, Stop, Finish, Crash, disk, Accepted
  <1>4. CASE UNCHANGED vars
    BY <1>4 DEF vars, Accepted
  <1> QED
    BY <1>1, <1>2, <1>3, <1>4 DEF Next

\* What an open transaction holds after a step: nothing, or one row more.
LEMMA WorkSteps ==
    ASSUME IInv, [Next]_vars, ipc' = "append"
    PROVE  \/ work' = hist /\ hist' = hist
           \/ ipc = "append" /\ work' = work
           \/ /\ ipc = "append" /\ applied < Len(drained)
              /\ work' = AppendOne(work, RecordRow(content[drained[applied + 1]]))
  <1>1. CASE DrainDone
    BY <1>1 DEF DrainDone, disk
  <1>2. CASE AppendNext
    BY <1>2 DEF AppendNext
  <1>3. CASE \/ \E f \in Files, i \in Ids : SpoolAppend(f, i)
             \/ \E i \in Imports : Import(i)
             \/ \E c \in Conns, i \in Ids : DeleteAppend(c, i)
             \/ \E c \in Conns : DeleteDrop(c)
             \/ WakeIngest \/ TakeWake \/ StartIngest \/ DrainFile \/ Commit
             \/ ReadLastSeq \/ ReadRows \/ FoldRows \/ IngestFails \/ ReadFails
    BY <1>3 DEF SpoolAppend, Import, DeleteAppend, DeleteDrop, WakeIngest, TakeWake, StartIngest,
                DrainFile, Commit, ReadLastSeq, ReadRows, FoldRows, IngestFails, ReadFails, ingest
  <1>4. CASE TakeSnapshot \/ SnapshotUnusable \/ Start \/ LoadCorpus \/ Stop \/ Finish \/ Crash
    BY <1>4 DEF TakeSnapshot, SnapshotUnusable, Start, LoadCorpus, Stop, Finish, Crash, RamLost, ingest
  <1>5. CASE UNCHANGED vars
    BY <1>5 DEF vars
  <1> QED
    BY <1>1, <1>2, <1>3, <1>4, <1>5 DEF Next, IngestStep

LEMMA AcceptedKeeps ==
    ASSUME IInv, AcceptedInv, [Next]_vars
    PROVE  AcceptedInv'
  <1> DEFINE S == Accepted' \cup {NoId}
  <1>1. Accepted \subseteq Accepted' /\ hist \in Seq(Row)
    BY AcceptedGrows DEF IInv, TypeOK
  <1>2. /\ \A n \in DOMAIN hist : hist[n].id \in S
        /\ ipc = "append" => \A n \in DOMAIN work : work[n].id \in S
    BY <1>1 DEF AcceptedInv
  <1>3. \A n \in DOMAIN hist' : hist'[n].id \in S
    <2>1. CASE hist' = hist
      BY <1>2, <2>1
    <2>2. CASE ipc = "append" /\ hist' = work
      BY <1>2, <2>2
    <2>3. ASSUME NEW i \in Imports, hist' = AppendOne(hist, RecordRow(i))
          PROVE  \A n \in DOMAIN hist' : hist'[n].id \in S
      <3>1. RecordRow(i) \in Row /\ RecordRow(i).id = i
        BY HistoryAssumption DEF RecordRow, Row
      <3>2. RecordRow(i).id \in S
        BY <3>1 DEF Accepted
      <3> HIDE DEF S
      <3> QED
        BY <1>1, <1>2, <2>3, <3>1, <3>2, AppendOneIds
    <2>4. ASSUME NEW i \in Ids, hist' = AppendOne(hist, Tombstone(i))
          PROVE  \A n \in DOMAIN hist' : hist'[n].id \in S
      <3>1. Tombstone(i) \in Row /\ Tombstone(i).id \in S
        BY DEF Tombstone, Row
      <3> HIDE DEF S
      <3> QED
        BY <1>1, <1>2, <2>4, <3>1, AppendOneIds
    <2> QED
      BY StoreSteps, <2>1, <2>2, <2>3, <2>4
  <1>4. ASSUME ipc' = "append" PROVE \A n \in DOMAIN work' : work'[n].id \in S
    <2>1. CASE work' = hist
      BY <1>2, <2>1
    <2>2. CASE ipc = "append" /\ work' = work
      BY <1>2, <2>2
    <2>3. CASE /\ ipc = "append" /\ applied < Len(drained)
               /\ work' = AppendOne(work, RecordRow(content[drained[applied + 1]]))
      <3> DEFINE i == content[drained[applied + 1]]
      <3>1. applied + 1 \in 1..Len(drained) /\ work \in Seq(Row)
        BY <2>3 DEF IInv, TypeOK
      <3>2. i \in Ids \ Foreign /\ drained[applied + 1] \in DrainedSet
        BY <3>1, DrainedContent
      <3>3. drained[applied + 1] \in Files
        BY <3>2 DEF IInv, TypeOK, DrainedSet
      <3>4. i \in Accepted
        BY <3>2, <3>3, IdsAssumption DEF Accepted
      <3>5. RecordRow(i) \in Row /\ RecordRow(i).id \in S
        BY <1>1, <3>2, <3>4 DEF RecordRow, Row
      <3>6. work' = AppendOne(work, RecordRow(i))
        BY <2>3
      <3> HIDE DEF S, i
      <3> QED
        BY <1>2, <2>3, <3>1, <3>5, <3>6, AppendOneIds
    <2> QED
      BY <1>4, WorkSteps, <2>1, <2>2, <2>3
  <1> QED
    BY <1>3, <1>4 DEF AcceptedInv

LEMMA AcceptedAlways == Spec => []AcceptedInv
  <1>1. Init => AcceptedInv
    BY DEF Init, AcceptedInv
  <1> QED
    BY <1>1, AcceptedKeeps, Invariance, PTL DEF Spec

-------------------------------------------------------------------------------
(* The refinement *)

Recorded == IdsOf(DOMAIN hist) \ {NoId}

LEMMA InitMaps == Init => Promise!PromiseInit
  <1> SUFFICES ASSUME Init PROVE Promise!PromiseInit
    OBVIOUS
  <1>1. {content[f] : f \in Files} \ {NoId} = {} /\ DOMAIN hist = {} /\ All(hist) = {}
    BY DEF Init, All
  <1> QED
    BY <1>1 DEF Promise!PromiseInit, IdsOf, TombstonedIds

LEMMA StepMaps ==
    ASSUME IInv, IInv', AcceptedInv', [Next]_vars
    PROVE  [Promise!PromiseNext]_(Promise!pvars)
  <1> DEFINE live == IdsOf(All(hist))
             deleted == TombstonedIds(hist)
  <1>1. /\ live = (Recorded \cap Commands) \ deleted
        /\ live' = (Recorded' \cap Commands) \ deleted'
    BY LiveIds, IdsAssumption DEF IInv, Recorded, IdsOf
  <1>2. /\ hist \in Seq(Row) /\ hist' \in Seq(Row)
        /\ deleted \subseteq Foreign \cup Recorded
        /\ Recorded' \cap Foreign = {}
    BY IdsAssumption DEF IInv, StoreInv, Indexed, Recorded, IdsOf, TombstonedIds
  <1>3. Recorded' \subseteq Accepted'
    BY DEF AcceptedInv, Recorded, IdsOf
  <1>4. CASE hist' = hist /\ content' = content
    BY <1>4 DEF Promise!pvars, IdsOf
  <1>5. ASSUME hist' = hist, NEW i \in Ids, Accepted' = Accepted \cup {i}
        PROVE  Promise!PromiseNext
    <2>1. Promise!Accept(i)
      BY <1>5 DEF Promise!Accept, Accepted, IdsOf
    <2> QED
      BY <2>1 DEF Promise!PromiseNext
  <1>6. CASE Extends(hist, hist') /\ deleted' = deleted /\ content' = content
    <2> DEFINE batch == Recorded' \ Recorded
    <2>1. Recorded \subseteq Recorded'
      BY <1>6 DEF Extends, Recorded, IdsOf
    <2>2. Accepted' = Accepted
      BY <1>6 DEF Accepted
    <2>3. batch \subseteq Accepted \ Recorded /\ Recorded' = Recorded \cup batch
      BY <1>3, <2>1, <2>2
    <2>4. live' = live \cup (batch \cap Commands)
      BY <1>1, <1>2, <1>6, <2>1
    <2>5. Promise!Record(batch)
      BY <1>6, <2>2, <2>3, <2>4 DEF Promise!Record, Accepted, Recorded
    <2> QED
      BY <2>3, <2>5 DEF Promise!PromiseNext, Accepted, Recorded
  <1>7. ASSUME NEW i \in Ids, i \in Foreign \/ Indexed(hist, i), content' = content,
               hist' = AppendOne(hist, Tombstone(i))
        PROVE  Promise!PromiseNext
    <2> DEFINE t == Tombstone(i)
    <2>1. t \in Row /\ t.id = NoId /\ t.target = i /\ i # NoId
      BY IdsAssumption DEF Tombstone, Row
    <2>2. ~(t.id # NoId /\ Indexed(hist, t.id)) /\ hist' = AppendOne(hist, t)
      BY <1>7, <2>1
    <2> HIDE DEF t
    <2>3. /\ DOMAIN hist = 1..Len(hist) /\ DOMAIN hist' = 1..(Len(hist) + 1)
          /\ hist'[Len(hist) + 1] = t /\ Len(hist) \in Nat
          /\ \A n \in 1..Len(hist) : hist'[n].id = hist[n].id /\ hist'[n].target = hist[n].target
      BY <1>2, <2>1, <2>2, AppendOneRows
    <2>4. Recorded' = Recorded
      BY <2>1, <2>3 DEF Recorded, IdsOf
    <2>5. deleted' = deleted \cup {i}
      BY <2>1, <2>3 DEF TombstonedIds
    <2>6. i \in Recorded \cup Foreign
      BY <1>7, <2>1 DEF Recorded, IdsOf, Indexed
    <2>7. live' = live \ {i}
      BY <1>1, <2>4, <2>5
    <2>8. Promise!Delete(i)
      BY <1>7, <2>4, <2>5, <2>6, <2>7 DEF Promise!Delete, Recorded
    <2> QED
      BY <2>8 DEF Promise!PromiseNext
  <1> QED
    BY StoreSteps, AcceptedGrows, <1>4, <1>5, <1>6, <1>7

\* LocalHistory implements HistoryPromise.
THEOREM Refinement == Spec => KeepsPromise
  BY InitMaps, StepMaps, Invariance, AcceptedAlways, PTL
     DEF Spec, KeepsPromise, Promise!PromiseSpec
===============================================================================

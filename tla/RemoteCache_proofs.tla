--------------------------- MODULE RemoteCache_proofs --------------------------
(***************************************************************************)
(* What searches find of the other machines, what remote.db holds and what *)
(* a refusal leaves behind, for any servers, hosts, rows and bounds.  The  *)
(* inductive invariant is CacheInv; its parts say how RAM, the cursors, a  *)
(* running pull and the file relate to the streams of the server.          *)
(***************************************************************************)
EXTENDS RemoteCache, FiniteSetTheorems, SequenceTheorems, TLAPS

-------------------------------------------------------------------------------
(* What a refusal leaves behind *)

\* A refusal is recorded before it is acted on; while it stands no cycle runs, so
\* nothing writes to the file that was removed; a stopped daemon has no latch.
StandingInv ==
    /\ mixed \in BOOLEAN
    /\ latch => up /\ pc = "idle" /\ ~rs /\ disk = EmptyFile /\ (meta \/ mixed)
    /\ pc = "purge" => meta \/ mixed
    /\ ~up => pc = "idle"

LEMMA SeqInto ==
  ASSUME NEW S, NEW T, NEW q \in Seq(S), \A i \in DOMAIN q : q[i] \in T
  PROVE  q \in Seq(T)
OBVIOUS

LEMMA StandingInit == Init => StandingInv
  BY DEF Init, StandingInv

LEMMA StandingStep == StandingInv /\ [Next]_vars => StandingInv'
<1> SUFFICES ASSUME StandingInv, [Next]_vars PROVE StandingInv'
  OBVIOUS
<1> USE DEF StandingInv
<1>1. ASSUME NEW s, NEW h, NEW row, Grow(s, h, row) PROVE StandingInv'
  BY <1>1 DEF Grow, cache, standing, cycle, ghosts
<1>2. ASSUME NEW s, ChangeStanding(s) PROVE StandingInv'
  BY <1>2 DEF ChangeStanding, cache, standing, cycle, ghosts
<1>3. ASSUME NEW s, Start(s) PROVE StandingInv'
  BY <1>3 DEF Start, cache, standing, cycle
<1>4. CASE Crash
  BY <1>4 DEF Crash, NoCycle
\* attach clears both halves of a refusal; in the middle of one it sets mixed.
<1>5. ASSUME NEW s, Attach(s) PROVE StandingInv'
  <2>1. ~latch' /\ up' /\ pc' = pc /\ mixed' = (pc # "idle" \/ (mixed /\ disk' # EmptyFile))
    BY <1>5 DEF Attach, LoopIsFree, cycle
  <2>2. mixed' \in BOOLEAN /\ (pc' = "purge" => mixed')
    BY <2>1
  <2> QED
    BY <2>1, <2>2
<1>6. CASE Reattach
  BY <1>6 DEF Reattach, LoopIsFree, cache, standing, cycle, ghosts
<1>7. ASSUME NEW r, Begin(r) PROVE StandingInv'
  BY <1>7 DEF Begin, cache, standing, local, ghosts
<1>8. CASE HydrateNone
  BY <1>8 DEF HydrateNone, standing, local, ghosts
<1>9. CASE HydrateRead
  BY <1>9 DEF HydrateRead, cache, standing, ghosts
<1>10. CASE HydrateFold
  BY <1>10 DEF HydrateFold, standing
<1>11. CASE HydrateDrop
  BY <1>11 DEF HydrateDrop, standing
<1>12. CASE ListHosts
  BY <1>12 DEF ListHosts, cache, standing, ghosts
<1>13. CASE PullHost
  BY <1>13 DEF PullHost, cache, standing, ghosts
<1>14. CASE PullDone
  BY <1>14 DEF PullDone, cache, standing, ghosts
<1>15. ASSUME NEW h, NEW ok, BankHost(h, ok) PROVE StandingInv'
  <2>1. pc = "bank" /\ pc' = pc /\ up' = up /\ latch' = latch /\ meta' = meta
    BY <1>15 DEF BankHost, cache, standing
  <2>2. mixed' \in BOOLEAN
    BY <1>15 DEF BankHost
  <2> QED
    BY <2>1, <2>2
<1>16. CASE FoldPulled
  BY <1>16 DEF FoldPulled, NoCycle
<1>17. CASE GiveUp
  BY <1>17 DEF GiveUp, NoCycle, cache, standing, ghosts
<1>18. CASE Refused
  BY <1>18 DEF Refused, cache, local, ghosts
<1>19. CASE Purge
  BY <1>19 DEF Purge, NoCycle
<1>20. CASE UNCHANGED vars
  BY <1>20 DEF vars
<1> QED
  BY <1>1, <1>2, <1>3, <1>4, <1>5, <1>6, <1>7, <1>8, <1>9, <1>10, <1>11, <1>12, <1>13,
     <1>14, <1>15, <1>16, <1>17, <1>18, <1>19, <1>20 DEF Next, SyncOnce

\* However cycles, edits of config.toml, failures and crashes interleave with a
\* server's refusal (onRevoked, attach, syncOnce), the ciphertext stays off the
\* disk while the refusal stands, and the next start will know of it.
THEOREM RefusalHolds == Spec => []RevocationHolds
<1>1. StandingInv => RevocationHolds
  BY DEF StandingInv, RevocationHolds
<1> QED
  BY <1>1, StandingInit, StandingStep, PTL DEF Spec
-------------------------------------------------------------------------------
(* The inductive invariant *)

\* Without a daemon nothing is in RAM, and neither is anything before remote.db was
\* read.  What a cycle does counts for the attached server.
Warm ==
    /\ ~up => ram = EmptyRam /\ cursors = Zero /\ ~hydrated
    /\ pc = "open" => ~hydrated
    /\ ~mixed /\ ~hydrated => ram = EmptyRam /\ cursors = Zero
    /\ ~mixed /\ pc \in {"list", "pull", "bank"} => hydrated
    /\ ~mixed /\ pc # "idle" => csy = sy
    /\ ~mixed /\ pc = "open" => kept = disk

\* A file that has one server's records only.
FileFrom(s, file) == \A h \in Hosts : \A r \in file.recs[h] : r[1] = s

\* Its cursor is at its last row of that server, and what it lacks below is a row that
\* a write which failed should have brought, or older than the newest remote_keep.
FileGood(s, file) ==
    \A h \in Hosts :
        /\ file.cur[h] <= Len(stream[s][h])
        /\ \A r \in file.recs[h] : r[2] \in 1..file.cur[h]
        /\ file.cur[h] > 0 => <<s, file.cur[h]>> \in file.recs[h]
        /\ keep > 0 => Cardinality(file.recs[h]) <= keep
        /\ \A k \in 1..file.cur[h] :
              \/ <<s, k>> \in file.recs[h]
              \/ <<s, <<h, k>>>> \in gap
              \/ keep > 0 /\ k + keep <= file.cur[h]

DiskOK == ~mixed => \A s \in Servers : FileFrom(s, disk) => FileGood(s, disk)

\* A pull goes on from the cursors, and reaches what remote.db has of its server.
PullOK ==
    ~mixed /\ pc \in {"pull", "bank"} =>
        /\ base = cursors
        /\ \A h \in Hosts :
              /\ base[h] <= next[h] /\ next[h] <= Len(stream[csy][h])
              /\ next[h] > base[h] /\ FileFrom(csy, disk) => disk.cur[h] <= next[h]
              /\ pc = "bank" /\ h \in todo => next[h] > base[h]

\* A server's records up to a row, each once and oldest first.
Ordered(q, s, c) ==
    /\ q \in Seq({s} \X (1..c))
    /\ \A i, j \in DOMAIN q : i < j => q[i][2] < q[j][2]

RamOK ==
    ~mixed /\ up =>
        \A h \in Hosts :
            /\ \E c \in Nat : Ordered(ram[h], sy, c)
            /\ ~latch => Ordered(ram[h], sy, cursors[h])
            /\ keep > 0 => Len(ram[h]) <= keep
            /\ sy \in Servers => cursors[h] <= Len(stream[sy][h])

\* CacheComplete, of every row.
CompleteOK ==
    ~mixed /\ sy \in Servers =>
        \A h \in Hosts : \A k \in 1..cursors[h] :
            stream[sy][h][k] = Command =>
                \/ Searchable(h, k) \/ <<h, k>> \in DeletedOn(sy) \/ Evicted(h, k)
                \/ <<sy, <<h, k>>>> \in gap

\* The command was not there yet when its tombstone was folded, or the tombstone was
\* read back from remote.db no more.
Late(h, k) ==
    \/ <<sy, <<h, k>>>> \in early
    \/ \E g \in Hosts : \E j \in 1..cursors[g] :
          stream[sy][g][j] = <<h, k>> /\ <<sy, j>> \notin disk.recs[g]

\* A deleted command that is searchable, or will be when its row is pulled, is late.
DeletedOK ==
    ~mixed /\ sy \in Servers =>
        \A h \in Hosts : \A k \in Nat :
            <<h, k>> \in DeletedOn(sy) /\ (Searchable(h, k) \/ k > cursors[h]) => Late(h, k)

CacheInv ==
    /\ TypeOK /\ StandingInv /\ Warm /\ DiskOK /\ PullOK /\ RamOK /\ CompleteOK /\ DeletedOK
-------------------------------------------------------------------------------
(* Numbers, sets and sequences in order *)

\* An interval is as large as it is long.
LEMMA IntervalSize ==
  ASSUME NEW a \in Nat, NEW b \in Nat, a <= b + 1
  PROVE  IsFiniteSet(a..b) /\ Cardinality(a..b) = b - a + 1
<1>1. IsFiniteSet(a..b) /\ Cardinality(a..b) = IF a > b THEN 0 ELSE b - a + 1
  BY FS_Interval
<1> QED
  BY <1>1

\* Part of a finite set is smaller than the whole.
LEMMA SmallerPart ==
  ASSUME NEW S, IsFiniteSet(S), NEW T \in SUBSET S, NEW x \in S \ T
  PROVE  IsFiniteSet(T) /\ Cardinality(T) \in Nat /\ Cardinality(S) \in Nat
         /\ Cardinality(T) < Cardinality(S)
<1>1. IsFiniteSet(T) /\ Cardinality(T) <= Cardinality(S) /\ (Cardinality(S) = Cardinality(T) => S = T)
  BY FS_Subset
<1>2. Cardinality(T) \in Nat /\ Cardinality(S) \in Nat
  BY <1>1, FS_CardinalityType
<1> QED
  BY <1>1, <1>2

\* An injection into a finite set.
LEMMA InjectionBound ==
  ASSUME NEW S, NEW T, NEW f \in [S -> T], \A x, y \in S : f[x] = f[y] => x = y, IsFiniteSet(T)
  PROVE  /\ IsFiniteSet(S) /\ Cardinality(S) \in Nat /\ Cardinality(T) \in Nat
         /\ Cardinality(S) <= Cardinality(T)
         /\ Cardinality(S) = Cardinality(T) => \A y \in T : \E x \in S : f[x] = y
<1>1. f \in Injection(S, T)
  BY DEF Injection, IsInjective
<1>2. /\ IsFiniteSet(S) /\ Cardinality(S) <= Cardinality(T)
      /\ (Cardinality(S) = Cardinality(T) <=> f \in Surjection(S, T))
  BY <1>1, FS_Injection
<1>3. f \in Surjection(S, T) => \A y \in T : \E x \in S : f[x] = y
  BY DEF Surjection
<1>4. Cardinality(S) \in Nat /\ Cardinality(T) \in Nat
  BY <1>2, FS_CardinalityType
<1> QED
  BY <1>2, <1>3, <1>4

\* Ascending lists the members of a finite set, each once and in order.
LEMMA AscendingIs ==
  ASSUME NEW S \in SUBSET Nat, IsFiniteSet(S)
  PROVE  /\ Cardinality(S) \in Nat
         /\ Ascending(S) \in [1..Cardinality(S) -> S]
         /\ \A i, j \in 1..Cardinality(S) : i < j => Ascending(S)[i] < Ascending(S)[j]
         /\ \A x \in S : \E i \in 1..Cardinality(S) : Ascending(S)[i] = x
<1> DEFINE Below(x) == {y \in S : y <= x}
           rank == [x \in S |-> Cardinality(Below(x))]
           N == Cardinality(S)
<1>0. \A x \in S : x \in Nat
  OBVIOUS
<1>1. N \in Nat /\ N = Cardinality(S)
  BY FS_CardinalityType
<1>2. ASSUME NEW x \in S
      PROVE  IsFiniteSet(Below(x)) /\ Cardinality(Below(x)) \in 1..N
  <2>1. IsFiniteSet(Below(x)) /\ Cardinality(Below(x)) <= N
    BY FS_Subset
  <2>2. x \in Below(x)
    OBVIOUS
  <2>3. Cardinality(Below(x)) # 0
    BY <2>1, <2>2, FS_EmptySet
  <2>4. Cardinality(Below(x)) \in Nat
    BY <2>1, FS_CardinalityType
  <2> QED
    BY <2>1, <2>3, <2>4, <1>1
<1>3. ASSUME NEW x \in S, NEW y \in S, x < y
      PROVE  Cardinality(Below(x)) < Cardinality(Below(y))
  <2>1. x \in Nat /\ y \in Nat /\ y <= y /\ ~(y <= x)
    BY <1>0, <1>3
  <2>2. \A z \in S : z <= x => z <= y
    <3> TAKE z \in S
    <3>1. z \in Nat
      BY <1>0
    <3> QED
      BY <3>1, <2>1
  <2>3. Below(x) \in SUBSET Below(y) /\ y \in Below(y) \ Below(x)
    BY <2>1, <2>2
  <2> QED
    BY <2>3, <1>2, SmallerPart
<1>4. rank \in [S -> 1..N]
  BY <1>2
<1>5. \A x, y \in S : rank[x] = rank[y] => x = y
  <2> SUFFICES ASSUME NEW x \in S, NEW y \in S, rank[x] = rank[y], x # y PROVE FALSE
    OBVIOUS
  <2>1. CASE x < y
    BY <2>1, <1>2, <1>3
  <2>2. CASE y < x
    BY <2>2, <1>2, <1>3
  <2> QED
    BY <2>1, <2>2
<1>6. \A n \in 1..N : \E x \in S : rank[x] = n
  <2>1. IsFiniteSet(1..N) /\ Cardinality(1..N) = N
    <3> HIDE DEF N
    <3>1. IsFiniteSet(1..N) /\ Cardinality(1..N) = N - 1 + 1
      BY <1>1, IntervalSize
    <3> QED
      BY <3>1, <1>1
  <2> HIDE DEF rank, N
  <2> DEFINE T == 1..N
  <2>2. IsFiniteSet(T) /\ rank \in [S -> T]
    BY <2>1, <1>4
  <2>3. Cardinality(S) = Cardinality(T) => \A n \in T : \E x \in S : rank[x] = n
    <3> HIDE DEF T
    <3>1. rank \in Injection(S, T)
      BY <2>2, <1>5 DEF Injection, IsInjective
    <3>2. Cardinality(S) = Cardinality(T) => rank \in Surjection(S, T)
      BY <2>2, <3>1, FS_Injection
    <3> QED
      BY <3>2 DEF Surjection
  <2> QED
    BY <2>1, <2>3, <1>1
<1>7. \A n \in 1..N : Ascending(S)[n] \in S /\ rank[Ascending(S)[n]] = n
  <2> TAKE n \in 1..N
  <2>1. Ascending(S)[n] = CHOOSE x \in S : Cardinality(Below(x)) = n
    BY DEF Ascending
  <2>2. \E x \in S : Cardinality(Below(x)) = n
    BY <1>6
  <2>3. Ascending(S)[n] \in S /\ Cardinality(Below(Ascending(S)[n])) = n
    <3> HIDE DEF Below
    <3> QED
      BY <2>1, <2>2
  <2> QED
    BY <2>3
<1>8. Ascending(S) \in [1..N -> S]
  <2>1. Ascending(S) = [n \in 1..N |-> Ascending(S)[n]]
    BY DEF Ascending
  <2> QED
    BY <2>1, <1>7
<1>9. \A i, j \in 1..N : i < j => Ascending(S)[i] < Ascending(S)[j]
  <2> SUFFICES ASSUME NEW i \in 1..N, NEW j \in 1..N, i < j,
                      ~(Ascending(S)[i] < Ascending(S)[j])
               PROVE  FALSE
    OBVIOUS
  <2>1. /\ Ascending(S)[i] \in S /\ Ascending(S)[j] \in S
        /\ rank[Ascending(S)[i]] = i /\ rank[Ascending(S)[j]] = j
    BY <1>7
  <2> DEFINE a == Ascending(S)[i]
             b == Ascending(S)[j]
  <2>2. a \in Nat /\ b \in Nat /\ ~(a < b)
    BY <2>1, <1>0
  <2>3. rank[b] <= rank[a]
    <3> HIDE DEF a, b, rank
    <3>1. CASE a = b
      BY <3>1, <2>1 DEF a, b
    <3>2. CASE b < a
      <4>1. rank[b] < rank[a]
        BY <3>2, <2>1, <1>3 DEF a, b, rank
      <4> QED
        BY <4>1, <2>1 DEF a, b
    <3> QED
      BY <3>1, <3>2, <2>2
  <2> QED
    BY <2>1, <2>3
<1>10. \A x \in S : \E i \in 1..N : Ascending(S)[i] = x
  <2> TAKE x \in S
  <2>1. rank[x] \in 1..N
    BY <1>4
  <2>2. Ascending(S)[rank[x]] = x
    BY <2>1, <1>5, <1>7
  <2> QED
    BY <2>1, <2>2
<1> QED
  BY <1>1, <1>8, <1>9, <1>10

\* What a sequence has at some places is a sequence, in the same order.
LEMMA AtIs ==
  ASSUME NEW T, NEW q \in Seq(T), NEW P \in SUBSET DOMAIN q
  PROVE  /\ At(q, P) \in Seq(T) /\ Len(At(q, P)) <= Len(q)
         /\ \A a \in DOMAIN At(q, P) : \E i \in P : At(q, P)[a] = q[i]
         /\ \A i \in P : \E a \in DOMAIN At(q, P) : At(q, P)[a] = q[i]
         /\ \A a, b \in DOMAIN At(q, P) : a < b =>
              \E i, j \in P : i < j /\ At(q, P)[a] = q[i] /\ At(q, P)[b] = q[j]
<1> DEFINE N == Cardinality(P)
           A == Ascending(P)
<1>1. Len(q) \in Nat /\ DOMAIN q = 1..Len(q) /\ \A i \in DOMAIN q : q[i] \in T
  OBVIOUS
<1>2. IsFiniteSet(1..Len(q)) /\ Cardinality(1..Len(q)) = Len(q)
  <2>1. IsFiniteSet(1..Len(q)) /\ Cardinality(1..Len(q)) = Len(q) - 1 + 1
    BY <1>1, IntervalSize
  <2> QED
    BY <2>1, <1>1
<1>3. IsFiniteSet(P) /\ N <= Len(q)
  BY <1>1, <1>2, FS_Subset
<1>4. P \in SUBSET Nat
  BY <1>1
<1>5. /\ N \in Nat /\ A \in [1..N -> P]
      /\ \A i, j \in 1..N : i < j => A[i] < A[j]
      /\ \A x \in P : \E i \in 1..N : A[i] = x
  BY <1>3, <1>4, AscendingIs
<1> HIDE DEF A, N
<1>6. At(q, P) = [n \in 1..N |-> q[A[n]]]
  BY DEF At, A, N
<1>7. \A n \in 1..N : A[n] \in P /\ q[A[n]] \in T
  BY <1>1, <1>5
<1>8. At(q, P) \in Seq(T) /\ Len(At(q, P)) = N /\ DOMAIN At(q, P) = 1..N
  BY <1>5, <1>6, <1>7
<1>9. \A n \in 1..N : At(q, P)[n] = q[A[n]]
  BY <1>6
<1> QED
  <2> DEFINE s == At(q, P)
  <2>1. \A n \in DOMAIN s : \E i \in P : s[n] = q[i]
    BY <1>7, <1>8, <1>9
  <2>2. \A i \in P : \E n \in DOMAIN s : s[n] = q[i]
    BY <1>5, <1>8, <1>9
  <2>3. \A n, m \in DOMAIN s : n < m => \E i, j \in P : i < j /\ s[n] = q[i] /\ s[m] = q[j]
    BY <1>5, <1>7, <1>8, <1>9
  <2> QED
    BY <1>3, <1>8, <2>1, <2>2, <2>3 DEF N

\* Numbers that grow along a sequence grow by its length at least.
LEMMA Spread ==
  ASSUME NEW a \in Nat, NEW n \in Nat, NEW c \in Nat, NEW f \in [a..n -> 0..c], a <= n,
         \A i, j \in a..n : i < j => f[i] < f[j]
  PROVE  f[a] + (n - a) <= c
<1> DEFINE S == (a + 1)..n
           T == (f[a] + 1)..c
           g == [i \in S |-> f[i]]
<1>1. f[a] \in Nat /\ f[a] <= c
  OBVIOUS
<1>2. g \in [S -> T]
  <2> SUFFICES ASSUME NEW i \in S PROVE f[i] \in T
    OBVIOUS
  <2>1. i \in a..n /\ a \in a..n /\ a < i
    OBVIOUS
  <2>2. f[a] < f[i] /\ f[i] \in 0..c
    BY <2>1
  <2> QED
    BY <2>2, <1>1
<1>3. \A i, j \in S : g[i] = g[j] => i = j
  <2> SUFFICES ASSUME NEW i \in S, NEW j \in S, f[i] = f[j], i # j PROVE FALSE
    OBVIOUS
  <2>1. i \in a..n /\ j \in a..n /\ f[i] \in 0..c /\ (i < j \/ j < i)
    OBVIOUS
  <2> QED
    BY <2>1
<1>4. IsFiniteSet(T) /\ Cardinality(T) = c - f[a] /\ Cardinality(S) = n - a
  <2>1. IsFiniteSet(T) /\ Cardinality(T) = c - (f[a] + 1) + 1
    <3>1. f[a] + 1 \in Nat /\ f[a] + 1 <= c + 1
      BY <1>1
    <3> QED
      BY <3>1, IntervalSize
  <2>2. Cardinality(S) = n - (a + 1) + 1
    BY IntervalSize
  <2> QED
    BY <2>1, <2>2, <1>1
<1>5. Cardinality(S) <= Cardinality(T)
  <2> HIDE DEF g, S, T
  <2> QED
    BY <1>2, <1>3, <1>4, InjectionBound
<1> QED
  BY <1>1, <1>4, <1>5

-------------------------------------------------------------------------------
(* Rows, records and the order of a host's records *)

\* Which rows of one server the tombstones among its records name.
LEMMA TargetsIs ==
  ASSUME NEW s \in Servers, NEW recs \in [Hosts -> SUBSET ({s} \X Nat)], NEW x
  PROVE  <<s, x>> \in Targets(recs) <=>
           \E g \in Hosts : \E j \in Nat :
              <<s, j>> \in recs[g] /\ stream[s][g][j] # Command /\ stream[s][g][j] = x
<1>1. ASSUME NEW g \in Hosts, NEW r \in recs[g]
      PROVE  r[1] = s /\ r[2] \in Nat /\ r = <<s, r[2]>>
  OBVIOUS
<1>2. ASSUME <<s, x>> \in Targets(recs)
      PROVE  \E g \in Hosts : \E j \in Nat :
               <<s, j>> \in recs[g] /\ stream[s][g][j] # Command /\ stream[s][g][j] = x
  <2>1. PICK g \in Hosts : \E r \in {q \in recs[g] : stream[q[1]][g][q[2]] # Command} :
                              <<s, x>> = <<r[1], stream[r[1]][g][r[2]]>>
    BY <1>2 DEF Targets
  <2>2. PICK r \in recs[g] : /\ stream[r[1]][g][r[2]] # Command
                             /\ <<s, x>> = <<r[1], stream[r[1]][g][r[2]]>>
    BY <2>1
  <2> QED
    BY <2>2, <1>1
<1>3. ASSUME NEW g \in Hosts, NEW j \in Nat,
             <<s, j>> \in recs[g], stream[s][g][j] # Command, stream[s][g][j] = x
      PROVE  <<s, x>> \in Targets(recs)
  <2> DEFINE r == <<s, j>>
  <2>1. r \in {q \in recs[g] : stream[q[1]][g][q[2]] # Command} /\ r[1] = s /\ r[2] = j
    BY <1>3
  <2> HIDE DEF r
  <2>2. <<s, x>> = <<r[1], stream[r[1]][g][r[2]]>>
    BY <2>1, <1>3
  <2> QED
    BY <2>1, <2>2 DEF Targets
<1> QED
  BY <1>2, <1>3

\* Commands puts the commands of a host in order, each once, under the name of the
\* cycle's server.
LEMMA CommandsIs ==
  ASSUME NEW recs, NEW h, recs[h] \in SUBSET (Servers \X Nat), IsFiniteSet(recs[h])
  PROVE  /\ Commands(recs, h) \in Seq({csy} \X Nat)
         /\ Cardinality(recs[h]) \in Nat /\ Len(Commands(recs, h)) <= Cardinality(recs[h])
         /\ \A i \in DOMAIN Commands(recs, h) : \E r \in recs[h] :
              /\ stream[r[1]][h][r[2]] = Command
              /\ Commands(recs, h)[i] = <<csy, r[2]>>
         /\ \A r \in recs[h] : stream[r[1]][h][r[2]] = Command =>
              \E i \in DOMAIN Commands(recs, h) : Commands(recs, h)[i] = <<csy, r[2]>>
         /\ \A i, j \in DOMAIN Commands(recs, h) :
              i < j => Commands(recs, h)[i][2] < Commands(recs, h)[j][2]
<1> DEFINE C == {q \in recs[h] : stream[q[1]][h][q[2]] = Command}
           seqs == {r[2] : r \in C}
           f == [r \in C |-> r[2]]
           N == Cardinality(seqs)
           A == Ascending(seqs)
           Q == Commands(recs, h)
<1>1. IsFiniteSet(C) /\ Cardinality(C) <= Cardinality(recs[h])
  BY FS_Subset
<1>2. f \in Surjection(C, seqs)
  BY DEF Surjection
<1>3. IsFiniteSet(seqs) /\ N <= Cardinality(C)
  <2> HIDE DEF C, seqs, f
  <2> QED
    BY <1>1, <1>2, FS_Surjection DEF N
<1>4. N \in Nat /\ Cardinality(C) \in Nat /\ Cardinality(recs[h]) \in Nat
  BY <1>1, <1>3, FS_CardinalityType
<1>5. seqs \in SUBSET Nat
  OBVIOUS
<1>6. /\ A \in [1..N -> seqs]
      /\ \A i, j \in 1..N : i < j => A[i] < A[j]
      /\ \A x \in seqs : \E i \in 1..N : A[i] = x
  <2> HIDE DEF seqs
  <2> QED
    BY <1>3, <1>5, AscendingIs
<1>7. Q = [n \in 1..N |-> <<csy, A[n]>>]
  BY DEF Commands
<1> HIDE DEF A, N, Q
<1>8. \A n \in 1..N : A[n] \in seqs /\ A[n] \in Nat
  BY <1>5, <1>6
<1>9. Q \in Seq({csy} \X Nat) /\ Len(Q) = N /\ DOMAIN Q = 1..N
  <2> DEFINE X == {csy} \X Nat
  <2>1. \A n \in 1..N : <<csy, A[n]>> \in X
    BY <1>8
  <2> HIDE DEF X
  <2>2. Q \in Seq(X) /\ Len(Q) = N /\ DOMAIN Q = 1..N
    BY <2>1, <1>4, <1>7
  <2> QED
    BY <2>2 DEF X
<1>10. \A n \in 1..N : Q[n] = <<csy, A[n]>> /\ Q[n][2] = A[n]
  BY <1>7
<1>11. \A i \in DOMAIN Q : \E r \in recs[h] :
          stream[r[1]][h][r[2]] = Command /\ Q[i] = <<csy, r[2]>>
  BY <1>8, <1>9, <1>10
<1>12. ASSUME NEW r \in recs[h], stream[r[1]][h][r[2]] = Command
       PROVE  \E i \in DOMAIN Q : Q[i] = <<csy, r[2]>>
  <2>1. r[2] \in seqs
    BY <1>12
  <2> HIDE DEF seqs
  <2>2. PICK i \in 1..N : A[i] = r[2]
    BY <2>1, <1>6
  <2> QED
    BY <2>2, <1>9, <1>10
<1>13. \A i, j \in DOMAIN Q : i < j => Q[i][2] < Q[j][2]
  BY <1>6, <1>9, <1>10
<1> QED
  BY <1>1, <1>3, <1>4, <1>9, <1>11, <1>12, <1>13 DEF Q

LEMMA OrderedIs ==
  ASSUME NEW q, NEW s, NEW c \in Nat, Ordered(q, s, c)
  PROVE  /\ q \in Seq({s} \X (1..c)) /\ Len(q) \in Nat /\ DOMAIN q = 1..Len(q)
         /\ \A i \in DOMAIN q : /\ q[i] = <<s, q[i][2]>> /\ q[i][1] = s
                                /\ q[i][2] \in 1..c /\ q[i][2] \in Nat
         /\ \A i, j \in DOMAIN q : i < j => q[i][2] < q[j][2]
<1>1. q \in Seq({s} \X (1..c)) /\ Len(q) \in Nat /\ DOMAIN q = 1..Len(q)
  BY DEF Ordered
<1>2. \A i \in DOMAIN q : q[i] \in {s} \X (1..c)
  BY <1>1
<1>3. \A i \in DOMAIN q : /\ q[i] = <<s, q[i][2]>> /\ q[i][1] = s
                          /\ q[i][2] \in 1..c /\ q[i][2] \in Nat
  BY <1>2
<1> QED
  BY <1>1, <1>3 DEF Ordered

LEMMA OrderedAt ==
  ASSUME NEW q, NEW s, NEW c \in Nat, Ordered(q, s, c), NEW P \in SUBSET DOMAIN q
  PROVE  Ordered(At(q, P), s, c)
<1>1. q \in Seq({s} \X (1..c))
  BY OrderedIs
<1>2. /\ At(q, P) \in Seq({s} \X (1..c))
      /\ \A a, b \in DOMAIN At(q, P) : a < b =>
           \E i, j \in P : i < j /\ At(q, P)[a] = q[i] /\ At(q, P)[b] = q[j]
  BY <1>1, AtIs
<1>3. \A i, j \in P : i < j => q[i][2] < q[j][2]
  BY DEF Ordered
<1> QED
  BY <1>2, <1>3 DEF Ordered

\* What a sequence appended to another has.
LEMMA ConcatRange ==
  ASSUME NEW X, NEW p \in Seq(X), NEW q \in Seq(X)
  PROVE  Range(p \o q) = Range(p) \cup Range(q)
<1> DEFINE w == p \o q
<1>1. /\ Len(p) \in Nat /\ DOMAIN p = 1..Len(p) /\ Len(q) \in Nat /\ DOMAIN q = 1..Len(q)
      /\ w \in Seq(X) /\ Len(w) = Len(p) + Len(q) /\ DOMAIN w = 1..(Len(p) + Len(q))
      /\ \A i \in 1..Len(p) : w[i] = p[i]
      /\ \A i \in (Len(p) + 1)..(Len(p) + Len(q)) : w[i] = q[i - Len(p)]
  OBVIOUS
<1> HIDE DEF w
<1>2. ASSUME NEW i \in DOMAIN w
      PROVE  (\E j \in DOMAIN p : w[i] = p[j]) \/ (\E j \in DOMAIN q : w[i] = q[j])
  <2>1. CASE i <= Len(p)
    BY <2>1, <1>1
  <2>2. CASE i > Len(p)
    <3>1. i - Len(p) \in DOMAIN q /\ w[i] = q[i - Len(p)]
      BY <2>2, <1>1
    <3> QED
      BY <3>1
  <2> QED
    BY <2>1, <2>2, <1>1
<1>3. \A j \in DOMAIN p : j \in DOMAIN w /\ w[j] = p[j]
  BY <1>1
<1>4. \A j \in DOMAIN q : \E i \in DOMAIN w : w[i] = q[j]
  <2> TAKE j \in DOMAIN q
  <2> DEFINE i == j + Len(p)
  <2>1. i \in DOMAIN w /\ i \in (Len(p) + 1)..(Len(p) + Len(q)) /\ i - Len(p) = j
    BY <1>1
  <2>2. w[i] = q[i - Len(p)]
    <3> HIDE DEF i
    <3> QED
      BY <2>1, <1>1
  <2> QED
    BY <2>1, <2>2
<1>5. Range(w) = Range(p) \cup Range(q)
  BY <1>2, <1>3, <1>4 DEF Range
<1> QED
  BY <1>5 DEF w

\* Newer records after older ones are in order.
LEMMA OrderedConcat ==
  ASSUME NEW p, NEW q, NEW s, NEW b \in Nat, NEW c \in Nat, b <= c,
         Ordered(p, s, b), Ordered(q, s, c), \A i \in DOMAIN q : q[i][2] > b
  PROVE  Ordered(p \o q, s, c)
<1> DEFINE X == {s} \X (1..c)
           w == p \o q
<1>1. /\ Len(p) \in Nat /\ DOMAIN p = 1..Len(p)
      /\ \A i \in DOMAIN p : p[i] = <<s, p[i][2]>> /\ p[i][2] \in 1..b /\ p[i][2] \in Nat
      /\ \A i, j \in DOMAIN p : i < j => p[i][2] < p[j][2]
  <2>1. \A i \in DOMAIN p : /\ p[i] = <<s, p[i][2]>> /\ p[i][1] = s
                            /\ p[i][2] \in 1..b /\ p[i][2] \in Nat
    BY OrderedIs
  <2>2. Len(p) \in Nat /\ DOMAIN p = 1..Len(p)
    BY OrderedIs
  <2> QED
    BY <2>1, <2>2 DEF Ordered
<1>2. /\ Len(q) \in Nat /\ DOMAIN q = 1..Len(q) /\ q \in Seq(X)
      /\ \A i \in DOMAIN q : q[i][2] \in Nat
      /\ \A i, j \in DOMAIN q : i < j => q[i][2] < q[j][2]
  BY OrderedIs
<1>3. p \in Seq(X)
  <2>1. \A i \in 1..Len(p) : p[i] \in X
    <3> TAKE i \in 1..Len(p)
    <3>1. PICK n \in 1..b : p[i] = <<s, n>>
      BY <1>1
    <3>2. n \in 1..c
      BY <3>1
    <3> QED
      BY <3>1, <3>2
  <2>2. p \in Seq({s} \X (1..b))
    BY DEF Ordered
  <2> HIDE DEF X
  <2> QED
    BY <2>1, <2>2, <1>1
<1> HIDE DEF X
<1>4. /\ w \in Seq(X) /\ Len(w) = Len(p) + Len(q) /\ DOMAIN w = 1..(Len(p) + Len(q))
      /\ \A i \in 1..Len(p) : w[i] = p[i]
      /\ \A i \in (Len(p) + 1)..(Len(p) + Len(q)) : w[i] = q[i - Len(p)]
  BY <1>1, <1>2, <1>3
<1> HIDE DEF w
<1>5. ASSUME NEW i \in DOMAIN w, NEW j \in DOMAIN w, i < j
      PROVE  w[i][2] < w[j][2]
  <2>1. CASE j <= Len(p)
    <3>1. i \in DOMAIN p /\ j \in DOMAIN p
      BY <2>1, <1>1, <1>4, <1>5
    <3> QED
      BY <3>1, <1>1, <1>4, <1>5
  <2>2. CASE i > Len(p)
    <3> DEFINE k == i - Len(p)
               l == j - Len(p)
    <3>1. k \in 1..Len(q) /\ l \in 1..Len(q) /\ k < l
      BY <2>2, <1>1, <1>2, <1>4, <1>5
    <3>2. /\ i \in (Len(p) + 1)..(Len(p) + Len(q))
          /\ j \in (Len(p) + 1)..(Len(p) + Len(q))
      BY <2>2, <1>1, <1>2, <1>4, <1>5
    <3>3. w[i] = q[k] /\ w[j] = q[l]
      BY <1>4, <3>2
    <3> HIDE DEF k, l
    <3> QED
      BY <3>1, <3>3, <1>2
  <2>3. CASE i <= Len(p) /\ j > Len(p)
    <3>1. i \in DOMAIN p /\ j - Len(p) \in DOMAIN q /\ w[i] = p[i] /\ w[j] = q[j - Len(p)]
      BY <2>3, <1>1, <1>2, <1>4
    <3>2. p[i][2] \in Nat /\ p[i][2] <= b /\ q[j - Len(p)][2] \in Nat /\ q[j - Len(p)][2] > b
      BY <3>1, <1>1, <1>2
    <3> QED
      BY <3>1, <3>2
  <2> QED
    BY <2>1, <2>2, <2>3, <1>1, <1>4
<1>6. Ordered(w, s, c)
  BY <1>4, <1>5 DEF Ordered, X
<1> QED
  BY <1>6 DEF w


\* Pruning keeps the newest records, and evicts none of the newest keep rows.
LEMMA PrunedIs ==
  ASSUME NEW q, NEW s, NEW c \in Nat, Ordered(q, s, c), keep \in Nat
  PROVE  /\ Ordered(Pruned(q), s, c)
         /\ keep > 0 => Len(Pruned(q)) <= keep
         /\ Range(Pruned(q)) \in SUBSET Range(q)
         /\ \A k \in Nat : <<s, k>> \in Range(q) =>
              <<s, k>> \in Range(Pruned(q)) \/ (keep > 0 /\ k + keep <= c)
<1>1. CASE keep = 0 \/ Len(q) <= keep
  BY <1>1 DEF Pruned
<1>2. CASE ~(keep = 0 \/ Len(q) <= keep)
  <2> DEFINE N == Len(q)
             d == N - keep
             X == {s} \X (1..c)
             w == Pruned(q)
  <2>1. /\ q \in Seq(X) /\ N \in Nat /\ DOMAIN q = 1..N
        /\ \A i \in DOMAIN q : q[i][2] \in 1..c /\ q[i][2] \in Nat
        /\ \A i, j \in DOMAIN q : i < j => q[i][2] < q[j][2]
    BY OrderedIs
  <2>2. d \in Nat /\ d + keep = N /\ keep > 0
    BY <1>2, <2>1
  <2>3. w = SubSeq(q, d + 1, N)
    BY <1>2 DEF Pruned
  <2> HIDE DEF X, w, d
  <2>4. /\ w \in Seq(X) /\ Len(w) = keep /\ DOMAIN w = 1..keep
        /\ \A i \in 1..keep : i + d \in 1..N /\ w[i] = q[i + d]
    <3>1. w = [i \in 1..keep |-> q[i + d]]
      BY <2>1, <2>2, <2>3
    <3>2. \A i \in 1..keep : i + d \in 1..N /\ w[i] = q[i + d] /\ w[i] \in X
      BY <2>1, <2>2, <3>1
    <3> QED
      BY <3>1, <3>2, <2>2
  <2>5. \A i, j \in DOMAIN w : i < j => w[i][2] < w[j][2]
    <3> SUFFICES ASSUME NEW i \in 1..keep, NEW j \in 1..keep, i < j PROVE w[i][2] < w[j][2]
      BY <2>4
    <3>1. i + d \in DOMAIN q /\ j + d \in DOMAIN q /\ i + d < j + d
      BY <2>1, <2>2, <2>4
    <3>2. q[i + d][2] < q[j + d][2]
      BY <3>1, <2>1
    <3> QED
      BY <3>2, <2>4
  <2>6. ASSUME NEW j \in DOMAIN q, ~\E i \in DOMAIN w : w[i] = q[j]
        PROVE  q[j][2] + keep <= c
    <3>1. j \in 1..N /\ j <= d
      <4> SUFFICES ASSUME j > d PROVE FALSE
        BY <2>1, <2>2
      <4>1. j - d \in 1..keep /\ (j - d) + d = j
        BY <2>1, <2>2
      <4>2. w[j - d] = q[j]
        BY <4>1, <2>4
      <4> QED
        BY <4>1, <4>2, <2>4, <2>6
    <3> DEFINE f == [i \in j..N |-> q[i][2]]
    <3>2. j \in Nat /\ j <= N
      BY <3>1, <2>1
    <3>3. f \in [j..N -> 0..c]
      <4> SUFFICES ASSUME NEW i \in j..N PROVE q[i][2] \in 0..c
        OBVIOUS
      <4>1. i \in DOMAIN q
        BY <3>1, <2>1
      <4> QED
        BY <4>1, <2>1
    <3>4. \A i, k \in j..N : i < k => f[i] < f[k]
      <4> SUFFICES ASSUME NEW i \in j..N, NEW k \in j..N, i < k PROVE q[i][2] < q[k][2]
        OBVIOUS
      <4>1. i \in DOMAIN q /\ k \in DOMAIN q
        BY <3>1, <2>1
      <4> QED
        BY <4>1, <2>1
    <3>5. f[j] = q[j][2] /\ f[j] \in Nat
      BY <3>2, <2>1
    <3> HIDE DEF f, N
    <3>6. f[j] + (N - j) <= c
      BY <3>2, <3>3, <3>4, <2>1, Spread
    <3> QED
      BY <3>1, <3>2, <3>5, <3>6, <2>1, <2>2
  <2>7. Ordered(w, s, c)
    BY <2>4, <2>5 DEF Ordered, X
  <2>8. Range(w) \in SUBSET Range(q)
    <3>1. \A i \in DOMAIN w : \E j \in DOMAIN q : w[i] = q[j]
      BY <2>1, <2>4
    <3> QED
      BY <3>1 DEF Range
  <2>9. ASSUME NEW k \in Nat, <<s, k>> \in Range(q), <<s, k>> \notin Range(w)
        PROVE  k + keep <= c
    <3>1. PICK j \in DOMAIN q : q[j] = <<s, k>>
      BY <2>9 DEF Range
    <3>2. ~\E i \in DOMAIN w : w[i] = q[j]
      BY <2>9, <3>1 DEF Range
    <3> QED
      BY <2>6, <3>1, <3>2
  <2> QED
    BY <2>2, <2>4, <2>7, <2>8, <2>9 DEF w
<1> QED
  BY <1>1, <1>2

\* A fold of one server's newer records: what it keeps and what it removes.
LEMMA FoldedIs ==
  ASSUME csy \in Servers, NEW recs \in [Hosts -> SUBSET ({csy} \X Nat)], NEW h \in Hosts,
         IsFiniteSet(recs[h]), NEW b \in Nat, NEW c \in Nat, b <= c, Ordered(ram[h], csy, b),
         \A r \in recs[h] : r[2] \in (b + 1)..c
  PROVE  /\ Ordered(Folded(recs)[h], csy, c)
         /\ Cardinality(recs[h]) \in Nat /\ Len(ram[h]) \in Nat
         /\ Len(Folded(recs)[h]) <= Len(ram[h]) + Cardinality(recs[h])
         /\ \A k \in Nat : <<csy, k>> \in Range(Folded(recs)[h]) <=>
              /\ \/ <<csy, k>> \in Range(ram[h])
                 \/ <<csy, k>> \in recs[h] /\ stream[csy][h][k] = Command
              /\ <<csy, <<h, k>>>> \notin Targets(recs)
<1> DEFINE p == ram[h]
           q == Commands(recs, h)
           w == p \o q
           P == Live(w, h, recs)
           v == Folded(recs)[h]
<1>0. \A r \in recs[h] : r[1] = csy /\ r[2] \in Nat /\ r = <<csy, r[2]>>
  OBVIOUS
<1>1. /\ q \in Seq({csy} \X Nat)
      /\ Cardinality(recs[h]) \in Nat /\ Len(q) <= Cardinality(recs[h])
      /\ \A i \in DOMAIN q : \E r \in recs[h] :
           stream[r[1]][h][r[2]] = Command /\ q[i] = <<csy, r[2]>>
      /\ \A r \in recs[h] : stream[r[1]][h][r[2]] = Command =>
           \E i \in DOMAIN q : q[i] = <<csy, r[2]>>
      /\ \A i, j \in DOMAIN q : i < j => q[i][2] < q[j][2]
  <2>1. recs[h] \in SUBSET (Servers \X Nat)
    OBVIOUS
  <2> HIDE DEF q
  <2> QED
    BY <2>1, CommandsIs DEF q
<1> HIDE DEF q
<1>2. \A i \in DOMAIN q : \E n \in (b + 1)..c :
        q[i] = <<csy, n>> /\ <<csy, n>> \in recs[h] /\ stream[csy][h][n] = Command
  <2> TAKE i \in DOMAIN q
  <2>1. PICK r \in recs[h] : stream[r[1]][h][r[2]] = Command /\ q[i] = <<csy, r[2]>>
    BY <1>1
  <2>2. r[2] \in (b + 1)..c /\ r[1] = csy /\ <<csy, r[2]>> \in recs[h]
    BY <1>0
  <2> QED
    BY <2>1, <2>2
<1>3. Ordered(q, csy, c) /\ \A i \in DOMAIN q : q[i][2] > b
  <2> DEFINE X == {csy} \X (1..c)
  <2>1. ASSUME NEW i \in DOMAIN q PROVE q[i] \in X /\ q[i][2] > b
    <3>1. PICK n \in (b + 1)..c : q[i] = <<csy, n>>
      BY <1>2
    <3>2. n \in 1..c /\ n > b
      OBVIOUS
    <3> QED
      BY <3>1, <3>2
  <2>2. Len(q) \in Nat /\ DOMAIN q = 1..Len(q)
    BY <1>1
  <2> HIDE DEF X
  <2>3. q \in Seq(X)
    BY <2>1, <1>1, SeqInto
  <2> QED
    BY <2>1, <2>3, <1>1 DEF Ordered, X
<1>4. /\ Ordered(w, csy, c) /\ Len(w) = Len(p) + Len(q)
      /\ Range(w) = Range(p) \cup Range(q)
  <2> DEFINE X == {csy} \X Nat
  <2>1. p \in Seq({csy} \X (1..b))
    BY DEF Ordered
  <2>2. \A x \in {csy} \X (1..b) : x \in X
    OBVIOUS
  <2>3. q \in Seq(X)
    BY <1>1
  <2>4. Ordered(p, csy, b)
    OBVIOUS
  <2> HIDE DEF X, p
  <2>5. p \in Seq(X)
    BY <2>1, <2>2
  <2>6. Ordered(p \o q, csy, c)
    BY <2>4, <1>3, OrderedConcat
  <2>7. Len(p \o q) = Len(p) + Len(q)
    BY <2>3, <2>5
  <2>8. Range(p \o q) = Range(p) \cup Range(q)
    BY <2>3, <2>5, ConcatRange
  <2> QED
    BY <2>6, <2>7, <2>8
<1>5. Len(p) \in Nat /\ Len(q) \in Nat
  <2>1. p \in Seq({csy} \X (1..b))
    BY OrderedIs
  <2> QED
    BY <2>1, <1>1
<1>6. v = At(w, P)
  BY DEF Folded, q
<1> HIDE DEF w, v, p
<1>7. P \in SUBSET DOMAIN w
  BY DEF Live
<1>8. w \in Seq({csy} \X (1..c)) /\ \A i \in DOMAIN w : w[i][1] = csy
  <2>1. w \in Seq({csy} \X (1..c))
    BY <1>4 DEF Ordered
  <2>2. \A i \in DOMAIN w : w[i] \in {csy} \X (1..c)
    BY <2>1
  <2> QED
    BY <2>1, <2>2
<1> HIDE DEF P
<1>9. /\ Len(v) <= Len(w)
      /\ \A a \in DOMAIN v : \E i \in P : v[a] = w[i]
      /\ \A i \in P : \E a \in DOMAIN v : v[a] = w[i]
  BY <1>6, <1>7, <1>8, AtIs
<1>10. Ordered(v, csy, c)
  BY <1>4, <1>6, <1>7, OrderedAt
<1>11. Len(v) <= Len(p) + Cardinality(recs[h])
  <2>1. Len(v) \in Nat
    BY <1>10, OrderedIs
  <2> QED
    BY <2>1, <1>1, <1>4, <1>5, <1>9
<1>12. ASSUME NEW k \in Nat
       PROVE  <<csy, k>> \in Range(v) <=>
                /\ \/ <<csy, k>> \in Range(p)
                   \/ <<csy, k>> \in recs[h] /\ stream[csy][h][k] = Command
                /\ <<csy, <<h, k>>>> \notin Targets(recs)
  <2>1. \A i \in DOMAIN w : w[i] = <<csy, k>> =>
          (i \in P <=> <<csy, <<h, k>>>> \notin Targets(recs))
    BY DEF P, Live
  <2>2. <<csy, k>> \in Range(w) <=> <<csy, k>> \in Range(p) \/ <<csy, k>> \in Range(q)
    BY <1>4
  <2>3. <<csy, k>> \in Range(q) <=> <<csy, k>> \in recs[h] /\ stream[csy][h][k] = Command
    <3>1. ASSUME NEW i \in DOMAIN q, q[i] = <<csy, k>>
          PROVE  <<csy, k>> \in recs[h] /\ stream[csy][h][k] = Command
      <4>1. PICK n \in (b + 1)..c :
              q[i] = <<csy, n>> /\ <<csy, n>> \in recs[h] /\ stream[csy][h][n] = Command
        BY <1>2
      <4>2. n = k
        BY <4>1, <3>1
      <4> QED
        BY <4>1, <4>2
    <3>2. ASSUME <<csy, k>> \in recs[h], stream[csy][h][k] = Command
          PROVE  \E i \in DOMAIN q : q[i] = <<csy, k>>
      <4>1. \E r \in recs[h] : r = <<csy, k>>
        BY <3>2
      <4>2. PICK r \in recs[h] : r[1] = csy /\ r[2] = k
        BY <4>1
      <4> QED
        BY <4>2, <3>2, <1>1
    <3> QED
      BY <3>1, <3>2 DEF Range
  <2>4. (\E i \in DOMAIN v : v[i] = <<csy, k>>) <=> \E i \in P : w[i] = <<csy, k>>
    BY <1>9
  <2>5. (\E i \in P : w[i] = <<csy, k>>) <=>
          /\ \E i \in DOMAIN w : w[i] = <<csy, k>>
          /\ <<csy, <<h, k>>>> \notin Targets(recs)
    BY <2>1, <1>7
  <2>6. /\ <<csy, k>> \in Range(v) <=> \E i \in DOMAIN v : v[i] = <<csy, k>>
        /\ <<csy, k>> \in Range(w) <=> \E i \in DOMAIN w : w[i] = <<csy, k>>
    BY DEF Range
  <2> QED
    BY <2>2, <2>3, <2>4, <2>5, <2>6
<1> QED
  BY <1>1, <1>5, <1>10, <1>11, <1>12 DEF v, p

\* The types of a fold and of what it evicts, whatever the servers.
LEMMA FoldedType ==
  ASSUME csy \in Servers, keep \in Nat, NEW recs, NEW h \in Hosts,
         recs[h] \in SUBSET (Servers \X Nat), IsFiniteSet(recs[h]),
         ram[h] \in Seq(Servers \X Nat)
  PROVE  /\ Folded(recs)[h] \in Seq(Servers \X Nat)
         /\ Pruned(Folded(recs)[h]) \in Seq(Servers \X Nat)
<1> DEFINE X == Servers \X Nat
           q == Commands(recs, h)
           w == ram[h] \o q
           P == Live(w, h, recs)
           v == Folded(recs)[h]
<1>1. q \in Seq({csy} \X Nat)
  BY CommandsIs
<1>2. \A x \in {csy} \X Nat : x \in X
  OBVIOUS
<1> HIDE DEF q, X
<1>3. q \in Seq(X)
  BY <1>1, <1>2
<1>4. w \in Seq(X)
  BY <1>3 DEF X
<1>5. v = At(w, P)
  BY DEF Folded, q
<1> HIDE DEF w, v
<1>6. P \in SUBSET DOMAIN w
  BY DEF Live
<1> HIDE DEF P
<1>7. v \in Seq(X)
  BY <1>4, <1>5, <1>6, AtIs
<1>8. Pruned(v) \in Seq(X)
  <2>1. CASE keep = 0 \/ Len(v) <= keep
    BY <2>1, <1>7 DEF Pruned
  <2>2. CASE ~(keep = 0 \/ Len(v) <= keep)
    <3>1. Len(v) \in Nat
      BY <1>7
    <3>2. Len(v) - keep + 1 \in 1..Len(v) /\ Len(v) \in 1..Len(v)
      BY <2>2, <3>1
    <3>3. SubSeq(v, Len(v) - keep + 1, Len(v)) \in Seq(X)
      BY <3>1, <3>2, <1>7
    <3> QED
      BY <2>2, <3>3 DEF Pruned
  <2> QED
    BY <2>1, <2>2
<1> QED
  BY <1>7, <1>8 DEF X, v


\* A server's records above a row, up to another.
Rows(s, b, c) == {<<s, k>> : k \in (b + 1)..c}

\* Rows that Append writes above a stream's last one: the stream ends at the new last
\* row, holds no more than keep rows, and what it dropped is old.
LEMMA AppendedIs ==
  ASSUME keep \in Nat, NEW s, NEW b \in Nat, NEW c \in Nat, b < c,
         NEW recs \in SUBSET ({s} \X (1..c)), IsFiniteSet(recs)
  PROVE  /\ Appended(recs, Rows(s, b, c)) \in SUBSET ({s} \X (1..c))
         /\ IsFiniteSet(Appended(recs, Rows(s, b, c)))
         /\ <<s, c>> \in Appended(recs, Rows(s, b, c))
         /\ keep > 0 => Cardinality(Appended(recs, Rows(s, b, c))) <= keep
         /\ \A r \in recs \cup Rows(s, b, c) :
              r \in Appended(recs, Rows(s, b, c)) \/ (keep > 0 /\ r[2] + keep <= c)
<1> DEFINE new == {<<s, k>> : k \in (b + 1)..c}
           all == {r \in recs : \A n \in new : n[2] # r[2]} \cup new
           Above(r) == {q \in all : q[2] > r[2]}
           v == Appended(recs, new)
           X == {s} \X (1..c)
<1>1. all \in SUBSET X
  OBVIOUS
<1>2. \A r \in X : r[2] \in 1..c /\ r[2] \in Nat /\ r = <<s, r[2]>>
  OBVIOUS
<1>3. IsFiniteSet(all)
  <2>1. IsFiniteSet(1..c) /\ Cardinality(1..c) = c - 1 + 1
    BY IntervalSize
  <2> DEFINE f == [r \in all |-> r[2]]
             T == 1..c
  <2>2. f \in [all -> T] /\ \A x, y \in all : f[x] = f[y] => x = y
    <3> HIDE DEF all
    <3> QED
      BY <1>1, <1>2
  <2> HIDE DEF f, all, T
  <2>3. IsFiniteSet(T)
    BY <2>1 DEF T
  <2> QED
    BY <2>2, <2>3, InjectionBound
<1>4. recs \cup new \in SUBSET all
  <2> SUFFICES ASSUME NEW r \in recs, NEW n \in new, n[2] = r[2] PROVE r \in new
    OBVIOUS
  <2>1. n \in X
    OBVIOUS
  <2>2. r = <<s, r[2]>> /\ n = <<s, n[2]>>
    BY <2>1, <1>2
  <2> QED
    BY <2>2
<1>5. v = {r \in all : keep = 0 \/ Cardinality(Above(r)) < keep}
  BY DEF Appended
<1>6. <<s, c>> \in new
  OBVIOUS
<1> HIDE DEF all, v, X
<1>7. ASSUME NEW r \in all
      PROVE  /\ IsFiniteSet(Above(r)) /\ Cardinality(Above(r)) \in Nat
             /\ Cardinality(Above(r)) <= c - r[2]
  <2>0. r[2] \in 1..c
    BY <1>1, <1>2
  <2> DEFINE T == (r[2] + 1)..c
             f == [q \in Above(r) |-> q[2]]
  <2>1. f \in [Above(r) -> T]
    <3> SUFFICES ASSUME NEW q \in Above(r) PROVE q[2] \in T
      OBVIOUS
    <3>1. q \in all /\ q[2] > r[2]
      OBVIOUS
    <3>2. q[2] \in 1..c
      BY <3>1, <1>1, <1>2
    <3> QED
      BY <3>1, <3>2, <2>0
  <2>2. \A x, y \in Above(r) : f[x] = f[y] => x = y
    BY <1>1, <1>2
  <2>3. IsFiniteSet(T) /\ Cardinality(T) = c - (r[2] + 1) + 1
    <3>1. r[2] + 1 \in Nat /\ r[2] + 1 <= c + 1
      BY <2>0
    <3> QED
      BY <3>1, IntervalSize
  <2> DEFINE R == Above(r)
  <2> HIDE DEF f, T, R
  <2>4. IsFiniteSet(R) /\ Cardinality(R) \in Nat /\ Cardinality(R) <= Cardinality(T)
    <3>1. f \in [R -> T] /\ \A x, y \in R : f[x] = f[y] => x = y
      BY <2>1, <2>2 DEF R
    <3> QED
      BY <3>1, <2>3, InjectionBound
  <2> QED
    BY <2>0, <2>3, <2>4 DEF R
<1>8. v \in SUBSET all /\ IsFiniteSet(v)
  <2>1. v \in SUBSET all
    BY <1>5
  <2> QED
    BY <2>1, <1>3, FS_Subset
<1>9. v \in SUBSET X
  BY <1>1, <1>8
<1>10. <<s, c>> \in v
  <2> DEFINE r == <<s, c>>
  <2>1. r \in all /\ r[2] = c
    BY <1>4, <1>6
  <2> HIDE DEF r
  <2>2. Cardinality(Above(r)) \in Nat /\ Cardinality(Above(r)) <= c - c
    <3> HIDE DEF Above
    <3> QED
      BY <1>7, <2>1
  <2>3. keep = 0 \/ Cardinality(Above(r)) < keep
    BY <2>2
  <2> QED
    BY <2>1, <2>3, <1>5 DEF r
<1>11. ASSUME keep > 0 PROVE Cardinality(v) <= keep
  <2> DEFINE T == 0..(keep - 1)
             f == [r \in v |-> Cardinality(Above(r))]
  <2>1. f \in [v -> T]
    <3> SUFFICES ASSUME NEW r \in v PROVE Cardinality(Above(r)) \in T
      OBVIOUS
    <3>1. r \in all /\ Cardinality(Above(r)) < keep
      BY <1>5, <1>11
    <3>2. Cardinality(Above(r)) \in Nat
      BY <3>1, <1>7
    <3> QED
      BY <3>1, <3>2
  <2>2. ASSUME NEW x \in v, NEW y \in v, x[2] > y[2]
        PROVE  f[x] < f[y]
    <3> DEFINE A == Above(x)
               B == Above(y)
    <3>1. x \in all /\ y \in all /\ x[2] \in Nat /\ y[2] \in Nat
      BY <1>1, <1>2, <1>8
    <3>2. \A q \in all : q[2] \in Nat
      BY <1>1, <1>2
    <3>3. A \in SUBSET B /\ x \in B \ A
      BY <2>2, <3>1, <3>2
    <3>4. IsFiniteSet(B)
      BY <3>1, <1>7
    <3> HIDE DEF A, B
    <3>5. Cardinality(A) < Cardinality(B)
      BY <3>3, <3>4, SmallerPart
    <3>6. f[x] = Cardinality(A) /\ f[y] = Cardinality(B)
      BY DEF A, B
    <3> QED
      BY <3>5, <3>6
  <2>3. \A x, y \in v : f[x] = f[y] => x = y
    <3> SUFFICES ASSUME NEW x \in v, NEW y \in v, f[x] = f[y], x # y PROVE FALSE
      OBVIOUS
    <3>1. x \in X /\ y \in X
      BY <1>9
    <3>2. x[2] \in Nat /\ y[2] \in Nat /\ x[2] # y[2]
      BY <3>1, <1>2
    <3>3. f[x] \in T /\ f[y] \in T
      BY <2>1
    <3> HIDE DEF f
    <3>4. CASE x[2] > y[2]
      BY <3>4, <2>2, <3>3
    <3>5. CASE y[2] > x[2]
      BY <3>5, <2>2, <3>3
    <3> QED
      BY <3>2, <3>4, <3>5
  <2>4. IsFiniteSet(T) /\ Cardinality(T) = keep
    <3>1. keep - 1 \in Nat /\ 0 \in Nat /\ 0 <= (keep - 1) + 1
      BY <1>11
    <3>2. IsFiniteSet(T) /\ Cardinality(T) = (keep - 1) - 0 + 1
      BY <3>1, IntervalSize
    <3> QED
      BY <3>2
  <2> HIDE DEF f, T
  <2>5. Cardinality(v) <= Cardinality(T)
    BY <2>1, <2>3, <2>4, InjectionBound
  <2> QED
    BY <2>4, <2>5
<1>12. ASSUME NEW r \in all, r \notin v PROVE keep > 0 /\ r[2] + keep <= c
  <2>1. keep # 0 /\ ~(Cardinality(Above(r)) < keep)
    BY <1>5, <1>12
  <2>2. r[2] \in 1..c
    BY <1>1, <1>2
  <2> DEFINE n == Cardinality(Above(r))
  <2>3. n \in Nat /\ n <= c - r[2]
    BY <1>7
  <2> HIDE DEF n
  <2>4. ~(n < keep)
    BY <2>1 DEF n
  <2> QED
    BY <2>1, <2>2, <2>3, <2>4
<1>13. \A r \in recs \cup new : r \in v \/ (keep > 0 /\ r[2] + keep <= c)
  BY <1>4, <1>12
<1>14. new = Rows(s, b, c)
  BY DEF Rows
<1> HIDE DEF new
<1> QED
  BY <1>8, <1>9, <1>10, <1>11, <1>13, <1>14 DEF v, X

\* The type of what Append leaves, whatever the servers.
LEMMA AppendedType ==
  ASSUME NEW recs \in SUBSET (Servers \X Nat), IsFiniteSet(recs), NEW s \in Servers,
         NEW b \in Nat, NEW c \in Nat
  PROVE  /\ Appended(recs, Rows(s, b, c)) \in SUBSET (Servers \X Nat)
         /\ IsFiniteSet(Appended(recs, Rows(s, b, c)))
<1> DEFINE new == {<<s, k>> : k \in (b + 1)..c}
           T == (b + 1)..c
           f == [k \in T |-> <<s, k>>]
           all == {r \in recs : \A n \in new : n[2] # r[2]} \cup new
<1>1. IsFiniteSet(T)
  BY FS_Interval
<1>2. new \in SUBSET (Servers \X Nat)
  OBVIOUS
<1>3. f \in Surjection(T, new)
  BY DEF Surjection
<1>4. IsFiniteSet(new)
  <2> HIDE DEF f, T, new
  <2> QED
    BY <1>1, <1>3, FS_Surjection
<1>5. IsFiniteSet(recs \cup new)
  BY <1>4, FS_Union
<1>6. Appended(recs, new) \in SUBSET (recs \cup new)
  BY DEF Appended
<1>7. new = Rows(s, b, c)
  BY DEF Rows
<1> HIDE DEF new
<1> QED
  BY <1>2, <1>5, <1>6, <1>7, FS_Subset

-------------------------------------------------------------------------------
(* Every step keeps the types *)

LEMMA TypeInit == Init => TypeOK
<1> SUFFICES ASSUME Init PROVE TypeOK
  OBVIOUS
<1>1. /\ EmptyRam \in [Hosts -> Seq(Servers \X Nat)] /\ EmptyFile \in Banked
      /\ Zero \in [Hosts -> Nat] /\ \A h \in Hosts : EmptyFile.recs[h] = {}
  BY DEF EmptyRam, EmptyFile, Nothing, Zero, Banked
<1>2. \A h \in Hosts : IsFiniteSet(EmptyFile.recs[h])
  BY <1>1, FS_EmptySet
<1>3. stream \in [Servers -> [Hosts -> Seq(Row)]]
  BY DEF Init
<1>4. keep \in Nat
  BY RemoteAssumption DEF Init
<1> QED
  BY <1>1, <1>2, <1>3, <1>4 DEF Init, TypeOK

\* What a machine without history has.
LEMMA EmptyTypes ==
  /\ EmptyRam \in [Hosts -> Seq(Servers \X Nat)] /\ Zero \in [Hosts -> Nat]
  /\ EmptyFile \in Banked /\ \A h \in Hosts : IsFiniteSet(EmptyFile.recs[h])
<1>1. \A h \in Hosts : EmptyFile.recs[h] = {}
  BY DEF EmptyFile, Nothing
<1> QED
  BY <1>1, FS_EmptySet DEF EmptyRam, EmptyFile, Nothing, Zero, Banked

\* A server's rows only grow, at the end.
LEMMA GrowIs ==
  ASSUME TypeOK, NEW s \in Servers, NEW h \in Hosts, NEW row \in {Command} \cup CommandsOn(s),
         Grow(s, h, row)
  PROVE  /\ stream' \in [Servers -> [Hosts -> Seq(Row)]]
         /\ \A t \in Servers : \A g \in Hosts :
              /\ Len(stream[t][g]) \in Nat /\ Len(stream'[t][g]) \in Nat
              /\ DOMAIN stream[t][g] = 1..Len(stream[t][g])
              /\ DOMAIN stream'[t][g] = 1..Len(stream'[t][g])
              /\ Len(stream[t][g]) <= Len(stream'[t][g])
              /\ \A k \in 1..Len(stream[t][g]) : stream'[t][g][k] = stream[t][g][k]
<1>1. row \in Row
  <2>1. \A x \in CommandsOn(s) : x \in Hosts \X Nat
    BY RemoteAssumption DEF CommandsOn
  <2> QED
    BY <2>1 DEF Row
<1>2. stream \in [Servers -> [Hosts -> Seq(Row)]]
  BY DEF TypeOK
<1>3. stream' = [stream EXCEPT ![s][h] = Append(@, row)]
  BY DEF Grow
<1> HIDE DEF Row
<1>4. stream[s][h] \in Seq(Row) /\ Append(stream[s][h], row) \in Seq(Row)
  BY <1>1, <1>2
<1>5. stream' \in [Servers -> [Hosts -> Seq(Row)]]
  BY <1>2, <1>3, <1>4
<1>6. ASSUME NEW t \in Servers, NEW g \in Hosts
      PROVE  /\ Len(stream[t][g]) \in Nat /\ Len(stream'[t][g]) \in Nat
             /\ DOMAIN stream[t][g] = 1..Len(stream[t][g])
             /\ DOMAIN stream'[t][g] = 1..Len(stream'[t][g])
             /\ Len(stream[t][g]) <= Len(stream'[t][g])
             /\ \A k \in 1..Len(stream[t][g]) : stream'[t][g][k] = stream[t][g][k]
  <2>1. stream[t][g] \in Seq(Row)
    BY <1>2
  <2>2. stream'[t][g] = IF t = s /\ g = h THEN Append(stream[t][g], row) ELSE stream[t][g]
    BY <1>2, <1>3
  <2>3. CASE t = s /\ g = h
    BY <2>1, <2>2, <2>3, <1>1
  <2>4. CASE ~(t = s /\ g = h)
    BY <2>1, <2>2, <2>4
  <2> QED
    BY <2>3, <2>4
<1> QED
  BY <1>5, <1>6

\* The rows that a pull brings.
LEMMA FreshIs ==
  ASSUME TypeOK, csy \in Servers
  PROVE  \A h \in Hosts :
           /\ Fresh(h) = {<<csy, k>> : k \in (base[h] + 1)..next[h]}
           /\ base[h] \in Nat /\ next[h] \in Nat
           /\ Fresh(h) \in SUBSET ({csy} \X Nat) /\ Fresh(h) \in SUBSET (Servers \X Nat)
           /\ IsFiniteSet(Fresh(h))
           /\ \A r \in Fresh(h) : r[1] = csy /\ r[2] \in (base[h] + 1)..next[h]
           /\ \A k \in (base[h] + 1)..next[h] : <<csy, k>> \in Fresh(h)
<1> TAKE h \in Hosts
<1> DEFINE T == (base[h] + 1)..next[h]
           f == [k \in T |-> <<csy, k>>]
           F == Fresh(h)
<1>1. base[h] \in Nat /\ next[h] \in Nat
  BY DEF TypeOK
<1>2. F = {<<csy, k>> : k \in T}
  BY DEF Fresh
<1>3. F \in SUBSET ({csy} \X Nat) /\ F \in SUBSET (Servers \X Nat)
  BY <1>1, <1>2
<1>4. f \in Surjection(T, F)
  BY <1>2 DEF Surjection
<1>5. IsFiniteSet(T)
  <2>1. base[h] + 1 \in Int /\ next[h] \in Int
    BY <1>1
  <2> QED
    BY <2>1, FS_Interval
<1>6. IsFiniteSet(F)
  <2> HIDE DEF f, T, F
  <2> QED
    BY <1>4, <1>5, FS_Surjection
<1> QED
  BY <1>1, <1>2, <1>3, <1>6

LEMMA TypeStep == TypeOK /\ StandingInv /\ [Next]_vars => TypeOK'
<1> SUFFICES ASSUME TypeOK, StandingInv, [Next]_vars PROVE TypeOK'
  OBVIOUS
<1>e. /\ EmptyRam \in [Hosts -> Seq(Servers \X Nat)] /\ Zero \in [Hosts -> Nat]
      /\ EmptyFile \in Banked /\ \A h \in Hosts : IsFiniteSet(EmptyFile.recs[h])
  BY EmptyTypes
<1>1. ASSUME NEW s \in Servers, NEW h \in Hosts, NEW row \in {Command} \cup CommandsOn(s),
             Grow(s, h, row)
      PROVE  TypeOK'
  <2>1. stream' \in [Servers -> [Hosts -> Seq(Row)]]
    BY <1>1, GrowIs
  <2>2. UNCHANGED <<keep, up, sy, cache, standing, rs, disk, cycle, ghosts>>
    BY <1>1 DEF Grow
  <2> QED
    BY <2>1, <2>2 DEF TypeOK, cache, standing, cycle, local, ghosts
<1>2. ASSUME NEW s, ChangeStanding(s) PROVE TypeOK'
  BY <1>2 DEF TypeOK, ChangeStanding, cache, standing, cycle, local, ghosts
<1>3. ASSUME NEW s \in Servers \cup {Off}, Start(s) PROVE TypeOK'
  <2>1. disk' \in {EmptyFile, disk} /\ rs' \in BOOLEAN /\ mixed' \in BOOLEAN
    BY <1>3 DEF Start
  <2>2. disk' \in Banked /\ \A h \in Hosts : IsFiniteSet(disk'.recs[h])
    BY <2>1, <1>e DEF TypeOK
  <2>3. /\ up' = TRUE /\ sy' = s
        /\ UNCHANGED <<keep, stream, cache, standing, cycle>>
    BY <1>3 DEF Start
  <2> QED
    BY <2>1, <2>2, <2>3 DEF TypeOK, cache, standing, cycle, local
<1>4. CASE Crash
  BY <1>4, <1>e DEF TypeOK, Crash, NoCycle
<1>5. ASSUME NEW s \in Servers \cup {Off}, Attach(s) PROVE TypeOK'
  <2>1. disk' \in {EmptyFile, disk} /\ rs' \in BOOLEAN /\ mixed' \in BOOLEAN
    <3>1. rs' \in {rs, rs \/ s # Off} /\ mixed' = (pc # "idle" \/ (mixed /\ disk' # EmptyFile))
      BY <1>5 DEF Attach
    <3>2. disk' \in {disk, IF rs THEN EmptyFile ELSE disk}
      BY <1>5 DEF Attach
    <3>3. rs' \in BOOLEAN /\ mixed' \in BOOLEAN
      BY <3>1 DEF TypeOK
    <3> QED
      BY <3>2, <3>3
  <2>2. disk' \in Banked /\ \A h \in Hosts : IsFiniteSet(disk'.recs[h])
    BY <2>1, <1>e DEF TypeOK
  <2>3. /\ sy' = s /\ ram' = EmptyRam /\ cursors' = Zero /\ hydrated' = FALSE
        /\ latch' = FALSE /\ meta' = FALSE
        /\ UNCHANGED <<keep, stream, up, cycle>>
    BY <1>5 DEF Attach
  <2> QED
    BY <2>1, <2>2, <2>3, <1>e DEF TypeOK, cycle, local
<1>6. CASE Reattach
  BY <1>6 DEF TypeOK, Reattach, cache, standing, cycle, local, ghosts
<1>7. ASSUME NEW r, Begin(r) PROVE TypeOK'
  <2>1. csy' = sy /\ sy \in Servers /\ up
    BY <1>7 DEF TypeOK, Begin
  <2> QED
    BY <2>1, <1>7 DEF TypeOK, Begin, cache, standing, local, ghosts
<1>8. CASE HydrateNone
  BY <1>8 DEF TypeOK, HydrateNone, standing, local, ghosts
<1>9. CASE HydrateRead
  BY <1>9 DEF TypeOK, HydrateRead, cache, standing, ghosts
<1>10. CASE HydrateFold
  <2>1. ram' = Folded(kept.recs) /\ cursors' = kept.cur /\ pc = "open"
    BY <1>10 DEF HydrateFold
  <2>2. cursors' \in [Hosts -> Nat] /\ csy \in Servers
    BY <2>1 DEF TypeOK, Banked
  <2>3. ASSUME NEW h \in Hosts PROVE Folded(kept.recs)[h] \in Seq(Servers \X Nat)
    <3>1. kept.recs[h] \in SUBSET (Servers \X Nat) /\ IsFiniteSet(kept.recs[h])
      BY DEF TypeOK, Banked
    <3>2. ram[h] \in Seq(Servers \X Nat) /\ keep \in Nat
      BY DEF TypeOK
    <3> QED
      BY <2>2, <3>1, <3>2, FoldedType
  <2>4. ram' \in [Hosts -> Seq(Servers \X Nat)]
    <3>1. ram' = [h \in Hosts |-> Folded(kept.recs)[h]]
      BY <2>1 DEF Folded
    <3> QED
      BY <2>3, <3>1
  <2>5. /\ hydrated' = TRUE /\ kept' = EmptyFile /\ pc' = "list"
        /\ UNCHANGED <<keep, stream, up, sy, standing, rs, disk, csy, base, next, todo, mixed>>
    BY <1>10 DEF HydrateFold
  <2> QED
    BY <2>1, <2>2, <2>4, <2>5, <1>e DEF TypeOK, standing
<1>11. CASE HydrateDrop
  BY <1>11, <1>e DEF TypeOK, HydrateDrop, standing
<1>12. CASE ListHosts
  BY <1>12 DEF TypeOK, ListHosts, cache, standing, ghosts
<1>13. CASE PullHost
  <2>1. PICK h : /\ next' = [next EXCEPT ![h] = Reached(h)] /\ todo' = todo \ {h}
    BY <1>13 DEF PullHost
  <2>2. csy \in Servers /\ pc = "pull" /\ pc' = "pull"
    BY <1>13 DEF PullHost, TypeOK
  <2>3. h \in Hosts => Reached(h) \in Nat
    <3> SUFFICES ASSUME h \in Hosts PROVE Reached(h) \in Nat
      OBVIOUS
    <3>1. stream[csy][h] \in Seq(Row) /\ next[h] \in Nat
      BY <2>2 DEF TypeOK
    <3>2. Len(stream[csy][h]) \in Nat
      BY <3>1
    <3> QED
      BY <3>1, <3>2 DEF Reached
  <2>4. next' \in [Hosts -> Nat]
    BY <2>1, <2>3 DEF TypeOK
  <2>5. UNCHANGED <<keep, stream, up, sy, cache, standing, rs, disk, csy, kept, base, ghosts>>
    BY <1>13 DEF PullHost
  <2> QED
    BY <2>1, <2>2, <2>4, <2>5 DEF TypeOK, cache, standing, ghosts
<1>14. CASE PullDone
  BY <1>14 DEF TypeOK, PullDone, cache, standing, ghosts
<1>15. ASSUME NEW h \in Hosts, NEW ok \in BOOLEAN, BankHost(h, ok) PROVE TypeOK'
  <2>1. csy \in Servers /\ pc = "bank" /\ pc' = "bank"
    BY <1>15 DEF BankHost, TypeOK
  <2>2. /\ disk' = IF ok THEN [recs |-> [disk.recs EXCEPT ![h] = Appended(disk.recs[h], Fresh(h))],
                               cur |-> [disk.cur EXCEPT ![h] = next[h]]]
                         ELSE disk
        /\ mixed' \in BOOLEAN /\ todo' = todo \ {h}
        /\ UNCHANGED <<keep, stream, up, sy, cache, standing, rs, csy, kept, base, next>>
    BY <1>15 DEF BankHost
  <2>3. /\ Appended(disk.recs[h], Fresh(h)) \in SUBSET (Servers \X Nat)
        /\ IsFiniteSet(Appended(disk.recs[h], Fresh(h)))
    <3>1. disk.recs[h] \in SUBSET (Servers \X Nat) /\ IsFiniteSet(disk.recs[h])
      BY DEF TypeOK, Banked
    <3>2. base[h] \in Nat /\ next[h] \in Nat
      BY DEF TypeOK
    <3>3. Fresh(h) = Rows(csy, base[h], next[h])
      BY DEF Fresh, Rows
    <3> QED
      BY <2>1, <3>1, <3>2, <3>3, AppendedType
  <2>4. disk' \in Banked /\ \A g \in Hosts : IsFiniteSet(disk'.recs[g])
    <3>1. CASE ~ok
      BY <3>1, <2>2 DEF TypeOK
    <3>2. CASE ok
      <4>1. disk.recs \in [Hosts -> SUBSET (Servers \X Nat)] /\ disk.cur \in [Hosts -> Nat]
        BY DEF TypeOK, Banked
      <4>2. next[h] \in Nat /\ \A g \in Hosts : IsFiniteSet(disk.recs[g])
        BY DEF TypeOK
      <4> DEFINE S == Servers \X Nat
                 v == Appended(disk.recs[h], Fresh(h))
      <4>3. /\ disk'.recs = [disk.recs EXCEPT ![h] = v] /\ disk'.cur = [disk.cur EXCEPT ![h] = next[h]]
            /\ disk' = [recs |-> disk'.recs, cur |-> disk'.cur]
        BY <2>2, <3>2
      <4> HIDE DEF S, v
      <4>4. v \in SUBSET S /\ IsFiniteSet(v) /\ disk.recs \in [Hosts -> SUBSET S]
        BY <2>3, <4>1 DEF S, v
      <4>5. disk'.recs \in [Hosts -> SUBSET S] /\ disk'.cur \in [Hosts -> Nat]
        BY <4>1, <4>2, <4>3, <4>4
      <4>6. \A g \in Hosts : IsFiniteSet(disk'.recs[g])
        BY <4>2, <4>3, <4>4
      <4> QED
        BY <4>3, <4>5, <4>6 DEF Banked, S
    <3> QED
      BY <3>1, <3>2
  <2> QED
    BY <2>1, <2>2, <2>4 DEF TypeOK, cache, standing
<1>16. CASE FoldPulled
  <2>1. csy \in Servers /\ keep \in Nat
    BY <1>16 DEF FoldPulled, TypeOK
  <2> DEFINE fresh == [h \in Hosts |-> Fresh(h)]
  <2>2. ram' = [h \in Hosts |-> Pruned(Folded(fresh)[h])]
    BY <1>16 DEF FoldPulled
  <2>3. ASSUME NEW h \in Hosts PROVE Pruned(Folded(fresh)[h]) \in Seq(Servers \X Nat)
    <3>1. fresh[h] \in SUBSET (Servers \X Nat) /\ IsFiniteSet(fresh[h])
      BY <2>1, FreshIs
    <3>2. ram[h] \in Seq(Servers \X Nat)
      BY DEF TypeOK
    <3> HIDE DEF fresh
    <3> QED
      BY <2>1, <3>1, <3>2, FoldedType
  <2>4. ram' \in [Hosts -> Seq(Servers \X Nat)]
    <3> HIDE DEF fresh
    <3> QED
      BY <2>2, <2>3
  <2>5. /\ cursors' = next /\ meta' = FALSE /\ NoCycle
        /\ UNCHANGED <<keep, stream, up, sy, hydrated, latch, rs, disk, mixed>>
    BY <1>16 DEF FoldPulled
  <2> QED
    BY <2>4, <2>5, <1>e DEF TypeOK, NoCycle
<1>17. CASE GiveUp
  BY <1>17, <1>e DEF TypeOK, GiveUp, NoCycle, cache, standing, ghosts
<1>18. CASE Refused
  BY <1>18 DEF TypeOK, Refused, cache, local, ghosts
<1>19. CASE Purge
  BY <1>19, <1>e DEF TypeOK, Purge, NoCycle
<1>20. CASE UNCHANGED vars
  BY <1>20 DEF TypeOK, vars, cache, standing, cycle, local, ghosts
<1> QED
  BY <1>1, <1>2, <1>3, <1>4, <1>5, <1>6, <1>7, <1>8, <1>9, <1>10, <1>11, <1>12, <1>13,
     <1>14, <1>15, <1>16, <1>17, <1>18, <1>19, <1>20 DEF Next, SyncOnce

-------------------------------------------------------------------------------
(* Which steps change what searches see *)

Content == <<keep, stream, up, sy, ram, cursors, latch, disk, mixed, gap, early>>

LEMMA ContentSteps ==
  ASSUME [Next]_vars
  PROVE  \/ UNCHANGED Content
         \/ \E s \in Servers, h \in Hosts : \E row \in {Command} \cup CommandsOn(s) : Grow(s, h, row)
         \/ \E s \in Servers \cup {Off} : Start(s) \/ Attach(s)
         \/ Crash \/ HydrateFold \/ HydrateDrop \/ FoldPulled \/ Purge
         \/ \E h \in Hosts, ok \in BOOLEAN : BankHost(h, ok)
<1> USE DEF Content
<1>1. ASSUME NEW s, ChangeStanding(s) PROVE UNCHANGED Content
  BY <1>1 DEF ChangeStanding, cache, standing, ghosts
<1>2. ASSUME Reattach PROVE UNCHANGED Content
  BY <1>2 DEF Reattach, cache, standing, ghosts
<1>3. ASSUME NEW r, Begin(r) PROVE UNCHANGED Content
  BY <1>3 DEF Begin, cache, standing, ghosts
<1>4. ASSUME HydrateNone PROVE UNCHANGED Content
  BY <1>4 DEF HydrateNone, standing, ghosts
<1>5. ASSUME HydrateRead PROVE UNCHANGED Content
  BY <1>5 DEF HydrateRead, cache, standing, ghosts
<1>6. ASSUME ListHosts PROVE UNCHANGED Content
  BY <1>6 DEF ListHosts, cache, standing, ghosts
<1>7. ASSUME PullHost PROVE UNCHANGED Content
  BY <1>7 DEF PullHost, cache, standing, ghosts
<1>8. ASSUME PullDone PROVE UNCHANGED Content
  BY <1>8 DEF PullDone, cache, standing, ghosts
<1>9. ASSUME GiveUp PROVE UNCHANGED Content
  BY <1>9 DEF GiveUp, cache, standing, ghosts
<1>10. ASSUME Refused PROVE UNCHANGED Content
  BY <1>10 DEF Refused, cache, ghosts
<1>11. ASSUME UNCHANGED vars PROVE UNCHANGED Content
  BY <1>11 DEF vars
<1> QED
  BY <1>1, <1>2, <1>3, <1>4, <1>5, <1>6, <1>7, <1>8, <1>9, <1>10, <1>11 DEF Next, SyncOnce

LEMMA WarmStep == TypeOK /\ StandingInv /\ Warm /\ [Next]_vars => Warm'
<1> SUFFICES ASSUME TypeOK, StandingInv, Warm, [Next]_vars PROVE Warm'
  OBVIOUS
<1> USE DEF Warm
<1>0. /\ mixed \in BOOLEAN /\ up \in BOOLEAN /\ hydrated \in BOOLEAN
      /\ ~up => pc = "idle"
      /\ pc # "idle" => up
  BY DEF TypeOK, StandingInv
<1>1. ASSUME NEW s, NEW h, NEW row, Grow(s, h, row) PROVE Warm'
  BY <1>1 DEF Grow, cache, standing, cycle, local, ghosts
<1>2. ASSUME NEW s, ChangeStanding(s) PROVE Warm'
  BY <1>2 DEF ChangeStanding, cache, standing, cycle, local, ghosts
<1>3. ASSUME NEW s, Start(s) PROVE Warm'
  <2>1. ~up /\ up' /\ UNCHANGED <<cache, cycle>>
    BY <1>3 DEF Start
  <2> QED
    BY <2>1, <1>0 DEF cache, cycle
<1>4. CASE Crash
  BY <1>4 DEF Crash, NoCycle
<1>5. ASSUME NEW s, Attach(s) PROVE Warm'
  <2>1. /\ up /\ up' /\ ram' = EmptyRam /\ cursors' = Zero /\ ~hydrated'
        /\ UNCHANGED cycle
        /\ mixed' = (pc # "idle" \/ (mixed /\ disk' # EmptyFile))
    BY <1>5 DEF Attach, LoopIsFree
  <2> QED
    BY <2>1 DEF cycle
<1>6. CASE Reattach
  BY <1>6 DEF Reattach, cache, standing, cycle, local, ghosts
<1>7. ASSUME NEW r, Begin(r) PROVE Warm'
  BY <1>7 DEF Begin, cache, standing, local, ghosts
<1>8. CASE HydrateNone
  BY <1>8, <1>0 DEF HydrateNone, standing, local, ghosts
<1>9. CASE HydrateRead
  BY <1>9, <1>0 DEF HydrateRead, cache, standing, ghosts
<1>10. CASE HydrateFold
  BY <1>10, <1>0 DEF HydrateFold, standing
<1>11. CASE HydrateDrop
  BY <1>11, <1>0 DEF HydrateDrop, standing
<1>12. CASE ListHosts
  BY <1>12, <1>0 DEF ListHosts, cache, standing, ghosts
<1>13. CASE PullHost
  BY <1>13, <1>0 DEF PullHost, cache, standing, ghosts
<1>14. CASE PullDone
  BY <1>14, <1>0 DEF PullDone, cache, standing, ghosts
<1>15. ASSUME NEW h, NEW ok, BankHost(h, ok) PROVE Warm'
  <2>1. pc = "bank" /\ pc' = "bank" /\ UNCHANGED <<up, sy, cache, csy>> /\ (mixed => mixed')
    BY <1>15 DEF BankHost
  <2> QED
    BY <2>1, <1>0 DEF cache
<1>16. CASE FoldPulled
  <2>1. pc = "bank" /\ pc' = "idle" /\ UNCHANGED <<up, hydrated, mixed>>
    BY <1>16 DEF FoldPulled, NoCycle
  <2> QED
    BY <2>1, <1>0
<1>17. CASE GiveUp
  BY <1>17 DEF GiveUp, NoCycle, cache, standing, ghosts
<1>18. CASE Refused
  BY <1>18, <1>0 DEF Refused, cache, local, ghosts
<1>19. CASE Purge
  BY <1>19, <1>0 DEF Purge, NoCycle
<1>20. CASE UNCHANGED vars
  BY <1>20 DEF vars, cache, standing, cycle, local, ghosts
<1> QED
  BY <1>1, <1>2, <1>3, <1>4, <1>5, <1>6, <1>7, <1>8, <1>9, <1>10, <1>11, <1>12, <1>13,
     <1>14, <1>15, <1>16, <1>17, <1>18, <1>19, <1>20 DEF Next, SyncOnce

-------------------------------------------------------------------------------
(* What remote.db holds *)

\* A file without records is as good as any.
LEMMA EmptyStaysGood ==
  ASSUME TypeOK', disk' = EmptyFile
  PROVE  DiskOK'
<1> SUFFICES ASSUME NEW s \in Servers, NEW h \in Hosts
             PROVE  /\ disk'.cur[h] <= Len(stream'[s][h])
                    /\ \A r \in disk'.recs[h] : r[2] \in 1..disk'.cur[h]
                    /\ disk'.cur[h] > 0 => <<s, disk'.cur[h]>> \in disk'.recs[h]
                    /\ keep' > 0 => Cardinality(disk'.recs[h]) <= keep'
                    /\ \A k \in 1..disk'.cur[h] :
                         \/ <<s, k>> \in disk'.recs[h]
                         \/ <<s, <<h, k>>>> \in gap'
                         \/ keep' > 0 /\ k + keep' <= disk'.cur[h]
  BY DEF DiskOK, FileGood
<1>1. disk'.recs[h] = {} /\ disk'.cur[h] = 0
  BY DEF EmptyFile, Nothing, Zero
<1>2. Cardinality({}) = 0
  BY FS_EmptySet
<1>3. Len(stream'[s][h]) \in Nat /\ keep' \in Nat
  <2>1. stream'[s][h] \in Seq(Row) /\ keep' \in Nat
    BY DEF TypeOK, Row
  <2> QED
    BY <2>1
<1> QED
  BY <1>1, <1>2, <1>3

\* While the gaps only grow, more rows of a server, or a mixed file, change nothing.
LEMMA DiskKept ==
  ASSUME TypeOK, DiskOK, mixed' \in BOOLEAN, mixed => mixed', UNCHANGED <<keep, disk>>,
         gap \in SUBSET gap',
         \A s \in Servers : \A h \in Hosts :
           Len(stream[s][h]) \in Nat /\ Len(stream'[s][h]) \in Nat
           /\ Len(stream[s][h]) <= Len(stream'[s][h])
  PROVE  DiskOK'
<1> SUFFICES ASSUME ~mixed', NEW s \in Servers, FileFrom(s, disk)', NEW h \in Hosts
             PROVE  /\ disk.cur[h] <= Len(stream'[s][h])
                    /\ \A r \in disk.recs[h] : r[2] \in 1..disk.cur[h]
                    /\ disk.cur[h] > 0 => <<s, disk.cur[h]>> \in disk.recs[h]
                    /\ keep > 0 => Cardinality(disk.recs[h]) <= keep
                    /\ \A k \in 1..disk.cur[h] :
                         \/ <<s, k>> \in disk.recs[h]
                         \/ <<s, <<h, k>>>> \in gap'
                         \/ keep > 0 /\ k + keep <= disk.cur[h]
  BY DEF DiskOK, FileGood
<1>1. ~mixed /\ FileFrom(s, disk)
  BY DEF FileFrom, TypeOK
<1>2. FileGood(s, disk)
  BY <1>1 DEF DiskOK
<1>3. disk.cur[h] \in Nat
  BY DEF TypeOK, Banked
<1>4. disk.cur[h] <= Len(stream[s][h])
  BY <1>2 DEF FileGood
<1>5. disk.cur[h] <= Len(stream'[s][h])
  BY <1>3, <1>4
<1> QED
  BY <1>2, <1>5 DEF FileGood

\* How long a server's streams are.
LEMMA Lengths ==
  ASSUME TypeOK
  PROVE  \A s \in Servers : \A h \in Hosts :
           /\ Len(stream[s][h]) \in Nat /\ DOMAIN stream[s][h] = 1..Len(stream[s][h])
           /\ \A k \in 1..Len(stream[s][h]) : stream[s][h][k] \in Row
<1> TAKE s \in Servers
<1> TAKE h \in Hosts
<1>1. stream[s][h] \in Seq(Row)
  BY DEF TypeOK
<1> HIDE DEF Row
<1> QED
  BY <1>1


\* What a write of one host's pulled rows leaves, into a file of the cycle's server.
LEMMA BankedIs ==
  ASSUME TypeOK, DiskOK, PullOK, NEW h \in Hosts, NEW ok \in BOOLEAN, BankHost(h, ok), ~mixed'
  PROVE  /\ ~mixed /\ csy \in Servers /\ pc = "bank" /\ h \in todo
         /\ UNCHANGED <<keep, stream, up, sy, csy, ram, cursors, latch, base, next, early>>
         /\ ~ok => UNCHANGED <<disk, gap>>
         /\ ok => /\ FileFrom(csy, disk) /\ FileGood(csy, disk) /\ FileFrom(csy, disk)'
                  /\ \A g \in Hosts : g # h =>
                       disk'.cur[g] = disk.cur[g] /\ disk'.recs[g] = disk.recs[g]
                  /\ disk'.cur[h] = next[h]
                  /\ disk'.recs[h] \in SUBSET ({csy} \X (1..next[h]))
                  /\ disk'.recs[h] \in SUBSET (disk.recs[h] \cup Fresh(h))
                  /\ <<csy, next[h]>> \in disk'.recs[h]
                  /\ keep > 0 => Cardinality(disk'.recs[h]) <= keep
                  /\ \A r \in disk.recs[h] \cup Fresh(h) :
                       r \in disk'.recs[h] \/ (keep > 0 /\ r[2] + keep <= next[h])
                  /\ gap' = gap \cup {<<csy, <<h, k>>>> : k \in (disk.cur[h] + 1)..base[h]}
<1>1. csy \in Servers /\ pc = "bank" /\ h \in todo
  BY DEF BankHost, TypeOK
<1>2. /\ ~mixed
      /\ ok => ~\E g \in Hosts : \E r \in disk.recs[g] : r[1] # csy
      /\ UNCHANGED <<keep, stream, up, sy, csy, ram, cursors, latch, base, next, early>>
      /\ ~ok => UNCHANGED <<disk, gap>>
      /\ ok => gap' = gap \cup {<<csy, <<h, k>>>> : k \in (disk.cur[h] + 1)..base[h]}
  BY DEF BankHost, cache, standing
<1>3. ASSUME ok
      PROVE  /\ disk'.recs = [disk.recs EXCEPT ![h] = Appended(disk.recs[h], Fresh(h))]
             /\ disk'.cur = [disk.cur EXCEPT ![h] = next[h]]
  BY <1>3 DEF BankHost
<1> SUFFICES ASSUME ok
             PROVE  /\ FileFrom(csy, disk) /\ FileGood(csy, disk) /\ FileFrom(csy, disk)'
                    /\ \A g \in Hosts : g # h =>
                         disk'.cur[g] = disk.cur[g] /\ disk'.recs[g] = disk.recs[g]
                    /\ disk'.cur[h] = next[h]
                    /\ disk'.recs[h] \in SUBSET ({csy} \X (1..next[h]))
                    /\ disk'.recs[h] \in SUBSET (disk.recs[h] \cup Fresh(h))
                    /\ <<csy, next[h]>> \in disk'.recs[h]
                    /\ keep > 0 => Cardinality(disk'.recs[h]) <= keep
                    /\ \A r \in disk.recs[h] \cup Fresh(h) :
                         r \in disk'.recs[h] \/ (keep > 0 /\ r[2] + keep <= next[h])
  BY <1>1, <1>2
<1>4. FileFrom(csy, disk)
  BY <1>2 DEF FileFrom
<1>5. FileGood(csy, disk)
  BY <1>1, <1>2, <1>4 DEF DiskOK
<1>6. /\ disk.recs \in [Hosts -> SUBSET (Servers \X Nat)] /\ disk.cur \in [Hosts -> Nat]
      /\ IsFiniteSet(disk.recs[h]) /\ keep \in Nat /\ base[h] \in Nat /\ next[h] \in Nat
  BY DEF TypeOK, Banked
<1>7. base[h] < next[h] /\ disk.cur[h] <= next[h]
  <2>1. next[h] > base[h] /\ (next[h] > base[h] /\ FileFrom(csy, disk) => disk.cur[h] <= next[h])
    BY <1>1, <1>2 DEF PullOK
  <2> QED
    BY <2>1, <1>4, <1>6
<1>8. disk.recs[h] \in SUBSET ({csy} \X (1..next[h]))
  <2> SUFFICES ASSUME NEW r \in disk.recs[h] PROVE r \in {csy} \X (1..next[h])
    OBVIOUS
  <2>1. r \in Servers \X Nat /\ r[1] = csy /\ r[2] \in 1..disk.cur[h] /\ disk.cur[h] \in Nat
    BY <1>4, <1>5, <1>6 DEF FileFrom, FileGood
  <2>2. r[2] \in 1..next[h]
    BY <2>1, <1>6, <1>7
  <2> QED
    BY <2>1, <2>2
<1> DEFINE v == Appended(disk.recs[h], Fresh(h))
<1>9. Fresh(h) = Rows(csy, base[h], next[h])
  BY DEF Fresh, Rows
<1>10. /\ v \in SUBSET ({csy} \X (1..next[h]))
       /\ <<csy, next[h]>> \in v
       /\ keep > 0 => Cardinality(v) <= keep
       /\ \A r \in disk.recs[h] \cup Fresh(h) : r \in v \/ (keep > 0 /\ r[2] + keep <= next[h])
  BY <1>6, <1>7, <1>8, <1>9, AppendedIs
<1>11. v \in SUBSET (disk.recs[h] \cup Fresh(h))
  BY DEF Appended
<1> HIDE DEF v
<1>12. disk'.recs[h] = v /\ disk'.cur[h] = next[h]
  BY <1>3, <1>6 DEF v
<1>13. \A g \in Hosts : g # h => disk'.cur[g] = disk.cur[g] /\ disk'.recs[g] = disk.recs[g]
  BY <1>3, <1>6
<1>14. FileFrom(csy, disk)'
  <2> SUFFICES ASSUME NEW g \in Hosts, NEW r \in disk'.recs[g] PROVE r[1] = csy
    BY <1>2 DEF FileFrom
  <2>1. CASE g # h
    BY <2>1, <1>4, <1>13 DEF FileFrom
  <2>2. CASE g = h
    BY <2>2, <1>10, <1>12
  <2> QED
    BY <2>1, <2>2
<1> QED
  BY <1>4, <1>5, <1>10, <1>11, <1>12, <1>13, <1>14

LEMMA DiskStep ==
  ASSUME TypeOK, StandingInv, Warm, DiskOK, PullOK, [Next]_vars
  PROVE  DiskOK'
<1>0. TypeOK'
  BY TypeStep
<1>1. /\ mixed \in BOOLEAN /\ mixed' \in BOOLEAN
      /\ \A s \in Servers : \A h \in Hosts : Len(stream[s][h]) \in Nat
  <2>1. \A s \in Servers : \A h \in Hosts : Len(stream[s][h]) \in Nat
    BY Lengths
  <2> QED
    BY <2>1, <1>0 DEF TypeOK
<1>2. ASSUME disk' = EmptyFile PROVE DiskOK'
  BY <1>0, <1>2, EmptyStaysGood
<1>3. CASE UNCHANGED Content
  <2>1. UNCHANGED <<keep, disk, stream, mixed, gap>>
    BY <1>3 DEF Content
  <2> QED
    BY <2>1, <1>1, DiskKept
<1>4. ASSUME NEW s \in Servers, NEW h \in Hosts, NEW row \in {Command} \cup CommandsOn(s),
             Grow(s, h, row)
      PROVE  DiskOK'
  <2>1. UNCHANGED <<keep, disk, mixed, gap>>
    BY <1>4 DEF Grow, ghosts
  <2>2. \A t \in Servers : \A g \in Hosts :
          Len(stream[t][g]) \in Nat /\ Len(stream'[t][g]) \in Nat
          /\ Len(stream[t][g]) <= Len(stream'[t][g])
    BY <1>4, GrowIs
  <2> QED
    BY <2>1, <2>2, <1>1, DiskKept
<1>5. ASSUME NEW s, Start(s) \/ Attach(s) PROVE DiskOK'
  <2>1. /\ disk' \in {EmptyFile, disk}
        /\ disk' # EmptyFile => gap' = gap
        /\ UNCHANGED <<keep, stream>>
        /\ disk' # EmptyFile => (mixed => mixed')
    <3>1. CASE Start(s)
      BY <3>1 DEF Start
    <3>2. CASE Attach(s)
      <4>1. disk' \in {disk, IF rs THEN EmptyFile ELSE disk}
        BY <3>2 DEF Attach
      <4>2. /\ gap' = IF disk' = EmptyFile THEN {} ELSE gap
            /\ mixed' = (pc # "idle" \/ (mixed /\ disk' # EmptyFile))
            /\ UNCHANGED <<keep, stream>>
        BY <3>2 DEF Attach
      <4> QED
        BY <4>1, <4>2
    <3> QED
      BY <3>1, <3>2, <1>5
  <2>2. CASE disk' = EmptyFile
    BY <2>2, <1>2
  <2>3. CASE disk' # EmptyFile
    <3>1. UNCHANGED <<keep, disk, stream, gap>> /\ (mixed => mixed')
      BY <2>1, <2>3
    <3> QED
      BY <3>1, <1>1, DiskKept
  <2> QED
    BY <2>2, <2>3
<1>6. CASE Crash \/ HydrateFold \/ FoldPulled
  <2>1. UNCHANGED <<keep, disk, stream, mixed, gap>>
    BY <1>6 DEF Crash, HydrateFold, FoldPulled
  <2> QED
    BY <2>1, <1>1, DiskKept
<1>7. CASE HydrateDrop \/ Purge
  BY <1>7, <1>2 DEF HydrateDrop, Purge
<1>8. ASSUME NEW h \in Hosts, NEW ok \in BOOLEAN, BankHost(h, ok) PROVE DiskOK'
  <2> SUFFICES ASSUME ~mixed', NEW s \in Servers, FileFrom(s, disk)' PROVE FileGood(s, disk)'
    BY DEF DiskOK
  <2> DEFINE Facts == /\ ~mixed /\ csy \in Servers /\ pc = "bank" /\ h \in todo
                      /\ UNCHANGED <<keep, stream, csy, base, next>>
                      /\ ~ok => UNCHANGED <<disk, gap>>
  <2>1. Facts
    BY <1>8, BankedIs
  <2>2. CASE ~ok
    <3>1. DiskOK'
      BY <2>1, <2>2, <1>1, DiskKept
    <3> QED
      BY <3>1 DEF DiskOK
  <2>3. CASE ok
    <3>1. /\ FileFrom(csy, disk) /\ FileGood(csy, disk)
          /\ \A g \in Hosts : g # h =>
               disk'.cur[g] = disk.cur[g] /\ disk'.recs[g] = disk.recs[g]
          /\ disk'.cur[h] = next[h]
      BY <1>8, <2>3, BankedIs
    <3>2. /\ disk'.recs[h] \in SUBSET ({csy} \X (1..next[h]))
          /\ <<csy, next[h]>> \in disk'.recs[h]
          /\ keep > 0 => Cardinality(disk'.recs[h]) <= keep
      BY <1>8, <2>3, BankedIs
    <3>3. /\ \A r \in disk.recs[h] \cup Fresh(h) :
               r \in disk'.recs[h] \/ (keep > 0 /\ r[2] + keep <= next[h])
          /\ gap' = gap \cup {<<csy, <<h, k>>>> : k \in (disk.cur[h] + 1)..base[h]}
      BY <1>8, <2>3, BankedIs
    <3>4. s = csy
      BY <3>2 DEF FileFrom
    <3>5. /\ base[h] \in Nat /\ next[h] \in Nat /\ next[h] <= Len(stream[csy][h])
          /\ base[h] < next[h] /\ disk.cur[h] <= next[h]
          /\ keep \in Nat /\ \A g \in Hosts : disk.cur[g] \in Nat
      <4>1. base[h] \in Nat /\ next[h] \in Nat /\ keep \in Nat /\ \A g \in Hosts : disk.cur[g] \in Nat
        BY DEF TypeOK, Banked
      <4>2. /\ next[h] <= Len(stream[csy][h]) /\ next[h] > base[h]
            /\ (next[h] > base[h] /\ FileFrom(csy, disk) => disk.cur[h] <= next[h])
        BY <2>1 DEF PullOK
      <4> QED
        BY <4>1, <4>2, <3>1
    <3>6. ASSUME NEW k \in 1..next[h]
          PROVE  \/ <<csy, k>> \in disk'.recs[h] \/ <<csy, <<h, k>>>> \in gap'
                 \/ keep > 0 /\ k + keep <= next[h]
      <4>0. k \in Nat /\ disk.cur[h] \in Nat
        BY <3>5
      <4>1. CASE k > base[h]
        <5>1. <<csy, k>> \in Fresh(h)
          BY <4>1, <4>0, <3>5 DEF Fresh
        <5> DEFINE r == <<csy, k>>
        <5>2. r \in disk'.recs[h] \/ (keep > 0 /\ r[2] + keep <= next[h])
          BY <5>1, <3>3
        <5> QED
          BY <5>2
      <4>2. CASE k <= base[h] /\ k > disk.cur[h]
        BY <4>0, <4>2, <3>3, <3>5
      <4>3. CASE k <= disk.cur[h]
        <5>1. k \in 1..disk.cur[h]
          BY <4>0, <4>3
        <5>2. \/ <<csy, k>> \in disk.recs[h] \/ <<csy, <<h, k>>>> \in gap
              \/ keep > 0 /\ k + keep <= disk.cur[h]
          BY <5>1, <3>1 DEF FileGood
        <5>3. CASE <<csy, k>> \in disk.recs[h]
          <6> DEFINE r == <<csy, k>>
          <6>1. r \in disk'.recs[h] \/ (keep > 0 /\ r[2] + keep <= next[h])
            BY <5>3, <3>3
          <6> QED
            BY <6>1
        <5>4. CASE <<csy, <<h, k>>>> \in gap
          BY <5>4, <3>3
        <5>5. CASE keep > 0 /\ k + keep <= disk.cur[h]
          BY <5>5, <4>0, <3>5
        <5> QED
          BY <5>2, <5>3, <5>4, <5>5
      <4> QED
        BY <4>0, <4>1, <4>2, <4>3, <3>5
    <3>7. ASSUME NEW g \in Hosts
          PROVE  /\ disk'.cur[g] <= Len(stream[csy][g])
                 /\ \A r \in disk'.recs[g] : r[2] \in 1..disk'.cur[g]
                 /\ disk'.cur[g] > 0 => <<csy, disk'.cur[g]>> \in disk'.recs[g]
                 /\ keep > 0 => Cardinality(disk'.recs[g]) <= keep
                 /\ \A k \in 1..disk'.cur[g] :
                      \/ <<csy, k>> \in disk'.recs[g]
                      \/ <<csy, <<g, k>>>> \in gap'
                      \/ keep > 0 /\ k + keep <= disk'.cur[g]
      <4>1. CASE g = h
        BY <4>1, <3>1, <3>2, <3>5, <3>6
      <4>2. CASE g # h
        BY <4>2, <3>1, <3>3 DEF FileGood
      <4> QED
        BY <4>1, <4>2
    <3> QED
      BY <3>4, <3>7, <2>1 DEF FileGood
  <2> QED
    BY <2>2, <2>3
<1> QED
  BY <1>3, <1>4, <1>5, <1>6, <1>7, <1>8, ContentSteps

-------------------------------------------------------------------------------
(* How far a pull is *)

LEMMA PullStep ==
  ASSUME TypeOK, StandingInv, Warm, DiskOK, PullOK, RamOK, [Next]_vars
  PROVE  PullOK'
<1> SUFFICES ASSUME ~mixed', pc' \in {"pull", "bank"} PROVE PullOK'
  BY DEF PullOK
<1>1. /\ mixed \in BOOLEAN /\ cursors \in [Hosts -> Nat] /\ base \in [Hosts -> Nat]
      /\ next \in [Hosts -> Nat] /\ \A h \in Hosts : disk.cur[h] \in Nat
      /\ pc # "idle" => csy \in Servers /\ up
      /\ \A s \in Servers : \A h \in Hosts : Len(stream[s][h]) \in Nat
  <2>1. \A s \in Servers : \A h \in Hosts : Len(stream[s][h]) \in Nat
    BY Lengths
  <2> QED
    BY <2>1 DEF TypeOK, Banked
<1>2. ASSUME NEW s \in Servers, NEW h \in Hosts, NEW row \in {Command} \cup CommandsOn(s),
             Grow(s, h, row)
      PROVE  PullOK'
  <2>1. UNCHANGED <<mixed, cursors, disk, pc, csy, base, next, todo>>
    BY <1>2 DEF Grow, cache, cycle, local, ghosts
  <2>2. /\ base = cursors /\ csy \in Servers
        /\ \A g \in Hosts :
             /\ base[g] <= next[g] /\ next[g] <= Len(stream[csy][g])
             /\ next[g] > base[g] /\ FileFrom(csy, disk) => disk.cur[g] <= next[g]
             /\ pc = "bank" /\ g \in todo => next[g] > base[g]
    BY <2>1, <1>1 DEF PullOK
  <2>3. \A g \in Hosts : /\ Len(stream'[csy][g]) \in Nat
                         /\ Len(stream[csy][g]) <= Len(stream'[csy][g])
    BY <1>2, <2>2, GrowIs
  <2>4. \A g \in Hosts : next[g] <= Len(stream'[csy][g])
    BY <2>2, <2>3, <1>1
  <2>5. FileFrom(csy, disk)' => FileFrom(csy, disk)
    BY <2>1 DEF FileFrom
  <2> QED
    BY <2>1, <2>2, <2>4, <2>5 DEF PullOK
<1>3. ASSUME NEW s, ChangeStanding(s) PROVE PullOK'
  BY <1>3 DEF PullOK, FileFrom, ChangeStanding, cache, cycle, local, ghosts
<1>4. ASSUME NEW s, Start(s) PROVE PullOK'
  <2>1. pc' = pc /\ ~up
    BY <1>4 DEF Start, cycle
  <2> QED
    BY <2>1, <1>1
<1>5. ASSUME NEW s, Attach(s) PROVE PullOK'
  <2>1. pc' = pc /\ mixed' = (pc # "idle" \/ (mixed /\ disk' # EmptyFile))
    BY <1>5 DEF Attach, cycle
  <2> QED
    BY <2>1
<1>6. CASE Reattach
  BY <1>6 DEF PullOK, FileFrom, Reattach, cache, cycle, local, ghosts
<1>7. CASE Crash \/ (\E r \in {"loop", "conn"} : Begin(r)) \/ HydrateNone \/ HydrateRead
           \/ HydrateFold \/ HydrateDrop \/ FoldPulled \/ GiveUp \/ Refused \/ Purge
  BY <1>7 DEF Crash, Begin, HydrateNone, HydrateRead, HydrateFold, HydrateDrop, FoldPulled,
              GiveUp, Refused, Purge, NoCycle
<1>8. CASE ListHosts
  <2>1. /\ pc = "list" /\ pc' = "pull" /\ base' = cursors /\ next' = cursors
        /\ UNCHANGED <<stream, sy, csy, cursors, disk, mixed>>
    BY <1>8 DEF ListHosts, cache, ghosts
  <2>2. csy = sy /\ csy \in Servers /\ up
    BY <2>1, <1>1 DEF Warm
  <2>3. \A h \in Hosts : cursors[h] <= Len(stream[csy][h])
    BY <2>1, <2>2 DEF RamOK
  <2>4. \A h \in Hosts : cursors[h] <= cursors[h] /\ ~(cursors[h] > cursors[h])
    BY <1>1
  <2> QED
    BY <2>1, <2>3, <2>4 DEF PullOK
<1>9. CASE PullHost
  <2>1. PICK h : h = Min(todo) /\ next' = [next EXCEPT ![h] = Reached(h)]
    BY <1>9 DEF PullHost
  <2>2. /\ pc = "pull" /\ pc' = "pull"
        /\ UNCHANGED <<stream, csy, cursors, disk, mixed, base>>
    BY <1>9 DEF PullHost, cache, ghosts
  <2>3. csy \in Servers /\ ~mixed /\ base = cursors
        /\ \A g \in Hosts :
             /\ base[g] <= next[g] /\ next[g] <= Len(stream[csy][g])
             /\ next[g] > base[g] /\ FileFrom(csy, disk) => disk.cur[g] <= next[g]
    BY <2>2, <1>1 DEF PullOK
  <2>4. ASSUME NEW g \in Hosts
        PROVE  /\ base[g] <= next'[g] /\ next'[g] <= Len(stream[csy][g])
               /\ next'[g] > base[g] /\ FileFrom(csy, disk) => disk.cur[g] <= next'[g]
    <3>1. CASE g # h
      <4>1. next'[g] = next[g]
        BY <3>1, <2>1, <1>1
      <4> QED
        BY <4>1, <2>3
    <3>2. CASE g = h
      <4>1. next'[g] = Len(stream[csy][g])
        <5>1. next'[g] = Reached(g)
          BY <3>2, <2>1, <1>1
        <5>2. Len(stream[csy][g]) \in Nat /\ next[g] \in Nat
          BY <2>3, <1>1
        <5> QED
          BY <5>1, <5>2, <2>3 DEF Reached
      <4>2. FileFrom(csy, disk) => disk.cur[g] <= Len(stream[csy][g])
        BY <2>3 DEF DiskOK, FileGood
      <4>3. Len(stream[csy][g]) \in Nat /\ next[g] \in Nat /\ base[g] \in Nat
        BY <2>3, <1>1
      <4> QED
        BY <4>1, <4>2, <4>3, <2>3
    <3> QED
      BY <3>1, <3>2
  <2>5. FileFrom(csy, disk)' => FileFrom(csy, disk)
    BY <2>2 DEF FileFrom
  <2> QED
    BY <2>2, <2>3, <2>4, <2>5 DEF PullOK
<1>10. CASE PullDone
  <2>1. /\ pc = "pull" /\ todo' = {h \in Hosts : next[h] > base[h]}
        /\ UNCHANGED <<stream, csy, cursors, disk, mixed, base, next>>
    BY <1>10 DEF PullDone, cache, ghosts
  <2>2. FileFrom(csy, disk)' => FileFrom(csy, disk)
    BY <2>1 DEF FileFrom
  <2> QED
    BY <2>1, <2>2 DEF PullOK
<1>11. ASSUME NEW h \in Hosts, NEW ok \in BOOLEAN, BankHost(h, ok) PROVE PullOK'
  <2>1. /\ ~mixed /\ pc = "bank" /\ csy \in Servers
        /\ UNCHANGED <<stream, csy, cursors, base, next>>
        /\ ~ok => UNCHANGED disk
    BY <1>11, BankedIs
  <2>2. todo' = todo \ {h}
    BY <1>11 DEF BankHost
  <2>3. /\ base = cursors
        /\ \A g \in Hosts :
             /\ base[g] <= next[g] /\ next[g] <= Len(stream[csy][g])
             /\ next[g] > base[g] /\ FileFrom(csy, disk) => disk.cur[g] <= next[g]
             /\ g \in todo => next[g] > base[g]
    BY <2>1 DEF PullOK
  <2>4. ASSUME NEW g \in Hosts, next[g] > base[g], FileFrom(csy, disk)'
        PROVE  disk'.cur[g] <= next[g]
    <3>1. CASE ~ok
      <4>1. FileFrom(csy, disk) /\ disk' = disk
        BY <3>1, <2>1, <2>4 DEF FileFrom
      <4> QED
        BY <4>1, <2>3, <2>4
    <3>2. CASE ok
      <4>1. /\ FileFrom(csy, disk) /\ disk'.cur[h] = next[h]
            /\ g # h => disk'.cur[g] = disk.cur[g]
        BY <3>2, <1>11, BankedIs
      <4>2. next[h] <= next[h]
        BY <1>1
      <4> QED
        BY <4>1, <4>2, <2>3, <2>4
    <3> QED
      BY <3>1, <3>2
  <2> QED
    BY <2>1, <2>2, <2>3, <2>4 DEF PullOK
<1>12. CASE UNCHANGED vars
  BY <1>12 DEF PullOK, FileFrom, vars, local
<1> QED
  BY <1>2, <1>3, <1>4, <1>5, <1>6, <1>7, <1>8, <1>9, <1>10, <1>11, <1>12 DEF Next, SyncOnce

-------------------------------------------------------------------------------
(* What folding leaves in RAM *)

\* What warming up leaves: the file's commands that no tombstone in it names.
LEMMA HydratedIs ==
  ASSUME TypeOK, StandingInv, Warm, DiskOK, HydrateFold, ~mixed
  PROVE  /\ sy \in Servers /\ up /\ FileGood(sy, disk)
         /\ UNCHANGED <<keep, stream, up, sy, latch, disk, mixed, gap>>
         /\ cursors' = disk.cur /\ early' = early \cup Ahead(disk.recs, disk.cur)
         /\ disk.recs \in [Hosts -> SUBSET ({sy} \X Nat)]
         /\ \A h \in Hosts :
              /\ disk.cur[h] \in Nat /\ Ordered(ram'[h], sy, disk.cur[h])
              /\ keep > 0 => Len(ram'[h]) <= keep
              /\ \A k \in Nat : <<sy, k>> \in Range(ram'[h]) <=>
                   /\ <<sy, k>> \in disk.recs[h] /\ stream[sy][h][k] = Command
                   /\ <<sy, <<h, k>>>> \notin Targets(disk.recs)
<1>1. /\ pc = "open" /\ ~hydrated /\ ram = EmptyRam /\ csy = sy /\ kept = disk
      /\ csy \in Servers /\ up
  BY DEF HydrateFold, Warm, TypeOK
<1>2. /\ \A h \in Hosts : \A r \in disk.recs[h] : r[1] = sy
      /\ ram' = Folded(disk.recs) /\ cursors' = disk.cur
      /\ early' = early \cup Ahead(disk.recs, disk.cur)
      /\ UNCHANGED <<keep, stream, up, sy, latch, disk, mixed, gap>>
  BY <1>1 DEF HydrateFold, standing
<1>3. FileGood(sy, disk)
  BY <1>1, <1>2 DEF DiskOK, FileFrom
<1>4. disk.recs \in [Hosts -> SUBSET ({sy} \X Nat)]
  <2>1. disk.recs \in [Hosts -> SUBSET (Servers \X Nat)]
    BY DEF TypeOK, Banked
  <2>2. ASSUME NEW h \in Hosts PROVE disk.recs[h] \in SUBSET ({sy} \X Nat)
    <3>1. disk.recs[h] \in SUBSET (Servers \X Nat)
      BY <2>1
    <3> QED
      BY <3>1, <1>2
  <2> QED
    BY <2>1, <2>2
<1>5. ASSUME NEW h \in Hosts
      PROVE  /\ disk.cur[h] \in Nat /\ Ordered(ram'[h], sy, disk.cur[h])
             /\ keep > 0 => Len(ram'[h]) <= keep
             /\ \A k \in Nat : <<sy, k>> \in Range(ram'[h]) <=>
                  /\ <<sy, k>> \in disk.recs[h] /\ stream[sy][h][k] = Command
                  /\ <<sy, <<h, k>>>> \notin Targets(disk.recs)
  <2> DEFINE recs == disk.recs
             c == disk.cur[h]
             v == Folded(recs)[h]
  <2>1. ram[h] = << >> /\ Len(ram[h]) = 0 /\ Range(ram[h]) = {} /\ Ordered(ram[h], csy, 0)
    BY <1>1 DEF EmptyRam, Ordered, Range
  <2>2. /\ c \in Nat /\ IsFiniteSet(recs[h]) /\ keep \in Nat
        /\ recs \in [Hosts -> SUBSET ({csy} \X Nat)]
    BY <1>1, <1>4 DEF TypeOK, Banked
  <2>3. (\A r \in recs[h] : r[2] \in 1..c) /\ (keep > 0 => Cardinality(recs[h]) <= keep)
    BY <1>3 DEF FileGood
  <2>4. ram'[h] = v
    BY <1>2
  <2> HIDE DEF recs, c, v
  <2>5. \A r \in recs[h] : r[2] \in (0 + 1)..c
    BY <2>3
  <2>6. /\ Ordered(v, csy, c)
        /\ Cardinality(recs[h]) \in Nat /\ Len(ram[h]) \in Nat
        /\ Len(v) <= Len(ram[h]) + Cardinality(recs[h])
        /\ \A k \in Nat : <<csy, k>> \in Range(v) <=>
              /\ \/ <<csy, k>> \in Range(ram[h])
                 \/ <<csy, k>> \in recs[h] /\ stream[csy][h][k] = Command
              /\ <<csy, <<h, k>>>> \notin Targets(recs)
    <3>1. 0 \in Nat /\ 0 <= c /\ csy \in Servers
      BY <1>1, <2>2
    <3> QED
      BY <3>1, <2>1, <2>2, <2>5, FoldedIs DEF v
  <2>7. keep > 0 => Len(v) <= keep
    <3>1. Len(v) \in Nat
      BY <2>6 DEF Ordered
    <3> QED
      BY <3>1, <2>1, <2>2, <2>3, <2>6
  <2>8. \A k \in Nat : <<sy, k>> \in Range(v) <=>
          /\ <<sy, k>> \in recs[h] /\ stream[sy][h][k] = Command
          /\ <<sy, <<h, k>>>> \notin Targets(recs)
    BY <2>1, <2>6, <1>1
  <2> QED
    BY <2>2, <2>4, <2>6, <2>7, <2>8, <1>1 DEF recs, c
<1> QED
  BY <1>1, <1>2, <1>3, <1>4, <1>5

Pulled == [h \in Hosts |-> Fresh(h)]

\* What a pull's fold leaves: the commands that it brought or that were there and that
\* no tombstone it brought names, but for those that are older than the newest rows.
LEMMA PulledIs ==
  ASSUME TypeOK, StandingInv, Warm, PullOK, RamOK, FoldPulled, ~mixed
  PROVE  /\ sy \in Servers /\ up /\ csy = sy
         /\ UNCHANGED <<keep, stream, up, sy, latch, disk, mixed, gap>>
         /\ cursors' = next /\ early' = early \cup Ahead(Pulled, next)
         /\ Pulled \in [Hosts -> SUBSET ({sy} \X Nat)]
         /\ \A h \in Hosts :
              /\ cursors[h] \in Nat /\ next[h] \in Nat
              /\ cursors[h] <= next[h] /\ next[h] <= Len(stream[sy][h])
              /\ \A k \in Nat : <<sy, k>> \in Pulled[h] <=> k \in (cursors[h] + 1)..next[h]
              /\ Ordered(ram'[h], sy, next[h])
              /\ keep > 0 => Len(ram'[h]) <= keep
              /\ \A k \in Nat :
                   /\ <<sy, k>> \in Range(ram'[h]) =>
                        /\ \/ <<sy, k>> \in Range(ram[h])
                           \/ k \in (cursors[h] + 1)..next[h]
                        /\ <<sy, <<h, k>>>> \notin Targets(Pulled)
                   /\ /\ \/ <<sy, k>> \in Range(ram[h])
                         \/ k \in (cursors[h] + 1)..next[h] /\ stream[sy][h][k] = Command
                      /\ <<sy, <<h, k>>>> \notin Targets(Pulled)
                      => <<sy, k>> \in Range(ram'[h]) \/ (keep > 0 /\ k + keep <= next[h])
<1>1. pc = "bank" /\ csy = sy /\ csy \in Servers /\ up /\ ~latch /\ keep \in Nat
  BY DEF FoldPulled, Warm, TypeOK, StandingInv
<1>2. /\ ram' = [h \in Hosts |-> Pruned(Folded(Pulled)[h])]
      /\ early' = early \cup Ahead(Pulled, next) /\ cursors' = next
      /\ UNCHANGED <<keep, stream, up, sy, latch, disk, mixed, gap>>
  BY DEF FoldPulled, Pulled
<1>3. /\ base = cursors
      /\ \A h \in Hosts : cursors[h] <= next[h] /\ next[h] <= Len(stream[sy][h])
  BY <1>1 DEF PullOK
<1>4. \A h \in Hosts :
        /\ cursors[h] \in Nat /\ next[h] \in Nat
        /\ Pulled[h] = {<<csy, k>> : k \in (cursors[h] + 1)..next[h]}
        /\ IsFiniteSet(Pulled[h]) /\ Pulled[h] \in SUBSET ({csy} \X Nat)
        /\ \A r \in Pulled[h] : r[2] \in (cursors[h] + 1)..next[h]
  BY <1>1, <1>3, FreshIs DEF Pulled
<1>5. Pulled \in [Hosts -> SUBSET ({csy} \X Nat)]
  BY <1>4 DEF Pulled
<1>6. ASSUME NEW h \in Hosts
      PROVE  /\ \A k \in Nat : <<sy, k>> \in Pulled[h] <=> k \in (cursors[h] + 1)..next[h]
             /\ Ordered(ram'[h], sy, next[h])
             /\ keep > 0 => Len(ram'[h]) <= keep
             /\ \A k \in Nat :
                  /\ <<sy, k>> \in Range(ram'[h]) =>
                       /\ \/ <<sy, k>> \in Range(ram[h])
                          \/ k \in (cursors[h] + 1)..next[h]
                       /\ <<sy, <<h, k>>>> \notin Targets(Pulled)
                  /\ /\ \/ <<sy, k>> \in Range(ram[h])
                        \/ k \in (cursors[h] + 1)..next[h] /\ stream[sy][h][k] = Command
                     /\ <<sy, <<h, k>>>> \notin Targets(Pulled)
                     => <<sy, k>> \in Range(ram'[h]) \/ (keep > 0 /\ k + keep <= next[h])
  <2> DEFINE recs == Pulled
             b == cursors[h]
             c == next[h]
             v == Folded(recs)[h]
             w == Pruned(v)
  <2>1. Ordered(ram[h], csy, b)
    BY <1>1 DEF RamOK
  <2>2. /\ b \in Nat /\ c \in Nat /\ b <= c /\ IsFiniteSet(recs[h])
        /\ \A r \in recs[h] : r[2] \in (b + 1)..c
        /\ recs \in [Hosts -> SUBSET ({csy} \X Nat)]
    BY <1>3, <1>4, <1>5
  <2>3. \A k \in Nat : <<csy, k>> \in recs[h] <=> k \in (b + 1)..c
    BY <1>4
  <2>4. ram'[h] = w
    BY <1>2
  <2> HIDE DEF recs, b, c, v
  <2>5. /\ Ordered(v, csy, c)
        /\ \A k \in Nat : <<csy, k>> \in Range(v) <=>
              /\ \/ <<csy, k>> \in Range(ram[h])
                 \/ <<csy, k>> \in recs[h] /\ stream[csy][h][k] = Command
              /\ <<csy, <<h, k>>>> \notin Targets(recs)
    BY <1>1, <2>1, <2>2, FoldedIs DEF v
  <2>6. /\ Ordered(w, csy, c)
        /\ keep > 0 => Len(w) <= keep
        /\ Range(w) \in SUBSET Range(v)
        /\ \A k \in Nat : <<csy, k>> \in Range(v) =>
              <<csy, k>> \in Range(w) \/ (keep > 0 /\ k + keep <= c)
    <3> HIDE DEF w
    <3> QED
      BY <1>1, <2>2, <2>5, PrunedIs DEF w
  <2> HIDE DEF w
  <2>7. ASSUME NEW k \in Nat
        PROVE  /\ <<sy, k>> \in Range(w) =>
                    /\ <<sy, k>> \in Range(ram[h]) \/ k \in (b + 1)..c
                    /\ <<sy, <<h, k>>>> \notin Targets(recs)
               /\ /\ \/ <<sy, k>> \in Range(ram[h])
                     \/ k \in (b + 1)..c /\ stream[sy][h][k] = Command
                  /\ <<sy, <<h, k>>>> \notin Targets(recs)
                  => <<sy, k>> \in Range(w) \/ (keep > 0 /\ k + keep <= c)
    BY <1>1, <2>3, <2>5, <2>6
  <2> QED
    BY <1>1, <2>3, <2>4, <2>6, <2>7 DEF recs, b, c
<1> QED
  BY <1>1, <1>2, <1>3, <1>4, <1>5, <1>6

-------------------------------------------------------------------------------
(* What searches find stays in order, complete and without what was deleted *)

\* Nothing in RAM, and cursors at the start.
LEMMA EmptyRamStaysOK ==
  ASSUME TypeOK', ram' = EmptyRam, cursors' = Zero
  PROVE  RamOK'
<1> SUFFICES ASSUME NEW h \in Hosts
             PROVE  /\ Ordered(ram'[h], sy', cursors'[h]) /\ cursors'[h] \in Nat
                    /\ keep' > 0 => Len(ram'[h]) <= keep'
                    /\ sy' \in Servers => cursors'[h] <= Len(stream'[sy'][h])
  BY DEF RamOK
<1>1. ram'[h] = << >> /\ cursors'[h] = 0 /\ Len(<< >>) = 0
  BY DEF EmptyRam, Zero
<1>2. Ordered(<< >>, sy', 0)
  BY DEF Ordered
<1>3. keep' \in Nat /\ (sy' \in Servers => stream'[sy'][h] \in Seq(Row))
  BY DEF TypeOK, Row
<1> HIDE DEF Row
<1>4. sy' \in Servers => Len(stream'[sy'][h]) \in Nat
  BY <1>3
<1> QED
  BY <1>1, <1>2, <1>3, <1>4

LEMMA RamStep ==
  ASSUME TypeOK, StandingInv, Warm, DiskOK, PullOK, RamOK, [Next]_vars
  PROVE  RamOK'
<1> SUFFICES ASSUME ~mixed', up' PROVE RamOK'
  BY DEF RamOK
<1>0. TypeOK'
  BY TypeStep
<1>1. mixed \in BOOLEAN /\ mixed' \in BOOLEAN
  BY <1>0 DEF TypeOK
<1>2. CASE UNCHANGED Content
  <2>1. UNCHANGED <<keep, stream, up, sy, ram, cursors, latch, mixed>>
    BY <1>2 DEF Content
  <2> QED
    BY <2>1 DEF RamOK
<1>3. ASSUME NEW s \in Servers, NEW h \in Hosts, NEW row \in {Command} \cup CommandsOn(s),
             Grow(s, h, row)
      PROVE  RamOK'
  <2>1. UNCHANGED <<keep, up, sy, ram, cursors, latch, mixed>>
    BY <1>3 DEF Grow, cache, standing, ghosts
  <2>2. ASSUME NEW g \in Hosts, sy \in Servers PROVE cursors[g] <= Len(stream'[sy][g])
    <3>1. cursors[g] <= Len(stream[sy][g]) /\ cursors[g] \in Nat
      BY <2>1, <2>2 DEF RamOK, TypeOK
    <3>2. /\ Len(stream[sy][g]) \in Nat /\ Len(stream'[sy][g]) \in Nat
          /\ Len(stream[sy][g]) <= Len(stream'[sy][g])
      BY <1>3, <2>2, GrowIs
    <3> QED
      BY <3>1, <3>2
  <2> QED
    BY <2>1, <2>2 DEF RamOK
<1>4. ASSUME NEW s, Start(s) PROVE RamOK'
  <2>1. ram' = EmptyRam /\ cursors' = Zero
    BY <1>4 DEF Start, Warm, cache
  <2> QED
    BY <2>1, <1>0, EmptyRamStaysOK
<1>5. ASSUME NEW s, Attach(s) PROVE RamOK'
  BY <1>5, <1>0, EmptyRamStaysOK DEF Attach
<1>6. CASE Crash
  BY <1>6 DEF Crash
<1>7. CASE HydrateFold
  <2>1. /\ sy \in Servers /\ FileGood(sy, disk)
        /\ UNCHANGED <<keep, stream, up, sy, latch, disk>> /\ cursors' = disk.cur
    BY <1>1, <1>7, HydratedIs DEF HydrateFold
  <2>2. \A h \in Hosts : /\ disk.cur[h] \in Nat /\ Ordered(ram'[h], sy, disk.cur[h])
                         /\ keep > 0 => Len(ram'[h]) <= keep
    BY <1>1, <1>7, HydratedIs DEF HydrateFold
  <2>3. \A h \in Hosts : disk.cur[h] <= Len(stream[sy][h])
    BY <2>1 DEF FileGood
  <2> QED
    BY <2>1, <2>2, <2>3 DEF RamOK
<1>8. CASE HydrateDrop
  <2>1. ram' = EmptyRam /\ cursors' = Zero
    BY <1>1, <1>8 DEF HydrateDrop, Warm
  <2> QED
    BY <2>1, <1>0, EmptyRamStaysOK
<1>9. ASSUME NEW h \in Hosts, NEW ok \in BOOLEAN, BankHost(h, ok) PROVE RamOK'
  <2>1. ~mixed /\ UNCHANGED <<keep, stream, up, sy, ram, cursors, latch>>
    BY <1>9, BankedIs
  <2> QED
    BY <2>1 DEF RamOK
<1>10. CASE FoldPulled
  <2>1. ~mixed /\ sy \in Servers /\ UNCHANGED <<keep, stream, up, sy, latch>> /\ cursors' = next
    BY <1>1, <1>10, PulledIs DEF FoldPulled
  <2>2. \A h \in Hosts : /\ next[h] \in Nat /\ next[h] <= Len(stream[sy][h])
                         /\ Ordered(ram'[h], sy, next[h])
                         /\ keep > 0 => Len(ram'[h]) <= keep
    BY <2>1, <1>10, PulledIs
  <2> QED
    BY <2>1, <2>2 DEF RamOK
<1>11. CASE Purge
  <2>1. latch' /\ cursors' = Zero /\ UNCHANGED <<keep, stream, up, sy, ram, mixed>>
    BY <1>11 DEF Purge
  <2>2. ASSUME NEW h \in Hosts
        PROVE  cursors'[h] = 0 /\ (sy' \in Servers => cursors'[h] <= Len(stream'[sy'][h]))
    <3>1. cursors'[h] = 0
      BY <2>1 DEF Zero
    <3>2. sy \in Servers => Len(stream[sy][h]) \in Nat
      BY Lengths
    <3> QED
      BY <3>1, <3>2, <2>1
  <2> QED
    BY <2>1, <2>2 DEF RamOK
<1> QED
  BY <1>2, <1>3, <1>4, <1>5, <1>6, <1>7, <1>8, <1>9, <1>10, <1>11, ContentSteps

\* Nothing was pulled, so nothing is missed and nothing deleted.
LEMMA ZeroCursorsStayOK ==
  ASSUME cursors' = Zero
  PROVE  CompleteOK' /\ DeletedOK'
<1>1. \A h \in Hosts : cursors'[h] = 0
  BY DEF Zero
<1>2. CompleteOK'
  BY <1>1 DEF CompleteOK
<1>3. DeletedOK'
  BY <1>1 DEF DeletedOK, DeletedOn
<1> QED
  BY <1>2, <1>3

\* What is deleted is what a tombstone up to the cursors names.
LEMMA DeletedIs ==
  ASSUME TypeOK, sy \in Servers, NEW h \in Hosts, NEW k \in Nat
  PROVE  <<h, k>> \in DeletedOn(sy) <=>
           \E g \in Hosts : \E j \in Nat :
              j \in 1..cursors[g] /\ j \in 1..Len(stream[sy][g]) /\ stream[sy][g][j] = <<h, k>>
<1>1. \A g \in Hosts : Len(stream[sy][g]) \in Nat /\ DOMAIN stream[sy][g] = 1..Len(stream[sy][g])
  BY Lengths
<1>2. \A g \in Hosts : cursors[g] \in Nat
  BY DEF TypeOK
<1>3. DeletedOn(sy) =
         UNION {{stream[sy][g][j] : j \in DOMAIN stream[sy][g] \cap 1..cursors[g]} : g \in Hosts}
  BY DEF DeletedOn
<1>4. <<h, k>> \in DeletedOn(sy) <=>
         \E g \in Hosts : \E j \in DOMAIN stream[sy][g] \cap 1..cursors[g] :
            stream[sy][g][j] = <<h, k>>
  BY <1>3
<1>5. \A g \in Hosts : \A j : j \in DOMAIN stream[sy][g] \cap 1..cursors[g] <=>
         j \in Nat /\ j \in 1..cursors[g] /\ j \in 1..Len(stream[sy][g])
  BY <1>1, <1>2
<1> QED
  BY <1>4, <1>5

LEMMA DeletedNextIs ==
  ASSUME TypeOK', sy' \in Servers, NEW h \in Hosts, NEW k \in Nat
  PROVE  (<<h, k>> \in DeletedOn(sy)') <=>
           \E g \in Hosts : \E j \in Nat :
              /\ j \in 1..cursors'[g] /\ j \in 1..Len(stream'[sy'][g])
              /\ stream'[sy'][g][j] = <<h, k>>
<1>1. \A g \in Hosts : DOMAIN stream'[sy'][g] = 1..Len(stream'[sy'][g])
  <2> TAKE g \in Hosts
  <2>1. stream'[sy'][g] \in Seq(Row)
    BY DEF TypeOK, Row
  <2> QED
    BY <2>1
<1>2. \A g \in Hosts : cursors'[g] \in Nat
  BY DEF TypeOK
<1>3. DeletedOn(sy)' =
         UNION {{stream'[sy'][g][j] : j \in DOMAIN stream'[sy'][g] \cap 1..cursors'[g]} : g \in Hosts}
  BY DEF DeletedOn
<1>4. (<<h, k>> \in DeletedOn(sy)') <=>
         \E g \in Hosts : \E j \in DOMAIN stream'[sy'][g] \cap 1..cursors'[g] :
            stream'[sy'][g][j] = <<h, k>>
  BY <1>3
<1>5. \A g \in Hosts : \A j : j \in DOMAIN stream'[sy'][g] \cap 1..cursors'[g] <=>
         j \in Nat /\ j \in 1..cursors'[g] /\ j \in 1..Len(stream'[sy'][g])
  BY <1>1, <1>2
<1> QED
  BY <1>4, <1>5


\* Growth changes nothing below the cursors.
LEMMA GrowKeepsDeleted ==
  ASSUME TypeOK, Warm, RamOK, TypeOK', ~mixed, sy \in Servers,
         NEW s \in Servers, NEW f \in Hosts, NEW row \in {Command} \cup CommandsOn(s),
         Grow(s, f, row)
  PROVE  /\ UNCHANGED <<keep, up, sy, ram, cursors, disk, mixed, gap, early>>
         /\ \A h \in Hosts : \A k \in 1..cursors[h] :
              k \in 1..Len(stream[sy][h]) /\ stream'[sy][h][k] = stream[sy][h][k]
         /\ \A h \in Hosts : \A k \in Nat :
              (<<h, k>> \in DeletedOn(sy)') <=> <<h, k>> \in DeletedOn(sy)
<1>1. UNCHANGED <<keep, up, sy, ram, cursors, disk, mixed, gap, early>>
  BY DEF Grow, cache, ghosts
<1>2. \A h \in Hosts : /\ Len(stream[sy][h]) \in Nat /\ Len(stream'[sy][h]) \in Nat
                       /\ Len(stream[sy][h]) <= Len(stream'[sy][h])
                       /\ \A k \in 1..Len(stream[sy][h]) : stream'[sy][h][k] = stream[sy][h][k]
  BY GrowIs
<1>3. \A h \in Hosts : cursors[h] \in Nat /\ cursors[h] <= Len(stream[sy][h])
  <2> TAKE h \in Hosts
  <2>1. cursors[h] \in Nat
    BY DEF TypeOK
  <2>2. CASE up
    BY <2>1, <2>2 DEF RamOK
  <2>3. CASE ~up
    BY <2>3, <1>2 DEF Warm, Zero
  <2> QED
    BY <2>1, <2>2, <2>3 DEF TypeOK
<1>4. ASSUME NEW h \in Hosts, NEW k \in 1..cursors[h]
      PROVE  k \in 1..Len(stream[sy][h]) /\ stream'[sy][h][k] = stream[sy][h][k]
             /\ k \in 1..Len(stream'[sy][h])
  BY <1>2, <1>3
<1>5. ASSUME NEW h \in Hosts, NEW k \in Nat
      PROVE  (<<h, k>> \in DeletedOn(sy)') <=> <<h, k>> \in DeletedOn(sy)
  <2>1. <<h, k>> \in DeletedOn(sy) <=>
          \E g \in Hosts : \E j \in Nat :
             j \in 1..cursors[g] /\ j \in 1..Len(stream[sy][g]) /\ stream[sy][g][j] = <<h, k>>
    BY DeletedIs
  <2>2. (<<h, k>> \in DeletedOn(sy)') <=>
          \E g \in Hosts : \E j \in Nat :
             /\ j \in 1..cursors[g] /\ j \in 1..Len(stream'[sy][g])
             /\ stream'[sy][g][j] = <<h, k>>
    BY <1>1, DeletedNextIs
  <2> QED
    BY <2>1, <2>2, <1>4
<1> QED
  BY <1>1, <1>4, <1>5

LEMMA CompleteStep ==
  ASSUME TypeOK, StandingInv, Warm, DiskOK, PullOK, RamOK, CompleteOK, [Next]_vars
  PROVE  CompleteOK'
<1> SUFFICES ASSUME ~mixed', sy' \in Servers PROVE CompleteOK'
  BY DEF CompleteOK
<1>0. TypeOK'
  BY TypeStep
<1>1. mixed \in BOOLEAN /\ mixed' \in BOOLEAN /\ keep \in Nat
  BY <1>0 DEF TypeOK
<1>2. CASE UNCHANGED Content
  <2>1. UNCHANGED <<keep, stream, sy, ram, cursors, mixed, gap>>
    BY <1>2 DEF Content
  <2> QED
    BY <2>1 DEF CompleteOK, Searchable, DeletedOn, Evicted
<1>3. ASSUME NEW s \in Servers, NEW f \in Hosts, NEW row \in {Command} \cup CommandsOn(s),
             Grow(s, f, row)
      PROVE  CompleteOK'
  <2>1. mixed' = mixed /\ sy' = sy
    BY <1>3 DEF Grow, ghosts
  <2>2. /\ UNCHANGED <<keep, up, sy, ram, cursors, disk, mixed, gap, early>>
        /\ \A h \in Hosts : \A k \in 1..cursors[h] :
             k \in 1..Len(stream[sy][h]) /\ stream'[sy][h][k] = stream[sy][h][k]
        /\ \A h \in Hosts : \A k \in Nat :
             (<<h, k>> \in DeletedOn(sy)') <=> <<h, k>> \in DeletedOn(sy)
    BY <1>0, <1>3, <2>1, GrowKeepsDeleted
  <2> SUFFICES ASSUME NEW h \in Hosts, NEW k \in 1..cursors[h], stream'[sy][h][k] = Command
               PROVE  \/ <<sy, k>> \in Range(ram[h]) \/ (<<h, k>> \in DeletedOn(sy)')
                      \/ (keep > 0 /\ cursors[h] >= k + keep) \/ <<sy, <<h, k>>>> \in gap
    BY <2>2 DEF CompleteOK, Searchable, Evicted
  <2>3. stream[sy][h][k] = Command /\ k \in Nat
    BY <2>2
  <2>4. \/ <<sy, k>> \in Range(ram[h]) \/ <<h, k>> \in DeletedOn(sy)
        \/ (keep > 0 /\ cursors[h] >= k + keep) \/ <<sy, <<h, k>>>> \in gap
    BY <2>2, <2>3 DEF CompleteOK, Searchable, Evicted
  <2> QED
    BY <2>2, <2>3, <2>4
<1>4. ASSUME NEW s, Start(s) \/ Attach(s) PROVE CompleteOK'
  <2>1. cursors' = Zero
    BY <1>4 DEF Start, Attach, Warm, cache
  <2> QED
    BY <2>1, ZeroCursorsStayOK
<1>5. CASE Crash \/ HydrateDrop \/ Purge
  BY <1>5, ZeroCursorsStayOK DEF Crash, HydrateDrop, Purge
<1>6. CASE HydrateFold
  <2>0. ~mixed
    BY <1>6 DEF HydrateFold
  <2>1. /\ sy \in Servers /\ FileGood(sy, disk)
        /\ UNCHANGED <<keep, stream, sy, disk, gap>> /\ cursors' = disk.cur
        /\ disk.recs \in [Hosts -> SUBSET ({sy} \X Nat)]
    BY <2>0, <1>6, HydratedIs
  <2>2. \A h \in Hosts : disk.cur[h] \in Nat /\ \A k \in Nat :
          <<sy, k>> \in Range(ram'[h]) <=>
            /\ <<sy, k>> \in disk.recs[h] /\ stream[sy][h][k] = Command
            /\ <<sy, <<h, k>>>> \notin Targets(disk.recs)
    BY <2>0, <1>6, HydratedIs
  <2> SUFFICES ASSUME NEW h \in Hosts, NEW k \in 1..disk.cur[h], stream[sy][h][k] = Command,
                      <<sy, k>> \notin Range(ram'[h]), <<sy, <<h, k>>>> \notin gap,
                      ~(keep > 0 /\ disk.cur[h] >= k + keep)
               PROVE  <<h, k>> \in DeletedOn(sy)'
    BY <2>1 DEF CompleteOK, Searchable, Evicted
  <2>3. k \in Nat /\ disk.cur[h] \in Nat /\ ~(keep > 0 /\ k + keep <= disk.cur[h])
    BY <2>2, <1>1
  <2>4. <<sy, k>> \in disk.recs[h]
    BY <2>1, <2>3 DEF FileGood
  <2>5. <<sy, <<h, k>>>> \in Targets(disk.recs)
    BY <2>2, <2>3, <2>4
  <2>6. PICK g \in Hosts, j \in Nat :
          <<sy, j>> \in disk.recs[g] /\ stream[sy][g][j] = <<h, k>>
    <3> DEFINE x == <<h, k>>
               recs == disk.recs
    <3>1. <<sy, x>> \in Targets(recs) /\ recs \in [Hosts -> SUBSET ({sy} \X Nat)]
      BY <2>1, <2>5
    <3> HIDE DEF x, recs
    <3>2. \E g \in Hosts : \E j \in Nat :
            <<sy, j>> \in recs[g] /\ stream[sy][g][j] # Command /\ stream[sy][g][j] = x
      <4>1. PICK s \in Servers : s = sy
        BY <2>1
      <4>2. recs \in [Hosts -> SUBSET ({s} \X Nat)] /\ <<s, x>> \in Targets(recs)
        BY <3>1, <4>1
      <4>3. \E g \in Hosts : \E j \in Nat :
              <<s, j>> \in recs[g] /\ stream[s][g][j] # Command /\ stream[s][g][j] = x
        <5>1. PICK q \in [Hosts -> SUBSET ({s} \X Nat)] : q = recs
          BY <4>2
        <5>2. <<s, x>> \in Targets(q) <=> \E g \in Hosts : \E j \in Nat :
                <<s, j>> \in q[g] /\ stream[s][g][j] # Command /\ stream[s][g][j] = x
          BY TargetsIs
        <5> QED
          BY <4>2, <5>1, <5>2
      <4> QED
        BY <4>1, <4>3
    <3> QED
      BY <3>2 DEF x, recs
  <2>7. j \in 1..disk.cur[g] /\ disk.cur[g] <= Len(stream[sy][g])
    <3> DEFINE r == <<sy, j>>
    <3>1. r \in disk.recs[g] /\ r[2] = j
      BY <2>6
    <3> HIDE DEF r
    <3> QED
      BY <2>1, <3>1 DEF FileGood
  <2>8. j \in 1..Len(stream[sy][g])
    <3>1. Len(stream[sy][g]) \in Nat /\ disk.cur[g] \in Nat
      BY <2>1, <2>2, Lengths
    <3> QED
      BY <2>7, <3>1
  <2> QED
    BY <1>0, <2>1, <2>3, <2>6, <2>7, <2>8, DeletedNextIs
<1>7. ASSUME NEW f \in Hosts, NEW ok \in BOOLEAN, BankHost(f, ok) PROVE CompleteOK'
  <2>1. ~mixed /\ UNCHANGED <<keep, stream, sy, ram, cursors>>
    BY <1>7, BankedIs
  <2>2. gap \in SUBSET gap'
    BY <1>7 DEF BankHost
  <2> QED
    BY <2>1, <2>2 DEF CompleteOK, Searchable, DeletedOn, Evicted
<1>8. CASE FoldPulled
  <2>0. ~mixed
    BY <1>8 DEF FoldPulled
  <2>1. /\ sy \in Servers /\ UNCHANGED <<keep, stream, sy, gap>> /\ cursors' = next
        /\ Pulled \in [Hosts -> SUBSET ({sy} \X Nat)]
    BY <2>0, <1>8, PulledIs
  <2>2. \A h \in Hosts :
          /\ cursors[h] \in Nat /\ next[h] \in Nat
          /\ cursors[h] <= next[h] /\ next[h] <= Len(stream[sy][h])
          /\ \A k \in Nat : <<sy, k>> \in Pulled[h] <=> k \in (cursors[h] + 1)..next[h]
    BY <2>0, <1>8, PulledIs
  <2>3. \A h \in Hosts : \A k \in Nat :
          /\ \/ <<sy, k>> \in Range(ram[h])
             \/ k \in (cursors[h] + 1)..next[h] /\ stream[sy][h][k] = Command
          /\ <<sy, <<h, k>>>> \notin Targets(Pulled)
          => <<sy, k>> \in Range(ram'[h]) \/ (keep > 0 /\ k + keep <= next[h])
    BY <2>0, <1>8, PulledIs
  <2> SUFFICES ASSUME NEW h \in Hosts, NEW k \in 1..next[h], stream[sy][h][k] = Command,
                      <<sy, k>> \notin Range(ram'[h]), <<sy, <<h, k>>>> \notin gap,
                      ~(keep > 0 /\ next[h] >= k + keep)
               PROVE  <<h, k>> \in DeletedOn(sy)'
    BY <2>1 DEF CompleteOK, Searchable, Evicted
  <2>4. k \in Nat /\ next[h] \in Nat /\ cursors[h] \in Nat /\ cursors[h] <= next[h]
        /\ ~(keep > 0 /\ k + keep <= next[h])
    BY <2>2, <1>1
  <2>5. CASE <<sy, <<h, k>>>> \in Targets(Pulled)
    <3>1. PICK g \in Hosts, j \in Nat : <<sy, j>> \in Pulled[g] /\ stream[sy][g][j] = <<h, k>>
      <4> DEFINE x == <<h, k>>
      <4>1. <<sy, x>> \in Targets(Pulled)
        BY <2>5
      <4> HIDE DEF x
      <4>2. \E g \in Hosts : \E j \in Nat :
              <<sy, j>> \in Pulled[g] /\ stream[sy][g][j] # Command /\ stream[sy][g][j] = x
        BY <2>1, <4>1, TargetsIs
      <4> QED
        BY <4>2 DEF x
    <3>2. j \in (cursors[g] + 1)..next[g]
      BY <2>2, <3>1
    <3>3. j \in 1..next[g] /\ j \in 1..Len(stream[sy][g])
      <4>1. /\ Len(stream[sy][g]) \in Nat /\ cursors[g] \in Nat /\ next[g] \in Nat
            /\ next[g] <= Len(stream[sy][g])
        BY <2>1, <2>2, Lengths
      <4> QED
        BY <3>2, <4>1
    <3> QED
      BY <1>0, <2>1, <2>4, <3>1, <3>3, DeletedNextIs
  <2>6. CASE <<sy, <<h, k>>>> \notin Targets(Pulled)
    <3>1. <<sy, k>> \notin Range(ram[h]) /\ k \notin (cursors[h] + 1)..next[h]
      BY <2>3, <2>4, <2>6
    <3>2. k \in 1..cursors[h]
      BY <2>4, <3>1
    <3>3. ~(keep > 0 /\ cursors[h] >= k + keep)
      BY <2>4, <1>1
    <3>4. <<h, k>> \in DeletedOn(sy)
      BY <2>0, <2>1, <3>1, <3>2, <3>3 DEF CompleteOK, Searchable, Evicted
    <3>5. PICK g \in Hosts, j \in Nat :
            j \in 1..cursors[g] /\ j \in 1..Len(stream[sy][g]) /\ stream[sy][g][j] = <<h, k>>
      BY <2>1, <2>4, <3>4, DeletedIs
    <3>6. j \in 1..next[g]
      BY <2>2, <3>5
    <3> QED
      BY <1>0, <2>1, <2>4, <3>5, <3>6, DeletedNextIs
  <2> QED
    BY <2>5, <2>6
<1> QED
  BY <1>2, <1>3, <1>4, <1>5, <1>6, <1>7, <1>8, ContentSteps


LEMMA DeletedStep ==
  ASSUME TypeOK, StandingInv, Warm, DiskOK, PullOK, RamOK, DeletedOK, [Next]_vars
  PROVE  DeletedOK'
<1> SUFFICES ASSUME ~mixed', sy' \in Servers PROVE DeletedOK'
  BY DEF DeletedOK
<1>0. TypeOK'
  BY TypeStep
<1>1. CASE UNCHANGED Content
  <2>1. UNCHANGED <<keep, stream, sy, ram, cursors, disk, mixed, early>>
    BY <1>1 DEF Content
  <2>2. /\ DeletedOn(sy)' = DeletedOn(sy)
        /\ \A h \in Hosts : \A k \in Nat : Searchable(h, k)' <=> Searchable(h, k)
        /\ \A h \in Hosts : \A k \in Nat : Late(h, k) => Late(h, k)'
    BY <2>1 DEF Searchable, DeletedOn, Late
  <2> QED
    BY <2>1, <2>2 DEF DeletedOK
<1>2. ASSUME NEW s \in Servers, NEW f \in Hosts, NEW row \in {Command} \cup CommandsOn(s),
             Grow(s, f, row)
      PROVE  DeletedOK'
  <2>1. mixed' = mixed /\ sy' = sy
    BY <1>2 DEF Grow, ghosts
  <2>2. /\ UNCHANGED <<keep, up, sy, ram, cursors, disk, mixed, gap, early>>
        /\ \A h \in Hosts : \A k \in 1..cursors[h] :
             k \in 1..Len(stream[sy][h]) /\ stream'[sy][h][k] = stream[sy][h][k]
        /\ \A h \in Hosts : \A k \in Nat :
             (<<h, k>> \in DeletedOn(sy)') <=> <<h, k>> \in DeletedOn(sy)
    BY <1>0, <1>2, <2>1, GrowKeepsDeleted
  <2> SUFFICES ASSUME NEW h \in Hosts, NEW k \in Nat, <<h, k>> \in DeletedOn(sy)',
                      <<sy, k>> \in Range(ram[h]) \/ k > cursors[h]
               PROVE  Late(h, k)'
    BY <2>2 DEF DeletedOK, Searchable
  <2>3. Late(h, k)
    BY <2>2 DEF DeletedOK, Searchable
  <2> QED
    BY <2>2, <2>3 DEF Late
<1>3. ASSUME NEW s, Start(s) \/ Attach(s) PROVE DeletedOK'
  <2>1. cursors' = Zero
    BY <1>3 DEF Start, Attach, Warm, cache
  <2> QED
    BY <2>1, ZeroCursorsStayOK
<1>4. CASE Crash \/ HydrateDrop \/ Purge
  BY <1>4, ZeroCursorsStayOK DEF Crash, HydrateDrop, Purge
\* Either the file still has the tombstone, which keeps its target out of RAM now, or
\* counts it as early; or the file has lost it.
<1>5. CASE HydrateFold
  <2>0. ~mixed
    BY <1>5 DEF HydrateFold
  <2>1. /\ sy \in Servers
        /\ UNCHANGED <<stream, sy, disk>> /\ cursors' = disk.cur
        /\ early' = early \cup Ahead(disk.recs, disk.cur)
        /\ disk.recs \in [Hosts -> SUBSET ({sy} \X Nat)]
    BY <2>0, <1>5, HydratedIs
  <2>2. \A h \in Hosts : disk.cur[h] \in Nat /\ \A k \in Nat :
          <<sy, k>> \in Range(ram'[h]) =>
            <<sy, <<h, k>>>> \notin Targets(disk.recs)
    BY <2>0, <1>5, HydratedIs
  <2> SUFFICES ASSUME NEW h \in Hosts, NEW k \in Nat, <<h, k>> \in DeletedOn(sy)',
                      <<sy, k>> \in Range(ram'[h]) \/ k > disk.cur[h]
               PROVE  Late(h, k)'
    BY <2>1 DEF DeletedOK, Searchable
  <2>3. PICK g \in Hosts, j \in Nat :
          /\ j \in 1..disk.cur[g] /\ j \in 1..Len(stream[sy][g])
          /\ stream[sy][g][j] = <<h, k>>
    BY <1>0, <2>1, DeletedNextIs
  <2>4. CASE <<sy, j>> \notin disk.recs[g]
    BY <2>1, <2>3, <2>4 DEF Late
  <2>5. CASE <<sy, j>> \in disk.recs[g]
    <3> DEFINE recs == disk.recs
               x == <<h, k>>
    <3>1. /\ <<sy, j>> \in recs[g] /\ recs \in [Hosts -> SUBSET ({sy} \X Nat)]
          /\ stream[sy][g][j] = x /\ x # Command
      BY <2>1, <2>3, <2>5 DEF Command
    <3> HIDE DEF recs, x
    <3>2. <<sy, x>> \in Targets(recs)
      BY <2>1, <2>3, <3>1, TargetsIs
    <3>3. k > disk.cur[h]
      BY <2>2, <3>2 DEF recs, x
    <3>4. <<sy, <<h, k>>>> \in Ahead(disk.recs, disk.cur)
      BY <3>2, <3>3 DEF Ahead, recs, x
    <3> QED
      BY <2>1, <3>4 DEF Late
  <2> QED
    BY <2>4, <2>5
\* A write adds rows above the cursors only.
<1>6. ASSUME NEW f \in Hosts, NEW ok \in BOOLEAN, BankHost(f, ok) PROVE DeletedOK'
  <2>1. /\ ~mixed /\ csy \in Servers /\ pc = "bank"
        /\ UNCHANGED <<keep, stream, sy, ram, cursors, early>>
        /\ ~ok => UNCHANGED disk
    BY <1>6, BankedIs
  <2>2. base = cursors
    BY <2>1 DEF PullOK
  <2>3. ASSUME NEW g \in Hosts, NEW j \in 1..cursors[g], <<sy, j>> \notin disk.recs[g]
        PROVE  <<sy, j>> \notin disk'.recs[g]
    <3>1. CASE ~ok
      BY <3>1, <2>1, <2>3
    <3>2. CASE ok /\ g # f
      <4>1. disk'.recs[g] = disk.recs[g]
        BY <3>2, <1>6, BankedIs
      <4> QED
        BY <4>1, <2>3
    <3>3. CASE ok /\ g = f
      <4>1. disk'.recs[f] \in SUBSET (disk.recs[f] \cup Fresh(f))
        BY <3>3, <1>6, BankedIs
      <4>2. \A r \in Fresh(f) : r[2] \in (base[f] + 1)..next[f]
        BY <2>1, FreshIs
      <4>3. <<sy, j>> \notin Fresh(f)
        <5> DEFINE r == <<sy, j>>
        <5>1. r[2] = j /\ cursors[g] \in Nat /\ base[f] \in Nat /\ next[f] \in Nat
          BY DEF TypeOK
        <5>2. ~(j \in (base[f] + 1)..next[f])
          BY <5>1, <3>3, <2>2
        <5> HIDE DEF r
        <5>3. r \notin Fresh(f)
          BY <5>1, <5>2, <4>2
        <5> QED
          BY <5>3 DEF r
      <4> QED
        BY <3>3, <4>1, <4>3, <2>3
    <3> QED
      BY <3>1, <3>2, <3>3
  <2> SUFFICES ASSUME NEW h \in Hosts, NEW k \in Nat, <<h, k>> \in DeletedOn(sy)',
                      <<sy, k>> \in Range(ram[h]) \/ k > cursors[h]
               PROVE  Late(h, k)'
    BY <2>1 DEF DeletedOK, Searchable
  <2>4. <<h, k>> \in DeletedOn(sy)
    BY <2>1 DEF DeletedOn
  <2>5. Late(h, k)
    BY <2>1, <2>4 DEF DeletedOK, Searchable
  <2> QED
    BY <2>1, <2>3, <2>5 DEF Late
\* An old tombstone's target was late already; a new one removes its target, or comes
\* before it.
<1>7. CASE FoldPulled
  <2>0. ~mixed
    BY <1>7 DEF FoldPulled
  <2>1. /\ sy \in Servers /\ UNCHANGED <<stream, sy, disk>> /\ cursors' = next
        /\ early' = early \cup Ahead(Pulled, next)
        /\ Pulled \in [Hosts -> SUBSET ({sy} \X Nat)]
    BY <2>0, <1>7, PulledIs
  <2>2. \A h \in Hosts :
          /\ cursors[h] \in Nat /\ next[h] \in Nat /\ cursors[h] <= next[h]
          /\ \A k \in Nat : <<sy, k>> \in Pulled[h] <=> k \in (cursors[h] + 1)..next[h]
    BY <2>0, <1>7, PulledIs
  <2>3. \A h \in Hosts : \A k \in Nat :
          <<sy, k>> \in Range(ram'[h]) =>
            /\ <<sy, k>> \in Range(ram[h]) \/ k \in (cursors[h] + 1)..next[h]
            /\ <<sy, <<h, k>>>> \notin Targets(Pulled)
    BY <2>0, <1>7, PulledIs
  <2> SUFFICES ASSUME NEW h \in Hosts, NEW k \in Nat, <<h, k>> \in DeletedOn(sy)',
                      <<sy, k>> \in Range(ram'[h]) \/ k > next[h]
               PROVE  Late(h, k)'
    BY <2>1 DEF DeletedOK, Searchable
  <2>4. PICK g \in Hosts, j \in Nat :
          /\ j \in 1..next[g] /\ j \in 1..Len(stream[sy][g])
          /\ stream[sy][g][j] = <<h, k>>
    BY <1>0, <2>1, DeletedNextIs
  <2>5. CASE j <= cursors[g]
    <3>1. <<h, k>> \in DeletedOn(sy)
      <4>1. j \in 1..cursors[g]
        BY <2>2, <2>4, <2>5
      <4> QED
        BY <4>1, <2>1, <2>4, DeletedIs
    <3>2. <<sy, k>> \in Range(ram[h]) \/ k > cursors[h]
      <4>1. cursors[h] \in Nat /\ next[h] \in Nat /\ cursors[h] <= next[h]
        BY <2>2
      <4>2. CASE <<sy, k>> \in Range(ram'[h])
        <5>1. <<sy, k>> \in Range(ram[h]) \/ k \in (cursors[h] + 1)..next[h]
          BY <4>2, <2>3
        <5> QED
          BY <5>1, <4>1
      <4>3. CASE k > next[h]
        BY <4>1, <4>3
      <4> QED
        BY <4>2, <4>3
    <3>3. Late(h, k)
      BY <2>0, <2>1, <3>1, <3>2 DEF DeletedOK, Searchable
    <3>4. \A f \in Hosts : \A i \in 1..cursors[f] : i \in 1..next[f]
      BY <2>2
    <3> QED
      BY <2>1, <3>3, <3>4 DEF Late
  <2>6. CASE ~(j <= cursors[g])
    <3> DEFINE x == <<h, k>>
    <3>1. <<sy, j>> \in Pulled[g]
      <4>1. j \in (cursors[g] + 1)..next[g]
        BY <2>2, <2>4, <2>6
      <4> QED
        BY <4>1, <2>2
    <3>2. stream[sy][g][j] = x /\ x # Command
      BY <2>4 DEF Command
    <3> HIDE DEF x
    <3>3. <<sy, x>> \in Targets(Pulled)
      BY <2>1, <2>4, <3>1, <3>2, TargetsIs
    <3>4. k > next[h]
      BY <2>3, <3>3 DEF x
    <3>5. <<sy, <<h, k>>>> \in Ahead(Pulled, next)
      BY <3>3, <3>4 DEF Ahead, x
    <3> QED
      BY <2>1, <3>5 DEF Late
  <2> QED
    BY <2>5, <2>6
<1> QED
  BY <1>1, <1>2, <1>3, <1>4, <1>5, <1>6, <1>7, ContentSteps
-------------------------------------------------------------------------------
(* The theorems *)

LEMMA CacheInit == Init => CacheInv
<1> SUFFICES ASSUME Init PROVE CacheInv
  OBVIOUS
<1>1. TypeOK /\ StandingInv
  BY TypeInit, StandingInit
<1>2. Warm /\ PullOK /\ RamOK
  BY DEF Init, Warm, PullOK, RamOK
<1>4. CompleteOK /\ DeletedOK
  <2>1. \A h \in Hosts : cursors[h] = 0
    BY DEF Init, Zero
  <2>2. DeletedOn(sy) = {}
    BY <2>1 DEF DeletedOn
  <2> QED
    BY <2>1, <2>2 DEF CompleteOK, DeletedOK
<1>3. DiskOK
  <2> SUFFICES ASSUME NEW s \in Servers, NEW h \in Hosts
               PROVE  /\ disk.cur[h] <= Len(stream[s][h])
                      /\ \A r \in disk.recs[h] : r[2] \in 1..disk.cur[h]
                      /\ disk.cur[h] > 0 => <<s, disk.cur[h]>> \in disk.recs[h]
                      /\ keep > 0 => Cardinality(disk.recs[h]) <= keep
                      /\ \A k \in 1..disk.cur[h] :
                           \/ <<s, k>> \in disk.recs[h]
                           \/ <<s, <<h, k>>>> \in gap
                           \/ keep > 0 /\ k + keep <= disk.cur[h]
    BY DEF DiskOK, FileGood
  <2>1. disk.recs[h] = {} /\ disk.cur[h] = 0
    BY DEF Init, EmptyFile, Nothing, Zero
  <2>2. Cardinality({}) = 0
    BY FS_EmptySet
  <2>3. Len(stream[s][h]) \in Nat /\ keep \in Nat
    BY <1>1, Lengths DEF TypeOK
  <2> QED
    BY <2>1, <2>2, <2>3
<1> QED
  BY <1>1, <1>2, <1>3, <1>4 DEF CacheInv

LEMMA CacheStep == CacheInv /\ [Next]_vars => CacheInv'
<1> SUFFICES ASSUME CacheInv, [Next]_vars PROVE CacheInv'
  OBVIOUS
<1>1. TypeOK /\ StandingInv /\ Warm /\ DiskOK /\ PullOK /\ RamOK /\ CompleteOK /\ DeletedOK
  BY DEF CacheInv
<1> QED
  BY <1>1, TypeStep, StandingStep, WarmStep, DiskStep, PullStep, RamStep, CompleteStep,
     DeletedStep DEF CacheInv

\* Every reachable state is a typed one in which CacheInv holds: what RAM, the cursors
\* and remote.db say of the server's streams (daemon/remote.go, rstore).
THEOREM CacheIsSound == Spec => []CacheInv
<1> QED
  BY CacheInit, CacheStep, PTL DEF Spec

LEMMA FaithfulHolds == CacheInv => RamFaithful
<1> SUFFICES ASSUME CacheInv, NEW h \in Hosts
             PROVE  /\ keep > 0 => Len(ram[h]) <= keep \/ mixed
                    /\ ~mixed => \A i \in DOMAIN ram[h] :
                                    /\ ram[h][i][1] = sy
                                    /\ \A j \in 1..(i - 1) : ram[h][j][2] < ram[h][i][2]
  BY DEF RamFaithful
<1>1. keep \in Nat /\ mixed \in BOOLEAN
  BY DEF CacheInv, TypeOK
<1>2. CASE mixed
  BY <1>2
<1>3. CASE ~mixed /\ ~up
  <2>1. ram[h] = << >>
    BY <1>3 DEF CacheInv, Warm, EmptyRam
  <2> QED
    BY <2>1, <1>1
<1>4. CASE ~mixed /\ up
  <2>1. (keep > 0 => Len(ram[h]) <= keep) /\ \E c \in Nat : Ordered(ram[h], sy, c)
    BY <1>4 DEF CacheInv, RamOK
  <2>2. PICK c \in Nat : Ordered(ram[h], sy, c)
    BY <2>1
  <2> DEFINE q == ram[h]
  <2>3. Ordered(q, sy, c)
    BY <2>2
  <2> HIDE DEF q
  <2>4. q \in Seq({sy} \X (1..c)) /\ \A i, j \in DOMAIN q : i < j => q[i][2] < q[j][2]
    BY <2>3 DEF Ordered
  <2>5. Len(q) \in Nat /\ DOMAIN q = 1..Len(q) /\ \A i \in DOMAIN q : q[i] \in {sy} \X (1..c)
    BY <2>4
  <2>6. ASSUME NEW i \in DOMAIN q
        PROVE  q[i][1] = sy /\ \A j \in 1..(i - 1) : q[j][2] < q[i][2]
    <3>1. q[i][1] = sy
      BY <2>5
    <3>2. \A j \in 1..(i - 1) : j \in DOMAIN q /\ j < i
      BY <2>5
    <3> QED
      BY <3>1, <3>2, <2>4
  <2> QED
    BY <2>1, <2>6 DEF q
<1> QED
  BY <1>1, <1>2, <1>3, <1>4 DEF CacheInv, TypeOK

\* The records a search sees are the attached server's, each once, oldest first and no
\* more than remote_keep, whatever fails, dies or is re-pointed (foldRemote,
\* pruneLocked, attach).
THEOREM RamIsFaithful == Spec => []RamFaithful
<1> QED
  BY CacheIsSound, FaithfulHolds, PTL

LEMMA CompleteHolds == CacheInv => CacheComplete
<1> SUFFICES ASSUME CacheInv, sy # Off, ~mixed, NEW h \in Hosts, NEW k \in 1..MaxRows,
                    Missed(h, k)
             PROVE  <<sy, <<h, k>>>> \in gap
  BY DEF CacheComplete
<1>1. sy \in Servers /\ cursors[h] \in Nat /\ k \in Nat
  BY DEF CacheInv, TypeOK
<1>2. /\ k <= cursors[h] /\ <<h, k>> \in CommandsOn(sy)
      /\ ~Searchable(h, k) /\ <<h, k>> \notin DeletedOn(sy) /\ ~Evicted(h, k)
  BY DEF Missed
<1>3. k \in 1..cursors[h] /\ stream[sy][h][k] = Command
  BY <1>1, <1>2 DEF CommandsOn
<1> QED
  BY <1>1, <1>2, <1>3 DEF CacheInv, CompleteOK

\* A cursor never moves past a command that this machine then lacks, but for the rows
\* that a failed write to remote.db left out (syncOnce, cacheCiphertext, hydrate).
THEOREM CacheIsComplete == Spec => []CacheComplete
<1> QED
  BY CacheIsSound, CompleteHolds, PTL

LEMMA DeletedHolds == CacheInv => DeletedStaysGone
<1> SUFFICES ASSUME CacheInv, sy # Off, ~mixed, NEW h \in Hosts, NEW k \in 1..MaxRows,
                    Searchable(h, k), <<h, k>> \in DeletedOn(sy)
             PROVE  Late(h, k)
  BY DEF DeletedStaysGone, Late
<1>1. sy \in Servers /\ k \in Nat
  BY DEF CacheInv, TypeOK
<1> QED
  BY <1>1 DEF CacheInv, DeletedOK

\* A command whose tombstone was pulled does not come back, but for a tombstone folded
\* before its target, or lost from remote.db (foldRemote, hydrate).
THEOREM DeletedStays == Spec => []DeletedStaysGone
<1> QED
  BY CacheIsSound, DeletedHolds, PTL
===============================================================================

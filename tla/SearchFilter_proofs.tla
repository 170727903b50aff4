-------------------------- MODULE SearchFilter_proofs --------------------------
(***************************************************************************)
(* What the filter answers, for every alphabet, corpus and sequence of     *)
(* queries.  The matcher's part is Narrowing: when no character outside    *)
(* ASCII folds into ASCII, a longer query matches no row that a prefix of  *)
(* it does not.                                                            *)
(***************************************************************************)
EXTENDS SearchFilter, SequenceTheorems, WellFoundedInduction, TLAPS

\* A set of natural numbers that has an element has a least one.
LEMMA LeastElement ==
    ASSUME NEW T \in SUBSET Nat, T # {}
    PROVE  \E x \in T : \A y \in T : ~(y < x)
  <1>1. \E x \in T : \A y \in T : ~(<<y, x>> \in OpToRel(<, Nat))
    BY NatLessThanWellFounded, WFMin
  <1> QED
    BY <1>1 DEF OpToRel

\* A term of a query begins a term of every longer query.
LEMMA TermExtends ==
    ASSUME NEW p \in Text, NEW q \in Text, HasPrefix(q, p), NEW t \in Terms(p)
    PROVE  \E u \in Terms(q) :
             /\ u \in Text /\ t \in Text /\ Len(t) <= Len(u)
             /\ \A k \in 1..Len(t) : u[k] = t[k]
  <1>1. PICK a \in 1..Len(p), b \in 1..Len(p) :
            /\ t = SubSeq(p, a, b) /\ a <= b
            /\ \A k \in a..b : p[k] # Space
            /\ a = 1 \/ p[a - 1] = Space
    BY DEF Terms, Spans
  <1>2. /\ Len(p) \in Nat /\ Len(q) \in Nat /\ Len(p) <= Len(q)
        /\ \A k \in 1..Len(p) : q[k] = p[k] /\ p[k] \in Chars
        /\ \A k \in 1..Len(q) : q[k] \in Chars
    BY DEF HasPrefix, Text
  <1> DEFINE Ends == {e \in b..Len(q) : e = Len(q) \/ q[e + 1] = Space}
  <1>3. PICK e \in Ends : \A d \in Ends : ~(d < e)
    <2>1. Len(q) \in Ends /\ Ends \in SUBSET Nat
      BY <1>2
    <2> QED
      BY <2>1, LeastElement
  <1>4. \A k \in a..e : q[k] # Space
    <2>1. ASSUME NEW k \in a..e, k > b  PROVE q[k] # Space
      <3>1. k - 1 \in b..Len(q) /\ k - 1 < e /\ (k - 1) + 1 = k /\ k - 1 # Len(q)
        BY <2>1, <1>2
      <3> QED
        BY <3>1, <1>3
    <2>2. ASSUME NEW k \in a..e, ~(k > b)  PROVE q[k] # Space
      <3>1. k \in a..b /\ k \in 1..Len(p)
        BY <2>2, <1>1, <1>2
      <3> QED
        BY <3>1, <1>1, <1>2
    <2> QED
      BY <2>1, <2>2
  <1>5. <<a, e>> \in Spans(q)
    <2>1. a \in 1..Len(q) /\ e \in 1..Len(q) /\ a <= e
      BY <1>1, <1>2, <1>3
    <2>2. a = 1 \/ q[a - 1] = Space
      BY <1>1, <1>2
    <2>3. e = Len(q) \/ q[e + 1] = Space
      BY <1>3
    <2> QED
      BY <2>1, <2>2, <2>3, <1>4 DEF Spans
  <1> DEFINE u == SubSeq(q, a, e)
  <1>6. u \in Terms(q)
    BY <1>5 DEF Terms
  <1>7. a \in Int /\ b \in Int /\ e \in Int /\ a <= b /\ b <= e /\ 1 <= a /\ e <= Len(q)
    BY <1>1, <1>2, <1>3
  <1>8. /\ u \in Seq(Chars) /\ Len(u) = e - a + 1
        /\ \A i \in 1..(e - a + 1) : u[i] = q[a + i - 1]
    <2>1. \A i \in a..e : q[i] \in Chars
      BY <1>2, <1>7
    <2> QED
      BY <2>1, <1>7, SubSeqProperties
  <1>9. /\ t \in Seq(Chars) /\ Len(t) = b - a + 1
        /\ \A i \in 1..(b - a + 1) : t[i] = p[a + i - 1]
    <2>1. \A i \in a..b : p[i] \in Chars
      BY <1>1, <1>2
    <2> QED
      BY <2>1, <1>1, <1>7, SubSeqProperties
  <1>10. \A k \in 1..Len(t) : u[k] = t[k]
    <2> TAKE k \in 1..Len(t)
    <2>1. k \in 1..(e - a + 1) /\ k \in 1..(b - a + 1) /\ a + k - 1 \in 1..Len(p)
      BY <1>1, <1>2, <1>7, <1>9
    <2> QED
      BY <2>1, <1>2, <1>8, <1>9
  <1>11. u \in Text /\ t \in Text
    BY <1>8, <1>9 DEF Text
  <1>12. Len(t) <= Len(u)
    BY <1>7, <1>8, <1>9
  <1> HIDE DEF u
  <1> QED
    BY <1>6, <1>10, <1>11, <1>12

\* What matches a term matches its beginning.
LEMMA TermPrefixMatches ==
    ASSUME PlainFolding, NEW s \in Text, NEW t \in Text, NEW u \in Text, Len(t) <= Len(u),
           \A k \in 1..Len(t) : u[k] = t[k], TermMatches(u, s)
    PROVE  TermMatches(t, s)
  <1>1. /\ Len(t) \in Nat /\ Len(u) \in Nat /\ Len(s) \in Nat
        /\ \A k \in 1..Len(t) : t[k] \in Chars /\ k \in 1..Len(u) /\ u[k] = t[k]
        /\ \A k \in 1..Len(s) : s[k] \in Chars
    BY DEF Text
  <1>2. (HasUpper(t) => HasUpper(u)) /\ (IsAscii(u) => IsAscii(t))
    BY <1>1 DEF HasUpper, IsAscii
  <1>3. CASE HasUpper(u) /\ Contains(s, u)
    <2>1. PICK i \in 0..Len(s) : i + Len(u) <= Len(s) /\ \A k \in 1..Len(u) : s[i + k] = u[k]
      BY <1>3 DEF Contains
    <2>2. i + Len(t) <= Len(s) /\ \A k \in 1..Len(t) : s[i + k] = t[k]
      BY <2>1, <1>1
    <2>3. Contains(s, t) /\ ContainsFold(s, t)
      BY <2>2 DEF Contains, ContainsFold
    <2>4. ~HasUpper(t) /\ IsAscii(t) => ContainsFoldAscii(s, t)
      <3> HAVE ~HasUpper(t) /\ IsAscii(t)
      <3>1. \A k \in 1..Len(t) : AsciiLower(t[k]) = LowerOf[t[k]]
        BY CharsAssumption DEF AsciiLower, HasUpper, IsAscii
      <3>2. \A k \in 1..Len(t) : AsciiLower(s[i + k]) = LowerOf[t[k]]
        BY <3>1, <2>2
      <3> QED
        BY <3>2, <2>2 DEF ContainsFoldAscii
    <2> QED
      BY <2>3, <2>4 DEF TermMatches
  <1>4. CASE ~HasUpper(u) /\ IsAscii(u) /\ ContainsFoldAscii(s, u)
    <2>1. PICK i \in 0..Len(s) :
            /\ i + Len(u) <= Len(s)
            /\ \A k \in 1..Len(u) : AsciiLower(s[i + k]) = LowerOf[u[k]]
      BY <1>4 DEF ContainsFoldAscii
    <2>2. i + Len(t) <= Len(s) /\ \A k \in 1..Len(t) : AsciiLower(s[i + k]) = LowerOf[t[k]]
      BY <2>1, <1>1
    <2> QED
      BY <2>2, <1>2, <1>4 DEF TermMatches, ContainsFoldAscii
  <1>5. CASE ~HasUpper(u) /\ ~IsAscii(u) /\ ContainsFold(s, u)
    <2>1. PICK i \in 0..Len(s) :
            /\ i + Len(u) <= Len(s)
            /\ \A k \in 1..Len(u) : LowerOf[s[i + k]] = LowerOf[u[k]]
      BY <1>5 DEF ContainsFold
    <2>2. i + Len(t) <= Len(s) /\ \A k \in 1..Len(t) : LowerOf[s[i + k]] = LowerOf[t[k]]
      BY <2>1, <1>1
    <2>3. ContainsFold(s, t) /\ ~HasUpper(t)
      BY <2>2, <1>2, <1>5 DEF ContainsFold
    <2>4. ASSUME IsAscii(t)  PROVE \A k \in 1..Len(t) : AsciiLower(s[i + k]) = LowerOf[t[k]]
      <3> TAKE k \in 1..Len(t)
      <3>1. t[k] \in Ascii /\ LowerOf[t[k]] \in Ascii
        BY <2>4, CharsAssumption DEF IsAscii
      <3>2. i + k \in 1..Len(s)
        BY <2>2, <1>1
      <3>3. s[i + k] \in Chars /\ LowerOf[s[i + k]] = LowerOf[t[k]]
        BY <3>2, <2>2, <1>1
      <3>4. s[i + k] \in Ascii
        BY <3>1, <3>3 DEF PlainFolding
      <3> QED
        BY <3>3, <3>4, CharsAssumption DEF AsciiLower
    <2> QED
      BY <2>2, <2>3, <2>4 DEF TermMatches, ContainsFoldAscii
  <1> QED
    BY <1>3, <1>4, <1>5 DEF TermMatches

\* filter.go: "a row that failed it cannot pass a narrower query".
LEMMA Narrowing ==
    ASSUME PlainFolding, NEW p \in Text, NEW q \in Text, HasPrefix(q, p),
           NEW s \in Text, Matches(q, s)
    PROVE  Matches(p, s)
  <1> SUFFICES ASSUME NEW t \in Terms(p)  PROVE TermMatches(t, s)
    BY DEF Matches
  <1>1. PICK u \in Terms(q) :
            /\ u \in Text /\ t \in Text /\ Len(t) <= Len(u)
            /\ \A k \in 1..Len(t) : u[k] = t[k]
    BY TermExtends
  <1>2. TermMatches(u, s)
    BY DEF Matches
  <1> QED
    BY <1>1, <1>2, TermPrefixMatches

-------------------------------------------------------------------------------
(* The filter *)

\* The filter starts with nothing.
LEMMA Start == Init => TypeOK /\ answer.rows = {} /\ cmds = << >> /\ answer.cmds = << >> /\ DOMAIN cmds = {}
  <1> SUFFICES ASSUME Init  PROVE TypeOK /\ answer.rows = {} /\ answer.cmds = << >> /\ DOMAIN cmds = {}
    BY DEF Init
  <1>1. << >> \in Seq(Commands) /\ DOMAIN << >> = {}
    OBVIOUS
  <1>2. answer.rows = {} /\ answer.cmds = << >> /\ answer.q = << >>
    BY DEF Init
  <1> QED
    BY <1>1, <1>2 DEF Init, TypeOK

LEMMA EmptyText == << >> \in Text
  BY DEF Text

\* Every action keeps the types.
LEMMA TypesKept == TypeOK /\ [Next]_vars => TypeOK'
  <1> SUFFICES ASSUME TypeOK, [Next]_vars  PROVE TypeOK'
    OBVIOUS
  <1> USE DEF TypeOK
  <1>0. Len(cmds) \in Nat /\ DOMAIN cmds = 1..Len(cmds)
    OBVIOUS
  <1>1. ASSUME NEW c \in Commands, AppendRow(c)  PROVE TypeOK'
    BY <1>1 DEF AppendRow
  <1>2. ASSUME NEW n \in DOMAIN cmds, DropRow(n)  PROVE TypeOK'
    <2>1. cmds' \in Seq(Commands)
      <3>1. \A k \in 1..(Len(cmds) - 1) : k \in DOMAIN cmds /\ k + 1 \in DOMAIN cmds
        BY <1>0
      <3>2. cmds' \in [1..(Len(cmds) - 1) -> Commands]
        BY <3>1, <1>2, <1>0 DEF DropRow
      <3>3. Len(cmds) - 1 \in Nat
        BY <1>0
      <3> QED
        BY <3>2, <3>3
    <2> QED
      BY <1>2, <2>1 DEF DropRow
  <1>3. ASSUME NEW q \in Queries, Query(q)  PROVE TypeOK'
    <2>1. matched' \in SUBSET Nat
      <3>1. (prevLen + 1)..Len(cmds) \in SUBSET Nat /\ 1..Len(cmds) \in SUBSET Nat
        BY <1>0
      <3>2. Scanned(q) \in SUBSET Nat
        BY <3>1, <1>0 DEF Scanned
      <3> QED
        BY <3>2, <1>3 DEF Query, Rows
    <2>2. tainted' \in BOOLEAN
      BY <1>3 DEF Query
    <2> QED
      BY <1>3, <1>0, <2>1, <2>2 DEF Query
  <1>4. CASE UNCHANGED vars
    BY <1>4 DEF vars
  <1> QED
    BY <1>1, <1>2, <1>3, <1>4 DEF Next

\* The variables stay in their types.
THEOREM FilterTypes == Spec => []TypeOK
  <1>1. Init => TypeOK
    BY Start
  <1> QED
    BY <1>1, TypesKept, PTL DEF Spec

\* No index of the match set is beyond the corpus it was computed on.
InRange == matched \subseteq 1..prevLen

\* Apply only looks at rows of the corpus it is given.
LEMMA ScansCorpus ==
    ASSUME TypeOK, InRange, NEW q
    PROVE  Scanned(q) \subseteq 1..Len(cmds)
  <1>1. Len(cmds) \in Nat /\ DOMAIN cmds = 1..Len(cmds) /\ prevLen \in Nat
    BY DEF TypeOK
  <1>2. CASE Incremental(q)
    <2>1. matched \subseteq 1..Len(cmds)
      BY <1>1, <1>2 DEF Incremental, InRange
    <2>2. (prevLen + 1)..Len(cmds) \subseteq 1..Len(cmds)
      BY <1>1
    <2> QED
      BY <1>2, <2>1, <2>2 DEF Scanned
  <1>3. CASE ~Incremental(q)
    BY <1>1, <1>3 DEF Scanned
  <1> QED
    BY <1>2, <1>3

\* An answer never names a row that does not exist or does not match: an
\* incremental scan is only taken when the corpus is at least as long.
THEOREM AnswersMatch == Spec => []ShowsOnlyMatches
  <1> DEFINE IInv == TypeOK /\ InRange /\ ShowsOnlyMatches
  <1>1. Init => IInv
    BY Start DEF Init, InRange, ShowsOnlyMatches
  <1>2. IInv /\ [Next]_vars => IInv'
    <2> SUFFICES ASSUME IInv, [Next]_vars  PROVE InRange' /\ ShowsOnlyMatches'
      BY TypesKept
    <2>1. ASSUME NEW c \in Commands, AppendRow(c)  PROVE InRange' /\ ShowsOnlyMatches'
      BY <2>1 DEF AppendRow, InRange, ShowsOnlyMatches
    <2>2. ASSUME NEW n \in DOMAIN cmds, DropRow(n)  PROVE InRange' /\ ShowsOnlyMatches'
      BY <2>2 DEF DropRow, InRange, ShowsOnlyMatches
    <2>3. ASSUME NEW q \in Queries, Query(q)  PROVE InRange' /\ ShowsOnlyMatches'
      <3>1. Len(cmds) \in Nat /\ DOMAIN cmds = 1..Len(cmds) /\ prevLen \in Nat
        BY DEF TypeOK
      <3>2. Scanned(q) \subseteq 1..Len(cmds)
        BY ScansCorpus
      <3>3. Rows(q) \subseteq FullScan(q, cmds)
        BY <3>1, <3>2 DEF Rows, FullScan
      <3>4. InRange'
        BY <2>3, <3>2 DEF Query, Rows, InRange
      <3>5. answer'.cmds = cmds /\ answer'.q = q /\ answer'.rows = Rows(q)
        BY <2>3 DEF Query
      <3> QED
        BY <3>3, <3>4, <3>5 DEF ShowsOnlyMatches
    <2>4. CASE UNCHANGED vars
      BY <2>4 DEF vars, InRange, ShowsOnlyMatches
    <2> QED
      BY <2>1, <2>2, <2>3, <2>4 DEF Next
  <1> QED
    BY <1>1, <1>2, PTL DEF Spec

\* Until a row is dropped, the match set is the full scan of what the last
\* query saw, which is a prefix of the corpus.
MatchedIsScan ==
    ~tainted /\ ~dropped =>
        /\ prevLen <= Len(cmds)
        /\ \A n \in 1..prevLen : n \in matched <=> Matches(prevQuery, cmds[n])

\* With plain folding, an answer misses a matching row only when the match set
\* was carried across a deletion.
THEOREM AnswersComplete == PlainFolding => (Spec => []MissesOnlyAfterDrop)
  <1> SUFFICES ASSUME PlainFolding  PROVE Spec => []MissesOnlyAfterDrop
    OBVIOUS
  <1> DEFINE IInv == TypeOK /\ InRange /\ MatchedIsScan /\ MissesOnlyAfterDrop
  <1>1. Init => IInv
    BY Start DEF Init, InRange, MatchedIsScan, MissesOnlyAfterDrop, FullScan
  <1>2. IInv /\ [Next]_vars => IInv'
    <2> SUFFICES ASSUME IInv, [Next]_vars
                 PROVE  InRange' /\ MatchedIsScan' /\ MissesOnlyAfterDrop'
      BY TypesKept
    <2>0. /\ Len(cmds) \in Nat /\ DOMAIN cmds = 1..Len(cmds) /\ prevLen \in Nat
          /\ prevQuery \in Text /\ \A n \in 1..Len(cmds) : cmds[n] \in Text
      BY EmptyText, FilterAssumption DEF TypeOK
    <2>1. ASSUME NEW c \in Commands, AppendRow(c)
          PROVE  InRange' /\ MatchedIsScan' /\ MissesOnlyAfterDrop'
      <3>1. Len(cmds') = Len(cmds) + 1 /\ \A n \in 1..Len(cmds) : cmds'[n] = cmds[n]
        BY <2>1 DEF AppendRow, TypeOK
      <3>2. MatchedIsScan'
        BY <3>1, <2>0, <2>1 DEF AppendRow, MatchedIsScan
      <3> QED
        BY <3>2, <2>1 DEF AppendRow, InRange, MissesOnlyAfterDrop
    <2>2. ASSUME NEW n \in DOMAIN cmds, DropRow(n)
          PROVE  InRange' /\ MatchedIsScan' /\ MissesOnlyAfterDrop'
      BY <2>2 DEF DropRow, InRange, MatchedIsScan, MissesOnlyAfterDrop
    <2>3. ASSUME NEW q \in Queries, Query(q)
          PROVE  InRange' /\ MatchedIsScan' /\ MissesOnlyAfterDrop'
      <3>1. Scanned(q) \subseteq 1..Len(cmds)
        BY ScansCorpus
      <3>2. ASSUME ~tainted'  PROVE Rows(q) = FullScan(q, cmds)
        <4> SUFFICES ASSUME NEW n \in 1..Len(cmds), Matches(q, cmds[n])  PROVE n \in Scanned(q)
          BY <2>0, <3>1 DEF Rows, FullScan
        <4>1. CASE ~Incremental(q)
          BY <4>1, <2>0 DEF Scanned
        <4>2. CASE Incremental(q) /\ n > prevLen
          BY <4>2, <2>0 DEF Scanned
        <4>3. CASE Incremental(q) /\ ~(n > prevLen)
          <5>1. ~tainted /\ ~dropped
            BY <4>3, <2>3, <3>2 DEF Query
          <5>2. q \in Text /\ cmds[n] \in Text /\ HasPrefix(q, prevQuery)
            BY <4>3, <2>0, FilterAssumption DEF Incremental
          <5>3. Matches(prevQuery, cmds[n])
            BY <5>2, <2>0, Narrowing
          <5>4. n \in 1..prevLen
            BY <4>3, <2>0
          <5> QED
            BY <5>1, <5>3, <5>4, <4>3 DEF MatchedIsScan, Scanned
        <4> QED
          BY <4>1, <4>2, <4>3
      <3>3. /\ matched' = Rows(q) /\ prevLen' = Len(cmds) /\ prevQuery' = q /\ cmds' = cmds
            /\ answer'.cmds = cmds /\ answer'.q = q /\ answer'.rows = Rows(q)
        BY <2>3 DEF Query
      <3>4. InRange'
        BY <3>1, <3>3 DEF InRange, Rows
      <3>5. MatchedIsScan'
        BY <3>2, <3>3, <2>0 DEF MatchedIsScan, FullScan
      <3>6. MissesOnlyAfterDrop'
        BY <3>2, <3>3 DEF MissesOnlyAfterDrop
      <3> QED
        BY <3>4, <3>5, <3>6
    <2>4. CASE UNCHANGED vars
      BY <2>4 DEF vars, InRange, MatchedIsScan, MissesOnlyAfterDrop
    <2> QED
      BY <2>1, <2>2, <2>3, <2>4 DEF Next
  <1>3. IInv => MissesOnlyAfterDrop
    OBVIOUS
  <1> QED
    BY <1>1, <1>2, <1>3, PTL DEF Spec

\* Where no character outside ASCII folds into it, answers are right.
THEOREM AnswersAreRight == PlainFolding => (Spec => []AnswersRight)
  <1> SUFFICES ASSUME PlainFolding  PROVE Spec => []AnswersRight
    OBVIOUS
  <1>1. Spec => []MissesOnlyAfterDrop
    BY AnswersComplete
  <1>2. ShowsOnlyMatches /\ MissesOnlyAfterDrop => AnswersRight
    BY DEF AnswersRight
  <1> QED
    BY <1>1, <1>2, AnswersMatch, PTL
===============================================================================

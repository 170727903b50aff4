------------------------------ MODULE SearchFilter ------------------------------
(***************************************************************************)
(* Search as you type (internal/match/filter.go, internal/daemon/query.go):*)
(* a connection's Filter remembers which rows matched the query so far and *)
(* re-tests only those while the query grows, on a corpus that other       *)
(* goroutines append to and, when a record is deleted, rebuild.            *)
(*                                                                         *)
(* runQuery copies the slice headers under a read lock and no row below    *)
(* the copied length is ever overwritten, so one query sees one corpus and *)
(* is one step here.  A connection's requests are handled in order.        *)
(***************************************************************************)
EXTENDS Match, FiniteSets

CONSTANTS
    Commands,   \* the texts of commands
    Queries,    \* the query strings a client may send
    MaxRows,    \* bounds the length of the corpus
    MayDrop     \* whether records are deleted

ASSUME FilterAssumption ==
    /\ Commands \subseteq Text /\ Queries \subseteq Text
    /\ MaxRows \in Nat /\ MayDrop \in BOOLEAN

VARIABLES
    cmds,       \* the corpus's commands
    prevQuery,  \* Filter: the query of the last Apply
    prevLen,    \* Filter: the length of the corpus it saw
    matched,    \* Filter: the rows that matched, as a set of indices
    answer,     \* what the last query returned: the corpus, the query, the rows
    dropped,    \* history variable: rows were dropped since the last Apply
    tainted     \* history variable: the match set was carried across a drop

vars == <<cmds, prevQuery, prevLen, matched, answer, dropped, tainted>>

\* The definition of a right answer: every row that matches, and no other.
FullScan(q, cs) == {n \in DOMAIN cs : Matches(q, cs[n])}

Init ==
    /\ cmds = << >> /\ prevQuery = << >> /\ prevLen = 0 /\ matched = {}
    /\ answer = [cmds |-> << >>, q |-> << >>, rows |-> {}]
    /\ dropped = FALSE /\ tainted = FALSE

\* foldRows appends a record to corpus and cmds.
AppendRow(c) ==
    /\ Len(cmds) < MaxRows
    /\ cmds' = Append(cmds, c)
    /\ UNCHANGED <<prevQuery, prevLen, matched, answer, dropped, tainted>>

\* dropFromCorpus rebuilds both without one record: every later row moves down.
DropRow(n) ==
    /\ MayDrop
    /\ cmds' = [k \in 1..(Len(cmds) - 1) |-> IF k < n THEN cmds[k] ELSE cmds[k + 1]]
    /\ dropped' = TRUE
    /\ UNCHANGED <<prevQuery, prevLen, matched, answer, tainted>>

\* Typing forward on a corpus that has not become shorter.
Incremental(q) == HasPrefix(q, prevQuery) /\ prevLen <= Len(cmds)

\* Mutant: the rows appended since are not tested.
Scanned_NoNewRows(q) == IF Incremental(q) THEN matched ELSE DOMAIN cmds

\* The rows that Apply tests.
Scanned(q) == IF Incremental(q) THEN matched \cup (prevLen + 1)..Len(cmds) ELSE DOMAIN cmds

Rows(q) == {n \in Scanned(q) : Matches(q, cmds[n])}

\* runQuery on the local corpus, with Filter.Apply.
Query(q) ==
    /\ matched' = Rows(q)
    /\ prevQuery' = q
    /\ prevLen' = Len(cmds)
    /\ answer' = [cmds |-> cmds, q |-> q, rows |-> matched']
    /\ tainted' = (Incremental(q) /\ (dropped \/ tainted))
    /\ dropped' = FALSE
    /\ UNCHANGED cmds

Next ==
    \/ \E c \in Commands : AppendRow(c)
    \/ \E n \in DOMAIN cmds : DropRow(n)
    \/ \E q \in Queries : Query(q)

Spec == Init /\ [][Next]_vars

-------------------------------------------------------------------------------
(* Properties *)

TypeOK ==
    /\ cmds \in Seq(Commands)
    /\ prevQuery \in Queries \cup {<< >>} /\ prevLen \in Nat /\ matched \subseteq Nat
    /\ answer.cmds \in Seq(Commands) /\ answer.q \in Queries \cup {<< >>}
    /\ answer.rows \subseteq Nat
    /\ dropped \in BOOLEAN /\ tainted \in BOOLEAN

\* Whatever was deleted in between, a query only returns rows of the corpus it
\* saw, never an index beyond its end, and only rows that match.
ShowsOnlyMatches == answer.rows \subseteq FullScan(answer.q, answer.cmds)

\* A query misses a matching row only if its match set was carried over a
\* deletion: by a query that extends the last one, when appended rows have made
\* up for the deleted ones.
MissesOnlyAfterDrop == ~tainted => answer.rows = FullScan(answer.q, answer.cmds)

\* Both: typing forward, erasing and deleting in between, an answer shows nothing
\* that does not match and, but for the one case, everything that does.
AnswersRight == ShowsOnlyMatches /\ MissesOnlyAfterDrop

-------------------------------------------------------------------------------
(* What a comment of the code claims and the code does not do *)

\* filter.go: "a row that failed it cannot pass a narrower query".
NarrowingIsSafe ==
    ~dropped => \A q \in Queries : HasPrefix(q, prevQuery) =>
        \A n \in (1..prevLen) \ matched : ~Matches(q, cmds[n])
===============================================================================

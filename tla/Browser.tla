-------------------------------- MODULE Browser --------------------------------
(***************************************************************************)
(* The history table of the browser (tui/browse/model.go) and the requests *)
(* it has in flight.                                                       *)
(*                                                                         *)
(* The event loop handles one message at a time.  Everything it asks of    *)
(* the daemon but a single delete and a single tag runs in a goroutine of  *)
(* its own: the question is numbered when it is asked, the daemon answers  *)
(* it from the history it then has, and the answer is applied later, in    *)
(* whatever order the goroutines return.  Meanwhile the user moves, marks, *)
(* deletes and asks again, and a batch of deletes or tags works through    *)
(* the marked rows off the loop.                                           *)
(*                                                                         *)
(* A record is its age rank, a greater one being newer; the table shows    *)
(* the newest first.                                                       *)
(***************************************************************************)
EXTENDS Naturals, FiniteSets

CONSTANTS Rec,        \* records that may exist
          Early,      \* those the history starts with, where shells run meanwhile
          Remote,     \* those of another machine, held by the daemon's cache
          AgentRun,   \* those an agent ran
          Recent,     \* those the narrower period covers
          Wordy,      \* those the user's search text matches
          Scenes,     \* bound: what happens in one behaviour besides asking and
                      \* deleting, a set of sets of "marks", "hosts", "warming", "sync",
                      \* "shells", "search", "filters", "period", "tags" and "views"
          MaxAsk,     \* bound: table queries, in each scene
          MaxSample,  \* bound: stats samples
          MaxEdit,    \* bound: deletes and tags the user confirms
          MaxTick     \* hostsTickMax

ASSUME RecAssumption ==
  /\ Rec \subseteq Nat /\ IsFiniteSet(Rec)
  /\ Early \subseteq Rec /\ Remote \subseteq Rec /\ AgentRun \subseteq Rec
  /\ Recent \subseteq Rec /\ Wordy \subseteq Rec
ASSUME BoundsAssumption == MaxAsk \in [Scenes -> Nat] /\ {MaxSample, MaxEdit, MaxTick} \subseteq Nat

VARIABLES
  scene,        \* the one of Scenes that this behaviour plays
  \* the daemon
  born,         \* records that were ever made
  corpus,       \* its own live records
  tagStore,     \* records that its store says carry the user's tag
  tagged,       \* those that its index knows to
  remoteState,  \* of its cache: "off", "syncing", "ok" or "revoked"
  net,          \* requests that are out: unanswered, or answered and not applied
  \* the table
  allRows, rows,       \* what the daemon returned; the period's slice of it
  allTagged, rowTagged,\* the tags drawn on each
  sel,                 \* the cursor, an index into rows
  checked,             \* the rows marked for a bulk action
  period,              \* "all" or "recent"
  asking,              \* what the keys now ask for, but for the host
  hosts, hostSel,      \* entries in the sidebar and the one selected
  seq, appliedSeq,
  lastErr,
  cacheState, hostsRemote, hostsTicks, ticking,
  \* the stats sample
  statsRows, statsSeq, appliedStats,
  \* interaction
  view,                \* "browse", "stats" or "agents"
  gone, goneSeq, goneStats,
  bulk,                \* the batch that runs, or NoBulk
  edits,               \* how many deletes and tags the user confirmed
  \* history
  deleted,             \* records whose delete the browser saw succeed
  answered             \* the question the applied answer was to

daemon == <<scene, born, corpus, tagStore, tagged, remoteState>>
table == <<allRows, rows, allTagged, rowTagged, sel, checked>>
question == <<period, asking, hosts, hostSel>>
warming == <<hostsTicks, ticking>>
reported == <<cacheState, hostsRemote>>
sample == <<statsRows, statsSeq, appliedStats>>
guard == <<gone, goneSeq, goneStats, deleted>>
batch == <<bulk, edits>>
vars == <<daemon, net, table, question, seq, appliedSeq, answered, lastErr, warming,
          reported, sample, view, guard, batch>>

\* A query names a scope and what narrows it.
Host == {"all", "local", "remote"}
Asking == [word : BOOLEAN, exec : BOOLEAN, tag : BOOLEAN, human : BOOLEAN]
HostAt(i) == <<"all", "local", "remote">>[i + 1]
BuildReq == [ask |-> asking, host |-> HostAt(hostSel)]

Msg(kind, n, req) == [kind |-> kind, seq |-> n, req |-> req,
                      done |-> FALSE, rows |-> {}, tags |-> {}, state |-> "off"]
Everything == [ask |-> [word |-> FALSE, exec |-> FALSE, tag |-> FALSE, human |-> FALSE],
               host |-> "all"]
HostsReq == Msg("hosts", 0, Everything)
SyncReq == Msg("sync", 0, Everything)
StatsReq(n) == Msg("stats", n, Everything)

NoBulk == [verb |-> "none", todo |-> {}, asked |-> {}, done |-> {}, stop |-> FALSE]

Init ==
  /\ scene \in Scenes
  /\ born = (IF "shells" \in scene THEN Early ELSE Rec) /\ corpus = born \ Remote /\ tagStore = {} /\ tagged = {}
  /\ remoteState \in (IF scene \cap {"hosts", "warming"} # {} THEN {"off", "syncing"}
                     ELSE IF "sync" \in scene THEN {"syncing"} ELSE {"ok"})
  /\ allRows = {} /\ rows = {} /\ allTagged = {} /\ rowTagged = {} /\ sel = 0 /\ checked = {}
  /\ period = "all" /\ hosts = 1 /\ hostSel = 0
  /\ asking \in {[Everything.ask EXCEPT !.human = h] : h \in IF "filters" \in scene THEN BOOLEAN ELSE {FALSE}}
  /\ seq = 1 /\ appliedSeq = 0 /\ answered = Everything /\ lastErr = FALSE
  /\ cacheState = "unknown" /\ hostsRemote = 0 /\ hostsTicks = 0 /\ ticking = TRUE
  /\ statsRows = {} /\ statsSeq = 0 /\ appliedStats = 0
  /\ view = "browse"
  /\ gone = {} /\ goneSeq = 0 /\ goneStats = 0 /\ deleted = {}
  /\ bulk = NoBulk /\ edits = 0
  /\ net = {Msg("query", 1, BuildReq), HostsReq}

(***************************************************************************)
(* The daemon.                                                             *)
(***************************************************************************)
Cached == IF remoteState = "ok" THEN Remote ELSE {}

\* What the daemon's answer to a question holds just now.
Matching(req) ==
  {r \in corpus \cup Cached :
     /\ req.host = "local" => r \notin Remote
     /\ req.host = "remote" => r \in Remote
     /\ req.ask.word => r \in Wordy
     /\ req.ask.exec => r \in AgentRun
     /\ req.ask.tag => r \in tagged
     /\ req.ask.human /\ ~req.ask.exec => r \notin AgentRun}

\* Another shell runs a command.
Record(r) ==
  /\ "shells" \in scene /\ r \notin born \cup Remote
  /\ born' = born \cup {r} /\ corpus' = corpus \cup {r}
  /\ UNCHANGED <<scene, tagStore, tagged, remoteState, net, table, question, seq, appliedSeq, answered,
                 lastErr, warming, reported, sample, view, guard, batch>>

\* The remote cache converges, or the server turns out to have revoked this machine.
Converge ==
  /\ scene \cap {"hosts", "warming"} # {}
  /\ \/ remoteState = "syncing" /\ remoteState' \in {"ok", "revoked"}
     \/ remoteState = "ok" /\ remoteState' = "revoked"
  /\ UNCHANGED <<scene, born, corpus, tagStore, tagged, net, table, question, seq, appliedSeq, answered,
                 lastErr, warming, reported, sample, view, guard, batch>>

\* A tag is submitted to the store and folded into the index behind it.
FoldTags ==
  /\ tagged # tagStore /\ tagged' = tagStore
  /\ UNCHANGED <<scene, born, corpus, tagStore, remoteState, net, table, question, seq, appliedSeq,
                 answered, lastErr, warming, reported, sample, view, guard, batch>>

\* A request reaches the daemon; OpSync returns when the cycle it asked for ends.
Answer(m) ==
  /\ m \in net /\ ~m.done
  /\ remoteState' = IF m.kind = "sync" /\ remoteState = "syncing" THEN "ok" ELSE remoteState
  /\ net' = (net \ {m}) \cup {[m EXCEPT !.done = TRUE, !.rows = Matching(m.req),
                                        !.tags = tagged, !.state = remoteState]}
  /\ UNCHANGED <<scene, born, corpus, tagStore, tagged, table, question, seq, appliedSeq, answered, lastErr,
                 warming, reported, sample, view, guard, batch>>

(***************************************************************************)
(* Pieces of the handlers.                                                 *)
(***************************************************************************)
At(s, i) == CHOOSE r \in s : Cardinality({x \in s : x > r}) = i
IndexOf(s, r) == Cardinality({x \in s : x > r})
Least(a, b) == IF a < b THEN a ELSE b
HasSel == sel < Cardinality(rows)
Selected == At(rows, sel)

Slice(all, p) == IF p = "recent" THEN all \cap Recent ELSE all

\* applyPeriodFilter: the table redrawn from what the daemon returned.
ApplyPeriodFilter(all, tags, p) ==
  /\ rows' = Slice(all, p)
  /\ rowTagged' = tags \cap Slice(all, p)

\* issueQuery drops the marks, refreshQuery keeps them.
RefreshQuery(others) ==
  seq' = seq + 1 /\ net' = others \cup {Msg("query", seq + 1, BuildReq), HostsReq}
Ask(req) == seq' = seq + 1 /\ net' = net \cup {Msg("query", seq + 1, req)}
CanAsk == seq < MaxAsk[scene]
CanSample == statsSeq < MaxSample
ClearChecked == checked' = {}

\* goneMark: an answer to a question no newer than the mark may predate the delete.
Covers(mark, n) == mark # 0 /\ n <= mark
Settle(mark, n) == IF n > mark THEN 0 ELSE mark
WithoutGone_Trusting(mark, n, s) == s
WithoutGone(mark, n, s) == IF Covers(mark, n) THEN s \ gone ELSE s
SettleGone_TableOnly == gone' = IF goneSeq' = 0 THEN {} ELSE gone
SettleGone == gone' = IF goneSeq' = 0 /\ goneStats' = 0 THEN {} ELSE gone

\* pruneChecked: marks whose rows are no longer shown are dropped.
PruneChecked_Never(shown) == checked
PruneChecked(shown) == checked \cap shown

\* An answer no newer than the last one applied.
Stale_Never(m) == FALSE
Stale(m) == \/ m.kind = "query" /\ m.seq <= appliedSeq
            \/ m.kind = "stats" /\ m.seq <= appliedStats

\* removeRows, the marks left against both sequences, and clampSel.
RemoveRows(ids) ==
  /\ goneSeq' = IF ids = {} THEN goneSeq ELSE seq
  /\ goneStats' = IF ids = {} THEN goneStats ELSE statsSeq
  /\ gone' = IF goneSeq' = 0 /\ goneStats' = 0 THEN {} ELSE gone \cup ids
  /\ deleted' = deleted \cup ids
  /\ allRows' = allRows \ ids /\ allTagged' = allTagged \ ids
  /\ rows' = rows \ ids /\ rowTagged' = rowTagged \ ids
  /\ sel' = IF sel < Cardinality(rows') THEN sel
            ELSE IF rows' = {} THEN 0 ELSE Cardinality(rows') - 1

(***************************************************************************)
(* Answers.                                                                *)
(***************************************************************************)
\* applyResult: an answer overtaken by a newer one is dropped, an error keeps the
\* rows, and a good one replaces them under a cursor that stays on its record.
ApplyResult(m, ok) ==
  /\ m.kind = "query" /\ ~Stale(m)
  /\ appliedSeq' = m.seq /\ lastErr' = ~ok
  /\ IF ok
       THEN LET all == WithoutGone(goneSeq, m.seq, m.rows) IN
            /\ allRows' = all /\ allTagged' = m.tags \cap all
            /\ ApplyPeriodFilter(all, m.tags, period)
            /\ checked' = PruneChecked(rows')
            /\ sel' = IF HasSel /\ Selected \in rows' THEN IndexOf(rows', Selected) ELSE 0
            /\ goneSeq' = IF gone = {} THEN goneSeq ELSE Settle(goneSeq, m.seq)
            /\ UNCHANGED <<goneStats, deleted>> /\ SettleGone
            /\ answered' = m.req /\ cacheState' = m.state
            /\ net' = (net \ {m}) \cup
                      (IF (m.state = "ok") # (hostsRemote = 1) THEN {HostsReq} ELSE {})
       ELSE /\ net' = net \ {m}
            /\ UNCHANGED <<table, guard, answered, cacheState>>
  /\ UNCHANGED <<daemon, question, seq, warming, hostsRemote, sample, view, batch>>

DropStale(m) ==
  /\ Stale(m)
  /\ net' = net \ {m}
  /\ UNCHANGED <<daemon, table, question, seq, appliedSeq, answered, lastErr, warming,
                 reported, sample, view, guard, batch>>

\* applyHosts: the sidebar rebuilt, its cursor kept by index.
ApplyHosts(m, ok) ==
  /\ m.kind = "hosts"
  /\ hosts' = IF ok THEN IF m.state = "ok" THEN 3 ELSE 2 ELSE hosts
  /\ hostSel' = IF hostSel < hosts' THEN hostSel ELSE hosts' - 1
  /\ hostsRemote' = IF ok THEN IF m.state = "ok" THEN 1 ELSE 0 ELSE hostsRemote
  /\ LET more == ok /\ view = "stats" IN
     /\ more => CanSample
     /\ statsSeq' = IF more THEN statsSeq + 1 ELSE statsSeq
     /\ net' = (net \ {m}) \cup (IF more THEN {StatsReq(statsSeq')} ELSE {})
  /\ UNCHANGED <<daemon, table, period, asking, seq, appliedSeq, answered, lastErr, warming,
                 cacheState, statsRows, appliedStats, view, guard, batch>>

ApplyStats(m, ok) ==
  /\ m.kind = "stats" /\ ~Stale(m)
  /\ appliedStats' = m.seq /\ net' = net \ {m}
  /\ IF ok
       THEN /\ statsRows' = WithoutGone(goneStats, m.seq, m.rows)
            /\ goneStats' = IF gone = {} THEN goneStats ELSE Settle(goneStats, m.seq)
            /\ UNCHANGED <<goneSeq, deleted>> /\ SettleGone
       ELSE UNCHANGED <<statsRows, guard>>
  /\ UNCHANGED <<daemon, table, question, seq, appliedSeq, answered, lastErr, warming,
                 reported, statsSeq, view, batch>>

\* applySync: what was just synced is asked for again.
ApplySync(m, ok) ==
  /\ m.kind = "sync"
  /\ IF ok
       THEN /\ CanAsk /\ (view = "stats" => CanSample)
            /\ statsSeq' = IF view = "stats" THEN statsSeq + 1 ELSE statsSeq
            /\ RefreshQuery((net \ {m}) \cup (IF view = "stats" THEN {StatsReq(statsSeq')} ELSE {}))
       ELSE net' = net \ {m} /\ UNCHANGED <<seq, statsSeq>>
  /\ UNCHANGED <<daemon, table, question, appliedSeq, answered, lastErr, warming, reported,
                 statsRows, appliedStats, view, guard, batch>>

Deliver(m, ok) ==
  /\ m \in net /\ m.done
  /\ ApplyResult(m, ok) \/ DropStale(m) \/ ApplyHosts(m, ok) \/ ApplyStats(m, ok) \/ ApplySync(m, ok)

\* onHostsTick: the bounded loop that asks again while the cache is warming.
OnHostsTick ==
  /\ "warming" \in scene /\ ticking
  /\ hostsTicks' = hostsTicks + 1
  /\ IF cacheState \in {"ok", "off", "revoked"} \/ hostsTicks' >= MaxTick
       THEN /\ ticking' = FALSE /\ UNCHANGED seq
            /\ net' = IF cacheState = "ok" THEN net \cup {HostsReq} ELSE net
       ELSE /\ CanAsk /\ UNCHANGED ticking
            /\ RefreshQuery(net)
  /\ UNCHANGED <<daemon, table, question, appliedSeq, answered, lastErr, reported, sample,
                 view, guard, batch>>

(***************************************************************************)
(* Keys and the mouse.  A batch that runs swallows the keys but not the    *)
(* wheel.  A box or a y/n question over the table swallows them too, which *)
(* changes nothing below: what it submits is decided when it is answered,  *)
(* and answers and the wheel reach the table in the meantime.              *)
(***************************************************************************)
Keys == bulk = NoBulk
TableKeys == Keys /\ view = "browse"

\* moveSel: arrows, pages, ends and the wheel.
MoveSel(i) ==
  /\ view = "browse" /\ rows # {} /\ i < Cardinality(rows)
  /\ sel' = i
  /\ UNCHANGED <<daemon, net, allRows, rows, allTagged, rowTagged, checked, question, seq,
                 appliedSeq, answered, lastErr, warming, reported, sample, view,
                 guard, batch>>

\* issueQuery: the keys ask for something else, from the host selected.
IssueQuery(ask, i) ==
  /\ CanAsk
  /\ asking' = ask /\ hostSel' = i
  /\ Ask([ask |-> ask, host |-> HostAt(i)])
  /\ ClearChecked
  /\ UNCHANGED <<daemon, allRows, rows, allTagged, rowTagged, sel, period, hosts, appliedSeq,
                 answered, lastErr, warming, reported, sample, view, guard, batch>>

\* moveHost clamps, cycleHost wraps.
MoveHost(i) ==
  /\ "hosts" \in scene /\ view = "browse"
  /\ i \in {0, hosts - 1, Least(hostSel + 1, hosts - 1), IF hostSel = 0 THEN 0 ELSE hostSel - 1}
  /\ IssueQuery(asking, i)

\* The search field asks again at every change.
Search ==
  "search" \in scene /\ TableKeys /\ IssueQuery([asking EXCEPT !.word = ~@], hostSel)

\* toggleTagFilter and toggleExecutorFilter adopt the cursor row's value.
ToggleFilter(axis) ==
  /\ "filters" \in scene /\ TableKeys
  /\ ~asking[axis] => HasSel /\ Selected \in (IF axis = "tag" THEN rowTagged ELSE AgentRun)
  /\ IssueQuery([asking EXCEPT ![axis] = ~@], hostSel)

\* submitFilterEntry: a typed value, which spends no query when it changes nothing.
SubmitFilterEntry(axis) ==
  "filters" \in scene /\ TableKeys /\ IssueQuery([asking EXCEPT ![axis] = ~@], hostSel)

ToggleHideAgents ==
  "filters" \in scene /\ TableKeys /\ IssueQuery([asking EXCEPT !.human = ~@], hostSel)

\* setPeriod narrows what is there, and asks nothing.
SetPeriod(p) ==
  /\ "period" \in scene /\ Keys /\ p # period
  /\ period' = p /\ ClearChecked
  /\ ApplyPeriodFilter(allRows, allTagged, p)
  /\ sel' = IF sel < Cardinality(rows') THEN sel
            ELSE IF rows' = {} THEN 0 ELSE Cardinality(rows') - 1
  /\ UNCHANGED <<daemon, net, allRows, allTagged, asking, hosts, hostSel, seq, appliedSeq,
                 answered, lastErr, warming, reported, sample, view, guard, batch>>

\* toggleStats, toggleAgents: the marks go with the table.  The agent explorer asks for
\* a sample only when none is held.
OpenView(v, more) ==
  /\ "views" \in scene /\ Keys /\ view # v
  /\ view' = v /\ ClearChecked
  /\ more => CanSample
  /\ statsSeq' = IF more THEN statsSeq + 1 ELSE statsSeq
  /\ net' = IF more THEN net \cup {StatsReq(statsSeq')} ELSE net
  /\ UNCHANGED <<daemon, allRows, rows, allTagged, rowTagged, sel, question, seq, appliedSeq,
                 answered, lastErr, warming, reported, statsRows, appliedStats, guard, batch>>
ToggleStats == OpenView("stats", TRUE)
ToggleAgents == OpenView("agents", statsRows = {})
CloseView ==
  /\ view # "browse" /\ view' = "browse"
  /\ UNCHANGED <<daemon, net, table, question, seq, appliedSeq, answered, lastErr, warming,
                 reported, sample, guard, batch>>

SyncNow ==
  /\ "sync" \in scene /\ Keys
  /\ net' = net \cup {SyncReq}
  /\ UNCHANGED <<daemon, table, question, seq, appliedSeq, answered, lastErr, warming,
                 reported, sample, view, guard, batch>>

\* Space, ctrl+a and esc.
Mark(marks) ==
  /\ TableKeys /\ checked' = marks
  /\ UNCHANGED <<daemon, net, allRows, rows, allTagged, rowTagged, sel, question, seq,
                 appliedSeq, answered, lastErr, warming, reported, sample, view,
                 guard, batch>>
ToggleChecked ==
  /\ "marks" \in scene /\ HasSel
  /\ Mark(IF Selected \in checked THEN checked \ {Selected} ELSE checked \cup {Selected})
ToggleCheckAll == "marks" \in scene /\ Mark(IF rows \subseteq checked THEN {} ELSE rows)
Escape == Mark({})

(***************************************************************************)
(* Deletes and tags.                                                       *)
(***************************************************************************)
\* How a call to the daemon ends: a failed one may have taken effect.
Outcome == {"ok", "failed", "unheard"}

\* OpDelete tombstones in the daemon's own store: another machine's record stays.
DaemonDelete(r, how) == corpus' = IF how = "failed" THEN corpus ELSE corpus \ {r}
DaemonTag(verb, r, how) ==
  tagStore' = IF how = "failed" THEN tagStore
              ELSE IF verb = "tag" THEN tagStore \cup {r} ELSE tagStore \ {r}

\* applyTagLocal and removeTagLocal write what the daemon returned and its slice.
TagLocal_RowsOnly(verb, ids) ==
  /\ rowTagged' = IF verb = "tag" THEN rowTagged \cup (ids \cap rows) ELSE rowTagged \ ids
  /\ UNCHANGED allTagged
TagLocal(verb, ids) ==
  IF verb = "tag"
    THEN allTagged' = allTagged \cup (ids \cap allRows) /\ rowTagged' = rowTagged \cup (ids \cap rows)
    ELSE allTagged' = allTagged \ ids /\ rowTagged' = rowTagged \ ids

Confirmed ==
  /\ TableKeys /\ edits < MaxEdit /\ edits' = edits + 1
  /\ UNCHANGED <<question, seq, appliedSeq, answered, warming, reported, sample, view, net>>

\* doDelete on the row under the cursor.
DoDelete(how) ==
  /\ Confirmed /\ checked = {} /\ rows # {}
  /\ DaemonDelete(Selected, how)
  /\ IF how = "ok" THEN RemoveRows({Selected}) /\ UNCHANGED lastErr
     ELSE lastErr' = TRUE /\ UNCHANGED <<allRows, rows, allTagged, rowTagged, sel, guard>>
  /\ UNCHANGED <<scene, born, tagStore, tagged, remoteState, checked, bulk>>

\* submitTag on the row under the cursor; there must be a tag to remove.
SubmitTag(verb, how) ==
  /\ "tags" \in scene /\ Confirmed /\ checked = {} /\ HasSel
  /\ verb = "untag" => Selected \in rowTagged
  /\ DaemonTag(verb, Selected, how)
  /\ IF how = "ok" THEN TagLocal(verb, {Selected}) /\ UNCHANGED lastErr
     ELSE lastErr' = TRUE /\ UNCHANGED <<allTagged, rowTagged>>
  /\ UNCHANGED <<scene, born, corpus, tagged, remoteState, allRows, rows, sel, checked, guard, bulk>>

\* deleteChecked and tagChecked hand the marked records to a worker; there must be a
\* tag to remove.
StartBulk(verb, ids) ==
  /\ Confirmed /\ checked # {}
  /\ bulk' = IF ids = {} THEN NoBulk
             ELSE [verb |-> verb, todo |-> ids, asked |-> ids, done |-> {}, stop |-> FALSE]
  /\ UNCHANGED <<daemon, table, lastErr, guard>>
DeleteChecked == StartBulk("delete", checked)
TagChecked(verb) ==
  /\ "tags" \in scene
  /\ StartBulk(verb, IF verb = "untag" THEN checked \cap allTagged ELSE checked)

\* bulkDeleteCmd, bulkTagCmd: one call after another, whatever became of the last.
BulkCall(r, how) ==
  /\ r \in bulk.todo /\ ~bulk.stop
  /\ bulk' = [bulk EXCEPT !.todo = @ \ {r}, !.done = IF how = "ok" THEN @ \cup {r} ELSE @]
  /\ UNCHANGED <<scene, born, tagged, remoteState, net, table, question, seq, appliedSeq,
                 answered, lastErr, warming, reported, sample, view, guard, edits>>
BulkDelete(r, how) ==
  bulk.verb = "delete" /\ BulkCall(r, how) /\ DaemonDelete(r, how) /\ UNCHANGED tagStore
BulkTag(r, how) ==
  /\ bulk.verb \in {"tag", "untag"}
  /\ BulkCall(r, how) /\ DaemonTag(bulk.verb, r, how) /\ UNCHANGED corpus

CancelBulk ==
  /\ bulk # NoBulk /\ bulk' = [bulk EXCEPT !.stop = TRUE]
  /\ UNCHANGED <<daemon, net, table, question, seq, appliedSeq, answered, lastErr, warming,
                 reported, sample, view, guard, edits>>

\* The worker is done, or stopped.
BulkDone ==
  /\ bulk.todo = {} \/ bulk.stop
  /\ bulk' = NoBulk
  /\ lastErr' = (lastErr \/ bulk.done # bulk.asked \ bulk.todo)
  /\ UNCHANGED <<daemon, net, question, seq, appliedSeq, answered, warming, reported, sample,
                 view, edits>>
\* What was deleted leaves the table, what was not stays marked.
ApplyBulkDelete ==
  /\ bulk.verb = "delete" /\ BulkDone
  /\ RemoveRows(bulk.done) /\ checked' = checked \ bulk.done
\* What was tagged is redrawn, and the marks stay.
ApplyBulkTag ==
  /\ bulk.verb \in {"tag", "untag"} /\ BulkDone
  /\ TagLocal(bulk.verb, bulk.done) /\ UNCHANGED <<allRows, rows, sel, checked, guard>>

Next ==
  \/ \E r \in Rec : Record(r)
  \/ Converge \/ FoldTags
  \/ \E m \in net : Answer(m)
  \/ \E m \in net, ok \in BOOLEAN : Deliver(m, ok)
  \/ OnHostsTick
  \/ \E i \in 0..Cardinality(Rec) : MoveSel(i)
  \/ \E i \in 0..2 : MoveHost(i)
  \/ Search
  \/ \E axis \in {"tag", "exec"} : ToggleFilter(axis) \/ SubmitFilterEntry(axis)
  \/ ToggleHideAgents
  \/ \E p \in {"all", "recent"} : SetPeriod(p)
  \/ ToggleStats \/ ToggleAgents \/ CloseView \/ SyncNow
  \/ ToggleChecked \/ ToggleCheckAll \/ Escape
  \/ \E how \in Outcome : DoDelete(how)
  \/ \E verb \in {"tag", "untag"}, how \in Outcome : SubmitTag(verb, how)
  \/ DeleteChecked
  \/ \E verb \in {"tag", "untag"} : TagChecked(verb)
  \/ \E r \in Rec, how \in Outcome : BulkDelete(r, how) \/ BulkTag(r, how)
  \/ CancelBulk \/ ApplyBulkDelete \/ ApplyBulkTag

Spec == Init /\ [][Next]_vars
--------------------------------------------------------------------------------
\* A record of this machine whose delete was seen to succeed never comes back to the
\* table, whatever was in flight when it was made (the gone field's comment).
DeletedStayGone == deleted \cap allRows \subseteq Remote

\* Nor to the sample behind the stats and the agent explorer, which has a sequence of
\* its own.
SampleForgets == [][statsRows' # statsRows => statsRows' \cap deleted \subseteq Remote]_vars

\* A mark is never on a record that the table does not show, whatever came in since it
\* was made: the delete behind it is the one the user looked at.
MarksShown == checked \subseteq rows

\* The table is the period's slice of what it holds, tags included: no change made to
\* one of the two is undone by a turn of the period (removeRows, applyTagLocal).  And
\* doDelete and submitTag index it by the cursor: it is on a row whenever there is one.
SliceAgrees ==
  /\ rows = Slice(allRows, period) /\ rowTagged = allTagged \cap rows
  /\ rows # {} => HasSel

\* When every question was answered, in whatever order, the table is an answer to what
\* the keys ask (but for the host: see applyHosts).
AnswersQuestion ==
  ~lastErr /\ (\A m \in net : m.kind # "query") => answered.ask = asking
================================================================================

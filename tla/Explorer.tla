-------------------------------- MODULE Explorer --------------------------------
(***************************************************************************)
(* The agent explorer (tui/browse: agents.go, prompts.go and its part of   *)
(* model.go and columns.go): the hosts, the agents and the prompts that    *)
(* are derived from a sample of the history, what the user picks in each,  *)
(* and the cursors.  Hosts and agents are picked by name, so that a new    *)
(* sample or period that moves a row does not hand its filter to another;  *)
(* the prompt list is held and narrowed again whenever what it derives     *)
(* from changes; the command list is derived whenever it is drawn.         *)
(*                                                                         *)
(* A command or a prompt is the instant it started, a host or an agent the *)
(* rank of its name; 0 stands for all of them.  Every sample holds a       *)
(* command: one that holds none may come as nil, on which recomputeStats   *)
(* returns at once and leaves every list as it was, which is not modelled. *)
(***************************************************************************)
EXTENDS Naturals, FiniteSets, Sequences

CONSTANTS Cmd, Prompt,        \* commands that agents ran, prompts they were given
          AgentOf, HostOf,    \* of each command and prompt
          PromptOf,           \* of each command
          Cutoff,             \* the narrower period starts here
          Matched,           \* commands and prompts whose text the user's filter matches
          Key,                \* of each command: the value another column sorts by
          Samples,            \* what a sample may hold: its commands and its prompts
          MaxSample           \* bound: samples after the first

ExplorerAssumption ==
  /\ Cmd \subseteq Nat /\ Prompt \subseteq Nat /\ Cmd \cap Prompt = {}
  /\ IsFiniteSet(Cmd) /\ IsFiniteSet(Prompt)
  /\ AgentOf \in [Cmd \cup Prompt -> Nat \ {0}] /\ HostOf \in [Cmd \cup Prompt -> Nat \ {0}]
  /\ Samples \subseteq (SUBSET Cmd \ {{}}) \X (SUBSET Prompt)
  /\ PromptOf \in [Cmd -> Prompt] /\ Key \in [Cmd -> Nat] /\ Cutoff \in Nat

VARIABLES
  statsRows, promptRows, samples,  \* the sample; how many came
  period,                          \* "all" or "recent"
  hostFilter, agentFilter,         \* a name, or 0 for all
  hostRow, agentRow,               \* the sidebars' cursors, 0 on the row for all
  agentHosts, agents,              \* what the sidebars list
  filteredPrompts,                 \* what the prompt pane lists
  promptSel, drillSel,             \* cursors, from 0
  promptQ, cmdQ,                   \* a text filter is on, for each list
  promptSort, cmdSort              \* the column each is ordered by, and which way

sample == <<statsRows, promptRows, samples>>
picked == <<hostFilter, agentFilter>>
sidebars == <<hostRow, agentRow, agentHosts, agents>>
cursors == <<promptSel, drillSel>>
texts == <<promptQ, cmdQ>>
sorts == <<promptSort, cmdSort>>
vars == <<sample, period, picked, sidebars, filteredPrompts, cursors, texts, sorts>>

ByTime(desc) == [col |-> "time", desc |-> desc]
ClampIndex(i, n) == IF i >= n THEN (IF n = 0 THEN 0 ELSE n - 1) ELSE i
IndexIn(s, x) == IF \E i \in DOMAIN s : s[i] = x THEN CHOOSE i \in DOMAIN s : s[i] = x ELSE 0
InPeriod(S, p) == {x \in S : p = "recent" => x >= Cutoff}
HostOnly(S, host) == {x \in S : host # 0 => HostOf[x] = host}
Picked(S, agent) == {x \in S : agent # 0 => AgentOf[x] = agent}
LastOf(S) == CHOOSE x \in S : \A y \in S : y <= x

(* A finite set laid out in an order, the set of pairs of which the first  *)
(* comes before the second.                                                *)
InOrder(S, before) ==
  [i \in 1..Cardinality(S) |->
     CHOOSE x \in S : Cardinality({y \in S : <<y, x>> \in before}) = i - 1]

(* Hosts in name order; agents by how much they ran, then by name.         *)
AgentHostsIn(rows, prompts, p) ==
  LET names == {HostOf[x] : x \in InPeriod(rows \cup prompts, p)}
  IN  InOrder(names, {n \in names \X names : n[1] < n[2]})

ComputeAgents(rows, p) ==
  LET names == {AgentOf[c] : c \in InPeriod(rows, p)}
      count(a) == Cardinality(Picked(InPeriod(rows, p), a))
  IN  InOrder(names, {n \in names \X names :
                        count(n[1]) > count(n[2]) \/ (count(n[1]) = count(n[2]) /\ n[1] < n[2])})

(* A prompt is listed for its record, or for a command it led to.          *)
CmdsOf(q, rows, p, agent) == {c \in Picked(InPeriod(rows, p), agent) : PromptOf[c] = q}
ComputePrompts(rows, prompts, p, agent) ==
  LET listed == Picked(InPeriod(prompts, p), agent)
                \cup {PromptOf[c] : c \in Picked(InPeriod(rows, p), agent)}
  IN  {[id |-> q, cmds |-> CmdsOf(q, rows, p, agent),
        last |-> LastOf(CmdsOf(q, rows, p, agent) \cup (listed \cap prompts \cap InPeriod({q}, p)))] :
         q \in listed}

(* A stable sort of rows by key, in their natural order where keys agree.  *)
SortRows(kept, natural, sort, key) ==
  InOrder(kept, {r \in kept \X kept :
                   CASE key[r[1]] = key[r[2]] -> r \in natural
                     [] key[r[1]] # key[r[2]] /\ sort.desc -> key[r[1]] > key[r[2]]
                     [] OTHER -> key[r[1]] < key[r[2]]})

FilterPrompts(prompts, q, sort) ==
  LET kept == {p \in prompts : q => p.id \in Matched}
  IN  SortRows(kept, {r \in kept \X kept : r[1].last > r[2].last}, sort,
               [p \in kept |-> IF sort.col = "time" THEN p.last ELSE Cardinality(p.cmds)])

VisibleCmdsOf(list, sel, q, sort) ==
  IF sel \notin 0..(Len(list) - 1) THEN <<>>
  ELSE LET kept == {c \in list[sel + 1].cmds : q => c \in Matched}
       IN  SortRows(kept, {r \in kept \X kept : r[1] < r[2]}, sort,
                    [c \in kept |-> IF sort.col = "time" THEN c ELSE Key[c]])
VisibleCmds == VisibleCmdsOf(filteredPrompts, promptSel, cmdQ, cmdSort)
DrilledPrompt == IF promptSel < Len(filteredPrompts) THEN {filteredPrompts[promptSel + 1].id} ELSE {}
DrilledCmd == IF drillSel < Len(VisibleCmds) THEN {VisibleCmds[drillSel + 1]} ELSE {}

--------------------------------------------------------------------------------
(* Everything derived from a sample, a period and what is picked, with the *)
(* cursors kept where they were as far as the lists reach.  A filter whose *)
(* row is gone is released.                                                *)
RowOf(names, name) == IndexIn(names, name)
Released_Never(names, name) == name
Released(names, name) == IF RowOf(names, name) = 0 THEN 0 ELSE name

Prompts(rows, prompts, p, host, agent, q, sort) ==
  FilterPrompts(ComputePrompts(HostOnly(rows, host), HostOnly(prompts, host), p, agent), q, sort)

RecomputeStats(rows, prompts, p, host, agent, psel, dsel) ==
  LET hostNames == AgentHostsIn(rows, prompts, p)
      h == Released(hostNames, host)
      agentNames == ComputeAgents(HostOnly(rows, h), p)
      a == Released(agentNames, agent)
      list == Prompts(rows, prompts, p, h, a, promptQ, promptSort)
      sel == ClampIndex(psel, Len(list))
  IN  /\ agentHosts' = hostNames /\ hostFilter' = h /\ hostRow' = RowOf(hostNames, h)
      /\ agents' = agentNames /\ agentFilter' = a /\ agentRow' = RowOf(agentNames, a)
      /\ filteredPrompts' = list /\ promptSel' = sel
      /\ drillSel' = ClampIndex(dsel, Len(VisibleCmdsOf(list, sel, cmdQ, cmdSort)))

Init ==
  /\ statsRows = {} /\ promptRows = {} /\ samples = 0 /\ period = "all"
  /\ hostFilter = 0 /\ agentFilter = 0 /\ hostRow = 0 /\ agentRow = 0
  /\ agentHosts = <<>> /\ agents = <<>> /\ filteredPrompts = <<>>
  /\ promptSel = 0 /\ drillSel = 0 /\ promptQ = FALSE /\ cmdQ = FALSE
  /\ promptSort = ByTime(TRUE) /\ cmdSort = ByTime(FALSE)

(* A sample arrives, asked for by a key, by a delete or by the warm loop.  *)
ApplyStats ==
  /\ samples <= MaxSample /\ samples' = samples + 1
  /\ \E s \in Samples :
       /\ statsRows' = s[1] /\ promptRows' = s[2]
       /\ RecomputeStats(s[1], s[2], period, hostFilter, agentFilter, promptSel, drillSel)
  /\ UNCHANGED <<period, texts, sorts>>

SetPeriod ==
  /\ period' = IF period = "all" THEN "recent" ELSE "all"
  /\ RecomputeStats(statsRows, promptRows, period', hostFilter, agentFilter, promptSel, 0)
  /\ UNCHANGED <<sample, texts, sorts>>

(* Opening the explorer on a sample held. *)
ToggleAgents ==
  /\ RecomputeStats(statsRows, promptRows, period, hostFilter, agentFilter, 0, 0)
  /\ UNCHANGED <<sample, period, texts, sorts>>

(* Picking a row of a sidebar: its cursor, the wheel, H or A. *)
SelectAgentHost == \E i \in 0..Len(agentHosts) :
  /\ i # hostRow
  /\ RecomputeStats(statsRows, promptRows, period, IF i = 0 THEN 0 ELSE agentHosts[i],
                    agentFilter, 0, 0)
  /\ UNCHANGED <<sample, period, texts, sorts>>
SelectAgent == \E i \in 0..Len(agents) :
  /\ i # agentRow
  /\ RecomputeStats(statsRows, promptRows, period, hostFilter, IF i = 0 THEN 0 ELSE agents[i], 0, 0)
  /\ UNCHANGED <<sample, period, texts, sorts>>

Untouched == UNCHANGED <<sample, period, picked, sidebars>>

SelectPrompt == \E i \in 0..(Len(filteredPrompts) - 1) :
  /\ promptSel' = i /\ drillSel' = IF i = promptSel THEN drillSel ELSE 0
  /\ Untouched /\ UNCHANGED <<filteredPrompts, texts, sorts>>

SetDrill == \E i \in 0..(Len(VisibleCmds) - 1) :
  /\ drillSel' = i /\ Untouched /\ UNCHANGED <<filteredPrompts, promptSel, texts, sorts>>

ApplyPromptFilter(q, sort) ==
  Prompts(statsRows, promptRows, period, hostFilter, agentFilter, q, sort)

(* The / box, on the list its pane aims at. *)
SetFilter ==
  /\ Untouched /\ UNCHANGED sorts
  /\ \/ /\ promptQ' = ~promptQ /\ filteredPrompts' = ApplyPromptFilter(promptQ', promptSort)
        /\ promptSel' = 0 /\ drillSel' = 0 /\ UNCHANGED cmdQ
     \/ cmdQ' = ~cmdQ /\ drillSel' = 0 /\ UNCHANGED <<promptQ, filteredPrompts, promptSel>>

(* The columns pane: order by a column, or turn round the order by it.     *)
SortBy(sort, col) ==
  IF sort.col = col THEN [sort EXCEPT !.desc = ~@] ELSE [col |-> col, desc |-> col = "time"]

ReorderPrompts == \E col \in {"time", "count"} :
  /\ promptSort' = SortBy(promptSort, col)
  /\ filteredPrompts' = ApplyPromptFilter(promptQ, promptSort')
  /\ promptSel' = IF \E i \in DOMAIN filteredPrompts' : {filteredPrompts'[i].id} = DrilledPrompt
                    THEN (CHOOSE i \in DOMAIN filteredPrompts' :
                            {filteredPrompts'[i].id} = DrilledPrompt) - 1
                    ELSE ClampIndex(promptSel, Len(filteredPrompts'))
  /\ Untouched /\ UNCHANGED <<drillSel, texts, cmdSort>>

(* The row to rescue is looked up after the order has changed, so the      *)
(* cursor keeps its index and not its row.                                 *)
ReorderCmds == \E col \in {"time", "key"} :
  /\ cmdSort' = SortBy(cmdSort, col)
  /\ Untouched /\ UNCHANGED <<filteredPrompts, cursors, texts, promptSort>>

Next == \/ ApplyStats \/ SetPeriod \/ ToggleAgents \/ SelectAgentHost \/ SelectAgent
        \/ SelectPrompt \/ SetDrill \/ SetFilter \/ ReorderPrompts \/ ReorderCmds
Spec == Init /\ [][Next]_vars

--------------------------------------------------------------------------------
(* The sidebars' cursors stand on what the lists are filtered by, whatever *)
(* sample, period or pick moved the rows ("an executor that drops out of   *)
(* the period would otherwise silently hand its row (and the filter) to a  *)
(* different agent"); the prompts listed are those of the sample, period,  *)
(* host, agent, text and order on screen; both cursors are on a row where  *)
(* there is one.                                                           *)
ListsFollow ==
  /\ IF hostRow = 0 THEN hostFilter = 0 ELSE agentHosts[hostRow] = hostFilter
  /\ IF agentRow = 0 THEN agentFilter = 0 ELSE agents[agentRow] = agentFilter
  /\ filteredPrompts = ApplyPromptFilter(promptQ, promptSort)
  /\ promptSel = ClampIndex(promptSel, Len(filteredPrompts))
  /\ drillSel = ClampIndex(drillSel, Len(VisibleCmds))

================================================================================

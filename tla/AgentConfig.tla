------------------------------ MODULE AgentConfig ------------------------------
(***************************************************************************)
(* `yore init <agent>` and `yore uninit <agent>` (cli/claudecode.go,       *)
(* cursor.go, opencode.go, codex.go, devin.go, uninit.go): edits of        *)
(* configuration files that belong to somebody else.                       *)
(*                                                                         *)
(* A file is read whole, changed in memory and written back with           *)
(* os.WriteFile, which truncates it first; nothing locks it.  So a run     *)
(* may die with the file cut short, two runs may overlap, and the agent or *)
(* its user may save the file between a run's read and its write.          *)
(*                                                                         *)
(* A document keeps what the properties tell apart: the owner's settings,  *)
(* the hook blocks with the commands in each, and yore's MCP entry.  A     *)
(* hook command is named by the binary it starts.  Codex's file is edited  *)
(* as text, and what yore appended is taken out only where it stands       *)
(* verbatim: `altered' says which of those texts no longer do.             *)
(***************************************************************************)
EXTENDS Naturals, Sequences, FiniteSets

CONSTANTS Agents,    \* of "claude", "cursor", "opencode", "codex" and "devin"
          Bins,      \* values --bin is given
          Within,    \* pairs: the first name ends the second, as yore ends /opt/yore
          Runs,      \* processes that run init or uninit
          MaxRun,    \* bound: how many runs there are
          MaxSave    \* bound: how often the agent or its user saves a file

Theirs == "theirs"     \* somebody else's hook command
Nobody == "nobody"     \* no MCP entry of yore's

AgentsAssumption == Agents \subseteq {"claude", "cursor", "opencode", "codex", "devin"}
BinsAssumption == {Theirs, Nobody} \cap Bins = {} /\ Within \subseteq Bins \X Bins
BoundsAssumption == MaxRun \in Nat /\ MaxSave \in Nat

VARIABLES
  agent,   \* the one this behaviour is about
  file,    \* content of "hooks" and "mcp", where the agent's entries go
  run,     \* what each process is doing
  runs, saves,
  \* history
  owned,   \* what is not yore's in each file
  lost     \* files in which a write was cut short or overwrote a save

vars == <<agent, file, run, runs, saves, owned, lost>>

Files == {"hooks", "mcp"}
Empty == [is |-> "document", own |-> 0, blocks |-> {}, mcp |-> Nobody, altered |-> {}]
Absent == [Empty EXCEPT !.is = "absent"]
Torn == [Empty EXCEPT !.is = "torn"]      \* cut short, as far as JSON is concerned
Block(ev, cmds) == [ev |-> ev, cmds |-> cmds]

\* What a reader that does not parse makes of a file.
Content(c) == [c EXCEPT !.is = "document"]

\* The texts of yore's in Codex's file: a binary's two hooks, and its MCP entry.
Texts(doc) == {t \in {"hooks", "mcp"} \X Bins :
                 IF t[1] = "hooks" THEN \E b \in doc.blocks : t[2] \in b.cmds ELSE doc.mcp = t[2]}

(***************************************************************************)
(* Adding.                                                                 *)
(***************************************************************************)
ClaudeEvents == {"PreToolUse", "PostToolUse", "PostToolUseFailure", "UserPromptSubmit"}
CursorEvents == {"afterShellExecution", "beforeSubmitPrompt"}
DevinEvents == {"PreToolUse", "PostToolUse", "UserPromptSubmit"}
CodexEvents == {"PostToolUse", "UserPromptSubmit"}

HookCmdPresent(doc, ev, bin) == \E b \in doc.blocks : b.ev = ev /\ bin \in b.cmds

MergeHookInto(doc, events, bin) ==
  [doc EXCEPT !.blocks =
     @ \cup {Block(ev, {bin}) : ev \in {e \in events : ~HookCmdPresent(doc, e, bin)}}]

MergeCursorHook(doc, events, bin) ==
  [doc EXCEPT !.blocks = @ \cup {Block(ev, {bin}) : ev \in events}]

MergeMcpServer(doc, bin) == IF doc.mcp = Nobody THEN [doc EXCEPT !.mcp = bin] ELSE doc
MergeOpenCodeMcp(doc, bin) == IF doc.mcp = Nobody THEN [doc EXCEPT !.mcp = bin] ELSE doc
MergeClaudeHook(doc, bin) == MergeHookInto(doc, ClaudeEvents, bin)
MergeCursorHooks(doc, bin) == MergeCursorHook(doc, CursorEvents, bin)
MergeDevinConfig(doc, bin) == MergeMcpServer(MergeHookInto(doc, DevinEvents, bin), bin)

CodexHooksBlock(bin) == {Block(ev, {bin}) : ev \in CodexEvents}
PluginScript(bin) == [Empty EXCEPT !.blocks = {Block("plugin", {bin})}]

(***************************************************************************)
(* Removing.                                                               *)
(***************************************************************************)
\* Mutant: the whole block goes, whoever else has a command in it.
RemoveHookCmd_WholeBlock(doc, events, bin) ==
  [doc EXCEPT !.blocks = {b \in @ : ~(b.ev \in events /\ bin \in b.cmds)}]

RemoveHookCmd(doc, events, bin) ==
  LET hit == {b \in doc.blocks : b.ev \in events /\ bin \in b.cmds} IN
  [doc EXCEPT !.blocks = (@ \ hit) \cup {[b EXCEPT !.cmds = @ \ {bin}] :
                                           b \in {h \in hit : h.cmds # {bin}}}]

RemoveCursorHook(doc, events, bin) ==
  [doc EXCEPT !.blocks = {b \in @ : ~(b.ev \in events /\ b.cmds = {bin})}]

RemoveMcpServer(doc) == [doc EXCEPT !.mcp = Nobody]
RemoveOpenCodeMcp(doc) == [doc EXCEPT !.mcp = Nobody]

(***************************************************************************)
(* The steps of a run.  Each reads one file and says what becomes of it:   *)
(* written anew, removed, left alone, or left alone and the run over.      *)
(***************************************************************************)
Write(doc) == [do |-> "write", doc |-> doc]
Leave == [do |-> "leave", doc |-> Empty]
Stop == [do |-> "stop", doc |-> Empty]
Remove == [do |-> "remove", doc |-> Empty]

IfChanged(old, new) == IF new = old THEN Leave ELSE Write(new)

\* An installer's document: the file's, or a fresh one for a file that is not there.
InitClaudeCode(c, bin) ==
  IF c = Torn THEN Stop
  ELSE LET new == MergeClaudeHook(Content(c), bin) IN
       IF new = Content(c) THEN Stop ELSE Write(new)

RegisterMcpAt(c, bin) ==
  IF c = Torn THEN Leave ELSE IfChanged(Content(c), MergeMcpServer(Content(c), bin))

InstallCursorHooks(c, bin) ==
  IF c = Torn THEN Leave ELSE IfChanged(Content(c), MergeCursorHooks(Content(c), bin))

InstallOpenCodePlugin(bin) == Write(PluginScript(bin))

RegisterOpenCodeMcp(c, bin) ==
  IF c = Torn THEN Leave ELSE IfChanged(Content(c), MergeOpenCodeMcp(Content(c), bin))

\* The two Codex steps search the text, so a longer path ending in bin passes for it.
CodexHooksInstalled(c, bin) ==
  \E b \in Bins : (b = bin \/ <<bin, b>> \in Within) /\ HookCmdPresent(Content(c), "PostToolUse", b)
InstallCodexHooks(c, bin) ==
  IF CodexHooksInstalled(c, bin) THEN Leave
  ELSE Write([Content(c) EXCEPT !.blocks = @ \cup CodexHooksBlock(bin)])
CodexMcpRegistered(c) == Content(c).mcp # Nobody
RegisterCodexMcp(c, bin) ==
  IF CodexMcpRegistered(c) THEN Leave ELSE Write([Content(c) EXCEPT !.mcp = bin])

InitDevin(c, bin) ==
  IF c = Torn THEN Stop ELSE IfChanged(Content(c), MergeDevinConfig(Content(c), bin))

EditJSONFile(c, new) == IF c \in {Absent, Torn} THEN Leave ELSE IfChanged(c, new)

\* Mutant: the list of events to clean was not extended with the installer's.
UninitClaude_Short(c, bin) ==
  EditJSONFile(c, RemoveHookCmd(Content(c), ClaudeEvents \ {"PostToolUseFailure"}, bin))

UninitClaude(c, bin) == EditJSONFile(c, RemoveHookCmd(Content(c), ClaudeEvents, bin))
UninitCursor(c, bin) == EditJSONFile(c, RemoveCursorHook(Content(c), CursorEvents, bin))
UninitOpenCode(c) == IF c = Absent THEN Leave ELSE Remove

\* Exactly the texts the installer appends; one that was altered since does not match,
\* and stays.  The MCP block names the binary too.
UninitCodex(c, bin) ==
  IF c = Absent THEN Leave
  ELSE LET doc == Content(c)
           hooks == IF /\ CodexHooksBlock(bin) \subseteq doc.blocks
                       /\ <<"hooks", bin>> \notin doc.altered
                      THEN CodexHooksBlock(bin) ELSE {}
           mcp == IF doc.mcp = bin /\ <<"mcp", bin>> \notin doc.altered THEN Nobody ELSE doc.mcp
       IN IfChanged(doc, [doc EXCEPT !.blocks = @ \ hooks, !.mcp = mcp])

UninitDevin(c, bin) ==
  EditJSONFile(c, RemoveMcpServer(RemoveHookCmd(Content(c), DevinEvents, bin)))

RunInitCursor == <<"cursor", "mcp">>
RunInitOpenCode == <<"plugin", "opencode mcp">>
RunInitCodex == <<"codex", "codex mcp">>
Plan(verb) ==
  IF verb = "init"
    THEN CASE agent = "claude" -> <<"claude", "mcp">>
           [] agent = "cursor" -> RunInitCursor
           [] agent = "opencode" -> RunInitOpenCode
           [] agent = "codex" -> RunInitCodex
           [] agent = "devin" -> <<"devin">>
    ELSE CASE agent = "claude" -> <<"no claude", "no mcp">>
           [] agent = "cursor" -> <<"no cursor", "no mcp">>
           [] agent = "opencode" -> <<"no plugin", "no opencode mcp">>
           [] agent = "codex" -> <<"no codex">>
           [] agent = "devin" -> <<"no devin">>

\* Codex and Devin keep both in one file.
FileOf(step) ==
  IF step \in {"mcp", "no mcp", "opencode mcp", "no opencode mcp"} THEN "mcp" ELSE "hooks"

Outcome(step, c, bin) ==
  CASE step = "claude" -> InitClaudeCode(c, bin)
    [] step = "cursor" -> InstallCursorHooks(c, bin)
    [] step = "plugin" -> InstallOpenCodePlugin(bin)
    [] step = "codex" -> InstallCodexHooks(c, bin)
    [] step = "codex mcp" -> RegisterCodexMcp(c, bin)
    [] step = "devin" -> InitDevin(c, bin)
    [] step = "mcp" -> RegisterMcpAt(c, bin)
    [] step = "opencode mcp" -> RegisterOpenCodeMcp(c, bin)
    [] step = "no claude" -> UninitClaude(c, bin)
    [] step = "no cursor" -> UninitCursor(c, bin)
    [] step = "no plugin" -> UninitOpenCode(c)
    [] step = "no codex" -> UninitCodex(c, bin)
    [] step = "no devin" -> UninitDevin(c, bin)
    [] step = "no mcp" -> EditJSONFile(c, RemoveMcpServer(Content(c)))
    [] step = "no opencode mcp" -> EditJSONFile(c, RemoveOpenCodeMcp(Content(c)))

(***************************************************************************)
(* Runs, and everybody else.                                               *)
(***************************************************************************)
Idle == [verb |-> "none", bin |-> Nobody, todo |-> <<>>, out |-> Leave, saw |-> Absent,
         pc |-> "idle", alone |-> FALSE]

\* A hook block as the owner of the file writes one; not in the plugin, which is yore's.
OwnHooks == IF agent = "opencode" THEN {} ELSE {"PostToolUse", "afterShellExecution"}

Init ==
  /\ agent \in Agents
  /\ file \in [Files -> {Absent, [Empty EXCEPT !.own = 1]}]
  /\ agent = "opencode" => file["hooks"] = Absent
  /\ agent \in {"codex", "devin"} => file["mcp"] = Absent
  /\ run = [p \in Runs |-> Idle] /\ runs = 0 /\ saves = 0
  /\ owned = [f \in Files |-> [own |-> file[f].own, hooks |-> {}]]
  /\ lost = {}

Begin(p) ==
  /\ run[p].pc = "idle" /\ runs < MaxRun
  /\ runs' = runs + 1
  /\ \E verb \in {"init", "uninit"}, bin \in Bins :
       run' = [q \in Runs |->
         IF q = p THEN [Idle EXCEPT !.verb = verb, !.bin = bin, !.todo = Plan(verb), !.pc = "read",
                                    !.alone = \A o \in Runs \ {p} : run[o].pc = "idle"]
         ELSE [run[q] EXCEPT !.alone = FALSE]]
  /\ UNCHANGED <<agent, file, saves, owned, lost>>

\* os.ReadFile and what the step makes of it.
Read(p) ==
  /\ run[p].pc = "read" /\ run[p].todo # <<>>
  /\ LET step == Head(run[p].todo)
         c == file[FileOf(step)]
         out == Outcome(step, c, run[p].bin)
     IN run' = [run EXCEPT ![p] =
          IF out.do = "stop" THEN Idle
          ELSE IF out.do = "leave" THEN [run[p] EXCEPT !.todo = Tail(@)]
          ELSE [run[p] EXCEPT !.out = out, !.saw = c, !.pc = out.do]]
  /\ UNCHANGED <<agent, file, runs, saves, owned, lost>>

\* What of a document is not yore's.
OwnPart(doc) == [own |-> doc.own, hooks |-> {b.ev : b \in {x \in doc.blocks : Theirs \in x.cmds}}]

Truncate(p) ==
  /\ run[p].pc = "write"
  /\ file' = [file EXCEPT ![FileOf(Head(run[p].todo))] = Torn]
  /\ run' = [run EXCEPT ![p].pc = "fill"]
  /\ UNCHANGED <<agent, runs, saves, owned, lost>>

\* What the run did not read, saved since or cut short by another run, is gone.
Fill(p) ==
  /\ run[p].pc = "fill"
  /\ LET f == FileOf(Head(run[p].todo)) IN
       /\ file' = [file EXCEPT ![f] = run[p].out.doc]
       /\ lost' = IF OwnPart(run[p].saw) = owned[f] THEN lost ELSE lost \cup {f}
  /\ run' = [run EXCEPT ![p].pc = "read", ![p].todo = Tail(@)]
  /\ UNCHANGED <<agent, runs, saves, owned>>

Unlink(p) ==
  /\ run[p].pc = "remove"
  /\ file' = [file EXCEPT ![FileOf(Head(run[p].todo))] = Absent]
  /\ run' = [run EXCEPT ![p].pc = "read", ![p].todo = Tail(@)]
  /\ UNCHANGED <<agent, runs, saves, owned, lost>>

Finish(p) ==
  /\ run[p].pc = "read" /\ run[p].todo = <<>>
  /\ run' = [run EXCEPT ![p] = Idle]
  /\ UNCHANGED <<agent, file, runs, saves, owned, lost>>

\* A text cut short: of yore's texts those kept, one of them without its end.
Prefix(doc, kept, cut) ==
  [doc EXCEPT !.blocks = {b \in @ : \A bin \in Bins : bin \in b.cmds =>
                            /\ <<"hooks", bin>> \in kept
                            /\ <<"hooks", bin>> \in cut => b.ev = "PostToolUse"},
              !.mcp = IF <<"mcp", @>> \in kept THEN @ ELSE Nobody,
              !.altered = (@ \cap kept) \cup cut]

\* What the run adds stands last: it is cut off first, and alone.
InOrder(before, kept, cut) ==
  kept \subseteq before \/ (before \subseteq kept /\ cut \cap before = {})

\* Killed, or the disk is full: a write begun leaves the file cut short, which Codex's
\* steps read as any other text.
Die(p) ==
  /\ run[p].pc # "idle"
  /\ \/ run[p].pc # "fill" /\ UNCHANGED <<file, lost>>
     \/ /\ run[p].pc = "fill"
        /\ LET f == FileOf(Head(run[p].todo))
               doc == run[p].out.doc IN
             /\ lost' = lost \cup {f}
             /\ \/ UNCHANGED file
                \/ /\ agent = "codex"
                   /\ \E kept \in SUBSET Texts(doc) : \E cut \in {{}} \cup {{t} : t \in kept} :
                        /\ InOrder(Texts(run[p].saw), kept, cut)
                        /\ file' = [file EXCEPT ![f] = Prefix(doc, kept, cut)]
  /\ run' = [run EXCEPT ![p] = Idle]
  /\ UNCHANGED <<agent, runs, saves, owned>>

\* The owner saves a file it can read: another setting, or a hook of its own in
\* a block of its own or, where blocks hold several, beside yore's; in Codex's,
\* yore's own text may come out laid out otherwise.
Save(f) ==
  /\ saves < MaxSave /\ file[f] # Torn
  /\ ~(agent = "opencode" /\ f = "hooks") /\ ~(agent \in {"codex", "devin"} /\ f = "mcp")
  /\ LET doc == Content(file[f]) IN
       \/ /\ file' = [file EXCEPT ![f] = [doc EXCEPT !.own = @ + 1]]
          /\ owned' = [owned EXCEPT ![f].own = @ + 1]
       \/ \E ev \in OwnHooks :
            /\ f = "hooks" /\ ev \notin owned[f].hooks
            /\ \/ file' = [file EXCEPT ![f] = [doc EXCEPT !.blocks = @ \cup {Block(ev, {Theirs})}]]
               \/ \E b \in doc.blocks :
                    /\ b.ev = ev /\ agent \in {"claude", "devin"}
                    /\ file' = [file EXCEPT ![f] = [doc EXCEPT !.blocks =
                                 (@ \ {b}) \cup {[b EXCEPT !.cmds = @ \cup {Theirs}]}]]
            /\ owned' = [owned EXCEPT ![f].hooks = @ \cup {ev}]
       \/ \E t \in Texts(doc) \ doc.altered :
            /\ agent = "codex"
            /\ file' = [file EXCEPT ![f] = [doc EXCEPT !.altered = @ \cup {t}]]
            /\ UNCHANGED owned
  /\ saves' = saves + 1
  /\ run' = [p \in Runs |-> [run[p] EXCEPT !.alone = FALSE]]
  /\ UNCHANGED <<agent, runs, lost>>

Next ==
  \/ \E p \in Runs : \/ Begin(p) \/ Read(p) \/ Truncate(p) \/ Fill(p)
                     \/ Unlink(p) \/ Finish(p) \/ Die(p)
  \/ \E f \in Files : Save(f)

Spec == Init /\ [][Next]_vars

(***************************************************************************)
(* Properties.                                                             *)
(***************************************************************************)
\* Settings and hooks that are not yore's survive every order of installs and
\* removals, with whatever binaries, overlapping or killed between two files:
\* only a write that was cut short or that overlapped a save can lose them.
OthersKept ==
  \A f \in Files : file[f] # Torn /\ f \notin lost =>
    OwnPart(file[f]) = owned[f]

\* An uninit that nothing overlapped leaves no hook that starts its binary,
\* whichever installs of whichever binaries came before it, and no agent that
\* still starts yore's MCP server with it; all that stays is text in Codex's file
\* that was laid out otherwise or cut short since yore wrote it.
LeavesNothing ==
  [][\A p \in Runs : run[p].verb = "uninit" /\ run[p].alone /\ Finish(p) =>
       \A f \in Files : file[f] # Torn =>
         /\ run[p].bin \in UNION {b.cmds : b \in Content(file[f]).blocks} =>
              agent = "codex" /\ <<"hooks", run[p].bin>> \in file[f].altered
         /\ Content(file[f]).mcp = run[p].bin =>
              agent = "codex" /\ <<"mcp", run[p].bin>> \in file[f].altered]_vars
================================================================================

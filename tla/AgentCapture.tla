------------------------------ MODULE AgentCapture ------------------------------
(***************************************************************************)
(* What an agent's hooks record (cli/prompt.go, claudecode.go, codex.go,   *)
(* cursor.go, devin.go, opencode.go).                                      *)
(*                                                                         *)
(* Every hook is a process of its own.  The prompt hook, the hook before a *)
(* command and the one after it share two kinds of small files, named by   *)
(* the session: the current prompt's id, and when a command was begun.     *)
(* The agent waits for a hook, but kills one that takes too long, and its  *)
(* user may interrupt a turn while the hook after a command still runs.    *)
(*                                                                         *)
(* Prompts and commands are numbered in the order they happen; a start     *)
(* time is the number of the command it was taken for.                     *)
(***************************************************************************)
EXTENDS Naturals, FiniteSets

CONSTANTS Agent,      \* of "claude", "codex", "cursor", "devin" and "opencode"
          Id,         \* session ids as agents hand them out, NoId for a missing one
          NoId,
          Text,       \* texts of commands
          MaxPrompt,  \* bound: prompts
          MaxTool     \* bound: commands

CaptureAssumption ==
  /\ Agent \subseteq {"claude", "codex", "cursor", "devin", "opencode"}
  /\ MaxPrompt \in Nat /\ MaxTool \in Nat

VARIABLES
  asked,       \* prompts submitted: whose they are
  turn,        \* the prompt each session of each agent is working on, 0 before any
  tools,       \* commands run: whose, which text, in which turn
  promptFile,  \* agent-prompts: the prompt a session's file names, 0 without a file
  startFile,   \* agent-cmd-starts: the command a file was written for, or 0
  hooks,       \* hook processes
  prompts,     \* prompt records in the spool
  records,     \* command records in the spool
  \* history
  untraced,    \* prompts whose hook refused, failed or was killed
  overtaken,   \* commands still in hand when the next prompt was submitted
  blurred      \* commands that ran beside one of the same text, or unstamped

vars == <<asked, turn, tools, promptFile, startFile, hooks, prompts, records,
          untraced, overtaken, blurred>>

(***************************************************************************)
(* The names of sessions: each agent's ids are its own, and only Claude    *)
(* Code's are used as they come.                                           *)
(***************************************************************************)
None == <<"", NoId>>
CodexSession(id) == IF id = NoId THEN None ELSE <<"codex", id>>
CursorSession(id) == IF id = NoId THEN None ELSE <<"cursor", id>>
\* Mutant: a second agent's ids are used as they come.
DevinSession_Bare(id) == IF id = NoId THEN None ELSE <<"", id>>

DevinSession(id) == IF id = NoId THEN None ELSE <<"devin", id>>
OpenCodeSession(id) == IF id = NoId THEN None ELSE <<"opencode", id>>
Session(a, id) ==
  CASE a = "claude" -> <<"", id>>
    [] a = "codex" -> CodexSession(id)
    [] a = "cursor" -> CursorSession(id)
    [] a = "devin" -> DevinSession(id)
    [] a = "opencode" -> OpenCodeSession(id)

\* The files are named by a hash of the session, or of session and command.
PromptStatePath(a, id) == Session(a, id)
CmdStartPath(a, id, text) == <<Session(a, id), text>>

HasPreHook(a) == a \in {"claude", "devin"}

Init ==
  /\ asked = <<>> /\ turn = [s \in Agent \X Id |-> 0] /\ tools = <<>>
  /\ promptFile = [s \in {Session(a, i) : a \in Agent, i \in Id} |-> 0]
  /\ startFile = [c \in {CmdStartPath(a, i, t) : a \in Agent, i \in Id, t \in Text} |-> 0]
  /\ hooks = {} /\ prompts = {} /\ records = {}
  /\ untraced = {} /\ overtaken = {} /\ blurred = {}

Hook(kind, n, a, id) ==
  [kind |-> kind, n |-> n, a |-> a, id |-> id, pc |-> "begun", start |-> 0, prompt |-> 0]
Of(h, a, id) == h.a = a /\ h.id = id

Running(n) == tools[n].state # "over"

(***************************************************************************)
(* The prompt hook, recordPrompt.                                          *)
(***************************************************************************)
\* The next prompt, perhaps while hooks after commands of the turn still run.
Submit(a, id) ==
  LET q == Cardinality(DOMAIN asked) + 1 IN
  /\ q <= MaxPrompt
  /\ ~\E h \in hooks : Of(h, a, id) /\ h.kind # "post"
  /\ asked' = [k \in 1..q |-> IF k = q THEN <<a, id>> ELSE asked[k]]
  /\ turn' = [turn EXCEPT ![<<a, id>>] = q]
  /\ hooks' = hooks \cup {Hook("prompt", q, a, id)}
  /\ overtaken' = overtaken \cup {n \in DOMAIN tools : Running(n) /\ tools[n].s = <<a, id>>}
  /\ UNCHANGED <<tools, promptFile, startFile, prompts, records, untraced, blurred>>

\* A prompt without a session, an empty one, or one the user's patterns ignore.
PromptRefused(h) ==
  /\ h.kind = "prompt" /\ h.pc = "begun"
  /\ hooks' = hooks \ {h}
  /\ untraced' = untraced \cup {h.n}
  /\ UNCHANGED <<asked, turn, tools, promptFile, startFile, prompts, records, overtaken, blurred>>

\* The id goes to the state file before the record goes to the spool.
WritePromptState(h) ==
  /\ h.kind = "prompt" /\ h.pc = "begun" /\ Session(h.a, h.id) # None
  /\ promptFile' = [promptFile EXCEPT ![PromptStatePath(h.a, h.id)] = h.n]
  /\ hooks' = (hooks \ {h}) \cup {[h EXCEPT !.pc = "written"]}
  /\ UNCHANGED <<asked, turn, tools, startFile, prompts, records, untraced, overtaken, blurred>>

SpoolPrompt(h) ==
  /\ h.kind = "prompt" /\ h.pc = "written"
  /\ prompts' = prompts \cup {h.n}
  /\ hooks' = hooks \ {h}
  /\ UNCHANGED <<asked, turn, tools, promptFile, startFile, records, untraced, overtaken, blurred>>

(***************************************************************************)
(* A command: the hook before it, the command, the hook after it.          *)
(***************************************************************************)
Beside(a, id, text) ==
  {n \in DOMAIN tools : Running(n) /\ tools[n].s = <<a, id>> /\ tools[n].text = text}

\* The agent decides to run a command; where it has a hook for that, the hook goes first.
RunTool(a, id, text) ==
  LET n == Cardinality(DOMAIN tools) + 1 IN
  /\ n <= MaxTool
  /\ ~\E h \in hooks : Of(h, a, id) /\ h.kind = "prompt"
  /\ tools' = [k \in 1..n |-> IF k # n THEN tools[k]
                 ELSE [s |-> <<a, id>>, text |-> text, turn |-> turn[<<a, id>>], state |-> "runs"]]
  /\ hooks' = IF HasPreHook(a) THEN hooks \cup {Hook("pre", n, a, id)} ELSE hooks
  /\ blurred' = IF Beside(a, id, text) = {} THEN blurred
                ELSE blurred \cup Beside(a, id, text) \cup {n}
  /\ UNCHANGED <<asked, turn, promptFile, startFile, prompts, records, untraced, overtaken>>

SaveCmdStart(h) ==
  /\ h.kind = "pre"
  /\ startFile' = IF Session(h.a, h.id) \in {None, <<"", NoId>>} THEN startFile
                  ELSE [startFile EXCEPT ![CmdStartPath(h.a, h.id, tools[h.n].text)] = h.n]
  /\ hooks' = hooks \ {h}
  /\ UNCHANGED <<asked, turn, tools, promptFile, prompts, records, untraced, overtaken, blurred>>

\* The command ends and the hook after it starts, or it was denied and none does.
ToolEnds(n) ==
  /\ Running(n) /\ ~\E h \in hooks : h.n = n /\ h.kind # "prompt"
  /\ \/ /\ tools' = [tools EXCEPT ![n].state = "ended"]
        /\ hooks' = hooks \cup {Hook("post", n, tools[n].s[1], tools[n].s[2])}
     \/ tools' = [tools EXCEPT ![n].state = "over"] /\ UNCHANGED hooks
  /\ tools[n].state = "runs"
  /\ UNCHANGED <<asked, turn, promptFile, startFile, prompts, records, untraced, overtaken, blurred>>

LoadCmdStart(h) ==
  /\ h.kind = "post" /\ h.pc = "begun"
  /\ LET path == CmdStartPath(h.a, h.id, tools[h.n].text) IN
       IF HasPreHook(h.a) /\ Session(h.a, h.id) # None
         THEN /\ hooks' = (hooks \ {h}) \cup {[h EXCEPT !.pc = "loaded", !.start = startFile[path]]}
              /\ startFile' = [startFile EXCEPT ![path] = 0]
         ELSE /\ hooks' = (hooks \ {h}) \cup {[h EXCEPT !.pc = "loaded"]}
              /\ UNCHANGED startFile
  /\ UNCHANGED <<asked, turn, tools, promptFile, prompts, records, untraced, overtaken, blurred>>

LoadPromptState(a, id) ==
  IF Session(a, id) = None THEN 0 ELSE promptFile[PromptStatePath(a, id)]

StampPrompt(h) ==
  /\ h.kind = "post" /\ h.pc = "loaded"
  /\ hooks' = (hooks \ {h}) \cup {[h EXCEPT !.pc = "stamped", !.prompt = LoadPromptState(h.a, h.id)]}
  /\ UNCHANGED <<asked, turn, tools, promptFile, startFile, prompts, records, untraced, overtaken, blurred>>

SpoolCommand(h) ==
  /\ h.kind = "post" /\ h.pc = "stamped"
  /\ records' = records \cup {[n |-> h.n, prompt |-> h.prompt, start |-> h.start]}
  /\ tools' = [tools EXCEPT ![h.n].state = "over"]
  /\ hooks' = hooks \ {h}
  /\ UNCHANGED <<asked, turn, promptFile, startFile, prompts, untraced, overtaken, blurred>>

\* A hook that is killed, cannot write, or whose command the gate keeps out.
HookDies(h) ==
  /\ hooks' = hooks \ {h}
  /\ untraced' = IF h.kind = "prompt" THEN untraced \cup {h.n} ELSE untraced
  /\ tools' = IF h.kind = "post" THEN [tools EXCEPT ![h.n].state = "over"] ELSE tools
  /\ blurred' = IF h.kind = "pre" THEN blurred \cup {h.n} ELSE blurred
  /\ UNCHANGED <<asked, turn, promptFile, startFile, prompts, records, overtaken>>

Next ==
  \/ \E a \in Agent, id \in Id :
       \/ Submit(a, id)
       \/ \E t \in Text : RunTool(a, id, t)
  \/ \E n \in DOMAIN tools : ToolEnds(n)
  \/ \E h \in hooks : \/ PromptRefused(h) \/ WritePromptState(h) \/ SpoolPrompt(h)
                      \/ SaveCmdStart(h) \/ LoadCmdStart(h) \/ StampPrompt(h)
                      \/ SpoolCommand(h) \/ HookDies(h)

Spec == Init /\ [][Next]_vars

(***************************************************************************)
(* Properties.                                                             *)
(***************************************************************************)
\* A command is traced to a prompt of its own session, whatever ids other agents
\* hand out.  It is the prompt of its turn, and that prompt has a record, unless
\* the prompt's hook refused it or was killed, or the command was still in hand
\* when the next prompt came.  And the start a duration is measured from was taken
\* for a command of the same text in the same session, and for this very command
\* unless another of that text ran beside it or its own stamp was not made.
RecordsOwnTurn ==
  /\ \A r \in records : r.prompt # 0 =>
       LET t == tools[r.n] IN
         /\ asked[r.prompt] = t.s
         /\ r.prompt = t.turn \/ t.turn \in untraced \/ r.n \in overtaken
         /\ r.prompt \in prompts \cup untraced \/ r.n \in overtaken
  /\ \A r \in records : r.start # 0 =>
       /\ tools[r.start].s = tools[r.n].s /\ tools[r.start].text = tools[r.n].text
       /\ r.start = r.n \/ r.n \in blurred
================================================================================

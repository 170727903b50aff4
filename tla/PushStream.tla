------------------------------- MODULE PushStream -------------------------------
(***************************************************************************)
(* How one machine's history reaches the sync server (Syncer.Push and the  *)
(* server's handlePush): batches above a persisted watermark, a size-bound *)
(* prefix of each, halved while the server finds it too large, and the     *)
(* watermark moved by what was acknowledged.                               *)
(*                                                                         *)
(* A request whose client has given up may still be waiting for the        *)
(* server's write lock and take effect later, or never.  The daemon may be *)
(* killed at any step; syncMu allows one cycle at a time.  config.toml may *)
(* be edited during one, which then goes on with the syncer it has.        *)
(***************************************************************************)
EXTENDS Naturals, Sequences, FiniteSets

CONSTANTS
    Servers,
    MaxRows,        \* bounds the rows ever recorded, which are numbered
    Prompts,        \* the numbers of those that are prompts
    BatchLimit,     \* pushBatchLimit
    MaxInFlight,    \* bounds the requests on the network at a time
    NoBackup

ASSUME PushAssumption ==
    /\ Servers # {} /\ MaxRows \in Nat /\ BatchLimit \in Nat \ {0} /\ MaxInFlight \in Nat
    /\ Prompts \subseteq Nat

VARIABLES
    hist,           \* the local store's rows, by seq: their numbers
    mark,           \* its meta key last_uploaded_seq
    backup,         \* the last hot backup of both
    born,           \* how many rows were ever recorded
    server,         \* the configured server
    prompts,        \* the configured sync_prompts
    pc,             \* where the running Push is
    sy,             \* the server and sync_prompts of its syncer
    wm,             \* its watermark
    body,           \* the seqs of the records it sealed
    last,           \* the last seq it considered for them
    cut,            \* the last one of them it sends
    net,            \* the requests the server may still process
    stream,         \* per server: this host's records, by seq
    replaced,       \* history variable: data.db was replaced by a backup
    consented,      \* history variable: the prompts sync_prompts was on for
    exposed         \* history variable: those recorded while a cycle still had it on

cycle == <<pc, sy, wm, body, last, cut>>
store == <<hist, mark, backup, born>>
vars == <<hist, mark, backup, born, server, prompts, pc, sy, wm, body, last, cut,
          net, stream, replaced, consented, exposed>>

ghosts == <<replaced, consented, exposed>>

NoRecords == [k \in {} |-> 0]

PromptsOf(h) == {h[k] : k \in DOMAIN h} \cap Prompts

Init ==
    /\ hist = << >> /\ mark = 0 /\ backup = NoBackup /\ born = 0
    /\ server \in Servers /\ prompts \in BOOLEAN
    /\ pc = "idle" /\ sy = [server |-> server, prompts |-> prompts]
    /\ wm = 0 /\ body = {} /\ last = 0 /\ cut = 0
    /\ net = {} /\ stream = [s \in Servers |-> NoRecords]
    /\ replaced = FALSE /\ consented = {} /\ exposed = {}

-------------------------------------------------------------------------------
(* The store, its backups and the configuration *)

Record ==
    /\ born < MaxRows
    /\ born' = born + 1
    /\ hist' = Append(hist, born')
    /\ consented' = IF prompts THEN consented \cup PromptsOf(hist') ELSE consented
    /\ exposed' = IF pc # "idle" /\ sy.prompts THEN exposed \cup ({born'} \cap Prompts) ELSE exposed
    /\ UNCHANGED <<mark, backup, server, prompts, cycle, net, stream, replaced>>

\* BackupTo copies the database, its meta bucket included.
Backup ==
    /\ backup' = [hist |-> hist, mark |-> mark]
    /\ UNCHANGED <<hist, mark, born, server, prompts, cycle, net, stream, ghosts>>

\* The daemon is stopped, data.db replaced and the daemon started again.
Restore ==
    /\ backup # NoBackup
    /\ replaced' = TRUE
    /\ hist' = backup.hist /\ mark' = backup.mark
    /\ pc' = "idle"
    /\ consented' = IF prompts THEN consented \cup PromptsOf(hist') ELSE consented
    /\ UNCHANGED <<backup, born, server, prompts, sy, wm, body, last, cut, net, stream, exposed>>

\* An edit of config.toml is attached: the next cycle uses a new syncer.
Configure(s, p) ==
    /\ server' = s /\ prompts' = p
    /\ consented' = IF p THEN consented \cup PromptsOf(hist) ELSE consented
    /\ UNCHANGED <<store, cycle, net, stream, replaced, exposed>>

-------------------------------------------------------------------------------
(* Push *)

Begin ==
    /\ pc = "idle"
    /\ pc' = "read"
    /\ sy' = [server |-> server, prompts |-> prompts]
    /\ wm' = mark
    /\ UNCHANGED <<store, server, prompts, body, last, cut, net, stream, ghosts>>

\* Since: the rows above the watermark, BatchLimit of them at most.
BatchEnd == IF wm + BatchLimit < Len(hist) THEN wm + BatchLimit ELSE Len(hist)

\* Mutant: prompts are sealed whatever the setting.
Pushable_Always(k) == k \in DOMAIN hist

IsPrompt(k) == hist[k] \in Prompts

Pushable(k) == ~IsPrompt(k) \/ sy.prompts

Sealed(to) == {k \in (wm + 1)..to : Pushable(k)}

\* The body may end there: the batch does, or the next record would exceed
\* maxPushBytes.
MayEnd(to) == to < BatchEnd => Sealed(to) # {} /\ Pushable(to + 1)

\* Nothing is left: Push returns.
Done ==
    /\ pc = "read" /\ Len(hist) <= wm
    /\ pc' = "idle"
    /\ UNCHANGED <<store, server, prompts, sy, wm, body, last, cut, net, stream, ghosts>>

\* Mutant: the body ends where the size does, the stream position does not.
Seal_WholeBatch ==
    /\ pc = "read" /\ wm < Len(hist)
    /\ \E to \in (wm + 1)..BatchEnd :
        /\ MayEnd(to)
        /\ body' = Sealed(to) /\ last' = BatchEnd
        /\ \/ body' # {} /\ pc' = "send" /\ cut' \in body' /\ \A k \in body' : k <= cut'
           \/ body' = {} /\ pc' = "bank" /\ cut' = 0
    /\ UNCHANGED <<store, server, prompts, sy, wm, net, stream, ghosts>>

\* Seal a prefix of the batch.  One of nothing but prompts is only passed over.
Seal ==
    /\ pc = "read" /\ wm < Len(hist)
    /\ \E to \in (wm + 1)..BatchEnd :
        /\ MayEnd(to)
        /\ body' = Sealed(to) /\ last' = to
        /\ \/ body' # {} /\ pc' = "send" /\ cut' \in body' /\ \A k \in body' : k <= cut'
           \/ body' = {} /\ pc' = "bank" /\ cut' = 0
    /\ UNCHANGED <<store, server, prompts, sy, wm, net, stream, ghosts>>

\* The sealed records up to one of them.
Leading(k) == {j \in body : j <= k}

\* Mutant: after a halving it is the trailing records that are sent.
Request_Trailing ==
    [server |-> sy.server,
     recs |-> [k \in IF Leading(cut) = body THEN body ELSE body \ Leading(cut) |-> hist[k]]]

Request == [server |-> sy.server, recs |-> [k \in Leading(cut) |-> hist[k]]]

Send ==
    /\ pc = "send" /\ Cardinality(net) < MaxInFlight
    /\ net' = net \cup {Request}
    /\ pc' = "wait"
    /\ UNCHANGED <<store, server, prompts, sy, wm, body, last, cut, stream, ghosts>>

\* pushWithBackoff goes on with half as many records.
Halved == {k \in body : Cardinality(Leading(k)) = Cardinality(Leading(cut)) \div 2}

\* 413, or the 400 of a truncated body.  A single record that is refused ends
\* the cycle.
Refused ==
    /\ pc = "wait" /\ Request \in net
    /\ net' = net \ {Request}
    /\ \/ Halved # {} /\ cut' \in Halved /\ pc' = "send"
       \/ Halved = {} /\ pc' = "idle" /\ cut' = cut
    /\ UNCHANGED <<store, server, prompts, sy, wm, body, last, stream, ghosts>>

\* Mutant: the watermark passes the whole body although a part was sent.
Banked_WholeBody == last

\* What the watermark may pass once the leading records are acknowledged.
Banked == IF Leading(cut) = body THEN last ELSE cut

\* Mutant: the watermark in RAM is not moved.
Bank_SameBatch ==
    /\ pc = "bank"
    /\ mark' = wm /\ wm' = wm
    /\ pc' = "read"
    /\ UNCHANGED <<hist, backup, born, server, prompts, sy, body, last, cut, net, stream, ghosts>>

Bank ==
    /\ pc = "bank"
    /\ mark' = Banked /\ wm' = Banked
    /\ pc' = "read"
    /\ UNCHANGED <<hist, backup, born, server, prompts, sy, body, last, cut, net, stream, ghosts>>

\* A key cannot be fetched or uploaded, the deadline passes, the answer is
\* lost, the watermark cannot be written, or the daemon is killed.
GiveUp ==
    /\ pc # "idle"
    /\ pc' = "idle"
    /\ UNCHANGED <<store, server, prompts, sy, wm, body, last, cut, net, stream, ghosts>>

-------------------------------------------------------------------------------
(* The server and the network *)

\* handlePush's transaction: the first write of a seq wins.
Stored(old, recs) ==
    [k \in DOMAIN old \cup DOMAIN recs |-> IF k \in DOMAIN old THEN old[k] ELSE recs[k]]

\* The server processes a request; its answer reaches the client if that still
\* waits for it, and may get lost.
Deliver(m) ==
    /\ m \in net
    /\ net' = net \ {m}
    /\ stream' = [stream EXCEPT ![m.server] = Stored(@, m.recs)]
    /\ \/ pc' = pc
       \/ pc = "wait" /\ m = Request /\ pc' = "bank"
    /\ UNCHANGED <<store, server, prompts, sy, wm, body, last, cut, ghosts>>

LoseRequest(m) ==
    /\ m \in net
    /\ net' = net \ {m}
    /\ UNCHANGED <<store, server, prompts, cycle, stream, ghosts>>

PushStep == Begin \/ Done \/ Seal \/ Send \/ Refused \/ Bank \/ GiveUp

Next ==
    \/ Record \/ Backup \/ Restore
    \/ \E s \in Servers, p \in BOOLEAN : Configure(s, p)
    \/ PushStep
    \/ \E m \in net : Deliver(m) \/ LoseRequest(m)

Spec == Init /\ [][Next]_vars

-------------------------------------------------------------------------------
(* Properties *)

Uploaded == DOMAIN stream[server]

TypeOK ==
    /\ hist \in Seq(Nat) /\ mark \in Nat /\ born \in Nat
    /\ backup = NoBackup \/ (backup.hist \in Seq(Nat) /\ backup.mark \in Nat)
    /\ server \in Servers /\ prompts \in BOOLEAN
    /\ pc \in {"idle", "read", "send", "wait", "bank"}
    /\ sy \in [server : Servers, prompts : BOOLEAN]
    /\ wm \in Nat /\ body \subseteq Nat /\ last \in Nat /\ cut \in Nat
    /\ pc \in {"send", "wait"} => cut \in body
    /\ \A m \in net : m.server \in Servers /\ \A k \in DOMAIN m.recs : m.recs[k] \in Nat
    /\ DOMAIN stream = Servers
    /\ \A s \in Servers : \A k \in DOMAIN stream[s] : stream[s][k] \in Nat
    /\ replaced \in BOOLEAN /\ consented \subseteq Nat /\ exposed \subseteq Nat

\* However batches are cut, halved, lost, late or interrupted, and wherever the
\* configuration points in between, the watermark never passes a command that no
\* server has: Push will not come back to it.  Only a replaced data.db is excepted.
NothingSkipped ==
    ~replaced => \A k \in 1..mark : IsPrompt(k) \/ \E s \in Servers : k \in DOMAIN stream[s]

\* Until data.db is replaced, no server shows a record before every command that
\* precedes it is on a server, with a single server on that one.  A reader asks
\* for what lies after the last seq it saw, so it would never get a command that
\* appeared below one it has.
NoGaps ==
    ~replaced => \A s \in Servers : \A k \in DOMAIN stream[s] : \A j \in 1..k :
        IsPrompt(j) \/ \E t \in Servers : j \in DOMAIN stream[t]

\* A prompt leaves this machine only if it was in the store while sync_prompts
\* was on or while a cycle that began under it was running.
PromptsNeedConsent ==
    \A s \in Servers : \A k \in DOMAIN stream[s] :
        stream[s][k] \in Prompts => stream[s][k] \in consented \cup exposed

-------------------------------------------------------------------------------
(* Liveness *)

\* The tick starts cycles, a cycle has a deadline, no record exceeds the server's
\* limit, and no step of a cycle fails for ever: what is tried again and again
\* succeeds again and again.  A request does not stay on the network for ever.
Fairness ==
    /\ WF_vars(Begin) /\ WF_vars(GiveUp) /\ SF_vars(Seal) /\ SF_vars(Send) /\ SF_vars(Bank)
    /\ SF_vars(\E m \in net : Deliver(m) /\ pc' = "bank")
    /\ WF_vars(\E m \in net : Deliver(m) \/ LoseRequest(m))

FairSpec == Spec /\ Fairness

\* Every command reaches the server its cycle talks to, unless data.db is
\* replaced first.
CommandsReachServer ==
    \A k \in 1..MaxRows :
        (k \in DOMAIN hist /\ ~IsPrompt(k) /\ ~replaced)
            ~> (replaced \/ \E s \in Servers : k \in DOMAIN stream[s])

-------------------------------------------------------------------------------
(* What the documents claim and the code does not do *)

\* architecture.md: "Sync is therefore conflict-free and eventually consistent
\* by construction".  Here, with data.db never replaced: once Push has passed
\* every row of the store, the configured server holds every command of it.  The code
\* does not keep it: the watermark outlives a change of server.
PushedMeansStored ==
    ~replaced /\ pc = "idle" /\ mark = Len(hist) =>
        \A k \in DOMAIN hist : IsPrompt(k) \/ k \in Uploaded
===============================================================================

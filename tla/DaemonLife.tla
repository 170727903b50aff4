------------------------------- MODULE DaemonLife -------------------------------
(***************************************************************************)
(* The daemon's life and its clients' connections (daemon/client.go, Run,  *)
(* serve, shutdown, acceptLoop, handle and socketWatchLoop in              *)
(* daemon/daemon.go).                                                      *)
(*                                                                         *)
(* Whoever finds no daemon starts one; the store's lock decides which of   *)
(* several stays.  The socket is a path that anyone may unlink: a listener *)
(* survives that, unreachable.  A client keeps its connection for many     *)
(* requests, writes one and reads one answer under a deadline, and asks    *)
(* once more on a fresh connection when the old one is gone.               *)
(*                                                                         *)
(* Daemons are numbered in the order they are started, requests in the     *)
(* order they are made.                                                    *)
(***************************************************************************)
EXTENDS Naturals, Sequences

CONSTANTS Client,
          Op,         \* kinds of requests, of "query", "token" and "shutdown"
          MaxDaemon,  \* bound: processes started
          MaxReq,     \* bound: requests, and meddlings with them
          MaxMeddle   \* bound: how often someone removes the socket or moves the directory

LifeAssumption ==
  /\ Op \subseteq {"query", "token", "shutdown"}
  /\ {MaxDaemon, MaxReq, MaxMeddle} \subseteq Nat

VARIABLES
  daemons,  \* those started: phase, the state directory whose store they have, a pending stop
  home,     \* which state directory is at $YORE_DIR
  path,     \* the daemon whose socket is at the path, 0 for none
  client,   \* what each client is doing, and its connection
  reqs,     \* requests made: their kind
  applied,  \* how often each was carried out
  answer,   \* the last one a caller got: to which request, and whether after a timeout
  meddled   \* how often someone touched the socket or the directory

vars == <<daemons, home, path, client, reqs, applied, answer, meddled>>

Procs == DOMAIN daemons
Conn == [to |-> 0, inbox |-> <<>>, outbox |-> <<>>, late |-> FALSE]

Init ==
  /\ daemons = <<>> /\ home = 1 /\ path = 0
  /\ client = [c \in Client |-> [pc |-> "new", req |-> 0, again |-> FALSE, conn |-> Conn]]
  /\ reqs = <<>> /\ applied = <<>> /\ answer = [to |-> 0, is |-> 0, late |-> FALSE] /\ meddled = 0

(***************************************************************************)
(* A daemon.                                                               *)
(***************************************************************************)
Holds(k) == daemons[k].phase \in {"locked", "listening", "serving", "closing"}
Listening(k) == daemons[k].phase \in {"listening", "serving"}
Locked(h) == \E k \in Procs : Holds(k) /\ daemons[k].home = h

Spawned == [phase |-> "spawned", home |-> 0, stop |-> FALSE]
Phase(k, p) ==
  daemons' = [daemons EXCEPT ![k] = IF p = "gone" THEN [Spawned EXCEPT !.phase = p] ELSE [@ EXCEPT !.phase = p]]
SpawnDaemon == daemons' = IF Len(daemons) < MaxDaemon THEN Append(daemons, Spawned) ELSE daemons

\* A daemon that goes takes its connections with it.  Answers written before may
\* still be read; a request that was carried out may go unanswered.
Cut(k) ==
  \E unanswered \in SUBSET {c \in Client : client[c].conn.to = k /\ client[c].conn.outbox # <<>>} :
    client' = [c \in Client |->
      IF client[c].conn.to # k THEN client[c]
      ELSE [client[c] EXCEPT !.conn.to = 0, !.conn.inbox = <<>>,
                             !.conn.outbox = IF c \in unanswered THEN <<>> ELSE @]]

\* Mutant: whoever starts clears the path first.
RunOpen_ClearsPath(k) ==
  /\ daemons[k].phase = "spawned"
  /\ path' = 0
  /\ IF Locked(home) THEN Phase(k, "gone")
     ELSE daemons' = [daemons EXCEPT ![k].phase = "locked", ![k].home = home]
  /\ UNCHANGED <<home, client, reqs, applied, answer, meddled>>

\* store.Open: the loser of the race ends quietly.
RunOpen(k) ==
  /\ daemons[k].phase = "spawned"
  /\ IF Locked(home) THEN Phase(k, "gone")
     ELSE daemons' = [daemons EXCEPT ![k].phase = "locked", ![k].home = home]
  /\ UNCHANGED <<home, path, client, reqs, applied, answer, meddled>>

\* The lock proves any file at the path stale.
RunListen(k) ==
  /\ daemons[k].phase = "locked"
  /\ path' = k
  /\ Phase(k, "listening")
  /\ UNCHANGED <<home, client, reqs, applied, answer, meddled>>

\* The spool drained and the corpus loaded, or the daemon bails out.
RunServe(k) ==
  /\ daemons[k].phase = "listening"
  /\ \/ Phase(k, "serving") /\ UNCHANGED <<path, client>>
     \/ Phase(k, "gone") /\ path' = 0 /\ Cut(k)
  /\ UNCHANGED <<home, reqs, applied, answer, meddled>>

SocketLive(k) == path = k

\* The watchdog asks for a stop when the path is not the socket it bound.
SocketWatch(k) ==
  /\ daemons[k].phase = "serving" /\ ~daemons[k].stop /\ ~SocketLive(k)
  /\ daemons' = [daemons EXCEPT ![k].stop = TRUE]
  /\ UNCHANGED <<home, path, client, reqs, applied, answer, meddled>>

\* A stop asked for, a signal, or idleness: the listener closes, which unlinks the
\* path whatever is there, and so do the connections.
Shutdown(k) ==
  /\ daemons[k].phase = "serving"
  /\ Phase(k, "closing")
  /\ path' = 0
  /\ Cut(k)
  /\ UNCHANGED <<home, reqs, applied, answer, meddled>>

\* The workers ended: the socket, if still its own, and then the lock.
ShutdownEnds(k) ==
  /\ daemons[k].phase = "closing"
  /\ path' = IF SocketLive(k) THEN 0 ELSE path
  /\ Phase(k, "gone")
  /\ UNCHANGED <<home, client, reqs, applied, answer, meddled>>

Killed(k) ==
  /\ Holds(k)
  /\ Phase(k, "gone") /\ Cut(k)
  /\ UNCHANGED <<home, path, reqs, applied, answer, meddled>>

\* handle: a connection's requests in order, each dispatched and then answered.
Dispatch(c) ==
  LET k == client[c].conn.to IN
  /\ k # 0 /\ daemons[k].phase = "serving" /\ client[c].conn.inbox # <<>>
  /\ LET n == Head(client[c].conn.inbox) IN
       /\ applied' = [applied EXCEPT ![n] = @ + 1]
       /\ client' = [client EXCEPT ![c].conn.inbox = Tail(@), ![c].conn.outbox = Append(@, n)]
       /\ daemons' = IF reqs[n] = "shutdown" THEN [daemons EXCEPT ![k].stop = TRUE] ELSE daemons
  /\ UNCHANGED <<home, path, reqs, answer, meddled>>

(***************************************************************************)
(* A client.                                                               *)
(***************************************************************************)
CanDial == path # 0 /\ Listening(path)
Connected(c) == [Conn EXCEPT !.to = path]

\* Dial, or one spawn and then dialing again until the budget is spent.
EnsureRunning(c) ==
  /\ client[c].pc \in {"new", "redial"}
  /\ IF CanDial
       THEN /\ client' = [client EXCEPT ![c].conn = Connected(c), ![c].pc =
                            IF @ = "new" THEN "ready" ELSE "send"]
            /\ UNCHANGED daemons
       ELSE /\ SpawnDaemon
            /\ client' = [client EXCEPT ![c].pc = IF @ = "new" THEN "dialing" ELSE "redialing"]
  /\ UNCHANGED <<home, path, reqs, applied, answer, meddled>>

Dial(c) ==
  /\ client[c].pc \in {"dialing", "redialing"} /\ CanDial
  /\ client' = [client EXCEPT ![c].conn = Connected(c), ![c].pc =
                  IF @ = "dialing" THEN "ready" ELSE "send"]
  /\ UNCHANGED <<daemons, home, path, reqs, applied, answer, meddled>>

\* The budget is spent: no client, or the first failure reported.
GiveUp(c) ==
  /\ client[c].pc \in {"dialing", "redialing"} /\ ~CanDial
  /\ client' = [client EXCEPT ![c].pc = IF @ = "dialing" THEN "new" ELSE "ready", ![c].again = FALSE]
  /\ UNCHANGED <<daemons, home, path, reqs, applied, answer, meddled>>

Roundtrip(c) ==
  /\ client[c].pc = "ready" /\ Len(reqs) + meddled < MaxReq
  /\ \E op \in Op :
       /\ reqs' = Append(reqs, op) /\ applied' = Append(applied, 0)
       /\ client' = [client EXCEPT ![c].pc = "send", ![c].req = Len(reqs) + 1, ![c].again = FALSE]
  /\ UNCHANGED <<daemons, home, path, answer, meddled>>

\* Mutant: every request is asked again.
Resumable_Always(op) == op \in Op

Resumable(op) == op \notin {"token", "shutdown"}

\* A lost connection: once more on a fresh one, where that is safe.
Lost(c) ==
  IF ~client[c].again /\ Resumable(reqs[client[c].req])
    THEN client' = [client EXCEPT ![c].pc = "redial", ![c].again = TRUE]
    ELSE client' = [client EXCEPT ![c].pc = "ready"]

ExchangeWrite(c) ==
  /\ client[c].pc = "send"
  /\ IF client[c].conn.to = 0 THEN Lost(c)
     ELSE client' = [client EXCEPT ![c].conn.inbox = Append(@, client[c].req), ![c].pc = "wait"]
  /\ UNCHANGED <<daemons, home, path, reqs, applied, answer, meddled>>

\* One answer, whichever is the next on the connection.
ExchangeRead(c) ==
  /\ client[c].pc = "wait"
  /\ LET conn == client[c].conn IN
       \/ /\ conn.outbox # <<>>
          /\ answer' = [to |-> client[c].req, is |-> Head(conn.outbox), late |-> conn.late]
          /\ client' = [client EXCEPT ![c].conn.outbox = Tail(@), ![c].pc = "ready"]
       \/ conn.to = 0 /\ conn.outbox = <<>> /\ Lost(c) /\ UNCHANGED answer
  /\ UNCHANGED <<daemons, home, path, reqs, applied, meddled>>

\* The deadline is not a lost connection: the client stays on it.
Deadline(c) ==
  /\ client[c].pc = "wait" /\ client[c].conn.to # 0 /\ client[c].conn.outbox = <<>>
  /\ client' = [client EXCEPT ![c].pc = "ready", ![c].conn.late = TRUE]
  /\ UNCHANGED <<daemons, home, path, reqs, applied, answer, meddled>>

(***************************************************************************)
(* Somebody else.                                                          *)
(***************************************************************************)
RemoveSocket ==
  /\ meddled < MaxMeddle /\ Len(reqs) + meddled < MaxReq /\ path # 0
  /\ path' = 0 /\ meddled' = meddled + 1
  /\ UNCHANGED <<daemons, home, client, reqs, applied, answer>>

\* The whole directory is moved away, with the store its daemon has locked.
MoveDirectory ==
  /\ meddled < MaxMeddle /\ Len(reqs) + meddled < MaxReq /\ home = 1
  /\ home' = 2 /\ path' = 0 /\ meddled' = meddled + 1
  /\ UNCHANGED <<daemons, client, reqs, applied, answer>>

Next ==
  \/ \E k \in Procs : \/ RunOpen(k) \/ RunListen(k) \/ RunServe(k) \/ SocketWatch(k)
                      \/ Shutdown(k) \/ ShutdownEnds(k) \/ Killed(k)
  \/ \E c \in Client : \/ EnsureRunning(c) \/ Dial(c) \/ GiveUp(c) \/ Roundtrip(c)
                       \/ ExchangeWrite(c) \/ ExchangeRead(c) \/ Deadline(c) \/ Dispatch(c)
  \/ RemoveSocket \/ MoveDirectory

Spec == Init /\ [][Next]_vars

(***************************************************************************)
(* Properties.                                                             *)
(***************************************************************************)
\* Unless somebody else touches the socket or the directory, no start, race,
\* stop or crash leaves a daemon serving where no client can reach it.
Reachable ==
  meddled = 0 => \A k \in Procs : daemons[k].phase = "serving" => path = k

\* An answer belongs to the request it is returned for, unless an earlier request
\* on the connection ran out of time; and what must not be asked twice is carried
\* out at most once, whatever daemons come and go, everything else at most twice.
Exchanges ==
  /\ answer.is = answer.to \/ answer.late
  /\ \A n \in DOMAIN reqs : applied[n] <= (IF reqs[n] = "query" THEN 2 ELSE 1)

\* client.go says that roundtrip "writes one request and reads one response", and
\* architecture.md "one response per request": the response is that request's.  The
\* code does not keep it: see Deadline.
OwnAnswer == answer.is = answer.to
================================================================================

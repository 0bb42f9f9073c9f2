----------------------------- MODULE DaemonStart -----------------------------
(***************************************************************************)
(* The background process of one home directory (cmd/9a/daemon.go,         *)
(* cmd/9a/main.go, internal/api/server.go): clients send one request each  *)
(* and start a daemon when none answers; daemons are also started by hand. *)
(* A startup lock is shared by the client and the daemon it has started,   *)
(* the socket is a path in the file system, and the first daemon makes the *)
(* admin token.  Whoever takes part may be killed between any two steps,   *)
(* and a new daemon may start while an old one drains.                     *)
(*                                                                         *)
(* The files are private (prepareLocalPaths) and nobody else changes them. *)
(***************************************************************************)
EXTENDS FiniteSets, Naturals

CONSTANTS
  Client,
  Daemon,   \* processes: a daemon that has ended never starts again
  Token,
  None,     \* no daemon, no token
  Empty     \* what a token file holds before it is written

ASSUME DaemonAssumption ==
  /\ Client \cap Daemon = {}
  /\ None \notin Daemon \cup Token
  /\ Empty \notin Token \cup {None}

VARIABLES
  client,     \* where each client is: dialing and starting a daemon
  to,         \* the daemon it has connected to
  daemon,     \* where each daemon is
  lock,       \* who holds the locked file open
  socket,     \* the daemon that has made the file at the path
  explicit,   \* NINEA_BOOTSTRAP_TOKEN of each daemon, or None
  token,      \* what it is going to make the admin token
  tokenFile,
  admin,      \* the token in the database
  received,   \* the daemons that have received each request
  rows        \* the call of each request

vars == <<client, to, daemon, lock, socket, explicit, token, tokenFile, admin,
          received, rows>>

clients == <<client, to>>
tokens == <<explicit, token, tokenFile, admin>>
calls == <<received, rows>>

ClientPlace == {"idle", "locking", "checking", "waiting", "ready", "sent", "done"}

(* From "opening" to "ready" a daemon starts; "dead" has exited. *)
Starting == {"opening", "restored", "writing", "holding", "ready"}

(* Requests are accepted before the pid file is written. *)
Accepting == {"listening", "serving"}

DaemonPlace ==
  {"none", "locking", "checking"} \cup Starting \cup Accepting
    \cup {"draining", "closing", "dead"}

In(places) == {d \in Daemon : daemon[d] \in places}

(* A dial of the socket succeeds. *)
Available == socket \in In(Accepting)

Init ==
  /\ client = [c \in Client |-> "idle"]
  /\ to = [c \in Client |-> None]
  /\ daemon = [d \in Daemon |-> "none"]
  /\ lock = {}
  /\ socket = None
  /\ explicit = [d \in Daemon |-> None]
  /\ token = [d \in Daemon |-> None]
  /\ tokenFile = None
  /\ admin = None
  /\ received = [c \in Client |-> {}]
  /\ rows = [c \in Client |-> "none"]

Moves(c, place) == client' = [client EXCEPT ![c] = place]
Goes(d, place) == daemon' = [daemon EXCEPT ![d] = place]

(* A flock belongs to the open file: it is free when everybody has closed it. *)
Unlock(p) == lock' = lock \ {p}

----------------------------------------------------------------------------
(* Clients. *)

Connect(c) ==
  /\ Moves(c, "sent")
  /\ to' = [to EXCEPT ![c] = socket]

(* The first attempt.  Nobody listens: a daemon is started. *)
Dial(c) ==
  /\ client[c] = "idle"
  /\ IF Available THEN Connect(c) ELSE Moves(c, "locking") /\ UNCHANGED to
  /\ UNCHANGED <<daemon, lock, socket, tokens, calls>>

ClientLocks(c) ==
  /\ client[c] = "locking"
  /\ lock = {}
  /\ lock' = {c}
  /\ Moves(c, "checking")
  /\ UNCHANGED <<to, daemon, socket, tokens, calls>>

(* Somebody else has the lock, but a daemon answers. *)
ClientFindsReady(c) ==
  /\ client[c] = "locking"
  /\ lock # {}
  /\ Available
  /\ Moves(c, "ready")
  /\ UNCHANGED <<to, daemon, lock, socket, tokens, calls>>

(* A daemon may have come up before the lock was had. *)
ClientRechecks(c) ==
  /\ client[c] = "checking"
  /\ Available
  /\ Unlock(c)
  /\ Moves(c, "ready")
  /\ UNCHANGED <<to, daemon, socket, tokens, calls>>

Spawn(c, d) ==
  /\ client[c] = "checking"
  /\ daemon[d] = "none"
  /\ \E e \in Token \cup {None} : explicit' = [explicit EXCEPT ![d] = e]
  /\ Goes(d, "opening")
  /\ lock' = lock \cup {d}
  /\ Moves(c, "waiting")
  /\ UNCHANGED <<to, socket, token, tokenFile, admin, calls>>

(* Mutant: a client that has the lock starts a daemon at once. *)
StartDaemonAtOnce(c, d) == Spawn(c, d)

StartDaemon(c, d) == ~Available /\ Spawn(c, d)

(* waitForSocket, and the lock is closed. *)
DaemonIsUp(c) ==
  /\ client[c] = "waiting"
  /\ Available
  /\ Unlock(c)
  /\ Moves(c, "ready")
  /\ UNCHANGED <<to, daemon, socket, tokens, calls>>

(* The second attempt is the last. *)
Redial(c) ==
  /\ client[c] = "ready"
  /\ IF Available THEN Connect(c) ELSE Moves(c, "done") /\ UNCHANGED to
  /\ UNCHANGED <<daemon, lock, socket, tokens, calls>>

(* The daemon is gone: the request may have been sent, and is not repeated. *)
LosesConnection(c) ==
  /\ client[c] = "sent"
  /\ daemon[to[c]] = "dead"
  /\ Moves(c, "done")
  /\ UNCHANGED <<to, daemon, lock, socket, tokens, calls>>

(* A deadline is over, an error, or the client is killed. *)
GivesUp(c) ==
  /\ client[c] \notin {"idle", "done"}
  /\ Moves(c, "done")
  /\ Unlock(c)
  /\ UNCHANGED <<to, daemon, socket, tokens, calls>>

----------------------------------------------------------------------------
(* A daemon started by hand takes the lock itself. *)

Launch(d) ==
  /\ daemon[d] = "none"
  /\ \E e \in Token \cup {None} : explicit' = [explicit EXCEPT ![d] = e]
  /\ Goes(d, "locking")
  /\ UNCHANGED <<clients, lock, socket, token, tokenFile, admin, calls>>

DaemonLocks(d) ==
  /\ daemon[d] = "locking"
  /\ lock = {}
  /\ lock' = {d}
  /\ Goes(d, "checking")
  /\ UNCHANGED <<clients, socket, tokens, calls>>

DaemonProceeds(d) ==
  /\ daemon[d] = "checking"
  /\ ~Available
  /\ Goes(d, "opening")
  /\ UNCHANGED <<clients, lock, socket, tokens, calls>>

(* "daemon already running", before or after it has the lock. *)
AlreadyRunning(d) ==
  /\ daemon[d] \in {"locking", "checking"}
  /\ Available
  /\ Goes(d, "dead")
  /\ Unlock(d)
  /\ UNCHANGED <<clients, socket, tokens, calls>>

----------------------------------------------------------------------------
(* Starting. *)

(* Restore: the calls that are not finished were interrupted. *)
Restore(d) ==
  /\ daemon[d] = "opening"
  /\ rows' = [c \in Client |-> IF rows[c] = "unfinished" THEN "interrupted" ELSE rows[c]]
  /\ Goes(d, "restored")
  /\ UNCHANGED <<clients, lock, socket, tokens, received>>

(* The file is made or emptied, then written. *)
OpenToken(d, t) ==
  /\ tokenFile' = Empty
  /\ token' = [token EXCEPT ![d] = t]
  /\ Goes(d, "writing")

LoadToken(d) ==
  /\ tokenFile \in Token
  /\ token' = [token EXCEPT ![d] = tokenFile]
  /\ Goes(d, "holding")
  /\ UNCHANGED tokenFile

(* loadOrCreateToken; an empty file is an error (StartFails). *)
LoadOrCreateToken(d) ==
  \/ explicit[d] # None /\ OpenToken(d, explicit[d])
  \/ explicit[d] = None /\ LoadToken(d)
  \/ explicit[d] = None /\ tokenFile = None /\ \E t \in Token : OpenToken(d, t)

(* Mutant: a token that is given is stored at every start. *)
NeedsBootstrapOrGiven(d) ==
  /\ daemon[d] = "restored"
  /\ IF admin = None \/ explicit[d] # None
       THEN LoadOrCreateToken(d)
       ELSE Goes(d, "ready") /\ UNCHANGED <<token, tokenFile>>
  /\ UNCHANGED <<clients, lock, socket, explicit, admin, calls>>

(* After the first start a token must not be given (StartFails). *)
NeedsBootstrap(d) ==
  /\ daemon[d] = "restored"
  /\ IF admin = None
       THEN LoadOrCreateToken(d)
       ELSE explicit[d] = None /\ Goes(d, "ready") /\ UNCHANGED <<token, tokenFile>>
  /\ UNCHANGED <<clients, lock, socket, explicit, admin, calls>>

WriteToken(d) ==
  /\ daemon[d] = "writing"
  /\ tokenFile' = token[d]
  /\ Goes(d, "holding")
  /\ UNCHANGED <<clients, lock, socket, explicit, token, admin, calls>>

(* A file that this start has made is removed; one that was given stays. *)
WriteTokenFails(d) ==
  /\ daemon[d] = "writing"
  /\ tokenFile' = IF explicit[d] = None THEN None ELSE tokenFile
  /\ Goes(d, "dead")
  /\ Unlock(d)
  /\ UNCHANGED <<clients, socket, explicit, token, admin, calls>>

(* In a transaction; it fails when there is an admin already. *)
Bootstrap(d) ==
  /\ daemon[d] = "holding"
  /\ admin = None
  /\ admin' = token[d]
  /\ Goes(d, "ready")
  /\ UNCHANGED <<clients, lock, socket, explicit, token, tokenFile, calls>>

(* A stale socket is removed; one that answers is not. *)
Listen(d) ==
  /\ daemon[d] = "ready"
  /\ ~Available
  /\ socket' = d
  /\ Goes(d, "listening")
  /\ UNCHANGED <<clients, lock, tokens, calls>>

(* Any step of the start fails, or a signal comes. *)
StartFails(d) ==
  /\ daemon[d] \in Starting \ {"writing"}
  /\ Goes(d, "dead")
  /\ Unlock(d)
  /\ UNCHANGED <<clients, socket, tokens, calls>>

(* The pid file is written, and the lock closed. *)
Serve(d) ==
  /\ daemon[d] = "listening"
  /\ Goes(d, "serving")
  /\ Unlock(d)
  /\ UNCHANGED <<clients, socket, tokens, calls>>

----------------------------------------------------------------------------
(* Serving and stopping. *)

Receive(d, c) ==
  /\ client[c] = "sent"
  /\ to[c] = d
  /\ daemon[d] \in Accepting \cup {"draining"}
  /\ d \notin received[c]
  /\ received' = [received EXCEPT ![c] = @ \cup {d}]
  /\ rows' = [rows EXCEPT ![c] = "unfinished"]
  /\ UNCHANGED <<clients, daemon, lock, socket, tokens>>

(* A call that another daemon has failed stays as it is. *)
Settle(d, c) ==
  /\ d \in received[c] \cap In(Accepting \cup {"draining", "closing"})
  /\ rows[c] \in {"unfinished", "interrupted"}
  /\ rows' = [rows EXCEPT ![c] = IF @ = "unfinished" THEN "settled" ELSE @]
  /\ client' = [client EXCEPT ![c] = IF @ = "sent" /\ to[c] = d THEN "done" ELSE @]
  /\ UNCHANGED <<to, daemon, lock, socket, tokens, received>>

(* http.Shutdown unlinks the path, whoever has made it, and stops listening.   *)
(* A signal comes, or the pid file cannot be written: then the lock is kept.   *)
Stop(d) ==
  /\ daemon[d] \in Accepting
  /\ socket' = None
  /\ Goes(d, "draining")
  /\ UNCHANGED <<clients, lock, tokens, calls>>

(* The requests are answered, or ten seconds are over. *)
CloseApp(d) ==
  /\ daemon[d] = "draining"
  /\ Goes(d, "closing")
  /\ UNCHANGED <<clients, lock, socket, tokens, calls>>

(* The database is closed, and the process exits. *)
Exit(d) ==
  /\ daemon[d] = "closing"
  /\ Goes(d, "dead")
  /\ Unlock(d)
  /\ UNCHANGED <<clients, socket, tokens, calls>>

(* The files stay as they are. *)
Kill(d) ==
  /\ daemon[d] \notin {"none", "dead"}
  /\ Goes(d, "dead")
  /\ Unlock(d)
  /\ UNCHANGED <<clients, socket, tokens, calls>>

----------------------------------------------------------------------------

Next ==
  \/ \E c \in Client :
       \/ Dial(c) \/ ClientLocks(c) \/ ClientFindsReady(c) \/ ClientRechecks(c)
       \/ DaemonIsUp(c) \/ Redial(c) \/ LosesConnection(c) \/ GivesUp(c)
       \/ \E d \in Daemon : StartDaemon(c, d) \/ Receive(d, c) \/ Settle(d, c)
  \/ \E d \in Daemon :
       \/ Launch(d) \/ DaemonLocks(d) \/ DaemonProceeds(d) \/ AlreadyRunning(d)
       \/ Restore(d) \/ NeedsBootstrap(d) \/ WriteToken(d) \/ WriteTokenFails(d)
       \/ Bootstrap(d) \/ Listen(d) \/ StartFails(d) \/ Serve(d)
       \/ Stop(d) \/ CloseApp(d) \/ Exit(d) \/ Kill(d)

Spec == Init /\ [][Next]_vars

----------------------------------------------------------------------------
(* Properties. *)

TypeOK ==
  /\ client \in [Client -> ClientPlace]
  /\ to \in [Client -> Daemon \cup {None}]
  /\ daemon \in [Daemon -> DaemonPlace]
  /\ lock \subseteq Client \cup Daemon
  /\ socket \in Daemon \cup {None}
  /\ explicit \in [Daemon -> Token \cup {None}]
  /\ token \in [Daemon -> Token \cup {None}]
  /\ tokenFile \in Token \cup {None, Empty}
  /\ admin \in Token \cup {None}
  /\ received \in [Client -> SUBSET Daemon]
  /\ rows \in [Client -> {"none", "unfinished", "settled", "interrupted"}]

(***************************************************************************)
(* However clients and daemons start, stop and are killed: no request is   *)
(* received twice, and no daemon starts to recover the calls of one that   *)
(* accepts requests.                                                       *)
(***************************************************************************)
RequestsKept ==
  /\ TypeOK
  /\ \A c \in Client :
       /\ Cardinality(received[c]) <= 1
       /\ rows[c] = "interrupted" => received[c] \cap In(Accepting) = {}

(***************************************************************************)
(* A daemon that accepts requests is the only one, it is found at the      *)
(* socket, and it knows the token in the admin's file, whatever starts     *)
(* failed or were killed before, with whatever token they were given.      *)
(***************************************************************************)
AdminIsServed ==
  \A d \in In(Accepting) : socket = d /\ tokenFile = admin /\ admin # None
=============================================================================

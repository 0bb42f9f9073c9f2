-------------------------- MODULE DaemonStartProofs --------------------------
(***************************************************************************)
(* Proofs about DaemonStart, for any number of clients, of daemons started *)
(* by them and by hand, and of tokens.                                     *)
(***************************************************************************)
EXTENDS DaemonStart, FiniteSetTheorems, TLAPS

(* Who must hold the startup lock, and who may. *)
Locking == {"checking"} \cup Starting \cup {"listening"}

LockHeld ==
  /\ \A c \in Client : c \in lock <=> client[c] \in {"checking", "waiting"}
  /\ \A d \in Daemon : daemon[d] \in Locking => d \in lock
  /\ \A d \in Daemon : d \in lock => daemon[d] \in Locking \cup {"draining", "closing"}

(***************************************************************************)
(* The lock is that of one client, of one daemon, or of a client and the   *)
(* daemon it has started; a client that has yet to start one is alone.     *)
(***************************************************************************)
LockShared ==
  /\ \A c, b \in Client \cap lock : c = b
  /\ \A d, e \in Daemon \cap lock : d = e
  /\ \A c \in Client, d \in Daemon : client[c] = "checking" => d \notin lock

(* No daemon starts while another accepts, and the socket leads to that one. *)
OneServes ==
  /\ \A d \in Daemon : daemon[d] \in Accepting => socket = d
  /\ \A d, e \in Daemon : daemon[d] \in Starting => daemon[e] \notin Accepting

(* The admin's token is in the file; before there is an admin, one daemon    *)
(* at most is about to write it.                                             *)
TokenKept ==
  /\ admin # None => tokenFile = admin
  /\ \A d \in Daemon :
       /\ daemon[d] \in {"writing", "holding"} => token[d] # None /\ admin = None
       /\ daemon[d] = "holding" => tokenFile = token[d]
       /\ daemon[d] \in {"ready"} \cup Accepting => admin # None

(* A request is received by the daemon its client has connected to. *)
Received(c) ==
  /\ received[c] \subseteq {to[c]}
  /\ client[c] \notin {"sent", "done"} => received[c] = {}
  /\ \A d \in received[c] : daemon[d] \in Accepting \cup {"draining", "closing", "dead"}
  /\ rows[c] = "interrupted" => \A d \in received[c] : daemon[d] \notin Accepting

Inductive ==
  /\ TypeOK
  /\ LockHeld
  /\ LockShared
  /\ OneServes
  /\ TokenKept
  /\ \A c \in Client : Received(c)

----------------------------------------------------------------------------

LEMMA InitInductive == Init => Inductive
<1> SUFFICES ASSUME Init PROVE Inductive
  OBVIOUS
<1>1. TypeOK
  BY DEF Init, TypeOK, ClientPlace, DaemonPlace
<1>2. LockHeld /\ LockShared /\ OneServes
  BY DEF Init, LockHeld, LockShared, OneServes, Locking, Starting, Accepting
<1>3. TokenKept
  BY DEF Init, TokenKept, Accepting
<1>4. \A c \in Client : Received(c)
  BY DEF Init, Received
<1>5. QED
  BY <1>1, <1>2, <1>3, <1>4 DEF Inductive

(* Whether a dial succeeds says whether any daemon accepts. *)
LEMMA AvailableMeans ==
  ASSUME TypeOK, OneServes
  PROVE  Available <=> \E d \in Daemon : daemon[d] \in Accepting
BY DEF Available, In, OneServes

(***************************************************************************)
(* A client moves, and opens or closes the lock's file as its place says.  *)
(***************************************************************************)
LEMMA ClientMoves ==
  ASSUME Inductive, NEW c \in Client, NEW p \in ClientPlace,
         client[c] # "done", p # "idle",
         client[c] = "sent" => p = "done",
         Moves(c, p),
         to' \in [Client -> Daemon \cup {None}],
         \A b \in Client : to'[b] = to[b] \/ (b = c /\ client[c] # "sent"),
         lock' \ {c} = lock \ {c},
         c \in lock' <=> p \in {"checking", "waiting"},
         p = "checking" => lock = {},
         p = "waiting" => c \in lock,
         UNCHANGED <<daemon, socket, tokens, calls>>
  PROVE  Inductive'
<1> USE DEF Inductive, Moves, tokens, calls
<1>1. Client \cap Daemon = {} /\ lock \subseteq Client \cup Daemon
  BY DaemonAssumption DEF TypeOK
<1>2. TypeOK'
  BY <1>1 DEF TypeOK
<1>3. LockHeld'
  BY <1>1 DEF LockHeld, TypeOK
<1>4. LockShared'
  BY <1>1 DEF LockShared, LockHeld, TypeOK
<1>5. OneServes' /\ TokenKept'
  BY DEF OneServes, TokenKept
<1>6. (\A b \in Client : Received(b))'
  BY DEF Received, TypeOK
<1>7. QED
  BY <1>2, <1>3, <1>4, <1>5, <1>6

LEMMA ClientKeeps ==
  ASSUME Inductive, NEW c \in Client,
         \/ Dial(c) \/ ClientLocks(c) \/ ClientFindsReady(c) \/ ClientRechecks(c)
         \/ DaemonIsUp(c) \/ Redial(c) \/ LosesConnection(c) \/ GivesUp(c)
  PROVE  Inductive'
<1> USE DEF Unlock, clients
<1>0. /\ TypeOK /\ LockHeld /\ to \in [Client -> Daemon \cup {None}]
      /\ c \in lock <=> client[c] \in {"checking", "waiting"}
  BY DEF Inductive, TypeOK, LockHeld
<1>1. CASE Dial(c) \/ Redial(c)
  <2>1. CASE Available
    <3>1. /\ Moves(c, "sent") /\ to' = [to EXCEPT ![c] = socket]
          /\ client[c] \in {"idle", "ready"}
          /\ UNCHANGED <<lock, daemon, socket, tokens, calls>>
      BY <1>1, <2>1 DEF Dial, Redial, Connect
    <3>2. to' \in [Client -> Daemon \cup {None}]
      BY <1>0, <3>1 DEF TypeOK
    <3>3. QED
      BY <1>0, <3>1, <3>2, ClientMoves DEF ClientPlace
  <2>2. CASE ~Available
    <3>1. PICK p \in {"locking", "done"} : Moves(c, p)
      BY <1>1, <2>2 DEF Dial, Redial
    <3>2. client[c] \in {"idle", "ready"} /\ UNCHANGED <<to, lock, daemon, socket, tokens, calls>>
      BY <1>1, <2>2 DEF Dial, Redial
    <3>3. QED
      BY <1>0, <3>1, <3>2, ClientMoves DEF ClientPlace
  <2>3. QED
    BY <2>1, <2>2
<1>2. CASE ClientLocks(c)
  BY <1>0, <1>2, ClientMoves DEF ClientLocks, ClientPlace
<1>3. CASE ClientFindsReady(c)
  BY <1>0, <1>3, ClientMoves DEF ClientFindsReady, ClientPlace
<1>4. CASE ClientRechecks(c) \/ DaemonIsUp(c)
  BY <1>0, <1>4, ClientMoves DEF ClientRechecks, DaemonIsUp, ClientPlace
<1>5. CASE LosesConnection(c) \/ GivesUp(c)
  BY <1>0, <1>5, ClientMoves DEF LosesConnection, GivesUp, ClientPlace
<1>6. QED
  BY <1>1, <1>2, <1>3, <1>4, <1>5

----------------------------------------------------------------------------
(* Daemons. *)

(* What a daemon has received it goes on with until it is dead. *)
Serving == Accepting \cup {"draining", "closing", "dead"}

(***************************************************************************)
(* A daemon takes the lock only when it is free, and has it as long as its *)
(* place says.                                                             *)
(***************************************************************************)
LEMMA DaemonLocking ==
  ASSUME TypeOK, LockHeld, LockShared, NEW d \in Daemon, NEW p \in DaemonPlace,
         Goes(d, p), UNCHANGED client,
         lock' \ {d} = lock \ {d},
         d \in lock' => p \in Locking \cup {"draining", "closing"},
         p \in Locking => d \in lock',
         d \in lock' => d \in lock \/ lock = {}
  PROVE  lock' \subseteq Client \cup Daemon /\ LockHeld' /\ LockShared'
<1>1. Client \cap Daemon = {} /\ lock \subseteq Client \cup Daemon
  BY DaemonAssumption DEF TypeOK
<1>2. LockHeld'
  BY <1>1 DEF LockHeld, Goes, TypeOK
<1>3. LockShared'
  BY <1>1 DEF LockShared, LockHeld, Goes, TypeOK
<1>4. QED
  BY <1>1, <1>2, <1>3

(***************************************************************************)
(* A daemon begins to start only when none accepts, to accept only when it *)
(* has started; it takes the path then, and unlinks it when it stops.      *)
(***************************************************************************)
LEMMA DaemonServing ==
  ASSUME TypeOK, LockHeld, LockShared, OneServes, NEW d \in Daemon, NEW p \in DaemonPlace,
         Goes(d, p),
         p \in Starting => daemon[d] \in Starting \/ ~Available,
         p \in Accepting => \/ daemon[d] \in Accepting /\ socket' = socket
                            \/ daemon[d] \in Starting /\ socket' = d,
         p \notin Accepting => socket' = socket \/ daemon[d] \in Accepting
  PROVE  OneServes'
<1>1. \A e \in Daemon : e # d => daemon'[e] = daemon[e]
  BY DEF Goes, TypeOK
<1>2. daemon'[d] = p
  BY DEF Goes, TypeOK
<1>3. \A e \in Daemon : daemon[e] \in Accepting => socket = e
  BY DEF OneServes
<1>4. ASSUME NEW e \in Daemon, daemon'[e] \in Accepting
      PROVE  socket' = e
  <2>1. CASE e = d
    BY <1>2, <1>3, <1>4, <2>1
  <2>2. CASE e # d
    <3>1. daemon[e] \in Accepting /\ daemon[d] \notin Accepting /\ daemon[d] \notin Starting
      BY <1>1, <1>3, <1>4, <2>2 DEF OneServes
    <3>2. QED
      BY <1>3, <3>1
  <2>3. QED
    BY <2>1, <2>2
<1>5. ASSUME NEW e \in Daemon, NEW f \in Daemon,
             daemon'[e] \in Starting, daemon'[f] \in Accepting
      PROVE  FALSE
  <2>1. Starting \cap Accepting = {}
    BY DEF Starting, Accepting
  <2>2. e # f
    BY <1>5, <2>1
  <2>3. CASE e = d
    BY <1>1, <1>2, <1>5, <2>2, <2>3, AvailableMeans DEF OneServes
  <2>4. CASE f = d
    <3>1. daemon[e] \in Starting /\ daemon[d] \notin Accepting
      BY <1>1, <1>5, <2>2, <2>4 DEF OneServes
    <3>2. daemon[d] \in Starting
      BY <1>2, <1>5, <2>4, <3>1
    <3>3. e \in lock /\ d \in lock
      BY <3>1, <3>2 DEF LockHeld, Locking
    <3>4. QED
      BY <2>2, <2>4, <3>3 DEF LockShared
  <2>5. CASE e # d /\ f # d
    BY <1>1, <1>5, <2>5 DEF OneServes
  <2>6. QED
    BY <2>3, <2>4, <2>5
<1>6. QED
  BY <1>4, <1>5 DEF OneServes

(* A daemon that begins to accept has received nothing. *)
LEMMA DaemonReceived ==
  ASSUME TypeOK, NEW d \in Daemon, NEW p \in DaemonPlace, Goes(d, p),
         daemon[d] \in Serving => p \in Serving,
         p \in Accepting => daemon[d] \in Accepting \cup Starting,
         UNCHANGED <<client, to, calls>>,
         NEW c \in Client, Received(c)
  PROVE  Received(c)'
<1>1. /\ \A e \in Daemon : e # d => daemon'[e] = daemon[e]
      /\ daemon'[d] = p
      /\ received[c] \subseteq Daemon
  BY DEF Goes, TypeOK
<1>2. \A e \in received[c] : daemon'[e] \in Serving
  BY <1>1 DEF Received, Serving
<1>3. d \in received[c] => daemon[d] \notin Starting
  BY DEF Received, Accepting, Starting
<1>4. QED
  BY <1>1, <1>2, <1>3 DEF Received, Serving, calls

(* Before and after the start a daemon has nothing to do with the tokens. *)
LEMMA DaemonTokens ==
  ASSUME TypeOK, TokenKept, NEW d \in Daemon, NEW p \in DaemonPlace, Goes(d, p),
         p \notin {"writing", "holding"},
         p \in {"ready"} \cup Accepting => daemon[d] \in {"ready"} \cup Accepting,
         UNCHANGED tokens
  PROVE  TokenKept'
BY DEF TokenKept, Goes, TypeOK, tokens

(* How the lock and the path in the file system follow the place p a daemon  *)
(* goes to, which is a place without a token of its own to make.             *)
LockFollows(d, p) ==
  /\ lock' \ {d} = lock \ {d}
  /\ d \in lock' => p \in Locking \cup {"draining", "closing"}
  /\ p \in Locking => d \in lock'
  /\ d \in lock' => d \in lock \/ lock = {}

PathFollows(d, p) ==
  /\ p \in Accepting => \/ daemon[d] \in Accepting /\ socket' = socket
                        \/ daemon[d] = "ready" /\ socket' = d
  /\ p \notin Accepting => \/ socket' = socket
                           \/ daemon[d] \in Accepting /\ socket' = None

PlaceFollows(d, p) ==
  /\ p \in DaemonPlace \ {"writing", "holding", "ready"}
  /\ p \in Starting => daemon[d] \in Starting \/ ~Available
  /\ daemon[d] \in Serving => p \in Serving

LEMMA DaemonMoves ==
  ASSUME Inductive, NEW d \in Daemon, NEW p, Goes(d, p),
         PlaceFollows(d, p), LockFollows(d, p), PathFollows(d, p),
         UNCHANGED <<clients, tokens, calls>>
  PROVE  Inductive'
<1>1. TypeOK /\ LockHeld /\ LockShared /\ OneServes /\ TokenKept
  BY DEF Inductive
<1>2. /\ p \in DaemonPlace /\ p \notin {"writing", "holding", "ready"}
      /\ p \in Starting => daemon[d] \in Starting \/ ~Available
      /\ daemon[d] \in Serving => p \in Serving
  BY DEF PlaceFollows
<1>3. /\ p \in Accepting => \/ daemon[d] \in Accepting /\ socket' = socket
                            \/ daemon[d] \in Starting /\ socket' = d
      /\ p \notin Accepting => socket' = socket \/ daemon[d] \in Accepting
      /\ p \in Accepting => daemon[d] \in {"ready"} \cup Accepting
      /\ p \in Accepting => daemon[d] \in Accepting \cup Starting
      /\ socket' \in Daemon \cup {None}
  <2>1. "ready" \in Starting
    BY DEF Starting
  <2>2. socket \in Daemon \cup {None}
    BY <1>1 DEF TypeOK
  <2>3. QED
    BY <2>1, <2>2 DEF PathFollows
<1>4. lock' \subseteq Client \cup Daemon /\ LockHeld' /\ LockShared'
  BY <1>1, <1>2, DaemonLocking DEF LockFollows, clients
<1>5. OneServes'
  BY <1>1, <1>2, <1>3, DaemonServing
<1>6. TokenKept'
  BY <1>1, <1>2, <1>3, DaemonTokens
<1>7. (\A c \in Client : Received(c))'
  BY <1>1, <1>2, <1>3, DaemonReceived DEF clients, Inductive
<1>8. TypeOK'
  BY <1>1, <1>2, <1>3, <1>4 DEF TypeOK, Goes, clients, tokens, calls
<1>9. QED
  BY <1>4, <1>5, <1>6, <1>7, <1>8 DEF Inductive

LEMMA DaemonMovesKeep ==
  ASSUME Inductive, NEW d \in Daemon,
         \/ DaemonLocks(d) \/ DaemonProceeds(d) \/ AlreadyRunning(d) \/ Listen(d)
         \/ StartFails(d) \/ Serve(d) \/ Stop(d) \/ CloseApp(d) \/ Exit(d) \/ Kill(d)
  PROVE  Inductive'
<1>0. /\ daemon[d] \in Locking => d \in lock
      /\ d \in lock => daemon[d] \in Locking \cup {"draining", "closing"}
  BY DEF Inductive, LockHeld
<1>2. CASE DaemonLocks(d)
  <2>1. PlaceFollows(d, "checking") /\ PathFollows(d, "checking") /\ Goes(d, "checking")
        /\ UNCHANGED <<clients, tokens, calls>>
    BY <1>2 DEF DaemonLocks, PlaceFollows, PathFollows, Serving, Accepting, Starting, DaemonPlace
  <2>2. LockFollows(d, "checking")
    BY <1>2 DEF DaemonLocks, LockFollows, Unlock, Locking, Accepting, Starting
  <2>3. QED
    BY <2>1, <2>2, DaemonMoves
<1>3. CASE DaemonProceeds(d)
  <2>1. PlaceFollows(d, "opening") /\ PathFollows(d, "opening") /\ Goes(d, "opening")
        /\ UNCHANGED <<clients, tokens, calls>>
    BY <1>3 DEF DaemonProceeds, PlaceFollows, PathFollows, Serving, Accepting, Starting, DaemonPlace
  <2>2. LockFollows(d, "opening")
    BY <1>0, <1>3 DEF DaemonProceeds, LockFollows, Unlock, Locking, Accepting, Starting
  <2>3. QED
    BY <2>1, <2>2, DaemonMoves
<1>4. CASE AlreadyRunning(d) \/ StartFails(d) \/ Exit(d) \/ Kill(d)
  <2>1. PlaceFollows(d, "dead") /\ PathFollows(d, "dead") /\ Goes(d, "dead")
        /\ UNCHANGED <<clients, tokens, calls>>
    BY <1>4 DEF AlreadyRunning, StartFails, Exit, Kill, PlaceFollows, PathFollows, Serving, Accepting, Starting, DaemonPlace
  <2>2. LockFollows(d, "dead")
    BY <1>4 DEF AlreadyRunning, StartFails, Exit, Kill, LockFollows, Unlock, Locking, Accepting, Starting
  <2>3. QED
    BY <2>1, <2>2, DaemonMoves
<1>5. CASE Listen(d)
  <2>1. PlaceFollows(d, "listening") /\ PathFollows(d, "listening") /\ Goes(d, "listening")
        /\ UNCHANGED <<clients, tokens, calls>>
    BY <1>5 DEF Listen, PlaceFollows, PathFollows, Serving, Accepting, Starting, DaemonPlace
  <2>2. LockFollows(d, "listening")
    BY <1>0, <1>5 DEF Listen, LockFollows, Unlock, Locking, Accepting, Starting
  <2>3. QED
    BY <2>1, <2>2, DaemonMoves
<1>6. CASE Serve(d)
  <2>1. PlaceFollows(d, "serving") /\ PathFollows(d, "serving") /\ Goes(d, "serving")
        /\ UNCHANGED <<clients, tokens, calls>>
    BY <1>6 DEF Serve, PlaceFollows, PathFollows, Serving, Accepting, Starting, DaemonPlace
  <2>2. LockFollows(d, "serving")
    BY <1>6 DEF Serve, LockFollows, Unlock, Locking, Accepting, Starting
  <2>3. QED
    BY <2>1, <2>2, DaemonMoves
<1>7. CASE Stop(d)
  <2>1. PlaceFollows(d, "draining") /\ PathFollows(d, "draining") /\ Goes(d, "draining")
        /\ UNCHANGED <<clients, tokens, calls>>
    BY <1>7 DEF Stop, PlaceFollows, PathFollows, Serving, Accepting, Starting, DaemonPlace
  <2>2. LockFollows(d, "draining")
    BY <1>0, <1>7 DEF Stop, LockFollows, Unlock, Locking, Accepting, Starting
  <2>3. QED
    BY <2>1, <2>2, DaemonMoves
<1>8. CASE CloseApp(d)
  <2>1. PlaceFollows(d, "closing") /\ PathFollows(d, "closing") /\ Goes(d, "closing")
        /\ UNCHANGED <<clients, tokens, calls>>
    BY <1>8 DEF CloseApp, PlaceFollows, PathFollows, Serving, Accepting, Starting, DaemonPlace
  <2>2. LockFollows(d, "closing")
    BY <1>0, <1>8 DEF CloseApp, LockFollows, Unlock, Locking, Accepting, Starting
  <2>3. QED
    BY <2>1, <2>2, DaemonMoves
<1>9. QED
  BY <1>2, <1>3, <1>4, <1>5, <1>6, <1>7, <1>8

----------------------------------------------------------------------------
(* The steps that make or find a token, recover calls, or have them made. *)

(* Only the daemon that starts, and holds the lock, deals with tokens. *)
LEMMA StartsAlone ==
  ASSUME LockHeld, LockShared, OneServes, NEW d \in Daemon, daemon[d] \in Starting
  PROVE  \A e \in Daemon \ {d} : daemon[e] \notin Starting \cup Accepting
BY DEF LockHeld, LockShared, OneServes, Locking

(***************************************************************************)
(* A daemon goes from one place of its start to the next, or dies over a   *)
(* token; the path in the file system is another matter.                   *)
(***************************************************************************)
LEMMA StartMoves ==
  ASSUME Inductive, NEW d \in Daemon, daemon[d] \in Starting,
         NEW p \in Starting \cup {"dead"}, Goes(d, p),
         lock' = IF p = "dead" THEN lock \ {d} ELSE lock,
         UNCHANGED <<client, to, socket, received>>,
         \/ UNCHANGED rows
         \/ rows' = [c \in Client |-> IF rows[c] = "unfinished" THEN "interrupted" ELSE rows[c]],
         explicit' = explicit,
         token' \in [Daemon -> Token \cup {None}],
         tokenFile' \in Token \cup {None, Empty}, admin' \in Token \cup {None},
         TokenKept'
  PROVE  Inductive'
<1> USE DEF Inductive
<1>1. /\ p \in DaemonPlace /\ p \notin Accepting
      /\ daemon[d] \in Locking
      /\ p \in Starting => p \in Locking
      /\ p = "dead" => p \notin Locking
      /\ daemon[d] \notin Serving
  BY DEF DaemonPlace, Locking, Starting, Accepting, Serving
<1>2. d \in lock
  BY <1>1 DEF LockHeld
<1>3. lock' \subseteq Client \cup Daemon /\ LockHeld' /\ LockShared'
  BY <1>1, <1>2, DaemonLocking
<1>4. OneServes'
  BY <1>1, DaemonServing DEF Starting
<1>5. TypeOK'
  BY <1>1, <1>3 DEF TypeOK, Goes
<1>6. ASSUME NEW c \in Client
      PROVE  Received(c)'
  <2>1. \A e \in Daemon \ {d} : daemon'[e] = daemon[e] /\ daemon[e] \notin Accepting
    BY StartsAlone DEF Goes, TypeOK
  <2>2. received[c] \subseteq Daemon /\ d \notin received[c]
    BY <1>1 DEF TypeOK, Received, Serving
  <2>3. QED
    BY <2>1, <2>2 DEF Received
<1>7. QED
  BY <1>3, <1>4, <1>5, <1>6

LEMMA StartKeeps ==
  ASSUME Inductive, NEW d \in Daemon,
         \/ Restore(d) \/ NeedsBootstrap(d) \/ WriteToken(d) \/ WriteTokenFails(d)
         \/ Bootstrap(d)
  PROVE  Inductive'
<1> USE DEF clients, tokens, calls, Unlock
<1>0. /\ TypeOK /\ LockHeld /\ LockShared /\ OneServes /\ TokenKept
      /\ None \notin Token /\ Empty \notin Token \cup {None}
  BY DaemonAssumption DEF Inductive
<1>1. /\ daemon[d] \in {"opening", "restored", "writing", "holding"}
      /\ daemon[d] \in Starting
  BY DEF Restore, NeedsBootstrap, WriteToken, WriteTokenFails, Bootstrap, Starting
<1>2. /\ \A e \in Daemon \ {d} : daemon[e] \notin {"writing", "holding", "ready"} \cup Accepting
      /\ daemon \in [Daemon -> DaemonPlace] /\ token \in [Daemon -> Token \cup {None}]
  BY <1>0, <1>1, StartsAlone DEF Starting, TypeOK
<1>3. CASE Restore(d)
  <2>1. TokenKept'
    BY <1>0, <1>2, <1>3 DEF Restore, TokenKept, Goes, Accepting
  <2>2. QED
    BY <1>0, <1>1, <1>3, <2>1, StartMoves DEF Restore, Starting, TypeOK
<1>4. CASE NeedsBootstrap(d)
  <2>1. CASE admin # None
    <3>1. TokenKept'
      BY <1>0, <1>2, <1>4, <2>1 DEF NeedsBootstrap, TokenKept, Goes, Accepting
    <3>2. QED
      BY <1>0, <1>1, <1>4, <2>1, <3>1, StartMoves DEF NeedsBootstrap, Starting, TypeOK
  <2>2. ASSUME NEW t \in Token, OpenToken(d, t), admin = None
        PROVE  Inductive'
    <3>1. TokenKept'
      BY <1>0, <1>2, <1>4, <2>2 DEF NeedsBootstrap, OpenToken, TokenKept, Goes, Accepting
    <3>2. token' \in [Daemon -> Token \cup {None}]
      BY <1>2, <2>2 DEF OpenToken
    <3>3. QED
      BY <1>0, <1>1, <1>4, <2>2, <3>1, <3>2, StartMoves
         DEF NeedsBootstrap, OpenToken, Starting, TypeOK
  <2>3. CASE LoadToken(d) /\ admin = None
    <3>1. TokenKept'
      BY <1>0, <1>2, <1>4, <2>3 DEF NeedsBootstrap, LoadToken, TokenKept, Goes, Accepting
    <3>2. token' \in [Daemon -> Token \cup {None}]
      BY <1>2, <2>3 DEF LoadToken
    <3>3. QED
      BY <1>0, <1>1, <1>4, <2>3, <3>1, <3>2, StartMoves
         DEF NeedsBootstrap, LoadToken, Starting, TypeOK
  <2>4. explicit[d] \in Token \cup {None}
    BY <1>0 DEF TypeOK
  <2>5. QED
    BY <1>4, <2>1, <2>2, <2>3, <2>4 DEF NeedsBootstrap, LoadOrCreateToken
<1>5. CASE WriteToken(d)
  <2>1. token[d] \in Token
    BY <1>0, <1>2, <1>5 DEF WriteToken, TokenKept
  <2>2. TokenKept'
    BY <1>0, <1>2, <1>5 DEF WriteToken, TokenKept, Goes, Accepting
  <2>3. QED
    BY <1>0, <1>1, <1>5, <2>1, <2>2, StartMoves DEF WriteToken, Starting, TypeOK
<1>6. CASE WriteTokenFails(d)
  <2>1. TokenKept'
    BY <1>0, <1>2, <1>6 DEF WriteTokenFails, TokenKept, Goes, Accepting
  <2>2. tokenFile' \in Token \cup {None, Empty}
    BY <1>0, <1>6 DEF WriteTokenFails, TypeOK
  <2>3. QED
    BY <1>0, <1>1, <1>6, <2>1, <2>2, StartMoves DEF WriteTokenFails, Starting, TypeOK
<1>7. CASE Bootstrap(d)
  <2>1. token[d] \in Token
    BY <1>0, <1>2, <1>7 DEF Bootstrap, TokenKept
  <2>2. TokenKept'
    BY <1>0, <1>2, <1>7, <2>1 DEF Bootstrap, TokenKept, Goes, Accepting
  <2>3. QED
    BY <1>0, <1>1, <1>7, <2>1, <2>2, StartMoves DEF Bootstrap, Starting, TypeOK
<1>8. QED
  BY <1>3, <1>4, <1>5, <1>6, <1>7

(* Started by hand: it asks for the lock before anything else. *)
LEMMA LaunchKeeps ==
  ASSUME Inductive, NEW d \in Daemon, Launch(d)
  PROVE  Inductive'
<1> USE DEF Inductive, Launch, clients, calls
<1>1. daemon[d] = "none" /\ Goes(d, "locking") /\ "locking" \in DaemonPlace
  BY DEF DaemonPlace
<1>2. LockHeld' /\ LockShared'
  <2>1. /\ d \notin lock /\ "locking" \notin Locking
    BY <1>1 DEF LockHeld, Locking, Starting, Accepting
  <2>2. QED
    BY <1>1, <2>1, DaemonLocking
<1>3. OneServes'
  <2>1. "locking" \notin Starting \cup Accepting
    BY DEF Starting, Accepting
  <2>2. QED
    BY <1>1, <2>1, DaemonServing
<1>4. TokenKept'
  BY <1>1 DEF TokenKept, Goes, TypeOK, Accepting
<1>5. (\A c \in Client : Received(c))'
  BY <1>1, DaemonReceived DEF Serving, Accepting
<1>6. TypeOK'
  BY <1>1 DEF TypeOK, Goes
<1>7. QED
  BY <1>2, <1>3, <1>4, <1>5, <1>6

(* Started by a client that holds the lock, and holds it with the client. *)
LEMMA StartDaemonKeeps ==
  ASSUME Inductive, NEW c \in Client, NEW d \in Daemon, StartDaemon(c, d)
  PROVE  Inductive'
<1> USE DEF Inductive
<1>0. Client \cap Daemon = {}
  BY DaemonAssumption
<1>1. /\ client[c] = "checking" /\ daemon[d] = "none" /\ ~Available
      /\ Goes(d, "opening") /\ Moves(c, "waiting") /\ lock' = lock \cup {d}
      /\ UNCHANGED <<to, socket, token, tokenFile, admin, received, rows>>
      /\ explicit' \in [Daemon -> Token \cup {None}]
  BY DEF StartDaemon, Spawn, calls, TypeOK
<1>2. TypeOK'
  BY <1>1 DEF TypeOK, Goes, Moves, ClientPlace, DaemonPlace, Starting
<1>3. /\ client' = [client EXCEPT ![c] = "waiting"]
      /\ daemon' = [daemon EXCEPT ![d] = "opening"]
  BY <1>1 DEF Goes, Moves
<1>4. \A e \in Daemon : e \notin lock
  BY <1>1 DEF LockShared
<1>5. LockHeld'
  <2>1. "opening" \in Locking
    BY DEF Locking, Starting
  <2>2. QED
    BY <1>0, <1>1, <1>3, <2>1 DEF LockHeld, TypeOK
<1>6. LockShared'
  BY <1>0, <1>1, <1>3, <1>4 DEF LockShared, LockHeld, TypeOK
<1>7. OneServes'
  <2>1. "opening" \in DaemonPlace /\ "opening" \notin Accepting
    BY DEF DaemonPlace, Starting, Accepting
  <2>2. QED
    BY <1>1, <2>1, DaemonServing
<1>8. TokenKept'
  BY <1>1, <1>3 DEF TokenKept, TypeOK, Accepting
<1>9. (\A b \in Client : Received(b))'
  <2>1. ASSUME NEW b \in Client
        PROVE  /\ \A e \in received[b] : e \in Daemon /\ e # d
               /\ client'[b] \notin {"sent", "done"} => client[b] \notin {"sent", "done"}
    BY <1>1, <1>3 DEF Received, TypeOK, Accepting
  <2>2. \A e \in Daemon \ {d} : daemon'[e] = daemon[e]
    BY <1>3 DEF TypeOK
  <2>3. QED
    BY <1>1, <2>1, <2>2 DEF Received
<1>10. QED
  BY <1>2, <1>5, <1>6, <1>7, <1>8, <1>9

(* A request is received, and settled. *)
LEMMA RequestKeeps ==
  ASSUME Inductive, NEW c \in Client, NEW d \in Daemon, Receive(d, c) \/ Settle(d, c)
  PROVE  Inductive'
<1> USE DEF Inductive
<1>1. /\ UNCHANGED <<to, daemon, lock, socket, explicit, token, tokenFile, admin>>
      /\ client' \in [Client -> ClientPlace]
      /\ \A b \in Client : \/ client'[b] = client[b]
                           \/ client[b] = "sent" /\ client'[b] = "done"
  BY DEF Receive, Settle, clients, tokens, TypeOK, ClientPlace
<1>2. /\ received' \in [Client -> SUBSET Daemon]
      /\ rows' \in [Client -> {"none", "unfinished", "settled", "interrupted"}]
  BY DEF Receive, Settle, TypeOK
<1>3. TypeOK' /\ LockHeld' /\ LockShared' /\ OneServes' /\ TokenKept'
  <2>1. TypeOK'
    BY <1>1, <1>2 DEF TypeOK
  <2>2. LockHeld' /\ LockShared'
    BY <1>1 DEF LockHeld, LockShared
  <2>3. OneServes' /\ TokenKept'
    BY <1>1 DEF OneServes, TokenKept
  <2>4. QED
    BY <2>1, <2>2, <2>3
<1>4. (\A b \in Client : Received(b))'
  <2>1. CASE Receive(d, c)
    BY <1>1, <2>1 DEF Receive, clients, Received, TypeOK
  <2>2. CASE Settle(d, c)
    BY <1>1, <2>2 DEF Settle, Received, TypeOK
  <2>3. QED
    BY <2>1, <2>2
<1>5. QED
  BY <1>3, <1>4

LEMMA StepKeeps == Inductive /\ [Next]_vars => Inductive'
<1>1. CASE UNCHANGED vars
  BY <1>1 DEF vars, Inductive, TypeOK, LockHeld, LockShared, OneServes, TokenKept, Received
<1>2. QED
  BY <1>1, ClientKeeps, DaemonMovesKeep, StartKeeps, LaunchKeeps, StartDaemonKeeps,
     RequestKeeps DEF Next

THEOREM InductiveHolds == Spec => []Inductive
BY InitInductive, StepKeeps, PTL DEF Spec

(***************************************************************************)
(* No request is received twice, and no daemon recovers the calls of one   *)
(* that accepts requests, however many start, stop and are killed.         *)
(***************************************************************************)
THEOREM RequestsAreKept == Spec => []RequestsKept
<1>1. Inductive => RequestsKept
  <2> SUFFICES ASSUME Inductive, NEW c \in Client
               PROVE  /\ Cardinality(received[c]) <= 1
                      /\ rows[c] = "interrupted" => received[c] \cap In(Accepting) = {}
    BY DEF RequestsKept, Inductive
  <2>1. received[c] \subseteq {to[c]}
    BY DEF Inductive, Received
  <2>2. Cardinality(received[c]) <= 1
    <3>1. Cardinality({}) = 0 /\ Cardinality({to[c]}) = 1
      BY FS_EmptySet, FS_Singleton
    <3>2. received[c] = {} \/ received[c] = {to[c]}
      BY <2>1
    <3>3. QED
      BY <3>1, <3>2
  <2>3. rows[c] = "interrupted" => received[c] \cap In(Accepting) = {}
    BY DEF Inductive, Received, In
  <2>4. QED
    BY <2>2, <2>3
<1>2. QED
  BY <1>1, InductiveHolds, PTL

(***************************************************************************)
(* The daemon that accepts requests is the one at the socket, and the      *)
(* token in the file is the admin's.                                       *)
(***************************************************************************)
THEOREM AdminServed == Spec => []AdminIsServed
<1>1. Inductive => AdminIsServed
  BY DEF Inductive, OneServes, TokenKept, AdminIsServed, In
<1>2. QED
  BY <1>1, InductiveHolds, PTL
=============================================================================

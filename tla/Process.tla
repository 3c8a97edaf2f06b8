------------------------------ MODULE Process ------------------------------
(***************************************************************************)
(* The life of the server processes: main of cmd/server/main.go, the       *)
(* Listen functions and acceptLoop of internal/server/server.go, and what  *)
(* docker-compose.local.yml builds on them.  Each process reads the same   *)
(* image, and puts its socket file on a volume that outlives it; a health  *)
(* check looks for that file, and the proxy starts once every process has  *)
(* been found healthy.  Any process may be killed at any moment, by the    *)
(* limit of its memory say, and be started again.                          *)
(*                                                                         *)
(* External: the kernel, which removes no socket file when a process ends, *)
(* resets its connections, refuses those to a file on which nobody         *)
(* listens, and fails Accept when the table of descriptors is full; the    *)
(* volume, which can be written or not; the port, which may be taken;      *)
(* Docker, the proxy, the clients and a peer that passes connections.      *)
(*                                                                         *)
(* Left out: what connections say (HttpConn), descriptors on their way     *)
(* (FdPass), a full backlog, a bind that fails although the name is free,  *)
(* and a health check that Docker gives up.                                *)
(***************************************************************************)
EXTENDS Naturals, FiniteSets

CONSTANTS
  Apis,       \* the server processes
  Conns,      \* connections, each made at most once
  Target,     \* the process that each is for
  MaxOpen,    \* connections that the table of descriptors has room for
  MaxBoots    \* bound: how often a process is started

ASSUME ProcessAssumption == MaxOpen \in Nat \ {0} /\ MaxBoots \in Nat \ {0}
ASSUME TargetAssumption == Target \in [Conns -> Apis]

VARIABLES
  settings,   \* the image and the environment of the containers; never change
  main,       \* where the goroutine of main is
  boots,      \* how often a process has been started
  held,       \* what it has read into memory
  file,       \* the boot that its socket file is of; 0: there is no file
  loop,       \* its acceptLoop runs
  control,    \* it takes connections from its control socket
  healthy,    \* what the last health check has found
  proxy,      \* the proxy has been started
  conn        \* where each connection is

process == <<main, held, loop, control>>
outside == <<settings, boots, healthy, proxy>>
vars == <<settings, main, boots, held, file, loop, control, healthy, proxy, conn>>

Settings ==
  [index : BOOLEAN,                             \* ivf.Load finds a good one
   risk  : {"table", "missing", "malformed"},
   norm  : BOOLEAN,                             \* there, and well formed
   unix  : BOOLEAN,                             \* SOCKET_PATH is set
   address : BOOLEAN]     \* the volume can be written; without a path,
                          \* the port is free

Places == {"load", "warm", "risk", "norm", "remove", "bind", "listen", "chmod",
           "control", "serving", "exited", "killed"}

Running(a) == main[a] \notin {"exited", "killed"}
With(a, where) == {c \in Conns : Target[c] = a /\ conn[c] \in where}
Open(a) == With(a, {"served"})

\* A client can connect: the listener is there and its file is open to all.
Reachable(a) == /\ main[a] \in {"control", "serving"}
                /\ settings.unix => file[a] = boots[a]

Init ==
  /\ settings \in Settings
  /\ main = [a \in Apis |-> "load"] /\ boots = [a \in Apis |-> 1]
  /\ held = [a \in Apis |-> {}] /\ file = [a \in Apis |-> 0]
  /\ loop = [a \in Apis |-> FALSE] /\ control = [a \in Apis |-> FALSE]
  /\ healthy = [a \in Apis |-> FALSE] /\ proxy = FALSE
  /\ conn = [c \in Conns |-> "new"]

-----------------------------------------------------------------------------
(* main, one call after the other.                                         *)

Goto(a, next) == main' = [main EXCEPT ![a] = next]
Keep(a, what) == held' = [held EXCEPT ![a] = @ \union {what}]

\* The process ends without a word; what the kernel kept for it is reset.
Ends(a, how) ==
  /\ Running(a) /\ Goto(a, how)
  /\ held' = [held EXCEPT ![a] = {}]
  /\ loop' = [loop EXCEPT ![a] = FALSE] /\ control' = [control EXCEPT ![a] = FALSE]
  /\ conn' = [c \in Conns |-> IF c \in With(a, {"waiting", "served"})
                              THEN "closed" ELSE conn[c]]
  /\ UNCHANGED <<outside, file>>

\* log.Fatalf.
Fatal(a) == Goto(a, "exited") /\ held' = [held EXCEPT ![a] = {}]

\* A call that fills part of the memory, or fails.  Wrong: goes on without it;
\* the socket file is there before the index is.
ReadsOrGoesOn(a, here, succeeds, what, next) ==
  /\ main[a] = here /\ Goto(a, next)
  /\ IF succeeds THEN Keep(a, what) ELSE UNCHANGED held
  /\ UNCHANGED <<outside, file, loop, control, conn>>

Reads(a, here, succeeds, what, next) ==
  /\ main[a] = here
  /\ IF succeeds THEN Keep(a, what) /\ Goto(a, next) ELSE Fatal(a)
  /\ UNCHANGED <<outside, file, loop, control, conn>>

LoadBehindSocket(a) ==
  /\ main[a] = "load" /\ settings.index /\ Goto(a, "warm") /\ Keep(a, "index")
  /\ file' = [file EXCEPT ![a] = boots[a]]
  /\ UNCHANGED <<outside, loop, control, conn>>

Load(a)   == Reads(a, "load", settings.index, "index", "warm")
Warmup(a) == Reads(a, "warm", TRUE, "warm", "risk")

\* A table that is not there is an empty one, a malformed one ends the process.
loadMccRisk(a) == Reads(a, "risk", settings.risk # "malformed",
                        IF settings.risk = "table" THEN "risk" ELSE "no risk", "norm")

loadNormalization(a) == Reads(a, "norm", settings.norm, "norm",
                              IF settings.unix THEN "remove" ELSE "bind")

\* Whether the file could be removed is not looked at.  Wrong: it stays.
RemoveNothing(a) ==
  /\ main[a] = "remove" /\ Goto(a, "bind")
  /\ UNCHANGED <<outside, held, file, loop, control, conn>>

Remove(a) ==
  /\ main[a] = "remove" /\ Goto(a, "bind")
  /\ file' = [file EXCEPT ![a] = IF settings.address THEN 0 ELSE @]
  /\ UNCHANGED <<outside, held, loop, control, conn>>

\* net.Listen makes the file, then listens; a name that is taken is an error.
Bind(a) ==
  /\ main[a] = "bind" /\ settings.unix
  /\ IF settings.address /\ file[a] = 0
     THEN /\ file' = [file EXCEPT ![a] = boots[a]]
          /\ Goto(a, "listen") /\ UNCHANGED held
     ELSE Fatal(a) /\ UNCHANGED file
  /\ UNCHANGED <<outside, loop, control, conn>>

StartListening(a) ==
  /\ main[a] = "listen" /\ Goto(a, "chmod")
  /\ UNCHANGED <<outside, held, file, loop, control, conn>>

\* The listener is there: start the goroutine of acceptLoop.
StartLoop(a) ==
  /\ Goto(a, "control") /\ loop' = [loop EXCEPT ![a] = TRUE]
  /\ UNCHANGED <<outside, held, file, control, conn>>

Chmod(a) == main[a] = "chmod" /\ StartLoop(a)

\* A port that is taken is an error.
ListenTCP(a) ==
  /\ main[a] = "bind" /\ ~settings.unix
  /\ \/ /\ settings.address
        /\ StartLoop(a)
     \/ /\ ~settings.address
        /\ Fatal(a) /\ UNCHANGED <<outside, file, loop, control, conn>>

\* The control socket may be unset, or fail with no more than a warning.
ListenControl(a) ==
  /\ main[a] = "control" /\ Goto(a, "serving")
  /\ \E listens \in BOOLEAN : control' = [control EXCEPT ![a] = listens]
  /\ UNCHANGED <<outside, held, file, loop, conn>>

\* main waits in select for ever: once every goroutine but its own is gone, the
\* runtime calls it a deadlock and ends the process.
AllAsleep(a) ==
  /\ main[a] = "serving" /\ ~loop[a] /\ ~control[a] /\ Open(a) = {}
  /\ Ends(a, "exited")

Main(a) == Load(a) \/ Warmup(a) \/ loadMccRisk(a) \/ loadNormalization(a) \/ Remove(a)
           \/ Bind(a) \/ StartListening(a) \/ Chmod(a) \/ ListenTCP(a) \/ ListenControl(a)
           \/ AllAsleep(a)

-----------------------------------------------------------------------------
(* Connections.                                                            *)

Put(c, where) == /\ conn' = [conn EXCEPT ![c] = where]
                 /\ UNCHANGED <<outside, process, file>>

\* Clients come through the proxy, or straight to the port.
Connect(c) ==
  /\ conn[c] = "new" /\ (settings.unix => proxy)
  /\ Put(c, IF Reachable(Target[c]) THEN "waiting" ELSE "refused")

\* acceptLoop: the connection gets a goroutine of its own.  Wrong: the loop
\* serves it itself, and takes the next when it has ended.
AcceptAndServe(c, a) ==
  /\ loop[a] /\ c \in With(a, {"waiting"}) /\ Open(a) = {}
  /\ Put(c, "served")

Accept(c, a) ==
  /\ loop[a] /\ c \in With(a, {"waiting"}) /\ Cardinality(Open(a)) < MaxOpen
  /\ Put(c, "served")

\* The table of descriptors is full: acceptLoop returns, main stays.
AcceptFails(a) ==
  /\ loop[a] /\ Cardinality(Open(a)) >= MaxOpen
  /\ loop' = [loop EXCEPT ![a] = FALSE]
  /\ UNCHANGED <<outside, main, held, file, control, conn>>

acceptLoop(a) == AcceptFails(a) \/ \E c \in Conns : Accept(c, a)

\* A peer passes a connection on; one without room in the table is lost.
Pass(c) ==
  /\ conn[c] = "new" /\ control[Target[c]]
  /\ Put(c, IF Cardinality(Open(Target[c])) < MaxOpen THEN "served" ELSE "closed")

\* handleConn returns, whoever ended the connection.
End(c) == conn[c] = "served" /\ Put(c, "closed")

-----------------------------------------------------------------------------
(* The containers.                                                         *)

Kill(a) == Ends(a, "killed")

Start(a) ==
  /\ ~Running(a) /\ boots[a] < MaxBoots /\ Goto(a, "load")
  /\ boots' = [boots EXCEPT ![a] = @ + 1]
  /\ healthy' = [healthy EXCEPT ![a] = FALSE]
  /\ UNCHANGED <<settings, held, file, loop, control, proxy, conn>>

\* test -S: the file is there, whoever made it.
HealthCheck(a) ==
  /\ Running(a) /\ healthy' = [healthy EXCEPT ![a] = file[a] # 0]
  /\ UNCHANGED <<settings, boots, proxy, process, file, conn>>

\* depends_on, condition service_healthy, for every process.
StartProxy ==
  /\ ~proxy /\ (\A a \in Apis : Running(a) /\ healthy[a]) /\ proxy' = TRUE
  /\ UNCHANGED <<settings, boots, healthy, process, file, conn>>

Next ==
  \/ \E a \in Apis : Main(a) \/ acceptLoop(a) \/ Kill(a) \/ Start(a) \/ HealthCheck(a)
  \/ \E c \in Conns : Connect(c) \/ Pass(c) \/ End(c)
  \/ StartProxy

Spec == Init /\ [][Next]_vars

\* The runtime runs every goroutine that can; nothing need be killed or started.
FairSpec == /\ Spec
            /\ \A a \in Apis : WF_vars(Main(a)) /\ WF_vars(acceptLoop(a))

-----------------------------------------------------------------------------
TypeOK ==
  /\ settings \in Settings
  /\ main \in [Apis -> Places]
  /\ boots \in [Apis -> 1 .. MaxBoots]
  /\ held \in [Apis -> SUBSET {"index", "warm", "risk", "no risk", "norm"}]
  /\ file \in [Apis -> 0 .. MaxBoots]
  /\ loop \in [Apis -> BOOLEAN] /\ control \in [Apis -> BOOLEAN]
  /\ healthy \in [Apis -> BOOLEAN] /\ proxy \in BOOLEAN
  /\ conn \in [Conns -> {"new", "waiting", "served", "refused", "closed"}]

\* All that a request needs: main reads it before it listens.
Ready == {"index", "warm", "norm", IF settings.risk = "table" THEN "risk" ELSE "no risk"}

(***************************************************************************)
(* A connection that a process has taken, or that waits to be taken, is    *)
(* with a process whose index is loaded and warm and whose tables are      *)
(* read, after any number of restarts: no request can find them missing    *)
(* (main.go:28-50 before :69).                                             *)
(***************************************************************************)
TakenByReady == \A a \in Apis : With(a, {"waiting", "served"}) # {} => held[a] = Ready

(***************************************************************************)
(* The file that the health check looks for is made late, by Listen, so    *)
(* that the proxy finds every process of a first start behind its socket   *)
(* (docker-compose.local.yml:34-35, main.go:69).  What is left is the      *)
(* moment between the making of the file and Chmod; a process that is      *)
(* started again is another matter, for Docker takes the file that its     *)
(* predecessor left for its own.                                           *)
(***************************************************************************)
RefusedForCause ==
  [][\A c \in Conns :
       conn'[c] = "refused" /\ conn[c] # "refused" /\ settings.unix
         => LET a == Target[c]
            IN  boots[a] > 1 \/ main[a] \in {"listen", "chmod"} \/ ~Running(a)]_vars

(***************************************************************************)
(* With a good image, and a volume that can be written or a port that is   *)
(* free, a process that is started gets to serve, unless it is killed: the *)
(* socket file that one before it left behind, at whatever point it ended, *)
(* and a control socket that cannot be made do not stop it (server.go:44,  *)
(* main.go:83-86).                                                         *)
(***************************************************************************)
GoodImage == settings.index /\ settings.risk # "malformed" /\ settings.norm
             /\ settings.address

StartedServe ==
  \A a \in Apis : GoodImage /\ main[a] = "load" ~> main[a] \in {"serving", "killed"}

(***************************************************************************)
(* A connection waits for ever only behind an acceptLoop that has ended,   *)
(* for want of descriptors, and only as long as some other connection, or  *)
(* the control socket, keeps the process from ending too: never behind     *)
(* another client, however long that one stays (server.go:65-73,           *)
(* main.go:92).                                                            *)
(***************************************************************************)
WaitingAreTaken ==
  \A c \in Conns :
    <>[](conn[c] = "waiting")
      => LET a == Target[c] IN <>[](~loop[a] /\ (control[a] \/ Open(a) # {}))
=============================================================================

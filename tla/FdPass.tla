------------------------------- MODULE FdPass -------------------------------
(***************************************************************************)
(* Connections handed over by another process: fdpass.Listen and its       *)
(* goroutines (internal/fdpass/recv_linux.go) and Server.ServeFDChannel,   *)
(* which starts handleConn on each of them.                                *)
(*                                                                         *)
(* One goroutine runs acceptLoop, one runs recvLoop per control connection *)
(* and one runs ServeFDChannel; they share the channel out.  A message on  *)
(* a control connection carries some descriptors, plan says how many; a    *)
(* descriptor is <<peer, message, position in the message>>.               *)
(*                                                                         *)
(* External: the peers, and the kernel, which drops the descriptors for    *)
(* which the caller of Recvmsg left no room and keeps messages with        *)
(* descriptors apart.  A send on a closed channel panics, which ends the   *)
(* process and with it every goroutine.                                    *)
(*                                                                         *)
(* Left out: retries on EINTR, and control messages that do not parse.     *)
(***************************************************************************)
EXTENDS Integers, Sequences

CONSTANTS
  Peers,      \* control connections, each made at most once
  Plans,      \* what a peer may send: descriptors per message
  Room,       \* descriptors that oob has room for; 4
  Capacity    \* of out; 256

ASSUME RoomAssumption == Room \in Nat \ {0} /\ Capacity \in Nat \ {0}
ASSUME PlanAssumption == Plans \subseteq Seq(Nat)

VARIABLES
  plan,                  \* what each peer has to send; never changes
  sent, taken,           \* messages of it sent, and taken by recvLoop
  hungUp,                \* the peer has closed its end
  ctl,                   \* the control connection, and where its recvLoop is
  fds,                   \* the descriptors recvLoop still has to push
  accepting,             \* acceptLoop has not returned
  out, outClosed,        \* the channel
  serving,               \* ServeFDChannel has not returned
  served, dropped,       \* descriptors given to handleConn, in order; closed
  panicked

vars == <<plan, sent, taken, hungUp, ctl, fds, accepting, out, outClosed,
          serving, served, dropped, panicked>>

peer    == <<plan, sent, hungUp>>
channel == <<accepting, out, outClosed, serving>>

Smaller(a, b) == IF a < b THEN a ELSE b

Init ==
  /\ plan \in [Peers -> Plans]
  /\ sent = [p \in Peers |-> 0] /\ taken = [p \in Peers |-> 0]
  /\ hungUp = [p \in Peers |-> FALSE]
  /\ ctl = [p \in Peers |-> "new"] /\ fds = [p \in Peers |-> <<>>]
  /\ accepting = TRUE /\ out = <<>> /\ outClosed = FALSE /\ serving = TRUE
  /\ served = <<>> /\ dropped = {} /\ panicked = FALSE

-----------------------------------------------------------------------------
(***************************************************************************)
(* The peers.                                                              *)
(***************************************************************************)
Connect(p) ==
  /\ ctl[p] = "new"
  /\ ctl' = [ctl EXCEPT ![p] = "queued"]
  /\ UNCHANGED <<peer, taken, fds, channel, served, dropped, panicked>>

Send(p) ==
  /\ ctl[p] \notin {"new", "closed"} /\ ~ hungUp[p] /\ sent[p] < Len(plan[p])
  /\ sent' = [sent EXCEPT ![p] = @ + 1]
  /\ UNCHANGED <<plan, hungUp, taken, ctl, fds, channel, served, dropped, panicked>>

HangUp(p) ==
  /\ ctl[p] # "new" /\ ~ hungUp[p]
  /\ hungUp' = [hungUp EXCEPT ![p] = TRUE]
  /\ UNCHANGED <<plan, sent, taken, ctl, fds, channel, served, dropped, panicked>>

-----------------------------------------------------------------------------
(***************************************************************************)
(* acceptLoop: on an error of Accept4, for want of descriptors say, it     *)
(* returns, and its deferred close closes the channel.                     *)
(***************************************************************************)
Accept(p) ==
  /\ ~ panicked /\ accepting /\ ctl[p] = "queued"
  /\ ctl' = [ctl EXCEPT ![p] = "recv"]
  /\ UNCHANGED <<peer, taken, fds, channel, served, dropped, panicked>>

AcceptFails ==
  /\ ~ panicked /\ accepting
  /\ accepting' = FALSE /\ outClosed' = TRUE
  /\ UNCHANGED <<peer, taken, ctl, fds, out, serving, served, dropped, panicked>>

(***************************************************************************)
(* recvLoop at Recvmsg.  It goes back to it when a message brings no       *)
(* descriptors, and just so when the peer has closed its end.              *)
(***************************************************************************)
\* Wrong: takes all the descriptors of a message to be there.
RightsAll(p, k) == [j \in 1 .. plan[p][k] |-> <<p, k, j>>]

Rights(p, k) == [j \in 1 .. Smaller(plan[p][k], Room) |-> <<p, k, j>>]

Recvmsg(p) ==
  LET k == taken[p] + 1
  IN  /\ ~ panicked /\ ctl[p] = "recv" /\ taken[p] < sent[p]
      /\ taken' = [taken EXCEPT ![p] = k]
      /\ fds' = [fds EXCEPT ![p] = Rights(p, k)]
      /\ ctl' = [ctl EXCEPT ![p] = IF Rights(p, k) = <<>> THEN "recv" ELSE "push"]
      /\ UNCHANGED <<peer, channel, served, dropped, panicked>>

RecvmsgAtEnd(p) ==
  /\ ~ panicked /\ ctl[p] = "recv" /\ taken[p] = sent[p] /\ hungUp[p]
  /\ UNCHANGED vars

RecvmsgFails(p) ==
  /\ ~ panicked /\ ctl[p] = "recv"
  /\ ctl' = [ctl EXCEPT ![p] = "closed"]
  /\ UNCHANGED <<peer, taken, fds, channel, served, dropped, panicked>>

(***************************************************************************)
(* recvLoop with descriptors: the next one is made non-blocking and sent,  *)
(* or closed when that fails.                                              *)
(***************************************************************************)
\* Wrong: the last descriptor first.
AdvanceBackwards(p) ==
  /\ fds' = [fds EXCEPT ![p] = <<fds[p][Len(fds[p])]>> \o SubSeq(@, 2, Len(@) - 1)]
  /\ ctl' = [ctl EXCEPT ![p] = IF Len(fds[p]) = 1 THEN "recv" ELSE "push"]

Advance(p) ==
  /\ fds' = [fds EXCEPT ![p] = Tail(@)]
  /\ ctl' = [ctl EXCEPT ![p] = IF Len(fds[p]) = 1 THEN "recv" ELSE "push"]

Push(p) ==
  /\ ~ panicked /\ ctl[p] = "push" /\ ~ outClosed /\ Len(out) < Capacity
  /\ Advance(p)
  /\ out' = Append(out, Head(fds[p]))
  /\ UNCHANGED <<peer, taken, accepting, outClosed, serving, served, dropped, panicked>>

PushPanics(p) ==
  /\ ~ panicked /\ ctl[p] = "push" /\ outClosed
  /\ panicked' = TRUE
  /\ UNCHANGED <<peer, taken, ctl, fds, channel, served, dropped>>

SetNonblockFails(p) ==
  /\ ~ panicked /\ ctl[p] = "push"
  /\ Advance(p)
  /\ dropped' = dropped \union {Head(fds[p])}
  /\ UNCHANGED <<peer, taken, channel, served, panicked>>

(***************************************************************************)
(* ServeFDChannel: one descriptor of the channel, closed again when        *)
(* FileConn fails; the loop ends with a channel that is closed and empty.  *)
(***************************************************************************)
Serve ==
  /\ ~ panicked /\ serving /\ out # <<>>
  /\ out' = Tail(out) /\ served' = Append(served, Head(out))
  /\ UNCHANGED <<peer, taken, ctl, fds, accepting, outClosed, serving, dropped, panicked>>

\* Wrong: returns where it should continue.
FileConnFailsReturns ==
  /\ ~ panicked /\ serving /\ out # <<>>
  /\ out' = Tail(out) /\ dropped' = dropped \union {Head(out)}
  /\ serving' = FALSE
  /\ UNCHANGED <<peer, taken, ctl, fds, accepting, outClosed, served, panicked>>

FileConnFails ==
  /\ ~ panicked /\ serving /\ out # <<>>
  /\ out' = Tail(out) /\ dropped' = dropped \union {Head(out)}
  /\ UNCHANGED <<peer, taken, ctl, fds, accepting, outClosed, serving, served, panicked>>

ServeEnds ==
  /\ ~ panicked /\ serving /\ out = <<>> /\ outClosed
  /\ serving' = FALSE
  /\ UNCHANGED <<peer, taken, ctl, fds, accepting, out, outClosed, served, dropped, panicked>>

-----------------------------------------------------------------------------
recvLoop(p) ==
  Recvmsg(p) \/ RecvmsgAtEnd(p) \/ Push(p) \/ PushPanics(p)

ServeFDChannel == Serve \/ ServeEnds

Failures ==
  \/ AcceptFails \/ FileConnFails
  \/ \E p \in Peers : RecvmsgFails(p) \/ SetNonblockFails(p)

Next ==
  \/ \E p \in Peers : Connect(p) \/ Send(p) \/ HangUp(p) \/ Accept(p) \/ recvLoop(p)
  \/ ServeFDChannel
  \/ Failures

Spec == Init /\ [][Next]_vars

(***************************************************************************)
(* Every goroutine is scheduled again and again.  No failure has to occur. *)
(***************************************************************************)
FairSpec ==
  /\ Spec
  /\ WF_vars(ServeFDChannel)
  /\ \A p \in Peers : WF_vars(Accept(p)) /\ WF_vars(recvLoop(p))

-----------------------------------------------------------------------------
Elements(s) == {s[i] : i \in DOMAIN s}

(***************************************************************************)
(* The descriptors that have come through: of each message taken, the      *)
(* first ones, as many as there is room for.                               *)
(***************************************************************************)
Received ==
  {f \in UNION {{p} \X (1 .. taken[p]) \X (1 .. Room) : p \in Peers} :
     f[3] <= plan[f[1]][f[2]]}

(***************************************************************************)
(* A descriptor that was received is in one place, never in two and never  *)
(* in none: with recvLoop, in the channel, with handleConn, or closed.  So *)
(* none leaks, and none is closed while it is served; and none that the    *)
(* kernel has dropped is in any place.                                     *)
(***************************************************************************)
OnePlace ==
  LET waiting == UNION {Elements(fds[p]) : p \in Peers}
  IN  /\ Received = waiting \union Elements(out) \union Elements(served) \union dropped
      /\ waiting \intersect Elements(out) = {}
      /\ (waiting \union Elements(out)) \intersect Elements(served) = {}
      /\ (waiting \union Elements(out) \union Elements(served)) \intersect dropped = {}

(***************************************************************************)
(* The descriptors of one peer are served once each and in the order in    *)
(* which they were sent, however the loops of the peers interleave.        *)
(***************************************************************************)
Earlier(f, g) == f[2] < g[2] \/ (f[2] = g[2] /\ f[3] < g[3])

ServedInOrder ==
  \A p \in Peers :
    LET line == served \o out \o fds[p]
    IN  \A m, n \in DOMAIN line :
          m < n /\ line[m][1] = p /\ line[n][1] = p => Earlier(line[m], line[n])

(***************************************************************************)
(* A descriptor that was received is served or closed, unless the process  *)
(* dies: it is so even for what is in the channel when acceptLoop closes   *)
(* it.  Stated of the descriptors of the first message of each peer, the   *)
(* one that has to wait for the channel of all the others.                 *)
(***************************************************************************)
FirstFd(p) == <<p, 1, 1>>

ReceivedAreSettled ==
  \A p \in Peers :
    FirstFd(p) \in Received
      ~> (FirstFd(p) \in Elements(served) \union dropped \/ panicked)

(***************************************************************************)
(* recvLoop sends on an open channel.                                      *)
(***************************************************************************)
NeverPanics == ~ panicked

(***************************************************************************)
(* When a peer has closed its end, recvLoop returns and closes its own     *)
(* (recv_linux.go:49).                                                     *)
(***************************************************************************)
ControlConnectionsEnd ==
  \A p \in Peers : (hungUp[p] /\ ctl[p] = "recv") ~> (ctl[p] = "closed" \/ panicked)
=============================================================================

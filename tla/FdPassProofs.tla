---------------------------- MODULE FdPassProofs ----------------------------
(***************************************************************************)
(* What FdPass promises, for every number of peers, every plan of theirs,  *)
(* and every room and capacity: a descriptor is in one place, and those of *)
(* one peer are served in order.                                           *)
(*                                                                         *)
(* Neither is inductive: both speak of descriptors that recvLoop still     *)
(* holds, and say nothing of which those are.  IInv adds that they are the *)
(* last ones of the message taken last, so that what went before them, and *)
(* nothing else, is in the channel, with handleConn or closed.             *)
(***************************************************************************)
EXTENDS FdPass, TLAPS

Places == Peers \X Nat \X Nat

(***************************************************************************)
(* How many descriptors recvLoop gets of message k of p.                   *)
(***************************************************************************)
Width(p, k) == Smaller(plan[p][k], Room)

TypeOK ==
  /\ plan \in [Peers -> Seq(Nat)]
  /\ sent \in [Peers -> Nat] /\ taken \in [Peers -> Nat]
  /\ hungUp \in [Peers -> BOOLEAN]
  /\ ctl \in [Peers -> {"new", "queued", "recv", "push", "closed"}]
  /\ fds \in [Peers -> Seq(Places)]
  /\ out \in Seq(Places) /\ served \in Seq(Places) /\ dropped \subseteq Places

Counted == \A p \in Peers : taken[p] <= sent[p] /\ sent[p] <= Len(plan[p])

(***************************************************************************)
(* recvLoop holds the last descriptors of the message it took last.        *)
(***************************************************************************)
HoldingOf(p) ==
  /\ ctl[p] = "push" <=> fds[p] # <<>>
  /\ fds[p] # <<>> => taken[p] > 0 /\ Len(fds[p]) <= Width(p, taken[p])
  /\ \A i \in 1 .. Len(fds[p]) :
       fds[p][i] = <<p, taken[p], Width(p, taken[p]) - Len(fds[p]) + i>>

Holding == \A p \in Peers : HoldingOf(p)

(***************************************************************************)
(* The descriptors that recvLoop is done with.                             *)
(***************************************************************************)
Done(f) ==
  LET p == f[1]
      k == f[2]
  IN  /\ p \in Peers /\ k \in 1 .. taken[p] /\ f[3] \in 1 .. Width(p, k)
      /\ k = taken[p] => f[3] + Len(fds[p]) <= Width(p, k)

Passed ==
  \A f \in Places :
    Done(f) <=> f \in Elements(out) \union Elements(served) \union dropped

Apart == (Elements(out) \union Elements(served)) \intersect dropped = {}

(***************************************************************************)
(* f and g are of different peers, or f is the earlier one.                *)
(***************************************************************************)
Before(f, g) == f[1] = g[1] => Earlier(f, g)

Ordered(s) == \A m, n \in 1 .. Len(s) : m < n => Before(s[m], s[n])

InLine ==
  /\ Ordered(served) /\ Ordered(out)
  /\ \A m \in 1 .. Len(served), n \in 1 .. Len(out) : Before(served[m], out[n])

IInv == TypeOK /\ Counted /\ Holding /\ Passed /\ Apart /\ InLine

-----------------------------------------------------------------------------
(***************************************************************************)
(* Lemmas about Elements, a sequence read from its head and at its end.    *)
(***************************************************************************)
LEMMA ElementsAppend ==
  ASSUME NEW S, NEW s \in Seq(S), NEW e \in S
  PROVE  Elements(Append(s, e)) = Elements(s) \union {e}
<1> DEFINE t == Append(s, e)
<1>1. /\ DOMAIN s = 1 .. Len(s) /\ DOMAIN t = 1 .. Len(s) + 1 /\ Len(s) \in Nat
      /\ t[Len(s) + 1] = e /\ \A i \in 1 .. Len(s) : t[i] = s[i]
  OBVIOUS
<1>2. ASSUME NEW x \in Elements(t) PROVE x \in Elements(s) \union {e}
  <2>1. PICK i \in DOMAIN t : x = t[i]
    BY <1>2 DEF Elements
  <2>2. i \in 1 .. Len(s) \/ i = Len(s) + 1
    BY <1>1, <2>1
  <2> QED BY <1>1, <2>1, <2>2 DEF Elements
<1>3. ASSUME NEW x \in Elements(s) \union {e} PROVE x \in Elements(t)
  <2>1. CASE x = e
    BY <1>1, <2>1 DEF Elements
  <2>2. CASE x \in Elements(s)
    <3>1. PICK i \in DOMAIN s : x = s[i]
      BY <2>2 DEF Elements
    <3>2. i \in DOMAIN t /\ t[i] = x
      BY <1>1, <3>1
    <3> QED BY <3>2 DEF Elements
  <2> QED BY <1>3, <2>1, <2>2
<1> QED BY <1>2, <1>3

LEMMA TailFacts ==
  ASSUME NEW S, NEW s \in Seq(S), s # <<>>
  PROVE  /\ Tail(s) \in Seq(S) /\ Len(Tail(s)) = Len(s) - 1 /\ Len(s) \in Nat \ {0}
         /\ \A i \in 1 .. Len(s) - 1 : Tail(s)[i] = s[i + 1]
         /\ Tail(s) = <<>> <=> Len(s) = 1
<1>1. Tail(s) \in Seq(S) /\ Len(Tail(s)) = Len(s) - 1 /\ Len(s) \in Nat \ {0}
  OBVIOUS
<1>2. \A i \in 1 .. Len(s) - 1 : Tail(s)[i] = s[i + 1]
  OBVIOUS
<1>3. \A t \in Seq(S) : t = <<>> <=> Len(t) = 0
  OBVIOUS
<1> QED BY <1>1, <1>2, <1>3

LEMMA ElementsHeadTail ==
  ASSUME NEW S, NEW s \in Seq(S), s # <<>>
  PROVE  Elements(s) = Elements(Tail(s)) \union {Head(s)}
<1> DEFINE t == Tail(s)
<1>1. /\ DOMAIN s = 1 .. Len(s) /\ DOMAIN t = 1 .. Len(s) - 1 /\ Len(s) \in Nat \ {0}
      /\ Head(s) = s[1] /\ \A i \in 1 .. Len(s) - 1 : t[i] = s[i + 1]
  OBVIOUS
<1>2. ASSUME NEW x \in Elements(s) PROVE x \in Elements(t) \union {Head(s)}
  <2>1. PICK i \in DOMAIN s : x = s[i]
    BY <1>2 DEF Elements
  <2>2. i = 1 \/ i - 1 \in 1 .. Len(s) - 1
    BY <1>1, <2>1
  <2>3. CASE i - 1 \in 1 .. Len(s) - 1
    <3>1. t[i - 1] = x
      BY <1>1, <2>1, <2>3
    <3> QED BY <1>1, <2>3, <3>1 DEF Elements
  <2> QED BY <1>1, <2>1, <2>2, <2>3 DEF Elements
<1>3. ASSUME NEW x \in Elements(t) \union {Head(s)} PROVE x \in Elements(s)
  <2>1. CASE x = Head(s)
    BY <1>1, <2>1 DEF Elements
  <2>2. CASE x \in Elements(t)
    <3>1. PICK i \in DOMAIN t : x = t[i]
      BY <2>2 DEF Elements
    <3>2. i + 1 \in DOMAIN s /\ s[i + 1] = x
      BY <1>1, <3>1
    <3> QED BY <3>2 DEF Elements
  <2> QED BY <1>3, <2>1, <2>2
<1> QED BY <1>2, <1>3

-----------------------------------------------------------------------------
(***************************************************************************)
(* Widths, and what is received: with every count and plan in range, the   *)
(* received descriptors are the triples one expects.                       *)
(***************************************************************************)
LEMMA WidthType ==
  ASSUME TypeOK, NEW p \in Peers, NEW k \in 1 .. Len(plan[p])
  PROVE  Width(p, k) \in Nat /\ Width(p, k) <= plan[p][k] /\ Width(p, k) <= Room
         /\ (\A j \in Nat : j <= plan[p][k] /\ j <= Room => j <= Width(p, k))
<1>1. plan[p] \in Seq(Nat)
  BY DEF TypeOK
<1>2. plan[p][k] \in Nat
  BY <1>1
<1> QED BY <1>2, RoomAssumption DEF Width, Smaller

LEMMA ReceivedAre ==
  ASSUME TypeOK, Counted, NEW f
  PROVE  f \in Received <=>
           \E p \in Peers : \E k \in 1 .. taken[p] : \E j \in 1 .. Width(p, k) :
             f = <<p, k, j>>
<1> DEFINE All == UNION {{p} \X (1 .. taken[p]) \X (1 .. Room) : p \in Peers}
<1>1. ASSUME NEW p \in Peers
      PROVE  taken[p] \in Nat /\ Len(plan[p]) \in Nat /\ taken[p] <= Len(plan[p])
  <2>1. plan[p] \in Seq(Nat) /\ taken[p] \in Nat /\ sent[p] \in Nat
    BY DEF TypeOK
  <2> QED BY <2>1 DEF Counted
<1>2. \A p \in Peers : \A k \in 1 .. taken[p] : k \in 1 .. Len(plan[p])
  BY <1>1
<1>3. f \in All <=>
        \E p \in Peers : \E k \in 1 .. taken[p] : \E j \in 1 .. Room : f = <<p, k, j>>
  OBVIOUS
<1>4. ASSUME f \in Received
      PROVE  \E p \in Peers : \E k \in 1 .. taken[p] : \E j \in 1 .. Width(p, k) :
               f = <<p, k, j>>
  <2>1. PICK p \in Peers : \E k \in 1 .. taken[p] : \E j \in 1 .. Room : f = <<p, k, j>>
    BY <1>3, <1>4 DEF Received
  <2>2. PICK k \in 1 .. taken[p] : \E j \in 1 .. Room : f = <<p, k, j>>
    BY <2>1
  <2>3. PICK j \in 1 .. Room : f = <<p, k, j>>
    BY <2>2
  <2>4. j <= plan[p][k]
    BY <1>4, <2>3 DEF Received
  <2>5. j \in 1 .. Width(p, k)
    BY <1>2, <2>4, WidthType, RoomAssumption
  <2> QED BY <2>3, <2>5
<1>5. ASSUME NEW p \in Peers, NEW k \in 1 .. taken[p], NEW j \in 1 .. Width(p, k),
             f = <<p, k, j>>
      PROVE  f \in Received
  <2>1. Width(p, k) \in Nat /\ Width(p, k) <= plan[p][k] /\ Width(p, k) <= Room
        /\ plan[p][k] \in Nat
    <3>1. plan[p] \in Seq(Nat) /\ k \in 1 .. Len(plan[p])
      BY <1>2 DEF TypeOK
    <3> QED BY <3>1, WidthType
  <2>2. j \in 1 .. Room /\ j <= plan[p][k]
    BY <2>1, RoomAssumption
  <2>3. f \in All
    BY <1>3, <1>5, <2>2
  <2> QED BY <1>5, <2>2, <2>3 DEF Received
<1> QED BY <1>4, <1>5

-----------------------------------------------------------------------------
LEMMA InitIInv == Init => IInv
<1> SUFFICES ASSUME Init PROVE IInv
  OBVIOUS
<1>1. TypeOK
  BY PlanAssumption DEF Init, TypeOK
<1>2. Counted
  <2>1. ASSUME NEW p \in Peers PROVE taken[p] <= sent[p] /\ sent[p] <= Len(plan[p])
    <3>1. plan[p] \in Seq(Nat) /\ taken[p] = 0 /\ sent[p] = 0
      BY <1>1 DEF Init, TypeOK
    <3> QED BY <3>1
  <2> QED BY <2>1 DEF Counted
<1>3. Holding
  <2>1. ASSUME NEW p \in Peers PROVE HoldingOf(p)
    <3>1. fds[p] = <<>> /\ Len(fds[p]) = 0 /\ ctl[p] = "new"
      BY DEF Init
    <3> QED BY <3>1 DEF HoldingOf
  <2> QED BY <2>1 DEF Holding
<1>4. Elements(out) = {} /\ Elements(served) = {} /\ dropped = {}
  BY DEF Init, Elements
<1>5. Passed
  <2>1. ASSUME NEW f \in Places PROVE ~ Done(f)
    <3>1. f[1] \in Peers => taken[f[1]] = 0
      BY DEF Init
    <3> QED BY <3>1 DEF Done
  <2> QED BY <1>4, <2>1 DEF Passed
<1>6. Apart
  BY <1>4 DEF Apart
<1>7. InLine
  BY DEF Init, InLine, Ordered
<1> QED BY <1>1, <1>2, <1>3, <1>5, <1>6, <1>7 DEF IInv

-----------------------------------------------------------------------------
(***************************************************************************)
(* The steps that move no descriptor.                                      *)
(***************************************************************************)
LEMMA MovesNothing ==
  ASSUME IInv, TypeOK', Counted',
         UNCHANGED <<plan, taken, fds, out, served, dropped>>,
         \A p \in Peers : ctl'[p] = "push" <=> ctl[p] = "push"
  PROVE  IInv'
<1>1. Holding'
  BY DEF IInv, Holding, HoldingOf, Width
<1>2. Passed' /\ Apart' /\ InLine'
  BY DEF IInv, Passed, Apart, InLine, Ordered, Done, Width, Elements
<1> QED BY <1>1, <1>2 DEF IInv

(***************************************************************************)
(* When a message is taken none of its descriptors is done with, and all   *)
(* of those before are.                                                    *)
(***************************************************************************)
LEMMA RecvmsgStep == ASSUME IInv, NEW p \in Peers, Recvmsg(p) PROVE IInv'
<1> DEFINE k == taken[p] + 1
<1> USE DEF IInv
<1>1. /\ taken[p] \in Nat /\ sent[p] \in Nat /\ k <= sent[p]
      /\ taken' = [taken EXCEPT ![p] = k] /\ fds' = [fds EXCEPT ![p] = Rights(p, k)]
      /\ ctl' = [ctl EXCEPT ![p] = IF Rights(p, k) = <<>> THEN "recv" ELSE "push"]
      /\ UNCHANGED <<plan, sent, hungUp, out, served, dropped>>
      /\ fds[p] = <<>>
  BY DEF Recvmsg, TypeOK, peer, channel, Holding, HoldingOf
<1>2. plan[p] \in Seq(Nat) /\ k \in 1 .. Len(plan[p])
  <2>1. plan[p] \in Seq(Nat) /\ sent[p] <= Len(plan[p])
    BY DEF TypeOK, Counted
  <2> QED BY <1>1, <2>1
<1>3. Width(p, k) \in Nat
  BY <1>2, WidthType
<1>4. /\ Rights(p, k) \in Seq(Places) /\ Len(Rights(p, k)) = Width(p, k)
      /\ \A j \in 1 .. Width(p, k) : Rights(p, k)[j] = <<p, k, j>>
      /\ Rights(p, k) # <<>> <=> Width(p, k) > 0
  <2>1. Rights(p, k) = [j \in 1 .. Width(p, k) |-> <<p, k, j>>]
    BY DEF Rights, Width
  <2>2. \A j \in 1 .. Width(p, k) : <<p, k, j>> \in Places
    BY <1>1, <1>3 DEF Places
  <2> QED BY <1>3, <2>1, <2>2
<1>5. TypeOK'
  BY <1>1, <1>4 DEF TypeOK
<1>6. Counted'
  BY <1>1 DEF TypeOK, Counted
<1>7. Holding'
  <2>1. ASSUME NEW q \in Peers, q # p
        PROVE  taken'[q] = taken[q] /\ fds'[q] = fds[q] /\ ctl'[q] = ctl[q]
    BY <1>1, <2>1 DEF TypeOK
  <2>2. taken'[p] = k /\ fds'[p] = Rights(p, k)
        /\ ctl'[p] = IF Rights(p, k) = <<>> THEN "recv" ELSE "push"
    BY <1>1 DEF TypeOK
  <2>3. ASSUME NEW q \in Peers, q # p PROVE HoldingOf(q)'
    <3>1. Width(q, taken[q])' = Width(q, taken[q])
      BY <1>1, <2>1, <2>3 DEF Width
    <3>2. HoldingOf(q)
      BY DEF Holding
    <3> QED BY <2>1, <2>3, <3>1, <3>2 DEF HoldingOf
  <2>4. HoldingOf(p)'
    <3>1. Width(p, taken[p])' = Width(p, k)
      BY <1>1, <2>2 DEF Width
    <3> QED BY <1>1, <1>3, <1>4, <2>2, <3>1 DEF HoldingOf
  <2> QED BY <2>3, <2>4 DEF Holding
<1>8. \A f \in Places : Done(f)' <=> Done(f)
  <2>1. ASSUME NEW f \in Places, f[1] = p PROVE Done(f)' <=> Done(f)
    <3>1. f[2] \in Nat /\ f[3] \in Nat
      BY DEF Places
    <3>2. taken'[p] = k /\ Len(fds'[p]) = Width(p, k) /\ Width(p, f[2])' = Width(p, f[2])
      BY <1>1, <1>4 DEF Width, TypeOK
    <3>3. Len(fds[p]) = 0
      BY <1>1
    <3>4. f[2] = k => ~ Done(f)' /\ ~ Done(f)
      BY <1>1, <1>3, <2>1, <3>1, <3>2 DEF Done
    <3>5. ASSUME f[2] \in 1 .. taken[p] PROVE Width(p, f[2]) \in Nat
      BY <1>1, <1>2, <3>5, WidthType
    <3>6. f[2] # k => (Done(f)' <=> Done(f))
      BY <1>1, <2>1, <3>1, <3>2, <3>3, <3>5 DEF Done
    <3> QED BY <3>4, <3>6
  <2>2. ASSUME NEW f \in Places, f[1] # p PROVE Done(f)' <=> Done(f)
    BY <1>1, <2>2 DEF Done, Width, TypeOK
  <2> QED BY <2>1, <2>2
<1>9. Passed' /\ Apart' /\ InLine'
  BY <1>1, <1>8 DEF Passed, Apart, InLine, Ordered, Elements
<1> QED BY <1>5, <1>6, <1>7, <1>9

-----------------------------------------------------------------------------
(***************************************************************************)
(* recvLoop is done with the next descriptor, which comes after all the    *)
(* others of its peer that it was done with before.                        *)
(***************************************************************************)
LEMMA AdvanceStep ==
  ASSUME IInv, NEW p \in Peers, ctl[p] = "push", Advance(p),
         UNCHANGED <<plan, sent, hungUp, taken>>
  PROVE  /\ Head(fds[p]) \in Places /\ ~ Done(Head(fds[p]))
         /\ \A f \in Places : Done(f)' <=> Done(f) \/ f = Head(fds[p])
         /\ \A f \in Places : Done(f) => Before(f, Head(fds[p]))
         /\ Counted' /\ Holding' /\ fds' \in [Peers -> Seq(Places)]
         /\ ctl' \in [Peers -> {"new", "queued", "recv", "push", "closed"}]
<1> DEFINE k == taken[p]
           h == Head(fds[p])
           n == Len(fds[p])
           w == Width(p, k)
<1> USE DEF IInv
<1>1. /\ fds[p] \in Seq(Places) /\ fds[p] # <<>> /\ n \in Nat \ {0}
      /\ k \in Nat /\ k > 0 /\ n <= w
      /\ \A i \in 1 .. n : fds[p][i] = <<p, k, w - n + i>>
  <2>1. HoldingOf(p) /\ fds[p] \in Seq(Places) /\ k \in Nat
    BY DEF Holding, TypeOK
  <2> QED BY <2>1 DEF HoldingOf
<1>2. k \in 1 .. Len(plan[p]) /\ w \in Nat
  <2>1. plan[p] \in Seq(Nat) /\ sent[p] \in Nat /\ k <= sent[p] /\ sent[p] <= Len(plan[p])
    BY DEF TypeOK, Counted
  <2>2. k \in 1 .. Len(plan[p])
    BY <1>1, <2>1
  <2> QED BY <2>2, WidthType
<1>3. h = <<p, k, w - n + 1>> /\ h \in Places
  BY <1>1, <1>2 DEF Places
<1>4. /\ fds' = [fds EXCEPT ![p] = Tail(fds[p])]
      /\ ctl' = [ctl EXCEPT ![p] = IF n = 1 THEN "recv" ELSE "push"]
      /\ fds \in [Peers -> Seq(Places)]
      /\ ctl \in [Peers -> {"new", "queued", "recv", "push", "closed"}]
  BY DEF Advance, TypeOK
<1>5. /\ Tail(fds[p]) \in Seq(Places) /\ Len(Tail(fds[p])) = n - 1
      /\ \A i \in 1 .. n - 1 : Tail(fds[p])[i] = fds[p][i + 1]
      /\ Tail(fds[p]) = <<>> <=> n = 1
  BY <1>1, TailFacts
<1>6. /\ fds' \in [Peers -> Seq(Places)] /\ fds'[p] = Tail(fds[p])
      /\ ctl' \in [Peers -> {"new", "queued", "recv", "push", "closed"}]
      /\ ctl'[p] = IF n = 1 THEN "recv" ELSE "push"
      /\ \A q \in Peers \ {p} : fds'[q] = fds[q] /\ ctl'[q] = ctl[q]
  BY <1>4, <1>5
<1>7. Counted'
  BY DEF Counted
<1>8. Holding'
  <2>1. ASSUME NEW q \in Peers, q # p PROVE HoldingOf(q)'
    <3>1. HoldingOf(q) /\ Width(q, taken[q])' = Width(q, taken[q])
      BY DEF Holding, Width
    <3> QED BY <1>6, <2>1, <3>1 DEF HoldingOf
  <2>2. HoldingOf(p)'
    <3>1. Width(p, k)' = w
      BY DEF Width
    <3>2. ASSUME NEW i \in 1 .. n - 1
          PROVE  Tail(fds[p])[i] = <<p, k, w - (n - 1) + i>>
      <4>1. i + 1 \in 1 .. n /\ w - n + (i + 1) = w - (n - 1) + i
        BY <1>1, <1>2
      <4> QED BY <1>1, <1>5, <4>1
    <3> QED BY <1>1, <1>2, <1>5, <1>6, <3>1, <3>2 DEF HoldingOf
  <2> QED BY <2>1, <2>2 DEF Holding
<1>9. ~ Done(h)
  BY <1>1, <1>2, <1>3 DEF Done
<1>10. ASSUME NEW f \in Places PROVE Done(f)' <=> Done(f) \/ f = h
  <2>1. f = <<f[1], f[2], f[3]>> /\ f[2] \in Nat /\ f[3] \in Nat
    BY DEF Places
  <2>2. Width(f[1], f[2])' = Width(f[1], f[2])
    BY DEF Width
  <2>3. CASE f[1] # p
    BY <1>3, <1>6, <2>2, <2>3 DEF Done
  <2>4. CASE f[1] = p /\ f[2] # k
    BY <1>3, <2>2, <2>4 DEF Done
  <2>5. CASE f[1] = p /\ f[2] = k
    <3>1. Done(f) <=> f[3] \in 1 .. w /\ f[3] + n <= w
      BY <1>1, <2>5 DEF Done
    <3>2. Done(f)' <=> f[3] \in 1 .. w /\ f[3] + (n - 1) <= w
      <4>1. Len(fds'[p]) = n - 1 /\ k \in 1 .. k /\ taken'[p] = k
        BY <1>1, <1>5, <1>6
      <4>2. Width(f[1], f[2])' = w
        BY <2>2, <2>5
      <4> QED BY <2>5, <4>1, <4>2 DEF Done
    <3>3. f = h <=> f[3] = w - n + 1
      BY <1>3, <2>1, <2>5
    <3> QED BY <1>1, <1>2, <2>1, <3>1, <3>2, <3>3
  <2> QED BY <2>3, <2>4, <2>5
<1>11. ASSUME NEW f \in Places, Done(f) PROVE Before(f, h)
  <2>1. f[2] \in Nat /\ f[3] \in Nat
    BY DEF Places
  <2>2. ASSUME f[1] = p PROVE f[2] <= k /\ (f[2] = k => f[3] + n <= w)
    BY <1>1, <1>11, <2>1, <2>2 DEF Done
  <2> QED BY <1>1, <1>2, <1>3, <2>1, <2>2 DEF Before, Earlier
<1> QED BY <1>3, <1>6, <1>7, <1>8, <1>9, <1>10, <1>11

LEMMA PushStep == ASSUME IInv, NEW p \in Peers, Push(p) PROVE IInv'
<1> DEFINE h == Head(fds[p])
<1> USE DEF IInv
<1>1. /\ ctl[p] = "push" /\ Advance(p) /\ out' = Append(out, h)
      /\ UNCHANGED <<plan, sent, hungUp, taken, served, dropped>>
  BY DEF Push, peer
<1>2. /\ h \in Places /\ ~ Done(h)
      /\ \A f \in Places : Done(f)' <=> Done(f) \/ f = h
      /\ \A f \in Places : Done(f) => Before(f, h)
      /\ Counted' /\ Holding' /\ fds' \in [Peers -> Seq(Places)]
      /\ ctl' \in [Peers -> {"new", "queued", "recv", "push", "closed"}]
  BY <1>1, AdvanceStep
<1>3. out \in Seq(Places) /\ served \in Seq(Places) /\ dropped \subseteq Places
  BY DEF TypeOK
<1>4. TypeOK'
  BY <1>1, <1>2 DEF TypeOK
<1>5. Elements(out)' = Elements(out) \union {h} /\ Elements(served)' = Elements(served)
  <2>1. Elements(Append(out, h)) = Elements(out) \union {h}
    BY <1>2, <1>3, ElementsAppend
  <2> QED BY <1>1, <2>1 DEF Elements
<1>6. Passed'
  BY <1>1, <1>2, <1>5 DEF Passed
<1>7. Apart'
  BY <1>1, <1>2, <1>5 DEF Passed, Apart
<1>8. \A m \in 1 .. Len(served) : Before(served[m], h)
  BY <1>2, <1>3 DEF Passed, Elements
<1>9. \A m \in 1 .. Len(out) : Before(out[m], h)
  BY <1>2, <1>3 DEF Passed, Elements
<1>10. /\ Len(out') = Len(out) + 1 /\ out'[Len(out) + 1] = h /\ Len(out) \in Nat
       /\ \A i \in 1 .. Len(out) : out'[i] = out[i]
  BY <1>1, <1>2, <1>3
<1>11. Ordered(out)'
  BY <1>9, <1>10 DEF InLine, Ordered
<1>12. InLine'
  <2>1. ASSUME NEW m \in 1 .. Len(served), NEW n \in 1 .. Len(out) + 1
        PROVE  Before(served[m], out'[n])
    BY <1>8, <1>10 DEF InLine
  <2> QED BY <1>1, <1>10, <1>11, <2>1 DEF InLine, Ordered
<1> QED BY <1>2, <1>4, <1>6, <1>7, <1>12

LEMMA SetNonblockFailsStep ==
  ASSUME IInv, NEW p \in Peers, SetNonblockFails(p) PROVE IInv'
<1> DEFINE h == Head(fds[p])
<1> USE DEF IInv
<1>1. /\ ctl[p] = "push" /\ Advance(p) /\ dropped' = dropped \union {h}
      /\ UNCHANGED <<plan, sent, hungUp, taken, served, out>>
  BY DEF SetNonblockFails, peer, channel
<1>2. /\ h \in Places /\ ~ Done(h)
      /\ \A f \in Places : Done(f)' <=> Done(f) \/ f = h
      /\ Counted' /\ Holding' /\ fds' \in [Peers -> Seq(Places)]
      /\ ctl' \in [Peers -> {"new", "queued", "recv", "push", "closed"}]
  BY <1>1, AdvanceStep
<1>3. TypeOK'
  BY <1>1, <1>2 DEF TypeOK
<1>4. Elements(out)' = Elements(out) /\ Elements(served)' = Elements(served)
  BY <1>1 DEF Elements
<1>5. Passed' /\ Apart'
  BY <1>1, <1>2, <1>4 DEF Passed, Apart
<1>6. InLine'
  BY <1>1 DEF InLine, Ordered
<1> QED BY <1>2, <1>3, <1>5, <1>6

-----------------------------------------------------------------------------
(***************************************************************************)
(* ServeFDChannel takes the first descriptor of the channel.               *)
(***************************************************************************)
LEMMA TakeOut ==
  ASSUME IInv, out # <<>>, out' = Tail(out),
         UNCHANGED <<plan, sent, hungUp, taken, ctl, fds>>
  PROVE  /\ Head(out) \in Places /\ Tail(out) \in Seq(Places)
         /\ Elements(out) = Elements(out)' \union {Head(out)}
         /\ Len(out') = Len(out) - 1 /\ Len(out) \in Nat \ {0}
         /\ Head(out) = out[1] /\ \A i \in 1 .. Len(out) - 1 : out'[i] = out[i + 1]
         /\ Head(out) \notin Elements(out)' /\ Head(out) \notin Elements(served)
         /\ Ordered(out)' /\ Counted' /\ Holding'
         /\ \A f \in Places : Done(f)' <=> Done(f)
<1> USE DEF IInv
<1>1. out \in Seq(Places) /\ served \in Seq(Places)
  BY DEF TypeOK
<1>2. /\ Head(out) \in Places /\ Tail(out) \in Seq(Places)
      /\ Len(out') = Len(out) - 1 /\ Len(out) \in Nat \ {0}
      /\ Head(out) = out[1] /\ \A i \in 1 .. Len(out) - 1 : out'[i] = out[i + 1]
  BY <1>1
<1>3. Elements(out) = Elements(out)' \union {Head(out)}
  <2>1. Elements(out) = Elements(Tail(out)) \union {Head(out)}
    BY <1>1, ElementsHeadTail
  <2> QED BY <2>1 DEF Elements
<1>4. Ordered(out)'
  BY <1>2 DEF InLine, Ordered
<1>5. ASSUME NEW f \in Places, Before(f, f) PROVE FALSE
  BY <1>5 DEF Before, Earlier, Places
<1>6. Head(out) \notin Elements(out)'
  <2>1. \A i \in 1 .. Len(out) - 1 : Before(Head(out), out'[i])
    BY <1>2 DEF InLine, Ordered
  <2> QED BY <1>2, <1>5, <2>1 DEF Elements
<1>7. Head(out) \notin Elements(served)
  <2>1. \A i \in 1 .. Len(served) : Before(served[i], Head(out))
    BY <1>2 DEF InLine
  <2> QED BY <1>1, <1>2, <1>5, <2>1 DEF Elements
<1>8. Counted' /\ Holding' /\ \A f \in Places : Done(f)' <=> Done(f)
  BY DEF Counted, Holding, HoldingOf, Width, Done
<1> QED BY <1>2, <1>3, <1>4, <1>6, <1>7, <1>8

LEMMA ServeStep == ASSUME IInv, Serve PROVE IInv'
<1> DEFINE h == Head(out)
<1> USE DEF IInv
<1>1. /\ out # <<>> /\ out' = Tail(out) /\ served' = Append(served, h)
      /\ UNCHANGED <<plan, sent, hungUp, taken, ctl, fds, dropped>>
  BY DEF Serve, peer
<1>2. /\ h \in Places /\ Tail(out) \in Seq(Places)
      /\ Elements(out) = Elements(out)' \union {h}
      /\ Len(out') = Len(out) - 1 /\ Len(out) \in Nat \ {0}
      /\ h = out[1] /\ \A i \in 1 .. Len(out) - 1 : out'[i] = out[i + 1]
      /\ Ordered(out)' /\ Counted' /\ Holding'
      /\ \A f \in Places : Done(f)' <=> Done(f)
  BY <1>1, TakeOut
<1>3. served \in Seq(Places)
  BY DEF TypeOK
<1>4. Elements(served)' = Elements(served) \union {h}
  <2>1. Elements(Append(served, h)) = Elements(served) \union {h}
    BY <1>2, <1>3, ElementsAppend
  <2> QED BY <1>1, <2>1 DEF Elements
<1>5. TypeOK'
  BY <1>1, <1>2 DEF TypeOK
<1>6. Passed' /\ Apart'
  BY <1>1, <1>2, <1>4 DEF Passed, Apart
<1>7. /\ Len(served') = Len(served) + 1 /\ served'[Len(served) + 1] = h
      /\ Len(served) \in Nat /\ \A i \in 1 .. Len(served) : served'[i] = served[i]
  BY <1>1, <1>2, <1>3
<1>8. Ordered(served)'
  BY <1>2, <1>7 DEF InLine, Ordered
<1>9. InLine'
  <2>1. ASSUME NEW m \in 1 .. Len(served) + 1, NEW n \in 1 .. Len(out) - 1
        PROVE  Before(served'[m], out'[n])
    BY <1>2, <1>7 DEF InLine, Ordered
  <2> QED BY <1>2, <1>7, <1>8, <2>1 DEF InLine
<1> QED BY <1>2, <1>5, <1>6, <1>9

LEMMA FileConnFailsStep == ASSUME IInv, FileConnFails PROVE IInv'
<1> DEFINE h == Head(out)
<1> USE DEF IInv
<1>1. /\ out # <<>> /\ out' = Tail(out) /\ dropped' = dropped \union {h}
      /\ UNCHANGED <<plan, sent, hungUp, taken, ctl, fds, served>>
  BY DEF FileConnFails, peer
<1>2. /\ h \in Places /\ Tail(out) \in Seq(Places)
      /\ Elements(out) = Elements(out)' \union {h}
      /\ Len(out') = Len(out) - 1 /\ Len(out) \in Nat \ {0}
      /\ h \notin Elements(out)' /\ h \notin Elements(served)
      /\ \A i \in 1 .. Len(out) - 1 : out'[i] = out[i + 1]
      /\ Ordered(out)' /\ Counted' /\ Holding'
      /\ \A f \in Places : Done(f)' <=> Done(f)
  BY <1>1, TakeOut
<1>3. TypeOK'
  BY <1>1, <1>2 DEF TypeOK
<1>4. Elements(served)' = Elements(served)
  BY <1>1 DEF Elements
<1>5. Passed' /\ Apart'
  BY <1>1, <1>2, <1>4 DEF Passed, Apart
<1>6. InLine'
  BY <1>1, <1>2 DEF InLine, Ordered
<1> QED BY <1>2, <1>3, <1>5, <1>6

-----------------------------------------------------------------------------
LEMMA NextIInv == IInv /\ [Next]_vars => IInv'
<1> SUFFICES ASSUME IInv, [Next]_vars PROVE IInv'
  OBVIOUS
<1>1. TypeOK /\ Counted
  BY DEF IInv
<1>2. ASSUME UNCHANGED <<plan, sent, hungUp, taken, ctl, fds, out, served, dropped>>
      PROVE  IInv'
  <2>1. TypeOK' /\ Counted'
    BY <1>1, <1>2 DEF TypeOK, Counted
  <2> QED BY <1>2, <2>1, MovesNothing
<1>3. CASE UNCHANGED vars
  BY <1>2, <1>3 DEF vars
<1>4. ASSUME NEW p \in Peers, Connect(p) \/ Accept(p) \/ RecvmsgFails(p) PROVE IInv'
  <2>1. /\ UNCHANGED <<plan, sent, hungUp, taken, fds, out, served, dropped>>
        /\ \E c \in {"queued", "recv", "closed"} : ctl' = [ctl EXCEPT ![p] = c]
        /\ ctl[p] # "push"
    BY <1>4 DEF Connect, Accept, RecvmsgFails, peer, channel
  <2>2. TypeOK' /\ Counted'
    BY <1>1, <2>1 DEF TypeOK, Counted
  <2>3. \A q \in Peers : ctl'[q] = "push" <=> ctl[q] = "push"
    BY <1>1, <2>1 DEF TypeOK
  <2> QED BY <2>1, <2>2, <2>3, MovesNothing
<1>5. ASSUME NEW p \in Peers, Send(p) PROVE IInv'
  <2>1. /\ sent[p] < Len(plan[p]) /\ sent' = [sent EXCEPT ![p] = sent[p] + 1]
        /\ UNCHANGED <<plan, hungUp, taken, ctl, fds, out, served, dropped>>
    BY <1>5 DEF Send, channel
  <2>2. TypeOK'
    BY <1>1, <2>1 DEF TypeOK
  <2>3. ASSUME NEW q \in Peers
        PROVE  taken'[q] <= sent'[q] /\ sent'[q] <= Len(plan'[q])
    <3>1. plan[q] \in Seq(Nat) /\ taken[q] \in Nat /\ sent[q] \in Nat
          /\ taken[q] <= sent[q] /\ sent[q] <= Len(plan[q])
          /\ sent'[q] = IF q = p THEN sent[q] + 1 ELSE sent[q]
      BY <1>1, <2>1 DEF TypeOK, Counted
    <3>2. Len(plan[q]) \in Nat
      BY <3>1
    <3> QED BY <2>1, <3>1, <3>2
  <2> QED BY <2>1, <2>2, <2>3, MovesNothing DEF Counted
<1>6. ASSUME NEW p \in Peers, HangUp(p) PROVE IInv'
  <2>1. /\ hungUp' = [hungUp EXCEPT ![p] = TRUE]
        /\ UNCHANGED <<plan, sent, taken, ctl, fds, out, served, dropped>>
    BY <1>6 DEF HangUp, channel
  <2>2. TypeOK' /\ Counted'
    BY <1>1, <2>1 DEF TypeOK, Counted
  <2> QED BY <2>1, <2>2, MovesNothing
<1>7. ASSUME NEW p \in Peers, recvLoop(p) PROVE IInv'
  <2>1. ASSUME RecvmsgAtEnd(p) \/ PushPanics(p) PROVE IInv'
    BY <1>2, <2>1 DEF RecvmsgAtEnd, PushPanics, vars, peer, channel
  <2> QED BY <1>7, <2>1, RecvmsgStep, PushStep DEF recvLoop
<1>8. CASE ServeEnds \/ AcceptFails
  BY <1>2, <1>8 DEF ServeEnds, AcceptFails, peer
<1>9. CASE ServeFDChannel
  BY <1>8, <1>9, ServeStep DEF ServeFDChannel
<1>10. CASE Failures
  BY <1>4, <1>8, <1>10, FileConnFailsStep, SetNonblockFailsStep DEF Failures
<1> QED BY <1>3, <1>4, <1>5, <1>6, <1>7, <1>9, <1>10 DEF Next

(***************************************************************************)
(* What recvLoop holds is received and not done with; all else that is     *)
(* received is done with.                                                  *)
(***************************************************************************)
LEMMA HeldOrDone ==
  ASSUME IInv
  PROVE  /\ \A p \in Peers : \A f \in Elements(fds[p]) : f \in Places /\ f[1] = p
                                                       /\ f \in Received /\ ~ Done(f)
         /\ \A f \in Received : f \in Places /\ (Done(f) \/ f \in Elements(fds[f[1]]))
         /\ \A f \in Places : Done(f) => f \in Received
<1> USE DEF IInv
<1>1. ASSUME NEW p \in Peers, NEW k \in 1 .. taken[p] PROVE Width(p, k) \in Nat /\ k \in Nat
  <2>1. taken[p] \in Nat /\ sent[p] \in Nat /\ plan[p] \in Seq(Nat)
        /\ taken[p] <= sent[p] /\ sent[p] <= Len(plan[p])
    BY DEF TypeOK, Counted
  <2>2. k \in 1 .. Len(plan[p])
    BY <2>1
  <2> QED BY <2>2, WidthType
<1>2. ASSUME NEW p \in Peers, NEW f \in Elements(fds[p])
      PROVE  f \in Places /\ f[1] = p /\ f \in Received /\ ~ Done(f)
  <2>1. HoldingOf(p) /\ fds[p] \in Seq(Places) /\ taken[p] \in Nat
    BY DEF Holding, TypeOK
  <2>2. PICK i \in 1 .. Len(fds[p]) : f = fds[p][i]
    BY <2>1 DEF Elements
  <2>3. Len(fds[p]) \in Nat /\ fds[p] # <<>> /\ f \in Places
    BY <2>1, <2>2
  <2>4. taken[p] \in 1 .. taken[p] /\ Len(fds[p]) <= Width(p, taken[p])
        /\ f = <<p, taken[p], Width(p, taken[p]) - Len(fds[p]) + i>>
    BY <2>1, <2>2, <2>3 DEF HoldingOf
  <2>5. Width(p, taken[p]) \in Nat
    BY <1>1, <2>4
  <2>6. Width(p, taken[p]) - Len(fds[p]) + i \in 1 .. Width(p, taken[p])
    BY <2>2, <2>3, <2>4, <2>5
  <2>7. f \in Received
    BY <2>4, <2>6, ReceivedAre
  <2>8. ~ Done(f)
    BY <2>2, <2>3, <2>4, <2>5 DEF Done
  <2> QED BY <2>3, <2>4, <2>7, <2>8
<1>3. ASSUME NEW f \in Received
      PROVE  f \in Places /\ (Done(f) \/ f \in Elements(fds[f[1]]))
  <2>1. PICK p \in Peers : \E k \in 1 .. taken[p] : \E j \in 1 .. Width(p, k) :
                             f = <<p, k, j>>
    BY ReceivedAre
  <2>2. PICK k \in 1 .. taken[p] : \E j \in 1 .. Width(p, k) : f = <<p, k, j>>
    BY <2>1
  <2>3. PICK j \in 1 .. Width(p, k) : f = <<p, k, j>>
    BY <2>2
  <2>4. Width(p, k) \in Nat /\ k \in Nat
    BY <1>1
  <2>5. f \in Places
    BY <2>3, <2>4 DEF Places
  <2>6. ASSUME ~ Done(f) PROVE f \in Elements(fds[p])
    <3>1. k = taken[p] /\ ~ (j + Len(fds[p]) <= Width(p, k))
      BY <2>3, <2>6 DEF Done
    <3>2. HoldingOf(p) /\ fds[p] \in Seq(Places)
      BY DEF Holding, TypeOK
    <3>3. Len(fds[p]) \in Nat /\ DOMAIN fds[p] = 1 .. Len(fds[p])
      BY <3>2
    <3> DEFINE i == j + Len(fds[p]) - Width(p, k)
    <3>4. fds[p] # <<>>
      BY <2>3, <2>4, <3>1, <3>3
    <3>5. Len(fds[p]) <= Width(p, k)
      BY <3>1, <3>2, <3>4 DEF HoldingOf
    <3>6. i \in 1 .. Len(fds[p]) /\ Width(p, k) - Len(fds[p]) + i = j
      BY <2>3, <2>4, <3>1, <3>3, <3>5
    <3>7. fds[p][i] = f
      BY <2>3, <3>1, <3>2, <3>6 DEF HoldingOf
    <3> QED BY <3>3, <3>6, <3>7 DEF Elements
  <2> QED BY <2>3, <2>5, <2>6
<1>4. ASSUME NEW f \in Places, Done(f) PROVE f \in Received
  <2>1. f = <<f[1], f[2], f[3]>> /\ f[1] \in Peers /\ f[2] \in 1 .. taken[f[1]]
        /\ f[3] \in 1 .. Width(f[1], f[2])
    BY <1>4 DEF Done, Places
  <2> QED BY <2>1, ReceivedAre
<1> QED BY <1>2, <1>3, <1>4

(***************************************************************************)
(* Sequences that are in order, one after the other.                       *)
(***************************************************************************)
LEMMA ConcatFacts ==
  ASSUME NEW S, NEW s \in Seq(S), NEW t \in Seq(S)
  PROVE  /\ s \o t \in Seq(S) /\ Len(s \o t) = Len(s) + Len(t)
         /\ Len(s) \in Nat /\ Len(t) \in Nat
         /\ \A i \in 1 .. Len(s) : (s \o t)[i] = s[i]
         /\ \A i \in 1 .. Len(t) : (s \o t)[Len(s) + i] = t[i]
<1>1. s \o t \in Seq(S) /\ Len(s \o t) = Len(s) + Len(t) /\ Len(s) \in Nat /\ Len(t) \in Nat
  OBVIOUS
<1>2. \A i \in 1 .. Len(s) : (s \o t)[i] = s[i]
  OBVIOUS
<1>3. ASSUME NEW i \in 1 .. Len(t) PROVE (s \o t)[Len(s) + i] = t[i]
  <2>1. Len(s) + i \in 1 .. Len(s) + Len(t) /\ ~ (Len(s) + i <= Len(s))
        /\ Len(s) + i - Len(s) = i
    BY <1>1
  <2> QED BY <1>1, <2>1
<1> QED BY <1>1, <1>2, <1>3

LEMMA OrderedConcat ==
  ASSUME NEW s \in Seq(Places), NEW t \in Seq(Places), Ordered(s), Ordered(t),
         \A m \in 1 .. Len(s), n \in 1 .. Len(t) : Before(s[m], t[n])
  PROVE  /\ Ordered(s \o t) /\ s \o t \in Seq(Places)
         /\ Elements(s \o t) = Elements(s) \union Elements(t)
<1> DEFINE r == s \o t
           a == Len(s)
           b == Len(t)
<1>1. /\ r \in Seq(Places) /\ Len(r) = a + b /\ a \in Nat /\ b \in Nat
      /\ \A i \in 1 .. a : r[i] = s[i]
      /\ \A i \in 1 .. b : r[a + i] = t[i]
  BY ConcatFacts
<1>2. ASSUME NEW m \in 1 .. a + b, ~ (m <= a) PROVE m - a \in 1 .. b /\ r[m] = t[m - a]
  <2>1. m - a \in 1 .. b /\ a + (m - a) = m
    BY <1>1, <1>2
  <2> QED BY <1>1, <2>1
<1> HIDE DEF r
<1>3. ASSUME NEW m \in 1 .. a + b, NEW n \in 1 .. a + b, m < n PROVE Before(r[m], r[n])
  <2>1. CASE n <= a
    <3>1. m \in 1 .. a /\ n \in 1 .. a
      BY <1>1, <1>3, <2>1
    <3> QED BY <1>1, <1>3, <3>1 DEF Ordered
  <2>2. CASE ~ (n <= a) /\ m <= a
    <3>1. m \in 1 .. a /\ n - a \in 1 .. b
      BY <1>1, <1>2, <2>2
    <3>2. Before(s[m], t[n - a])
      BY <3>1
    <3> QED BY <1>1, <1>2, <2>2, <3>1, <3>2
  <2>3. CASE ~ (n <= a) /\ ~ (m <= a)
    <3>1. m - a < n - a
      BY <1>1, <1>3
    <3> QED BY <1>2, <2>3, <3>1 DEF Ordered
  <2> QED BY <1>1, <1>3, <2>1, <2>2, <2>3
<1>4. Ordered(r)
  BY <1>1, <1>3 DEF Ordered
<1>5. Elements(r) \subseteq Elements(s) \union Elements(t)
  <2>1. ASSUME NEW m \in 1 .. a + b PROVE r[m] \in Elements(s) \union Elements(t)
    <3>1. m <= a => m \in 1 .. a
      BY <1>1
    <3> QED BY <1>1, <1>2, <3>1 DEF Elements
  <2> QED BY <1>1, <2>1 DEF Elements
<1>6. Elements(s) \union Elements(t) \subseteq Elements(r)
  <2>1. \A m \in 1 .. a : m \in 1 .. a + b
    BY <1>1
  <2>2. \A m \in 1 .. b : a + m \in 1 .. a + b
    BY <1>1
  <2>3. DOMAIN s = 1 .. a /\ DOMAIN t = 1 .. b /\ DOMAIN r = 1 .. a + b
    BY <1>1
  <2>4. ASSUME NEW m \in 1 .. a PROVE s[m] \in Elements(r)
    BY <1>1, <2>1, <2>3 DEF Elements
  <2>5. ASSUME NEW m \in 1 .. b PROVE t[m] \in Elements(r)
    BY <1>1, <2>2, <2>3 DEF Elements
  <2> QED BY <2>3, <2>4, <2>5 DEF Elements
<1> QED BY <1>1, <1>4, <1>5, <1>6 DEF r

(***************************************************************************)
(* While recvLoop holds descriptors, the message they are of has a width.  *)
(***************************************************************************)
LEMMA HeldWidth ==
  ASSUME IInv, NEW p \in Peers, NEW i \in 1 .. Len(fds[p])
  PROVE  fds[p] # <<>> /\ Width(p, taken[p]) \in Nat
<1>1. /\ HoldingOf(p) /\ fds[p] \in Seq(Places) /\ plan[p] \in Seq(Nat)
      /\ taken[p] \in Nat /\ sent[p] \in Nat /\ taken[p] <= sent[p]
      /\ sent[p] <= Len(plan[p])
  BY DEF IInv, Holding, TypeOK, Counted
<1>2. fds[p] # <<>>
  BY <1>1
<1>3. taken[p] \in 1 .. Len(plan[p])
  BY <1>1, <1>2 DEF HoldingOf
<1> QED BY <1>2, <1>3, WidthType DEF IInv

(***************************************************************************)
(* A descriptor that was received is in one place, never in two and never  *)
(* in none: with recvLoop, in the channel out, with handleConn, or closed. *)
(***************************************************************************)
THEOREM FdPassOnePlace == Spec => []OnePlace
<1>1. IInv => OnePlace
  <2> SUFFICES ASSUME IInv PROVE OnePlace
    OBVIOUS
  <2> USE DEF IInv
  <2> DEFINE waiting == UNION {Elements(fds[p]) : p \in Peers}
             gone == Elements(out) \union Elements(served) \union dropped
  <2>1. out \in Seq(Places) /\ served \in Seq(Places) /\ dropped \subseteq Places
    BY DEF TypeOK
  <2>2. gone \subseteq Places
    BY <2>1 DEF Elements
  <2>3. \A f \in waiting : f \in Places /\ f \in Received /\ ~ Done(f)
    BY HeldOrDone
  <2>4. \A f \in gone : f \in Received /\ Done(f)
    BY <2>2, HeldOrDone DEF Passed
  <2>5. \A f \in Received : f \in waiting \/ f \in gone
    <3>1. ASSUME NEW f \in Received, ~ Done(f) PROVE f \in waiting
      <4>1. f \in Elements(fds[f[1]]) /\ f[1] \in Peers
        BY <3>1, HeldOrDone DEF Places
      <4> QED BY <4>1
    <3> QED BY <3>1, HeldOrDone DEF Passed
  <2>6. Elements(out) \intersect Elements(served) = {}
    <3>1. ASSUME NEW m \in 1 .. Len(served), NEW n \in 1 .. Len(out), served[m] = out[n]
          PROVE  FALSE
      <4>1. Before(out[n], out[n]) /\ out[n] \in Places
        BY <2>1, <3>1 DEF InLine
      <4> QED BY <4>1 DEF Before, Earlier, Places
    <3> QED BY <2>1, <3>1 DEF Elements
  <2> QED BY <2>3, <2>4, <2>5, <2>6 DEF OnePlace, Apart
<1>2. QED BY <1>1, InitIInv, NextIInv, PTL DEF Spec

(***************************************************************************)
(* The descriptors of one peer are served once each and in the order in    *)
(* which they were sent, however the loops of the peers interleave.        *)
(***************************************************************************)
THEOREM FdPassServedInOrder == Spec => []ServedInOrder
<1>1. IInv => ServedInOrder
  <2> SUFFICES ASSUME IInv, NEW p \in Peers
               PROVE  LET line == served \o out \o fds[p]
                      IN  \A m, n \in DOMAIN line :
                            m < n /\ line[m][1] = p /\ line[n][1] = p
                              => Earlier(line[m], line[n])
    BY DEF ServedInOrder
  <2> USE DEF IInv
  <2> DEFINE line == served \o out \o fds[p]
  <2>1. served \in Seq(Places) /\ out \in Seq(Places) /\ fds[p] \in Seq(Places)
    BY DEF TypeOK
  <2>2. /\ Ordered(served \o out) /\ served \o out \in Seq(Places)
        /\ Elements(served \o out) = Elements(served) \union Elements(out)
    <3>1. /\ Ordered(served) /\ Ordered(out)
          /\ \A m \in 1 .. Len(served), n \in 1 .. Len(out) : Before(served[m], out[n])
      BY DEF InLine
    <3> QED BY <2>1, <3>1, OrderedConcat
  <2>3. Ordered(fds[p])
    <3>1. HoldingOf(p) /\ taken[p] \in Nat /\ Len(fds[p]) \in Nat
      BY <2>1 DEF Holding, TypeOK
    <3>2. ASSUME NEW m \in 1 .. Len(fds[p]), NEW n \in 1 .. Len(fds[p]), m < n
          PROVE  Before(fds[p][m], fds[p][n])
      <4>1. fds[p] # <<>> /\ Width(p, taken[p]) \in Nat
        BY <2>1, <3>1, HeldWidth
      <4> QED BY <3>1, <3>2, <4>1 DEF HoldingOf, Before, Earlier
    <3> QED BY <3>2 DEF Ordered
  <2>4. ASSUME NEW f \in Elements(served \o out), NEW i \in 1 .. Len(fds[p])
        PROVE  Before(f, fds[p][i])
    <3>1. f \in Places /\ Done(f)
      BY <2>1, <2>2 DEF Passed, Elements
    <3>2. HoldingOf(p) /\ taken[p] \in Nat /\ Len(fds[p]) \in Nat
      BY <2>1 DEF Holding, TypeOK
    <3>3. Width(p, taken[p]) \in Nat
      BY <2>1, HeldWidth
    <3>4. fds[p][i] = <<p, taken[p], Width(p, taken[p]) - Len(fds[p]) + i>>
      BY <3>2 DEF HoldingOf
    <3>5. f[2] \in Nat /\ f[3] \in Nat
      BY <3>1 DEF Places
    <3>6. f[1] = p => /\ f[2] <= taken[p]
                      /\ f[2] = taken[p] => f[3] + Len(fds[p]) <= Width(p, taken[p])
      BY <3>1, <3>2, <3>5 DEF Done
    <3> QED BY <3>2, <3>3, <3>4, <3>5, <3>6 DEF Before, Earlier
  <2>5. Ordered(line) /\ line \in Seq(Places)
    <3>1. \A m \in 1 .. Len(served \o out), n \in 1 .. Len(fds[p]) :
            Before((served \o out)[m], fds[p][n])
      <4>1. \A m \in 1 .. Len(served \o out) : (served \o out)[m] \in Elements(served \o out)
        BY <2>2 DEF Elements
      <4> QED BY <2>4, <4>1
    <3> QED BY <2>1, <2>2, <2>3, <3>1, OrderedConcat
  <2>6. DOMAIN line = 1 .. Len(line)
    BY <2>5
  <2> HIDE DEF line
  <2>7. \A m, n \in DOMAIN line : m < n /\ line[m][1] = p /\ line[n][1] = p
                                   => Earlier(line[m], line[n])
    BY <2>5, <2>6 DEF Ordered, Before
  <2> QED BY <2>7 DEF line
<1>2. QED BY <1>1, InitIInv, NextIInv, PTL DEF Spec
=============================================================================

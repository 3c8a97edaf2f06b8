--------------------------- MODULE ProcessProofs ---------------------------
(***************************************************************************)
(* Safety of the server processes, for any number of processes,            *)
(* connections and restarts.  The invariant says what main has in memory   *)
(* at each of its calls, that only a process which has got through them    *)
(* has connections, and, for the first start of a process, what its socket *)
(* file tells the health check and the proxy.                              *)
(***************************************************************************)
EXTENDS Process, TLAPS

Up == {"control", "serving"}
Made == {"listen", "chmod", "control", "serving", "exited", "killed"}

Risk == IF settings.risk = "table" THEN "risk" ELSE "no risk"

HeldAt(place) ==
  IF place \in {"load", "exited", "killed"} THEN {}
  ELSE IF place = "warm" THEN {"index"}
  ELSE IF place = "risk" THEN {"index", "warm"}
  ELSE IF place = "norm" THEN {"index", "warm", Risk}
  ELSE {"index", "warm", Risk, "norm"}

Memory == \A a \in Apis : held[a] = HeldAt(main[a])
LoopsUp == \A a \in Apis : loop[a] \/ control[a] => main[a] \in Up
ConnsUp == \A c \in Conns : conn[c] \in {"waiting", "served"} => main[Target[c]] \in Up

\* Until it is started again, the file of a process was made by its own Bind.
FirstFile ==
  \A a \in Apis : boots[a] = 1 /\ settings.unix =>
    /\ file[a] \in {0, 1}
    /\ file[a] = 1 => main[a] \in Made
    /\ main[a] \in Made \ {"exited", "killed"} => file[a] = 1
    /\ healthy[a] \/ proxy => file[a] = 1

Inv == TypeOK /\ Memory /\ LoopsUp /\ ConnsUp /\ FirstFile

-----------------------------------------------------------------------------
LEMMA Boots ==
  ASSUME TypeOK, NEW a \in Apis
  PROVE  MaxBoots \in Nat /\ boots[a] \in Nat /\ 1 <= boots[a] /\ boots[a] <= MaxBoots
<1>1. boots[a] \in 1 .. MaxBoots
  BY DEF TypeOK
<1>2. MaxBoots \in Nat
  BY ProcessAssumption
<1>. QED  BY SMT, <1>1, <1>2

LEMMA InitInv == Init => Inv
<1>. SUFFICES ASSUME Init PROVE Inv
  OBVIOUS
<1>. USE ProcessAssumption DEF Init
<1>1. TypeOK
  <2>1. boots \in [Apis -> 1 .. MaxBoots] /\ file \in [Apis -> 0 .. MaxBoots]
    OBVIOUS
  <2>2. main \in [Apis -> Places] /\ conn \in [Conns -> {"new", "waiting", "served", "refused", "closed"}]
    BY DEF Places
  <2>. QED  BY <2>1, <2>2 DEF TypeOK
<1>2. Memory /\ LoopsUp /\ ConnsUp
  BY DEF Memory, HeldAt, LoopsUp, ConnsUp
<1>3. FirstFile
  BY DEF FirstFile, Made
<1>. QED  BY <1>1, <1>2, <1>3 DEF Inv

(***************************************************************************)
(* A call of main that reads something: the next place holds what this one *)
(* does and what was read.                                                 *)
(***************************************************************************)
LEMMA ReadsInv ==
  ASSUME Inv, NEW a \in Apis,
         NEW here \in {"load", "warm", "risk", "norm"}, NEW succeeds \in BOOLEAN,
         NEW what \in {"index", "warm", "risk", "no risk", "norm"},
         NEW next \in {"warm", "risk", "norm", "remove", "bind"},
         HeldAt(here) \union {what} = HeldAt(next),
         Reads(a, here, succeeds, what, next)
  PROVE  Inv'
<1>. USE DEF Inv, Reads, Fatal, Goto, Keep, outside
<1>0. HeldAt("exited") = {} /\ UNCHANGED settings /\ main[a] = here
  BY DEF HeldAt
<1>1. TypeOK'
  <2>1. main' \in [Apis -> Places]
    BY DEF TypeOK, Places
  <2>2. held' \in [Apis -> SUBSET {"index", "warm", "risk", "no risk", "norm"}]
    <3>1. held[a] \union {what} \in SUBSET {"index", "warm", "risk", "no risk", "norm"}
      BY DEF TypeOK
    <3>2. held' = [held EXCEPT ![a] = held[a] \union {what}] \/ held' = [held EXCEPT ![a] = {}]
      OBVIOUS
    <3>. QED  BY <3>1, <3>2 DEF TypeOK
  <2>. QED  BY <2>1, <2>2 DEF TypeOK
<1>2. Memory'
  <2>1. \A place : HeldAt(place)' = HeldAt(place)
    BY <1>0 DEF HeldAt, Risk
  <2>2. held'[a] = HeldAt(main'[a])
    <3>1. held[a] = HeldAt(here)
      BY <1>0 DEF Memory
    <3>. QED  BY <1>0, <3>1 DEF TypeOK
  <2>3. \A b \in Apis \ {a} : held'[b] = held[b] /\ main'[b] = main[b]
    BY DEF TypeOK
  <2>. QED  BY <2>1, <2>2, <2>3 DEF Memory
<1>3. LoopsUp' /\ ConnsUp'
  <2>1. main[a] \notin Up /\ \A b \in Apis \ {a} : main'[b] = main[b]
    BY DEF TypeOK, Up
  <2>. QED  BY <2>1, TargetAssumption DEF TypeOK, LoopsUp, ConnsUp
<1>4. FirstFile'
  BY DEF TypeOK, FirstFile, Made
<1>. QED  BY <1>1, <1>2, <1>3, <1>4

(***************************************************************************)
(* A call of main that moves it on and reads nothing.                      *)
(***************************************************************************)
LEMMA MovesKeepMemory ==
  ASSUME Inv, NEW a \in Apis, NEW next \in Places,
         main' = [main EXCEPT ![a] = next], UNCHANGED <<settings, held>>,
         HeldAt(next) = HeldAt(main[a])
  PROVE  Memory'
<1>1. \A place : HeldAt(place)' = HeldAt(place)
  BY DEF HeldAt, Risk
<1>. QED  BY <1>1 DEF Inv, TypeOK, Memory

(***************************************************************************)
(* The end of a process takes its connections with it, and leaves its      *)
(* file.                                                                   *)
(***************************************************************************)
LEMMA EndsInv ==
  ASSUME Inv, NEW a \in Apis, NEW how \in {"exited", "killed"}, Ends(a, how)
  PROVE  Inv'
<1>. USE DEF Inv, Ends, Goto, outside
<1>1. TypeOK'
  BY DEF TypeOK, Places
<1>2. Memory'
  <2>1. \A place : HeldAt(place)' = HeldAt(place)
    BY DEF HeldAt, Risk
  <2>2. HeldAt(how) = {}
    BY DEF HeldAt
  <2>. QED  BY <2>1, <2>2 DEF TypeOK, Memory
<1>3. LoopsUp'
  BY DEF TypeOK, LoopsUp
<1>4. ConnsUp'
  BY TargetAssumption DEF TypeOK, ConnsUp, With, Up
<1>5. FirstFile'
  BY DEF TypeOK, FirstFile, Made
<1>. QED  BY <1>1, <1>2, <1>3, <1>4, <1>5

LEMMA MainInv ==
  ASSUME Inv, NEW a \in Apis, Main(a)
  PROVE  Inv'
<1>1. CASE Load(a)
  <2>1. HeldAt("load") \union {"index"} = HeldAt("warm") /\ settings.index \in BOOLEAN
    BY DEF HeldAt, Inv, TypeOK, Settings
  <2>. QED  BY <1>1, <2>1, ReadsInv DEF Load
<1>2. CASE Warmup(a)
  <2>1. HeldAt("warm") \union {"warm"} = HeldAt("risk")
    BY DEF HeldAt
  <2>. QED  BY <1>2, <2>1, ReadsInv DEF Warmup
<1>3. CASE loadMccRisk(a)
  <2>1. HeldAt("risk") \union {Risk} = HeldAt("norm")
    BY DEF HeldAt
  <2>2. Risk \in {"risk", "no risk"} /\ Reads(a, "risk", settings.risk # "malformed", Risk, "norm")
    BY <1>3 DEF loadMccRisk, Risk
  <2>. QED  BY <2>1, <2>2, ReadsInv
<1>4. CASE loadNormalization(a)
  <2>. DEFINE next == IF settings.unix THEN "remove" ELSE "bind"
  <2>1. next \in {"remove", "bind"}
    OBVIOUS
  <2>2. HeldAt("norm") \union {"norm"} = HeldAt(next)
    BY <2>1 DEF HeldAt
  <2>3. settings.norm \in BOOLEAN /\ Reads(a, "norm", settings.norm, "norm", next)
    BY <1>4 DEF Inv, TypeOK, Settings, loadNormalization
  <2>. HIDE DEF next
  <2>. QED  BY <2>1, <2>2, <2>3, ReadsInv
<1>5. CASE Remove(a)
  <2>. USE <1>5 DEF Inv, Remove, Goto, outside
  <2>1. TypeOK'
    <3>1. main' \in [Apis -> Places]
      BY DEF TypeOK, Places
    <3>2. file' \in [Apis -> 0 .. MaxBoots]
      <4>1. 0 \in 0 .. MaxBoots
        BY ProcessAssumption
      <4>2. file' = [file EXCEPT ![a] = 0] \/ file' = file
        BY DEF TypeOK
      <4>. QED  BY <4>1, <4>2 DEF TypeOK
    <3>. QED  BY <3>1, <3>2 DEF TypeOK
  <2>2. Memory'
    BY MovesKeepMemory DEF HeldAt, Places
  <2>3. LoopsUp' /\ ConnsUp'
    BY TargetAssumption DEF TypeOK, LoopsUp, ConnsUp, Up
  <2>4. FirstFile'
    BY DEF TypeOK, FirstFile, Made
  <2>. QED  BY <2>1, <2>2, <2>3, <2>4
<1>6. CASE Bind(a)
  <2>. USE <1>6 DEF Inv, Bind, Fatal, Goto, outside
  <2>1. TypeOK'
    <3>1. main' \in [Apis -> Places]
      BY DEF TypeOK, Places
    <3>2. file' \in [Apis -> 0 .. MaxBoots]
      <4>1. boots[a] \in 0 .. MaxBoots
        <5>1. MaxBoots \in Nat /\ boots[a] \in Nat /\ 1 <= boots[a] /\ boots[a] <= MaxBoots
          BY Boots
        <5>. QED  BY SMT, <5>1
      <4>2. file' = [file EXCEPT ![a] = boots[a]] \/ file' = file
        OBVIOUS
      <4>. QED  BY <4>1, <4>2 DEF TypeOK
    <3>3. held' \in [Apis -> SUBSET {"index", "warm", "risk", "no risk", "norm"}]
      BY DEF TypeOK
    <3>. QED  BY <3>1, <3>2, <3>3 DEF TypeOK
  <2>2. Memory'
    <3>1. CASE settings.address /\ file[a] = 0
      BY <3>1, MovesKeepMemory DEF HeldAt, Places
    <3>2. CASE ~(settings.address /\ file[a] = 0)
      <4>1. \A place : HeldAt(place)' = HeldAt(place)
        BY DEF HeldAt, Risk
      <4>2. HeldAt("exited") = {}
        BY DEF HeldAt
      <4>. QED  BY <3>2, <4>1, <4>2 DEF TypeOK, Memory
    <3>. QED  BY <3>1, <3>2
  <2>3. LoopsUp' /\ ConnsUp'
    BY TargetAssumption DEF TypeOK, LoopsUp, ConnsUp, Up
  <2>4. FirstFile'
    <3>1. CASE settings.address /\ file[a] = 0
      <4>1. file' = [file EXCEPT ![a] = boots[a]] /\ main' = [main EXCEPT ![a] = "listen"]
            /\ UNCHANGED <<settings, boots, healthy, proxy>>
        BY <3>1
      <4>2. file'[a] = boots[a] /\ main'[a] = "listen"
        BY <4>1 DEF TypeOK
      <4>3. \A b \in Apis \ {a} : file'[b] = file[b] /\ main'[b] = main[b]
        BY <4>1 DEF TypeOK
      <4>. QED  BY <4>1, <4>2, <4>3 DEF FirstFile, Made
    <3>2. CASE ~(settings.address /\ file[a] = 0)
      BY <3>2 DEF TypeOK, FirstFile, Made
    <3>. QED  BY <3>1, <3>2
  <2>. QED  BY <2>1, <2>2, <2>3, <2>4
<1>7. CASE StartListening(a)
  <2>. USE <1>7 DEF Inv, StartListening, Goto, outside
  <2>1. TypeOK'
    BY DEF TypeOK, Places
  <2>2. Memory'
    BY MovesKeepMemory DEF HeldAt, Places
  <2>3. LoopsUp' /\ ConnsUp'
    BY TargetAssumption DEF TypeOK, LoopsUp, ConnsUp, Up
  <2>4. FirstFile'
    BY DEF TypeOK, FirstFile, Made
  <2>. QED  BY <2>1, <2>2, <2>3, <2>4
<1>8. CASE Chmod(a) \/ (ListenTCP(a) /\ settings.address)
  <2>0. StartLoop(a) /\ (main[a] = "chmod" \/ (main[a] = "bind" /\ ~settings.unix))
    BY <1>8 DEF Chmod, ListenTCP
  <2>. USE <2>0 DEF Inv, StartLoop, Goto, outside
  <2>1. TypeOK'
    BY DEF TypeOK, Places
  <2>2. Memory'
    BY MovesKeepMemory DEF HeldAt, Places
  <2>3. LoopsUp' /\ ConnsUp'
    BY TargetAssumption DEF TypeOK, LoopsUp, ConnsUp, Up
  <2>4. FirstFile'
    BY DEF TypeOK, FirstFile, Made
  <2>. QED  BY <2>1, <2>2, <2>3, <2>4
<1>9. CASE ListenTCP(a) /\ ~settings.address
  <2>. USE <1>9 DEF Inv, ListenTCP, Fatal, Goto, outside
  <2>1. TypeOK'
    BY DEF TypeOK, Places
  <2>2. Memory'
    <3>1. \A place : HeldAt(place)' = HeldAt(place)
      BY DEF HeldAt, Risk
    <3>2. HeldAt("exited") = {}
      BY DEF HeldAt
    <3>. QED  BY <3>1, <3>2 DEF TypeOK, Memory
  <2>3. LoopsUp' /\ ConnsUp'
    BY TargetAssumption DEF TypeOK, LoopsUp, ConnsUp, Up
  <2>4. FirstFile'
    BY DEF TypeOK, FirstFile, Made
  <2>. QED  BY <2>1, <2>2, <2>3, <2>4
<1>10. CASE ListenControl(a)
  <2>. USE <1>10 DEF Inv, ListenControl, Goto, outside
  <2>1. TypeOK'
    BY DEF TypeOK, Places
  <2>2. Memory'
    BY MovesKeepMemory DEF HeldAt, Places
  <2>3. LoopsUp' /\ ConnsUp'
    BY TargetAssumption DEF TypeOK, LoopsUp, ConnsUp, Up
  <2>4. FirstFile'
    BY DEF TypeOK, FirstFile, Made
  <2>. QED  BY <2>1, <2>2, <2>3, <2>4
<1>11. CASE AllAsleep(a)
  BY <1>11, EndsInv DEF AllAsleep
<1>. QED  BY <1>1, <1>2, <1>3, <1>4, <1>5, <1>6, <1>7, <1>8, <1>9, <1>10, <1>11 DEF Main

-----------------------------------------------------------------------------
LEMMA ConnStepInv ==
  ASSUME Inv, NEW c \in Conns, NEW where \in {"waiting", "served", "refused", "closed"},
         where \in {"waiting", "served"} => main[Target[c]] \in Up,
         Put(c, where)
  PROVE  Inv'
<1>. USE DEF Inv, Put, process, outside
<1>1. TypeOK'
  BY DEF TypeOK
<1>2. Memory' /\ LoopsUp'
  BY DEF Memory, LoopsUp, HeldAt, Risk
<1>3. ConnsUp'
  BY TargetAssumption DEF TypeOK, ConnsUp
<1>4. FirstFile'
  BY DEF FirstFile
<1>. QED  BY <1>1, <1>2, <1>3, <1>4

LEMMA NextInv == Inv /\ [Next]_vars => Inv'
<1>. SUFFICES ASSUME Inv, [Next]_vars PROVE Inv'
  OBVIOUS
<1>1. ASSUME NEW a \in Apis, Main(a) PROVE Inv'
  BY <1>1, MainInv
<1>2. ASSUME NEW a \in Apis, acceptLoop(a) PROVE Inv'
  <2>1. CASE AcceptFails(a)
    <3>. USE <2>1 DEF Inv, AcceptFails, outside
    <3>1. TypeOK'
      BY DEF TypeOK
    <3>2. Memory' /\ LoopsUp'
      BY DEF TypeOK, Memory, LoopsUp, HeldAt, Risk
    <3>3. ConnsUp' /\ FirstFile'
      BY DEF ConnsUp, FirstFile
    <3>. QED  BY <3>1, <3>2, <3>3
  <2>2. ASSUME NEW c \in Conns, Accept(c, a) PROVE Inv'
    <3>1. Put(c, "served") /\ Target[c] = a /\ main[a] \in Up
      BY <2>2 DEF Accept, With, Inv, LoopsUp
    <3>. QED  BY <3>1, ConnStepInv
  <2>. QED  BY <1>2, <2>1, <2>2 DEF acceptLoop
<1>3. ASSUME NEW a \in Apis, Kill(a) PROVE Inv'
  BY <1>3, EndsInv DEF Kill
<1>4. ASSUME NEW a \in Apis, Start(a) PROVE Inv'
  <2>. USE <1>4 DEF Inv, Start, Running, Goto
  <2>0. boots[a] \in Nat \ {0} /\ boots[a] + 1 \in 1 .. MaxBoots /\ boots[a] + 1 # 1
    <3>1. boots[a] < MaxBoots
      OBVIOUS
    <3>2. MaxBoots \in Nat /\ boots[a] \in Nat /\ 1 <= boots[a]
      BY Boots
    <3>. QED  BY SMT, <3>1, <3>2
  <2>1. TypeOK'
    <3>1. main' \in [Apis -> Places]
      BY DEF TypeOK, Places
    <3>2. boots' \in [Apis -> 1 .. MaxBoots]
      BY <2>0 DEF TypeOK
    <3>. QED  BY <3>1, <3>2 DEF TypeOK
  <2>2. Memory'
    <3>1. HeldAt("load") = HeldAt(main[a]) /\ "load" \in Places
      BY DEF HeldAt, TypeOK, Places
    <3>. QED  BY <3>1, MovesKeepMemory
  <2>3. LoopsUp' /\ ConnsUp'
    BY TargetAssumption DEF TypeOK, LoopsUp, ConnsUp, Up
  <2>4. FirstFile'
    <3>1. boots'[a] # 1
      BY <2>0 DEF TypeOK
    <3>. QED  BY <3>1 DEF TypeOK, FirstFile
  <2>. QED  BY <2>1, <2>2, <2>3, <2>4
<1>5. ASSUME NEW a \in Apis, HealthCheck(a) PROVE Inv'
  <2>. USE <1>5 DEF Inv, HealthCheck, process
  <2>1. TypeOK'
    BY DEF TypeOK
  <2>2. Memory' /\ LoopsUp' /\ ConnsUp'
    BY DEF Memory, LoopsUp, ConnsUp, HeldAt, Risk
  <2>3. FirstFile'
    BY DEF TypeOK, FirstFile
  <2>. QED  BY <2>1, <2>2, <2>3
<1>6. ASSUME NEW c \in Conns, Connect(c) \/ Pass(c) \/ End(c) PROVE Inv'
  <2>1. CASE Connect(c)
    BY <2>1, ConnStepInv DEF Connect, Reachable, Up
  <2>2. CASE Pass(c)
    <3>1. main[Target[c]] \in Up
      BY <2>2, TargetAssumption DEF Pass, Inv, LoopsUp
    <3>. QED  BY <2>2, <3>1, ConnStepInv DEF Pass
  <2>3. CASE End(c)
    BY <2>3, ConnStepInv DEF End
  <2>. QED  BY <1>6, <2>1, <2>2, <2>3
<1>7. CASE StartProxy
  <2>. USE <1>7 DEF Inv, StartProxy, process
  <2>1. TypeOK'
    BY DEF TypeOK
  <2>2. Memory' /\ LoopsUp' /\ ConnsUp'
    BY DEF Memory, LoopsUp, ConnsUp, HeldAt, Risk
  <2>3. FirstFile'
    BY DEF FirstFile
  <2>. QED  BY <2>1, <2>2, <2>3
<1>8. CASE UNCHANGED vars
  BY <1>8 DEF vars, Inv, TypeOK, Memory, HeldAt, Risk, LoopsUp, ConnsUp, FirstFile
<1>. QED  BY <1>1, <1>2, <1>3, <1>4, <1>5, <1>6, <1>7, <1>8 DEF Next

(***************************************************************************)
(* The invariant holds in every reachable state, and with it the types.    *)
(***************************************************************************)
LEMMA Invariant == Spec => []Inv
<1>1. Init => Inv
  BY InitInv
<1>2. Inv /\ [Next]_vars => Inv'
  BY NextInv
<1>. QED  BY <1>1, <1>2, PTL DEF Spec

(***************************************************************************)
(* Every reachable state is well typed; no process is started more than    *)
(* MaxBoots times.                                                         *)
(***************************************************************************)
THEOREM TypeCorrect == Spec => []TypeOK
<1>1. Inv => TypeOK
  BY DEF Inv
<1>. QED  BY <1>1, Invariant, PTL

(***************************************************************************)
(* Connections are taken by, and wait for, processes that have read all    *)
(* that a request needs, for any number of processes, connections and      *)
(* restarts.                                                               *)
(***************************************************************************)
THEOREM TakenReady == Spec => []TakenByReady
<1>1. Inv => TakenByReady
  <2>. SUFFICES ASSUME Inv, NEW a \in Apis, NEW c \in Conns,
                       Target[c] = a, conn[c] \in {"waiting", "served"}
                PROVE  held[a] = Ready
    BY DEF TakenByReady, With
  <2>1. main[a] \in Up
    BY DEF Inv, ConnsUp
  <2>2. held[a] = {"index", "warm", Risk, "norm"}
    BY <2>1 DEF Inv, Memory, HeldAt, Up
  <2>. QED  BY <2>2 DEF Ready, Risk
<1>. QED  BY <1>1, Invariant, PTL

(***************************************************************************)
(* As long as a process has been started once, a connection to its socket  *)
(* is refused only between the making of its file and Chmod, or when it    *)
(* has ended: the proxy was started because of that file.                  *)
(***************************************************************************)
THEOREM RefusalsHaveCause == Spec => RefusedForCause
<1>. DEFINE Refuses(c) ==
       conn'[c] = "refused" /\ conn[c] # "refused" /\ settings.unix
         => LET a == Target[c]
            IN  boots[a] > 1 \/ main[a] \in {"listen", "chmod"} \/ ~Running(a)
<1>1. Inv /\ [Next]_vars => [\A c \in Conns : Refuses(c)]_vars
  <2>. SUFFICES ASSUME Inv, Next, NEW c \in Conns,
                       conn'[c] = "refused", conn[c] # "refused", settings.unix
                PROVE  LET a == Target[c]
                       IN  boots[a] > 1 \/ main[a] \in {"listen", "chmod"} \/ ~Running(a)
    OBVIOUS
  <2>1. Connect(c)
    <3>1. ASSUME NEW a \in Apis, Main(a) \/ acceptLoop(a) \/ Kill(a) \/ Start(a) \/ HealthCheck(a)
          PROVE  FALSE
      <4>1. CASE Main(a)
        <5>1. UNCHANGED conn \/ AllAsleep(a)
          BY <4>1 DEF Main, Load, Warmup, loadMccRisk, loadNormalization, Reads, Remove,
                      Bind, StartListening, Chmod, ListenTCP, StartLoop, ListenControl
        <5>2. AllAsleep(a) => conn'[c] \in {conn[c], "closed"}
          BY DEF AllAsleep, Ends
        <5>. QED  BY <5>1, <5>2
      <4>2. CASE acceptLoop(a)
        BY <4>2 DEF Inv, TypeOK, acceptLoop, AcceptFails, Accept, Put
      <4>3. CASE Kill(a)
        <5>1. conn'[c] \in {conn[c], "closed"}
          BY <4>3 DEF Kill, Ends
        <5>. QED  BY <5>1
      <4>4. CASE Start(a) \/ HealthCheck(a)
        BY <4>4 DEF Start, HealthCheck
      <4>. QED  BY <3>1, <4>1, <4>2, <4>3, <4>4
    <3>2. ~StartProxy
      BY DEF StartProxy
    <3>3. PICK d \in Conns : Connect(d) \/ Pass(d) \/ End(d)
      BY <3>1, <3>2 DEF Next
    <3>4. d = c /\ ~Pass(c) /\ ~End(c)
      BY <3>3 DEF Inv, TypeOK, Connect, Pass, End, Put
    <3>. QED  BY <3>3, <3>4
  <2>. DEFINE a == Target[c]
  <2>2. a \in Apis /\ proxy /\ ~Reachable(a)
    BY <2>1, TargetAssumption DEF Inv, TypeOK, Connect, Put
  <2>3. SUFFICES ASSUME ~(boots[a] > 1) PROVE main[a] \in {"listen", "chmod"} \/ ~Running(a)
    OBVIOUS
  <2>4. boots[a] = 1
    <3>1. boots[a] \in Nat /\ 1 <= boots[a]
      BY <2>2, Boots DEF Inv
    <3>. QED  BY SMT, <2>3, <3>1
  <2>5. file[a] = 1 /\ main[a] \in Made
    BY <2>2, <2>4 DEF Inv, FirstFile
  <2>. QED  BY <2>2, <2>4, <2>5 DEF Made, Reachable, Running
<1>. QED  BY <1>1, Invariant, PTL DEF Spec, RefusedForCause
=============================================================================

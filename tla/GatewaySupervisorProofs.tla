----------------------- MODULE GatewaySupervisorProofs -----------------------
(***************************************************************************)
(* Proofs about the wrapper, for any number of launches: its types, that   *)
(* restarts neither pile up nor get lost, that only the current launch     *)
(* opens the proxy, and that a shutdown which finds no start under way     *)
(* leaves no launcher behind.                                              *)
(***************************************************************************)
EXTENDS GatewaySupervisor, TLAPS

\* The parts of TypeOK, for the provers.
FlagsOK ==
    /\ shuttingDown \in BOOLEAN /\ gatewayReady \in BOOLEAN
    /\ restartTimer \in BOOLEAN /\ listening \in BOOLEAN

NumbersOK ==
    /\ gatewayLaunchGeneration \in 0 .. MaxLaunch
    /\ gatewayProcess \in 0 .. MaxLaunch

LaunchOK ==
    launch \in [Launch -> {"none", "stopping", "probing", "waiting", "watching",
                          "napping", "served", "gaveup", "stale"}]

PlacesOK ==
    /\ recheck \in {"none", "probing", "waiting", "reachable"}
    /\ quit \in {"no", "closing", "awaiting", "stopping", "exited"}
    /\ launcher \in [Launch -> {"none", "running", "exited", "gone"}]

Typed == FlagsOK /\ NumbersOK /\ LaunchOK /\ PlacesOK

\* The handle names a child, and every child is the handle's.
HandleInv ==
    /\ \A g \in Launch : launcher[g] \in Underway <=> gatewayProcess = g
    /\ \A g \in Launch : g > gatewayLaunchGeneration =>
           launch[g] = "none" /\ launcher[g] = "none"
    /\ gatewayProcess # 0 => Current(gatewayProcess)

\* Who keeps the gateway is alone.
ChainInv ==
    /\ \A g \in Launch : launch[g] = "stopping" =>
           /\ Current(g) /\ launcher[g] = "none"
           /\ gatewayProcess = 0 /\ ~restartTimer /\ recheck = "none"
    /\ gatewayProcess # 0 => ~restartTimer /\ recheck = "none"
    /\ restartTimer => recheck = "none" /\ ~shuttingDown
    /\ shuttingDown <=> quit # "no"
    /\ gatewayLaunchGeneration = 0 => ~restartTimer /\ recheck = "none"

\* There is one, until the shutdown or the hand-over.
KeptInv ==
    ~shuttingDown /\ gatewayLaunchGeneration > 0 /\ ~HandedOver =>
        \/ Starting \/ gatewayProcess # 0 \/ restartTimer
        \/ recheck \in {"probing", "waiting"}

\* The bound is not in the way: the last launch is not replaced.
BoundInv ==
    ~shuttingDown /\ gatewayLaunchGeneration = MaxLaunch =>
        /\ ~restartTimer /\ recheck \notin {"probing", "waiting"}
        /\ launcher[MaxLaunch] # "exited"

IInv == Typed /\ HandleInv /\ ChainInv /\ KeptInv /\ BoundInv /\ ReadyIsCurrent

-----------------------------------------------------------------------------
LEMMA InitInv == Init => IInv
<1> SUFFICES ASSUME Init PROVE IInv
  OBVIOUS
<1> USE LaunchAssumption DEF Init, Launch
<1>1. Typed
  <2>1. FlagsOK BY DEF FlagsOK
  <2>2. NumbersOK /\ LaunchOK BY DEF NumbersOK, LaunchOK
  <2>3. PlacesOK BY DEF PlacesOK
  <2> QED BY <2>1, <2>2, <2>3 DEF Typed
<1>2. HandleInv /\ ChainInv BY DEF HandleInv, ChainInv, Underway
<1>3. KeptInv /\ BoundInv BY DEF KeptInv, BoundInv
<1>4. ReadyIsCurrent BY DEF ReadyIsCurrent
<1> QED BY <1>1, <1>2, <1>3, <1>4 DEF IInv

LEMMA BootInv == IInv /\ Boot => IInv'
<1> SUFFICES ASSUME IInv, Boot PROVE IInv'
  OBVIOUS
<1> USE LaunchAssumption DEF IInv, Launch, Current, Underway, Boot, Begin
<1>1. Typed'
  <2>1. FlagsOK' BY DEF Typed, FlagsOK
  <2>2. NumbersOK' BY DEF Typed, NumbersOK, HandleInv, ChainInv, BoundInv
  <2>3. LaunchOK' BY DEF Typed, LaunchOK
  <2>4. PlacesOK' BY DEF Typed, PlacesOK
  <2> QED BY <2>1, <2>2, <2>3, <2>4 DEF Typed
<1>2. HandleInv' BY DEF Typed, NumbersOK, LaunchOK, PlacesOK, HandleInv, ChainInv
<1>3. ChainInv' BY DEF Typed, NumbersOK, LaunchOK, PlacesOK, HandleInv, ChainInv
<1>4. KeptInv'
  BY DEF Typed, NumbersOK, LaunchOK, PlacesOK, HandleInv, ChainInv, KeptInv, Starting, HandedOver
<1>5. BoundInv' BY DEF Typed, NumbersOK, LaunchOK, PlacesOK, HandleInv, ChainInv, BoundInv
<1>6. ReadyIsCurrent'
  BY DEF Typed, NumbersOK, LaunchOK, PlacesOK, HandleInv, ChainInv, ReadyIsCurrent, HandedOver
<1> QED BY <1>1, <1>2, <1>3, <1>4, <1>5, <1>6

LEMMA SpawnInv == ASSUME NEW g \in Launch PROVE IInv /\ Spawn(g) => IInv'
<1> SUFFICES ASSUME IInv, Spawn(g) PROVE IInv'
  OBVIOUS
<1> USE LaunchAssumption DEF IInv, Launch, Current, Underway, Spawn, StopGateway
<1>1. Typed'
  <2>1. FlagsOK' BY DEF Typed, FlagsOK
  <2>2. NumbersOK' BY DEF Typed, NumbersOK, HandleInv, ChainInv, BoundInv
  <2>3. LaunchOK' BY DEF Typed, LaunchOK
  <2>4. PlacesOK' BY DEF Typed, PlacesOK
  <2> QED BY <2>1, <2>2, <2>3, <2>4 DEF Typed
<1>2. HandleInv' BY DEF Typed, NumbersOK, LaunchOK, PlacesOK, HandleInv, ChainInv
<1>3. ChainInv' BY DEF Typed, NumbersOK, LaunchOK, PlacesOK, HandleInv, ChainInv
<1>4. KeptInv'
  BY DEF Typed, NumbersOK, LaunchOK, PlacesOK, HandleInv, ChainInv, KeptInv, Starting, HandedOver
<1>5. BoundInv' BY DEF Typed, NumbersOK, LaunchOK, PlacesOK, HandleInv, ChainInv, BoundInv
<1>6. ReadyIsCurrent'
  BY DEF Typed, NumbersOK, LaunchOK, PlacesOK, HandleInv, ChainInv, ReadyIsCurrent, HandedOver
<1> QED BY <1>1, <1>2, <1>3, <1>4, <1>5, <1>6

\* A probe's step moves one launch on, and opens the proxy for the current one only.
LEMMA ProbeStep ==
  ASSUME NEW g \in Launch, LaunchOK, Probe(g)
  PROVE  /\ UNCHANGED <<shuttingDown, restartTimer, gatewayLaunchGeneration, gatewayProcess,
                        recheck, quit, launcher, listening>>
         /\ launch[g] \in {"probing", "waiting", "watching", "napping"}
         /\ \E p \in {"waiting", "watching", "napping", "served", "gaveup", "stale"} :
                /\ launch' = [launch EXCEPT ![g] = p]
                /\ \/ gatewayReady' = gatewayReady
                   \/ gatewayReady' = FALSE
                   \/ gatewayReady' = TRUE /\ p = "served" /\ Current(g)
<1>1. CASE Misses(g) BY <1>1 DEF Misses, Leave
<1>2. CASE Connects(g) BY <1>2 DEF Connects, Leave
<1>3. CASE TimesOut(g) BY <1>3 DEF TimesOut, Leave
<1>4. CASE WatchConnects(g) BY <1>4 DEF WatchConnects, Watched, Leave
<1>5. CASE WatchTimesOut(g) BY <1>5 DEF WatchTimesOut, Watched, Leave
<1> QED BY <1>1, <1>2, <1>3, <1>4, <1>5 DEF Probe

LEMMA ProbeInv == ASSUME NEW g \in Launch PROVE IInv /\ Probe(g) => IInv'
<1> SUFFICES ASSUME IInv, Probe(g) PROVE IInv'
  OBVIOUS
<1> USE LaunchAssumption DEF IInv, Launch, Current, Underway
<1>0. /\ UNCHANGED <<shuttingDown, restartTimer, gatewayLaunchGeneration, gatewayProcess,
                     recheck, quit, launcher, listening>>
      /\ launch[g] \in {"probing", "waiting", "watching", "napping"}
  BY ProbeStep DEF Typed
<1> PICK p \in {"waiting", "watching", "napping", "served", "gaveup", "stale"} :
        /\ launch' = [launch EXCEPT ![g] = p]
        /\ \/ gatewayReady' = gatewayReady
           \/ gatewayReady' = FALSE
           \/ gatewayReady' = TRUE /\ p = "served" /\ Current(g)
  BY ProbeStep DEF Typed
<1>1. Typed'
  <2>1. FlagsOK' BY <1>0 DEF Typed, FlagsOK
  <2>2. NumbersOK' /\ PlacesOK' BY <1>0 DEF Typed, NumbersOK, PlacesOK
  <2>3. LaunchOK' BY DEF Typed, LaunchOK
  <2> QED BY <2>1, <2>2, <2>3 DEF Typed
<1>2. (HandleInv /\ ChainInv)'
  BY <1>0 DEF Typed, NumbersOK, LaunchOK, PlacesOK, HandleInv, ChainInv
<1>3. (KeptInv /\ BoundInv)'
  BY <1>0 DEF Typed, NumbersOK, LaunchOK, KeptInv, BoundInv, Starting, HandedOver
<1>4. ReadyIsCurrent'
  BY <1>0 DEF Typed, NumbersOK, LaunchOK, ReadyIsCurrent, HandedOver
<1> QED BY <1>1, <1>2, <1>3, <1>4

LEMMA ExitEventInv == ASSUME NEW g \in Launch PROVE IInv /\ ExitEvent(g) => IInv'
<1> SUFFICES ASSUME IInv, ExitEvent(g) PROVE IInv'
  OBVIOUS
<1> USE LaunchAssumption DEF IInv, Launch, Current, Underway, ExitEvent
<1>1. Typed'
  <2>1. FlagsOK' BY DEF Typed, FlagsOK
  <2>2. NumbersOK' BY DEF Typed, NumbersOK, HandleInv, ChainInv, BoundInv
  <2>3. LaunchOK' BY DEF Typed, LaunchOK
  <2>4. PlacesOK' BY DEF Typed, PlacesOK
  <2> QED BY <2>1, <2>2, <2>3, <2>4 DEF Typed
<1>2. HandleInv' BY DEF Typed, NumbersOK, LaunchOK, PlacesOK, HandleInv, ChainInv
<1>3. ChainInv' BY DEF Typed, NumbersOK, LaunchOK, PlacesOK, HandleInv, ChainInv
<1>4. KeptInv'
  BY DEF Typed, NumbersOK, LaunchOK, PlacesOK, HandleInv, ChainInv, KeptInv, Starting, HandedOver
<1>5. BoundInv' BY DEF Typed, NumbersOK, LaunchOK, PlacesOK, HandleInv, ChainInv, BoundInv
<1>6. ReadyIsCurrent'
  BY DEF Typed, NumbersOK, LaunchOK, PlacesOK, HandleInv, ChainInv, ReadyIsCurrent, HandedOver
<1> QED BY <1>1, <1>2, <1>3, <1>4, <1>5, <1>6

LEMMA TimerInv == IInv /\ TimerFires => IInv'
<1> SUFFICES ASSUME IInv, TimerFires PROVE IInv'
  OBVIOUS
<1> USE LaunchAssumption DEF IInv, Launch, Current, Underway, TimerFires
<1>1. Typed'
  <2>1. FlagsOK' BY DEF Typed, FlagsOK
  <2>2. NumbersOK' BY DEF Typed, NumbersOK, HandleInv, ChainInv, BoundInv
  <2>3. LaunchOK' BY DEF Typed, LaunchOK
  <2>4. PlacesOK' BY DEF Typed, PlacesOK
  <2> QED BY <2>1, <2>2, <2>3, <2>4 DEF Typed
<1>2. HandleInv' BY DEF Typed, NumbersOK, LaunchOK, PlacesOK, HandleInv, ChainInv
<1>3. ChainInv' BY DEF Typed, NumbersOK, LaunchOK, PlacesOK, HandleInv, ChainInv
<1>4. KeptInv'
  BY DEF Typed, NumbersOK, LaunchOK, PlacesOK, HandleInv, ChainInv, KeptInv, Starting, HandedOver
<1>5. BoundInv' BY DEF Typed, NumbersOK, LaunchOK, PlacesOK, HandleInv, ChainInv, BoundInv
<1>6. ReadyIsCurrent'
  BY DEF Typed, NumbersOK, LaunchOK, PlacesOK, HandleInv, ChainInv, ReadyIsCurrent, HandedOver
<1> QED BY <1>1, <1>2, <1>3, <1>4, <1>5, <1>6

LEMMA RecheckMissInv == IInv /\ RecheckMisses => IInv'
<1> SUFFICES ASSUME IInv, RecheckMisses PROVE IInv'
  OBVIOUS
<1> USE LaunchAssumption DEF IInv, Launch, Current, Underway, RecheckMisses
<1>1. Typed'
  <2>1. FlagsOK' BY DEF Typed, FlagsOK
  <2>2. NumbersOK' BY DEF Typed, NumbersOK, HandleInv, ChainInv, BoundInv
  <2>3. LaunchOK' BY DEF Typed, LaunchOK
  <2>4. PlacesOK' BY DEF Typed, PlacesOK
  <2> QED BY <2>1, <2>2, <2>3, <2>4 DEF Typed
<1>2. HandleInv' BY DEF Typed, NumbersOK, LaunchOK, PlacesOK, HandleInv, ChainInv
<1>3. ChainInv' BY DEF Typed, NumbersOK, LaunchOK, PlacesOK, HandleInv, ChainInv
<1>4. KeptInv'
  BY DEF Typed, NumbersOK, LaunchOK, PlacesOK, HandleInv, ChainInv, KeptInv, Starting, HandedOver
<1>5. BoundInv' BY DEF Typed, NumbersOK, LaunchOK, PlacesOK, HandleInv, ChainInv, BoundInv
<1>6. ReadyIsCurrent'
  BY DEF Typed, NumbersOK, LaunchOK, PlacesOK, HandleInv, ChainInv, ReadyIsCurrent, HandedOver
<1> QED BY <1>1, <1>2, <1>3, <1>4, <1>5, <1>6

LEMMA RecheckConnectInv == IInv /\ RecheckConnects => IInv'
<1> SUFFICES ASSUME IInv, RecheckConnects PROVE IInv'
  OBVIOUS
<1> USE LaunchAssumption DEF IInv, Launch, Current, Underway, RecheckConnects
<1>1. Typed'
  <2>1. FlagsOK' BY DEF Typed, FlagsOK
  <2>2. NumbersOK' BY DEF Typed, NumbersOK, HandleInv, ChainInv, BoundInv
  <2>3. LaunchOK' BY DEF Typed, LaunchOK
  <2>4. PlacesOK' BY DEF Typed, PlacesOK
  <2> QED BY <2>1, <2>2, <2>3, <2>4 DEF Typed
<1>2. HandleInv' BY DEF Typed, NumbersOK, LaunchOK, PlacesOK, HandleInv, ChainInv
<1>3. ChainInv' BY DEF Typed, NumbersOK, LaunchOK, PlacesOK, HandleInv, ChainInv
<1>4. KeptInv'
  BY DEF Typed, NumbersOK, LaunchOK, PlacesOK, HandleInv, ChainInv, KeptInv, Starting, HandedOver
<1>5. BoundInv' BY DEF Typed, NumbersOK, LaunchOK, PlacesOK, HandleInv, ChainInv, BoundInv
<1>6. ReadyIsCurrent'
  BY DEF Typed, NumbersOK, LaunchOK, PlacesOK, HandleInv, ChainInv, ReadyIsCurrent, HandedOver
<1> QED BY <1>1, <1>2, <1>3, <1>4, <1>5, <1>6

LEMMA RecheckTimeoutInv == IInv /\ RecheckTimesOut => IInv'
<1> SUFFICES ASSUME IInv, RecheckTimesOut PROVE IInv'
  OBVIOUS
<1> USE LaunchAssumption DEF IInv, Launch, Current, Underway, RecheckTimesOut, Begin, Skip
<1>1. Typed'
  <2>1. FlagsOK' BY DEF Typed, FlagsOK
  <2>2. NumbersOK' BY DEF Typed, NumbersOK, HandleInv, ChainInv, BoundInv
  <2>3. LaunchOK' BY DEF Typed, LaunchOK
  <2>4. PlacesOK' BY DEF Typed, PlacesOK
  <2> QED BY <2>1, <2>2, <2>3, <2>4 DEF Typed
<1>2. HandleInv' BY DEF Typed, NumbersOK, LaunchOK, PlacesOK, HandleInv, ChainInv
<1>3. ChainInv' BY DEF Typed, NumbersOK, LaunchOK, PlacesOK, HandleInv, ChainInv
<1>4. KeptInv'
  BY DEF Typed, NumbersOK, LaunchOK, PlacesOK, HandleInv, ChainInv, KeptInv, BoundInv,
         Starting, HandedOver
<1>5. BoundInv' BY DEF Typed, NumbersOK, LaunchOK, PlacesOK, HandleInv, ChainInv, BoundInv
<1>6. ReadyIsCurrent'
  BY DEF Typed, NumbersOK, LaunchOK, PlacesOK, HandleInv, ChainInv, ReadyIsCurrent, HandedOver
<1> QED BY <1>1, <1>2, <1>3, <1>4, <1>5, <1>6

LEMMA ShutdownInv == IInv /\ Shutdown => IInv'
<1> SUFFICES ASSUME IInv, Shutdown PROVE IInv'
  OBVIOUS
<1> USE LaunchAssumption DEF IInv, Launch, Current, Underway, Shutdown
<1>1. Typed'
  <2>1. FlagsOK' BY DEF Typed, FlagsOK
  <2>2. NumbersOK' BY DEF Typed, NumbersOK, HandleInv, ChainInv, BoundInv
  <2>3. LaunchOK' BY DEF Typed, LaunchOK
  <2>4. PlacesOK' BY DEF Typed, PlacesOK
  <2> QED BY <2>1, <2>2, <2>3, <2>4 DEF Typed
<1>2. HandleInv' BY DEF Typed, NumbersOK, LaunchOK, PlacesOK, HandleInv, ChainInv
<1>3. ChainInv' BY DEF Typed, NumbersOK, LaunchOK, PlacesOK, HandleInv, ChainInv
<1>4. KeptInv'
  BY DEF Typed, NumbersOK, LaunchOK, PlacesOK, HandleInv, ChainInv, KeptInv, Starting, HandedOver
<1>5. BoundInv' BY DEF Typed, NumbersOK, LaunchOK, PlacesOK, HandleInv, ChainInv, BoundInv
<1>6. ReadyIsCurrent'
  BY DEF Typed, NumbersOK, LaunchOK, PlacesOK, HandleInv, ChainInv, ReadyIsCurrent, HandedOver
<1> QED BY <1>1, <1>2, <1>3, <1>4, <1>5, <1>6

LEMMA ClosedInv == IInv /\ (ServerClosed \/ Exit) => IInv'
<1> SUFFICES ASSUME IInv, ServerClosed \/ Exit PROVE IInv'
  OBVIOUS
<1> USE LaunchAssumption DEF IInv, Launch, Current, Underway, ServerClosed, Exit, StopGateway
<1>1. Typed'
  <2>1. FlagsOK' BY DEF Typed, FlagsOK
  <2>2. NumbersOK' BY DEF Typed, NumbersOK, HandleInv, ChainInv, BoundInv
  <2>3. LaunchOK' BY DEF Typed, LaunchOK
  <2>4. PlacesOK' BY DEF Typed, PlacesOK
  <2> QED BY <2>1, <2>2, <2>3, <2>4 DEF Typed
<1>2. HandleInv' BY DEF Typed, NumbersOK, LaunchOK, PlacesOK, HandleInv, ChainInv
<1>3. ChainInv'
  <2>1. CASE ServerClosed BY <2>1 DEF Typed, LaunchOK, PlacesOK, ChainInv
  <2>2. CASE Exit BY <2>2 DEF Typed, LaunchOK, PlacesOK, ChainInv
  <2> QED BY <2>1, <2>2
<1>4. KeptInv'
  BY DEF Typed, NumbersOK, LaunchOK, PlacesOK, HandleInv, ChainInv, KeptInv, Starting, HandedOver
<1>5. BoundInv' BY DEF Typed, NumbersOK, LaunchOK, PlacesOK, HandleInv, ChainInv, BoundInv
<1>6. ReadyIsCurrent'
  BY DEF Typed, NumbersOK, LaunchOK, PlacesOK, HandleInv, ChainInv, ReadyIsCurrent, HandedOver
<1> QED BY <1>1, <1>2, <1>3, <1>4, <1>5, <1>6

LEMMA LauncherExitsInv == ASSUME NEW g \in Launch PROVE IInv /\ LauncherExits(g) => IInv'
<1> SUFFICES ASSUME IInv, LauncherExits(g) PROVE IInv'
  OBVIOUS
<1> USE LaunchAssumption DEF IInv, Launch, Current, Underway, LauncherExits, wrapper
<1>1. Typed'
  <2>1. FlagsOK' BY DEF Typed, FlagsOK
  <2>2. NumbersOK' BY DEF Typed, NumbersOK, HandleInv, ChainInv, BoundInv
  <2>3. LaunchOK' BY DEF Typed, LaunchOK
  <2>4. PlacesOK' BY DEF Typed, PlacesOK
  <2> QED BY <2>1, <2>2, <2>3, <2>4 DEF Typed
<1>2. HandleInv' BY DEF Typed, NumbersOK, LaunchOK, PlacesOK, HandleInv, ChainInv
<1>3. ChainInv' BY DEF Typed, NumbersOK, LaunchOK, PlacesOK, HandleInv, ChainInv
<1>4. KeptInv'
  BY DEF Typed, NumbersOK, LaunchOK, PlacesOK, HandleInv, ChainInv, KeptInv, Starting, HandedOver
<1>5. BoundInv' BY DEF Typed, NumbersOK, LaunchOK, PlacesOK, HandleInv, ChainInv, BoundInv
<1>6. ReadyIsCurrent'
  BY DEF Typed, NumbersOK, LaunchOK, PlacesOK, HandleInv, ChainInv, ReadyIsCurrent, HandedOver
<1> QED BY <1>1, <1>2, <1>3, <1>4, <1>5, <1>6

LEMMA PortInv == IInv /\ (Listens \/ Vanishes) => IInv'
<1> SUFFICES ASSUME IInv, Listens \/ Vanishes PROVE IInv'
  OBVIOUS
<1> USE LaunchAssumption DEF IInv, Launch, Current, Underway, Listens, Vanishes, wrapper
<1>1. Typed'
  <2>1. FlagsOK' BY DEF Typed, FlagsOK
  <2>2. NumbersOK' BY DEF Typed, NumbersOK, HandleInv, ChainInv, BoundInv
  <2>3. LaunchOK' BY DEF Typed, LaunchOK
  <2>4. PlacesOK' BY DEF Typed, PlacesOK
  <2> QED BY <2>1, <2>2, <2>3, <2>4 DEF Typed
<1>2. HandleInv' BY DEF Typed, NumbersOK, LaunchOK, PlacesOK, HandleInv, ChainInv
<1>3. ChainInv' BY DEF Typed, NumbersOK, LaunchOK, PlacesOK, HandleInv, ChainInv
<1>4. KeptInv'
  BY DEF Typed, NumbersOK, LaunchOK, PlacesOK, HandleInv, ChainInv, KeptInv, Starting, HandedOver
<1>5. BoundInv' BY DEF Typed, NumbersOK, LaunchOK, PlacesOK, HandleInv, ChainInv, BoundInv
<1>6. ReadyIsCurrent'
  BY DEF Typed, NumbersOK, LaunchOK, PlacesOK, HandleInv, ChainInv, ReadyIsCurrent, HandedOver
<1> QED BY <1>1, <1>2, <1>3, <1>4, <1>5, <1>6

LEMMA StutterInv == IInv /\ UNCHANGED vars => IInv'
  BY DEF IInv, Typed, FlagsOK, NumbersOK, LaunchOK, PlacesOK, HandleInv, ChainInv, KeptInv,
         BoundInv, ReadyIsCurrent, Launch, Current, Underway, Starting, HandedOver, vars, wrapper

THEOREM Inductive == Spec => []IInv
<1>1. IInv /\ [Next]_vars => IInv'
  BY BootInv, SpawnInv, ProbeInv, ExitEventInv, TimerInv, RecheckMissInv,
     RecheckConnectInv, RecheckTimeoutInv, ShutdownInv, ClosedInv, LauncherExitsInv,
     PortInv, StutterInv
     DEF Next, Wrapper, Openclaw, Recheck, Ended
<1> QED BY InitInv, <1>1, PTL DEF Spec

-----------------------------------------------------------------------------
\* Every reachable state of the wrapper is well typed; in particular the bound on
\* launches never keeps a child that has exited from being replaced.
THEOREM TypeCorrect == Spec => []TypeOK
<1>1. IInv => TypeOK
  BY DEF IInv, Typed, FlagsOK, NumbersOK, LaunchOK, PlacesOK, TypeOK
<1> QED BY Inductive, <1>1, PTL

\* The one launcher is the handle's, and until shutdown or hand-over exactly one
\* of a start, a launcher, a timer and a recheck will keep the gateway running.
THEOREM KeptByOne == Spec => []OneKeeper
<1>1. IInv => OneKeeper
  BY DEF IInv, HandleInv, ChainInv, KeptInv, OneKeeper, Keepers, Starting, HandedOver
<1> QED BY Inductive, <1>1, PTL

\* No late answer to an older launch's probe opens the proxy.
THEOREM OpenedByCurrent == Spec => []ReadyIsCurrent
  BY Inductive, PTL DEF IInv

-----------------------------------------------------------------------------
\* A shutdown on its way to a clean end: the server closes with no start under
\* way, the child's exit is awaited, or there is none.
Clean ==
    /\ quit # "no" /\ ~Starting
    /\ quit \in {"stopping", "exited"} => gatewayProcess = 0

LEMMA CleanStays == IInv /\ Clean /\ [Next]_vars => Clean'
<1> SUFFICES ASSUME IInv, Clean, [Next]_vars PROVE Clean'
  OBVIOUS
<1>0. shuttingDown BY DEF IInv, ChainInv, Clean
<1> USE DEF Clean, Starting
<1>1. ASSUME NEW g \in Launch, Probe(g) PROVE Clean'
  BY <1>1 DEF Probe, Misses, Connects, TimesOut, WatchConnects, WatchTimesOut, Leave,
         IInv, Typed, LaunchOK, PlacesOK
<1>2. ASSUME NEW g \in Launch, ExitEvent(g) PROVE Clean'
  BY <1>2 DEF ExitEvent
<1>3. CASE Recheck \/ TimerFires
  BY <1>0, <1>3 DEF Recheck, RecheckMisses, RecheckConnects, RecheckTimesOut, TimerFires,
         Begin, Skip
<1>4. CASE ServerClosed \/ Exit
  BY <1>4 DEF ServerClosed, Exit
<1>5. CASE Boot \/ Shutdown \/ \E g \in Launch : Spawn(g)
  BY <1>0, <1>5 DEF Boot, Begin, Shutdown, Spawn
<1>6. CASE Openclaw \/ UNCHANGED vars
  BY <1>6 DEF Openclaw, LauncherExits, Listens, Vanishes, wrapper, vars
<1> QED BY <1>1, <1>2, <1>3, <1>4, <1>5, <1>6 DEF Next, Wrapper, Ended

\* However exits, timers and probes interleave with it, a shutdown that sees no
\* start under way while its server closes leaves no launcher behind.
THEOREM ShutsDownClean == Spec => CleanShutdown
<1>1. IInv /\ quit = "closing" /\ ~Starting => Clean
  BY DEF Clean
<1>2. IInv /\ Clean => (quit = "exited" => ~Runs)
  BY LaunchAssumption DEF IInv, HandleInv, Clean, Runs, Underway, Launch
<1> QED BY Inductive, CleanStays, <1>1, <1>2, PTL DEF Spec, CleanShutdown
=============================================================================

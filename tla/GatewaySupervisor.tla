------------------------- MODULE GatewaySupervisor -------------------------
(***************************************************************************)
(* The wrapper of lexie-new/server.js that keeps an OpenClaw gateway       *)
(* running behind its proxy: it spawns a launcher, probes the port, opens  *)
(* the proxy, replaces a launcher that exits and, on a signal, stops it    *)
(* all.  One action is one callback of the event loop: what runs between   *)
(* two awaits.                                                             *)
(*                                                                         *)
(* A probe connects every 500 ms until its time is over.  It is "probing"  *)
(* before its first attempt has failed and "waiting" afterwards, when it   *)
(* may still connect or may find its time over.  A launch that went slowly *)
(* is "watching" and "napping" in the second, longer probe.                *)
(*                                                                         *)
(* The launcher, the gateway behind it and their order of dying belong to  *)
(* openclaw.  A gateway may outlive its launcher, and one that is too busy *)
(* to accept a connection counts as not listening.                         *)
(***************************************************************************)
EXTENDS Naturals

CONSTANT MaxLaunch   \* bound: launches of one wrapper

ASSUME LaunchAssumption == MaxLaunch \in Nat \ {0}

Launch == 1 .. MaxLaunch

VARIABLES
    shuttingDown, gatewayReady, restartTimer, gatewayLaunchGeneration,
    gatewayProcess,  \* the launch whose child the wrapper holds, 0 for null
    launch,          \* where the startGateway of a launch is
    recheck,         \* the probe of the restart timer's callback
    quit,            \* where shutdown() is
    launcher,        \* the child of a launch, as the operating system knows it
    listening        \* somebody accepts connections on the gateway's port

wrapper == <<shuttingDown, gatewayReady, restartTimer, gatewayLaunchGeneration,
             gatewayProcess, launch, recheck, quit>>
vars == <<wrapper, launcher, listening>>

Current(g) == g = gatewayLaunchGeneration
Underway == {"running", "exited"}

TypeOK ==
    /\ shuttingDown \in BOOLEAN /\ gatewayReady \in BOOLEAN
    /\ restartTimer \in BOOLEAN /\ listening \in BOOLEAN
    /\ gatewayLaunchGeneration \in 0 .. MaxLaunch
    /\ gatewayProcess \in 0 .. MaxLaunch
    /\ launch \in [Launch -> {"none", "stopping", "probing", "waiting", "watching",
                              "napping", "served", "gaveup", "stale"}]
    /\ recheck \in {"none", "probing", "waiting", "reachable"}
    /\ quit \in {"no", "closing", "awaiting", "stopping", "exited"}
    /\ launcher \in [Launch -> {"none", "running", "exited", "gone"}]

\* The port may still be held by a gateway of an earlier wrapper.
Init ==
    /\ shuttingDown = FALSE /\ gatewayReady = FALSE /\ restartTimer = FALSE
    /\ gatewayLaunchGeneration = 0 /\ gatewayProcess = 0
    /\ launch = [g \in Launch |-> "none"]
    /\ recheck = "none" /\ quit = "no"
    /\ launcher = [g \in Launch |-> "none"]
    /\ listening \in BOOLEAN

-----------------------------------------------------------------------------
(* startGateway                                                            *)

\* `openclaw gateway stop` ends whoever listens, or fails; both are tolerated.
StopGateway == listening' \in {listening, FALSE}

Begin_InShutdown ==
    /\ gatewayProcess = 0
    /\ gatewayLaunchGeneration' = gatewayLaunchGeneration + 1
    /\ launch' = [launch EXCEPT ![gatewayLaunchGeneration + 1] = "stopping"]

\* Up to the first await.
Begin ==
    /\ ~shuttingDown /\ gatewayProcess = 0
    /\ gatewayLaunchGeneration' = gatewayLaunchGeneration + 1
    /\ launch' = [launch EXCEPT ![gatewayLaunchGeneration + 1] = "stopping"]

Skip ==
    /\ shuttingDown \/ gatewayProcess # 0
    /\ UNCHANGED <<gatewayLaunchGeneration, launch>>

\* The server listens.
Boot ==
    /\ gatewayLaunchGeneration = 0
    /\ Begin
    /\ gatewayReady' = FALSE
    /\ UNCHANGED <<shuttingDown, restartTimer, gatewayProcess, recheck, quit, launcher, listening>>

\* The stop is over.  Nothing is checked again before the spawn.
Spawn(g) ==
    /\ launch[g] = "stopping"
    /\ StopGateway
    /\ launch' = [launch EXCEPT ![g] = "probing"]
    /\ gatewayProcess' = g
    /\ launcher' = [launcher EXCEPT ![g] = "running"]
    /\ UNCHANGED <<shuttingDown, gatewayReady, restartTimer, gatewayLaunchGeneration,
                   recheck, quit>>

Leave(g, place) ==
    /\ launch' = [launch EXCEPT ![g] = place]
    /\ UNCHANGED <<shuttingDown, restartTimer, gatewayLaunchGeneration, gatewayProcess,
                   recheck, quit, launcher, listening>>

Misses(g) ==
    /\ ~listening
    /\ \/ launch[g] = "probing" /\ Leave(g, "waiting")
       \/ launch[g] = "watching" /\ Leave(g, "napping")
    /\ UNCHANGED gatewayReady

Connects_AnyLaunch(g) ==
    /\ launch[g] \in {"probing", "waiting"} /\ listening
    /\ Leave(g, "served") /\ gatewayReady' = TRUE

\* A probe's result counts if no later launch has begun.
Connects(g) ==
    /\ launch[g] \in {"probing", "waiting"} /\ listening
    /\ \/ Current(g) /\ Leave(g, "served") /\ gatewayReady' = TRUE
       \/ ~Current(g) /\ Leave(g, "stale") /\ UNCHANGED gatewayReady

TimesOut_Unwatched(g) ==
    /\ launch[g] = "waiting"
    /\ Leave(g, "stale")
    /\ gatewayReady' = (gatewayReady /\ ~Current(g))

TimesOut(g) ==
    /\ launch[g] = "waiting"
    /\ \/ Current(g) /\ Leave(g, "watching") /\ gatewayReady' = FALSE
       \/ ~Current(g) /\ Leave(g, "stale") /\ UNCHANGED gatewayReady

\* continueGatewayReadinessMonitoring: its result needs the launch's child as well.
Watched(g) == ~shuttingDown /\ Current(g) /\ gatewayProcess # 0

WatchConnects(g) ==
    /\ launch[g] \in {"watching", "napping"} /\ listening
    /\ \/ Watched(g) /\ Leave(g, "served") /\ gatewayReady' = TRUE
       \/ ~Watched(g) /\ Leave(g, "stale") /\ UNCHANGED gatewayReady

WatchTimesOut_Restarts(g) ==
    /\ launch[g] = "napping" /\ Watched(g)
    /\ gatewayLaunchGeneration' = g + 1
    /\ launch' = [launch EXCEPT ![g] = "gaveup", ![g + 1] = "stopping"]
    /\ gatewayReady' = FALSE
    /\ UNCHANGED <<shuttingDown, restartTimer, gatewayProcess, recheck, quit, launcher,
                   listening>>

WatchTimesOut(g) ==
    /\ launch[g] = "napping"
    /\ \/ Watched(g) /\ Leave(g, "gaveup")
       \/ ~Watched(g) /\ Leave(g, "stale")
    /\ UNCHANGED gatewayReady

-----------------------------------------------------------------------------
(* The child's exit, and what the wrapper makes of it                      *)

ExitEvent_BeforeReady(g) ==
    /\ launcher[g] = "exited"
    /\ launcher' = [launcher EXCEPT ![g] = "gone"]
    /\ gatewayProcess' = 0
    /\ \/ ~shuttingDown /\ restartTimer' = gatewayReady /\ UNCHANGED gatewayReady
       \/ shuttingDown /\ gatewayReady' = FALSE /\ UNCHANGED restartTimer
    /\ quit' = IF quit = "awaiting" THEN "stopping" ELSE quit
    /\ UNCHANGED <<shuttingDown, gatewayLaunchGeneration, launch, recheck, listening>>

\* The exit handler.  shutdown() may be waiting for the same event.
ExitEvent(g) ==
    /\ launcher[g] = "exited"
    /\ launcher' = [launcher EXCEPT ![g] = "gone"]
    /\ gatewayProcess' = 0
    /\ \/ ~shuttingDown /\ restartTimer' = TRUE /\ UNCHANGED gatewayReady
       \/ shuttingDown /\ gatewayReady' = FALSE /\ UNCHANGED restartTimer
    /\ quit' = IF quit = "awaiting" THEN "stopping" ELSE quit
    /\ UNCHANGED <<shuttingDown, gatewayLaunchGeneration, launch, recheck, listening>>

TimerFires ==
    /\ restartTimer
    /\ restartTimer' = FALSE /\ recheck' = "probing"
    /\ UNCHANGED <<shuttingDown, gatewayReady, gatewayLaunchGeneration, gatewayProcess,
                   launch, quit, launcher, listening>>

RecheckMisses ==
    /\ recheck = "probing" /\ ~listening
    /\ recheck' = "waiting"
    /\ UNCHANGED <<shuttingDown, gatewayReady, restartTimer, gatewayLaunchGeneration,
                   gatewayProcess, launch, quit, launcher, listening>>

\* "gateway launcher exited but gateway is still reachable"
RecheckConnects ==
    /\ recheck \in {"probing", "waiting"} /\ listening
    /\ recheck' = "reachable" /\ gatewayReady' = TRUE
    /\ UNCHANGED <<shuttingDown, restartTimer, gatewayLaunchGeneration, gatewayProcess,
                   launch, quit, launcher, listening>>

RecheckTimesOut ==
    /\ recheck = "waiting"
    /\ recheck' = "none" /\ gatewayReady' = FALSE
    /\ Begin \/ Skip
    /\ UNCHANGED <<shuttingDown, restartTimer, gatewayProcess, quit, launcher, listening>>

-----------------------------------------------------------------------------
(* shutdown                                                                *)

\* The first SIGINT or SIGTERM; the others find the shutdown under way.
Shutdown ==
    /\ ~shuttingDown
    /\ shuttingDown' = TRUE /\ gatewayReady' = FALSE /\ restartTimer' = FALSE
    /\ quit' = "closing"
    /\ UNCHANGED <<gatewayLaunchGeneration, gatewayProcess, launch, recheck, launcher, listening>>

\* The server's connections and the database pool are closed.  A child is
\* killed and its exit awaited.
ServerClosed ==
    /\ quit = "closing"
    /\ quit' = IF gatewayProcess # 0 THEN "awaiting" ELSE "stopping"
    /\ UNCHANGED <<shuttingDown, gatewayReady, restartTimer, gatewayLaunchGeneration,
                   gatewayProcess, launch, recheck, launcher, listening>>

\* The last stop is over: process.exit(0).
Exit ==
    /\ quit = "stopping"
    /\ quit' = "exited"
    /\ StopGateway
    /\ UNCHANGED <<shuttingDown, gatewayReady, restartTimer, gatewayLaunchGeneration,
                   gatewayProcess, launch, recheck, launcher>>

-----------------------------------------------------------------------------
(* openclaw                                                                *)

\* A crash, the pkill of refresh-codex-if-needed.js, or the signal of the
\* shutdown.  The gateway may outlive the launcher.
LauncherExits(g) ==
    /\ launcher[g] = "running"
    /\ gatewayLaunchGeneration < MaxLaunch \/ shuttingDown
    /\ launcher' = [launcher EXCEPT ![g] = "exited"]
    /\ listening' \in {listening, FALSE}
    /\ UNCHANGED wrapper

Runs == \E g \in Launch : launcher[g] = "running"

\* The launcher's gateway is up, or one that it has left behind comes back.
Listens ==
    /\ ~listening
    /\ \E g \in Launch : launcher[g] # "none"
    /\ listening' = TRUE
    /\ UNCHANGED <<wrapper, launcher>>

\* A gateway left behind ends.
Vanishes ==
    /\ listening /\ ~Runs
    /\ listening' = FALSE
    /\ UNCHANGED <<wrapper, launcher>>

-----------------------------------------------------------------------------
Probe(g) ==
    Misses(g) \/ Connects(g) \/ TimesOut(g) \/ WatchConnects(g) \/ WatchTimesOut(g)

Recheck == RecheckMisses \/ RecheckConnects \/ RecheckTimesOut

Wrapper ==
    /\ quit # "exited"
    /\ \/ Boot \/ TimerFires \/ Recheck
       \/ Shutdown \/ ServerClosed \/ Exit
       \/ \E g \in Launch : Spawn(g) \/ Probe(g) \/ ExitEvent(g)

Openclaw == Listens \/ Vanishes \/ \E g \in Launch : LauncherExits(g)

\* process.exit is the end.
Ended == quit = "exited" /\ UNCHANGED vars

Next == Wrapper \/ Openclaw \/ Ended

Spec == Init /\ [][Next]_vars

\* Timers fire, probes and stop commands have timeouts, exits are reported, and
\* the gateway of a launcher that keeps running comes up.
Fairness ==
    /\ WF_vars(Boot) /\ WF_vars(TimerFires) /\ WF_vars(Recheck)
    /\ WF_vars(Runs /\ Listens)
    /\ \A g \in Launch : WF_vars(Spawn(g)) /\ WF_vars(Probe(g)) /\ WF_vars(ExitEvent(g))

FairSpec == Spec /\ Fairness

-----------------------------------------------------------------------------
(* Properties                                                              *)

Starting == \E g \in Launch : launch[g] = "stopping"

\* Who will see to it that a launcher runs.
Keepers == {k \in {"start", "launcher", "timer", "recheck"} :
               \/ k = "start" /\ Starting
               \/ k = "launcher" /\ gatewayProcess # 0
               \/ k = "timer" /\ restartTimer
               \/ k = "recheck" /\ recheck \in {"probing", "waiting"}}

HandedOver == recheck = "reachable"

(* Restarts neither pile up nor get lost.  However exits, timers, probes and *)
(* a shutdown interleave, the only launcher is the one gatewayProcess holds, *)
(* at most one chain of callbacks will start another, and there is one until *)
(* the shutdown or until a gateway without a launcher has answered the timer.*)
OneKeeper ==
    /\ \A g \in Launch : launcher[g] \in Underway => gatewayProcess = g
    /\ \A j, k \in Keepers : j = k
    /\ ~shuttingDown /\ gatewayLaunchGeneration > 0 /\ ~HandedOver => Keepers # {}

(* The proxy is open only on the word of the current launch's own probe, or  *)
(* of the timer's: what an older launch finds out late, while the next one   *)
(* stops the old gateway, never opens it (the generation of server.js).      *)
ReadyIsCurrent ==
    gatewayReady => HandedOver \/ \E g \in Launch : Current(g) /\ launch[g] = "served"

(* A shutdown that sees no start under way while its server closes leaves no *)
(* launcher behind when the wrapper exits, whatever exits, fires or answers  *)
(* in between.  A start that is awaiting its stop spawns all the same.       *)
CleanShutdown ==
    [](quit = "closing" /\ ~Starting => [](quit = "exited" => ~Runs))

(* A launcher that exits is replaced and served: again and again the proxy   *)
(* is open with somebody behind it, unless the wrapper shuts down, has left  *)
(* the port to a gateway without a launcher, or has given up on the launch.  *)
Recovers ==
    []<>(\/ gatewayReady /\ listening
         \/ shuttingDown \/ HandedOver
         \/ \E g \in Launch : Current(g) /\ launch[g] = "gaveup")
=============================================================================

----------------------------- MODULE FxWatcher ------------------------------
(* configx/fx: NewFxWatcher gives a Watcher to an fx application, whose hooks *)
(* run it.  OnStart launches a goroutine that calls Start with a context of  *)
(* its own; OnStop cancels that context and calls Close.  A watcher that no  *)
(* application manages is its client's, who may call everything at any time. *)
EXTENDS Watcher

CONSTANT App        \* the goroutine that runs the hooks, or the client's

ASSUME AppAssumption == App \in Closers

VARIABLE app        \* how far the application is; "none": there is none

fxVars == <<vars, app>>

Phases == {"none", "built", "started", "cancelled", "closing", "stopped"}

FxInit == Init /\ app \in {"none", "built"}

\* OnStart returns at once; the goroutine it launches gets to Start any time
\* later, even after OnStop.
OnStart ==
  /\ app = "built" /\ app' = "started"
  /\ UNCHANGED vars

\* An error of Start is logged and nothing else: there is no second call.
LaunchedStart ==
  /\ app \notin {"none", "built"} /\ starts = 0
  /\ StartCall
  /\ UNCHANGED app

\* OnStop: cancel() ...
OnStopCancel == app = "started" /\ Cancel /\ app' = "cancelled"

\* ... and w.Close(), whose errors it returns.
OnStopClose == app = "cancelled" /\ CloseCall(App) /\ app' = "closing"

OnStopReturns ==
  /\ app = "closing" /\ closeAt[App] > nprov /\ app' = "stopped"
  /\ UNCHANGED vars

ClientStep == app = "none" /\ Next /\ UNCHANGED app

\* The calls that are the hooks' to make are not made by anybody else.
ManagedStep ==
  /\ app # "none" /\ Next
  /\ starts' = starts /\ cancelled' = cancelled
  /\ closeAt[App] = 0 => closeAt'[App] = 0
  /\ UNCHANGED app

FxNext == \/ OnStart \/ LaunchedStart
          \/ OnStopCancel \/ OnStopClose \/ OnStopReturns
          \/ ClientStep \/ ManagedStep

FxSpec == FxInit /\ [][FxNext]_fxVars

\* A launched goroutine runs, and a hook that has begun goes on.  Nobody has
\* to stop the application.
FxFairness == /\ Fairness
              /\ WF_fxVars(LaunchedStart)
              /\ WF_fxVars(OnStopClose) /\ WF_fxVars(OnStopReturns)
FxFairSpec == FxSpec /\ FxFairness
-----------------------------------------------------------------------------
(* Properties.                                                               *)

\* OnStop returns, and the goroutine of OnStart ends, even if it comes to call
\* Start only when OnStop is over (module.go:136).
FxStops == app = "cancelled" ~> app = "stopped" /\ startPc \in {"returned", "failed"}

\* If Start had watched its providers when OnStop began, its loop running or
\* ended since, no file is watched any more when OnStop returns, whichever of
\* OnStop's Close, that of the loop and a client's comes to which provider first
\* (module.go:114-115).  Of a Start that OnStop comes before, or in the middle
\* of, nothing is said here: it may leave files watched, see
\* NothingWatchedAfterClose.
FxStopsCleanly ==
  [](app = "cancelled" /\ startPc \in {"running", "closing", "returned"}
       => [](app = "stopped" => watching = {}))
=============================================================================

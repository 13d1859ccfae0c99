------------------------ MODULE DerivedWatcherProofs ------------------------
(* Theorems about the watchers that are made of a Watcher: the typed one, for *)
(* any set of contents that decode into no T, and the one that the hooks of   *)
(* an fx application run.  For any number of files, handlers, reload          *)
(* goroutines and callers of Close, and for any bounds.                       *)
EXTENDS TypedWatcher, FxWatcher, WatcherProofs
-----------------------------------------------------------------------------
(* TypedWatcher.                                                             *)

\* A wrapped handler is a handler: every step of a typed watcher is one of the
\* watcher it wraps, so that what is proved of Watcher holds of it.
THEOREM TypedImplementsWatcher == TypedSpec => Spec
<1>1. TypedInit => Init
  BY DEF TypedInit
<1>2. [TypedNext]_typedVars => [Next]_vars
  <2>1. ASSUME NEW r \in Reloads, TypedCallback(r) PROVE Next
    BY <2>1 DEF TypedCallback, Next, ReloadStep
  <2> QED
    BY <2>1 DEF TypedNext, BaseStep, typedVars
<1> QED
  BY <1>1, <1>2, PTL DEF TypedSpec, Spec

\* What is proved of Watcher, of a typed one: no reload begins after Start has
\* returned.
THEOREM TypedNoLateReload == TypedSpec => NoReloadAfterReturn
  BY TypedImplementsWatcher, NoLateReload, PTL

\* ... its handlers find the config they are given in RawConfig() ...
THEOREM TypedHandlerSeesRaw ==
  ASSUME SerialReloads PROVE TypedSpec => []HandlerSeesItsConfig
  BY TypedImplementsWatcher, HandlerSees, PTL

\* ... and between reloads each has been given the one RawConfig() shows.
THEOREM TypedNoHandlerLeftBehind ==
  ASSUME SerialReloads PROVE TypedSpec => []HandlersUpToDate
  BY TypedImplementsWatcher, NoHandlerLeftBehind, PTL

\* The typed snapshot is one that decodes and validates, however the files and
\* the goroutines behave, overlapping reloads included.
THEOREM TypedSnapshotStaysValid == TypedSpec => []TypedSnapshotValid
<1>1. TypedInit => TypedSnapshotValid
  BY DEF TypedInit, TypedSnapshotValid, Valid
<1>2. TypedSnapshotValid /\ [TypedNext]_typedVars => TypedSnapshotValid'
  BY DEF TypedSnapshotValid, Valid, TypedNext, BaseStep, TypedCallback,
         StoreTyped, typedVars
<1> QED
  BY <1>1, <1>2, PTL DEF TypedSpec
-----------------------------------------------------------------------------
(* When reloads do not overlap, the typed snapshot is the raw one as soon as *)
(* a handler has been given that, if it is valid, and is never ahead of it.  *)
TypedInv ==
  /\ current \in Versions
  /\ \A f \in AllFiles : current[f] <= cfg[f]
  /\ Valid(cfg) /\ (\E h \in Handlers : applied[h] = cfg) => current = cfg
  /\ \A r \in Reloads :
       pc[r] = "handler" /\ good[r] /\ Valid(got[r]) => current = got[r]

\* A handler is called.  The config it is given is the one Config() shows, so
\* that the T is not older than the one before.
LEMMA CallbackStep ==
  ASSUME TypeOK, FreshInv, TypedInv, SerialReloads, NEW r \in Reloads,
         TypedCallback(r)
  PROVE  TypedInv' /\ \A f \in AllFiles : current[f] <= current'[f]
<1>1. /\ UNCHANGED <<disk, got, good, cfg, rejected>> /\ pc[r] = "notify"
      /\ \A q \in Reloads : q = r
      /\ got[r] \in Versions /\ cfg \in Versions
  BY DEF TypedCallback, CallHandler, fileVars, SerialReloads, TypeOK,
         ReloadTypes, ViewTypes
<1>2. \A f \in AllFiles : cfg[f] <= cfg[f] /\ current[f] <= current[f]
  BY <1>1 DEF TypedInv, Versions
<1>3. CASE good[r] /\ Valid(got[r])
  <2>1. current' = cfg /\ cfg = got[r]
    BY <1>1, <1>3 DEF TypedCallback, StoreTyped, FreshInv
  <2> QED
    BY <1>1, <1>2, <1>3, <2>1 DEF TypedInv, Valid
<1>4. CASE ~(good[r] /\ Valid(got[r]))
  <2>1. current' = current
    BY <1>4 DEF TypedCallback, StoreTyped
  <2>2. (\E h \in Handlers : applied'[h] = cfg) /\ Valid(cfg)
          => \E h \in Handlers : applied[h] = cfg
    <3>1. CASE good[r]
      BY <1>1, <1>4, <3>1 DEF FreshInv
    <3>2. CASE ~good[r]
      BY <3>2 DEF TypedCallback, CallHandler
    <3> QED
      BY <3>1, <3>2
  <2> QED
    BY <1>1, <1>2, <1>4, <2>1, <2>2 DEF TypedInv, Valid
<1> QED
  BY <1>3, <1>4

\* A load succeeds and its config is stored.  No handler has been given it, if
\* it is not the one that was there.
LEMMA TypedPublishStep ==
  ASSUME TypeOK, FreshInv, HandlersInv, TypedInv, SerialReloads,
         NEW r \in Reloads, Publish(r), UNCHANGED <<current, rejected>>
  PROVE  TypedInv'
<1>1. \A q \in Reloads : q = r /\ pc'[q] = "loaded" /\ pc[q] = "loading"
  BY DEF Publish, TypeOK, ReloadTypes, SerialReloads
<1>2. /\ cfg \in Versions /\ cfg' \in Versions /\ applied' = applied
      /\ \A f \in AllFiles : cfg[f] <= cfg'[f]
  BY PublishStep DEF Publish, Store, TypeOK, ReloadTypes, ViewTypes
<1>3. \A f \in AllFiles : current[f] <= cfg'[f]
  BY <1>2 DEF TypedInv, Versions
<1>4. ASSUME NEW h \in Handlers, applied[h] = cfg' PROVE cfg' = cfg
  <2>1. cfg' # NoConfig
    <3>1. 1 \in AllFiles
      BY MaxFilesAssumption DEF AllFiles
    <3> QED
      BY <1>2, <3>1 DEF NoConfig, Versions
  <2> QED
    BY <1>1, <1>4, <2>1 DEF HandlersInv, ToBeCalled
<1> QED
  BY <1>1, <1>2, <1>3, <1>4 DEF TypedInv, Valid

\* Any other step of the base watcher touches neither snapshot.
LEMMA OtherBaseStep ==
  ASSUME TypeOK, TypedInv, BaseStep, \A r \in Reloads : ~Publish(r)
  PROVE  TypedInv'
<1>1. UNCHANGED <<current, rejected>>
  BY DEF BaseStep
<1>2. UNCHANGED <<cfg, applied>>
  BY DEF BaseStep, Next, ReloadStep, WriteFile, ProviderReports,
         ProviderFails, StartCall, WatchProvider, WatchFails, RunLoop,
         LoopReload, LoopStop, LoopCtxDone, LoopReturn, WaitReturn, Cancel,
         CloseCall, CloseUnwatch, TimerFire, ReadFile, FileFails, SourceFails,
         Fail, Notify, CallHandler, HandlerReturns, ReloadReturns, OnChange,
         viewVars, TypeOK, ReloadTypes
<1>3. ASSUME NEW r \in Reloads, pc'[r] = "handler"
      PROVE  pc[r] = "handler" /\ got'[r] = got[r] /\ good'[r] = good[r]
  <2>1. ~(pc[r] = "notify")
    BY <1>3 DEF BaseStep
  <2> QED
    BY <1>3, <2>1
       DEF BaseStep, Next, ReloadStep, WriteFile, ProviderReports,
           ProviderFails, StartCall, WatchProvider, WatchFails, RunLoop,
           LoopReload, LoopStop, LoopCtxDone, LoopReturn, WaitReturn, Cancel,
           CloseCall, CloseUnwatch, TimerFire, ReadFile, FileFails,
           SourceFails, Fail, Notify, CallHandler, HandlerReturns,
           ReloadReturns, OnChange, reloadVars, TypeOK, ReloadTypes
<1> QED
  BY <1>1, <1>2, <1>3 DEF TypedInv, Valid

LEMMA TypedInvNext ==
  TypeOK /\ FreshInv /\ HandlersInv /\ TypedInv /\ SerialReloads
    /\ [TypedNext]_typedVars => TypedInv'
<1> SUFFICES ASSUME TypeOK, FreshInv, HandlersInv, TypedInv, SerialReloads,
                    [TypedNext]_typedVars
             PROVE  TypedInv'
  OBVIOUS
<1>1. ASSUME NEW r \in Reloads, TypedCallback(r) PROVE TypedInv'
  BY <1>1, CallbackStep
<1>2. CASE BaseStep
  <2>1. ASSUME NEW r \in Reloads, Publish(r) PROVE TypedInv'
    BY <1>2, <2>1, TypedPublishStep DEF BaseStep
  <2> QED
    BY <1>2, <2>1, OtherBaseStep
<1>3. CASE UNCHANGED typedVars
  BY <1>3 DEF typedVars, vars, reloadVars, viewVars, TypedInv, Valid
<1> QED
  BY <1>1, <1>2, <1>3 DEF TypedNext

LEMMA TypedInvariant ==
  ASSUME SerialReloads
  PROVE  TypedSpec => [](TypeOK /\ FreshInv /\ HandlersInv /\ TypedInv)
<1>1. TypedInit => TypedInv
  <2> SUFFICES ASSUME TypedInit PROVE TypedInv
    OBVIOUS
  <2>1. current = cfg /\ cfg \in Versions /\ \A r \in Reloads : pc[r] = "idle"
    BY DEF TypedInit, Init, Unread, Versions
  <2>2. \A f \in AllFiles : current[f] <= cfg[f]
    BY <2>1 DEF Versions
  <2> QED
    BY <2>1, <2>2 DEF TypedInv
<1>2. TypeOK /\ FreshInv /\ HandlersInv /\ TypedInv /\ [TypedNext]_typedVars
        => TypedInv'
  BY TypedInvNext
<1> QED
  BY TypedImplementsWatcher, HandlersInvariant, <1>1, <1>2, PTL DEF TypedSpec

\* A typed handler finds the T it is given in Config(), and in RawConfig() what
\* that was decoded from, when reloads do not overlap.
THEOREM TypedHandlerSeesBoth ==
  ASSUME SerialReloads PROVE TypedSpec => []TypedHandlerSees
<1>1. FreshInv /\ TypedInv => TypedHandlerSees
  BY DEF FreshInv, TypedInv, TypedHandlerSees
<1> QED
  BY TypedInvariant, <1>1, PTL

\* Between reloads that do not overlap, the typed snapshot is the raw one's if
\* that is valid and any handler has been given it.
THEOREM TypedSnapshotCatchesUp ==
  ASSUME SerialReloads PROVE TypedSpec => []TypedCatchesUp
<1>1. TypedInv => TypedCatchesUp
  BY DEF TypedInv, TypedCatchesUp
<1> QED
  BY TypedInvariant, <1>1, PTL

\* The typed snapshot only moves forward, to contents the files have had, when
\* reloads do not overlap: the typed watcher implements ConfigView as well.
THEOREM TypedImplementsConfigView ==
  ASSUME SerialReloads PROVE TypedSpec => TypedRefinesConfigView
<1>1. TypedInit => TypedView!Init
  BY DEF TypedInit, Init, TypedView!Init, Unread
<1>2. TypeOK /\ FreshInv /\ TypedInv /\ TypedInv' /\ [TypedNext]_typedVars
        => [TypedView!Next]_(TypedView!vars)
  <2> SUFFICES ASSUME TypeOK, FreshInv, TypedInv, TypedInv', [TypedNext]_typedVars
               PROVE  [TypedView!Next]_(TypedView!vars)
    OBVIOUS
  <2>1. ASSUME NEW r \in Reloads, TypedCallback(r) PROVE TypedView!Next
    <3>1. \A f \in AllFiles : current[f] <= current'[f]
      BY <2>1, CallbackStep
    <3>2. disk' = disk /\ cfg' = cfg
      BY <2>1 DEF TypedCallback, CallHandler, fileVars
    <3>3. /\ \A f \in AllFiles : current'[f] <= disk[f]
          /\ current' \in [AllFiles -> Nat]
      BY <3>2 DEF TypedInv, FreshInv, TypeOK, FileTypes, ViewTypes, Versions
    <3> QED
      BY <3>1, <3>2, <3>3 DEF TypedView!Next, TypedView!Publish
  <2>2. ASSUME NEW f \in AllFiles, NEW ok \in BOOLEAN, WriteFile(f, ok), BaseStep
        PROVE  TypedView!Next
    BY <2>2 DEF WriteFile, BaseStep, TypedView!Next, TypedView!Write
  <2>3. CASE UNCHANGED <<disk, current>>
    BY <2>3 DEF TypedView!vars
  <2> QED
    BY <2>1, <2>2, <2>3
       DEF TypedNext, BaseStep, Next, ReloadStep, ProviderReports, ProviderFails,
           StartCall, WatchProvider, WatchFails, RunLoop, LoopReload, LoopStop,
           LoopCtxDone, LoopReturn, WaitReturn, Cancel, CloseCall, CloseUnwatch,
           TimerFire, ReadFile, FileFails, SourceFails, Publish, Notify,
           CallHandler, HandlerReturns, ReloadReturns, OnChange, fileVars,
           typedVars, vars
<1> QED
  BY TypedInvariant, <1>1, <1>2, PTL
     DEF TypedSpec, TypedRefinesConfigView, TypedView!Spec
-----------------------------------------------------------------------------
(* FxWatcher: the hooks make calls that any client could make, and when they *)
(* stop a watcher that was running they leave nothing watched.               *)

\* A watcher that an application manages behaves as a Watcher does, so that
\* what is proved of Watcher holds under the hooks.
THEOREM FxImplementsWatcher == FxSpec => Spec
<1>1. FxInit => Init
  BY DEF FxInit
<1>2. [FxNext]_fxVars => [Next]_vars
  <2>1. CASE OnStart \/ OnStopReturns
    BY <2>1 DEF OnStart, OnStopReturns
  <2>2. CASE LaunchedStart
    BY <2>2 DEF LaunchedStart, Next
  <2>3. CASE OnStopCancel
    BY <2>3 DEF OnStopCancel, Next
  <2>4. CASE OnStopClose
    BY <2>4, AppAssumption DEF OnStopClose, Next, AllClosers
  <2>5. CASE ClientStep \/ ManagedStep
    BY <2>5 DEF ClientStep, ManagedStep
  <2>6. CASE UNCHANGED fxVars
    BY <2>6 DEF fxVars
  <2> QED
    BY <2>1, <2>2, <2>3, <2>4, <2>5, <2>6 DEF FxNext
<1> QED
  BY <1>1, <1>2, PTL DEF FxSpec, Spec

\* What is proved of Watcher, under the hooks: a Start that fails leaves no
\* file watched, whichever hook runs meanwhile.
THEOREM FxFailedStart == FxSpec => []FailedStartWatchesNothing
  BY FxImplementsWatcher, FailedStart, PTL

\* ... and no reload begins once the goroutine of OnStart is done with Start.
THEOREM FxNoLateReload == FxSpec => NoReloadAfterReturn
  BY FxImplementsWatcher, NoLateReload, PTL
-----------------------------------------------------------------------------
(* Stopping a watcher that was running.                                      *)

\* The application has not called Close before OnStop does.
CloseNotCalled == app \in {"built", "started", "cancelled"} => closeAt[App] = 0

\* From there on Start watches no more files, and the Close of OnStop has
\* unwatched those it has passed.
Stopping ==
  /\ app \in {"cancelled", "closing", "stopped"}
  /\ startPc \in {"running", "closing", "returned"}
  /\ \A f \in Files : f < closeAt[App] => f \notin watching
  /\ app = "stopped" => closeAt[App] > nprov

\* The hooks are not in each other's way.
LEMMA CloseNotCalledNext ==
  TypeOK /\ CloseNotCalled /\ [FxNext]_fxVars => CloseNotCalled'
<1> SUFFICES ASSUME TypeOK, CloseNotCalled, [FxNext]_fxVars PROVE CloseNotCalled'
  OBVIOUS
<1> USE DEF CloseNotCalled
<1>1. CASE OnStart \/ OnStopReturns
  BY <1>1 DEF OnStart, OnStopReturns, vars, stopVars
<1>2. CASE LaunchedStart
  BY <1>2 DEF LaunchedStart, StartCall, stopVars
<1>3. CASE OnStopCancel
  BY <1>3 DEF OnStopCancel, Cancel
<1>4. CASE OnStopClose \/ ClientStep \/ ManagedStep
  BY <1>4 DEF OnStopClose, ClientStep, ManagedStep
<1>5. CASE UNCHANGED fxVars
  BY <1>5 DEF fxVars, vars, stopVars
<1> QED
  BY <1>1, <1>2, <1>3, <1>4, <1>5 DEF FxNext

\* A step of the watcher leaves a stopping application stopping.
LEMMA StoppingStep ==
  ASSUME TypeOK, Stopping, Next, app' \in {"cancelled", "closing", "stopped"},
         app' = "stopped" => app = "stopped"
  PROVE  Stopping'
<1> USE MaxFilesAssumption, LoopAssumption, AppAssumption
        DEF Stopping, TypeOK, FileTypes, StartTypes, StopTypes, Files, AllFiles,
            AllClosers, fileVars, startVars, stopVars
<1>1. ASSUME NEW f \in AllFiles, NEW ok \in BOOLEAN, WriteFile(f, ok) PROVE Stopping'
  BY <1>1 DEF WriteFile
<1>2. ASSUME NEW f \in AllFiles, ProviderReports(f) \/ ProviderFails(f) PROVE Stopping'
  BY <1>2 DEF ProviderReports, ProviderFails
<1>3. CASE StartCall \/ WatchProvider \/ WatchFails \/ RunLoop \/ WaitReturn
  BY <1>3 DEF StartCall, WatchProvider, WatchFails, RunLoop, WaitReturn
<1>4. CASE LoopReload \/ LoopStop \/ LoopReturn
  BY <1>4 DEF LoopReload, LoopStop, LoopReturn
<1>5. CASE LoopCtxDone
  <2>1. App # Loop /\ closeAt'[App] = closeAt[App]
    BY <1>5 DEF LoopCtxDone, BeginClose
  <2> QED
    BY <1>5, <2>1 DEF LoopCtxDone, BeginClose
<1>6. CASE Cancel
  BY <1>6 DEF Cancel
<1>7. ASSUME NEW c \in AllClosers, CloseCall(c) PROVE Stopping'
  <2>1. closeAt'[App] = closeAt[App] \/ (closeAt[App] = 0 /\ closeAt'[App] = 1)
    BY <1>7 DEF CloseCall, BeginClose
  <2>2. UNCHANGED <<nprov, watching, startPc>>
    BY <1>7 DEF CloseCall
  <2>3. nprov \in Nat /\ \A f \in Files : ~(f < 1)
    OBVIOUS
  <2> QED
    BY <2>1, <2>2, <2>3
<1>8. ASSUME NEW c \in AllClosers, CloseUnwatch(c) PROVE Stopping'
  <2>1. /\ UNCHANGED <<nprov, startPc>>
        /\ watching' = watching \ {closeAt[c]}
        /\ closeAt'[App] = IF c = App THEN closeAt[App] + 1 ELSE closeAt[App]
    BY <1>8 DEF CloseUnwatch
  <2>2. ASSUME NEW f \in Files, f < closeAt'[App] PROVE f \notin watching'
    <3>1. f \in Nat /\ closeAt[App] \in Nat
      OBVIOUS
    <3>2. f < closeAt[App] \/ (c = App /\ f = closeAt[App])
      BY <2>1, <2>2, <3>1
    <3> QED
      BY <2>1, <3>2
  <2> QED
    BY <2>1, <2>2
<1>9. ASSUME NEW r \in Reloads, TimerFire(r) \/ ReloadStep(r) PROVE Stopping'
  BY <1>9 DEF TimerFire, ReloadStep, ReadFile, FileFails, SourceFails, Publish,
              Notify, CallHandler, HandlerReturns, ReloadReturns
<1>10. ASSUME NEW h \in Handlers, OnChange(h) PROVE Stopping'
  BY <1>10 DEF OnChange
<1> QED
  BY <1>1, <1>2, <1>3, <1>4, <1>5, <1>6, <1>7, <1>8, <1>9, <1>10 DEF Next

LEMMA StoppingNext == TypeOK /\ Stopping /\ [FxNext]_fxVars => Stopping'
<1> SUFFICES ASSUME TypeOK, Stopping, [FxNext]_fxVars PROVE Stopping'
  OBVIOUS
<1>1. CASE OnStopReturns
  BY <1>1 DEF OnStopReturns, Stopping, vars, fileVars, startVars, stopVars, Files
<1>2. CASE OnStopClose
  BY <1>2, StoppingStep, AppAssumption DEF OnStopClose, Next, AllClosers
<1>3. CASE LaunchedStart \/ ManagedStep
  BY <1>3, StoppingStep DEF LaunchedStart, ManagedStep, Next, Stopping
<1>4. CASE OnStart \/ OnStopCancel \/ ClientStep
  BY <1>4 DEF OnStart, OnStopCancel, ClientStep, Stopping
<1>5. CASE UNCHANGED fxVars
  BY <1>5 DEF fxVars, vars, Stopping, fileVars, startVars, stopVars, Files
<1> QED
  BY <1>1, <1>2, <1>3, <1>4, <1>5 DEF FxNext

\* An OnStop that begins when Start has watched its providers, the loop running
\* or ended, leaves nothing watched when it returns, nor is anything watched ever
\* after.  (One that begins before is not spoken of.)
THEOREM FxStopLeavesNothingWatched == FxSpec => FxStopsCleanly
<1>1. FxInit => CloseNotCalled
  BY AppAssumption DEF FxInit, Init, CloseNotCalled, AllClosers
<1>2. TypeOK /\ CloseNotCalled /\ [FxNext]_fxVars => CloseNotCalled'
  BY CloseNotCalledNext
<1>3. TypeOK /\ CloseNotCalled /\ app = "cancelled"
        /\ startPc \in {"running", "closing", "returned"} => Stopping
  BY DEF CloseNotCalled, Stopping, TypeOK, FileTypes, Files
<1>4. TypeOK /\ Stopping /\ [FxNext]_fxVars => Stopping'
  BY StoppingNext
<1>5. TypeOK /\ Stopping => (app = "stopped" => watching = {})
  BY AppAssumption
     DEF Stopping, TypeOK, FileTypes, StopTypes, Files, AllClosers
<1> QED
  BY FxImplementsWatcher, TypeCorrect, <1>1, <1>2, <1>3, <1>4, <1>5, PTL
     DEF FxSpec, FxStopsCleanly
=============================================================================

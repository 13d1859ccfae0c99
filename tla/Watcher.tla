------------------------------ MODULE Watcher -------------------------------
(* configx.Watcher: Start watches the config files and runs a loop that      *)
(* turns change events into debounced reloads; each reload runs in the       *)
(* goroutine of the debounce timer, reads every file again, stores the new   *)
(* *Config and calls the OnChange handlers; Close and the context stop it.   *)
(*                                                                           *)
(* The goroutines modelled: the one in Start, the callback of each file      *)
(* provider (koanf + fsnotify, external), the reload goroutines, the callers *)
(* of Close, and whoever writes the files.                                   *)
EXTENDS Naturals, Sequences, Functions

CONSTANTS
  MaxFiles,     \* most file providers a watcher has
  Handlers,     \* functions that may be passed to OnChange
  Reloads,      \* reload goroutines that can be alive at once
  Closers,      \* client goroutines that may call Close
  Loop,         \* the goroutine in Start, which calls Close when ctx is done
  MaxVersion,   \* bound: times a file is written
  MaxSaves,     \* bound: times all files together are
  MaxStarts     \* bound: calls of Start (a failed one may be tried again)

ASSUME MaxFilesAssumption == MaxFiles \in Nat \ {0}
ASSUME LoopAssumption == Loop \notin Closers
ASSUME BoundAssumption == MaxVersion \in Nat /\ MaxSaves \in Nat /\ MaxStarts \in Nat

\* The debounce window is longer than a reload and its handlers take, so that
\* one reload goroutine is done before the timer starts the next.  Nothing in
\* the code enforces it.
SerialReloads == \A r, q \in Reloads : r = q

VARIABLES
  \* -- the files and their providers
  nprov,        \* len(w.providers), fixed at construction
  disk,         \* version each file has on disk
  broken,       \* files whose present content a load rejects (or is missing)
  watching,     \* files whose provider is between Watch and Unwatch
  event,        \* a change the provider has not reported yet
  missed,       \* ghost: files with a change that no provider will report
  \* -- Start
  startPc, started, starts,
  token,        \* reloadCh, a buffer of one
  timer,        \* "armed": a time.AfterFunc is pending
  \* -- stopping
  stopped,      \* w.stopCh is closed
  cancelled,    \* ctx is done
  closeAt,      \* per caller of Close: 0 = not called, i = provider i is next
  \* -- reload goroutines
  pc, next, got, good, todo,
  \* -- what clients see
  cfg,          \* w.cfg, as the version of each file it was built from
  subs,         \* w.subs
  applied,      \* ghost: per handler, the last config it was given
  sourceFailed  \* ghost: a source other than a file failed the last load

fileVars   == <<disk, broken, watching, event, missed>>
startVars  == <<startPc, started, starts, token, timer>>
stopVars   == <<stopped, cancelled, closeAt>>
reloadVars == <<pc, next, got, good, todo>>
viewVars   == <<cfg, subs, applied, sourceFailed>>
vars == <<nprov, fileVars, startVars, stopVars, reloadVars, viewVars>>

AllFiles == 1..MaxFiles
Files    == 1..nprov
AllClosers == Closers \cup {Loop}
Versions == [AllFiles -> Nat]
Unread   == [f \in AllFiles |-> 0]
NoConfig == <<>>

FileTypes ==
  /\ nprov \in 0..MaxFiles
  /\ disk \in Versions
  /\ broken \subseteq Files
  /\ watching \subseteq Files
  /\ event \in [AllFiles -> BOOLEAN]
  /\ missed \subseteq Files

StartTypes ==
  /\ startPc \in {"new", "starting", "waiting", "running", "closing",
                  "returned", "failed"}
  /\ started \in 0..nprov
  /\ starts \in 0..MaxStarts
  /\ token \in BOOLEAN
  /\ timer \in {"off", "armed"}

StopTypes ==
  /\ stopped \in BOOLEAN
  /\ cancelled \in BOOLEAN
  /\ closeAt \in [AllClosers -> 0..(nprov + 1)]

ReloadTypes ==
  /\ pc \in [Reloads -> {"idle", "loading", "loaded", "notify", "handler"}]
  /\ next \in [Reloads -> 1..(nprov + 1)]
  /\ got \in [Reloads -> Versions]
  /\ good \in [Reloads -> BOOLEAN]
  /\ todo \in [Reloads -> Seq(Handlers)]

ViewTypes ==
  /\ cfg \in Versions
  /\ subs \in Seq(Handlers)
  /\ applied \in [Handlers -> Versions \cup {NoConfig}]
  /\ sourceFailed \in BOOLEAN

\* Types, and a goroutine in "handler" has a handler to come back from.
TypeOK ==
  /\ FileTypes /\ StartTypes /\ StopTypes /\ ReloadTypes /\ ViewTypes
  /\ \A r \in Reloads : pc[r] = "handler" => todo[r] # <<>>

\* NewWatcher: the initial load succeeded (otherwise there is no watcher) and
\* nothing is watched yet.
Init ==
  /\ nprov \in 0..MaxFiles
  /\ disk = Unread /\ broken = {} /\ watching = {} /\ missed = {}
  /\ event = [f \in AllFiles |-> FALSE]
  /\ startPc = "new" /\ started = 0 /\ starts = 0
  /\ token = FALSE /\ timer = "off"
  /\ stopped = FALSE /\ cancelled = FALSE
  /\ closeAt = [c \in AllClosers |-> 0]
  /\ pc = [r \in Reloads |-> "idle"]
  /\ next = [r \in Reloads |-> 1]
  /\ got = [r \in Reloads |-> Unread]
  /\ good = [r \in Reloads |-> FALSE]
  /\ todo = [r \in Reloads |-> <<>>]
  /\ cfg = disk /\ subs = <<>> /\ sourceFailed = FALSE
  /\ applied = [h \in Handlers |-> NoConfig]
-----------------------------------------------------------------------------
(* The files and their providers (external: an editor, koanf and fsnotify).  *)

\* File f gets a new content, which a load accepts (ok) or rejects.  A
\* provider that watches f will report it; without one the change is missed,
\* until a later reported change of f makes up for it.
WriteFile(f, ok) ==
  /\ f \in Files /\ disk[f] < MaxVersion /\ SumFunction(disk) < MaxSaves
  /\ disk' = [disk EXCEPT ![f] = @ + 1]
  /\ broken' = IF ok THEN broken \ {f} ELSE broken \cup {f}
  /\ event' = [event EXCEPT ![f] = f \in watching]
  /\ missed' = IF f \in watching THEN missed \ {f} ELSE missed \cup {f}
  /\ UNCHANGED <<nprov, watching, startVars, stopVars, reloadVars, viewVars>>

\* queueWatcherReload: the send is dropped when the buffer is full.
QueueReloadIfIdle == token' = (token \/ \A r \in Reloads : pc[r] = "idle")  \* a slip
QueueReload == token' = TRUE

\* The provider of f calls back without an error: watchProvider triggers.
ProviderReports(f) ==
  /\ f \in watching /\ event[f]
  /\ event' = [event EXCEPT ![f] = FALSE]
  /\ QueueReload
  /\ UNCHANGED <<nprov, disk, broken, watching, missed, startPc, started,
                 starts, timer, stopVars, reloadVars, viewVars>>

\* The provider of f calls back with an error (the file was removed, fsnotify
\* failed): watchProvider reports it and does not reload.  The provider may
\* have stopped; nothing watches f again.
ProviderFails(f) ==
  /\ f \in watching
  /\ watching' \in {watching, watching \ {f}}
  /\ event' = [event EXCEPT ![f] = FALSE]
  /\ missed' = IF event[f] THEN missed \cup {f} ELSE missed
  /\ UNCHANGED <<nprov, disk, broken, startVars, stopVars, reloadVars, viewVars>>
-----------------------------------------------------------------------------
(* Start: startProviders, then run (or waitForStop without a provider).      *)

\* A call of Start makes a fresh reloadCh.
StartCall ==
  /\ startPc \in {"new", "failed"} /\ starts < MaxStarts
  /\ starts' = starts + 1
  /\ startPc' = IF nprov = 0 THEN "waiting" ELSE "starting"
  /\ started' = 0
  /\ token' = FALSE
  /\ UNCHANGED <<nprov, fileVars, timer, stopVars, reloadVars, viewVars>>

\* One step of the loop in startProviders: the next provider is watched.
WatchProvider ==
  /\ startPc = "starting" /\ started < nprov
  /\ watching' = watching \cup {started + 1}
  /\ started' = started + 1
  /\ UNCHANGED <<nprov, disk, broken, event, missed, startPc, starts, token,
                 timer, stopVars, reloadVars, viewVars>>

\* All providers are watched: run begins.
RunLoop ==
  /\ startPc = "starting" /\ started = nprov
  /\ startPc' = "running"
  /\ UNCHANGED <<nprov, fileVars, started, starts, token, timer, stopVars,
                 reloadVars, viewVars>>

\* cleanupStartedProviders(count): what is still watched.
CleanedUpButOne(count) == watching \ {f \in Files : f < count}     \* a slip
CleanedUp(count) == watching \ (1..count)

\* The next provider cannot be watched: cleanupStartedProviders, and Start
\* returns the error.  What the channel and the providers held is lost.
WatchFails ==
  /\ startPc = "starting" /\ started < nprov
  /\ startPc' = "failed"
  /\ watching' = CleanedUp(started)
  /\ event' = [f \in AllFiles |-> event[f] /\ f \in watching']
  /\ missed' = Files
  /\ token' = FALSE
  /\ UNCHANGED <<nprov, disk, broken, started, starts, timer, stopVars,
                 reloadVars, viewVars>>

\* newDebounceTimer: reset stops a pending timer and arms a new one; stop
\* stops it, and does not wait for a reload that has begun.
ResetTimerIfIdle ==     \* a slip
  timer' = IF \A r \in Reloads : pc[r] = "idle" THEN "armed" ELSE timer
ResetTimer == timer' = "armed"
LeaveTimer == timer' = timer    \* a slip
StopTimer  == timer' = "off"

\* stopOnce closes w.stopCh; the first provider is the next to be unwatched.
BeginCloseOnce(c) ==    \* a slip: all of Close is under stopOnce
  /\ stopped' = TRUE
  /\ closeAt' = [closeAt EXCEPT ![c] = IF stopped THEN nprov + 1 ELSE 1]
BeginClose(c) ==
  /\ stopped' = TRUE
  /\ closeAt' = [closeAt EXCEPT ![c] = 1]

\* case <-reloadCh
LoopReload ==
  /\ startPc = "running" /\ token
  /\ token' = FALSE
  /\ ResetTimer
  /\ UNCHANGED <<nprov, fileVars, startPc, started, starts, stopVars,
                 reloadVars, viewVars>>

\* case <-w.stopCh: run returns, and the deferred stopTimer runs.
LoopStop ==
  /\ startPc = "running" /\ stopped
  /\ startPc' = "returned"
  /\ StopTimer
  /\ UNCHANGED <<nprov, fileVars, started, starts, token, stopVars,
                 reloadVars, viewVars>>

\* case <-ctx.Done(): run calls Close ...
LoopCtxDone ==
  /\ startPc = "running" /\ cancelled
  /\ startPc' = "closing"
  /\ BeginClose(Loop)
  /\ UNCHANGED <<nprov, fileVars, started, starts, token, timer, cancelled,
                 reloadVars, viewVars>>

\* ... and returns when Close has; until then the timer may still fire.
LoopReturn ==
  /\ startPc = "closing" /\ closeAt[Loop] > nprov
  /\ startPc' = "returned"
  /\ StopTimer
  /\ UNCHANGED <<nprov, fileVars, started, starts, token, stopVars,
                 reloadVars, viewVars>>

\* waitForStop: no Close on this path.
CtxDone    == cancelled             \* a slip
StopSignal == cancelled \/ stopped
WaitReturn ==
  /\ startPc = "waiting" /\ StopSignal
  /\ startPc' = "returned"
  /\ UNCHANGED <<nprov, fileVars, started, starts, token, timer, stopVars,
                 reloadVars, viewVars>>
-----------------------------------------------------------------------------
(* Stopping: the context, and Close, which any goroutine may call.           *)

Cancel ==
  /\ ~cancelled
  /\ cancelled' = TRUE
  /\ UNCHANGED <<nprov, fileVars, startVars, stopped, closeAt, reloadVars, viewVars>>

\* A client calls Close ...
CloseCall(c) ==
  /\ c \in Closers /\ closeAt[c] = 0
  /\ BeginClose(c)
  /\ UNCHANGED <<nprov, fileVars, startVars, cancelled, reloadVars, viewVars>>

\* ... and every provider is unwatched, watched or not.
UnwatchingTooFar(c)  == closeAt[c] \in 1..(nprov + 1)    \* a slip
UnwatchingWatched(c) == closeAt[c] \in watching          \* a slip
Unwatching(c) == closeAt[c] \in Files

CloseUnwatch(c) ==
  /\ Unwatching(c)
  /\ watching' = watching \ {closeAt[c]}
  /\ event' = [event EXCEPT ![closeAt[c]] = FALSE]
  /\ closeAt' = [closeAt EXCEPT ![c] = @ + 1]
  /\ UNCHANGED <<nprov, disk, broken, missed, startVars, stopped, cancelled,
                 reloadVars, viewVars>>
-----------------------------------------------------------------------------
(* A reload, in the goroutine of time.AfterFunc.                             *)

\* The timer fires, in a goroutine of its own: reload starts to load.
TimerFire(r) ==
  /\ timer = "armed" /\ pc[r] = "idle"
  /\ timer' = "off"
  /\ pc' = [pc EXCEPT ![r] = "loading"]
  /\ UNCHANGED <<nprov, fileVars, startPc, started, starts, token, stopVars,
                 next, got, good, todo, viewVars>>

\* loadFiles reads the next file.
ReadFile(r) ==
  /\ pc[r] = "loading" /\ next[r] \in Files \ broken
  /\ got' = [got EXCEPT ![r][next[r]] = disk[next[r]]]
  /\ next' = [next EXCEPT ![r] = @ + 1]
  /\ UNCHANGED <<nprov, fileVars, startVars, stopVars, pc, good, todo, viewVars>>

\* The load failed, and Config() stays as it is.
FailStoring(r) ==       \* a slip
  /\ pc' = [pc EXCEPT ![r] = "loaded"]
  /\ good' = [good EXCEPT ![r] = FALSE]
  /\ cfg' = got[r]
Fail(r) ==
  /\ pc' = [pc EXCEPT ![r] = "loaded"]
  /\ good' = [good EXCEPT ![r] = FALSE]
  /\ cfg' = cfg

\* The load fails: the next file is missing or does not parse.
FileFails(r) ==
  /\ pc[r] = "loading" /\ next[r] \in broken
  /\ Fail(r)
  /\ UNCHANGED <<nprov, fileVars, startVars, stopVars, next, got, todo, subs,
                 applied, sourceFailed>>

\* The load fails in a source that is no watched file, before or after the
\* files: a dotenv file, the arguments, a custom source (or it finds ctx done).
SourceFails(r) ==
  /\ pc[r] = "loading"
  /\ Fail(r)
  /\ sourceFailed' = TRUE
  /\ UNCHANGED <<nprov, fileVars, startVars, stopVars, next, got, todo, subs,
                 applied>>

\* The load succeeds: w.cfg.Store.
StoreNothing(r) == cfg' = cfg   \* a slip
Store(r) == cfg' = got[r]

Publish(r) ==
  /\ pc[r] = "loading" /\ next[r] > nprov
  /\ pc' = [pc EXCEPT ![r] = "loaded"]
  /\ good' = [good EXCEPT ![r] = TRUE]
  /\ Store(r)
  /\ sourceFailed' = FALSE
  /\ UNCHANGED <<nprov, fileVars, startVars, stopVars, next, got, todo, subs,
                 applied>>

\* notify takes the handlers registered at this moment.
Notify(r) ==
  /\ pc[r] = "loaded"
  /\ pc' = [pc EXCEPT ![r] = "notify"]
  /\ todo' = [todo EXCEPT ![r] = subs]
  /\ UNCHANGED <<nprov, fileVars, startVars, stopVars, next, got, good, viewVars>>

\* The next handler is called, with the config that was loaded or the error.
CallHandler(r) ==
  /\ pc[r] = "notify" /\ todo[r] # <<>>
  /\ pc' = [pc EXCEPT ![r] = "handler"]
  /\ applied' = IF good[r] THEN [applied EXCEPT ![Head(todo[r])] = got[r]]
                           ELSE applied
  /\ UNCHANGED <<nprov, fileVars, startVars, stopVars, next, got, good, todo,
                 cfg, subs, sourceFailed>>

\* The handlers that are still to be called.
RemainingUnlessStopped(r) == IF stopped THEN <<>> ELSE Tail(todo[r]) \* a slip
Remaining(r) == Tail(todo[r])

HandlerReturns(r) ==
  /\ pc[r] = "handler"
  /\ pc' = [pc EXCEPT ![r] = "notify"]
  /\ todo' = [todo EXCEPT ![r] = Remaining(r)]
  /\ UNCHANGED <<nprov, fileVars, startVars, stopVars, next, got, good, viewVars>>

\* A slip: the next load goes on where a failed one stopped.
ReloadReturnsHalfway(r) ==
  /\ pc[r] = "notify" /\ todo[r] = <<>>
  /\ pc' = [pc EXCEPT ![r] = "idle"]
  /\ next' = [next EXCEPT ![r] = IF good[r] THEN 1 ELSE @]
  /\ got' = [got EXCEPT ![r] = IF good[r] THEN Unread ELSE @]
  /\ good' = [good EXCEPT ![r] = FALSE]
  /\ UNCHANGED <<nprov, fileVars, startVars, stopVars, todo, viewVars>>
\* All handlers have been called; the goroutine ends, and its locals with it.
ReloadReturns(r) ==
  /\ pc[r] = "notify" /\ todo[r] = <<>>
  /\ pc' = [pc EXCEPT ![r] = "idle"]
  /\ next' = [next EXCEPT ![r] = 1]
  /\ got' = [got EXCEPT ![r] = Unread]
  /\ good' = [good EXCEPT ![r] = FALSE]
  /\ UNCHANGED <<nprov, fileVars, startVars, stopVars, todo, viewVars>>

\* OnChange, from any goroutine, a handler's included.  A handler is
\* registered once.
OnChange(h) ==
  /\ \A i \in 1..Len(subs) : subs[i] # h
  /\ subs' = Append(subs, h)
  /\ UNCHANGED <<nprov, fileVars, startVars, stopVars, reloadVars, cfg,
                 applied, sourceFailed>>
-----------------------------------------------------------------------------
LoopExits == LoopStop \/ LoopCtxDone

ReloadStep(r) == \/ ReadFile(r) \/ FileFails(r) \/ SourceFails(r) \/ Publish(r)
                 \/ Notify(r) \/ CallHandler(r) \/ HandlerReturns(r) \/ ReloadReturns(r)

Next ==
  \/ \E f \in AllFiles, ok \in BOOLEAN : WriteFile(f, ok)
  \/ \E f \in AllFiles : ProviderReports(f) \/ ProviderFails(f)
  \/ StartCall \/ WatchProvider \/ WatchFails \/ RunLoop
  \/ LoopReload \/ LoopStop \/ LoopCtxDone \/ LoopReturn \/ WaitReturn
  \/ Cancel
  \/ \E c \in AllClosers : CloseCall(c) \/ CloseUnwatch(c)
  \/ \E r \in Reloads : TimerFire(r) \/ ReloadStep(r)
  \/ \E h \in Handlers : OnChange(h)

Spec == Init /\ [][Next]_vars

\* Goroutines run and select picks among ready cases without starving one;
\* providers report, timers fire, loads and handlers return.  Nobody has to
\* write a file, call Start, Close or OnChange, or cancel the context.
Fairness ==
  /\ WF_vars(WatchProvider \/ WatchFails \/ RunLoop)
  /\ WF_vars(LoopReload) /\ WF_vars(LoopExits)
  /\ WF_vars(LoopReturn) /\ WF_vars(WaitReturn)
  /\ \A f \in AllFiles : WF_vars(ProviderReports(f))
  /\ \A c \in AllClosers : WF_vars(CloseUnwatch(c))
  /\ \A r \in Reloads : WF_vars(TimerFire(r)) /\ WF_vars(ReloadStep(r))

FairSpec == Spec /\ Fairness
-----------------------------------------------------------------------------
(* Properties.                                                               *)

\* A reload is under way, or sure to follow, that will read file f as it is.
Queued == token \/ timer = "armed" \/ \E g \in Files : event[g]

Pending(f) == Queued \/ \E r \in Reloads :
                /\ pc[r] = "loading"
                /\ next[r] <= f \/ got[r][f] = disk[f]

\* Config() shows every file as it is on disk, or a reload that will read it
\* is coming, as long as the watcher has not been stopped: whatever the order
\* of saves, events, debounce and reloads, no change gets stuck between the
\* provider's callback, the one-place channel, the timer and the load
\* (watch.go:26-30).  Excepted are changes no provider could report (missed),
\* files that no load accepts, and a load that another source failed: none of
\* these is tried again before the next event.
FreshOrPending ==
  ~stopped /\ missed = {} /\ broken = {} /\ ~sourceFailed
    => \A f \in Files : cfg[f] = disk[f] \/ Pending(f)

\* While a handler runs after a successful load, Config() returns the very
\* config the handler was given (reload: Store, then notify).
HandlerSeesItsConfig ==
  \A r \in Reloads : pc[r] \in {"notify", "handler"} /\ good[r] => cfg = got[r]

\* Between reloads, the last config a handler was given is the one Config()
\* returns: no handler is left behind on an older one (notify calls all of
\* them, and a failed load changes neither).
HandlersUpToDate ==
  (\A r \in Reloads : pc[r] = "idle")
    => \A h \in Handlers : applied[h] \in {NoConfig, cfg}

\* Config() is never older than a config the watcher already gave a handler
\* (watch.go:53, 106).
ConfigNotOlderThanHandedOut ==
  \A h \in Handlers, f \in Files :
    applied[h] # NoConfig => applied[h][f] <= cfg[f]

\* Two handlers never run at the same time (watch.go:118-119).
HandlersTakeTurns ==
  \A r, q \in Reloads : pc[r] = "handler" /\ pc[q] = "handler" => r = q

\* A Start that failed leaves no provider watched: not the ones it started
\* (cleanupStartedProviders), and no other caller's.
FailedStartWatchesNothing == startPc = "failed" => watching = {}

\* When the Close that run calls on ctx.Done() has returned, nothing is
\* watched, whatever other calls of Close were doing at the same time.
CancelledLoopWatchesNothing == closeAt[Loop] > nprov => watching = {}

\* After Start has returned, no new reload begins: run stops the debounce
\* timer on every way out (watch_runtime.go:81).
NoReloadAfterReturn ==
  [][startPc = "returned" =>
       \A r \in Reloads : pc[r] = "idle" => pc'[r] = "idle"]_vars

\* Once Close and Start have both returned nothing is watched (watch.go:165).
NothingWatchedAfterClose ==
  startPc = "returned" /\ (\E c \in AllClosers : closeAt[c] > nprov)
    => watching = {}

\* Config() only moves forward, to contents the files really had.
View == INSTANCE ConfigView WITH Sources <- AllFiles, view <- cfg
RefinesConfigView == View!Spec

\* Start returns after Close or the end of its context.
StartReturns ==
  startPc \in {"starting", "waiting", "running", "closing"}
    /\ (stopped \/ cancelled) ~> startPc \in {"returned", "failed"}

\* A call of Close returns.
CloseReturns == \A c \in AllClosers : closeAt[c] = 1 ~> closeAt[c] > nprov

\* When the files are left alone, Config() settles on what they hold, under
\* the exceptions of FreshOrPending.
EventuallyFresh ==
  <>[](~stopped /\ missed = {} /\ broken = {} /\ ~sourceFailed
         => \A f \in Files : cfg[f] = disk[f])

\* A reload is due that has not begun.
Due == token \/ timer = "armed"

\* The load that ended last has failed, and its handlers are being told.
JustFailed == \E r \in Reloads : pc[r] \in {"loaded", "notify", "handler"} /\ ~good[r]

\* Once a reload is due, Config() comes to show of every file what it holds by
\* now, whatever went wrong before: a save made before Start watched the file, a
\* save its provider lost, a load that failed in another source or on a content
\* that is mended since (watch_runtime.go:139: nothing else tries it again).
\* The only excuses are that the loop ends, and that a load that began after
\* the reload was due fails in its turn: an earlier failure is over by then, as
\* the reload stays due until the goroutine of the earlier load has ended.
NextReloadHeals ==
  \A f \in AllFiles, n \in 1..MaxVersion :
    startPc = "running" /\ Due /\ f \in Files /\ disk[f] >= n
      ~> cfg[f] >= n \/ startPc # "running" \/ (JustFailed /\ ~Due)
=============================================================================

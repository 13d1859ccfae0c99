--------------------------- MODULE WatcherProofs ----------------------------
(* Theorems about the Watcher module, for any number of files, handlers,     *)
(* reload goroutines and callers of Close, and for any bounds.               *)
EXTENDS Watcher, TLAPS

\* Every variable keeps its type.
THEOREM TypeCorrect == Spec => []TypeOK
<1> USE MaxFilesAssumption, LoopAssumption, BoundAssumption
<1> USE DEF TypeOK, FileTypes, StartTypes, StopTypes, ReloadTypes, ViewTypes,
            AllFiles, Files, AllClosers, Versions, NoConfig, Unread,
            fileVars, startVars, stopVars, reloadVars, viewVars
<1>1. Init => TypeOK
  <2> SUFFICES ASSUME Init PROVE TypeOK
    OBVIOUS
  <2>0. nprov \in Nat /\ 0 \in 0..nprov /\ 0 \in 0..(nprov + 1) /\ 0 \in 0..MaxStarts
    BY DEF Init
  <2>1. FileTypes
    BY DEF Init
  <2>2. StartTypes
    BY <2>0 DEF Init
  <2>3. StopTypes
    BY <2>0 DEF Init
  <2>4. ReloadTypes
    BY DEF Init
  <2>5. ViewTypes
    <3>1. cfg \in Versions
      BY DEF Init
    <3>2. <<>> \in Seq(Handlers)
      OBVIOUS
    <3>3. applied \in [Handlers -> Versions \cup {NoConfig}]
      BY DEF Init
    <3> QED
      BY <3>1, <3>2, <3>3 DEF Init
  <2>6. \A q \in Reloads : pc[q] = "handler" => todo[q] # <<>>
    BY DEF Init
  <2> QED
    BY <2>1, <2>2, <2>3, <2>4, <2>5, <2>6
<1>2. TypeOK /\ [Next]_vars => TypeOK'
  <2> SUFFICES ASSUME TypeOK, [Next]_vars PROVE TypeOK'
    OBVIOUS
  <2>1. ASSUME NEW f \in AllFiles, NEW ok \in BOOLEAN, WriteFile(f, ok)
        PROVE  TypeOK'
    <3>1. FileTypes'
      BY <2>1 DEF WriteFile
    <3>2. StartTypes'
      BY <2>1 DEF WriteFile
    <3>3. StopTypes'
      BY <2>1 DEF WriteFile
    <3>4. ReloadTypes'
      BY <2>1 DEF WriteFile
    <3>5. ViewTypes'
      BY <2>1 DEF WriteFile
    <3>6. \A q \in Reloads : pc'[q] = "handler" => todo'[q] # <<>>
      BY <2>1 DEF WriteFile
    <3> QED
      BY <3>1, <3>2, <3>3, <3>4, <3>5, <3>6
  <2>2. ASSUME NEW f \in AllFiles, ProviderReports(f) PROVE TypeOK'
    BY <2>2 DEF ProviderReports, QueueReload
  <2>3. ASSUME NEW f \in AllFiles, ProviderFails(f) PROVE TypeOK'
    BY <2>3 DEF ProviderFails
  <2>4. CASE StartCall
    <3>1. StartTypes'
      <4>1. starts' \in 0..MaxStarts
        BY <2>4 DEF StartCall
      <4>2. started' \in 0..nprov' /\ nprov' = nprov
        BY <2>4 DEF StartCall
      <4> QED
        BY <2>4, <4>1, <4>2 DEF StartCall
    <3> QED
      BY <2>4, <3>1 DEF StartCall
  <2>5. CASE WatchProvider
    <3>1. FileTypes'
      BY <2>5 DEF WatchProvider
    <3>2. StartTypes'
      BY <2>5 DEF WatchProvider
    <3>3. StopTypes'
      BY <2>5 DEF WatchProvider
    <3>4. ReloadTypes'
      BY <2>5 DEF WatchProvider
    <3>5. ViewTypes'
      BY <2>5 DEF WatchProvider
    <3>6. \A q \in Reloads : pc'[q] = "handler" => todo'[q] # <<>>
      BY <2>5 DEF WatchProvider
    <3> QED
      BY <3>1, <3>2, <3>3, <3>4, <3>5, <3>6
  <2>6. CASE WatchFails
    <3>1. FileTypes'
      BY <2>6 DEF WatchFails, CleanedUp
    <3>2. StartTypes'
      BY <2>6 DEF WatchFails, CleanedUp
    <3>3. StopTypes'
      BY <2>6 DEF WatchFails, CleanedUp
    <3>4. ReloadTypes'
      BY <2>6 DEF WatchFails, CleanedUp
    <3>5. ViewTypes'
      BY <2>6 DEF WatchFails, CleanedUp
    <3>6. \A q \in Reloads : pc'[q] = "handler" => todo'[q] # <<>>
      BY <2>6 DEF WatchFails, CleanedUp
    <3> QED
      BY <3>1, <3>2, <3>3, <3>4, <3>5, <3>6
  <2>7. CASE RunLoop
    BY <2>7 DEF RunLoop
  <2>8. CASE LoopReload
    BY <2>8 DEF LoopReload, ResetTimer
  <2>9. CASE LoopStop
    BY <2>9 DEF LoopStop, StopTimer
  <2>10. CASE LoopCtxDone
    <3>1. FileTypes'
      BY <2>10 DEF LoopCtxDone, BeginClose
    <3>2. StartTypes'
      BY <2>10 DEF LoopCtxDone, BeginClose
    <3>3. StopTypes'
      BY <2>10 DEF LoopCtxDone, BeginClose
    <3>4. ReloadTypes'
      BY <2>10 DEF LoopCtxDone, BeginClose
    <3>5. ViewTypes'
      BY <2>10 DEF LoopCtxDone, BeginClose
    <3>6. \A q \in Reloads : pc'[q] = "handler" => todo'[q] # <<>>
      BY <2>10 DEF LoopCtxDone, BeginClose
    <3> QED
      BY <3>1, <3>2, <3>3, <3>4, <3>5, <3>6
  <2>11. CASE LoopReturn
    BY <2>11 DEF LoopReturn, StopTimer
  <2>12. CASE WaitReturn
    BY <2>12 DEF WaitReturn, StopSignal
  <2>13. CASE Cancel
    BY <2>13 DEF Cancel
  <2>14. ASSUME NEW c \in AllClosers, CloseCall(c) PROVE TypeOK'
    <3>1. FileTypes'
      BY <2>14 DEF CloseCall, BeginClose
    <3>2. StartTypes'
      BY <2>14 DEF CloseCall, BeginClose
    <3>3. StopTypes'
      <4>1. /\ stopped' = TRUE /\ cancelled' = cancelled
            /\ closeAt' = [closeAt EXCEPT ![c] = 1]
        BY <2>14 DEF CloseCall, BeginClose
      <4>2. 1 \in 0..(nprov' + 1) /\ nprov' = nprov
        BY <2>14 DEF CloseCall
      <4> QED
        BY <4>1, <4>2
    <3>4. ReloadTypes'
      BY <2>14 DEF CloseCall, BeginClose
    <3>5. ViewTypes'
      BY <2>14 DEF CloseCall, BeginClose
    <3>6. \A q \in Reloads : pc'[q] = "handler" => todo'[q] # <<>>
      BY <2>14 DEF CloseCall, BeginClose
    <3> QED
      BY <3>1, <3>2, <3>3, <3>4, <3>5, <3>6
  <2>15. ASSUME NEW c \in AllClosers, CloseUnwatch(c) PROVE TypeOK'
    <3>1. FileTypes'
      BY <2>15 DEF CloseUnwatch, Unwatching
    <3>2. StartTypes'
      BY <2>15 DEF CloseUnwatch, Unwatching
    <3>3. StopTypes'
      <4>1. closeAt[c] \in 1..nprov /\ nprov \in Nat /\ nprov' = nprov
        BY <2>15 DEF CloseUnwatch, Unwatching
      <4>2. closeAt[c] + 1 \in 0..(nprov + 1)
        BY <4>1
      <4> QED
        BY <2>15, <4>1, <4>2 DEF CloseUnwatch
    <3>4. ReloadTypes'
      BY <2>15 DEF CloseUnwatch, Unwatching
    <3>5. ViewTypes'
      BY <2>15 DEF CloseUnwatch, Unwatching
    <3>6. \A q \in Reloads : pc'[q] = "handler" => todo'[q] # <<>>
      BY <2>15 DEF CloseUnwatch, Unwatching
    <3> QED
      BY <3>1, <3>2, <3>3, <3>4, <3>5, <3>6
  <2>16. ASSUME NEW r \in Reloads, TimerFire(r) PROVE TypeOK'
    <3>1. FileTypes'
      BY <2>16 DEF TimerFire
    <3>2. StartTypes'
      BY <2>16 DEF TimerFire
    <3>3. StopTypes'
      BY <2>16 DEF TimerFire
    <3>4. ReloadTypes'
      BY <2>16 DEF TimerFire
    <3>5. ViewTypes'
      BY <2>16 DEF TimerFire
    <3>6. \A q \in Reloads : pc'[q] = "handler" => todo'[q] # <<>>
      BY <2>16 DEF TimerFire
    <3> QED
      BY <3>1, <3>2, <3>3, <3>4, <3>5, <3>6
  <2>17. ASSUME NEW r \in Reloads, ReadFile(r) PROVE TypeOK'
    <3>1. got' \in [Reloads -> Versions]
      <4>1. next[r] \in AllFiles /\ disk[next[r]] \in Nat
        <5>1. next[r] \in 1..nprov
          BY <2>17, Zenon DEF ReadFile
        <5>2. 1..nprov \subseteq AllFiles
          OBVIOUS
        <5>3. disk \in Versions
          OBVIOUS
        <5> QED
          BY <5>1, <5>2, <5>3
      <4>2. [got[r] EXCEPT ![next[r]] = disk[next[r]]] \in Versions
        BY <4>1
      <4>3. got' = [got EXCEPT ![r] = [got[r] EXCEPT ![next[r]] = disk[next[r]]]]
        BY <2>17, Zenon DEF ReadFile
      <4>4. got \in [Reloads -> Versions]
        OBVIOUS
      <4> QED
        BY <4>2, <4>3, <4>4, Zenon
    <3>2. next' \in [Reloads -> 1..(nprov' + 1)]
      <4>1. nprov' = nprov /\ next[r] \in 1..nprov /\ nprov \in Nat
        BY <2>17 DEF ReadFile
      <4>2. next[r] + 1 \in 1..(nprov + 1)
        BY ONLY <4>1
      <4> QED
        BY <2>17, <4>1, <4>2 DEF ReadFile
    <3>3. FileTypes' /\ StartTypes' /\ StopTypes' /\ ViewTypes'
      BY <2>17 DEF ReadFile
    <3> QED
      BY <2>17, <3>1, <3>2, <3>3 DEF ReadFile
  <2>18. ASSUME NEW r \in Reloads, FileFails(r) PROVE TypeOK'
    BY <2>18 DEF FileFails, Fail
  <2>19. ASSUME NEW r \in Reloads, SourceFails(r) PROVE TypeOK'
    BY <2>19 DEF SourceFails, Fail
  <2>20. ASSUME NEW r \in Reloads, Publish(r) PROVE TypeOK'
    BY <2>20 DEF Publish, Store
  <2>21. ASSUME NEW r \in Reloads, Notify(r) PROVE TypeOK'
    <3>1. FileTypes'
      BY <2>21 DEF Notify
    <3>2. StartTypes'
      BY <2>21 DEF Notify
    <3>3. StopTypes'
      BY <2>21 DEF Notify
    <3>4. ReloadTypes'
      BY <2>21 DEF Notify
    <3>5. ViewTypes'
      BY <2>21 DEF Notify
    <3>6. \A q \in Reloads : pc'[q] = "handler" => todo'[q] # <<>>
      BY <2>21 DEF Notify
    <3> QED
      BY <3>1, <3>2, <3>3, <3>4, <3>5, <3>6
  <2>22. ASSUME NEW r \in Reloads, CallHandler(r) PROVE TypeOK'
    <3>1. FileTypes'
      BY <2>22 DEF CallHandler
    <3>2. StartTypes'
      BY <2>22 DEF CallHandler
    <3>3. StopTypes'
      BY <2>22 DEF CallHandler
    <3>4. ReloadTypes'
      BY <2>22 DEF CallHandler
    <3>5. ViewTypes'
      BY <2>22 DEF CallHandler
    <3>6. \A q \in Reloads : pc'[q] = "handler" => todo'[q] # <<>>
      BY <2>22 DEF CallHandler
    <3> QED
      BY <3>1, <3>2, <3>3, <3>4, <3>5, <3>6
  <2>23. ASSUME NEW r \in Reloads, HandlerReturns(r) PROVE TypeOK'
    <3>1. FileTypes'
      BY <2>23 DEF HandlerReturns, Remaining
    <3>2. StartTypes'
      BY <2>23 DEF HandlerReturns, Remaining
    <3>3. StopTypes'
      BY <2>23 DEF HandlerReturns, Remaining
    <3>4. ReloadTypes'
      <4>1. Tail(todo[r]) \in Seq(Handlers)
        BY <2>23 DEF HandlerReturns, Remaining
      <4>2. todo' \in [Reloads -> Seq(Handlers)]
        BY <2>23, <4>1 DEF HandlerReturns, Remaining
      <4>3. pc' \in [Reloads -> {"idle", "loading", "loaded", "notify", "handler"}]
        BY <2>23 DEF HandlerReturns, Remaining
      <4> QED
        BY <2>23, <4>2, <4>3 DEF HandlerReturns, Remaining
    <3>5. ViewTypes'
      BY <2>23 DEF HandlerReturns, Remaining
    <3>6. \A q \in Reloads : pc'[q] = "handler" => todo'[q] # <<>>
      BY <2>23 DEF HandlerReturns, Remaining
    <3> QED
      BY <3>1, <3>2, <3>3, <3>4, <3>5, <3>6
  <2>24. ASSUME NEW r \in Reloads, ReloadReturns(r) PROVE TypeOK'
    <3>1. FileTypes'
      BY <2>24 DEF ReloadReturns
    <3>2. StartTypes'
      BY <2>24 DEF ReloadReturns
    <3>3. StopTypes'
      BY <2>24 DEF ReloadReturns
    <3>4. ReloadTypes'
      <4>1. pc' \in [Reloads -> {"idle", "loading", "loaded", "notify", "handler"}]
        BY <2>24 DEF ReloadReturns
      <4>2. nprov' = nprov /\ next' \in [Reloads -> 1..(nprov + 1)]
        BY <2>24 DEF ReloadReturns
      <4>3. got' \in [Reloads -> Versions]
        BY <2>24 DEF ReloadReturns
      <4>4. good' \in [Reloads -> BOOLEAN] /\ todo' = todo
        BY <2>24 DEF ReloadReturns
      <4> QED
        BY <4>1, <4>2, <4>3, <4>4
    <3>5. ViewTypes'
      BY <2>24 DEF ReloadReturns
    <3>6. \A q \in Reloads : pc'[q] = "handler" => todo'[q] # <<>>
      BY <2>24 DEF ReloadReturns
    <3> QED
      BY <3>1, <3>2, <3>3, <3>4, <3>5, <3>6
  <2>25. ASSUME NEW h \in Handlers, OnChange(h) PROVE TypeOK'
    <3>1. FileTypes'
      BY <2>25 DEF OnChange
    <3>2. StartTypes'
      BY <2>25 DEF OnChange
    <3>3. StopTypes'
      BY <2>25 DEF OnChange
    <3>4. ReloadTypes'
      BY <2>25 DEF OnChange
    <3>5. ViewTypes'
      BY <2>25 DEF OnChange
    <3>6. \A q \in Reloads : pc'[q] = "handler" => todo'[q] # <<>>
      BY <2>25 DEF OnChange
    <3> QED
      BY <3>1, <3>2, <3>3, <3>4, <3>5, <3>6
  <2>26. CASE UNCHANGED vars
    BY <2>26 DEF vars
  <2> QED
    BY <2>1, <2>2, <2>3, <2>4, <2>5, <2>6, <2>7, <2>8, <2>9, <2>10, <2>11,
       <2>12, <2>13, <2>14, <2>15, <2>16, <2>17, <2>18, <2>19, <2>20, <2>21,
       <2>22, <2>23, <2>24, <2>25, <2>26 DEF Next, ReloadStep
<1> QED
  BY <1>1, <1>2, PTL DEF Spec
-----------------------------------------------------------------------------
(* Starting and stopping.  While Start sets up providers, only those it has  *)
(* passed are watched; while the loop's Close runs, none of those it has     *)
(* passed is; and outside of run the debounce timer is off.                  *)
StopInv ==
  /\ startPc \in {"new", "failed"} => watching = {} /\ ~token
  /\ startPc = "starting" => watching \subseteq 1..started
  /\ startPc \notin {"running", "closing"} => timer = "off"
  /\ closeAt[Loop] > 0 => startPc \in {"closing", "returned"}
  /\ startPc = "closing" => stopped
  /\ \A c \in AllClosers : closeAt[c] > 0 => stopped
  /\ \A f \in Files : f < closeAt[Loop] => f \notin watching

LEMMA StopInvInit == Init => StopInv
  BY MaxFilesAssumption DEF Init, StopInv, AllClosers, Files

LEMMA StopInvNext == TypeOK /\ StopInv /\ [Next]_vars => StopInv'
<1> SUFFICES ASSUME TypeOK, StopInv, [Next]_vars PROVE StopInv'
  OBVIOUS
<1> USE MaxFilesAssumption, LoopAssumption
        DEF StopInv, TypeOK, FileTypes, StartTypes, StopTypes, Files,
            AllFiles, AllClosers, fileVars, startVars, stopVars
<1>1. ASSUME NEW f \in AllFiles, NEW ok \in BOOLEAN, WriteFile(f, ok) PROVE StopInv'
  BY <1>1 DEF WriteFile
<1>2. ASSUME NEW f \in AllFiles, ProviderReports(f) PROVE StopInv'
  BY <1>2 DEF ProviderReports, QueueReload
<1>3. ASSUME NEW f \in AllFiles, ProviderFails(f) PROVE StopInv'
  BY <1>3 DEF ProviderFails
<1>4. CASE StartCall
  BY <1>4 DEF StartCall
<1>5. CASE WatchProvider
  BY <1>5 DEF WatchProvider
<1>6. CASE WatchFails
  BY <1>6 DEF WatchFails, CleanedUp
<1>7. CASE RunLoop
  BY <1>7 DEF RunLoop
<1>8. CASE LoopReload
  BY <1>8 DEF LoopReload, ResetTimer
<1>9. CASE LoopStop
  BY <1>9 DEF LoopStop, StopTimer
<1>10. CASE LoopCtxDone
  BY <1>10 DEF LoopCtxDone, BeginClose
<1>11. CASE LoopReturn
  BY <1>11 DEF LoopReturn, StopTimer
<1>12. CASE WaitReturn
  BY <1>12 DEF WaitReturn, StopSignal
<1>13. CASE Cancel
  BY <1>13 DEF Cancel
<1>14. ASSUME NEW c \in AllClosers, CloseCall(c) PROVE StopInv'
  BY <1>14 DEF CloseCall, BeginClose
<1>15. ASSUME NEW c \in AllClosers, CloseUnwatch(c) PROVE StopInv'
  <2>1. closeAt' = [closeAt EXCEPT ![c] = closeAt[c] + 1] /\ closeAt[c] > 0
    BY <1>15 DEF CloseUnwatch, Unwatching
  <2>2. /\ UNCHANGED <<nprov, startPc, started, token, timer, stopped>>
        /\ watching' = watching \ {closeAt[c]}
    BY <1>15 DEF CloseUnwatch, Unwatching
  <2>3. stopped
    BY <2>1
  <2>4. closeAt'[Loop] > 0 => closeAt[Loop] > 0
    BY <2>1
  <2>5. ASSUME NEW f \in Files, f < closeAt'[Loop] PROVE f \notin watching'
    <3>1. CASE c = Loop
      <4>1. f < closeAt[Loop] \/ f = closeAt[Loop]
        BY <2>1, <2>5, <3>1
      <4> QED
        BY <2>2, <3>1, <4>1
    <3>2. CASE c # Loop
      BY <2>1, <2>2, <2>5, <3>2
    <3> QED
      BY <3>1, <3>2
  <2> QED
    BY <2>2, <2>3, <2>4, <2>5
<1>16. ASSUME NEW r \in Reloads, TimerFire(r) PROVE StopInv'
  BY <1>16 DEF TimerFire
<1>17. ASSUME NEW r \in Reloads, ReloadStep(r) PROVE StopInv'
  BY <1>17 DEF ReloadStep, ReadFile, FileFails, SourceFails, Publish, Notify,
               CallHandler, HandlerReturns, ReloadReturns, Fail, Store,
               Remaining
<1>18. ASSUME NEW h \in Handlers, OnChange(h) PROVE StopInv'
  BY <1>18 DEF OnChange
<1>19. CASE UNCHANGED vars
  BY <1>19 DEF vars
<1> QED
  BY <1>1, <1>2, <1>3, <1>4, <1>5, <1>6, <1>7, <1>8, <1>9, <1>10, <1>11,
     <1>12, <1>13, <1>14, <1>15, <1>16, <1>17, <1>18, <1>19 DEF Next

LEMMA StopInvariant == Spec => [](TypeOK /\ StopInv)
<1>1. TypeOK /\ StopInv /\ [Next]_vars => StopInv'
  BY StopInvNext
<1> QED
  BY TypeCorrect, StopInvInit, <1>1, PTL DEF Spec

\* After a Start that failed, whatever provider it was that failed and
\* whoever called Close meanwhile, no provider is watched.
THEOREM FailedStart == Spec => []FailedStartWatchesNothing
<1>1. StopInv => FailedStartWatchesNothing
  BY DEF StopInv, FailedStartWatchesNothing
<1> QED
  BY StopInvariant, <1>1, PTL

\* Once the Close called by run on ctx.Done() has been through all the
\* providers, none is watched.
THEOREM CancelledLoop == Spec => []CancelledLoopWatchesNothing
<1>1. TypeOK /\ StopInv => CancelledLoopWatchesNothing
  BY MaxFilesAssumption
     DEF TypeOK, FileTypes, StopTypes, StopInv, CancelledLoopWatchesNothing,
         Files, AllClosers
<1> QED
  BY StopInvariant, <1>1, PTL

\* No step taken after Start has returned begins a reload.
THEOREM NoLateReload == Spec => NoReloadAfterReturn
<1>1. TypeOK /\ StopInv /\ [Next]_vars
        => [startPc = "returned" =>
              \A r \in Reloads : pc[r] = "idle" => pc'[r] = "idle"]_vars
  <2> SUFFICES ASSUME TypeOK, StopInv, Next, startPc = "returned",
                      NEW q \in Reloads, pc[q] = "idle"
               PROVE  pc'[q] = "idle"
    OBVIOUS
  <2> USE DEF StopInv, TypeOK, ReloadTypes, reloadVars
  <2>1. ASSUME NEW r \in Reloads, TimerFire(r) PROVE FALSE
    BY <2>1 DEF TimerFire
  <2>2. ASSUME NEW r \in Reloads, ReloadStep(r) PROVE pc'[q] = "idle"
    BY <2>2 DEF ReloadStep, ReadFile, FileFails, SourceFails, Publish, Notify,
                CallHandler, HandlerReturns, ReloadReturns, Fail, Store,
                Remaining
  <2>3. CASE pc' = pc
    BY <2>3
  <2> QED
    BY <2>1, <2>2, <2>3
       DEF Next, WriteFile, ProviderReports, ProviderFails, StartCall,
           WatchProvider, WatchFails, RunLoop, LoopReload, LoopStop,
           LoopCtxDone, LoopReturn, WaitReturn, Cancel, CloseCall,
           CloseUnwatch, OnChange, QueueReload, CleanedUp, ResetTimer,
           StopTimer, BeginClose, StopSignal, Unwatching
<1> QED
  BY StopInvariant, <1>1, PTL DEF Spec, NoReloadAfterReturn
-----------------------------------------------------------------------------
(* What a reload reads and publishes, when reloads do not overlap.  A load   *)
(* that is under way has read contents at least as new as those Config()     *)
(* shows, and if a file changed after the load read it another reload is     *)
(* queued: this is what makes it right to forget the old failure, and the    *)
(* old pending reloads, when the load publishes.                             *)
LoadInv ==
  \A r \in Reloads : pc[r] = "loading" =>
    \A f \in Files : f < next[r] =>
      /\ cfg[f] <= got[r][f]
      /\ got[r][f] <= disk[f]
      /\ ~stopped /\ missed = {} => got[r][f] = disk[f] \/ Queued

FreshInv ==
  /\ \A r \in Reloads : pc[r] = "idle" => next[r] = 1
  /\ LoadInv
  /\ \A f \in AllFiles : cfg[f] <= disk[f]
  /\ \A f \in AllFiles \ Files : cfg[f] = 0 /\ \A r \in Reloads : got[r][f] = 0
  /\ \A r \in Reloads :
       pc[r] \in {"loaded", "notify", "handler"} /\ good[r] => cfg = got[r]
  /\ FreshOrPending

LEMMA FreshInvInit == Init => FreshInv
<1> SUFFICES ASSUME Init PROVE FreshInv
  OBVIOUS
<1>1. cfg = [f \in AllFiles |-> 0] /\ disk = cfg /\ got = [r \in Reloads |-> cfg]
  BY DEF Init, Unread
<1>2. \A r \in Reloads : pc[r] = "idle" /\ next[r] = 1
  BY DEF Init
<1>3. Files \subseteq AllFiles
  BY MaxFilesAssumption DEF Init, Files, AllFiles
<1> QED
  BY <1>1, <1>2, <1>3 DEF FreshInv, LoadInv, FreshOrPending

\* A step that changes neither files, nor reloads, nor the config, and that
\* does not drop what is queued (unless it stops the watcher or admits that
\* changes were missed).
LEMMA QuietStep ==
  ASSUME FreshInv,
         UNCHANGED <<nprov, disk, broken, pc, next, got, good, cfg, sourceFailed>>,
         stopped => stopped', missed \subseteq missed',
         Queued /\ ~stopped' /\ missed' = {} => Queued'
  PROVE  FreshInv'
<1> USE DEF FreshInv
<1>1. Files' = Files
  BY DEF Files
<1>2. LoadInv'
  BY <1>1 DEF LoadInv
<1>3. FreshOrPending'
  BY <1>1 DEF FreshOrPending, Pending
<1> QED
  BY <1>1, <1>2, <1>3

\* A file is written.
LEMMA WriteStep ==
  ASSUME TypeOK, FreshInv, NEW f \in AllFiles, NEW ok \in BOOLEAN, WriteFile(f, ok)
  PROVE  FreshInv'
<1> USE MaxFilesAssumption
<1>1. /\ UNCHANGED <<nprov, watching, token, timer, stopped, pc, next, got, good,
                    cfg, sourceFailed>>
      /\ f \in Files /\ Files' = Files /\ Files \subseteq AllFiles
      /\ \A g \in AllFiles : disk[g] \in Nat
      /\ disk' = [disk EXCEPT ![f] = disk[f] + 1]
  BY DEF WriteFile, TypeOK, FileTypes, Files, AllFiles, Versions, startVars,
         stopVars, reloadVars, viewVars
<1>2. \A g \in AllFiles : disk'[g] \in Nat /\ disk[g] <= disk'[g]
  BY <1>1 DEF TypeOK, FileTypes, Versions
<1>3. missed' = {} => Queued'
  <2>1. missed' = {} => f \in watching
    BY DEF WriteFile
  <2>2. f \in watching => event'[f]
    BY DEF WriteFile, TypeOK, FileTypes
  <2> QED
    BY <1>1, <2>1, <2>2 DEF Queued
<1>4. \A g \in AllFiles : cfg[g] \in Nat /\ \A r \in Reloads : got[r][g] \in Nat
  BY DEF TypeOK, ReloadTypes, ViewTypes, Versions
<1>5. LoadInv'
  BY <1>1, <1>2, <1>3, <1>4 DEF FreshInv, LoadInv
<1>6. \A g \in AllFiles : cfg[g] <= disk'[g]
  BY <1>1, <1>2, <1>4 DEF FreshInv
<1>7. FreshOrPending'
  BY <1>3 DEF FreshOrPending, Pending
<1> QED
  BY <1>1, <1>5, <1>6, <1>7 DEF FreshInv

\* The timer fires: what was queued is now a load that has read nothing.
LEMMA FireStep ==
  ASSUME TypeOK, FreshInv, SerialReloads, NEW r \in Reloads, TimerFire(r)
  PROVE  FreshInv'
<1> USE MaxFilesAssumption
<1>1. /\ UNCHANGED <<nprov, disk, broken, event, missed, token, stopped, next,
                    got, good, cfg, sourceFailed>>
      /\ pc[r] = "idle" /\ pc' = [pc EXCEPT ![r] = "loading"]
      /\ Files' = Files
  BY DEF TimerFire, fileVars, stopVars, viewVars, Files
<1>2. next[r] = 1 /\ pc'[r] = "loading"
  BY <1>1 DEF FreshInv, TypeOK, ReloadTypes
<1>3. \A f \in Files : 1 <= f /\ ~(f < 1)
  BY DEF TypeOK, FileTypes, Files
<1>4. \A f \in Files : Pending(f)'
  BY <1>1, <1>2, <1>3 DEF Pending
<1>5. FreshOrPending'
  BY <1>1, <1>4 DEF FreshOrPending
<1>6. \A q \in Reloads : q = r
  BY DEF SerialReloads
<1>7. LoadInv'
  BY <1>1, <1>2, <1>3, <1>6 DEF LoadInv
<1> QED
  BY <1>1, <1>2, <1>5, <1>6, <1>7 DEF FreshInv

\* A load reads its next file.
LEMMA ReadStep ==
  ASSUME TypeOK, FreshInv, NEW r \in Reloads, ReadFile(r)
  PROVE  FreshInv'
<1> USE MaxFilesAssumption
<1>1. /\ UNCHANGED <<nprov, disk, broken, event, missed, token, timer, stopped,
                    pc, good, cfg, sourceFailed>>
      /\ pc[r] = "loading" /\ Files' = Files /\ Files \subseteq AllFiles
      /\ next[r] \in Files
  BY DEF ReadFile, TypeOK, FileTypes, fileVars, startVars, stopVars, viewVars,
         Files, AllFiles
<1> DEFINE n == next[r]
<1>2. /\ \A q \in Reloads : got'[q] = IF q = r THEN [got[q] EXCEPT ![n] = disk[n]]
                                              ELSE got[q]
      /\ \A q \in Reloads : next'[q] = IF q = r THEN n + 1 ELSE next[q]
      /\ \A q \in Reloads, f \in AllFiles :
           got'[q][f] = IF q = r /\ f = n THEN disk[n] ELSE got[q][f]
  BY DEF ReadFile, TypeOK, ReloadTypes, Versions
<1>3. \A f \in Files : f \in Nat /\ cfg[f] \in Nat /\ disk[f] \in Nat
  BY <1>1 DEF TypeOK, FileTypes, ViewTypes, Versions, Files
<1>4. \A f \in Files : f < n + 1 <=> f < n \/ f = n
  BY <1>1, <1>3
<1>5. Queued' <=> Queued
  BY <1>1 DEF Queued
<1>6. LoadInv'
  <2> SUFFICES ASSUME NEW q \in Reloads, pc'[q] = "loading",
                      NEW f \in Files, f < next'[q]
               PROVE  /\ cfg[f] <= got'[q][f] /\ got'[q][f] <= disk[f]
                      /\ ~stopped /\ missed = {} => got'[q][f] = disk[f] \/ Queued
    BY <1>1, <1>5 DEF LoadInv
  <2>1. CASE q = r /\ f = n
    BY <1>1, <1>2, <1>3, <2>1 DEF FreshInv
  <2>2. CASE ~(q = r /\ f = n)
    <3>1. f < next[q] /\ got'[q][f] = got[q][f]
      BY <1>1, <1>2, <1>4, <2>2
    <3> QED
      BY <1>1, <3>1 DEF FreshInv, LoadInv
  <2> QED
    BY <2>1, <2>2
<1>7. \A f \in Files : Pending(f) => Pending(f)'
  BY <1>1, <1>2, <1>3, <1>4, <1>5 DEF Pending
<1>8. FreshOrPending'
  BY <1>1, <1>7 DEF FreshInv, FreshOrPending
<1>9. \A f \in AllFiles \ Files, q \in Reloads : got'[q][f] = 0
  BY <1>1, <1>2 DEF FreshInv
<1>10. \A q \in Reloads : pc[q] # "loading" => next'[q] = next[q] /\ got'[q] = got[q]
  BY <1>1, <1>2
<1> QED
  BY <1>1, <1>6, <1>8, <1>9, <1>10 DEF FreshInv

\* A load fails: at a broken file, or in another source, which the ghost
\* variable records.
LEMMA FailStep ==
  ASSUME TypeOK, FreshInv, SerialReloads, NEW r \in Reloads,
         FileFails(r) \/ SourceFails(r)
  PROVE  FreshInv'
<1>1. /\ UNCHANGED <<nprov, disk, broken, event, missed, token, timer, stopped,
                    next, got, cfg>>
      /\ Files' = Files
      /\ \A q \in Reloads : q = r /\ pc'[q] = "loaded" /\ ~good'[q]
  BY DEF FileFails, SourceFails, TypeOK, ReloadTypes, fileVars, startVars,
         stopVars, viewVars, Files, SerialReloads, Fail
<1>2. broken # {} \/ sourceFailed'
  BY DEF FileFails, SourceFails, Fail
<1>3. FreshOrPending' /\ LoadInv'
  BY <1>1, <1>2 DEF FreshOrPending, LoadInv
<1> QED
  BY <1>1, <1>3 DEF FreshInv

\* A load succeeds and its config is stored.
LEMMA PublishStep ==
  ASSUME TypeOK, FreshInv, SerialReloads, NEW r \in Reloads, Publish(r)
  PROVE  FreshInv' /\ \A f \in AllFiles : cfg[f] <= cfg'[f] /\ cfg'[f] <= disk[f]
<1> USE MaxFilesAssumption
<1>1. /\ UNCHANGED <<nprov, disk, broken, event, missed, token, timer, stopped,
                    next, got>>
      /\ pc[r] = "loading" /\ next[r] > nprov /\ cfg' = got[r]
      /\ Files' = Files /\ Files \subseteq AllFiles
      /\ \A q \in Reloads : q = r /\ pc'[q] = "loaded"
  BY DEF Publish, TypeOK, FileTypes, ReloadTypes, fileVars, startVars,
         stopVars, Files, AllFiles, SerialReloads, Store
<1>2. \A f \in Files : f < next[r]
  BY <1>1 DEF TypeOK, FileTypes, ReloadTypes, Files
<1>3. /\ \A f \in Files : cfg[f] <= got[r][f] /\ got[r][f] <= disk[f]
      /\ ~stopped /\ missed = {} => \A f \in Files : got[r][f] = disk[f] \/ Queued
  BY <1>1, <1>2 DEF FreshInv, LoadInv
<1>4. \A f \in AllFiles : cfg[f] <= cfg'[f] /\ cfg'[f] <= disk[f]
  <2>1. \A f \in AllFiles \ Files : cfg[f] = 0 /\ cfg'[f] = 0 /\ cfg[f] <= disk[f]
    BY <1>1 DEF FreshInv
  <2> QED
    BY <1>1, <1>3, <2>1
<1>5. FreshOrPending'
  <2>1. Queued' <=> Queued
    BY <1>1 DEF Queued
  <2> QED
    BY <1>1, <1>3, <2>1 DEF FreshOrPending, Pending
<1>6. LoadInv'
  BY <1>1 DEF LoadInv
<1> QED
  BY <1>1, <1>4, <1>5, <1>6 DEF FreshInv

\* The handlers are called and the goroutine ends.
LEMMA NotifyStep ==
  ASSUME TypeOK, FreshInv, SerialReloads, NEW r \in Reloads,
         Notify(r) \/ CallHandler(r) \/ HandlerReturns(r) \/ ReloadReturns(r)
  PROVE  FreshInv'
<1>1. /\ UNCHANGED <<nprov, disk, broken, event, missed, token, timer, stopped,
                    cfg, sourceFailed>>
      /\ Files' = Files
  BY DEF Notify, CallHandler, HandlerReturns, ReloadReturns, fileVars,
         startVars, stopVars, viewVars, Files, Remaining
<1>2. \A q \in Reloads :
        /\ q = r /\ pc[q] \in {"loaded", "notify", "handler"}
        /\ \/ pc'[q] = "idle" /\ next'[q] = 1 /\ got'[q] = Unread
           \/ /\ pc'[q] \in {"notify", "handler"}
              /\ got'[q] = got[q] /\ good'[q] = good[q]
  BY DEF Notify, CallHandler, HandlerReturns, ReloadReturns, TypeOK,
         ReloadTypes, SerialReloads, Remaining
<1>3. FreshOrPending'
  <2>1. Queued' <=> Queued
    BY <1>1 DEF Queued
  <2> QED
    BY <1>1, <1>2, <2>1 DEF FreshInv, FreshOrPending, Pending
<1>4. LoadInv'
  BY <1>2 DEF LoadInv
<1>5. \A f \in AllFiles \ Files, q \in Reloads : got'[q][f] = 0
  BY <1>2 DEF FreshInv, Unread
<1> QED
  BY <1>1, <1>2, <1>3, <1>4, <1>5 DEF FreshInv

LEMMA FreshInvNext ==
  TypeOK /\ StopInv /\ FreshInv /\ SerialReloads /\ [Next]_vars => FreshInv'
<1> SUFFICES ASSUME TypeOK, StopInv, FreshInv, SerialReloads, [Next]_vars
             PROVE  FreshInv'
  OBVIOUS
<1> USE MaxFilesAssumption
        DEF TypeOK, FileTypes, StopTypes, StopInv, Queued, Files, AllFiles,
            AllClosers, fileVars, startVars, stopVars, reloadVars, viewVars
<1>1. ASSUME NEW f \in AllFiles, NEW ok \in BOOLEAN, WriteFile(f, ok)
      PROVE  FreshInv'
  BY <1>1, WriteStep
<1>2. ASSUME NEW f \in AllFiles, ProviderReports(f) PROVE FreshInv'
  BY <1>2, QuietStep DEF ProviderReports, QueueReload
<1>3. ASSUME NEW f \in AllFiles, ProviderFails(f) PROVE FreshInv'
  BY <1>3, QuietStep DEF ProviderFails
<1>4. CASE StartCall
  BY <1>4, QuietStep DEF StartCall
<1>5. CASE WatchProvider
  BY <1>5, QuietStep DEF WatchProvider
<1>6. CASE WatchFails
  BY <1>6, QuietStep DEF WatchFails, StartTypes, CleanedUp
<1>7. CASE RunLoop
  BY <1>7, QuietStep DEF RunLoop
<1>8. CASE LoopReload
  BY <1>8, QuietStep DEF LoopReload, ResetTimer
<1>9. CASE LoopStop
  BY <1>9, QuietStep DEF LoopStop, StopTimer
<1>10. CASE LoopCtxDone
  BY <1>10, QuietStep DEF LoopCtxDone, BeginClose
<1>11. CASE LoopReturn
  BY <1>11, QuietStep DEF LoopReturn, StopTimer
<1>12. CASE WaitReturn
  BY <1>12, QuietStep DEF WaitReturn, StopSignal
<1>13. CASE Cancel
  BY <1>13, QuietStep DEF Cancel
<1>14. ASSUME NEW c \in AllClosers, CloseCall(c) PROVE FreshInv'
  BY <1>14, QuietStep DEF CloseCall, BeginClose
<1>15. ASSUME NEW c \in AllClosers, CloseUnwatch(c) PROVE FreshInv'
  BY <1>15, QuietStep DEF CloseUnwatch, Unwatching
<1>16. ASSUME NEW r \in Reloads, TimerFire(r) PROVE FreshInv'
  BY <1>16, FireStep
<1>17. ASSUME NEW r \in Reloads, ReloadStep(r) PROVE FreshInv'
  BY <1>17, ReadStep, FailStep, PublishStep, NotifyStep DEF ReloadStep
<1>18. ASSUME NEW h \in Handlers, OnChange(h) PROVE FreshInv'
  BY <1>18, QuietStep DEF OnChange
<1>19. CASE UNCHANGED vars
  BY <1>19, QuietStep DEF vars
<1> QED
  BY <1>1, <1>2, <1>3, <1>4, <1>5, <1>6, <1>7, <1>8, <1>9, <1>10, <1>11,
     <1>12, <1>13, <1>14, <1>15, <1>16, <1>17, <1>18, <1>19 DEF Next

LEMMA FreshInvariant ==
  ASSUME SerialReloads PROVE Spec => [](TypeOK /\ StopInv /\ FreshInv)
<1>1. TypeOK /\ StopInv /\ FreshInv /\ [Next]_vars => FreshInv'
  BY FreshInvNext
<1> QED
  BY StopInvariant, FreshInvInit, <1>1, PTL DEF Spec

\* When reloads do not overlap, no change gets stuck on its way from the
\* provider to Config().
THEOREM NoChangeStuck ==
  ASSUME SerialReloads PROVE Spec => []FreshOrPending
<1>1. FreshInv => FreshOrPending
  BY DEF FreshInv
<1> QED
  BY FreshInvariant, <1>1, PTL

\* When reloads do not overlap, a handler called after a successful load finds
\* the config it was given in Config().
THEOREM HandlerSees ==
  ASSUME SerialReloads PROVE Spec => []HandlerSeesItsConfig
<1>1. FreshInv => HandlerSeesItsConfig
  BY DEF FreshInv, HandlerSeesItsConfig
<1> QED
  BY FreshInvariant, <1>1, PTL

\* When reloads do not overlap, Config() only moves forward, to contents the
\* files have had: the watcher implements ConfigView.
THEOREM ImplementsConfigView ==
  ASSUME SerialReloads PROVE Spec => RefinesConfigView
<1>1. Init => View!Init
  BY DEF Init, View!Init, Unread
<1>2. TypeOK /\ FreshInv /\ [Next]_vars => [View!Next]_(View!vars)
  <2> SUFFICES ASSUME TypeOK, FreshInv, [Next]_vars
               PROVE  [View!Next]_(View!vars)
    OBVIOUS
  <2>1. ASSUME NEW f \in AllFiles, NEW ok \in BOOLEAN, WriteFile(f, ok)
        PROVE  View!Next
    BY <2>1 DEF WriteFile, View!Next, View!Write, viewVars
  <2>2. ASSUME NEW r \in Reloads, Publish(r)
        PROVE  View!Next
    <3>1. cfg' \in [AllFiles -> Nat] /\ disk' = disk
      BY <2>2 DEF Publish, TypeOK, ReloadTypes, Versions, fileVars, Store
    <3> QED
      BY <2>2, <3>1, PublishStep DEF View!Next, View!Publish
  <2>3. ASSUME NEW r \in Reloads, ReloadStep(r), ~Publish(r)
        PROVE  UNCHANGED <<disk, cfg>>
    BY <2>3 DEF ReloadStep, ReadFile, FileFails, SourceFails, Notify,
                CallHandler, HandlerReturns, ReloadReturns, fileVars, viewVars,
                Fail, Remaining
  <2>4. CASE UNCHANGED <<disk, cfg>>
    BY <2>4 DEF View!vars
  <2> QED
    BY <2>1, <2>2, <2>3, <2>4
       DEF Next, ProviderReports, ProviderFails, StartCall, WatchProvider,
           WatchFails, RunLoop, LoopReload, LoopStop, LoopCtxDone, LoopReturn,
           WaitReturn, Cancel, CloseCall, CloseUnwatch, TimerFire, OnChange,
           vars, fileVars, viewVars, QueueReload, CleanedUp, ResetTimer,
           StopTimer, BeginClose, StopSignal, Unwatching
<1> QED
  BY FreshInvariant, <1>1, <1>2, PTL DEF Spec, RefinesConfigView, View!Spec
-----------------------------------------------------------------------------
(* No handler is left behind.  A handler whose last config is not the one    *)
(* Config() shows is still to be called by a reload that has published.      *)
Subscribed(h) == \E i \in DOMAIN subs : subs[i] = h
InTodo(r, h, from) == \E i \in DOMAIN todo[r] : i >= from /\ todo[r][i] = h

ToBeCalled(r, h) ==
  /\ good[r]
  /\ \/ pc[r] = "loaded"
     \/ pc[r] = "notify" /\ InTodo(r, h, 1)
     \/ pc[r] = "handler" /\ InTodo(r, h, 2)

HandlersInv ==
  \A h \in Handlers :
    /\ applied[h] # NoConfig =>
         /\ Subscribed(h)
         /\ applied[h] = cfg \/ \E r \in Reloads : ToBeCalled(r, h)
    /\ \A r \in Reloads : InTodo(r, h, 1) => Subscribed(h)

\* A step that changes neither reloads, nor the config, nor who was given what.
LEMMA HandlersQuiet ==
  ASSUME HandlersInv, UNCHANGED <<pc, good, todo, cfg, applied>>,
         \A h \in Handlers : Subscribed(h) => Subscribed(h)'
  PROVE  HandlersInv'
BY DEF HandlersInv, ToBeCalled, InTodo

LEMMA HandlersInvNext ==
  TypeOK /\ FreshInv /\ HandlersInv /\ SerialReloads /\ [Next]_vars => HandlersInv'
<1> SUFFICES ASSUME TypeOK, FreshInv, HandlersInv, SerialReloads, [Next]_vars
             PROVE  HandlersInv'
  OBVIOUS
<1> USE DEF fileVars, startVars, stopVars, reloadVars, viewVars
<1>1. ASSUME UNCHANGED <<pc, good, todo, cfg, applied, subs>> PROVE HandlersInv'
  BY <1>1, HandlersQuiet DEF Subscribed
<1>2. ASSUME NEW h \in Handlers, OnChange(h) PROVE HandlersInv'
  <2>1. subs \in Seq(Handlers) /\ subs' = Append(subs, h)
    BY <1>2 DEF OnChange, TypeOK, ViewTypes
  <2>2. \A g \in Handlers : Subscribed(g) => Subscribed(g)'
    BY <2>1 DEF Subscribed
  <2> QED
    BY <1>2, <2>2, HandlersQuiet DEF OnChange
<1>3. ASSUME NEW r \in Reloads, ReloadStep(r) \/ TimerFire(r) PROVE HandlersInv'
  <2>1. \A q \in Reloads : q = r
    BY DEF SerialReloads
  <2>2. /\ pc \in [Reloads -> {"idle", "loading", "loaded", "notify", "handler"}]
        /\ good \in [Reloads -> BOOLEAN] /\ todo \in [Reloads -> Seq(Handlers)]
        /\ applied \in [Handlers -> Versions \cup {NoConfig}]
        /\ subs \in Seq(Handlers)
    BY DEF TypeOK, ReloadTypes, ViewTypes
  <2> SUFFICES ASSUME NEW h \in Handlers
               PROVE  /\ applied'[h] # NoConfig =>
                           Subscribed(h)' /\ (applied'[h] = cfg' \/ ToBeCalled(r, h)')
                      /\ InTodo(r, h, 1)' => Subscribed(h)'
    BY <2>1 DEF HandlersInv
  <2>3. CASE TimerFire(r) \/ ReadFile(r) \/ FileFails(r) \/ SourceFails(r)
    <3>1. pc[r] \in {"idle", "loading"} /\ UNCHANGED <<cfg, applied, subs, todo>>
      BY <2>3 DEF TimerFire, ReadFile, FileFails, SourceFails, Fail
    <3>2. ~ToBeCalled(r, h)
      BY <3>1 DEF ToBeCalled
    <3> QED
      BY <2>1, <3>1, <3>2 DEF HandlersInv, Subscribed, InTodo
  <2>4. CASE Publish(r)
    <3>1. pc'[r] = "loaded" /\ good'[r] /\ UNCHANGED <<applied, subs, todo>>
      BY <2>2, <2>4 DEF Publish
    <3> QED
      BY <3>1 DEF HandlersInv, Subscribed, ToBeCalled, InTodo
  <2>5. CASE Notify(r)
    <3>1. /\ pc[r] = "loaded" /\ pc'[r] = "notify" /\ todo'[r] = subs
          /\ UNCHANGED <<good, cfg, applied, subs>>
      BY <2>2, <2>5 DEF Notify
    <3>2. Subscribed(h)' <=> InTodo(r, h, 1)'
      BY <2>2, <3>1 DEF Subscribed, InTodo
    <3>3. applied'[h] # NoConfig => Subscribed(h)'
      BY <3>1 DEF HandlersInv, Subscribed
    <3> QED
      BY <2>1, <3>1, <3>2, <3>3 DEF HandlersInv, ToBeCalled
  <2>6. CASE CallHandler(r)
    <3>1. /\ pc[r] = "notify" /\ pc'[r] = "handler"
          /\ UNCHANGED <<good, todo, cfg, subs, got>> /\ todo[r] \in Seq(Handlers)
          /\ todo[r] # <<>>
          /\ InTodo(r, h, 1)' => Subscribed(h)'
      BY <2>2, <2>6 DEF CallHandler, HandlersInv, InTodo, Subscribed
    <3>2. CASE good[r] /\ h = Head(todo[r])
      <4>1. applied'[h] = got[r] /\ cfg = got[r]
        BY <2>2, <2>6, <3>1, <3>2 DEF CallHandler, FreshInv
      <4> QED
        BY <3>1, <3>2, <4>1 DEF InTodo
    <3>3. CASE ~(good[r] /\ h = Head(todo[r]))
      <4>1. applied'[h] = applied[h]
        BY <2>2, <2>6, <3>3 DEF CallHandler
      <4>2. good[r] /\ InTodo(r, h, 1) => InTodo(r, h, 2)
        BY <3>1, <3>3 DEF InTodo
      <4> QED
        BY <2>1, <3>1, <4>1, <4>2 DEF HandlersInv, Subscribed, ToBeCalled, InTodo
    <3> QED
      BY <3>2, <3>3
  <2>7. CASE HandlerReturns(r)
    <3>1. /\ pc[r] = "handler" /\ pc'[r] = "notify"
          /\ todo'[r] = Tail(todo[r]) /\ todo[r] \in Seq(Handlers)
          /\ todo[r] # <<>>
          /\ UNCHANGED <<good, cfg, applied, subs>>
      BY <2>2, <2>7 DEF HandlerReturns, Remaining, TypeOK
    <3>2. InTodo(r, h, 2) => InTodo(r, h, 1)'
      <4> SUFFICES ASSUME NEW i \in DOMAIN todo[r], i >= 2, todo[r][i] = h
                   PROVE  InTodo(r, h, 1)'
        BY DEF InTodo
      <4>1. i - 1 \in DOMAIN todo'[r] /\ todo'[r][i - 1] = h /\ i - 1 >= 1
        BY <3>1
      <4> QED
        BY <4>1 DEF InTodo
    <3>3. InTodo(r, h, 1)' => InTodo(r, h, 1)
      <4> SUFFICES ASSUME NEW i \in DOMAIN todo'[r], i >= 1, todo'[r][i] = h
                   PROVE  InTodo(r, h, 1)
        BY DEF InTodo
      <4>1. i + 1 \in DOMAIN todo[r] /\ todo[r][i + 1] = h /\ i + 1 >= 1
        BY <3>1
      <4> QED
        BY <4>1 DEF InTodo
    <3> QED
      BY <2>1, <3>1, <3>2, <3>3 DEF HandlersInv, Subscribed, ToBeCalled
  <2>8. CASE ReloadReturns(r)
    <3>1. pc[r] = "notify" /\ todo[r] = <<>> /\ UNCHANGED <<cfg, applied, subs, todo>>
      BY <2>8 DEF ReloadReturns
    <3>2. ~InTodo(r, h, 1)
      BY <3>1 DEF InTodo
    <3> QED
      BY <2>1, <3>1, <3>2 DEF HandlersInv, Subscribed, ToBeCalled, InTodo
  <2> QED
    BY <1>3, <2>3, <2>4, <2>5, <2>6, <2>7, <2>8 DEF ReloadStep
<1> QED
  BY <1>1, <1>2, <1>3
     DEF Next, WriteFile, ProviderReports, ProviderFails, StartCall,
         WatchProvider, WatchFails, RunLoop, LoopReload, LoopStop, LoopCtxDone,
         LoopReturn, WaitReturn, Cancel, CloseCall, CloseUnwatch, BeginClose,
         QueueReload, ResetTimer, StopTimer, vars

LEMMA HandlersInvariant ==
  ASSUME SerialReloads PROVE Spec => [](TypeOK /\ FreshInv /\ HandlersInv)
<1>1. Init => HandlersInv
  BY DEF Init, HandlersInv, InTodo
<1>2. TypeOK /\ FreshInv /\ HandlersInv /\ [Next]_vars => HandlersInv'
  BY HandlersInvNext
<1> QED
  BY FreshInvariant, <1>1, <1>2, PTL DEF Spec

\* When reloads do not overlap, every handler that was ever called has, between
\* reloads, been given the config that Config() shows.
THEOREM NoHandlerLeftBehind ==
  ASSUME SerialReloads PROVE Spec => []HandlersUpToDate
<1>1. HandlersInv => HandlersUpToDate
  BY DEF HandlersInv, HandlersUpToDate, ToBeCalled
<1> QED
  BY HandlersInvariant, <1>1, PTL
=============================================================================

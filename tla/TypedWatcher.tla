---------------------------- MODULE TypedWatcher ----------------------------
(* configx.WatcherT: a Watcher whose handlers are wrapped.  The wrapper       *)
(* decodes the new config into a T, validates it, stores it as the current   *)
(* typed snapshot and calls the client's function with it.  The base watcher *)
(* is module Watcher, step for step; only the call of a handler does more.   *)
EXTENDS Watcher

VARIABLES
  current,      \* w.current, as the versions the T was decoded from
  rejected      \* contents that decode or validate into no T

typedVars == <<vars, current, rejected>>

\* The contents files can come to have, and those a T can be made of.
Contents == [AllFiles -> 0..MaxVersion]
Valid(v) == v \notin rejected

\* newWatcherTFromOptions: the initial config must decode and validate.
TypedInit ==
  /\ Init
  /\ current = cfg
  /\ rejected \in SUBSET (Contents \ {current})

\* Slips: the T is stored unchecked; by the last handler alone; not when a
\* newer one is due; and as the zero T on an error.
StoreUnchecked(r) == current' = IF good[r] THEN got[r] ELSE current
StoreByLast(r) == current' = IF good[r] /\ Valid(got[r]) /\ Tail(todo[r]) = <<>>
                             THEN got[r] ELSE current
StoreUnlessDue(r) == current' = IF good[r] /\ Valid(got[r]) /\ timer = "off"
                                THEN got[r] ELSE current
StoreZero(r) == current' = IF good[r] /\ Valid(got[r]) THEN got[r] ELSE Unread

\* The wrapper passes errors on, and a T that does not decode or validate
\* becomes an error; otherwise the T is stored.
StoreTyped(r) == current' = IF good[r] /\ Valid(got[r]) THEN got[r] ELSE current

\* A wrapped handler is called.
TypedCallback(r) == CallHandler(r) /\ StoreTyped(r) /\ UNCHANGED rejected

\* Everything else is the base watcher's.
BaseStep ==
  /\ Next
  /\ \A r \in Reloads : ~(pc[r] = "notify" /\ pc'[r] = "handler")
  /\ UNCHANGED <<current, rejected>>

TypedNext == BaseStep \/ \E r \in Reloads : TypedCallback(r)

TypedSpec == TypedInit /\ [][TypedNext]_typedVars
-----------------------------------------------------------------------------
(* Properties.                                                               *)

\* The typed snapshot always decodes and validates, whatever is on disk, in
\* Config() or on its way to a handler (watch.go:231-232).
TypedSnapshotValid == Valid(current)

\* While a typed handler runs with a T, Config() of the typed watcher returns
\* that T and RawConfig() the config it was decoded from.
TypedHandlerSees ==
  \A r \in Reloads :
    pc[r] = "handler" /\ good[r] /\ Valid(got[r]) => current = got[r] /\ cfg = got[r]

\* Between reloads the typed snapshot is the raw config's, if that is valid
\* and any handler has been given it.
TypedCatchesUp ==
  (\A r \in Reloads : pc[r] = "idle") /\ Valid(cfg)
      /\ (\E h \in Handlers : applied[h] = cfg)
    => current = cfg

\* The typed snapshot only moves forward, like the raw one.
TypedView == INSTANCE ConfigView WITH Sources <- AllFiles, view <- current
TypedRefinesConfigView == TypedView!Spec

\* A typed watcher publishes a T on every successful reload
\* (loader.go:114-115): between reloads its snapshot is the raw config's, if
\* that is valid.
TypedPublishesEveryReload ==
  (\A r \in Reloads : pc[r] = "idle") /\ Valid(cfg) => current = cfg
=============================================================================

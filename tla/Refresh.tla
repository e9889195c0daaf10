------------------------------ MODULE Refresh ------------------------------
(***************************************************************************)
(* internal/refresh: one refresh of everything a state records.  The       *)
(* owner's loop starts a worker per resource, in address order, and takes  *)
(* a global slot for it; the worker then takes a slot of its provider,     *)
(* reads, and gives both back.                                             *)
(***************************************************************************)
EXTENDS Naturals, FiniteSets

CONSTANTS
  Recorded,     \* how many resources the state records
  ProviderOf,   \* resource -> its provider, or Unregistered
  Unregistered,
  Parallelism,  \* global slots
  PerProvider,  \* slots of each provider
  Attempts      \* the read retry policy's MaxAttempts

ASSUME RefreshAssumption ==
  /\ Recorded \in Nat /\ DOMAIN ProviderOf = 1..Recorded
  /\ {Parallelism, PerProvider, Attempts} \subseteq Nat \ {0}

VARIABLES
  next,       \* the resource the owner's loop is at
  worker,     \* each worker: unborn, queued, reading, observed or over
  global,     \* global slots free
  room,       \* each provider's slots free
  tries,      \* attempts made by each worker
  obs,        \* what is known of each resource: nothing yet, there, gone or error
  there,      \* whether the provider has it
  ctx,        \* live or cancelled
  returned

refreshVars == <<next, worker, global, room, tries, obs, there, ctx, returned>>

Resources == 1..Recorded
Providers == {ProviderOf[i] : i \in Resources} \ {Unregistered}

RefreshInit ==
  /\ next = 1 /\ worker = [i \in Resources |-> "unborn"]
  /\ global = Parallelism /\ room = [p \in Providers |-> PerProvider]
  /\ tries = [i \in Resources |-> 0] /\ obs = [i \in Resources |-> "nothing"]
  /\ there \in [Resources -> BOOLEAN]
  /\ ctx = "live" /\ returned = FALSE

\* The owner's loop waits here when no slot is free.
Dispatch ==
  /\ next <= Recorded /\ global > 0
  /\ global' = global - 1
  /\ worker' = [worker EXCEPT ![next] = "queued"]
  /\ next' = next + 1
  /\ UNCHANGED <<room, tries, obs, there, ctx, returned>>

\* A resource whose provider is not registered needs no slot of one.
TakeRoom(i) ==
  /\ worker[i] = "queued"
  /\ \/ ProviderOf[i] = Unregistered /\ UNCHANGED room
     \/ /\ ProviderOf[i] # Unregistered /\ room[ProviderOf[i]] > 0
        /\ room' = [room EXCEPT ![ProviderOf[i]] = @ - 1]
  /\ worker' = [worker EXCEPT ![i] = "reading"]
  /\ UNCHANGED <<next, global, tries, obs, there, ctx, returned>>

Observe(i, what) ==
  /\ obs' = [obs EXCEPT ![i] = what]
  /\ worker' = [worker EXCEPT ![i] = "observed"]
  /\ UNCHANGED tries

\* Another attempt, after a wait that a cancellation cuts short.
TryAgain(i) ==
  /\ ctx = "live" /\ tries[i] + 1 < Attempts
  /\ tries' = [tries EXCEPT ![i] = @ + 1]
  /\ UNCHANGED <<obs, worker>>

(***************************************************************************)
(* readOne: what the provider says, or an error: the type is no longer     *)
(* registered, the run was cancelled, or the read failed for good.  A read *)
(* that had begun may still answer after a cancellation.                   *)
(***************************************************************************)
ReadOne(i) ==
  /\ worker[i] = "reading"
  /\ \/ Observe(i, "error")
     \/ /\ ProviderOf[i] # Unregistered
        /\ \/ Observe(i, IF there[i] THEN "there" ELSE "gone")
           \/ TryAgain(i)
  /\ UNCHANGED <<next, global, room, there, ctx, returned>>

GiveBack(i) ==
  IF ProviderOf[i] = Unregistered THEN room
  ELSE [room EXCEPT ![ProviderOf[i]] = @ + 1]

\* Mutant: a worker whose read failed keeps its provider's slot.
ReleaseUnlessFailed(i) ==
  /\ worker[i] = "observed"
  /\ worker' = [worker EXCEPT ![i] = "over"]
  /\ global' = global + 1
  /\ room' = IF obs[i] = "error" THEN room ELSE GiveBack(i)
  /\ UNCHANGED <<next, tries, obs, there, ctx, returned>>

\* The deferred releases, whatever the read came to.
Release(i) ==
  /\ worker[i] = "observed"
  /\ worker' = [worker EXCEPT ![i] = "over"]
  /\ global' = global + 1
  /\ room' = GiveBack(i)
  /\ UNCHANGED <<next, tries, obs, there, ctx, returned>>

\* Mutant: the loop's end is taken for the workers' end.
ReturnAtOnce ==
  /\ ~returned /\ next > Recorded
  /\ returned' = TRUE
  /\ UNCHANGED <<next, worker, global, room, tries, obs, there, ctx>>

\* wg.Wait; what is returned is in address order, whoever finished first.
Return ==
  /\ ~returned /\ next > Recorded
  /\ \A i \in Resources : worker[i] = "over"
  /\ returned' = TRUE
  /\ UNCHANGED <<next, worker, global, room, tries, obs, there, ctx>>

\* Ctrl-C, in `infrena refresh`.
CancelRefresh ==
  /\ ctx = "live" /\ ~returned
  /\ ctx' = "cancelled"
  /\ UNCHANGED <<next, worker, global, room, tries, obs, there, returned>>

\* Someone deletes an object while the refresh runs.
Deleted(i) ==
  /\ there[i] /\ ~returned
  /\ there' = [there EXCEPT ![i] = FALSE]
  /\ UNCHANGED <<next, worker, global, room, tries, obs, ctx, returned>>

Work(i) == TakeRoom(i) \/ ReadOne(i) \/ Release(i)
OwnerStep == Dispatch \/ Return

RefreshNext ==
  \/ OwnerStep \/ CancelRefresh
  \/ \E i \in Resources : Work(i) \/ Deleted(i)

RefreshSpec ==
  /\ RefreshInit /\ [][RefreshNext]_refreshVars
  /\ WF_refreshVars(OwnerStep) /\ \A i \in Resources : WF_refreshVars(Work(i))

-----------------------------------------------------------------------------
(***************************************************************************)
(* refresh.go:104-130.  What Refresh returns says something of every        *)
(* recorded resource, and that one is gone only if its provider, asked     *)
(* during this refresh, no longer had it: never because a read failed, was *)
(* cancelled or never happened.                                            *)
(***************************************************************************)
ObservedInFull ==
  /\ returned => \A i \in Resources : obs[i] # "nothing"
  /\ \A i \in Resources : obs[i] = "gone" => ~there[i] /\ ProviderOf[i] # Unregistered

(***************************************************************************)
(* refresh.go:108-117.  Every refresh ends: workers that wait for one      *)
(* saturated provider may hold every global slot, and still the loop, the  *)
(* other providers' resources and the cancelled reads get through.         *)
(***************************************************************************)
RefreshEnds == <>returned
=============================================================================

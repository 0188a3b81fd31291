--------------------------- MODULE ProviderAccess ---------------------------
(* The provider access port (providerAccess.js): registered adapters, the one    *)
(* selected for each kind, and the table of pinned results that guests read       *)
(* through a handle.  An adapter answers at once or later; a call that waits      *)
(* keeps the adapter it was given.  Costs are small numbers, the planes of a      *)
(* result are the call that acquired it.                                          *)
EXTENDS Naturals, FiniteSets

CONSTANTS
  AdapterIds, ProviderKinds, Costs,
  DeclaredCost,      \* per id: costClass
  LaterIds,          \* adapters that return a promise
  PaCalls,           \* calls, in the order they are made: 1..n
  MaxRegistrations

VARIABLES
  adapters,       \* per id: kind, declared cost, and whether it answers later
  selected,       \* per kind: an id, or ""
  pinned,         \* handles in the table
  nextHandle,
  paCall,         \* per call
  lastError,      \* the call whose failure provider.lastError reports, or 0
  registrations

paVars == <<adapters, selected, pinned, nextHandle, paCall, lastError, registrations>>

NoAdapter == [kind |-> "", cost |-> 0, later |-> FALSE]
NoPaCall == [pc |-> "new", op |-> "", id |-> "", kind |-> "", adapter |-> NoAdapter, max |-> 0, handle |-> 0]
Registered(id) == id # "" /\ adapters[id] # NoAdapter

PaInit ==
  /\ adapters = [id \in AdapterIds |-> NoAdapter] /\ selected = [k \in ProviderKinds |-> ""]
  /\ pinned = {} /\ nextHandle = 1 /\ paCall = [c \in PaCalls |-> NoPaCall]
  /\ lastError = 0 /\ registrations = 0

\* The first adapter of a kind is selected.
registerAdapter(id, kind) ==
  /\ registrations < MaxRegistrations
  /\ registrations' = registrations + 1
  /\ adapters' = [adapters EXCEPT ![id] = [kind |-> kind, cost |-> DeclaredCost[id], later |-> id \in LaterIds]]
  /\ selected' = [selected EXCEPT ![kind] = IF @ = "" THEN id ELSE @]
  /\ UNCHANGED <<pinned, nextHandle, paCall, lastError>>

fails(c) ==
  /\ paCall' = [paCall EXCEPT ![c].pc = "failed"] /\ lastError' = c
succeeds(c, handle) ==
  /\ paCall' = [paCall EXCEPT ![c].pc = "done", ![c].handle = handle] /\ lastError' = 0
waits(c) == paCall' = [paCall EXCEPT ![c].pc = "waiting"] /\ UNCHANGED lastError

----------------------------------------------------------------------------
\* A call is made with a provider id, or for a kind.
made(c, op, id, kind, max) ==
  /\ paCall[c].pc = "new" /\ \A d \in PaCalls : d < c => paCall[d].pc # "new"
  /\ LET found == IF id # "" THEN id ELSE selected[kind]
     IN paCall' = [paCall EXCEPT ![c] =
          [pc |-> "run", op |-> op, id |-> found, kind |-> kind, max |-> max, handle |-> 0,
           adapter |-> IF Registered(found) THEN adapters[found] ELSE NoAdapter]]
  /\ UNCHANGED <<adapters, selected, pinned, nextHandle, lastError, registrations>>

\* Calls run to completion before the next is made, unless the adapter waits.
NoneRuns == \A c \in PaCalls : paCall[c].pc # "run"
callSelect(c, id, kind) == NoneRuns /\ made(c, "select", id, kind, 0)
callAcquire(c, id, kind, max) == NoneRuns /\ made(c, "acquire", id, kind, max)

Of(c) == paCall[c].adapter

selectable(c) == Of(c) # NoAdapter /\ Of(c).kind = paCall[c].kind

\* The ceiling on the declared cost, before the adapter is called.
affordable(c) == Of(c) # NoAdapter /\ Of(c).cost <= paCall[c].max

admitted(c) == IF paCall[c].op = "select" THEN selectable(c) ELSE affordable(c)

Start(c) ==
  /\ paCall[c].pc = "run"
  /\ \/ ~admitted(c) /\ fails(c)
     \/ admitted(c) /\ Of(c).later /\ waits(c)
  /\ UNCHANGED <<adapters, selected, pinned, nextHandle, registrations>>

\* The adapter has answered, in the same turn or later.
Answered(c) ==
  paCall[c].pc = "waiting" \/ (paCall[c].pc = "run" /\ admitted(c) /\ ~Of(c).later)

select(c) ==
  /\ Answered(c) /\ paCall[c].op = "select"
  /\ selected' = [selected EXCEPT ![paCall[c].kind] = paCall[c].id]
  /\ succeeds(c, 0)
  /\ UNCHANGED <<adapters, pinned, nextHandle, registrations>>

freshHandle(next) == next

trustsBaseline(c, cost) == TRUE
withinCeiling(c, cost) == cost <= paCall[c].max

\* pin: the actual cost may be above the declared one and is checked again.
pin(c, cost) ==
  /\ Answered(c) /\ paCall[c].op = "acquire"
  /\ IF withinCeiling(c, cost)
     THEN /\ pinned' = pinned \cup {[handle |-> freshHandle(nextHandle), of |-> c, cost |-> cost]}
          /\ nextHandle' = nextHandle + 1
          /\ succeeds(c, freshHandle(nextHandle))
     ELSE fails(c) /\ UNCHANGED <<pinned, nextHandle>>
  /\ UNCHANGED <<adapters, selected, registrations>>

adapterFails(c) ==
  /\ Answered(c)
  /\ fails(c)
  /\ UNCHANGED <<adapters, selected, pinned, nextHandle, registrations>>

release(h) ==
  /\ NoneRuns /\ \E e \in pinned : e.handle = h
  /\ pinned' = {e \in pinned : e.handle # h}
  /\ lastError' = 0
  /\ UNCHANGED <<adapters, selected, nextHandle, paCall, registrations>>

releaseAll ==
  /\ NoneRuns /\ pinned # {} /\ pinned' = {}
  /\ UNCHANGED <<adapters, selected, nextHandle, paCall, lastError, registrations>>

PaNext ==
  \/ \E id \in AdapterIds, k \in ProviderKinds : NoneRuns /\ registerAdapter(id, k)
  \/ \E c \in PaCalls :
       \/ \E id \in AdapterIds, k \in ProviderKinds : callSelect(c, id, k)
       \/ \E id \in AdapterIds \cup {""}, k \in ProviderKinds, max \in Costs : callAcquire(c, id, k, max)
       \/ Start(c) \/ select(c) \/ adapterFails(c)
       \/ \E cost \in Costs : pin(c, cost)
  \/ \E h \in 1..nextHandle : release(h)
  \/ releaseAll

PaSpec == PaInit /\ [][PaNext]_paVars

----------------------------------------------------------------------------
\* No result dearer than its caller allowed is ever pinned, whatever the adapter
\* declared, and no adapter that declares more than that is waited for
\* (assertWithinCost in acquire and in pin).
CeilingHolds ==
  /\ \A e \in pinned : e.cost <= paCall[e.of].max
  /\ \A c \in PaCalls : paCall[c].pc = "waiting" /\ paCall[c].op = "acquire" => Of(c).cost <= paCall[c].max
=============================================================================

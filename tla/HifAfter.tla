------------------------------- MODULE HifAfter -------------------------------
(***************************************************************************)
(* Delayed assignment in the SystemC support library (hif_after.cpp,       *)
(* hif_after.i.hpp).  Each call of _hif_after builds a function object,    *)
(* hands it to sc_spawn, which keeps a copy of it, and lets the original   *)
(* die.  A global map, keyed by the call site and the time of the call,    *)
(* names the object in charge: whoever registers under a taken key         *)
(* disables the previous holder.  That one rule serves two purposes: a     *)
(* copy takes over from its original, and a second assignment in the same  *)
(* time step cancels the first.                                            *)
(*                                                                         *)
(* An object is [site, time, value, active]; the event its process waits   *)
(* for moves along with each copy, so it is not modelled apart.  A call    *)
(* site has one target, with its delay.                                    *)
(***************************************************************************)
EXTENDS Naturals, FiniteSets, Functions

CONSTANTS
  Sites,    \* the call sites (file and line), one delayed target each
  Values,
  Delay,    \* the delay of each site's assignment
  MaxTime,  \* bound: no assignment lands later
  Slots,    \* bound: objects alive at once
  None

ASSUME DelayAssumption == Delay \in [Sites -> Nat]
ASSUME MaxTimeAssumption == MaxTime \in Nat
ASSUME NoneAssumption == None \notin Values /\ None \notin Slots

VARIABLES
  now,       \* sc_time_stamp
  afterMap,  \* _afterMap: the object in charge of a key, or None
  objects,   \* the objects alive, by slot
  fired,     \* objects whose process has run and is not reclaimed yet
  out        \* the value of each target

vars == <<now, afterMap, objects, fired, out>>

Times  == 0 .. MaxTime
Keys   == Sites \X Times
Object == [site : Sites, time : Times, value : Values, active : BOOLEAN]
Key(o) == <<o.site, o.time>>
Due(o) == o.time + Delay[o.site]
Free   == Slots \ DOMAIN objects

-----------------------------------------------------------------------------
(***************************************************************************)
(* The parts of a call, as functions of the heap [map, objs].              *)
(***************************************************************************)
(* _hif_after_register: the new holder of a key disables the old one. *)
Register(h, id) ==
  LET key   == Key(h.objs[id])
      other == h.map[key]
  IN  [map  |-> [h.map EXCEPT ![key] = id],
       objs |-> IF other = None THEN h.objs
                ELSE [h.objs EXCEPT ![other].active = FALSE]]

UnregistersByNow(h, id) ==
  LET key == <<h.objs[id].site, now>>
  IN  IF h.map[key] = id THEN [h EXCEPT !.map[key] = None] ELSE h
UnregistersAnyHolder(h, id) == [h EXCEPT !.map[Key(h.objs[id])] = None]
(* _hif_after_unregister: only the holder gives its key back. *)
Unregister(h, id) ==
  LET key == Key(h.objs[id])
  IN  IF h.map[key] = id THEN [h EXCEPT !.map[key] = None] ELSE h

(* The constructors: a fresh object is active and a copy is what it        *)
(* copies; both then register.                                             *)
Add(h, id, o) ==
  Register([h EXCEPT !.objs = [i \in DOMAIN @ \cup {id} |-> IF i = id THEN o ELSE @[i]]], id)
StampsDueTime(h, id, s, v) ==
  Add(h, id, [site |-> s, time |-> now + Delay[s], value |-> v, active |-> TRUE])
Construct(h, id, s, v) ==
  Add(h, id, [site |-> s, time |-> now, value |-> v, active |-> TRUE])
Copy(h, from, id) == Add(h, id, h.objs[from])

DestroyKeepsEntry(h, id) == [h EXCEPT !.objs = Restrict(h.objs, DOMAIN h.objs \ {id})]
(* The destructor. *)
Destroy(h, id) ==
  LET u == Unregister(h, id)
  IN  [u EXCEPT !.objs = Restrict(u.objs, DOMAIN u.objs \ {id})]

-----------------------------------------------------------------------------
Init ==
  /\ now = 0
  /\ afterMap = [k \in Keys |-> None]
  /\ objects = [i \in {} |-> None]
  /\ fired = {}
  /\ out \in [Sites -> Values]

(* _hif_after: construct the functor, let sc_spawn copy it, notify its     *)
(* event after the delay, and destroy the functor on the way out.          *)
After(s, v) ==
  /\ now + Delay[s] <= MaxTime
  /\ \E func, proc \in Free :
       /\ func # proc
       /\ LET built   == Construct([map |-> afterMap, objs |-> objects], func, s, v)
              spawned == Copy(built, func, proc)
              left    == Destroy(spawned, func)
          IN  afterMap' = left.map /\ objects' = left.objs
  /\ UNCHANGED <<now, fired, out>>

RunsDisabled(id) ==
  /\ id \in DOMAIN objects \ fired
  /\ Due(objects[id]) = now
  /\ out' = [out EXCEPT ![objects[id].site] = objects[id].value]
  /\ fired' = fired \cup {id}
  /\ UNCHANGED <<now, afterMap, objects>>
(* HifAfter::operator(), run by the spawned process when its event fires:  *)
(* a disabled object does nothing.                                         *)
Run(id) ==
  /\ id \in DOMAIN objects \ fired
  /\ Due(objects[id]) = now
  /\ out' = IF objects[id].active
            THEN [out EXCEPT ![objects[id].site] = objects[id].value] ELSE out
  /\ fired' = fired \cup {id}
  /\ UNCHANGED <<now, afterMap, objects>>

(* The kernel reclaims a process that has returned, and its object with it. *)
Reclaim(id) ==
  /\ id \in fired
  /\ LET h == Destroy([map |-> afterMap, objs |-> objects], id)
     IN  afterMap' = h.map /\ objects' = h.objs
  /\ fired' = fired \ {id}
  /\ UNCHANGED <<now, out>>

(* The kernel advances time once nothing is left to run at this instant.   *)
Advance ==
  /\ now < MaxTime
  /\ \A i \in DOMAIN objects \ fired : Due(objects[i]) # now
  /\ now' = now + 1
  /\ UNCHANGED <<afterMap, objects, fired, out>>

Next ==
  \/ \E s \in Sites, v \in Values : After(s, v)
  \/ \E id \in Slots : Run(id) \/ Reclaim(id)
  \/ Advance

Spec == Init /\ [][Next]_vars

(* The SystemC kernel keeps running what is runnable, reclaims what has    *)
(* returned and lets time pass.                                            *)
Fairness ==
  /\ \A id \in Slots : WF_vars(Run(id)) /\ WF_vars(Reclaim(id))
  /\ WF_vars(Advance)
FairSpec == Spec /\ Fairness

-----------------------------------------------------------------------------
(* Every variable keeps its type, and every object is due within the time  *)
(* its call was made for.                                                  *)
TypeOK ==
  /\ now \in Times
  /\ afterMap \in [Keys -> Slots \cup {None}]
  /\ DOMAIN objects \subseteq Slots
  /\ \A i \in DOMAIN objects : objects[i] \in Object /\ Due(objects[i]) \in Times
  /\ fired \subseteq DOMAIN objects
  /\ out \in [Sites -> Values]

(* An object that will still assign is the one the map holds for its key:  *)
(* at most one assignment per site and time step is in force, and a later  *)
(* one can always find it to cancel it (_hif_after_register).              *)
ActiveIsRegistered ==
  \A i \in DOMAIN objects : objects[i].active => afterMap[Key(objects[i])] = i

(* The map never points at a dead object: a stale entry would make the     *)
(* next registration write through a dangling pointer.                     *)
NoDanglingEntry ==
  \A k \in Keys : afterMap[k] # None =>
    /\ afterMap[k] \in DOMAIN objects
    /\ Key(objects[afterMap[k]]) = k

(* Each call's assignment takes place at its instant unless a later call   *)
(* of the same site in the same time step replaced it.                     *)
ToCome(s, t) ==
  {i \in DOMAIN objects \ fired :
     objects[i].active /\ objects[i].site = s /\ Due(objects[i]) = t}
Wave == [s \in Sites |-> [t \in Times |->
          IF ToCome(s, t) = {} THEN None ELSE objects[CHOOSE i \in ToCome(s, t) : TRUE].value]]
Promise == INSTANCE TransportDelay WITH Targets <- Sites, wave <- Wave
ImplementsTransport == Promise!Spec

(* However often a key changes hands, between originals and copies and     *)
(* between assignments that replace one another, its entry is taken out of *)
(* the map: what is registered does not grow with the length of the        *)
(* simulation (_hif_after_unregister).                                     *)
EntriesGivenBack ==
  \A k \in Keys : afterMap[k] # None ~> afterMap[k] = None
=============================================================================

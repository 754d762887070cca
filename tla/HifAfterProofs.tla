---------------------------- MODULE HifAfterProofs ----------------------------
(***************************************************************************)
(* For any number of call sites, delays, values and objects: the map of    *)
(* pending assignments never dangles, it finds every assignment that is    *)
(* still in force, and the library implements transport delay.             *)
(***************************************************************************)
EXTENDS HifAfter, TLAPS

WellHeap(h) ==
  /\ h = [map |-> h.map, objs |-> h.objs]
  /\ h.map \in [Keys -> Slots \cup {None}]
  /\ h.objs = [i \in DOMAIN h.objs |-> h.objs[i]]
  /\ DOMAIN h.objs \subseteq Slots
  /\ \A i \in DOMAIN h.objs : h.objs[i] \in Object
  /\ \A i \in DOMAIN h.objs : h.objs[i].active => h.map[Key(h.objs[i])] = i
  /\ \A k \in Keys : h.map[k] # None =>
       h.map[k] \in DOMAIN h.objs /\ Key(h.objs[h.map[k]]) = k

(* The heap r is h with the object o added in slot id: o took over its key *)
(* and, of the others, those of the same key lost their assignment.        *)
Extended(h, r, id, o) ==
  /\ r = [map |-> r.map, objs |-> r.objs]
  /\ r.map = [h.map EXCEPT ![Key(o)] = id]
  /\ DOMAIN r.objs = DOMAIN h.objs \cup {id}
  /\ r.objs = [i \in DOMAIN r.objs |-> r.objs[i]]
  /\ r.objs[id] = o
  /\ \A i \in DOMAIN h.objs :
       /\ r.objs[i] \in Object
       /\ r.objs[i].site = h.objs[i].site
       /\ r.objs[i].time = h.objs[i].time
       /\ r.objs[i].value = h.objs[i].value
       /\ r.objs[i].active <=> h.objs[i].active /\ Key(h.objs[i]) # Key(o)

LEMMA AddEffect ==
  ASSUME NEW h, WellHeap(h), NEW id \in Slots, id \notin DOMAIN h.objs, NEW o \in Object
  PROVE  Extended(h, Add(h, id, o), id, o)
<1> DEFINE g == [h EXCEPT !.objs = [i \in DOMAIN @ \cup {id} |-> IF i = id THEN o ELSE @[i]]]
           key == Key(o)
           other == h.map[key]
           r == Register(g, id)
<1>1. g = [map |-> h.map, objs |-> [i \in DOMAIN h.objs \cup {id} |-> IF i = id THEN o ELSE h.objs[i]]]
  BY DEF WellHeap
<1>2. /\ g.map = h.map
      /\ DOMAIN g.objs = DOMAIN h.objs \cup {id}
      /\ g.objs[id] = o
      /\ \A i \in DOMAIN h.objs : g.objs[i] = h.objs[i]
      /\ g.objs = [i \in DOMAIN g.objs |-> g.objs[i]]
  BY <1>1
<1>3. key \in Keys
  BY DEF Key, Keys, Object
<1> HIDE DEF g
<1>4. r = [map |-> [h.map EXCEPT ![key] = id],
           objs |-> IF other = None THEN g.objs ELSE [g.objs EXCEPT ![other].active = FALSE]]
  BY <1>2 DEF Register
<1>5. \A i \in DOMAIN h.objs : Key(h.objs[i]) = key /\ h.objs[i].active => i = other
  BY DEF WellHeap
<1>6. other # None => other \in DOMAIN h.objs /\ Key(h.objs[other]) = key /\ other # id
  BY <1>3 DEF WellHeap
<1>7. \A i \in DOMAIN h.objs : h.objs[i] \in Object
  BY DEF WellHeap
<1>8. Add(h, id, o) = r
  BY DEF Add, g
<1> HIDE DEF r
<1>9. CASE other = None
  <2>1. r.objs = g.objs
    BY <1>4, <1>9 DEF r
  <2>2. \A i \in DOMAIN h.objs : h.objs[i].active => Key(h.objs[i]) # key
    <3>1. \A i \in DOMAIN h.objs : i # None
      BY NoneAssumption DEF WellHeap
    <3>2. QED
      BY <1>5, <1>9, <3>1
  <2>3. ASSUME NEW i \in DOMAIN h.objs
        PROVE  /\ r.objs[i] = h.objs[i]
               /\ r.objs[i].active <=> h.objs[i].active /\ Key(h.objs[i]) # key
    BY <1>2, <2>1, <2>2
  <2>4. r = [map |-> r.map, objs |-> r.objs] /\ r.map = [h.map EXCEPT ![key] = id]
    BY <1>4 DEF r
  <2>5. QED
    BY <1>2, <1>7, <1>8, <2>1, <2>3, <2>4 DEF Extended
<1>10. CASE other # None
  <2> DEFINE objs == [g.objs EXCEPT ![other].active = FALSE]
  <2>1. r.objs = objs /\ r.map = [h.map EXCEPT ![key] = id]
    BY <1>4, <1>10 DEF r
  <2>2. DOMAIN objs = DOMAIN g.objs /\ objs = [i \in DOMAIN objs |-> objs[i]]
    BY <1>2
  <2>3. objs[other] = [h.objs[other] EXCEPT !.active = FALSE]
    BY <1>2, <1>6, <1>10
  <2>4. \A i \in DOMAIN g.objs : i # other => objs[i] = g.objs[i]
    BY <1>2
  <2> HIDE DEF objs
  <2>5. /\ objs[other] \in Object
        /\ objs[other].site = h.objs[other].site
        /\ objs[other].time = h.objs[other].time
        /\ objs[other].value = h.objs[other].value
        /\ objs[other].active = FALSE
    BY <1>6, <1>7, <1>10, <2>3 DEF Object
  <2>6. objs[id] = o
    BY <1>2, <1>6, <1>10, <2>4
  <2>7. ASSUME NEW i \in DOMAIN h.objs
        PROVE  /\ objs[i] \in Object
               /\ objs[i].site = h.objs[i].site
               /\ objs[i].time = h.objs[i].time
               /\ objs[i].value = h.objs[i].value
               /\ objs[i].active <=> h.objs[i].active /\ Key(h.objs[i]) # key
    <3>1. CASE i = other
      BY <1>6, <1>10, <2>5, <3>1
    <3>2. CASE i # other
      <4>1. objs[i] = h.objs[i]
        BY <1>2, <2>4, <3>2
      <4>2. QED
        BY <1>5, <1>7, <3>2, <4>1
    <3>3. QED
      BY <3>1, <3>2
  <2>8. QED
    BY <1>2, <1>4, <1>8, <2>1, <2>2, <2>6, <2>7 DEF Extended
<1>11. QED
  BY <1>9, <1>10

LEMMA AddKeeps ==
  ASSUME NEW h, WellHeap(h), NEW id \in Slots, id \notin DOMAIN h.objs, NEW o \in Object
  PROVE  WellHeap(Add(h, id, o))
<1> DEFINE r == Add(h, id, o)
<1>1. Extended(h, r, id, o)
  BY AddEffect
<1> USE DEF Extended
<1> HIDE DEF r
<1>2. Key(o) \in Keys /\ h.map \in [Keys -> Slots \cup {None}]
  BY DEF Key, Keys, Object, WellHeap
<1>3. \A i \in DOMAIN h.objs : Key(r.objs[i]) = Key(h.objs[i]) /\ Key(h.objs[i]) \in Keys
  BY <1>1 DEF Key, Keys, Object, WellHeap
<1>4. r.map \in [Keys -> Slots \cup {None}]
  BY <1>1, <1>2
<1>5. \A i \in DOMAIN r.objs : r.objs[i] \in Object
  BY <1>1
<1>6. \A i \in DOMAIN r.objs : r.objs[i].active => r.map[Key(r.objs[i])] = i
  BY <1>1, <1>2, <1>3 DEF WellHeap
<1>7. \A k \in Keys : r.map[k] # None =>
        r.map[k] \in DOMAIN r.objs /\ Key(r.objs[r.map[k]]) = k
  <2> SUFFICES ASSUME NEW k \in Keys, r.map[k] # None
               PROVE  r.map[k] \in DOMAIN r.objs /\ Key(r.objs[r.map[k]]) = k
    OBVIOUS
  <2>1. CASE k = Key(o)
    BY <1>1, <1>2, <2>1
  <2>2. CASE k # Key(o)
    <3>1. r.map[k] = h.map[k]
      BY <1>1, <1>2, <2>2
    <3>2. h.map[k] \in DOMAIN h.objs /\ Key(h.objs[h.map[k]]) = k
      BY <3>1 DEF WellHeap
    <3>3. QED
      BY <1>1, <1>3, <3>1, <3>2
  <2>3. QED
    BY <2>1, <2>2
<1>8. DOMAIN r.objs \subseteq Slots
  BY <1>1 DEF WellHeap
<1>9. QED
  BY <1>1, <1>4, <1>5, <1>6, <1>7, <1>8 DEF WellHeap, r

(* Destroying an object frees its slot, and its key if it still holds it.  *)
LEMMA DestroyEffect ==
  ASSUME NEW h, WellHeap(h), NEW id \in DOMAIN h.objs
  PROVE  LET r == Destroy(h, id)
             key == Key(h.objs[id])
         IN  /\ r = [map |-> r.map, objs |-> r.objs]
             /\ r.map = IF h.map[key] = id THEN [h.map EXCEPT ![key] = None] ELSE h.map
             /\ r.objs = [i \in DOMAIN h.objs \ {id} |-> h.objs[i]]
<1> DEFINE u == Unregister(h, id)
           key == Key(h.objs[id])
<1>1. /\ u = [map |-> u.map, objs |-> u.objs]
      /\ u.objs = h.objs
      /\ u.map = IF h.map[key] = id THEN [h.map EXCEPT ![key] = None] ELSE h.map
  BY DEF Unregister, WellHeap
<1> HIDE DEF u
<1>2. Destroy(h, id) = [u EXCEPT !.objs = Restrict(u.objs, DOMAIN u.objs \ {id})]
  BY DEF Destroy, u
<1>3. QED
  BY <1>1, <1>2 DEF Restrict

LEMMA DestroyKeeps ==
  ASSUME NEW h, WellHeap(h), NEW id \in DOMAIN h.objs
  PROVE  WellHeap(Destroy(h, id))
<1> DEFINE r == Destroy(h, id)
           key == Key(h.objs[id])
<1>1. /\ r = [map |-> r.map, objs |-> r.objs]
      /\ r.map = IF h.map[key] = id THEN [h.map EXCEPT ![key] = None] ELSE h.map
      /\ r.objs = [i \in DOMAIN h.objs \ {id} |-> h.objs[i]]
  BY DestroyEffect
<1> HIDE DEF r
<1>2. key \in Keys /\ h.map \in [Keys -> Slots \cup {None}]
  BY DEF Key, Keys, Object, WellHeap
<1>3. r.map \in [Keys -> Slots \cup {None}]
  BY <1>1, <1>2
<1>4. \A i \in DOMAIN r.objs : r.objs[i].active => r.map[Key(r.objs[i])] = i
  <2> SUFFICES ASSUME NEW i \in DOMAIN r.objs, r.objs[i].active
               PROVE  r.map[Key(r.objs[i])] = i
    OBVIOUS
  <2>1. i \in DOMAIN h.objs /\ i # id /\ r.objs[i] = h.objs[i]
    BY <1>1
  <2>2. h.map[Key(h.objs[i])] = i
    BY <2>1 DEF WellHeap
  <2>3. Key(h.objs[i]) \in Keys
    BY <2>1 DEF Key, Keys, Object, WellHeap
  <2>4. QED
    BY <1>1, <1>2, <2>1, <2>2, <2>3
<1>5. \A k \in Keys : r.map[k] # None =>
        r.map[k] \in DOMAIN r.objs /\ Key(r.objs[r.map[k]]) = k
  <2> SUFFICES ASSUME NEW k \in Keys, r.map[k] # None
               PROVE  r.map[k] \in DOMAIN r.objs /\ Key(r.objs[r.map[k]]) = k
    OBVIOUS
  <2>1. r.map[k] = h.map[k]
    BY <1>1, <1>2
  <2>2. h.map[k] \in DOMAIN h.objs /\ Key(h.objs[h.map[k]]) = k
    BY <2>1 DEF WellHeap
  <2>3. h.map[k] # id
    BY <1>1, <1>2, <2>1, <2>2
  <2>4. QED
    BY <1>1, <2>1, <2>2, <2>3
<1>6. r.objs = [i \in DOMAIN r.objs |-> r.objs[i]] /\ DOMAIN r.objs \subseteq Slots
        /\ \A i \in DOMAIN r.objs : r.objs[i] \in Object
  BY <1>1 DEF WellHeap
<1>7. QED
  BY <1>1, <1>3, <1>4, <1>5, <1>6 DEF WellHeap, r

-----------------------------------------------------------------------------
Heap == [map |-> afterMap, objs |-> objects]

(* The inductive invariant. *)
IInv ==
  /\ now \in Times
  /\ WellHeap(Heap)
  /\ fired \subseteq DOMAIN objects
  /\ out \in [Sites -> Values]
  /\ \A i \in DOMAIN objects \ fired : now <= Due(objects[i])
  /\ \A i \in DOMAIN objects : Due(objects[i]) \in Times

(* A call of _hif_after leaves one object more, in force; of the others    *)
(* only those of the same site and time lose their assignment.             *)
LEMMA AfterEffect ==
  ASSUME IInv, NEW s \in Sites, NEW v \in Values,
         NEW func \in Free, NEW proc \in Free, func # proc
  PROVE  LET left == Destroy(Copy(Construct(Heap, func, s, v), func, proc), func)
         IN  /\ WellHeap(left)
             /\ DOMAIN left.objs = DOMAIN objects \cup {proc}
             /\ left.objs[proc] = [site |-> s, time |-> now, value |-> v, active |-> TRUE]
             /\ \A i \in DOMAIN objects :
                  /\ left.objs[i].site = objects[i].site
                  /\ left.objs[i].time = objects[i].time
                  /\ left.objs[i].value = objects[i].value
                  /\ left.objs[i].active <=> objects[i].active /\ Key(objects[i]) # <<s, now>>
<1> DEFINE o == [site |-> s, time |-> now, value |-> v, active |-> TRUE]
           built == Add(Heap, func, o)
           spawned == Add(built, proc, o)
           left == Destroy(spawned, func)
<1>1. o \in Object /\ Key(o) = <<s, now>> /\ o.active
  BY DEF IInv, Object, Key
<1>2. /\ func \in Slots /\ func \notin DOMAIN objects
      /\ proc \in Slots /\ proc \notin DOMAIN objects
  BY DEF Free
<1>3. WellHeap(Heap) /\ Heap.objs = objects /\ Heap.map = afterMap
  BY DEF IInv, Heap
<1> HIDE DEF o
<1>4a. WellHeap(built)
  BY <1>1, <1>2, <1>3, AddKeeps
<1>4b. Extended(Heap, built, func, o)
  BY <1>1, <1>2, <1>3, AddEffect
<1>4. /\ WellHeap(built)
      /\ DOMAIN built.objs = DOMAIN objects \cup {func}
      /\ built.objs[func] = o
      /\ \A i \in DOMAIN objects :
           /\ built.objs[i].site = objects[i].site
           /\ built.objs[i].time = objects[i].time
           /\ built.objs[i].value = objects[i].value
           /\ built.objs[i].active <=> objects[i].active /\ Key(objects[i]) # Key(o)
  BY <1>3, <1>4a, <1>4b DEF Extended
<1>5. Construct(Heap, func, s, v) = built /\ Copy(built, func, proc) = spawned
  BY <1>4 DEF Construct, Copy, o
<1> HIDE DEF built
<1>6. \A i \in DOMAIN objects : Key(built.objs[i]) = Key(objects[i])
  BY <1>4 DEF Key
<1>7. proc \notin DOMAIN built.objs
  BY <1>2, <1>4
<1>8a. WellHeap(spawned)
  BY <1>1, <1>2, <1>4, <1>7, AddKeeps
<1>8b. Extended(built, spawned, proc, o)
  BY <1>1, <1>2, <1>4, <1>7, AddEffect
<1>8. /\ DOMAIN spawned.objs = DOMAIN built.objs \cup {proc}
      /\ spawned.objs[proc] = o
      /\ \A i \in DOMAIN built.objs :
           /\ spawned.objs[i].site = built.objs[i].site
           /\ spawned.objs[i].time = built.objs[i].time
           /\ spawned.objs[i].value = built.objs[i].value
           /\ spawned.objs[i].active <=> built.objs[i].active /\ Key(built.objs[i]) # Key(o)
  BY <1>8b DEF Extended
<1> HIDE DEF spawned
<1>9. func \in DOMAIN spawned.objs
  BY <1>4, <1>8
<1>10a. WellHeap(left)
  BY <1>8a, <1>9, DestroyKeeps
<1>10. left.objs = [i \in DOMAIN spawned.objs \ {func} |-> spawned.objs[i]]
  BY <1>8a, <1>9, DestroyEffect
<1> HIDE DEF left
<1>11. DOMAIN left.objs = DOMAIN objects \cup {proc}
  BY <1>2, <1>4, <1>8, <1>10
<1>12. left.objs[proc] = o
  BY <1>8, <1>10, <1>11
<1>13. ASSUME NEW i \in DOMAIN objects
       PROVE  /\ left.objs[i].site = objects[i].site
              /\ left.objs[i].time = objects[i].time
              /\ left.objs[i].value = objects[i].value
              /\ left.objs[i].active <=> objects[i].active /\ Key(objects[i]) # Key(o)
  <2>1. i \in DOMAIN built.objs /\ left.objs[i] = spawned.objs[i]
    BY <1>2, <1>4, <1>8, <1>10
  <2>2. QED
    BY <1>4, <1>6, <1>8, <2>1
<1>14. QED
  BY <1>1, <1>5, <1>10a, <1>11, <1>12, <1>13 DEF left, o

LEMMA IInvInit == Init => IInv
<1> SUFFICES ASSUME Init
             PROVE  IInv
  OBVIOUS
<1>1. now \in Times /\ fired = {} /\ DOMAIN objects = {} /\ out \in [Sites -> Values]
  BY MaxTimeAssumption DEF Init, Times
<1>2. WellHeap(Heap)
  BY DEF Init, WellHeap, Heap
<1>3. QED
  BY <1>1, <1>2 DEF IInv

LEMMA IInvStep == IInv /\ [Next]_vars => IInv'
<1> SUFFICES ASSUME IInv, [Next]_vars
             PROVE  IInv'
  OBVIOUS
<1>1. ASSUME NEW s \in Sites, NEW v \in Values, After(s, v)
      PROVE  IInv'
  <2>1. PICK func \in Free, proc \in Free :
          /\ func # proc
          /\ LET left == Destroy(Copy(Construct(Heap, func, s, v), func, proc), func)
             IN  afterMap' = left.map /\ objects' = left.objs
    BY <1>1 DEF After, Heap
  <2> DEFINE left == Destroy(Copy(Construct(Heap, func, s, v), func, proc), func)
  <2>2. /\ WellHeap(left)
        /\ DOMAIN left.objs = DOMAIN objects \cup {proc}
        /\ left.objs[proc] = [site |-> s, time |-> now, value |-> v, active |-> TRUE]
        /\ \A i \in DOMAIN objects :
             left.objs[i].site = objects[i].site /\ left.objs[i].time = objects[i].time
    BY <2>1, AfterEffect
  <2> HIDE DEF left
  <2>3. Heap' = left
    BY <2>1, <2>2 DEF Heap, WellHeap, left
  <2>4. now' = now /\ fired' = fired /\ out' = out
    BY <1>1 DEF After
  <2>5. objects' = left.objs
    BY <2>1 DEF left
  <2>6. now \in Nat /\ Delay[s] \in Nat
    BY DelayAssumption, MaxTimeAssumption DEF IInv, Times
  <2>7. \A i \in DOMAIN objects' \ fired' : now' <= Due(objects'[i])
    BY <2>2, <2>4, <2>5, <2>6 DEF Due, IInv
  <2>8. \A i \in DOMAIN objects' : Due(objects'[i]) \in Times
    <3>1. now + Delay[s] \in Times
      BY <1>1, <2>6, MaxTimeAssumption DEF After, Times
    <3>2. QED
      BY <2>2, <2>5, <3>1 DEF Due, IInv
  <2>9. QED
    BY <2>2, <2>3, <2>4, <2>5, <2>7, <2>8 DEF IInv, Times
<1>2. ASSUME NEW id \in Slots, Run(id)
      PROVE  IInv'
  <2>1. Heap' = Heap /\ objects' = objects /\ now' = now
    BY <1>2 DEF Run, Heap
  <2>2. fired' = fired \cup {id} /\ id \in DOMAIN objects
    BY <1>2 DEF Run
  <2>3. objects[id].site \in Sites /\ objects[id].value \in Values
    BY <2>2 DEF IInv, WellHeap, Heap, Object
  <2>4. out' \in [Sites -> Values]
    BY <1>2, <2>3 DEF Run, IInv
  <2>5. QED
    BY <2>1, <2>2, <2>4 DEF IInv
<1>3. ASSUME NEW id \in Slots, Reclaim(id)
      PROVE  IInv'
  <2> DEFINE left == Destroy(Heap, id)
  <2>1. id \in DOMAIN objects /\ WellHeap(Heap) /\ Heap.objs = objects
    BY <1>3 DEF Reclaim, IInv, Heap
  <2>2. WellHeap(left) /\ left.objs = [i \in DOMAIN objects \ {id} |-> objects[i]]
    <3>1. WellHeap(left)
      BY <2>1, DestroyKeeps
    <3>2. left.objs = [i \in DOMAIN Heap.objs \ {id} |-> Heap.objs[i]]
      BY <2>1, DestroyEffect
    <3>3. QED
      BY <2>1, <3>1, <3>2
  <2>3. afterMap' = left.map /\ objects' = left.objs /\ fired' = fired \ {id}
          /\ now' = now /\ out' = out
    BY <1>3 DEF Reclaim, Heap
  <2> HIDE DEF left
  <2>4. Heap' = left
    BY <2>2, <2>3 DEF Heap, WellHeap
  <2>5. QED
    BY <2>2, <2>3, <2>4 DEF IInv
<1>4. CASE Advance
  <2>1. now \in Nat /\ now' = now + 1 /\ now < MaxTime /\ MaxTime \in Nat
    BY <1>4, MaxTimeAssumption DEF Advance, IInv, Times
  <2>2. \A i \in DOMAIN objects : Due(objects[i]) \in Nat
    BY DelayAssumption, MaxTimeAssumption DEF IInv, WellHeap, Heap, Object, Due, Times
  <2>3. \A i \in DOMAIN objects \ fired : now' <= Due(objects[i])
    BY <1>4, <2>1, <2>2 DEF Advance, IInv
  <2>4. now' \in Times
    BY <2>1 DEF Times
  <2>5. Heap' = Heap
    BY <1>4 DEF Advance, Heap
  <2>6. QED
    BY <1>4, <2>3, <2>4, <2>5 DEF Advance, IInv
<1>5. CASE UNCHANGED vars
  BY <1>5 DEF vars, IInv, Heap
<1>6. QED
  BY <1>1, <1>2, <1>3, <1>4, <1>5 DEF Next

LEMMA IInvAlways == Spec => []IInv
BY IInvInit, IInvStep, PTL DEF Spec

(* The state keeps its type: no slot outside the heap is ever named. *)
THEOREM TypeCorrect == Spec => []TypeOK
<1>1. IInv => TypeOK
  BY DEF IInv, WellHeap, Heap, TypeOK
<1>2. QED
  BY <1>1, IInvAlways, PTL

(* A later assignment of the same site and time always finds the earlier   *)
(* one through the map.                                                    *)
THEOREM ActiveAlwaysRegistered == Spec => []ActiveIsRegistered
<1>1. IInv => ActiveIsRegistered
  BY DEF IInv, WellHeap, Heap, ActiveIsRegistered
<1>2. QED
  BY <1>1, IInvAlways, PTL

(* No entry of the map outlives its object. *)
THEOREM NeverDangling == Spec => []NoDanglingEntry
<1>1. IInv => NoDanglingEntry
  BY DEF IInv, WellHeap, Heap, NoDanglingEntry
<1>2. QED
  BY <1>1, IInvAlways, PTL

-----------------------------------------------------------------------------
(***************************************************************************)
(* Refinement.  At most one object is to assign a given target at a given  *)
(* instant, so the waveform of the abstract specification is well defined. *)
(***************************************************************************)
LEMMA ObjectFacts ==
  ASSUME IInv
  PROVE  /\ \A i \in DOMAIN objects :
              /\ objects[i] \in Object
              /\ objects[i].site \in Sites
              /\ objects[i].value \in Values
              /\ objects[i].time \in Nat
              /\ Delay[objects[i].site] \in Nat
              /\ objects[i].active => afterMap[Key(objects[i])] = i
         /\ now \in Nat
BY DelayAssumption, MaxTimeAssumption DEF IInv, WellHeap, Heap, Object, Times

LEMMA ToComeUnique ==
  ASSUME IInv, NEW s \in Sites, NEW t \in Times, NEW i \in ToCome(s, t)
  PROVE  ToCome(s, t) = {i}
<1> SUFFICES ASSUME NEW j \in ToCome(s, t)
             PROVE  j = i
  OBVIOUS
<1>1. /\ i \in DOMAIN objects /\ objects[i].active /\ objects[i].site = s
      /\ j \in DOMAIN objects /\ objects[j].active /\ objects[j].site = s
      /\ Due(objects[i]) = t /\ Due(objects[j]) = t
  BY DEF ToCome
<1>2. objects[i].time = objects[j].time
  BY <1>1, ObjectFacts DEF Due
<1>3. Key(objects[i]) = Key(objects[j])
  BY <1>1, <1>2 DEF Key
<1>4. QED
  BY <1>1, <1>3, ObjectFacts

LEMMA WaveValue ==
  ASSUME IInv, NEW s \in Sites, NEW t \in Times
  PROVE  /\ ToCome(s, t) = {} => Wave[s][t] = None
         /\ \A i \in ToCome(s, t) : Wave[s][t] = objects[i].value
<1>1. CASE ToCome(s, t) = {}
  BY <1>1 DEF Wave
<1>2. ASSUME NEW i \in ToCome(s, t)
      PROVE  Wave[s][t] = objects[i].value
  <2>1. ToCome(s, t) = {i}
    BY ToComeUnique
  <2>2. (CHOOSE j \in ToCome(s, t) : TRUE) = i
    BY <2>1
  <2>3. QED
    BY <2>1, <2>2 DEF Wave
<1>3. QED
  BY <1>1, <1>2

(* The waveform is a function of what each instant has to come. *)
LEMMA WaveSame ==
  ASSUME \A s \in Sites, t \in Times : ToCome(s, t)' = ToCome(s, t),
         \A s \in Sites, t \in Times : \A i \in ToCome(s, t) : objects'[i].value = objects[i].value
  PROVE  Wave' = Wave
<1> DEFINE at(s, t) == IF ToCome(s, t) = {} THEN None
                       ELSE objects[CHOOSE i \in ToCome(s, t) : TRUE].value
<1>1. ASSUME NEW s \in Sites, NEW t \in Times
      PROVE  at(s, t)' = at(s, t)
  <2>1. CASE ToCome(s, t) = {}
    BY <2>1
  <2>2. CASE ToCome(s, t) # {}
    <3>1. (CHOOSE i \in ToCome(s, t) : TRUE) \in ToCome(s, t)
      BY <2>2
    <3>2. QED
      BY <2>2, <3>1
  <2>3. QED
    BY <2>1, <2>2
<1>2. Wave = [s \in Sites |-> [t \in Times |-> at(s, t)]]
  BY DEF Wave
<1>3. Wave' = [s \in Sites |-> [t \in Times |-> at(s, t)']]
  BY DEF Wave, Times
<1> HIDE DEF at
<1>4. QED
  BY <1>1, <1>2, <1>3

LEMMA WaveChange ==
  ASSUME IInv, NEW s \in Sites, NEW t \in Times, NEW v,
         \A r \in Sites, u \in Times : r # s \/ u # t => Wave'[r][u] = Wave[r][u],
         Wave'[s][t] = v
  PROVE  Wave' = [Wave EXCEPT ![s][t] = v]
<1>1. /\ Wave = [r \in Sites |-> [u \in Times |-> Wave[r][u]]]
      /\ Wave' = [r \in Sites |-> [u \in Times |-> Wave'[r][u]]]
  BY DEF Wave, Times
<1>2. \A r \in Sites : Wave[r] = [u \in Times |-> Wave[r][u]] /\ Wave'[r] = [u \in Times |-> Wave'[r][u]]
  BY <1>1
<1>3. Wave'[s] = [Wave[s] EXCEPT ![t] = v]
  BY <1>2
<1>4. \A r \in Sites : r # s => Wave'[r] = Wave[r]
  BY <1>2
<1>5. QED
  BY <1>1, <1>3, <1>4

LEMMA AfterRefines ==
  ASSUME IInv, IInv', NEW s \in Sites, NEW v \in Values, After(s, v)
  PROVE  Promise!Assign(s, v)
<1>1. PICK func \in Free, proc \in Free :
        /\ func # proc
        /\ LET left == Destroy(Copy(Construct(Heap, func, s, v), func, proc), func)
           IN  afterMap' = left.map /\ objects' = left.objs
  BY DEF After, Heap
<1> DEFINE due == now + Delay[s]
<1>2. /\ DOMAIN objects' = DOMAIN objects \cup {proc}
      /\ objects'[proc] = [site |-> s, time |-> now, value |-> v, active |-> TRUE]
      /\ \A i \in DOMAIN objects :
           /\ objects'[i].site = objects[i].site
           /\ objects'[i].time = objects[i].time
           /\ objects'[i].value = objects[i].value
           /\ objects'[i].active <=> objects[i].active /\ Key(objects[i]) # <<s, now>>
  BY <1>1, AfterEffect
<1>3. now' = now /\ fired' = fired /\ out' = out /\ due <= MaxTime
  BY DEF After
<1>4. proc \notin DOMAIN objects /\ proc \notin fired
  BY DEF Free, IInv
<1>5. due \in Times
  BY <1>3, ObjectFacts, DelayAssumption, MaxTimeAssumption DEF Times
<1>6. \A i \in DOMAIN objects : Due(objects[i])' = Due(objects[i])
  BY <1>2 DEF Due
<1>7. proc \in ToCome(s, due)'
  BY <1>2, <1>3, <1>4 DEF ToCome, Due
<1>8. Wave'[s][due] = v
  <2>1. Wave'[s][due] = objects'[proc].value
    <3> DEFINE there == {i \in DOMAIN objects' \ fired' :
                          /\ objects'[i].active /\ objects'[i].site = s
                          /\ objects'[i].time + Delay[s] = due}
    <3>1. ASSUME NEW j \in there
          PROVE  j = proc
      <4>1. CASE j \in DOMAIN objects
        <5>1. objects[j].site = s /\ objects[j].time + Delay[s] = now + Delay[s]
          BY <1>2, <4>1
        <5>2. objects[j].time = now
          BY <4>1, <5>1, ObjectFacts
        <5>3. Key(objects[j]) = <<s, now>>
          BY <5>1, <5>2 DEF Key
        <5>4. QED
          BY <1>2, <4>1, <5>3
      <4>2. QED
        BY <1>2, <4>1
    <3>2. proc \in there
      BY <1>2, <1>3, <1>4
    <3> HIDE DEF there
    <3>3. there = {proc} /\ (CHOOSE j \in there : TRUE) = proc
      BY <3>1, <3>2
    <3>4. Wave'[s][due] = IF there = {} THEN None ELSE objects'[CHOOSE j \in there : TRUE].value
      <4>1. \A t \in Times : Wave'[s][t] =
              LET here == {i \in DOMAIN objects' \ fired' :
                             /\ objects'[i].active /\ objects'[i].site = s
                             /\ Due(objects'[i]) = t}
              IN  IF here = {} THEN None ELSE objects'[CHOOSE j \in here : TRUE].value
        BY DEF Wave, ToCome, Times, Due
      <4>2. {i \in DOMAIN objects' \ fired' :
               /\ objects'[i].active /\ objects'[i].site = s
               /\ Due(objects'[i]) = due} = there
        BY DEF Due, there
      <4>3. QED
        BY <1>5, <4>1, <4>2
    <3>5. QED
      BY <3>3, <3>4
  <2>2. QED
    BY <1>2, <2>1
<1>9. ASSUME NEW r \in Sites, NEW u \in Times, r # s \/ u # due
      PROVE  Wave'[r][u] = Wave[r][u]
  <2>1. ToCome(r, u)' = ToCome(r, u)
    <3>1. proc \notin ToCome(r, u)'
      BY <1>2, <1>9 DEF ToCome, Due
    <3>2. ASSUME NEW i \in DOMAIN objects
          PROVE  i \in ToCome(r, u)' <=> i \in ToCome(r, u)
      <4>1. objects[i].site = r /\ Due(objects[i]) = u => Key(objects[i]) # <<s, now>>
        BY <1>9 DEF Due, Key
      <4>2. QED
        BY <1>2, <1>3, <1>6, <4>1 DEF ToCome
    <3>3. ToCome(r, u) \subseteq DOMAIN objects /\ ToCome(r, u)' \subseteq DOMAIN objects'
      BY DEF ToCome
    <3>4. QED
      BY <1>2, <3>1, <3>2, <3>3
  <2>2. CASE ToCome(r, u) = {}
    BY <2>1, <2>2 DEF Wave, Times
  <2>3. CASE ToCome(r, u) # {}
    <3>1. PICK i \in ToCome(r, u) : i = CHOOSE j \in ToCome(r, u) : TRUE
      BY <2>3
    <3>2. i \in DOMAIN objects
      BY DEF ToCome
    <3>3. Wave'[r][u] = objects'[i].value /\ Wave[r][u] = objects[i].value
      BY <2>1, <2>3, <3>1 DEF Wave, Times
    <3>4. QED
      BY <1>2, <3>2, <3>3
  <2>4. QED
    BY <2>2, <2>3
<1>10. Wave' = [Wave EXCEPT ![s][due] = v]
  BY <1>5, <1>8, <1>9, WaveChange
<1>11. QED
  BY <1>3, <1>10 DEF Promise!Assign

LEMMA RunRefines ==
  ASSUME IInv, NEW id \in Slots, Run(id)
  PROVE  \/ \E s \in Sites : Promise!Deliver(s)
         \/ UNCHANGED <<now, Wave, out>>
<1>1. /\ id \in DOMAIN objects \ fired /\ Due(objects[id]) = now
      /\ objects' = objects /\ afterMap' = afterMap /\ now' = now
      /\ fired' = fired \cup {id}
  BY DEF Run
<1>2. \A s \in Sites, t \in Times : ToCome(s, t)' = ToCome(s, t) \ {id}
  BY <1>1 DEF ToCome, Due
<1> DEFINE s == objects[id].site
<1>3. s \in Sites /\ now \in Times /\ objects[id].value \in Values
  BY <1>1, ObjectFacts DEF IInv
<1>4. CASE objects[id].active
  <2>1. id \in ToCome(s, now)
    BY <1>1, <1>4 DEF ToCome
  <2>2. ToCome(s, now) = {id} /\ Wave[s][now] = objects[id].value
    BY <1>3, <2>1, ToComeUnique, WaveValue
  <2>3. Wave[s][now] # None
    BY <1>3, <2>2, NoneAssumption
  <2>4. Wave'[s][now] = None
    BY <1>2, <1>3, <2>2 DEF Wave, Times
  <2>5. ASSUME NEW r \in Sites, NEW u \in Times, r # s \/ u # now
        PROVE  Wave'[r][u] = Wave[r][u]
    <3>1. id \notin ToCome(r, u)
      BY <1>1, <2>5 DEF ToCome
    <3>2. ToCome(r, u)' = ToCome(r, u)
      BY <1>2, <3>1
    <3>3. QED
      BY <1>1, <3>2 DEF Wave, Times
  <2>6. Wave' = [Wave EXCEPT ![s][now] = None]
    BY <1>3, <2>4, <2>5, WaveChange
  <2>7. out' = [out EXCEPT ![s] = Wave[s][now]]
    BY <1>4, <2>2 DEF Run
  <2>8. Promise!Deliver(s)
    BY <1>1, <2>3, <2>6, <2>7 DEF Promise!Deliver
  <2>9. QED
    BY <1>3, <2>8
<1>5. CASE ~objects[id].active
  <2>1. \A r \in Sites, u \in Times : ToCome(r, u)' = ToCome(r, u)
    BY <1>2, <1>5 DEF ToCome
  <2>2. Wave' = Wave
    BY <1>1, <2>1, WaveSame
  <2>3. out' = out
    BY <1>5 DEF Run
  <2>4. QED
    BY <1>1, <2>2, <2>3
<1>6. QED
  BY <1>4, <1>5

LEMMA ReclaimRefines ==
  ASSUME IInv, NEW id \in Slots, Reclaim(id)
  PROVE  UNCHANGED <<now, Wave, out>>
<1>1. id \in fired /\ id \in DOMAIN objects /\ WellHeap(Heap) /\ Heap.objs = objects
  BY DEF Reclaim, IInv, Heap
<1>2. Destroy(Heap, id).objs = [i \in DOMAIN Heap.objs \ {id} |-> Heap.objs[i]]
  BY <1>1, DestroyEffect
<1>3. /\ objects' = [i \in DOMAIN objects \ {id} |-> objects[i]]
      /\ fired' = fired \ {id} /\ now' = now /\ out' = out
  BY <1>1, <1>2 DEF Reclaim, Heap
<1>4. \A s \in Sites, t \in Times : ToCome(s, t)' = ToCome(s, t)
  BY <1>1, <1>3 DEF ToCome, Due
<1>5. \A s \in Sites, t \in Times : \A i \in ToCome(s, t) : objects'[i].value = objects[i].value
  BY <1>1, <1>3 DEF ToCome
<1>6. QED
  BY <1>3, <1>4, <1>5, WaveSame

LEMMA AdvanceRefines ==
  ASSUME IInv, Advance
  PROVE  Promise!Advance
<1>1. \A s \in Sites : ToCome(s, now) = {}
  BY DEF Advance, ToCome
<1>2. \A s \in Sites : Wave[s][now] = None
  BY <1>1, WaveValue DEF IInv
<1>3. Wave' = Wave
  <2>1. \A s \in Sites, t \in Times : ToCome(s, t)' = ToCome(s, t)
    BY DEF Advance, ToCome, Due
  <2>2. QED
    BY <2>1, WaveSame DEF Advance
<1>4. QED
  BY <1>2, <1>3 DEF Advance, Promise!Advance

(* The library keeps the promise of a delayed assignment, whatever the     *)
(* number of calls in flight and their delays: no value is lost, delivered *)
(* late, or delivered after it was replaced.                               *)
THEOREM Refinement == Spec => ImplementsTransport
<1>1. Init => Promise!Init
  <2> SUFFICES ASSUME Init
               PROVE  Promise!Init
    OBVIOUS
  <2>1. \A s \in Sites, t \in Times : ToCome(s, t) = {}
    BY DEF Init, ToCome
  <2>2. Wave = [s \in Sites |-> [t \in Times |-> None]]
    BY <2>1 DEF Wave
  <2>3. QED
    BY <2>2 DEF Init, Promise!Init, Times
<1>2. IInv /\ IInv' /\ [Next]_vars => [Promise!Next]_(Promise!vars)
  <2> SUFFICES ASSUME IInv, IInv', [Next]_vars
               PROVE  Promise!Next \/ UNCHANGED <<now, Wave, out>>
    BY DEF Promise!vars
  <2>1. ASSUME NEW s \in Sites, NEW v \in Values, After(s, v)
        PROVE  Promise!Next
    BY <2>1, AfterRefines DEF Promise!Next
  <2>2. ASSUME NEW id \in Slots, Run(id)
        PROVE  Promise!Next \/ UNCHANGED <<now, Wave, out>>
    BY <2>2, RunRefines DEF Promise!Next
  <2>3. ASSUME NEW id \in Slots, Reclaim(id)
        PROVE  UNCHANGED <<now, Wave, out>>
    BY <2>3, ReclaimRefines
  <2>4. CASE Advance
    BY <2>4, AdvanceRefines DEF Promise!Next
  <2>5. CASE UNCHANGED vars
    <3>1. \A s \in Sites, t \in Times : ToCome(s, t)' = ToCome(s, t)
      BY <2>5 DEF vars, ToCome, Due
    <3>2. Wave' = Wave
      BY <2>5, <3>1, WaveSame DEF vars
    <3>3. QED
      BY <2>5, <3>2 DEF vars
  <2>6. QED
    BY <2>1, <2>2, <2>3, <2>4, <2>5 DEF Next
<1>3. QED
  BY <1>1, <1>2, IInvAlways, PTL DEF Spec, ImplementsTransport, Promise!Spec
=============================================================================

------------------------------- MODULE Events -------------------------------
(***************************************************************************)
(* Timed events (src/src/world/EventableObject.cpp, EventMgr.h) of one     *)
(* object that enters and leaves maps (Game/Entities/Object.cpp).          *)
(*                                                                         *)
(* A holder is a list of events with the thread that updates it: one for   *)
(* each map and one for the world (WORLD_INSTANCE).  A holder is named by  *)
(* its instance id; None stands for INSTANCEID_NOT_IN_WORLD, which no      *)
(* holder has.  The object's lock makes each of its operations one step,   *)
(* but event_AddEvent gives the event to the holder after it has released  *)
(* the lock.  A callback is any sequence of operations on the object by    *)
(* the thread that runs it.  Time passes in units of one update.           *)
(*                                                                         *)
(* A list or an insert pool is how many entries it has of each event: the  *)
(* order in which Update comes to the entries is left open.                *)
(***************************************************************************)
EXTENDS Naturals, FiniteSets

CONSTANTS
  Event,        \* the events that may be added
  Map,          \* the holders of maps
  World,        \* the holder of WorldRunnable
  None,
  NotInWorldContext,  \* EVENT_FLAG_DO_NOT_EXECUTE_IN_WORLD_CONTEXT
  DeletesObject,      \* EVENT_FLAG_DELETES_OBJECT
  MaxTime,      \* bound of a timer
  MaxOps,       \* bound of the moves and timer changes of a behaviour
  QueuedAdds    \* may events be added while the object waits to be pushed?

Holder == Map \cup {World}

ASSUME EventsAssumption ==
  /\ IsFiniteSet(Map) /\ World \notin Map /\ None \notin Holder \cup Event
  /\ NotInWorldContext \cup DeletesObject \subseteq Event
  /\ MaxTime \in Nat \ {0} /\ MaxOps \in Nat /\ QueuedAdds \in BOOLEAN

VARIABLES
  obj,      \* "out" of world, "queued" in a map's insert pool, "in", "gone"
  place,    \* m_instanceId
  holder,   \* m_holder (m_event_Instanceid is its id)
  events,   \* m_events
  ev,       \* the TimedEvents
  list,     \* list[e][h]: the entries of e in m_events of the holder h
  pool,     \* pool[e][h]: the entries of e in m_insertPool of the holder h
  pc,       \* where the thread of a holder is; not "idle" = it has m_lock
  todo,     \* todo[e][h]: of the list, what Update of h has still to come to
  cur,      \* the event its Update is at
  hand,     \* the event its thread has still to give to m_holder
  fault,    \* the use of a NULL or freed pointer, which ends the program
  ops,      \* moves and timer changes so far
  runs,     \* history: how often a one-shot event was started
  disturbed, \* history: events moved or removed while a thread ran them
  overlap,  \* history: events touched between the halves of their AddEvent
  keeper,   \* history: the last holder
  foreign   \* history: destroyed by another thread than the keeper's

objVars == <<obj, place>>
histVars == <<runs, disturbed, overlap, keeper, foreign>>
threadVars == <<pc, todo, cur>>
vars == <<obj, place, holder, events, ev, list, pool, pc, todo, cur, hand,
          fault, ops, runs, disturbed, overlap, keeper, foreign>>

Unborn == [life |-> "unborn", ref |-> 0, deleted |-> FALSE, inst |-> None,
           left |-> 0, ms |-> 0, repeats |-> 0, once |-> FALSE]

NoEntries == [e \in Event |-> [h \in Holder |-> 0]]

Init ==
  /\ obj = "out" /\ place = None /\ holder = None /\ events = {}
  /\ ev = [e \in Event |-> Unborn]
  /\ list = NoEntries /\ pool = NoEntries /\ todo = NoEntries
  /\ pc = [h \in Holder |-> "idle"]
  /\ cur = [h \in Holder |-> None] /\ hand = [h \in Holder |-> None]
  /\ fault = "none" /\ ops = 0
  /\ runs = [e \in Event |-> 0] /\ disturbed = {} /\ overlap = {}
  /\ keeper = None /\ foreign = FALSE

(***************************************************************************)
(* Events and their reference counts                                       *)
(***************************************************************************)
Live(e) == ev[e].life = "live"

\* DecRef, for n references.
Release(r, n) == IF n > 0 /\ r.ref = n THEN [r EXCEPT !.ref = 0, !.life = "freed"]
                 ELSE [r EXCEPT !.ref = @ - n]
DecRef(r) == Release(r, 1)
IncRef(r) == [r EXCEPT !.ref = @ + 1]

\* A plausible mistake: the object gives up its events without their count.
RemovedKeepsRef(r) == [r EXCEPT !.deleted = TRUE]

\* A plausible mistake: the holder's entry is not told of the removal.
RemovedSilently(r) == DecRef(r)

\* What the removal from m_events does to an event.
Removed(r) == DecRef([r EXCEPT !.deleted = TRUE])

\* The thread t may call operations of the object: between updates, or
\* within a callback.
CanCall(t) ==
  /\ fault = "none" /\ obj # "gone"
  /\ pc[t] \in {"idle", "run"} /\ hand[t] = None

HandsOf(S) == {hand[t] : t \in Holder} \cap S
RunningOf(S) == {cur[t] : t \in {h \in Holder : pc[h] \in {"due", "run"}}}
                  \cap S

(***************************************************************************)
(* event_AddEvent                                                          *)
(***************************************************************************)
\* A plausible mistake: the event is entered before it is counted.
NewUncounted(h, repeats) ==
  [life |-> "live", ref |-> 0, deleted |-> FALSE, inst |-> h, left |-> MaxTime,
   ms |-> MaxTime, repeats |-> repeats, once |-> repeats = 1]

\* An event as it is entered in m_events.
NewEvent(h, repeats) ==
  [life |-> "live", ref |-> 1, deleted |-> FALSE, inst |-> h, left |-> MaxTime,
   ms |-> MaxTime, repeats |-> repeats, once |-> repeats = 1]

\* A plausible mistake: no holder for objects out of the world.
HolderOrNone == IF holder # None THEN holder ELSE place

\* GetEventHolder(event_GetInstanceID()), or the world's.
HolderForAdd == IF holder # None THEN holder
                ELSE IF place # None THEN place ELSE World

\* The first half, under m_lock.  Events are added to run once (repeats = 1)
\* or for ever (repeats = 0); those that delete their object run once.
AddEvent(t, e, repeats) ==
  LET h == HolderForAdd IN
  /\ CanCall(t) /\ ev[e].life = "unborn"
  /\ e \in DeletesObject => repeats = 1
  /\ QueuedAdds \/ ~(obj = "queued" /\ holder = None)
  /\ holder' = h /\ keeper' = h
  /\ IF h = World /\ e \in NotInWorldContext
     THEN /\ ev' = [ev EXCEPT ![e].life = "freed"]
          /\ UNCHANGED <<events, hand>>
     ELSE /\ ev' = [ev EXCEPT ![e] = NewEvent(h, repeats)]
          /\ events' = events \cup {e}
          /\ hand' = [hand EXCEPT ![t] = e]
  /\ UNCHANGED <<objVars, list, pool, threadVars, fault, ops, runs, disturbed,
                 overlap, foreign>>

\* AttemptAcquire of a holder's recursive m_lock.
Acquires(t, h) == pc[h] = "idle" \/ t = h

\* One entry more, in the list, pool or rest of h, for each event of S; one less.
OneMore(entries, S, h) ==
  [e \in Event |-> IF e \in S THEN [entries[e] EXCEPT ![h] = @ + 1] ELSE entries[e]]
OneLess(entries, e, h) == [entries EXCEPT ![e][h] = @ - 1]

\* The iterator of Update is at the end of the list of h.
AtEnd(h) == \A e \in Event : todo[e][h] = 0

\* push_back: an iterator that is not at the end will come to the new entries.
PushBack(S, h) ==
  /\ list' = OneMore(list, S, h)
  /\ IF AtEnd(h) THEN UNCHANGED todo ELSE todo' = OneMore(todo, S, h)

\* A plausible mistake: what finds the holder busy is not kept for later.
GiveToFree(t, h, S) ==
  /\ IF Acquires(t, h) THEN PushBack(S, h) ELSE UNCHANGED <<list, todo>>
  /\ UNCHANGED pool

\* The events of S at the end of a holder's list, or of its insert pool while
\* another thread updates it.
GiveTo(t, h, S) ==
  \/ Acquires(t, h) /\ PushBack(S, h) /\ UNCHANGED pool
  \/ ~Acquires(t, h) /\ pool' = OneMore(pool, S, h) /\ UNCHANGED <<list, todo>>

\* The second half: m_holder->AddEvent(ptr) without the lock.
AddToHolder(t) ==
  LET e == hand[t] IN
  /\ fault = "none" /\ e # None /\ obj # "gone" /\ holder # None /\ Live(e)
  /\ ev' = [ev EXCEPT ![e] = IncRef(@)]
  /\ GiveTo(t, holder, {e})
  /\ hand' = [hand EXCEPT ![t] = None]
  /\ UNCHANGED <<objVars, holder, events, pc, cur, fault, ops, histVars>>

\* The same call after others have taken away what it reads.
AddFaults(t) ==
  LET e == hand[t] IN
  /\ fault = "none" /\ e # None
  /\ obj = "gone" \/ holder = None \/ ~Live(e)
  /\ fault' = IF obj = "gone" \/ holder # None THEN "freed" ELSE "null"
  /\ UNCHANGED <<objVars, holder, events, ev, list, pool, threadVars, hand,
                 ops, histVars>>

(***************************************************************************)
(* Removal and changes of timers                                           *)
(***************************************************************************)
\* event_RemoveEvents of a type (each event stands for a type of its own) or
\* of all, and event_RemoveByPointer.
RemoveEvents(t, S) ==
  /\ CanCall(t)
  /\ ev' = [e \in Event |-> IF e \in S THEN Removed(ev[e]) ELSE ev[e]]
  /\ events' = events \ S
  /\ overlap' = overlap \cup HandsOf(S)
  /\ disturbed' = disturbed \cup RunningOf(S)
  /\ UNCHANGED <<objVars, holder, list, pool, threadVars, hand, fault, ops,
                 runs, keeper, foreign>>

\* event_ModifyTimeLeft.
ModifyTimeLeft(t, e, time) ==
  /\ CanCall(t) /\ e \in events /\ ops < MaxOps
  /\ ev' = [ev EXCEPT ![e].left = IF time > ev[e].ms THEN ev[e].ms ELSE time]
  /\ ops' = ops + 1
  /\ UNCHANGED <<objVars, holder, events, list, pool, threadVars, hand,
                 fault, histVars>>

\* event_ModifyTimeAndTimeLeft.
ModifyTimeAndTimeLeft(t, e, time) ==
  /\ CanCall(t) /\ e \in events /\ ops < MaxOps
  /\ ev' = [ev EXCEPT ![e].left = time, ![e].ms = time]
  /\ ops' = ops + 1
  /\ UNCHANGED <<objVars, holder, events, list, pool, threadVars, hand,
                 fault, histVars>>

(***************************************************************************)
(* Moves between holders                                                   *)
(***************************************************************************)
\* A plausible mistake: the old holder keeps entries that count as its own.
LeavesInstance == UNCHANGED <<ev, list, pool, todo>>

\* event_Relocate out of every holder: Update will drop what has instance 0.
ClearInstance ==
  /\ ev' = [e \in Event |->
              IF e \in events THEN [ev[e] EXCEPT !.inst = None] ELSE ev[e]]
  /\ UNCHANGED <<list, pool, todo>>

\* EventableObjectHolder::AddObject: events that are not deleted go along.
AddObject(t, h) ==
  LET es == {e \in events : ~ev[e].deleted} IN
  /\ ev' = [e \in Event |-> IF e \in es
                            THEN [IncRef(ev[e]) EXCEPT !.inst = h] ELSE ev[e]]
  /\ GiveTo(t, h, es)

\* event_Relocate, called when m_instanceId is to be nh.
Relocate(t, nh) ==
  /\ IF nh = holder THEN UNCHANGED <<ev, list, pool, todo, disturbed, overlap>>
     ELSE /\ IF nh = None THEN ClearInstance ELSE AddObject(t, nh)
          /\ disturbed' = disturbed \cup RunningOf(events)
          /\ overlap' = overlap \cup HandsOf(events)
  /\ holder' = nh
  /\ keeper' = IF nh = None THEN keeper ELSE nh

\* Object::AddToWorld: m_instanceId changes at once, the push comes later.
AddToWorld(t, m) ==
  /\ CanCall(t) /\ obj = "out" /\ ops < MaxOps
  /\ obj' = "queued" /\ place' = m /\ ops' = ops + 1
  /\ UNCHANGED <<holder, events, ev, list, pool, threadVars, hand, fault,
                 histVars>>

\* Object::PushToWorld, in the map's own thread.
PushToWorld(m) ==
  /\ CanCall(m) /\ obj = "queued" /\ place = m
  /\ obj' = "in" /\ Relocate(m, m)
  /\ UNCHANGED <<place, events, pc, cur, hand, fault, ops, runs, foreign>>

\* Object::RemoveFromWorld, in the map's thread once the object is in.
RemoveFromWorld(t) ==
  /\ CanCall(t)
  /\ obj = "queued" \/ (obj = "in" /\ t = place)
  /\ obj' = "out" /\ place' = None /\ Relocate(t, None)
  /\ UNCHANGED <<events, pc, cur, hand, fault, ops, runs, foreign>>

\* ~EventableObject of an object that is out of the world.
Destroy(t) ==
  /\ CanCall(t) /\ obj = "out"
  /\ obj' = "gone" /\ events' = {}
  /\ ev' = [e \in Event |-> IF e \in events THEN Removed(ev[e]) ELSE ev[e]]
  /\ overlap' = overlap \cup HandsOf(events)
  /\ foreign' = (t # keeper)
  /\ UNCHANGED <<place, holder, list, pool, threadVars, hand, fault, ops,
                 runs, disturbed, keeper>>

(***************************************************************************)
(* EventableObjectHolder::Update, in the thread of the holder              *)
(***************************************************************************)
Kept(h, e) == ev[e].inst = h /\ ~ev[e].deleted

\* Takes m_lock and the entries of the insert pool that are still its own.
UpdateBegin(h) ==
  /\ fault = "none" /\ pc[h] = "idle" /\ hand[h] = None
  /\ pc' = [pc EXCEPT ![h] = "visit"]
  /\ list' = [e \in Event |-> IF Kept(h, e) THEN [list[e] EXCEPT ![h] = @ + pool[e][h]]
                              ELSE list[e]]
  /\ ev' = [e \in Event |-> IF Kept(h, e) THEN ev[e] ELSE Release(ev[e], pool[e][h])]
  /\ pool' = [e \in Event |-> [pool[e] EXCEPT ![h] = 0]]
  /\ todo' = [e \in Event |-> [todo[e] EXCEPT ![h] = list'[e][h]]]
  /\ UNCHANGED <<objVars, holder, events, cur, hand, fault, ops, histVars>>

\* A plausible mistake: only `deleted` is looked at, not the instance id.
KeptIfNotDeleted(h, e) == ~ev[e].deleted

\* Whether Update keeps an entry of its list.
Stays(h, e) == Kept(h, e)

\* A plausible mistake: a waiting event starts its period again.
WaitsAgain(r) == [r EXCEPT !.left = r.ms]

\* One update nearer to the time of the event.
Waits(r) == [r EXCEPT !.left = @ - 1]

\* The next entry of the list: dropped, due, or one update nearer.
Visit(h, e) ==
  /\ fault = "none" /\ pc[h] = "visit" /\ todo[e][h] > 0
  /\ todo' = OneLess(todo, e, h)
  /\ \/ /\ ~Stays(h, e)
        /\ ev' = [ev EXCEPT ![e] = DecRef(@)]
        /\ list' = OneLess(list, e, h)
        /\ UNCHANGED <<pc, cur>>
     \/ /\ Stays(h, e) /\ ev[e].left <= 1
        /\ pc' = [pc EXCEPT ![h] = "due"] /\ cur' = [cur EXCEPT ![h] = e]
        /\ UNCHANGED <<ev, list>>
     \/ /\ Stays(h, e) /\ ev[e].left > 1
        /\ ev' = [ev EXCEPT ![e] = Waits(@)]
        /\ UNCHANGED <<list, pc, cur>>
  /\ UNCHANGED <<objVars, holder, events, pool, hand, fault, ops, histVars>>

\* cb->execute(); an event that deletes its object leaves the list first.
Execute(h) ==
  LET e == cur[h] IN
  /\ fault = "none" /\ pc[h] = "due"
  /\ pc' = [pc EXCEPT ![h] = "run"]
  /\ IF e \in DeletesObject
     THEN /\ list' = OneLess(list, e, h)
          /\ ev' = [ev EXCEPT ![e].deleted = TRUE]
     ELSE UNCHANGED <<list, ev>>
  /\ runs' = [runs EXCEPT ![e] = IF ev[e].once THEN @ + 1 ELSE @]
  /\ UNCHANGED <<objVars, holder, events, pool, todo, cur, hand, fault, ops,
                 disturbed, overlap, keeper, foreign>>

\* The last repetition: the event leaves this list, and stays in m_events.
Expired(r) == [r EXCEPT !.repeats = 0, !.deleted = TRUE]

\* After the callback: expired, deleted meanwhile, or set to its period.
CallbackReturns(h) ==
  LET e == cur[h] r == ev[e] IN
  /\ fault = "none" /\ pc[h] = "run" /\ hand[h] = None
  /\ pc' = [pc EXCEPT ![h] = "visit"] /\ cur' = [cur EXCEPT ![h] = None]
  /\ \/ /\ e \in DeletesObject
        /\ ev' = [ev EXCEPT ![e] = DecRef(r)]
        /\ UNCHANGED list
     \/ /\ e \notin DeletesObject /\ (r.repeats = 1 \/ r.deleted)
        /\ ev' = [ev EXCEPT ![e] = DecRef(IF r.repeats = 1 THEN Expired(r) ELSE r)]
        /\ list' = OneLess(list, e, h)
     \/ /\ e \notin DeletesObject /\ ~(r.repeats = 1 \/ r.deleted)
        /\ ev' = [ev EXCEPT ![e].left = r.ms]
        /\ UNCHANGED list
  /\ UNCHANGED <<objVars, holder, events, pool, todo, hand, fault, ops, histVars>>

\* Releases m_lock.
UpdateEnd(h) ==
  /\ fault = "none" /\ pc[h] = "visit" /\ AtEnd(h)
  /\ pc' = [pc EXCEPT ![h] = "idle"]
  /\ UNCHANGED <<objVars, holder, events, ev, list, pool, todo, cur, hand, fault,
                 ops, histVars>>

Update(h) == \/ UpdateBegin(h) \/ (\E e \in Event : Visit(h, e)) \/ Execute(h)
             \/ CallbackReturns(h) \/ UpdateEnd(h)

ObjectCall(t) ==
  \/ \E e \in Event, repeats \in 0..1 : AddEvent(t, e, repeats)
  \/ \E e \in events : RemoveEvents(t, {e})
  \/ events # {} /\ RemoveEvents(t, events)
  \/ \E e \in Event, time \in 1..MaxTime : ModifyTimeLeft(t, e, time)
  \/ \E e \in Event, time \in 1..MaxTime : ModifyTimeAndTimeLeft(t, e, time)
  \/ \E m \in Map : AddToWorld(t, m)
  \/ RemoveFromWorld(t)
  \/ Destroy(t)

Next == \E t \in Holder :
  \/ ObjectCall(t) \/ AddToHolder(t) \/ AddFaults(t) \/ Update(t)
  \/ t \in Map /\ PushToWorld(t)

Spec == Init /\ [][Next]_vars

\* Every holder is updated again and again by its thread, callbacks return,
\* and a map's thread pushes what waits in its insert pool.
Fairness == \A t \in Holder :
  /\ WF_vars(Update(t)) /\ WF_vars(AddToHolder(t) \/ AddFaults(t))
  /\ t \in Map => WF_vars(PushToWorld(t))

FairSpec == Spec /\ Fairness
(***************************************************************************)
(* Properties                                                              *)
(***************************************************************************)
\* The entries of all holders together.
Total(n) == Cardinality(UNION {{h} \X (1 .. n[h]) : h \in Holder})
Entries(e) == Total(list[e]) + Total(pool[e])

\* Who runs an event that deletes its object, and has it in no list.
Deleting(e) == {h \in Holder : pc[h] = "run" /\ cur[h] = e /\ e \in DeletesObject}

Count(e) == (IF e \in events THEN 1 ELSE 0) + Entries(e) + Cardinality(Deleting(e))

TimedEvent == [life : {"unborn", "live", "freed"}, ref : Nat, deleted : BOOLEAN,
               inst : Holder \cup {None}, left : 0..MaxTime, ms : 0..MaxTime,
               repeats : 0..1, once : BOOLEAN]

\* The types of the variables.
TypeOK ==
  /\ obj \in {"out", "queued", "in", "gone"}
  /\ place \in Map \cup {None} /\ holder \in Holder \cup {None}
  /\ events \subseteq Event
  /\ ev \in [Event -> TimedEvent]
  /\ {list, pool, todo} \subseteq [Event -> [Holder -> Nat]]
  /\ pc \in [Holder -> {"idle", "visit", "due", "run"}]
  /\ cur \in [Holder -> Event \cup {None}]
  /\ hand \in [Holder -> Event \cup {None}]
  /\ fault \in {"none", "null", "freed"} /\ ops \in 0..MaxOps
  /\ runs \in [Event -> Nat] /\ disturbed \subseteq Event
  /\ overlap \subseteq Event /\ keeper \in Holder \cup {None}
  /\ foreign \in BOOLEAN

\* An event is counted once for its object, once for each entry of a list or
\* an insert pool, and once while an event that deletes its object runs: it
\* is freed when, and only when, the last of them lets go of it.
RefExact == \A e \in Event :
  /\ ev[e].ref = Count(e)
  /\ ev[e].life = "live" <=> ev[e].ref > 0

\* Whatever moves, appears in several lists, or is dropped late, a holder
\* other than the object's takes none of its events for its own.
OneHome ==
  \A e \in events : ev[e].deleted \/ ev[e].inst \in {holder, None}

\* The events of an object in the world are held by its map: none is left
\* behind by the moves the object made ("let's just wait till something will
\* add us again to world", event_Relocate).
NoneLeftBehind ==
  obj = "in" /\ fault = "none" =>
    \A e \in events :
      \/ ev[e].deleted \/ \E t \in Holder : hand[t] = e
      \/ /\ holder = place /\ ev[e].inst = holder
         /\ list[e][holder] + pool[e][holder] > 0

\* A one-shot event is started once, though two threads may meet it and it
\* may have several entries, unless it was moved while its callback was running.
OneShotOnce == \A e \in Event \ disturbed : runs[e] <= 1

\* No thread is in a callback of a destroyed object, except the one that
\* destroyed it, if the last holder's own thread did that and nobody had
\* moved or removed the event while it was running.
NoGhostCalls ==
  obj = "gone" /\ ~foreign =>
    \A h \in Holder : pc[h] \in {"due", "run"} => h = keeper \/ cur[h] \in disturbed

\* AddEvent meets a NULL holder or a freed event only if another thread
\* removed, moved or destroyed between its two halves.
FaultOnlyByOverlap == fault # "none" => overlap # {}

\* An event that stays with an object that stays in a map is run.
EventsRun == \A e \in Event, m \in Map :
  <>[](obj = "in" /\ place = m /\ fault = "none"
         /\ e \in events /\ ~ev[e].deleted)
    => []<>(pc[m] = "run" /\ cur[m] = e)

\* Types, reference counts that say exactly who has the event, and no null
\* pointer used unless two threads overlapped in event_AddEvent.
Consistent == TypeOK /\ RefExact /\ FaultOnlyByOverlap
=============================================================================

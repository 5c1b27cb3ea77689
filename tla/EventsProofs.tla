---------------------------- MODULE EventsProofs ----------------------------
(***************************************************************************)
(* For any number of events and maps: the reference counts of the events   *)
(* of an object are exact, an event is at home in one holder and is not    *)
(* left behind, a one-shot event is started once, and no callback runs for *)
(* a destroyed object but that of the thread that destroyed it.            *)
(***************************************************************************)
EXTENDS Events, FiniteSetTheorems, FunctionTheorems, TLAPS

-----------------------------------------------------------------------------
(* Counting entries. *)

Cells(n) == UNION {{h} \X (1 .. n[h]) : h \in Holder}

LEMMA HolderFinite == IsFiniteSet(Holder) /\ World \in Holder
BY EventsAssumption, FS_AddElement DEF Holder

\* The entries of some of the holders are finitely many.
LEMMA CellsFinite ==
  ASSUME NEW n \in [Holder -> Nat], NEW H \in SUBSET Holder
  PROVE  IsFiniteSet(UNION {{h} \X (1 .. n[h]) : h \in H})
<1> DEFINE f == [h \in H |-> {h} \X (1 .. n[h])]
           S == {{h} \X (1 .. n[h]) : h \in H}
<1>1. IsFiniteSet(H)
  BY HolderFinite, FS_Subset
<1>2. f \in Surjection(H, S)
  <2>1. f \in [H -> S]
    OBVIOUS
  <2>2. ASSUME NEW T \in S
        PROVE  \E h \in H : f[h] = T
    <3>1. PICK h \in H : T = {h} \X (1 .. n[h])
      OBVIOUS
    <3>2. f[h] = {h} \X (1 .. n[h])
      OBVIOUS
    <3> HIDE DEF f
    <3> QED BY <3>1, <3>2
  <2> HIDE DEF f, S
  <2> QED BY <2>1, <2>2, Fun_IsSurj
<1>3. IsFiniteSet(S)
  BY <1>1, <1>2, FS_Surjection
<1>4. ASSUME NEW T \in S
      PROVE  IsFiniteSet(T)
  <2>1. PICK h \in H : T = {h} \X (1 .. n[h])
    OBVIOUS
  <2> DEFINE k == n[h]
  <2>2. k \in Int
    OBVIOUS
  <2> HIDE DEF k, f, S
  <2>3. IsFiniteSet({h})
    BY FS_Singleton
  <2>4. IsFiniteSet(1 .. k)
    BY <2>2, FS_Interval
  <2>5. IsFiniteSet({h} \X (1 .. k))
    BY <2>3, <2>4, FS_Product
  <2> QED BY <2>1, <2>5 DEF k
<1> QED BY <1>3, <1>4, FS_UNION

\* One holder apart from the others.
LEMMA TotalSplit ==
  ASSUME NEW n \in [Holder -> Nat], NEW h \in Holder
  PROVE  LET rest == UNION {{g} \X (1 .. n[g]) : g \in Holder \ {h}}
         IN  /\ IsFiniteSet(rest) /\ Cardinality(rest) \in Nat
             /\ Total(n) = Cardinality(rest) + n[h]
<1> DEFINE rest == UNION {{g} \X (1 .. n[g]) : g \in Holder \ {h}}
           here == {h} \X (1 .. n[h])
<1>1. IsFiniteSet(rest)
  BY CellsFinite
<1>2. n[h] \in Nat
  OBVIOUS
<1>3. IsFiniteSet(here) /\ Cardinality(here) = n[h]
  <2>1. IsFiniteSet({h}) /\ Cardinality({h}) = 1
    BY FS_Singleton
  <2>2. IsFiniteSet(1 .. n[h]) /\ Cardinality(1 .. n[h]) = n[h]
    BY <1>2, FS_Interval
  <2>3. IsFiniteSet(here) /\ Cardinality(here) = 1 * n[h]
    BY <2>1, <2>2, FS_Product
  <2> QED BY <1>2, <2>3
<1>4. Cells(n) = rest \cup here
  BY DEF Cells
<1>5. rest \cap here = {}
  OBVIOUS
<1> HIDE DEF rest, here
<1>6. Cardinality(rest \cup here) = Cardinality(rest) + Cardinality(here) - Cardinality(rest \cap here)
  BY <1>1, <1>3, FS_Union
<1>7. Cardinality(rest \cap here) = 0
  BY <1>5, FS_EmptySet
<1>8. Cardinality(rest) \in Nat
  BY <1>1, FS_CardinalityType
<1>9. Total(n) = Cardinality(rest \cup here)
  BY <1>4 DEF Total, Cells
<1>10. Total(n) = Cardinality(rest) + n[h]
  BY <1>2, <1>3, <1>6, <1>7, <1>8, <1>9
<1> QED BY <1>1, <1>8, <1>10 DEF rest

LEMMA TotalType ==
  ASSUME NEW n \in [Holder -> Nat]
  PROVE  Total(n) \in Nat
<1>1. PICK c \in Nat : Total(n) = c + n[World]
  BY HolderFinite, TotalSplit
<1>2. n[World] \in Nat
  BY HolderFinite
<1> QED BY <1>1, <1>2

\* Another number at one holder.
LEMMA TotalChange ==
  ASSUME NEW n \in [Holder -> Nat], NEW m \in [Holder -> Nat], NEW h \in Holder,
         \A g \in Holder \ {h} : m[g] = n[g]
  PROVE  Total(m) = Total(n) - n[h] + m[h] /\ n[h] <= Total(n)
<1> DEFINE rest(f) == UNION {{g} \X (1 .. f[g]) : g \in Holder \ {h}}
<1>1. rest(m) = rest(n)
  OBVIOUS
<1>2. Total(n) = Cardinality(rest(n)) + n[h] /\ Cardinality(rest(n)) \in Nat
  BY TotalSplit
<1>3. Total(m) = Cardinality(rest(m)) + m[h]
  BY TotalSplit
<1>4. m[h] \in Nat /\ n[h] \in Nat
  OBVIOUS
<1> HIDE DEF rest
<1> QED BY <1>1, <1>2, <1>3, <1>4

LEMMA TotalZero == Total([h \in Holder |-> 0]) = 0
<1>1. Cells([h \in Holder |-> 0]) = {}
  BY DEF Cells
<1> QED BY <1>1, FS_EmptySet DEF Total, Cells

-----------------------------------------------------------------------------
(* The invariant. *)

\* A thread that runs an event, or is about to.
Busy(h) == pc[h] \in {"due", "run"}

\* The entry of e that Update of h has taken from what it has still to come to,
\* and may still remove from the list.
Current(h, e) ==
  IF cur[h] = e /\ (pc[h] = "due" \/ (pc[h] = "run" /\ e \notin DeletesObject)) THEN 1 ELSE 0

\* Update comes to each entry of the list at most once.
Fits ==
  \A h \in Holder : \A e \in Event :
    /\ todo[e][h] + Current(h, e) <= list[e][h]
    /\ pc[h] = "idle" => todo[e][h] = 0

Running == \A h \in Holder : Busy(h) => cur[h] \in Event

Counted == TypeOK /\ Running /\ Fits /\ RefExact

\* What is referred to and not deleted belongs to the object.
Owned == \A e \in Event : ev[e].ref > 0 /\ ~ev[e].deleted => e \in events

Keeper == holder # None => keeper = holder

\* An event that nobody disturbs is run by one thread, that of the object's holder.
InCallback ==
  \A h \in Holder : Busy(h) /\ cur[h] \notin disturbed =>
    /\ ev[cur[h]].deleted \/ ev[cur[h]].inst = h
    /\ keeper = h
    /\ obj = "gone" \/ (cur[h] \in events /\ holder = h)

\* A one-shot event has not been started, or runs, or is deleted.
Once ==
  \A e \in Event \ disturbed :
    /\ ev[e].ref > 0 /\ ev[e].once /\ ~ev[e].deleted => ev[e].repeats = 1
    /\ runs[e] <= 1 /\ (runs[e] = 1 => ev[e].once)
    /\ ev[e].life = "unborn" => runs[e] = 0
    /\ \A h \in Holder : pc[h] = "due" /\ cur[h] = e => runs[e] = 0
    /\ runs[e] = 1 => ev[e].deleted \/ \E h \in Holder : pc[h] = "run" /\ cur[h] = e
    /\ e \in DeletesObject => \A h \in Holder : pc[h] = "run" /\ cur[h] = e => ev[e].deleted

\* What AddEvent has still to give is there, unless somebody came between.
Given ==
  overlap = {} =>
    /\ fault = "none"
    /\ \A t \in Holder : hand[t] # None => hand[t] \in events /\ holder # None /\ obj # "gone"

\* While the object is in a map, so are its events.
AtHome ==
  /\ obj = "out" => place = None
  /\ obj \in {"out", "queued"} => holder \in {World, None}
  /\ obj = "in" => holder = place /\ place \in Map
  /\ obj = "in" => \A e \in events : ev[e].deleted \/ ev[e].inst = holder

\* No event of an object in a map is without an entry where its map finds it.
Held ==
  obj = "in" => \A e \in events :
    ev[e].deleted \/ (\E t \in Holder : hand[t] = e) \/ list[e][holder] + pool[e][holder] > 0

-----------------------------------------------------------------------------
(* What the operators do. *)

EntryCounts == [Event -> [Holder -> Nat]]

LEMMA EntryTypes ==
  ASSUME TypeOK
  PROVE  list \in EntryCounts /\ pool \in EntryCounts /\ todo \in EntryCounts
BY DEF TypeOK, EntryCounts

\* n references less.
LEMMA ReleaseType ==
  ASSUME NEW r \in TimedEvent, NEW n \in Nat, n <= r.ref, r.life = "live" <=> r.ref > 0
  PROVE  LET q == Release(r, n)
         IN  /\ q \in TimedEvent /\ q.ref = r.ref - n /\ (q.life = "live" <=> q.ref > 0)
             /\ q.deleted = r.deleted /\ q.inst = r.inst /\ q.repeats = r.repeats
             /\ q.once = r.once /\ (q.life = "unborn" => r.life = "unborn")
<1>1. r.ref \in Nat
  BY DEF TimedEvent
<1>2. CASE n > 0 /\ r.ref = n
  <2> DEFINE q == Release(r, n)
  <2>1. q = [r EXCEPT !.ref = 0, !.life = "freed"]
    BY <1>2 DEF Release
  <2>2. r.ref - n = 0
    BY <1>1, <1>2
  <2>3. r.life # "unborn"
    BY <1>1, <1>2
  <2> HIDE DEF q
  <2>4. q.ref = 0 /\ q.life = "freed" /\ q \in TimedEvent
    BY <2>1 DEF TimedEvent
  <2>5. q.deleted = r.deleted /\ q.inst = r.inst /\ q.repeats = r.repeats /\ q.once = r.once
    BY <2>1 DEF TimedEvent
  <2>6. /\ q.ref = r.ref - n /\ (q.life = "live" <=> q.ref > 0)
        /\ (q.life = "unborn" => r.life = "unborn")
    BY <2>2, <2>4
  <2> QED BY <2>4, <2>5, <2>6 DEF q
<1>3. CASE ~(n > 0 /\ r.ref = n)
  <2>1. r.ref - n \in Nat /\ (r.ref - n > 0 <=> r.ref > 0)
    BY <1>1, <1>3
  <2>2. Release(r, n) = [r EXCEPT !.ref = r.ref - n]
    BY <1>3 DEF Release
  <2> QED BY <2>1, <2>2 DEF TimedEvent
<1> QED BY <1>2, <1>3

\* What OneMore does ...
More(n, m, S, h) ==
  /\ m \in EntryCounts
  /\ \A e \in S : Total(m[e]) = Total(n[e]) + 1 /\ m[e][h] = n[e][h] + 1
  /\ \A e \in Event \ S : m[e] = n[e]
  /\ \A e \in Event : \A g \in Holder \ {h} : m[e][g] = n[e][g]

\* ... and OneLess.
Less(n, m, e, h) ==
  /\ m \in EntryCounts
  /\ Total(m[e]) = Total(n[e]) - 1 /\ m[e][h] = n[e][h] - 1
  /\ \A g \in Holder \ {h} : m[e][g] = n[e][g]
  /\ \A d \in Event \ {e} : m[d] = n[d]

LEMMA OneMoreType ==
  ASSUME NEW n \in EntryCounts, NEW S \in SUBSET Event, NEW h \in Holder
  PROVE  More(n, OneMore(n, S, h), S, h)
<1> DEFINE m == OneMore(n, S, h)
<1>0. m = [e \in Event |-> IF e \in S THEN [n[e] EXCEPT ![h] = @ + 1] ELSE n[e]]
  BY DEF OneMore
<1> HIDE DEF m
<1>1. ASSUME NEW e \in S
      PROVE  /\ m[e] \in [Holder -> Nat] /\ m[e][h] = n[e][h] + 1
             /\ \A g \in Holder \ {h} : m[e][g] = n[e][g]
             /\ Total(m[e]) = Total(n[e]) + 1
  <2> DEFINE f == n[e]
             k == f[h] + 1
  <2>1. f \in [Holder -> Nat] /\ k \in Nat
    BY DEF EntryCounts
  <2>2. m[e] = [f EXCEPT ![h] = k]
    BY <1>0
  <2> HIDE DEF f
  <2>3. /\ m[e] \in [Holder -> Nat] /\ m[e][h] = f[h] + 1
        /\ \A g \in Holder \ {h} : m[e][g] = f[g]
    BY <2>1, <2>2
  <2>4. Total(m[e]) = Total(f) - f[h] + m[e][h]
    BY <2>1, <2>3, TotalChange
  <2>5. Total(f) \in Nat /\ f[h] \in Nat
    BY <2>1, TotalType
  <2> QED BY <2>3, <2>4, <2>5 DEF f
<1>2. \A e \in Event \ S : m[e] = n[e]
  BY <1>0
<1>3. m \in EntryCounts
  <2>1. \A e \in Event : m[e] \in [Holder -> Nat]
    BY <1>1, <1>2 DEF EntryCounts
  <2>2. m = [e \in Event |-> m[e]]
    BY <1>0
  <2> QED BY <2>1, <2>2 DEF EntryCounts
<1>4. \A e \in Event : \A g \in Holder \ {h} : m[e][g] = n[e][g]
  BY <1>1, <1>2
<1>5. More(n, m, S, h)
  BY <1>1, <1>2, <1>3, <1>4 DEF More
<1> QED BY <1>5 DEF m

LEMMA OneLessType ==
  ASSUME NEW n \in EntryCounts, NEW e \in Event, NEW h \in Holder, n[e][h] > 0,
         n[e][h] \in Nat
  PROVE  Less(n, OneLess(n, e, h), e, h)
<1> DEFINE m == OneLess(n, e, h)
           f == n[e]
           k == f[h] - 1
           g == [f EXCEPT ![h] = k]
<1>1. f \in [Holder -> Nat] /\ k \in Nat
  BY DEF EntryCounts
<1>2. m = [n EXCEPT ![e] = g]
  BY DEF OneLess
<1>3. k = f[h] - 1
  OBVIOUS
<1> HIDE DEF f, k, m
<1>a. g \in [Holder -> Nat] /\ g[h] = k /\ \A x \in Holder \ {h} : g[x] = f[x]
  BY <1>1
<1> HIDE DEF g
<1>b. Total(g) = Total(f) - f[h] + g[h] /\ Total(f) \in Nat /\ f[h] \in Nat
  BY <1>1, <1>a, TotalChange, TotalType
<1>4. /\ g \in [Holder -> Nat] /\ g[h] = k /\ \A x \in Holder \ {h} : g[x] = f[x]
      /\ Total(g) = Total(f) - 1
  BY <1>3, <1>a, <1>b
<1>5. m[e] = g /\ m \in EntryCounts /\ \A d \in Event \ {e} : m[d] = n[d]
  BY <1>2, <1>4 DEF EntryCounts
<1>6. Less(n, m, e, h)
  BY <1>3, <1>4, <1>5 DEF f, Less
<1> QED BY <1>6 DEF m

\* New entries: the iterator that comes to them has them in its list.
LEMMA GiveToCounts ==
  ASSUME TypeOK, Fits, NEW t \in Holder, NEW h \in Holder, NEW S \in SUBSET Event,
         GiveTo(t, h, S), UNCHANGED <<pc, cur>>
  PROVE  /\ list' \in EntryCounts /\ pool' \in EntryCounts /\ todo' \in EntryCounts
         /\ Fits'
         /\ \A e \in S : Entries(e)' = Entries(e) + 1 /\ list'[e][h] + pool'[e][h] > 0
         /\ \A e \in Event \ S : list'[e] = list[e] /\ pool'[e] = pool[e]
<1>0. list \in EntryCounts /\ pool \in EntryCounts /\ todo \in EntryCounts
  BY EntryTypes
<1>1. \A e \in Event : /\ Total(list[e]) \in Nat /\ Total(pool[e]) \in Nat
                       /\ \A g \in Holder : /\ list[e][g] \in Nat /\ pool[e][g] \in Nat
                                            /\ todo[e][g] \in Nat /\ Current(g, e) \in Nat
  BY <1>0, TotalType DEF EntryCounts, Current
<1>2. \A g \in Holder : \A e \in Event : Current(g, e)' = Current(g, e)
  BY DEF Current
<1>3. CASE pool' = OneMore(pool, S, h) /\ UNCHANGED <<list, todo>>
  <2>1. Fits'
    BY <1>2, <1>3 DEF Fits
  <2>2. More(pool, pool', S, h)
    BY <1>0, <1>3, OneMoreType
  <2> QED BY <1>0, <1>1, <1>3, <2>1, <2>2 DEF More, Entries
<1>4. CASE PushBack(S, h) /\ UNCHANGED pool
  <2>1. list' = OneMore(list, S, h)
    BY <1>4 DEF PushBack
  <2>2. /\ list' \in EntryCounts
        /\ \A e \in S : Total(list'[e]) = Total(list[e]) + 1 /\ list'[e][h] = list[e][h] + 1
        /\ \A e \in Event \ S : list'[e] = list[e]
        /\ \A e \in Event : \A g \in Holder \ {h} : list'[e][g] = list[e][g]
    <3>1. More(list, list', S, h)
      BY <1>0, <2>1, OneMoreType
    <3> QED BY <3>1 DEF More
  <2>3. todo' \in EntryCounts /\ Fits'
    <3>1. CASE AtEnd(h) /\ UNCHANGED todo
      <4>1. \A e \in Event : \A g \in Holder : list'[e][g] >= list[e][g] /\ list'[e][g] \in Nat
        BY <1>1, <2>2
      <4> QED BY <1>0, <1>1, <1>2, <3>1, <4>1 DEF Fits
    <3>2. CASE ~AtEnd(h) /\ todo' = OneMore(todo, S, h)
      <4>1. /\ todo' \in EntryCounts
            /\ \A e \in S : todo'[e][h] = todo[e][h] + 1
            /\ \A e \in Event \ S : todo'[e] = todo[e]
            /\ \A e \in Event : \A g \in Holder \ {h} : todo'[e][g] = todo[e][g]
        <5>1. More(todo, todo', S, h)
          BY <1>0, <3>2, OneMoreType
        <5> QED BY <5>1 DEF More
      <4>2. pc[h] # "idle"
        BY <3>2 DEF Fits, AtEnd
      <4>3. ASSUME NEW g \in Holder, NEW e \in Event
            PROVE  /\ todo'[e][g] + Current(g, e)' <= list'[e][g]
                   /\ pc'[g] = "idle" => todo'[e][g] = 0
        <5>1. /\ todo[e][g] + Current(g, e) <= list[e][g]
              /\ pc[g] = "idle" => todo[e][g] = 0
          BY DEF Fits
        <5>2. CASE g = h /\ e \in S
          BY <1>1, <1>2, <2>2, <4>1, <4>2, <5>1, <5>2
        <5>3. CASE ~(g = h /\ e \in S)
          <6>1. todo'[e][g] = todo[e][g] /\ list'[e][g] = list[e][g]
            BY <2>2, <4>1, <5>3
          <6> QED BY <1>2, <5>1, <6>1
        <5> QED BY <5>2, <5>3
      <4> QED BY <4>1, <4>3 DEF Fits
    <3> QED BY <1>4, <3>1, <3>2 DEF PushBack
  <2> QED BY <1>0, <1>1, <1>4, <2>2, <2>3 DEF Entries
<1> QED BY <1>3, <1>4 DEF GiveTo

LEMMA DeletingFinite ==
  ASSUME NEW e \in Event
  PROVE  IsFiniteSet(Deleting(e)) /\ Cardinality(Deleting(e)) \in Nat
BY HolderFinite, FS_Subset, FS_CardinalityType DEF Deleting

\* Every reference is one of the object, of an entry or of a callback.
LEMMA CountParts ==
  ASSUME TypeOK, NEW e \in Event
  PROVE  /\ Entries(e) \in Nat /\ Count(e) \in Nat
         /\ e \in events => Count(e) > 0
         /\ \A h \in Holder :
              /\ list[e][h] \in Nat /\ pool[e][h] \in Nat
              /\ list[e][h] <= Count(e) /\ pool[e][h] <= Count(e)
              /\ h \in Deleting(e) => Count(e) > 0
<1>0. list[e] \in [Holder -> Nat] /\ pool[e] \in [Holder -> Nat]
  BY EntryTypes DEF EntryCounts
<1>1. Total(list[e]) \in Nat /\ Total(pool[e]) \in Nat /\ Cardinality(Deleting(e)) \in Nat
  BY <1>0, TotalType, DeletingFinite
<1>2. ASSUME NEW h \in Holder
      PROVE  /\ list[e][h] \in Nat /\ pool[e][h] \in Nat
             /\ list[e][h] <= Total(list[e]) /\ pool[e][h] <= Total(pool[e])
  BY <1>0, TotalChange
<1>3. ASSUME NEW h \in Deleting(e)
      PROVE  Cardinality(Deleting(e)) > 0
  BY <1>1, DeletingFinite, FS_EmptySet
<1> QED BY <1>1, <1>2, <1>3 DEF Count, Entries

LEMMA CountSame ==
  ASSUME NEW e \in Event, list'[e] = list[e], pool'[e] = pool[e],
         e \in events' <=> e \in events, Deleting(e)' = Deleting(e)
  PROVE  Count(e)' = Count(e)
BY DEF Count, Entries

\* Removal from m_events, and an entry more.
LEMMA RemovedType ==
  ASSUME NEW r \in TimedEvent, r.ref > 0, r.life = "live" <=> r.ref > 0
  PROVE  LET q == Removed(r)
         IN  /\ q \in TimedEvent /\ q.ref = r.ref - 1 /\ (q.life = "live" <=> q.ref > 0)
             /\ q.deleted /\ q.inst = r.inst /\ q.repeats = r.repeats
             /\ q.once = r.once /\ q.life # "unborn"
<1> DEFINE d == [r EXCEPT !.deleted = TRUE]
           q == Release(d, 1)
<1>1. /\ d \in TimedEvent /\ d.ref = r.ref /\ d.life = r.life /\ d.deleted = TRUE
      /\ d.inst = r.inst /\ d.repeats = r.repeats /\ d.once = r.once
  BY DEF TimedEvent
<1>2. 1 \in Nat /\ 1 <= d.ref /\ (d.life = "live" <=> d.ref > 0) /\ r.life = "live"
  <2>1. r.ref \in Nat
    BY DEF TimedEvent
  <2> QED BY <1>1, <2>1
<1>3. Removed(r) = q
  BY DEF Removed, DecRef
<1> HIDE DEF d
<1>4. /\ q \in TimedEvent /\ q.ref = d.ref - 1 /\ (q.life = "live" <=> q.ref > 0)
      /\ q.deleted = d.deleted /\ q.inst = d.inst /\ q.repeats = d.repeats
      /\ q.once = d.once /\ (q.life = "unborn" => d.life = "unborn")
  BY <1>1, <1>2, ReleaseType
<1> HIDE DEF q
<1> QED BY <1>1, <1>2, <1>3, <1>4

LEMMA IncRefType ==
  ASSUME NEW r \in TimedEvent, r.ref > 0, r.life = "live"
  PROVE  LET q == IncRef(r)
         IN  /\ q \in TimedEvent /\ q.ref = r.ref + 1 /\ q.ref > 0 /\ q.life = "live"
             /\ q.deleted = r.deleted /\ q.inst = r.inst /\ q.repeats = r.repeats
             /\ q.once = r.once
<1>1. r.ref \in Nat
  BY DEF TimedEvent
<1> QED BY <1>1 DEF IncRef, TimedEvent

\* The counts of an event that is there.
LEMMA Records ==
  ASSUME Counted, NEW e \in Event
  PROVE  /\ ev[e] \in TimedEvent /\ ev[e].ref \in Nat /\ ev[e].ref = Count(e)
         /\ ev[e].life = "live" <=> ev[e].ref > 0
         /\ e \in events => ev[e].ref > 0
         /\ \A h \in Holder : /\ list[e][h] \in Nat /\ pool[e][h] \in Nat /\ todo[e][h] \in Nat
                              /\ list[e][h] <= ev[e].ref /\ pool[e][h] <= ev[e].ref
                              /\ h \in Deleting(e) => ev[e].ref > 0
<1>1. ev[e] \in TimedEvent /\ TypeOK /\ todo \in EntryCounts
  BY EntryTypes DEF Counted, TypeOK
<1>2. ev[e].ref \in Nat
  BY <1>1 DEF TimedEvent
<1>3. ev[e].ref = Count(e) /\ (ev[e].life = "live" <=> ev[e].ref > 0)
  BY DEF Counted, RefExact
<1> QED BY <1>1, <1>2, <1>3, CountParts DEF EntryCounts

-----------------------------------------------------------------------------
(* Every step keeps the counts. *)

\* A step that changes no entries.
LEMMA CountedQuiet ==
  ASSUME Counted, TypeOK', UNCHANGED <<list, pool, todo, pc, cur>>,
         \A e \in Event :
           /\ ev'[e].ref = ev[e].ref + (IF e \in events' THEN 1 ELSE 0)
                                     - (IF e \in events THEN 1 ELSE 0)
           /\ ev'[e].life = "live" <=> ev'[e].ref > 0
  PROVE  Counted'
<1>1. Running' /\ Fits'
  BY DEF Counted, Running, Busy, Fits, Current
<1>2. ASSUME NEW e \in Event
      PROVE  ev'[e].ref = Count(e)'
  <2>1. /\ ev[e].ref = Count(e) /\ Entries(e) \in Nat /\ Cardinality(Deleting(e)) \in Nat
    BY CountParts, DeletingFinite DEF Counted, RefExact
  <2>2. Entries(e)' = Entries(e) /\ Deleting(e)' = Deleting(e)
    BY DEF Entries, Deleting
  <2>3. Count(e) = (IF e \in events THEN 1 ELSE 0) + Entries(e) + Cardinality(Deleting(e))
    BY DEF Count
  <2>4. Count(e)' = (IF e \in events' THEN 1 ELSE 0) + Entries(e) + Cardinality(Deleting(e))
    BY <2>2 DEF Count
  <2> QED BY <2>1, <2>3, <2>4
<1> QED BY <1>1, <1>2 DEF Counted, RefExact

LEMMA HolderForAddType == TypeOK => HolderForAdd \in Holder
BY HolderFinite DEF TypeOK, HolderForAdd, Holder

LEMMA CountedAddEvent ==
  ASSUME Counted, NEW t \in Holder, NEW e \in Event, NEW repeats \in 0..1, AddEvent(t, e, repeats)
  PROVE  Counted'
<1> DEFINE h == HolderForAdd
<1>1. TypeOK /\ h \in Holder
  BY HolderForAddType DEF Counted
<1> HIDE DEF h
<1>2. ev[e].life = "unborn" /\ holder' = h /\ keeper' = h
      /\ UNCHANGED <<objVars, list, pool, threadVars, fault, ops, runs, disturbed, overlap, foreign>>
  BY DEF AddEvent, h
<1>3. ev[e].ref = 0 /\ e \notin events
  BY <1>2, Records
<1>4. MaxTime \in 0..MaxTime
  BY EventsAssumption
<1>5. CASE /\ ev' = [ev EXCEPT ![e].life = "freed"] /\ UNCHANGED <<events, hand>>
  <2>1. /\ \A d \in Event \ {e} : ev'[d] = ev[d]
        /\ ev'[e] \in TimedEvent /\ ev'[e].ref = 0 /\ ev'[e].life = "freed"
        /\ ev' \in [Event -> TimedEvent]
    <3> DEFINE r == [ev[e] EXCEPT !.life = "freed"]
    <3>1. ev \in [Event -> TimedEvent] /\ ev[e] \in TimedEvent
      BY <1>1 DEF TypeOK
    <3>2. r \in TimedEvent /\ r.ref = 0 /\ r.life = "freed"
      BY <1>3, <3>1 DEF TimedEvent
    <3>3. ev' = [ev EXCEPT ![e] = r]
      BY <1>5
    <3> HIDE DEF r
    <3> QED BY <3>1, <3>2, <3>3
  <2>2. TypeOK'
    BY <1>1, <1>2, <1>5, <2>1 DEF TypeOK, objVars, threadVars
  <2>3. ASSUME NEW d \in Event
        PROVE  ev'[d].ref = ev[d].ref /\ (ev'[d].life = "live" <=> ev'[d].ref > 0)
    BY <1>3, <2>1, Records
  <2>4. \A d \in Event : ev[d].ref \in Nat
    BY Records
  <2> QED BY <1>2, <1>5, <2>2, <2>3, <2>4, CountedQuiet DEF threadVars
<1>6. CASE /\ ev' = [ev EXCEPT ![e] = NewEvent(h, repeats)]
           /\ events' = events \cup {e} /\ hand' = [hand EXCEPT ![t] = e]
  <2>1. /\ NewEvent(h, repeats) \in TimedEvent /\ NewEvent(h, repeats).ref = 1
        /\ NewEvent(h, repeats).life = "live"
    BY <1>1, <1>4 DEF NewEvent, TimedEvent
  <2>2. /\ \A d \in Event \ {e} : ev'[d] = ev[d]
        /\ ev'[e].ref = 1 /\ ev'[e].life = "live" /\ ev' \in [Event -> TimedEvent]
    BY <1>1, <1>6, <2>1 DEF TypeOK
  <2>3. TypeOK'
    BY <1>1, <1>2, <1>6, <2>2 DEF TypeOK, objVars, threadVars
  <2>4. ASSUME NEW d \in Event
        PROVE  /\ ev'[d].ref = ev[d].ref + (IF d \in events' THEN 1 ELSE 0)
                                         - (IF d \in events THEN 1 ELSE 0)
               /\ ev'[d].life = "live" <=> ev'[d].ref > 0
    <3>1. ev[d].ref \in Nat /\ (ev[d].life = "live" <=> ev[d].ref > 0)
      BY Records
    <3>2. CASE d = e
      BY <1>3, <1>6, <2>2, <3>2
    <3>3. CASE d # e
      BY <1>6, <2>2, <3>1, <3>3
    <3> QED BY <3>2, <3>3
  <2> QED BY <1>2, <2>3, <2>4, CountedQuiet DEF threadVars
<1> QED BY <1>5, <1>6 DEF AddEvent, h

LEMMA CountedRemoved ==
  ASSUME Counted, NEW S \in SUBSET Event, S \subseteq events, events' = events \ S,
         ev' = [e \in Event |-> IF e \in S THEN Removed(ev[e]) ELSE ev[e]],
         UNCHANGED <<list, pool, todo, pc, cur>>,
         ev' \in [Event -> TimedEvent] => TypeOK'
  PROVE  Counted'
<1>1. ASSUME NEW e \in Event
      PROVE  /\ ev'[e] \in TimedEvent
             /\ ev'[e].ref = ev[e].ref + (IF e \in events' THEN 1 ELSE 0)
                                       - (IF e \in events THEN 1 ELSE 0)
             /\ ev'[e].life = "live" <=> ev'[e].ref > 0
  <2>1. /\ ev[e] \in TimedEvent /\ ev[e].ref \in Nat /\ (ev[e].life = "live" <=> ev[e].ref > 0)
        /\ e \in events => ev[e].ref > 0
    BY Records
  <2>2. CASE e \in S
    <3>1. ev'[e] = Removed(ev[e]) /\ e \in events /\ e \notin events'
      BY <2>2
    <3>2. ev'[e] \in TimedEvent /\ ev'[e].ref = ev[e].ref - 1 /\ (ev'[e].life = "live" <=> ev'[e].ref > 0)
      BY <2>1, <3>1, RemovedType
    <3> QED BY <2>1, <3>1, <3>2
  <2>3. CASE e \notin S
    <3>1. ev'[e] = ev[e] /\ (e \in events' <=> e \in events)
      BY <2>3
    <3> QED BY <2>1, <3>1
  <2> QED BY <2>2, <2>3
<1>2. ev' \in [Event -> TimedEvent]
  BY <1>1
<1> QED BY <1>1, <1>2, CountedQuiet

LEMMA CountedRemove ==
  ASSUME Counted, NEW t \in Holder, NEW S \in SUBSET events, RemoveEvents(t, S)
  PROVE  Counted'
<1>1. TypeOK /\ S \in SUBSET Event
  BY DEF Counted, TypeOK
<1>2. ev' \in [Event -> TimedEvent] => TypeOK'
  BY <1>1 DEF TypeOK, RemoveEvents, objVars, threadVars, HandsOf, RunningOf
<1> QED BY <1>1, <1>2, CountedRemoved DEF RemoveEvents, threadVars

LEMMA CountedDestroy ==
  ASSUME Counted, NEW t \in Holder, Destroy(t)
  PROVE  Counted'
<1>1. TypeOK /\ events \in SUBSET Event
  BY DEF Counted, TypeOK
<1>2. ev' \in [Event -> TimedEvent] => TypeOK'
  BY <1>1 DEF TypeOK, Destroy, threadVars, HandsOf
<1> QED BY <1>1, <1>2, CountedRemoved DEF Destroy, threadVars

\* A change of timers is a change of nothing else.
Alike(r, q) ==
  /\ q.life = r.life /\ q.ref = r.ref /\ q.deleted = r.deleted /\ q.inst = r.inst
  /\ q.repeats = r.repeats /\ q.once = r.once

LEMMA ModifyAlike ==
  ASSUME Counted, NEW t \in Holder, NEW e \in Event, NEW time \in 1..MaxTime,
         ModifyTimeLeft(t, e, time) \/ ModifyTimeAndTimeLeft(t, e, time)
  PROVE  /\ ev' \in [Event -> TimedEvent]
         /\ \A d \in Event : Alike(ev[d], ev'[d])
<1>1. TypeOK
  BY DEF Counted
<1>2. ev \in [Event -> TimedEvent] /\ ev[e] \in TimedEvent /\ time \in 0..MaxTime
  BY <1>1, EventsAssumption DEF TypeOK
<1> SUFFICES \E r \in TimedEvent : ev' = [ev EXCEPT ![e] = r] /\ Alike(ev[e], r)
  BY <1>2 DEF Alike
<1>3. CASE ModifyTimeLeft(t, e, time)
  <2> DEFINE left == IF time > ev[e].ms THEN ev[e].ms ELSE time
             r == [ev[e] EXCEPT !.left = left]
  <2>1. left \in 0..MaxTime
    BY <1>2 DEF TimedEvent
  <2>2. ev' = [ev EXCEPT ![e] = r]
    BY <1>2, <1>3 DEF ModifyTimeLeft
  <2> HIDE DEF left
  <2>3. r \in TimedEvent /\ Alike(ev[e], r)
    BY <1>2, <2>1 DEF Alike, TimedEvent
  <2> HIDE DEF r
  <2> QED BY <2>2, <2>3
<1>4. CASE ModifyTimeAndTimeLeft(t, e, time)
  <2> DEFINE r == [ev[e] EXCEPT !.left = time, !.ms = time]
  <2>1. ev' = [ev EXCEPT ![e] = r]
    BY <1>2, <1>4 DEF ModifyTimeAndTimeLeft
  <2>2. r \in TimedEvent /\ Alike(ev[e], r)
    BY <1>2 DEF Alike, TimedEvent
  <2> HIDE DEF r
  <2> QED BY <2>1, <2>2
<1> QED BY <1>3, <1>4

LEMMA CountedModify ==
  ASSUME Counted, NEW t \in Holder, NEW e \in Event, NEW time \in 1..MaxTime,
         ModifyTimeLeft(t, e, time) \/ ModifyTimeAndTimeLeft(t, e, time)
  PROVE  Counted'
<1>1. TypeOK
  BY DEF Counted
<1>2. /\ ev' \in [Event -> TimedEvent]
      /\ \A d \in Event : ev'[d].ref = ev[d].ref /\ ev'[d].life = ev[d].life
  BY ModifyAlike DEF Alike
<1>3. /\ UNCHANGED <<objVars, holder, events, list, pool, threadVars, hand, fault, histVars>>
      /\ ops < MaxOps /\ ops' = ops + 1
  BY DEF ModifyTimeLeft, ModifyTimeAndTimeLeft
<1>4. TypeOK'
  BY <1>1, <1>2, <1>3, EventsAssumption DEF TypeOK, objVars, threadVars, histVars
<1>5. \A d \in Event : ev[d].ref \in Nat /\ (ev[d].life = "live" <=> ev[d].ref > 0)
  BY Records
<1> QED BY <1>2, <1>3, <1>4, <1>5, CountedQuiet DEF threadVars

LEMMA CountedFault ==
  ASSUME Counted, NEW t \in Holder, AddFaults(t)
  PROVE  Counted'
<1>1. TypeOK'
  BY DEF Counted, TypeOK, AddFaults, objVars, threadVars, histVars
<1>2. \A d \in Event : ev[d].ref \in Nat /\ (ev[d].life = "live" <=> ev[d].ref > 0)
  BY Records
<1> QED BY <1>1, <1>2, CountedQuiet DEF AddFaults, threadVars

\* A step that gives entries to a holder.
LEMMA CountedGive ==
  ASSUME Counted, NEW t \in Holder, NEW h \in Holder, NEW S \in SUBSET Event, GiveTo(t, h, S),
         UNCHANGED <<events, pc, cur>>,
         \A e \in S : /\ ev'[e] \in TimedEvent /\ ev'[e].ref = ev[e].ref + 1
                      /\ ev'[e].life = "live",
         \A e \in Event \ S : ev'[e] = ev[e],
         ev' = [e \in Event |-> ev'[e]],
         /\ ev' \in [Event -> TimedEvent]
         /\ list' \in EntryCounts /\ pool' \in EntryCounts /\ todo' \in EntryCounts
         => TypeOK'
  PROVE  Counted' /\ \A e \in S : list'[e][h] + pool'[e][h] > 0
<1>1. TypeOK /\ Fits /\ Running
  BY DEF Counted
<1>2. /\ list' \in EntryCounts /\ pool' \in EntryCounts /\ todo' \in EntryCounts
      /\ Fits'
      /\ \A e \in S : Entries(e)' = Entries(e) + 1 /\ list'[e][h] + pool'[e][h] > 0
      /\ \A e \in Event \ S : list'[e] = list[e] /\ pool'[e] = pool[e]
  BY <1>1, GiveToCounts
<1>3. ASSUME NEW e \in Event
      PROVE  ev'[e] \in TimedEvent /\ ev'[e].ref = Count(e)' /\ (ev'[e].life = "live" <=> ev'[e].ref > 0)
  <2>1. /\ ev[e] \in TimedEvent /\ ev[e].ref \in Nat /\ ev[e].ref = Count(e)
        /\ (ev[e].life = "live" <=> ev[e].ref > 0)
    BY Records
  <2>2. Deleting(e)' = Deleting(e)
    BY DEF Deleting
  <2>3. CASE e \in S
    <3>1. Entries(e)' = Entries(e) + 1
      BY <1>2, <2>3
    <3>2. Entries(e) \in Nat /\ Cardinality(Deleting(e)) \in Nat
      BY <1>1, CountParts, DeletingFinite
    <3>3. Count(e)' = Count(e) + 1
      BY <2>2, <3>1, <3>2 DEF Count
    <3> QED BY <2>1, <2>3, <3>3
  <2>4. CASE e \notin S
    <3>1. ev'[e] = ev[e] /\ list'[e] = list[e] /\ pool'[e] = pool[e]
      BY <1>2, <2>4
    <3> QED BY <2>1, <2>2, <3>1, CountSame
  <2> QED BY <2>3, <2>4
<1>4. ev' \in [Event -> TimedEvent]
  BY <1>3
<1>5. TypeOK'
  BY <1>2, <1>4
<1>6. Running'
  BY <1>1 DEF Running, Busy
<1>7. RefExact'
  BY <1>3 DEF RefExact
<1> QED BY <1>2, <1>5, <1>6, <1>7 DEF Counted

LEMMA CountedAddToHolder ==
  ASSUME Counted, NEW t \in Holder, AddToHolder(t)
  PROVE  Counted'
<1> DEFINE e == hand[t]
<1>1. /\ TypeOK /\ e \in Event /\ holder \in Holder /\ Live(e)
      /\ ev' = [ev EXCEPT ![e] = IncRef(ev[e])]
      /\ GiveTo(t, holder, {e}) /\ hand' = [hand EXCEPT ![t] = None]
      /\ UNCHANGED <<objVars, holder, events, pc, cur, fault, ops, histVars>>
  BY DEF Counted, TypeOK, AddToHolder
<1> HIDE DEF e
<1>2. /\ ev[e] \in TimedEvent /\ ev[e].ref > 0 /\ ev[e].life = "live" /\ ev \in [Event -> TimedEvent]
  BY <1>1, Records DEF Live, TypeOK
<1>3. /\ IncRef(ev[e]) \in TimedEvent /\ IncRef(ev[e]).ref = ev[e].ref + 1 /\ IncRef(ev[e]).life = "live"
  BY <1>2, IncRefType
<1>4. /\ ev'[e] = IncRef(ev[e]) /\ \A d \in Event \ {e} : ev'[d] = ev[d]
      /\ ev' = [d \in Event |-> ev'[d]]
  BY <1>1, <1>2
<1>5. /\ ev' \in [Event -> TimedEvent]
      /\ list' \in EntryCounts /\ pool' \in EntryCounts /\ todo' \in EntryCounts
      => TypeOK'
  BY <1>1 DEF TypeOK, objVars, histVars, EntryCounts
<1> DEFINE S == {e}
<1>6. /\ S \in SUBSET Event /\ GiveTo(t, holder, S) /\ UNCHANGED <<events, pc, cur>>
      /\ \A d \in S : d = e
      /\ \A d \in Event \ S : ev'[d] = ev[d]
  BY <1>1, <1>4
<1> HIDE DEF S
<1>7. \A d \in S : ev'[d] \in TimedEvent /\ ev'[d].ref = ev[d].ref + 1 /\ ev'[d].life = "live"
  BY <1>3, <1>4, <1>6
<1> QED BY <1>1, <1>4, <1>5, <1>6, <1>7, CountedGive

LEMMA CountedAddToWorld ==
  ASSUME Counted, NEW t \in Holder, NEW m \in Map, AddToWorld(t, m)
  PROVE  Counted'
<1>1. TypeOK'
  BY EventsAssumption DEF Counted, TypeOK, AddToWorld, threadVars, histVars
<1>2. \A d \in Event : ev[d].ref \in Nat /\ (ev[d].life = "live" <=> ev[d].ref > 0)
  BY Records
<1> QED BY <1>1, <1>2, CountedQuiet DEF AddToWorld, threadVars

\* What event_Relocate does: it clears the instance of the events, or gives
\* those that are not deleted to another holder.
LEMMA CountedRelocate ==
  ASSUME Counted, NEW t \in Holder, NEW nh \in Holder \cup {None}, Relocate(t, nh),
         UNCHANGED <<events, pc, cur, hand, fault, ops, runs, foreign>>,
         obj' \in {"out", "queued", "in", "gone"}, place' \in Map \cup {None}
  PROVE  Counted'
<1>1. TypeOK
  BY DEF Counted
<1>2. events \in SUBSET Event /\ ev \in [Event -> TimedEvent]
  BY <1>1 DEF TypeOK
<1>3. /\ ev' \in [Event -> TimedEvent]
      /\ list' \in EntryCounts /\ pool' \in EntryCounts /\ todo' \in EntryCounts
      => TypeOK'
  BY <1>1 DEF TypeOK, Relocate, EntryCounts, HandsOf, RunningOf
<1>4. CASE UNCHANGED <<ev, list, pool, todo>>
  <2>1. TypeOK'
    BY <1>1, <1>2, <1>3, <1>4, EntryTypes
  <2>2. \A d \in Event : ev[d].ref \in Nat /\ (ev[d].life = "live" <=> ev[d].ref > 0)
    BY Records
  <2> QED BY <1>4, <2>1, <2>2, CountedQuiet
<1>5. CASE ClearInstance
  <2>1. ASSUME NEW e \in Event
        PROVE  ev'[e] \in TimedEvent /\ ev'[e].ref = ev[e].ref /\ ev'[e].life = ev[e].life
    <3>1. ev[e] \in TimedEvent
      BY <1>2
    <3>2. [ev[e] EXCEPT !.inst = None] \in TimedEvent
      BY <3>1 DEF TimedEvent
    <3>3. [ev[e] EXCEPT !.inst = None].ref = ev[e].ref /\ [ev[e] EXCEPT !.inst = None].life = ev[e].life
      BY <3>1 DEF TimedEvent
    <3> QED BY <1>5, <3>1, <3>2, <3>3 DEF ClearInstance
  <2>2. ev' \in [Event -> TimedEvent]
    BY <1>5, <2>1 DEF ClearInstance
  <2>3. UNCHANGED <<list, pool, todo>>
    BY <1>5 DEF ClearInstance
  <2>4. TypeOK'
    BY <1>1, <1>3, <2>2, <2>3, EntryTypes
  <2>5. \A d \in Event : ev[d].ref \in Nat /\ (ev[d].life = "live" <=> ev[d].ref > 0)
    BY Records
  <2> QED BY <2>1, <2>3, <2>4, <2>5, CountedQuiet
<1>6. CASE nh \in Holder /\ AddObject(t, nh)
  <2> DEFINE es == {e \in events : ~ev[e].deleted}
  <2>1. es \in SUBSET Event /\ GiveTo(t, nh, es)
    BY <1>2, <1>6 DEF AddObject
  <2>2. ev' = [e \in Event |-> IF e \in es THEN [IncRef(ev[e]) EXCEPT !.inst = nh] ELSE ev[e]]
    BY <1>6 DEF AddObject
  <2>3. \A e \in es : e \in events
    OBVIOUS
  <2> HIDE DEF es
  <2>4. ASSUME NEW e \in es
        PROVE  ev'[e] \in TimedEvent /\ ev'[e].ref = ev[e].ref + 1 /\ ev'[e].life = "live"
    <3> DEFINE q == IncRef(ev[e])
    <3>1. e \in Event /\ ev[e] \in TimedEvent /\ ev[e].ref > 0 /\ ev[e].life = "live"
      BY <2>1, <2>3, Records
    <3>2. q \in TimedEvent /\ q.ref = ev[e].ref + 1 /\ q.life = "live"
      BY <3>1, IncRefType
    <3>3. ev'[e] = [q EXCEPT !.inst = nh]
      BY <2>2, <3>1
    <3> HIDE DEF q
    <3> QED BY <1>6, <3>2, <3>3 DEF TimedEvent
  <2>5. \A e \in Event \ es : ev'[e] = ev[e]
    BY <2>2
  <2>6. ev' = [e \in Event |-> ev'[e]]
    BY <2>2
  <2> QED BY <1>3, <1>6, <2>1, <2>4, <2>5, <2>6, CountedGive
<1> QED BY <1>4, <1>5, <1>6 DEF Relocate

LEMMA CountedPushToWorld ==
  ASSUME Counted, NEW m \in Map, PushToWorld(m)
  PROVE  Counted'
<1>1. m \in Holder /\ TypeOK
  BY DEF Holder, Counted
<1>2. obj' \in {"out", "queued", "in", "gone"} /\ place' \in Map \cup {None}
  BY <1>1 DEF PushToWorld, TypeOK
<1> QED BY <1>1, <1>2, CountedRelocate DEF PushToWorld

LEMMA CountedRemoveFromWorld ==
  ASSUME Counted, NEW t \in Holder, RemoveFromWorld(t)
  PROVE  Counted'
<1>1. obj' \in {"out", "queued", "in", "gone"} /\ place' \in Map \cup {None}
  BY DEF RemoveFromWorld
<1> QED BY <1>1, CountedRelocate DEF RemoveFromWorld

-----------------------------------------------------------------------------
(* Update keeps the counts. *)

\* A step of Update of h touches only what is of h.
LEMMA CountedThread ==
  ASSUME Counted, NEW h \in Holder, TypeOK',
         \A g \in Holder \ {h} : pc'[g] = pc[g] /\ cur'[g] = cur[g],
         \A g \in Holder \ {h} : \A e \in Event :
           todo'[e][g] = todo[e][g] /\ list'[e][g] = list[e][g],
         \A e \in Event : /\ todo'[e][h] + Current(h, e)' <= list'[e][h]
                          /\ pc'[h] = "idle" => todo'[e][h] = 0,
         Busy(h)' => cur'[h] \in Event,
         \A e \in Event : ev'[e].ref = Count(e)' /\ (ev'[e].life = "live" <=> ev'[e].ref > 0)
  PROVE  Counted'
<1>1. Running'
  BY DEF Counted, Running, Busy
<1>2. Fits'
  <2>1. \A g \in Holder \ {h} : \A e \in Event : Current(g, e)' = Current(g, e)
    BY DEF Current
  <2>2. ASSUME NEW g \in Holder, NEW e \in Event
        PROVE  /\ todo'[e][g] + Current(g, e)' <= list'[e][g]
               /\ pc'[g] = "idle" => todo'[e][g] = 0
    <3>1. CASE g = h
      BY <3>1
    <3>2. CASE g # h
      <4>1. /\ todo[e][g] + Current(g, e) <= list[e][g]
            /\ pc[g] = "idle" => todo[e][g] = 0
        BY DEF Counted, Fits
      <4> QED BY <2>1, <3>2, <4>1
    <3> QED BY <3>1, <3>2
  <2> QED BY <2>2 DEF Fits
<1>3. RefExact'
  BY DEF RefExact
<1> QED BY <1>1, <1>2, <1>3 DEF Counted

LEMMA CountedUpdateBegin ==
  ASSUME Counted, NEW h \in Holder, UpdateBegin(h)
  PROVE  Counted'
<1>1. TypeOK
  BY DEF Counted
<1>2. /\ list \in EntryCounts /\ pool \in EntryCounts /\ todo \in EntryCounts
      /\ pc \in [Holder -> {"idle", "visit", "due", "run"}] /\ ev \in [Event -> TimedEvent]
  BY <1>1, EntryTypes DEF TypeOK
<1>3. /\ pc[h] = "idle" /\ pc' = [pc EXCEPT ![h] = "visit"]
      /\ UNCHANGED <<objVars, holder, events, cur, hand, fault, ops, histVars>>
  BY DEF UpdateBegin
<1>4. ASSUME NEW e \in Event
      PROVE  /\ list'[e] \in [Holder -> Nat] /\ pool'[e] \in [Holder -> Nat]
             /\ todo'[e] \in [Holder -> Nat] /\ todo'[e][h] = list'[e][h]
             /\ \A g \in Holder \ {h} : list'[e][g] = list[e][g] /\ todo'[e][g] = todo[e][g]
             /\ IF Kept(h, e)
                THEN Entries(e)' = Entries(e) /\ ev'[e] = ev[e]
                ELSE Entries(e)' = Entries(e) - pool[e][h] /\ ev'[e] = Release(ev[e], pool[e][h])
  <2> DEFINE n == list[e]
             p == pool[e]
             r == todo[e]
             k == n[h] + p[h]
             n1 == [n EXCEPT ![h] = k]
             p1 == [p EXCEPT ![h] = 0]
             x == list'[e][h]
             r1 == [r EXCEPT ![h] = x]
  <2>1. n \in [Holder -> Nat] /\ p \in [Holder -> Nat] /\ r \in [Holder -> Nat]
        /\ n[h] \in Nat /\ p[h] \in Nat /\ k \in Nat
    BY <1>2 DEF EntryCounts
  <2>2. /\ list'[e] = IF Kept(h, e) THEN n1 ELSE n
        /\ ev'[e] = IF Kept(h, e) THEN ev[e] ELSE Release(ev[e], pool[e][h])
        /\ pool'[e] = p1 /\ todo'[e] = r1
    BY DEF UpdateBegin
  <2>3. k = n[h] + p[h] /\ p[h] = pool[e][h] /\ n = list[e] /\ p = pool[e] /\ r = todo[e]
        /\ x = list'[e][h]
    OBVIOUS
  <2> HIDE DEF n, p, r, k, x
  <2>4. /\ n1 \in [Holder -> Nat] /\ n1[h] = k /\ \A g \in Holder \ {h} : n1[g] = n[g]
        /\ p1 \in [Holder -> Nat] /\ p1[h] = 0 /\ \A g \in Holder \ {h} : p1[g] = p[g]
    BY <2>1
  <2> HIDE DEF n1, p1
  <2>5. /\ Total(n1) = Total(n) - n[h] + n1[h] /\ Total(p1) = Total(p) - p[h] + p1[h]
        /\ Total(n) \in Nat /\ Total(p) \in Nat
    BY <2>1, <2>4, TotalChange, TotalType
  <2>6. x \in Nat /\ list'[e] \in [Holder -> Nat]
        /\ \A g \in Holder \ {h} : list'[e][g] = n[g]
    BY <2>1, <2>2, <2>3, <2>4
  <2>7. r1 \in [Holder -> Nat] /\ r1[h] = x /\ \A g \in Holder \ {h} : r1[g] = r[g]
    BY <2>1, <2>6
  <2> HIDE DEF r1
  <2>8. CASE Kept(h, e)
    <3>1. Total(list'[e]) + Total(pool'[e]) = Total(n) + Total(p)
      BY <2>1, <2>2, <2>3, <2>4, <2>5, <2>8
    <3>2. Entries(e)' = Entries(e) /\ ev'[e] = ev[e]
      BY <2>2, <2>3, <2>8, <3>1 DEF Entries
    <3> QED BY <2>2, <2>3, <2>4, <2>6, <2>7, <2>8, <3>2
  <2>9. CASE ~Kept(h, e)
    <3>1. Total(list'[e]) + Total(pool'[e]) = Total(n) + Total(p) - p[h]
      BY <2>1, <2>2, <2>3, <2>4, <2>5, <2>9
    <3>2. Entries(e)' = Entries(e) - pool[e][h]
      BY <2>1, <2>3, <2>5, <3>1 DEF Entries
    <3>3. ev'[e] = Release(ev[e], pool[e][h])
      BY <2>2, <2>9
    <3> QED BY <2>2, <2>3, <2>4, <2>6, <2>7, <2>9, <3>2, <3>3
  <2> QED BY <2>8, <2>9
<1>5. ASSUME NEW e \in Event
      PROVE  ev'[e] \in TimedEvent /\ ev'[e].ref = Count(e)' /\ (ev'[e].life = "live" <=> ev'[e].ref > 0)
  <2>1. /\ ev[e] \in TimedEvent /\ ev[e].ref \in Nat /\ ev[e].ref = Count(e)
        /\ (ev[e].life = "live" <=> ev[e].ref > 0) /\ pool[e][h] \in Nat /\ pool[e][h] <= ev[e].ref
    BY Records
  <2>2. Deleting(e)' = Deleting(e)
    BY <1>2, <1>3 DEF Deleting
  <2>3. Entries(e) \in Nat /\ Cardinality(Deleting(e)) \in Nat
    BY <1>1, CountParts, DeletingFinite
  <2>4. CASE Kept(h, e)
    <3>1. Count(e)' = Count(e)
      BY <1>3, <1>4, <2>2, <2>4 DEF Count
    <3> QED BY <1>4, <2>1, <2>4, <3>1
  <2>5. CASE ~Kept(h, e)
    <3>1. Count(e)' = Count(e) - pool[e][h]
      BY <1>3, <1>4, <2>1, <2>2, <2>3, <2>5 DEF Count
    <3>2. /\ ev'[e] \in TimedEvent /\ ev'[e].ref = ev[e].ref - pool[e][h]
          /\ (ev'[e].life = "live" <=> ev'[e].ref > 0)
      <4> DEFINE q == Release(ev[e], pool[e][h])
      <4>1. ev'[e] = q
        BY <1>4, <2>5
      <4>2. q \in TimedEvent /\ q.ref = ev[e].ref - pool[e][h] /\ (q.life = "live" <=> q.ref > 0)
        BY <2>1, ReleaseType
      <4> HIDE DEF q
      <4> QED BY <4>1, <4>2
    <3> QED BY <2>1, <3>1, <3>2
  <2> QED BY <2>4, <2>5
<1>6. ev' \in [Event -> TimedEvent]
  <2>1. ev' = [e \in Event |-> ev'[e]]
    BY DEF UpdateBegin
  <2> QED BY <1>5, <2>1
<1>7. list' \in EntryCounts /\ pool' \in EntryCounts /\ todo' \in EntryCounts
  <2>1. /\ list' = [e \in Event |-> list'[e]] /\ pool' = [e \in Event |-> pool'[e]]
        /\ todo' = [e \in Event |-> todo'[e]]
    BY DEF UpdateBegin
  <2> QED BY <1>4, <2>1 DEF EntryCounts
<1>8. TypeOK'
  BY <1>1, <1>3, <1>6, <1>7 DEF TypeOK, objVars, histVars, EntryCounts
<1>9. /\ pc'[h] = "visit" /\ ~Busy(h)'
      /\ \A g \in Holder \ {h} : pc'[g] = pc[g] /\ cur'[g] = cur[g]
      /\ \A e \in Event : Current(h, e)' = 0
  BY <1>2, <1>3 DEF Busy, Current
<1>10. \A e \in Event : /\ todo'[e][h] + Current(h, e)' <= list'[e][h]
                        /\ pc'[h] = "idle" => todo'[e][h] = 0
  <2> TAKE e \in Event
  <2>1. list'[e][h] \in Nat /\ todo'[e][h] = list'[e][h]
    BY <1>4
  <2> QED BY <1>9, <2>1
<1> QED BY <1>4, <1>5, <1>8, <1>9, <1>10, CountedThread

LEMMA CountedUpdateEnd ==
  ASSUME Counted, NEW h \in Holder, UpdateEnd(h)
  PROVE  Counted'
<1>1. TypeOK /\ TypeOK' /\ pc \in [Holder -> {"idle", "visit", "due", "run"}]
  BY DEF Counted, TypeOK, UpdateEnd, objVars, histVars
<1>2. /\ pc[h] = "visit" /\ pc' = [pc EXCEPT ![h] = "idle"] /\ AtEnd(h)
      /\ UNCHANGED <<events, ev, list, pool, todo, cur>>
  BY DEF UpdateEnd
<1>3. /\ pc'[h] = "idle" /\ ~Busy(h)'
      /\ \A g \in Holder \ {h} : pc'[g] = pc[g] /\ cur'[g] = cur[g]
      /\ \A e \in Event : Current(h, e)' = 0
  BY <1>1, <1>2 DEF Busy, Current
<1>4. ASSUME NEW e \in Event
      PROVE  /\ ev'[e].ref = Count(e)' /\ (ev'[e].life = "live" <=> ev'[e].ref > 0)
             /\ todo'[e][h] + Current(h, e)' <= list'[e][h] /\ todo'[e][h] = 0
  <2>1. Deleting(e)' = Deleting(e)
    BY <1>1, <1>2 DEF Deleting
  <2>2. Count(e)' = Count(e)
    BY <1>2, <2>1, CountSame
  <2>3. list[e][h] \in Nat /\ ev[e].ref = Count(e) /\ (ev[e].life = "live" <=> ev[e].ref > 0)
    BY Records
  <2> QED BY <1>2, <1>3, <2>2, <2>3 DEF AtEnd
<1> QED BY <1>1, <1>2, <1>3, <1>4, CountedThread

\* A step of Update of h that is at the entry of one event.
LEMMA CountedEntry ==
  ASSUME Counted, NEW h \in Holder, NEW e \in Event, TypeOK', UNCHANGED <<events, pool>>,
         \A g \in Holder \ {h} :
           /\ pc'[g] = pc[g] /\ cur'[g] = cur[g]
           /\ todo'[e][g] = todo[e][g] /\ list'[e][g] = list[e][g],
         \A d \in Event \ {e} :
           /\ ev'[d] = ev[d] /\ list'[d] = list[d] /\ todo'[d] = todo[d]
           /\ Current(h, d)' = 0 /\ Deleting(d)' = Deleting(d),
         pc'[h] # "idle", Busy(h)' => cur'[h] \in Event,
         todo'[e][h] + Current(h, e)' <= list'[e][h],
         ev'[e].ref = Count(e)' /\ (ev'[e].life = "live" <=> ev'[e].ref > 0)
  PROVE  Counted'
<1>1. ASSUME NEW d \in Event
      PROVE  ev'[d].ref = Count(d)' /\ (ev'[d].life = "live" <=> ev'[d].ref > 0)
  <2>1. ev[d].ref = Count(d) /\ (ev[d].life = "live" <=> ev[d].ref > 0)
    BY Records
  <2>2. CASE d # e
    <3>1. ev'[d] = ev[d] /\ Count(d)' = Count(d)
      BY <2>2, CountSame
    <3> QED BY <2>1, <3>1
  <2>3. CASE d = e
    BY <2>3
  <2> QED BY <2>2, <2>3
<1>2. ASSUME NEW d \in Event
      PROVE  /\ todo'[d][h] + Current(h, d)' <= list'[d][h]
             /\ pc'[h] = "idle" => todo'[d][h] = 0
  <2>1. CASE d # e
    <3>1. /\ todo[d][h] + Current(h, d) <= list[d][h]
          /\ todo[d][h] \in Nat /\ list[d][h] \in Nat /\ Current(h, d) \in {0, 1}
      BY Records DEF Counted, Fits, Current
    <3> QED BY <2>1, <3>1
  <2> QED BY <2>1
<1>3. \A g \in Holder \ {h} : \A d \in Event :
        todo'[d][g] = todo[d][g] /\ list'[d][g] = list[d][g]
  OBVIOUS
<1> QED BY <1>1, <1>2, <1>3, CountedThread

LEMMA CountedVisit ==
  ASSUME Counted, NEW h \in Holder, NEW e \in Event, Visit(h, e)
  PROVE  Counted'
<1>1. TypeOK /\ list \in EntryCounts /\ pool \in EntryCounts /\ todo \in EntryCounts
  BY EntryTypes DEF Counted
<1>2. /\ pc \in [Holder -> {"idle", "visit", "due", "run"}] /\ ev \in [Event -> TimedEvent]
      /\ cur \in [Holder -> Event \cup {None}]
  BY <1>1 DEF TypeOK
<1>3. /\ pc[h] = "visit" /\ todo[e][h] > 0 /\ todo' = OneLess(todo, e, h)
      /\ UNCHANGED <<objVars, holder, events, pool, hand, fault, ops, histVars>>
  BY DEF Visit
<1>4. /\ ev[e] \in TimedEvent /\ ev[e].ref \in Nat /\ ev[e].ref = Count(e)
      /\ (ev[e].life = "live" <=> ev[e].ref > 0)
      /\ list[e][h] \in Nat /\ todo[e][h] \in Nat /\ list[e][h] <= ev[e].ref
  BY Records
<1>5. todo[e][h] <= list[e][h] /\ list[e][h] > 0 /\ ev[e].ref > 0
  <2>1. todo[e][h] + Current(h, e) <= list[e][h] /\ Current(h, e) = 0
    BY <1>3 DEF Counted, Fits, Current
  <2> QED BY <1>3, <1>4, <2>1
<1>6. /\ todo' \in EntryCounts /\ todo'[e][h] = todo[e][h] - 1
      /\ \A g \in Holder \ {h} : todo'[e][g] = todo[e][g]
      /\ \A d \in Event \ {e} : todo'[d] = todo[d]
  <2>1. Less(todo, todo', e, h)
    BY <1>1, <1>3, <1>4, OneLessType
  <2> QED BY <2>1 DEF Less
<1>7. /\ ev' \in [Event -> TimedEvent] /\ list' \in EntryCounts
      /\ pc' \in [Holder -> {"idle", "visit", "due", "run"}] /\ cur' \in [Holder -> Event \cup {None}]
      => TypeOK'
  BY <1>1, <1>3, <1>6 DEF TypeOK, objVars, histVars, EntryCounts
<1>8. CASE /\ ~Stays(h, e) /\ ev' = [ev EXCEPT ![e] = DecRef(ev[e])]
           /\ list' = OneLess(list, e, h) /\ UNCHANGED <<pc, cur>>
  <2>1. /\ list' \in EntryCounts /\ Total(list'[e]) = Total(list[e]) - 1
        /\ list'[e][h] = list[e][h] - 1
        /\ \A g \in Holder \ {h} : list'[e][g] = list[e][g]
        /\ \A d \in Event \ {e} : list'[d] = list[d]
    <3>1. Less(list, list', e, h)
      BY <1>1, <1>4, <1>5, <1>8, OneLessType
    <3> QED BY <3>1 DEF Less
  <2>2. /\ DecRef(ev[e]) \in TimedEvent /\ DecRef(ev[e]).ref = ev[e].ref - 1
        /\ (DecRef(ev[e]).life = "live" <=> DecRef(ev[e]).ref > 0)
    <3>1. 1 \in Nat /\ 1 <= ev[e].ref
      BY <1>4, <1>5
    <3> QED BY <1>4, <3>1, ReleaseType DEF DecRef
  <2>3. /\ ev'[e] = DecRef(ev[e]) /\ ev' \in [Event -> TimedEvent]
        /\ \A d \in Event \ {e} : ev'[d] = ev[d]
    BY <1>2, <1>8, <2>2
  <2>4. \A d \in Event : Deleting(d)' = Deleting(d) /\ Current(h, d)' = 0
    BY <1>3, <1>8 DEF Deleting, Current
  <2>5. Count(e)' = Count(e) - 1
    <3>1. Total(list[e]) \in Nat /\ Total(pool[e]) \in Nat /\ Cardinality(Deleting(e)) \in Nat
      BY <1>1, TotalType, DeletingFinite DEF EntryCounts
    <3>2. Total(list'[e]) + Total(pool[e]) = Total(list[e]) + Total(pool[e]) - 1
      BY <2>1, <3>1
    <3> QED BY <1>3, <2>4, <3>1, <3>2 DEF Count, Entries
  <2>6. TypeOK'
    BY <1>2, <1>7, <1>8, <2>1, <2>3
  <2>7. /\ ev'[e].ref = Count(e)' /\ (ev'[e].life = "live" <=> ev'[e].ref > 0)
        /\ todo'[e][h] + Current(h, e)' <= list'[e][h]
    BY <1>4, <1>5, <1>6, <2>1, <2>2, <2>3, <2>4, <2>5
  <2>8. pc'[h] # "idle" /\ ~Busy(h)'
    BY <1>3, <1>8 DEF Busy
  <2> QED BY <1>3, <1>6, <1>8, <2>1, <2>3, <2>4, <2>6, <2>7, <2>8, CountedEntry
<1>9. ASSUME UNCHANGED list, ev' \in [Event -> TimedEvent],
             ev'[e].ref = ev[e].ref /\ ev'[e].life = ev[e].life,
             \A d \in Event \ {e} : ev'[d] = ev[d],
             \/ UNCHANGED <<pc, cur>>
             \/ pc' = [pc EXCEPT ![h] = "due"] /\ cur' = [cur EXCEPT ![h] = e]
      PROVE  Counted'
  <2>1. /\ pc' \in [Holder -> {"idle", "visit", "due", "run"}] /\ cur' \in [Holder -> Event \cup {None}]
        /\ \A g \in Holder \ {h} : pc'[g] = pc[g] /\ cur'[g] = cur[g]
        /\ pc'[h] = "visit" \/ (pc'[h] = "due" /\ cur'[h] = e)
    BY <1>2, <1>3, <1>9
  <2>2. TypeOK'
    BY <1>1, <1>7, <1>9, <2>1
  <2>3. \A d \in Event : Deleting(d)' = Deleting(d)
    BY <1>3, <2>1 DEF Deleting
  <2>4. \A d \in Event \ {e} : Current(h, d)' = 0
    BY <2>1 DEF Current
  <2>5. todo'[e][h] + Current(h, e)' <= list'[e][h]
    <3>1. Current(h, e)' \in {0, 1}
      BY DEF Current
    <3> QED BY <1>4, <1>5, <1>6, <1>9, <3>1
  <2>6. Count(e)' = Count(e)
    BY <1>3, <1>9, <2>3, CountSame
  <2>7. pc'[h] # "idle" /\ (Busy(h)' => cur'[h] \in Event)
    BY <2>1 DEF Busy
  <2> QED BY <1>3, <1>4, <1>6, <1>9, <2>1, <2>2, <2>3, <2>4, <2>5, <2>6, <2>7, CountedEntry
<1>10. CASE /\ pc' = [pc EXCEPT ![h] = "due"] /\ cur' = [cur EXCEPT ![h] = e]
            /\ UNCHANGED <<ev, list>>
  BY <1>2, <1>9, <1>10
<1>11. CASE /\ ev[e].left > 1 /\ ev' = [ev EXCEPT ![e] = Waits(ev[e])]
            /\ UNCHANGED <<list, pc, cur>>
  <2>1. /\ Waits(ev[e]) \in TimedEvent /\ Waits(ev[e]).ref = ev[e].ref
        /\ Waits(ev[e]).life = ev[e].life
    <3>1. ev[e].left - 1 \in 0..MaxTime
      BY <1>4, <1>11, EventsAssumption DEF TimedEvent
    <3> QED BY <1>4, <3>1 DEF Waits, TimedEvent
  <2>2. /\ ev'[e] = Waits(ev[e]) /\ ev' \in [Event -> TimedEvent]
        /\ \A d \in Event \ {e} : ev'[d] = ev[d]
    BY <1>2, <1>11, <2>1
  <2> QED BY <1>9, <1>11, <2>1, <2>2
<1> QED BY <1>8, <1>10, <1>11 DEF Visit

LEMMA CountedExecute ==
  ASSUME Counted, NEW h \in Holder, Execute(h)
  PROVE  Counted'
<1>0. PICK e \in Event : e = cur[h]
  BY DEF Execute, Counted, Running, Busy
<1>1. TypeOK /\ list \in EntryCounts /\ pool \in EntryCounts /\ todo \in EntryCounts
  BY EntryTypes DEF Counted
<1>2. /\ pc \in [Holder -> {"idle", "visit", "due", "run"}] /\ ev \in [Event -> TimedEvent]
      /\ cur \in [Holder -> Event \cup {None}] /\ runs \in [Event -> Nat]
  BY <1>1 DEF TypeOK
<1>3. /\ pc[h] = "due" /\ pc' = [pc EXCEPT ![h] = "run"] /\ e = cur[h]
      /\ runs' = [runs EXCEPT ![e] = IF ev[e].once THEN @ + 1 ELSE @]
      /\ UNCHANGED <<objVars, holder, events, pool, todo, cur, hand, fault, ops,
                     disturbed, overlap, keeper, foreign>>
      /\ IF e \in DeletesObject
         THEN list' = OneLess(list, e, h) /\ ev' = [ev EXCEPT ![e].deleted = TRUE]
         ELSE UNCHANGED <<list, ev>>
  BY <1>0 DEF Execute
<1>4. e \in Event
  OBVIOUS
<1>5. /\ ev[e] \in TimedEvent /\ ev[e].ref \in Nat /\ ev[e].ref = Count(e)
      /\ (ev[e].life = "live" <=> ev[e].ref > 0)
      /\ list[e][h] \in Nat /\ todo[e][h] \in Nat /\ list[e][h] <= ev[e].ref
  BY <1>4, Records
<1>6. todo[e][h] + 1 <= list[e][h] /\ list[e][h] > 0
  <2>1. todo[e][h] + Current(h, e) <= list[e][h] /\ Current(h, e) = 1
    BY <1>3, <1>4 DEF Counted, Fits, Current
  <2> QED BY <1>5, <2>1
<1>7. /\ pc' \in [Holder -> {"idle", "visit", "due", "run"}] /\ pc'[h] = "run" /\ cur'[h] = e
      /\ \A g \in Holder \ {h} : pc'[g] = pc[g] /\ cur'[g] = cur[g]
  BY <1>2, <1>3
<1>8. runs' \in [Event -> Nat]
  <2> DEFINE n == IF ev[e].once THEN runs[e] + 1 ELSE runs[e]
  <2>1. n \in Nat
    BY <1>2, <1>4
  <2>2. runs' = [runs EXCEPT ![e] = n]
    BY <1>2, <1>3, <1>4
  <2> HIDE DEF n
  <2> QED BY <1>2, <2>1, <2>2
<1>9. ev' \in [Event -> TimedEvent] /\ list' \in EntryCounts => TypeOK'
  BY <1>1, <1>3, <1>7, <1>8 DEF TypeOK, objVars, EntryCounts
<1>10. \A d \in Event \ {e} : Current(h, d)' = 0 /\ Deleting(d)' = Deleting(d)
  BY <1>3, <1>7 DEF Current, Deleting
<1>11. pc'[h] # "idle" /\ (Busy(h)' => cur'[h] \in Event) /\ UNCHANGED <<events, pool, todo>>
  BY <1>3, <1>4, <1>7
<1>12. CASE e \in DeletesObject
  <2>1. /\ list' \in EntryCounts /\ Total(list'[e]) = Total(list[e]) - 1
        /\ list'[e][h] = list[e][h] - 1
        /\ \A g \in Holder \ {h} : list'[e][g] = list[e][g]
        /\ \A d \in Event \ {e} : list'[d] = list[d]
    <3>1. Less(list, list', e, h)
      BY <1>1, <1>3, <1>4, <1>5, <1>6, <1>12, OneLessType
    <3> QED BY <3>1 DEF Less
  <2>2. /\ ev' \in [Event -> TimedEvent] /\ ev'[e].ref = ev[e].ref /\ ev'[e].life = ev[e].life
        /\ \A d \in Event \ {e} : ev'[d] = ev[d]
    <3> DEFINE r == [ev[e] EXCEPT !.deleted = TRUE]
    <3>1. r \in TimedEvent /\ r.ref = ev[e].ref /\ r.life = ev[e].life
      BY <1>5 DEF TimedEvent
    <3>2. ev' = [ev EXCEPT ![e] = r]
      BY <1>2, <1>3, <1>4, <1>12
    <3> HIDE DEF r
    <3> QED BY <1>2, <1>4, <3>1, <3>2
  <2>3. Cardinality(Deleting(e)') = Cardinality(Deleting(e)) + 1
    <3>1. Deleting(e)' = Deleting(e) \cup {h} /\ h \notin Deleting(e)
      BY <1>3, <1>7, <1>12 DEF Deleting
    <3>2. IsFiniteSet(Deleting(e))
      BY <1>4, DeletingFinite
    <3> QED BY <3>1, <3>2, FS_AddElement
  <2>4. Count(e)' = Count(e)
    <3>1. Total(list[e]) \in Nat /\ Total(pool[e]) \in Nat /\ Cardinality(Deleting(e)) \in Nat
      BY <1>1, <1>4, TotalType, DeletingFinite DEF EntryCounts
    <3>2. Entries(e)' = Entries(e) - 1 /\ Entries(e) \in Nat
      BY <1>11, <2>1, <3>1 DEF Entries
    <3> QED BY <1>11, <2>3, <3>1, <3>2 DEF Count
  <2>5. Current(h, e)' = 0
    BY <1>7, <1>12 DEF Current
  <2>6. todo'[e][h] + Current(h, e)' <= list'[e][h]
    BY <1>5, <1>6, <1>11, <2>1, <2>5
  <2>7. TypeOK'
    BY <1>9, <2>1, <2>2
  <2> QED BY <1>4, <1>5, <1>7, <1>10, <1>11, <2>1, <2>2, <2>4, <2>6, <2>7, CountedEntry
<1>13. CASE e \notin DeletesObject
  <2>1. UNCHANGED <<list, ev>>
    BY <1>3, <1>13
  <2>2. TypeOK'
    BY <1>1, <1>2, <1>9, <2>1
  <2>3. Deleting(e)' = Deleting(e)
    BY <1>13 DEF Deleting
  <2>4. Count(e)' = Count(e)
    BY <1>4, <1>11, <2>1, <2>3, CountSame
  <2>5. todo'[e][h] + Current(h, e)' <= list'[e][h]
    <3>1. Current(h, e)' \in {0, 1}
      BY DEF Current
    <3> QED BY <1>5, <1>6, <1>11, <2>1, <3>1
  <2> QED BY <1>4, <1>5, <1>7, <1>10, <1>11, <2>1, <2>2, <2>4, <2>5, CountedEntry
<1> QED BY <1>12, <1>13

LEMMA ExpiredType ==
  ASSUME NEW r \in TimedEvent
  PROVE  LET q == Expired(r)
         IN  /\ q \in TimedEvent /\ q.ref = r.ref /\ q.life = r.life /\ q.inst = r.inst
             /\ q.deleted /\ q.once = r.once
<1> DEFINE a == [r EXCEPT !.repeats = 0]
           b == [a EXCEPT !.deleted = TRUE]
<1>1. /\ a \in TimedEvent /\ a.ref = r.ref /\ a.life = r.life /\ a.inst = r.inst
      /\ a.once = r.once
  BY DEF TimedEvent
<1>2. Expired(r) = b
  BY DEF Expired, TimedEvent
<1> HIDE DEF a
<1>3. /\ b \in TimedEvent /\ b.ref = a.ref /\ b.life = a.life /\ b.inst = a.inst
      /\ b.deleted = TRUE /\ b.once = a.once
  BY <1>1 DEF TimedEvent
<1> HIDE DEF b
<1> QED BY <1>1, <1>2, <1>3

LEMMA CountedCallbackReturns ==
  ASSUME Counted, NEW h \in Holder, CallbackReturns(h)
  PROVE  Counted'
<1>0. PICK e \in Event : e = cur[h]
  BY DEF CallbackReturns, Counted, Running, Busy
<1> DEFINE r == ev[e]
<1>1. TypeOK /\ list \in EntryCounts /\ pool \in EntryCounts /\ todo \in EntryCounts
  BY EntryTypes DEF Counted
<1>2. /\ pc \in [Holder -> {"idle", "visit", "due", "run"}] /\ ev \in [Event -> TimedEvent]
      /\ cur \in [Holder -> Event \cup {None}]
  BY <1>1 DEF TypeOK
<1>3. /\ pc[h] = "run" /\ pc' = [pc EXCEPT ![h] = "visit"] /\ cur' = [cur EXCEPT ![h] = None]
      /\ e = cur[h] /\ r = ev[e]
      /\ UNCHANGED <<objVars, holder, events, pool, todo, hand, fault, ops, histVars>>
      /\ \/ e \in DeletesObject /\ ev' = [ev EXCEPT ![e] = DecRef(r)] /\ UNCHANGED list
         \/ /\ e \notin DeletesObject
            /\ ev' = [ev EXCEPT ![e] = DecRef(IF r.repeats = 1 THEN Expired(r) ELSE r)]
            /\ list' = OneLess(list, e, h)
         \/ /\ e \notin DeletesObject
            /\ ev' = [ev EXCEPT ![e].left = r.ms]
            /\ UNCHANGED list
  BY <1>0 DEF CallbackReturns
<1>4. e \in Event
  OBVIOUS
<1> HIDE DEF r
<1>5. /\ r \in TimedEvent /\ r.ref \in Nat /\ r.ref = Count(e)
      /\ (r.life = "live" <=> r.ref > 0) /\ list[e][h] \in Nat /\ todo[e][h] \in Nat
      /\ list[e][h] <= r.ref /\ (h \in Deleting(e) => r.ref > 0)
  BY <1>3, <1>4, Records
<1>6. /\ todo[e][h] <= list[e][h]
      /\ e \notin DeletesObject => todo[e][h] + 1 <= list[e][h] /\ list[e][h] > 0
  <2>1. todo[e][h] + Current(h, e) <= list[e][h]
    BY <1>4 DEF Counted, Fits
  <2>2. Current(h, e) \in {0, 1} /\ (e \notin DeletesObject => Current(h, e) = 1)
    BY <1>3 DEF Current
  <2> QED BY <1>5, <2>1, <2>2
<1>7. /\ pc' \in [Holder -> {"idle", "visit", "due", "run"}] /\ pc'[h] = "visit"
      /\ cur' \in [Holder -> Event \cup {None}]
      /\ \A g \in Holder \ {h} : pc'[g] = pc[g] /\ cur'[g] = cur[g]
  BY <1>2, <1>3
<1>8. ev' \in [Event -> TimedEvent] /\ list' \in EntryCounts => TypeOK'
  BY <1>1, <1>3, <1>7 DEF TypeOK, objVars, histVars, EntryCounts
<1>9. \A d \in Event : Current(h, d)' = 0
  BY <1>7 DEF Current
<1>10. \A d \in Event \ {e} : Deleting(d)' = Deleting(d)
  BY <1>3, <1>7 DEF Deleting
<1>11. pc'[h] # "idle" /\ (Busy(h)' => cur'[h] \in Event) /\ UNCHANGED <<events, pool, todo>>
  BY <1>3, <1>7 DEF Busy
<1>12. Total(list[e]) \in Nat /\ Total(pool[e]) \in Nat /\ Cardinality(Deleting(e)) \in Nat
  BY <1>1, <1>4, TotalType, DeletingFinite DEF EntryCounts
<1>13. ASSUME NEW q \in TimedEvent, ev' = [ev EXCEPT ![e] = q]
       PROVE  /\ ev' \in [Event -> TimedEvent] /\ ev'[e] = q
              /\ \A d \in Event \ {e} : ev'[d] = ev[d]
  BY <1>2, <1>4, <1>13
<1>14. CASE e \in DeletesObject /\ ev' = [ev EXCEPT ![e] = DecRef(r)] /\ UNCHANGED list
  <2>1. Deleting(e)' = Deleting(e) \ {h} /\ h \in Deleting(e)
    BY <1>3, <1>7, <1>14 DEF Deleting
  <2>2. Cardinality(Deleting(e)') = Cardinality(Deleting(e)) - 1
    BY <1>4, <2>1, DeletingFinite, FS_RemoveElement
  <2>3. Count(e)' = Count(e) - 1
    <3>1. Entries(e)' = Entries(e) /\ Entries(e) \in Nat
      BY <1>11, <1>12, <1>14 DEF Entries
    <3> QED BY <1>11, <1>12, <2>2, <3>1 DEF Count
  <2>4. /\ DecRef(r) \in TimedEvent /\ DecRef(r).ref = r.ref - 1
        /\ (DecRef(r).life = "live" <=> DecRef(r).ref > 0)
    <3>1. 1 \in Nat /\ 1 <= r.ref
      BY <1>5, <2>1
    <3> QED BY <1>5, <3>1, ReleaseType DEF DecRef
  <2>5. /\ ev' \in [Event -> TimedEvent] /\ ev'[e] = DecRef(r)
        /\ \A d \in Event \ {e} : ev'[d] = ev[d]
    BY <1>13, <1>14, <2>4
  <2>6. TypeOK'
    BY <1>1, <1>8, <1>14, <2>5
  <2>7. todo'[e][h] + Current(h, e)' <= list'[e][h]
    BY <1>4, <1>5, <1>6, <1>9, <1>11, <1>14
  <2> QED BY <1>4, <1>5, <1>7, <1>9, <1>10, <1>11, <1>14, <2>3, <2>4, <2>5, <2>6, <2>7, CountedEntry
<1>15. CASE /\ e \notin DeletesObject
            /\ ev' = [ev EXCEPT ![e] = DecRef(IF r.repeats = 1 THEN Expired(r) ELSE r)]
            /\ list' = OneLess(list, e, h)
  <2> DEFINE x == IF r.repeats = 1 THEN Expired(r) ELSE r
             q == DecRef(x)
  <2>1. x \in TimedEvent /\ x.ref = r.ref /\ x.life = r.life
    <3>1. Expired(r) \in TimedEvent /\ Expired(r).ref = r.ref /\ Expired(r).life = r.life
      BY <1>5, ExpiredType
    <3> QED BY <1>5, <3>1
  <2>2. ev' = [ev EXCEPT ![e] = q]
    BY <1>15
  <2> HIDE DEF x
  <2>3. q \in TimedEvent /\ q.ref = r.ref - 1 /\ (q.life = "live" <=> q.ref > 0)
    <3>1. 1 \in Nat /\ 1 <= x.ref
      BY <1>5, <1>6, <1>15, <2>1
    <3> QED BY <1>5, <2>1, <3>1, ReleaseType DEF DecRef
  <2> HIDE DEF q
  <2>4. /\ ev' \in [Event -> TimedEvent] /\ ev'[e] = q
        /\ \A d \in Event \ {e} : ev'[d] = ev[d]
    BY <1>13, <2>2, <2>3
  <2>5. /\ list' \in EntryCounts /\ Total(list'[e]) = Total(list[e]) - 1
        /\ list'[e][h] = list[e][h] - 1
        /\ \A g \in Holder \ {h} : list'[e][g] = list[e][g]
        /\ \A d \in Event \ {e} : list'[d] = list[d]
    <3>1. Less(list, list', e, h)
      BY <1>1, <1>4, <1>5, <1>6, <1>15, OneLessType
    <3> QED BY <3>1 DEF Less
  <2>6. Deleting(e)' = Deleting(e)
    BY <1>15 DEF Deleting
  <2>7. Count(e)' = Count(e) - 1
    <3>1. Entries(e)' = Entries(e) - 1 /\ Entries(e) \in Nat
      BY <1>11, <1>12, <2>5 DEF Entries
    <3> QED BY <1>11, <1>12, <2>6, <3>1 DEF Count
  <2>8. TypeOK'
    BY <1>8, <2>4, <2>5
  <2>9. todo'[e][h] + Current(h, e)' <= list'[e][h]
    BY <1>4, <1>5, <1>6, <1>9, <1>11, <1>15, <2>5
  <2> QED BY <1>4, <1>5, <1>7, <1>9, <1>10, <1>11, <2>3, <2>4, <2>5, <2>7, <2>8, <2>9, CountedEntry
<1>16. CASE e \notin DeletesObject /\ ev' = [ev EXCEPT ![e].left = r.ms] /\ UNCHANGED list
  <2> DEFINE q == [r EXCEPT !.left = r.ms]
  <2>1. q \in TimedEvent /\ q.ref = r.ref /\ q.life = r.life
    BY <1>5 DEF TimedEvent
  <2>2. ev' = [ev EXCEPT ![e] = q]
    BY <1>2, <1>3, <1>4, <1>16
  <2> HIDE DEF q
  <2>3. /\ ev' \in [Event -> TimedEvent] /\ ev'[e] = q
        /\ \A d \in Event \ {e} : ev'[d] = ev[d]
    BY <1>13, <2>1, <2>2
  <2>4. Deleting(e)' = Deleting(e)
    BY <1>16 DEF Deleting
  <2>5. Count(e)' = Count(e)
    BY <1>4, <1>11, <1>16, <2>4, CountSame
  <2>6. TypeOK'
    BY <1>1, <1>8, <1>16, <2>3
  <2>7. todo'[e][h] + Current(h, e)' <= list'[e][h]
    BY <1>4, <1>5, <1>6, <1>9, <1>11, <1>16
  <2>8. ev'[e].ref = Count(e)' /\ (ev'[e].life = "live" <=> ev'[e].ref > 0)
    BY <1>5, <2>1, <2>3, <2>5
  <2>9. /\ UNCHANGED <<list, todo>>
        /\ \A g \in Holder \ {h} : todo'[e][g] = todo[e][g] /\ list'[e][g] = list[e][g]
    BY <1>11, <1>16
  <2> QED BY <1>4, <1>7, <1>9, <1>10, <1>11, <2>3, <2>6, <2>7, <2>8, <2>9, CountedEntry
<1> QED BY <1>3, <1>14, <1>15, <1>16

LEMMA CountedInit == Init => Counted
<1> SUFFICES ASSUME Init PROVE Counted
  OBVIOUS
<1>1. Unborn \in TimedEvent /\ Unborn.ref = 0 /\ Unborn.life = "unborn"
  BY EventsAssumption DEF Unborn, TimedEvent
<1>2. NoEntries \in EntryCounts /\ \A e \in Event : NoEntries[e] = [h \in Holder |-> 0]
  BY DEF NoEntries, EntryCounts
<1>3. TypeOK
  <2>1. ev \in [Event -> TimedEvent] /\ runs \in [Event -> Nat] /\ ops \in 0..MaxOps
    BY <1>1, EventsAssumption DEF Init
  <2>2. {list, pool, todo} \subseteq [Event -> [Holder -> Nat]]
    BY <1>2 DEF Init, EntryCounts
  <2>3. /\ pc \in [Holder -> {"idle", "visit", "due", "run"}]
        /\ cur \in [Holder -> Event \cup {None}] /\ hand \in [Holder -> Event \cup {None}]
    BY DEF Init
  <2>4. /\ obj \in {"out", "queued", "in", "gone"} /\ place \in Map \cup {None}
        /\ holder \in Holder \cup {None} /\ events \subseteq Event
        /\ fault \in {"none", "null", "freed"} /\ disturbed \subseteq Event
        /\ overlap \subseteq Event /\ keeper \in Holder \cup {None} /\ foreign \in BOOLEAN
    BY DEF Init
  <2> QED BY <2>1, <2>2, <2>3, <2>4 DEF TypeOK
<1>4. Running
  BY DEF Init, Running, Busy
<1>5. Fits
  BY <1>2 DEF Init, Fits, Current
<1>6. ASSUME NEW e \in Event
      PROVE  Count(e) = 0 /\ ev[e].ref = 0 /\ ev[e].life = "unborn"
  <2>1. Entries(e) = 0
    BY <1>2, TotalZero DEF Init, Entries
  <2>2. Deleting(e) = {}
    BY DEF Init, Deleting
  <2>3. Cardinality(Deleting(e)) = 0
    BY <2>2, FS_EmptySet
  <2>4. e \notin events
    BY DEF Init
  <2> QED BY <1>1, <2>1, <2>3, <2>4 DEF Init, Count
<1> QED BY <1>3, <1>4, <1>5, <1>6 DEF Counted, RefExact

LEMMA CountedStutter ==
  ASSUME Counted, UNCHANGED vars
  PROVE  Counted'
BY DEF Counted, TypeOK, Running, Busy, Fits, Current, RefExact, Count, Entries, Deleting, vars

LEMMA CountedNext == Counted /\ [Next]_vars => Counted'
<1> SUFFICES ASSUME Counted, [Next]_vars PROVE Counted'
  OBVIOUS
<1>1. CASE UNCHANGED vars
  BY <1>1, CountedStutter
<1>2. ASSUME NEW t \in Holder, ObjectCall(t)
      PROVE  Counted'
  <2>1. CASE \E e \in Event, repeats \in 0..1 : AddEvent(t, e, repeats)
    BY <2>1, CountedAddEvent
  <2>2. CASE \E e \in events : RemoveEvents(t, {e})
    <3>1. PICK e \in events : RemoveEvents(t, {e})
      BY <2>2
    <3>2. {e} \in SUBSET events
      OBVIOUS
    <3> QED BY <3>1, <3>2, CountedRemove
  <2>3. CASE RemoveEvents(t, events)
    BY <2>3, CountedRemove
  <2>4. CASE \E e \in Event, time \in 1..MaxTime :
               ModifyTimeLeft(t, e, time) \/ ModifyTimeAndTimeLeft(t, e, time)
    BY <2>4, CountedModify
  <2>5. CASE \E m \in Map : AddToWorld(t, m)
    BY <2>5, CountedAddToWorld
  <2>6. CASE RemoveFromWorld(t)
    BY <2>6, CountedRemoveFromWorld
  <2>7. CASE Destroy(t)
    BY <2>7, CountedDestroy
  <2> QED BY <1>2, <2>1, <2>2, <2>3, <2>4, <2>5, <2>6, <2>7 DEF ObjectCall
<1>3. ASSUME NEW t \in Holder, AddToHolder(t) \/ AddFaults(t)
      PROVE  Counted'
  BY <1>3, CountedAddToHolder, CountedFault
<1>4. ASSUME NEW t \in Holder, Update(t)
      PROVE  Counted'
  BY <1>4, CountedUpdateBegin, CountedVisit, CountedExecute, CountedCallbackReturns,
     CountedUpdateEnd DEF Update
<1>5. ASSUME NEW m \in Map, PushToWorld(m)
      PROVE  Counted'
  BY <1>5, CountedPushToWorld
<1> QED BY <1>1, <1>2, <1>3, <1>4, <1>5 DEF Next

-----------------------------------------------------------------------------
(* What a step does to an event that is there. *)

\* An event does not become undeleted or unborn again, and keeps its kind.
Onward(r, q) ==
  /\ q.once = r.once /\ (r.deleted => q.deleted)
  /\ q.life = "unborn" => r.life = "unborn"
  /\ q.ref > 0 => r.ref > 0
  /\ q.deleted \/ q.repeats = r.repeats

\* It stays where it is.
OnwardHere(r, q) == Onward(r, q) /\ q.inst = r.inst

LEMMA AlikeOnward == \A r, q : Alike(r, q) => OnwardHere(r, q)
BY DEF Alike, OnwardHere, Onward

LEMMA ReleaseOnward ==
  ASSUME NEW r \in TimedEvent, NEW n \in Nat, n <= r.ref, r.life = "live" <=> r.ref > 0
  PROVE  OnwardHere(r, Release(r, n)) /\ Release(r, n).deleted = r.deleted
<1> DEFINE q == Release(r, n)
<1>1. /\ q \in TimedEvent /\ q.ref = r.ref - n /\ (q.life = "live" <=> q.ref > 0)
      /\ q.deleted = r.deleted /\ q.inst = r.inst /\ q.repeats = r.repeats
      /\ q.once = r.once /\ (q.life = "unborn" => r.life = "unborn")
  BY ReleaseType
<1>2. r.ref \in Nat
  BY DEF TimedEvent
<1> HIDE DEF q
<1>3. OnwardHere(r, q) /\ q.deleted = r.deleted
  BY <1>1, <1>2 DEF OnwardHere, Onward
<1> QED BY <1>3 DEF q

LEMMA RemovedOnward ==
  ASSUME NEW r \in TimedEvent, r.ref > 0, r.life = "live" <=> r.ref > 0
  PROVE  OnwardHere(r, Removed(r)) /\ Removed(r).deleted
<1> DEFINE q == Removed(r)
<1>1. /\ q.deleted /\ q.inst = r.inst /\ q.once = r.once /\ q.life # "unborn"
  BY RemovedType
<1> HIDE DEF q
<1>2. OnwardHere(r, q) /\ q.deleted
  BY <1>1 DEF OnwardHere, Onward
<1> QED BY <1>2 DEF q

LEMMA IncRefOnward ==
  ASSUME NEW r \in TimedEvent, r.ref > 0, r.life = "live"
  PROVE  OnwardHere(r, IncRef(r)) /\ IncRef(r).deleted = r.deleted
<1> DEFINE q == IncRef(r)
<1>1. /\ q.ref > 0 /\ q.life = "live" /\ q.deleted = r.deleted /\ q.inst = r.inst
      /\ q.repeats = r.repeats /\ q.once = r.once
  BY IncRefType
<1> HIDE DEF q
<1>2. OnwardHere(r, q) /\ q.deleted = r.deleted
  BY <1>1 DEF OnwardHere, Onward
<1> QED BY <1>2 DEF q

LEMMA RemoveOnward ==
  ASSUME Counted, NEW S \in SUBSET events,
         ev' = [e \in Event |-> IF e \in S THEN Removed(ev[e]) ELSE ev[e]]
  PROVE  /\ \A e \in Event : OnwardHere(ev[e], ev'[e])
         /\ \A e \in S : ev'[e].deleted
<1>1. ASSUME NEW e \in Event
      PROVE  OnwardHere(ev[e], ev'[e]) /\ (e \in S => ev'[e].deleted)
  <2>1. CASE e \in S
    <3>1. ev[e] \in TimedEvent /\ ev[e].ref > 0 /\ (ev[e].life = "live" <=> ev[e].ref > 0)
      BY <2>1, Records
    <3> QED BY <2>1, <3>1, RemovedOnward
  <2>2. CASE e \notin S
    <3>1. ev'[e] = ev[e]
      BY <2>2
    <3> QED BY <2>2, <3>1 DEF OnwardHere, Onward
  <2> QED BY <2>1, <2>2
<1>2. S \subseteq Event
  BY DEF Counted, TypeOK
<1> QED BY <1>1, <1>2

LEMMA AddToHolderOnward ==
  ASSUME Counted, NEW t \in Holder, AddToHolder(t)
  PROVE  \A e \in Event : OnwardHere(ev[e], ev'[e])
<1>1. PICK e \in Event : hand[t] = e /\ Live(e) /\ ev' = [ev EXCEPT ![e] = IncRef(ev[e])]
  BY DEF Counted, TypeOK, AddToHolder
<1>2. ev \in [Event -> TimedEvent] /\ ev[e] \in TimedEvent /\ ev[e].ref > 0 /\ ev[e].life = "live"
  BY <1>1, Records DEF Live, Counted, TypeOK
<1>3. OnwardHere(ev[e], IncRef(ev[e]))
  BY <1>2, IncRefOnward
<1>4. ev'[e] = IncRef(ev[e]) /\ \A d \in Event \ {e} : ev'[d] = ev[d]
  BY <1>1, <1>2
<1>5. \A d \in Event \ {e} : OnwardHere(ev[d], ev'[d])
  BY <1>4 DEF OnwardHere, Onward
<1> QED BY <1>3, <1>4, <1>5

LEMMA RelocateOnward ==
  ASSUME Counted, NEW t \in Holder, NEW nh \in Holder \cup {None}, Relocate(t, nh)
  PROVE  /\ \A e \in Event : Onward(ev[e], ev'[e]) /\ ev'[e].deleted = ev[e].deleted
         /\ \A e \in Event \ events : ev'[e] = ev[e]
         /\ nh # holder => \A e \in events : ev[e].deleted \/ ev'[e].inst = nh
<1>1. events \subseteq Event
  BY DEF Counted, TypeOK
<1>2. \A e \in Event : /\ ev[e] \in TimedEvent /\ (ev[e].life = "live" <=> ev[e].ref > 0)
                       /\ e \in events => ev[e].ref > 0
  BY Records
<1>3. CASE nh = holder
  BY <1>1, <1>3 DEF Relocate, Onward
<1>4. CASE nh # holder /\ nh = None
  <2>1. ASSUME NEW e \in Event
        PROVE  /\ Onward(ev[e], ev'[e]) /\ ev'[e].deleted = ev[e].deleted
               /\ IF e \in events THEN ev'[e].inst = None ELSE ev'[e] = ev[e]
    <3> DEFINE q == [ev[e] EXCEPT !.inst = None]
    <3>1. /\ q.once = ev[e].once /\ q.deleted = ev[e].deleted /\ q.life = ev[e].life
          /\ q.ref = ev[e].ref /\ q.repeats = ev[e].repeats /\ q.inst = None
      BY <1>2 DEF TimedEvent
    <3>2. ev'[e] = IF e \in events THEN q ELSE ev[e]
      BY <1>4 DEF Relocate, ClearInstance
    <3> HIDE DEF q
    <3> QED BY <3>1, <3>2 DEF Onward
  <2> QED BY <1>1, <1>4, <2>1
<1>5. CASE nh # holder /\ nh # None
  <2>1. ASSUME NEW e \in Event
        PROVE  /\ Onward(ev[e], ev'[e]) /\ ev'[e].deleted = ev[e].deleted
               /\ e \notin events => ev'[e] = ev[e]
               /\ e \in events => ev[e].deleted \/ ev'[e].inst = nh
    <3>0. ev'[e] = IF e \in events /\ ~ev[e].deleted
                   THEN [IncRef(ev[e]) EXCEPT !.inst = nh] ELSE ev[e]
      BY <1>5 DEF Relocate, AddObject
    <3>1. CASE e \in events /\ ~ev[e].deleted
      <4> DEFINE r == IncRef(ev[e])
                 q == [r EXCEPT !.inst = nh]
      <4>1. /\ r \in TimedEvent /\ r.ref > 0 /\ r.life = "live"
            /\ r.deleted = ev[e].deleted /\ r.repeats = ev[e].repeats /\ r.once = ev[e].once
        BY <1>2, <3>1, IncRefType
      <4>2. ev'[e] = q
        BY <3>0, <3>1
      <4> HIDE DEF r
      <4>3. /\ q.ref = r.ref /\ q.life = r.life /\ q.deleted = r.deleted
            /\ q.repeats = r.repeats /\ q.once = r.once /\ q.inst = nh
        BY <4>1 DEF TimedEvent
      <4> HIDE DEF q
      <4>4. Onward(ev[e], q)
        BY <1>2, <3>1, <4>1, <4>3 DEF Onward
      <4> QED BY <3>1, <4>1, <4>2, <4>3, <4>4
    <3>2. CASE ~(e \in events /\ ~ev[e].deleted)
      <4>1. ev'[e] = ev[e]
        BY <3>0, <3>2
      <4> QED BY <3>2, <4>1 DEF Onward
    <3> QED BY <3>1, <3>2
  <2> QED BY <1>1, <2>1
<1> QED BY <1>3, <1>4, <1>5

LEMMA UpdateBeginOnward ==
  ASSUME Counted, NEW h \in Holder, UpdateBegin(h)
  PROVE  \A e \in Event : OnwardHere(ev[e], ev'[e])
<1> TAKE e \in Event
<1>1. ev'[e] = IF Kept(h, e) THEN ev[e] ELSE Release(ev[e], pool[e][h])
  BY DEF UpdateBegin
<1>2. /\ ev[e] \in TimedEvent /\ (ev[e].life = "live" <=> ev[e].ref > 0)
      /\ pool[e][h] \in Nat /\ pool[e][h] <= ev[e].ref
  BY Records
<1>3. OnwardHere(ev[e], Release(ev[e], pool[e][h]))
  BY <1>2, ReleaseOnward
<1> QED BY <1>1, <1>3 DEF OnwardHere, Onward

\* An event with an entry that Update has still to come to is there.
LEMMA EntryLive ==
  ASSUME Counted, NEW h \in Holder, NEW e \in Event, todo[e][h] + Current(h, e) > 0
  PROVE  ev[e].ref > 0 /\ ev[e].ref \in Nat /\ ev[e].life = "live" /\ list[e][h] > 0
<1>1. todo[e][h] + Current(h, e) <= list[e][h]
  BY DEF Counted, Fits
<1>2. /\ ev[e].ref \in Nat /\ list[e][h] \in Nat /\ todo[e][h] \in Nat
      /\ list[e][h] <= ev[e].ref /\ (ev[e].life = "live" <=> ev[e].ref > 0)
  BY Records
<1>3. Current(h, e) \in {0, 1}
  BY DEF Current
<1> QED BY <1>1, <1>2, <1>3

LEMMA VisitLive ==
  ASSUME Counted, NEW h \in Holder, NEW e \in Event, Visit(h, e)
  PROVE  ev[e].ref > 0 /\ ev[e].ref \in Nat /\ ev[e].life = "live" /\ list[e][h] > 0
<1>1. pc[h] = "visit" /\ todo[e][h] > 0 /\ todo[e][h] \in Nat
  BY Records DEF Visit
<1>2. Current(h, e) = 0
  BY <1>1 DEF Current
<1> QED BY <1>1, <1>2, EntryLive

LEMMA VisitOnward ==
  ASSUME Counted, NEW h \in Holder, NEW e \in Event, Visit(h, e)
  PROVE  \A d \in Event : OnwardHere(ev[d], ev'[d])
<1>1. ev[e] \in TimedEvent /\ ev[e].ref > 0 /\ ev[e].ref \in Nat /\ ev[e].life = "live"
  BY VisitLive, Records
<1>2. ev \in [Event -> TimedEvent]
  BY DEF Counted, TypeOK
<1>3. ASSUME NEW q, OnwardHere(ev[e], q), ev' = [ev EXCEPT ![e] = q]
      PROVE  \A d \in Event : OnwardHere(ev[d], ev'[d])
  <2>1. ev'[e] = q /\ \A d \in Event \ {e} : ev'[d] = ev[d]
    BY <1>2, <1>3
  <2>2. \A d \in Event \ {e} : OnwardHere(ev[d], ev'[d])
    BY <2>1 DEF OnwardHere, Onward
  <2> QED BY <1>3, <2>1, <2>2
<1>4. CASE ev' = [ev EXCEPT ![e] = DecRef(ev[e])]
  <2>1. 1 \in Nat /\ 1 <= ev[e].ref
    BY <1>1
  <2>2. OnwardHere(ev[e], DecRef(ev[e]))
    BY <1>1, <2>1, ReleaseOnward DEF DecRef
  <2> QED BY <1>3, <1>4, <2>2
<1>5. CASE UNCHANGED ev
  BY <1>5 DEF OnwardHere, Onward
<1>6. CASE ev' = [ev EXCEPT ![e] = Waits(ev[e])]
  <2> DEFINE q == Waits(ev[e])
  <2>1. Alike(ev[e], q)
    BY <1>1 DEF Waits, Alike, TimedEvent
  <2>2. OnwardHere(ev[e], q)
    BY <2>1, AlikeOnward
  <2> QED BY <1>3, <1>6, <2>2
<1> QED BY <1>4, <1>5, <1>6 DEF Visit

\* What a thread runs, or is about to run, is there.
LEMMA BusyEvent ==
  ASSUME Counted, NEW h \in Holder, Busy(h)
  PROVE  cur[h] \in Event /\ ev[cur[h]].life = "live" /\ ev[cur[h]].ref > 0
<1>1. PICK e \in Event : cur[h] = e
  BY DEF Counted, Running
<1>2. CASE h \in Deleting(e)
  BY <1>1, <1>2, Records
<1>3. CASE h \notin Deleting(e)
  <2>1. Current(h, e) = 1
    BY <1>1, <1>3 DEF Current, Deleting, Busy
  <2>2. todo[e][h] \in Nat
    BY Records
  <2>3. todo[e][h] + Current(h, e) > 0
    BY <2>1, <2>2
  <2> QED BY <1>1, <2>3, EntryLive
<1> QED BY <1>2, <1>3

LEMMA ExecuteOnward ==
  ASSUME Counted, NEW h \in Holder, Execute(h)
  PROVE  /\ \A d \in Event : OnwardHere(ev[d], ev'[d])
         /\ cur[h] \in DeletesObject => ev'[cur[h]].deleted
<1>0. PICK e \in Event : cur[h] = e
  BY DEF Execute, Counted, Running, Busy
<1>1. ev \in [Event -> TimedEvent] /\ ev[e] \in TimedEvent
  BY DEF Counted, TypeOK
<1>2. CASE e \in DeletesObject
  <2> DEFINE q == [ev[e] EXCEPT !.deleted = TRUE]
  <2>1. ev' = [ev EXCEPT ![e] = q]
    BY <1>0, <1>1, <1>2 DEF Execute
  <2>2. /\ q.life = ev[e].life /\ q.ref = ev[e].ref /\ q.deleted = TRUE /\ q.inst = ev[e].inst
        /\ q.once = ev[e].once
    BY <1>1 DEF TimedEvent
  <2> HIDE DEF q
  <2>3. OnwardHere(ev[e], q) /\ q.deleted
    BY <2>2 DEF OnwardHere, Onward
  <2>4. ev'[e] = q /\ \A d \in Event \ {e} : ev'[d] = ev[d]
    BY <1>1, <2>1
  <2>5. \A d \in Event \ {e} : OnwardHere(ev[d], ev'[d])
    BY <2>4 DEF OnwardHere, Onward
  <2> QED BY <1>0, <2>3, <2>4, <2>5
<1>3. CASE e \notin DeletesObject
  <2>1. UNCHANGED ev
    BY <1>0, <1>3 DEF Execute
  <2> QED BY <1>0, <1>3, <2>1 DEF OnwardHere, Onward
<1> QED BY <1>2, <1>3

LEMMA CallbackReturnsOnward ==
  ASSUME Counted, NEW h \in Holder, CallbackReturns(h)
  PROVE  /\ \A d \in Event : OnwardHere(ev[d], ev'[d])
         /\ ev[cur[h]].repeats = 1 /\ cur[h] \notin DeletesObject => ev'[cur[h]].deleted
         /\ ev'[cur[h]].deleted \/ UNCHANGED list
<1>0. PICK e \in Event : cur[h] = e
  BY DEF CallbackReturns, Counted, Running, Busy
<1>1. /\ ev \in [Event -> TimedEvent] /\ ev[e] \in TimedEvent /\ ev[e].ref \in Nat
      /\ ev[e].ref > 0 /\ ev[e].life = "live"
  BY <1>0, BusyEvent, Records DEF CallbackReturns, Busy, Counted, TypeOK
<1>2. 1 \in Nat /\ 1 <= ev[e].ref
  BY <1>1
<1>3. ASSUME NEW q, OnwardHere(ev[e], q), ev' = [ev EXCEPT ![e] = q]
      PROVE  (\A d \in Event : OnwardHere(ev[d], ev'[d])) /\ ev'[e] = q
  <2>1. ev'[e] = q /\ \A d \in Event \ {e} : ev'[d] = ev[d]
    BY <1>1, <1>3
  <2>2. \A d \in Event \ {e} : OnwardHere(ev[d], ev'[d])
    BY <2>1 DEF OnwardHere, Onward
  <2> QED BY <1>3, <2>1, <2>2
<1>4. CASE /\ e \in DeletesObject /\ ev' = [ev EXCEPT ![e] = DecRef(ev[e])] /\ UNCHANGED list
  <2>1. OnwardHere(ev[e], DecRef(ev[e]))
    BY <1>1, <1>2, ReleaseOnward DEF DecRef
  <2> QED BY <1>0, <1>3, <1>4, <2>1
<1>5. CASE /\ ev[e].repeats = 1 \/ ev[e].deleted
           /\ ev' = [ev EXCEPT ![e] = DecRef(IF ev[e].repeats = 1 THEN Expired(ev[e]) ELSE ev[e])]
  <2> DEFINE x == IF ev[e].repeats = 1 THEN Expired(ev[e]) ELSE ev[e]
  <2>1. /\ x \in TimedEvent /\ x.ref = ev[e].ref /\ x.life = ev[e].life /\ x.inst = ev[e].inst
        /\ x.deleted /\ x.once = ev[e].once
    <3>1. /\ Expired(ev[e]) \in TimedEvent /\ Expired(ev[e]).ref = ev[e].ref
          /\ Expired(ev[e]).life = ev[e].life /\ Expired(ev[e]).inst = ev[e].inst
          /\ Expired(ev[e]).deleted /\ Expired(ev[e]).once = ev[e].once
      BY <1>1, ExpiredType
    <3>2. CASE ev[e].repeats = 1
      BY <3>1, <3>2
    <3>3. CASE ev[e].repeats # 1
      BY <1>1, <1>5, <3>3
    <3> QED BY <3>2, <3>3
  <2>2. ev' = [ev EXCEPT ![e] = DecRef(x)]
    BY <1>5
  <2> HIDE DEF x
  <2>3. x.life = "live" <=> x.ref > 0
    BY <1>1, <2>1
  <2>4. OnwardHere(x, DecRef(x)) /\ DecRef(x).deleted = x.deleted
    BY <1>2, <2>1, <2>3, ReleaseOnward DEF DecRef
  <2>5. OnwardHere(ev[e], DecRef(x)) /\ DecRef(x).deleted
    BY <1>1, <2>1, <2>4 DEF OnwardHere, Onward
  <2>6. (\A d \in Event : OnwardHere(ev[d], ev'[d])) /\ ev'[e] = DecRef(x)
    BY <1>3, <2>2, <2>5
  <2> QED BY <1>0, <2>5, <2>6
<1>6. CASE /\ ~(ev[e].repeats = 1 \/ ev[e].deleted)
           /\ ev' = [ev EXCEPT ![e].left = ev[e].ms] /\ UNCHANGED list
  <2> DEFINE q == [ev[e] EXCEPT !.left = ev[e].ms]
  <2>1. Alike(ev[e], q)
    BY <1>1 DEF Alike, TimedEvent
  <2>2. ev' = [ev EXCEPT ![e] = q]
    BY <1>1, <1>6
  <2> HIDE DEF q
  <2>3. OnwardHere(ev[e], q)
    BY <2>1, AlikeOnward
  <2> QED BY <1>0, <1>3, <1>6, <2>2, <2>3
<1> QED BY <1>0, <1>4, <1>5, <1>6 DEF CallbackReturns

-----------------------------------------------------------------------------
(* Homes, callbacks, one-shot events and the halves of AddEvent. *)

Safe == Counted /\ OneHome /\ Owned /\ Keeper /\ InCallback /\ Once /\ Given

LEMMA EventsAre ==
  ASSUME Counted
  PROVE  events \subseteq Event /\ holder \in Holder \cup {None} /\ None \notin Holder
BY EventsAssumption DEF Counted, TypeOK

\* Whatever removes and moves nothing.
LEMMA HomeQuiet ==
  ASSUME Safe, \A e \in Event : OnwardHere(ev[e], ev'[e]),
         UNCHANGED <<holder, events, keeper, overlap, fault>>,
         obj' = obj \/ (obj # "gone" /\ obj' # "gone"),
         \A t \in Holder : hand'[t] \in {hand[t], None}
  PROVE  OneHome' /\ Owned' /\ Keeper' /\ Given'
<1>1. \A e \in Event : Onward(ev[e], ev'[e]) /\ ev'[e].inst = ev[e].inst
  BY DEF OnwardHere
<1>2. events \subseteq Event
  BY EventsAre DEF Safe
<1>3. OneHome'
  BY <1>1, <1>2 DEF Safe, OneHome, Onward
<1>4. Owned'
  BY <1>1 DEF Safe, Owned, Onward
<1>5. Keeper'
  BY DEF Safe, Keeper
<1>6. Given'
  BY DEF Safe, Given
<1> QED BY <1>3, <1>4, <1>5, <1>6

\* Whatever neither starts nor ends a callback, and removes and moves nothing.
LEMMA SafeQuiet ==
  ASSUME Safe, Counted', \A e \in Event : OnwardHere(ev[e], ev'[e]),
         UNCHANGED <<holder, events, keeper, runs, disturbed, overlap, fault>>,
         obj' = obj \/ (obj # "gone" /\ obj' # "gone"),
         \A t \in Holder : hand'[t] \in {hand[t], None},
         \A h \in Holder : \/ pc'[h] = pc[h] /\ cur'[h] = cur[h]
                           \/ pc[h] \in {"idle", "visit"} /\ pc'[h] \in {"idle", "visit"}
  PROVE  Safe'
<1>1. \A e \in Event : Onward(ev[e], ev'[e]) /\ ev'[e].inst = ev[e].inst
  BY DEF OnwardHere
<1>5. OneHome' /\ Owned' /\ Keeper' /\ Given'
  BY HomeQuiet
<1>6. InCallback'
  <2> SUFFICES ASSUME NEW h \in Holder, Busy(h)', cur'[h] \notin disturbed
               PROVE  /\ ev'[cur'[h]].deleted \/ ev'[cur'[h]].inst = h
                      /\ keeper = h
                      /\ obj' = "gone" \/ (cur'[h] \in events /\ holder = h)
    BY DEF InCallback
  <2>1. pc'[h] = pc[h] /\ cur'[h] = cur[h] /\ Busy(h)
    BY DEF Busy
  <2>2. cur[h] \in Event
    BY <2>1, BusyEvent DEF Safe
  <2>3. /\ ev[cur[h]].deleted \/ ev[cur[h]].inst = h
        /\ keeper = h
        /\ obj = "gone" \/ (cur[h] \in events /\ holder = h)
    BY <2>1 DEF Safe, InCallback
  <2> QED BY <1>1, <2>1, <2>2, <2>3 DEF Onward
<1>7. Once'
  <2> SUFFICES ASSUME NEW e \in Event \ disturbed
               PROVE  /\ ev'[e].ref > 0 /\ ev'[e].once /\ ~ev'[e].deleted => ev'[e].repeats = 1
                      /\ runs[e] <= 1 /\ (runs[e] = 1 => ev'[e].once)
                      /\ ev'[e].life = "unborn" => runs[e] = 0
                      /\ \A h \in Holder : pc'[h] = "due" /\ cur'[h] = e => runs[e] = 0
                      /\ runs[e] = 1 => ev'[e].deleted \/ \E h \in Holder : pc'[h] = "run" /\ cur'[h] = e
                      /\ e \in DeletesObject =>
                           \A h \in Holder : pc'[h] = "run" /\ cur'[h] = e => ev'[e].deleted
    BY DEF Once
  <2>1. Onward(ev[e], ev'[e])
    BY <1>1
  <2>2. /\ ev[e].ref > 0 /\ ev[e].once /\ ~ev[e].deleted => ev[e].repeats = 1
        /\ runs[e] <= 1 /\ (runs[e] = 1 => ev[e].once)
        /\ ev[e].life = "unborn" => runs[e] = 0
        /\ \A h \in Holder : pc[h] = "due" /\ cur[h] = e => runs[e] = 0
        /\ runs[e] = 1 => ev[e].deleted \/ \E h \in Holder : pc[h] = "run" /\ cur[h] = e
        /\ e \in DeletesObject => \A h \in Holder : pc[h] = "run" /\ cur[h] = e => ev[e].deleted
    BY DEF Safe, Once
  <2>3. \A h \in Holder : \A x \in {"due", "run"} :
          pc'[h] = x /\ cur'[h] = e <=> pc[h] = x /\ cur[h] = e
    OBVIOUS
  <2>4. /\ ev'[e].ref > 0 /\ ev'[e].once /\ ~ev'[e].deleted => ev'[e].repeats = 1
        /\ runs[e] = 1 => ev'[e].once
        /\ ev'[e].life = "unborn" => runs[e] = 0
    BY <2>1, <2>2 DEF Onward
  <2>5. runs[e] = 1 => ev'[e].deleted \/ \E h \in Holder : pc'[h] = "run" /\ cur'[h] = e
    BY <2>1, <2>2, <2>3 DEF Onward
  <2>6. e \in DeletesObject =>
          \A h \in Holder : pc'[h] = "run" /\ cur'[h] = e => ev'[e].deleted
    BY <2>1, <2>2, <2>3 DEF Onward
  <2> QED BY <2>2, <2>3, <2>4, <2>5, <2>6
<1> QED BY <1>5, <1>6, <1>7 DEF Safe

LEMMA SafeModify ==
  ASSUME Safe, NEW t \in Holder, NEW e \in Event, NEW time \in 1..MaxTime,
         ModifyTimeLeft(t, e, time) \/ ModifyTimeAndTimeLeft(t, e, time)
  PROVE  Safe'
<1>1. Counted /\ Counted'
  BY CountedModify DEF Safe
<1>2. \A d \in Event : OnwardHere(ev[d], ev'[d])
  BY <1>1, ModifyAlike, AlikeOnward
<1>3. UNCHANGED <<objVars, holder, events, threadVars, hand, fault, histVars>>
  BY DEF ModifyTimeLeft, ModifyTimeAndTimeLeft
<1> QED BY <1>1, <1>2, <1>3, SafeQuiet DEF objVars, threadVars, histVars

LEMMA SafeAddToWorld ==
  ASSUME Safe, NEW t \in Holder, NEW m \in Map, AddToWorld(t, m)
  PROVE  Safe'
<1>1. Counted /\ Counted'
  BY CountedAddToWorld DEF Safe
<1>2. /\ obj = "out" /\ obj' = "queued"
      /\ UNCHANGED <<holder, events, ev, threadVars, hand, fault, histVars>>
  BY DEF AddToWorld
<1>3. \A d \in Event : OnwardHere(ev[d], ev'[d])
  BY <1>2 DEF OnwardHere, Onward
<1> QED BY <1>1, <1>2, <1>3, SafeQuiet DEF threadVars, histVars

LEMMA SafeAddToHolder ==
  ASSUME Safe, NEW t \in Holder, AddToHolder(t)
  PROVE  Safe'
<1>1. Counted /\ Counted'
  BY CountedAddToHolder DEF Safe
<1>2. \A d \in Event : OnwardHere(ev[d], ev'[d])
  BY <1>1, AddToHolderOnward
<1>3. /\ hand' = [hand EXCEPT ![t] = None]
      /\ UNCHANGED <<objVars, holder, events, pc, cur, fault, histVars>>
  BY DEF AddToHolder
<1>4. \A g \in Holder : hand'[g] \in {hand[g], None}
  BY <1>1, <1>3 DEF Counted, TypeOK
<1> QED BY <1>1, <1>2, <1>3, <1>4, SafeQuiet DEF objVars, histVars

LEMMA SafeUpdateBegin ==
  ASSUME Safe, NEW h \in Holder, UpdateBegin(h)
  PROVE  Safe'
<1>1. Counted /\ Counted'
  BY CountedUpdateBegin DEF Safe
<1>2. \A d \in Event : OnwardHere(ev[d], ev'[d])
  BY <1>1, UpdateBeginOnward
<1>3. /\ pc[h] = "idle" /\ pc' = [pc EXCEPT ![h] = "visit"]
      /\ UNCHANGED <<objVars, holder, events, cur, hand, fault, histVars>>
  BY DEF UpdateBegin
<1>4. \A g \in Holder : \/ pc'[g] = pc[g] /\ cur'[g] = cur[g]
                        \/ pc[g] \in {"idle", "visit"} /\ pc'[g] \in {"idle", "visit"}
  BY <1>1, <1>3 DEF Counted, TypeOK
<1> QED BY <1>1, <1>2, <1>3, <1>4, SafeQuiet DEF objVars, histVars

LEMMA SafeUpdateEnd ==
  ASSUME Safe, NEW h \in Holder, UpdateEnd(h)
  PROVE  Safe'
<1>1. Counted /\ Counted'
  BY CountedUpdateEnd DEF Safe
<1>2. /\ pc[h] = "visit" /\ pc' = [pc EXCEPT ![h] = "idle"]
      /\ UNCHANGED <<objVars, holder, events, ev, cur, hand, fault, histVars>>
  BY DEF UpdateEnd
<1>3. \A d \in Event : OnwardHere(ev[d], ev'[d])
  BY <1>2 DEF OnwardHere, Onward
<1>4. \A g \in Holder : \/ pc'[g] = pc[g] /\ cur'[g] = cur[g]
                        \/ pc[g] \in {"idle", "visit"} /\ pc'[g] \in {"idle", "visit"}
  BY <1>1, <1>2 DEF Counted, TypeOK
<1> QED BY <1>1, <1>2, <1>3, <1>4, SafeQuiet DEF objVars, histVars

LEMMA SafeStutter ==
  ASSUME Safe, UNCHANGED vars
  PROVE  Safe'
<1>1. Counted'
  BY CountedStutter DEF Safe
<1>2. \A d \in Event : OnwardHere(ev[d], ev'[d])
  BY DEF OnwardHere, Onward, vars
<1> QED BY <1>1, <1>2, SafeQuiet DEF vars

\* An event that Update keeps belongs to the object, whose holder runs Update.
LEMMA StaysHome ==
  ASSUME Safe, NEW h \in Holder, NEW e \in Event, ev[e].ref > 0, Stays(h, e)
  PROVE  e \in events /\ holder = h /\ keeper = h /\ ~ev[e].deleted /\ ev[e].inst = h
<1>1. ~ev[e].deleted /\ ev[e].inst = h
  BY DEF Stays, Kept
<1>2. e \in events
  BY <1>1 DEF Safe, Owned
<1>3. holder = h
  BY <1>1, <1>2, EventsAre DEF Safe, OneHome
<1> QED BY <1>1, <1>2, <1>3, EventsAre DEF Safe, Keeper

LEMMA SafeVisit ==
  ASSUME Safe, NEW h \in Holder, NEW e \in Event, Visit(h, e)
  PROVE  Safe'
<1>1. Counted /\ Counted'
  BY CountedVisit DEF Safe
<1>2. \A d \in Event : OnwardHere(ev[d], ev'[d])
  BY <1>1, VisitOnward
<1>3. pc[h] = "visit" /\ UNCHANGED <<objVars, holder, events, pool, hand, fault, ops, histVars>>
  BY DEF Visit
<1>4. CASE UNCHANGED <<pc, cur>>
  BY <1>1, <1>2, <1>3, <1>4, SafeQuiet DEF objVars, histVars
<1>5. CASE /\ Stays(h, e) /\ pc' = [pc EXCEPT ![h] = "due"] /\ cur' = [cur EXCEPT ![h] = e]
           /\ UNCHANGED ev
  <2>1. e \in events /\ holder = h /\ keeper = h /\ ~ev[e].deleted /\ ev[e].inst = h
    BY <1>1, <1>5, VisitLive, StaysHome
  <2>2. /\ pc'[h] = "due" /\ cur'[h] = e
        /\ \A g \in Holder \ {h} : pc'[g] = pc[g] /\ cur'[g] = cur[g]
    BY <1>1, <1>5 DEF Counted, TypeOK
  <2>3. UNCHANGED <<obj, holder, events, keeper, runs, disturbed, overlap, fault, hand, ev>>
    BY <1>3, <1>5 DEF objVars, histVars
  <2>4. OneHome' /\ Owned' /\ Keeper' /\ Given'
    BY <1>2, <2>3, HomeQuiet
  <2>5. InCallback'
    <3> SUFFICES ASSUME NEW g \in Holder, Busy(g)', cur'[g] \notin disturbed
                 PROVE  /\ ev[cur'[g]].deleted \/ ev[cur'[g]].inst = g
                        /\ keeper = g
                        /\ obj = "gone" \/ (cur'[g] \in events /\ holder = g)
      BY <2>3 DEF InCallback
    <3>1. CASE g = h
      BY <2>1, <2>2, <3>1
    <3>2. CASE g # h
      <4>1. Busy(g) /\ cur'[g] = cur[g]
        BY <2>2, <3>2 DEF Busy
      <4> QED BY <4>1 DEF Safe, InCallback
    <3> QED BY <3>1, <3>2
  <2>6. Once'
    <3> SUFFICES ASSUME NEW d \in Event \ disturbed
                 PROVE  /\ ev[d].ref > 0 /\ ev[d].once /\ ~ev[d].deleted => ev[d].repeats = 1
                        /\ runs[d] <= 1 /\ (runs[d] = 1 => ev[d].once)
                        /\ ev[d].life = "unborn" => runs[d] = 0
                        /\ \A g \in Holder : pc'[g] = "due" /\ cur'[g] = d => runs[d] = 0
                        /\ runs[d] = 1 => ev[d].deleted \/ \E g \in Holder : pc'[g] = "run" /\ cur'[g] = d
                        /\ d \in DeletesObject =>
                             \A g \in Holder : pc'[g] = "run" /\ cur'[g] = d => ev[d].deleted
      BY <2>3 DEF Once
    <3>1. /\ ev[d].ref > 0 /\ ev[d].once /\ ~ev[d].deleted => ev[d].repeats = 1
          /\ runs[d] <= 1 /\ (runs[d] = 1 => ev[d].once)
          /\ ev[d].life = "unborn" => runs[d] = 0
          /\ \A g \in Holder : pc[g] = "due" /\ cur[g] = d => runs[d] = 0
          /\ runs[d] = 1 => ev[d].deleted \/ \E g \in Holder : pc[g] = "run" /\ cur[g] = d
          /\ d \in DeletesObject => \A g \in Holder : pc[g] = "run" /\ cur[g] = d => ev[d].deleted
      BY DEF Safe, Once
    <3>2. \A g \in Holder : pc'[g] = "run" /\ cur'[g] = d <=> pc[g] = "run" /\ cur[g] = d
      BY <1>3, <2>2
    <3>3. \A g \in Holder : pc'[g] = "due" /\ cur'[g] = d => runs[d] = 0
      <4>1. CASE d = e
        <5>1. runs[d] # 1
          <6> SUFFICES ASSUME runs[d] = 1 PROVE FALSE
            OBVIOUS
          <6>1. PICK g \in Holder : pc[g] = "run" /\ cur[g] = e
            BY <2>1, <3>1, <4>1
          <6>2. keeper = g
            BY <4>1, <6>1 DEF Safe, InCallback, Busy
          <6> QED BY <1>3, <2>1, <6>1, <6>2
        <5>2. runs[d] \in Nat
          BY <1>1 DEF Counted, TypeOK
        <5> QED BY <3>1, <5>1, <5>2
      <4>2. CASE d # e
        <5>1. \A g \in Holder : pc'[g] = "due" /\ cur'[g] = d => pc[g] = "due" /\ cur[g] = d
          BY <2>2, <4>2
        <5> QED BY <3>1, <5>1
      <4> QED BY <4>1, <4>2
    <3> QED BY <3>1, <3>2, <3>3
  <2> QED BY <1>1, <2>4, <2>5, <2>6 DEF Safe
<1> QED BY <1>4, <1>5 DEF Visit

\* An event that nobody disturbs is run by one thread.
LEMMA OneRunner ==
  ASSUME Safe, NEW g \in Holder, NEW h \in Holder, Busy(g), Busy(h), cur[g] = cur[h],
         cur[h] \notin disturbed
  PROVE  g = h
BY DEF Safe, InCallback

LEMMA SafeExecute ==
  ASSUME Safe, NEW h \in Holder, Execute(h)
  PROVE  Safe'
<1>0. PICK e \in Event : cur[h] = e
  BY BusyEvent DEF Execute, Busy, Safe
<1>1. Counted /\ Counted'
  BY CountedExecute DEF Safe
<1>2. \A d \in Event : Onward(ev[d], ev'[d]) /\ ev'[d].inst = ev[d].inst /\ OnwardHere(ev[d], ev'[d])
  BY <1>1, ExecuteOnward DEF OnwardHere
<1>3. /\ pc[h] = "due" /\ Busy(h) /\ cur' = cur
      /\ runs' = [runs EXCEPT ![e] = IF ev[e].once THEN @ + 1 ELSE @]
      /\ UNCHANGED <<obj, holder, events, keeper, disturbed, overlap, fault, hand>>
  BY <1>0 DEF Execute, Busy, objVars
<1>4. pc'[h] = "run" /\ \A g \in Holder \ {h} : pc'[g] = pc[g]
  BY <1>1 DEF Execute, Counted, TypeOK
<1>5. /\ runs \in [Event -> Nat] /\ \A d \in Event \ {e} : runs'[d] = runs[d]
      /\ runs'[e] = IF ev[e].once THEN runs[e] + 1 ELSE runs[e]
  BY <1>1, <1>3 DEF Counted, TypeOK
<1>6. OneHome' /\ Owned' /\ Keeper' /\ Given'
  BY <1>2, <1>3, HomeQuiet
<1>7. InCallback'
  <2> SUFFICES ASSUME NEW g \in Holder, Busy(g)', cur[g] \notin disturbed
               PROVE  /\ ev'[cur[g]].deleted \/ ev'[cur[g]].inst = g
                      /\ keeper = g
                      /\ obj = "gone" \/ (cur[g] \in events /\ holder = g)
    BY <1>3 DEF InCallback
  <2>1. Busy(g)
    BY <1>3, <1>4 DEF Busy
  <2>2. cur[g] \in Event
    BY <1>1, <2>1, BusyEvent
  <2>3. /\ ev[cur[g]].deleted \/ ev[cur[g]].inst = g
        /\ keeper = g
        /\ obj = "gone" \/ (cur[g] \in events /\ holder = g)
    BY <2>1 DEF Safe, InCallback
  <2> QED BY <1>2, <2>2, <2>3 DEF Onward
<1>8. Once'
  <2> SUFFICES ASSUME NEW d \in Event \ disturbed
               PROVE  /\ ev'[d].ref > 0 /\ ev'[d].once /\ ~ev'[d].deleted => ev'[d].repeats = 1
                      /\ runs'[d] <= 1 /\ (runs'[d] = 1 => ev'[d].once)
                      /\ ev'[d].life = "unborn" => runs'[d] = 0
                      /\ \A g \in Holder : pc'[g] = "due" /\ cur[g] = d => runs'[d] = 0
                      /\ runs'[d] = 1 => ev'[d].deleted \/ \E g \in Holder : pc'[g] = "run" /\ cur[g] = d
                      /\ d \in DeletesObject =>
                           \A g \in Holder : pc'[g] = "run" /\ cur[g] = d => ev'[d].deleted
    BY <1>3 DEF Once
  <2>1. Onward(ev[d], ev'[d])
    BY <1>2
  <2>2. /\ ev[d].ref > 0 /\ ev[d].once /\ ~ev[d].deleted => ev[d].repeats = 1
        /\ runs[d] <= 1 /\ (runs[d] = 1 => ev[d].once)
        /\ ev[d].life = "unborn" => runs[d] = 0
        /\ \A g \in Holder : pc[g] = "due" /\ cur[g] = d => runs[d] = 0
        /\ runs[d] = 1 => ev[d].deleted \/ \E g \in Holder : pc[g] = "run" /\ cur[g] = d
        /\ d \in DeletesObject => \A g \in Holder : pc[g] = "run" /\ cur[g] = d => ev[d].deleted
    BY DEF Safe, Once
  <2>3. ev'[d].ref > 0 /\ ev'[d].once /\ ~ev'[d].deleted => ev'[d].repeats = 1
    BY <2>1, <2>2 DEF Onward
  <2>4. CASE d = e
    <3>1. runs[e] = 0 /\ runs'[e] <= 1 /\ (runs'[e] = 1 => ev[e].once)
      BY <1>0, <1>3, <1>5, <2>2, <2>4
    <3>2. \A g \in Holder : ~(pc'[g] = "due" /\ cur[g] = e)
      <4> SUFFICES ASSUME NEW g \in Holder, pc'[g] = "due", cur[g] = e PROVE FALSE
        OBVIOUS
      <4>1. g # h /\ pc[g] = "due"
        BY <1>4
      <4>2. Busy(g)
        BY <4>1 DEF Busy
      <4> QED BY <1>0, <1>3, <2>4, <4>1, <4>2, OneRunner
    <3>3. ev'[e].life # "unborn"
      <4>1. ev[e].life = "live"
        BY <1>0, <1>1, <1>3, BusyEvent
      <4> QED BY <1>2, <4>1 DEF Onward
    <3>4. pc'[h] = "run" /\ cur[h] = e
      BY <1>0, <1>4
    <3>5. e \in DeletesObject => ev'[e].deleted
      BY <1>0, <1>1, ExecuteOnward
    <3>6. ev'[e].once = ev[e].once
      BY <1>2 DEF Onward
    <3> QED BY <2>3, <2>4, <3>1, <3>2, <3>3, <3>4, <3>5, <3>6
  <2>5. CASE d # e
    <3>1. runs'[d] = runs[d]
      BY <1>5, <2>5
    <3>2. \A g \in Holder : cur[g] = d => pc'[g] = pc[g]
      BY <1>0, <1>4, <2>5
    <3>3. runs[d] = 1 => ev'[d].once
      BY <2>1, <2>2 DEF Onward
    <3>4. ev'[d].life = "unborn" => runs[d] = 0
      BY <2>1, <2>2 DEF Onward
    <3>5. runs[d] = 1 => ev'[d].deleted \/ \E g \in Holder : pc'[g] = "run" /\ cur[g] = d
      BY <2>1, <2>2, <3>2 DEF Onward
    <3>6. d \in DeletesObject => \A g \in Holder : pc'[g] = "run" /\ cur[g] = d => ev'[d].deleted
      BY <2>1, <2>2, <3>2 DEF Onward
    <3> QED BY <2>2, <2>3, <3>1, <3>2, <3>3, <3>4, <3>5, <3>6
  <2> QED BY <2>4, <2>5
<1> QED BY <1>1, <1>6, <1>7, <1>8 DEF Safe

LEMMA SafeCallbackReturns ==
  ASSUME Safe, NEW h \in Holder, CallbackReturns(h)
  PROVE  Safe'
<1>a. pc[h] = "run" /\ Busy(h)
  BY DEF CallbackReturns, Busy
<1>0. PICK e \in Event : cur[h] = e
  BY <1>a, BusyEvent DEF Safe
<1>1. Counted /\ Counted'
  BY CountedCallbackReturns DEF Safe
<1>2. \A d \in Event : Onward(ev[d], ev'[d]) /\ ev'[d].inst = ev[d].inst /\ OnwardHere(ev[d], ev'[d])
  BY <1>1, CallbackReturnsOnward DEF OnwardHere
<1>3. UNCHANGED <<obj, holder, events, keeper, runs, disturbed, overlap, fault, hand>>
  BY DEF CallbackReturns, objVars, histVars
<1>4. pc'[h] = "visit" /\ \A g \in Holder \ {h} : pc'[g] = pc[g] /\ cur'[g] = cur[g]
  BY <1>1 DEF CallbackReturns, Counted, TypeOK
<1>5. \A g \in Holder : Busy(g)' => g # h /\ Busy(g) /\ cur'[g] = cur[g]
  BY <1>4 DEF Busy
<1>6. OneHome' /\ Owned' /\ Keeper' /\ Given'
  BY <1>2, <1>3, HomeQuiet
<1>7. InCallback'
  <2> SUFFICES ASSUME NEW g \in Holder, Busy(g)', cur'[g] \notin disturbed
               PROVE  /\ ev'[cur'[g]].deleted \/ ev'[cur'[g]].inst = g
                      /\ keeper = g
                      /\ obj = "gone" \/ (cur'[g] \in events /\ holder = g)
    BY <1>3 DEF InCallback
  <2>1. Busy(g) /\ cur'[g] = cur[g] /\ cur[g] \in Event
    BY <1>1, <1>5, BusyEvent
  <2>2. /\ ev[cur[g]].deleted \/ ev[cur[g]].inst = g
        /\ keeper = g
        /\ obj = "gone" \/ (cur[g] \in events /\ holder = g)
    BY <2>1 DEF Safe, InCallback
  <2> QED BY <1>2, <2>1, <2>2 DEF Onward
<1>8. Once'
  <2> SUFFICES ASSUME NEW d \in Event \ disturbed
               PROVE  /\ ev'[d].ref > 0 /\ ev'[d].once /\ ~ev'[d].deleted => ev'[d].repeats = 1
                      /\ runs[d] <= 1 /\ (runs[d] = 1 => ev'[d].once)
                      /\ ev'[d].life = "unborn" => runs[d] = 0
                      /\ \A g \in Holder : pc'[g] = "due" /\ cur'[g] = d => runs[d] = 0
                      /\ runs[d] = 1 => ev'[d].deleted \/ \E g \in Holder : pc'[g] = "run" /\ cur'[g] = d
                      /\ d \in DeletesObject =>
                           \A g \in Holder : pc'[g] = "run" /\ cur'[g] = d => ev'[d].deleted
    BY <1>3 DEF Once
  <2>1. Onward(ev[d], ev'[d])
    BY <1>2
  <2>2. /\ ev[d].ref > 0 /\ ev[d].once /\ ~ev[d].deleted => ev[d].repeats = 1
        /\ runs[d] <= 1 /\ (runs[d] = 1 => ev[d].once)
        /\ ev[d].life = "unborn" => runs[d] = 0
        /\ \A g \in Holder : pc[g] = "due" /\ cur[g] = d => runs[d] = 0
        /\ runs[d] = 1 => ev[d].deleted \/ \E g \in Holder : pc[g] = "run" /\ cur[g] = d
        /\ d \in DeletesObject => \A g \in Holder : pc[g] = "run" /\ cur[g] = d => ev[d].deleted
    BY DEF Safe, Once
  <2>3. /\ ev'[d].ref > 0 /\ ev'[d].once /\ ~ev'[d].deleted => ev'[d].repeats = 1
        /\ runs[d] = 1 => ev'[d].once
        /\ ev'[d].life = "unborn" => runs[d] = 0
    BY <2>1, <2>2 DEF Onward
  <2>4. \A g \in Holder : \A x \in {"due", "run"} :
          pc'[g] = x /\ cur'[g] = d => pc[g] = x /\ cur[g] = d
    BY <1>4
  <2>5. \A g \in Holder : pc'[g] = "due" /\ cur'[g] = d => runs[d] = 0
    BY <2>2, <2>4
  <2>6. d \in DeletesObject => \A g \in Holder : pc'[g] = "run" /\ cur'[g] = d => ev'[d].deleted
    BY <2>1, <2>2, <2>4 DEF Onward
  <2>7. runs[d] = 1 => ev'[d].deleted \/ \E g \in Holder : pc'[g] = "run" /\ cur'[g] = d
    <3> SUFFICES ASSUME runs[d] = 1, ~ev'[d].deleted
                 PROVE  \E g \in Holder : pc'[g] = "run" /\ cur'[g] = d
      OBVIOUS
    <3>1. ~ev[d].deleted
      BY <2>1 DEF Onward
    <3>2. d # e
      <4> SUFFICES ASSUME d = e PROVE FALSE
        OBVIOUS
      <4>1. e \notin DeletesObject
        BY <1>0, <1>a, <2>2, <3>1
      <4>2. ev[e].ref > 0
        BY <1>0, <1>1, <1>a, BusyEvent
      <4>3. ev[e].repeats = 1
        BY <2>2, <3>1, <4>2
      <4> QED BY <1>0, <1>1, <4>1, <4>3, CallbackReturnsOnward
    <3>3. PICK g \in Holder : pc[g] = "run" /\ cur[g] = d
      BY <2>2, <3>1
    <3>4. g # h
      BY <1>0, <3>2, <3>3
    <3> QED BY <1>4, <3>3, <3>4
  <2> QED BY <2>2, <2>3, <2>5, <2>6, <2>7
<1> QED BY <1>1, <1>6, <1>7, <1>8 DEF Safe

\* One-shot events, for a step of the object's own operations: no callback
\* starts or ends, and what is counted of an event stays or is undisturbed.
LEMMA OnceKept ==
  ASSUME Safe, \A e \in Event : Onward(ev[e], ev'[e]), UNCHANGED <<pc, cur, runs>>,
         disturbed \subseteq disturbed'
  PROVE  Once'
<1> SUFFICES ASSUME NEW e \in Event \ disturbed
             PROVE  /\ ev'[e].ref > 0 /\ ev'[e].once /\ ~ev'[e].deleted => ev'[e].repeats = 1
                    /\ runs[e] <= 1 /\ (runs[e] = 1 => ev'[e].once)
                    /\ ev'[e].life = "unborn" => runs[e] = 0
                    /\ \A h \in Holder : pc[h] = "due" /\ cur[h] = e => runs[e] = 0
                    /\ runs[e] = 1 => ev'[e].deleted \/ \E h \in Holder : pc[h] = "run" /\ cur[h] = e
                    /\ e \in DeletesObject =>
                         \A h \in Holder : pc[h] = "run" /\ cur[h] = e => ev'[e].deleted
  BY DEF Once
<1>1. Onward(ev[e], ev'[e])
  OBVIOUS
<1>2. /\ ev[e].ref > 0 /\ ev[e].once /\ ~ev[e].deleted => ev[e].repeats = 1
      /\ runs[e] <= 1 /\ (runs[e] = 1 => ev[e].once)
      /\ ev[e].life = "unborn" => runs[e] = 0
      /\ \A h \in Holder : pc[h] = "due" /\ cur[h] = e => runs[e] = 0
      /\ runs[e] = 1 => ev[e].deleted \/ \E h \in Holder : pc[h] = "run" /\ cur[h] = e
      /\ e \in DeletesObject => \A h \in Holder : pc[h] = "run" /\ cur[h] = e => ev[e].deleted
  BY DEF Safe, Once
<1>3. /\ ev'[e].ref > 0 /\ ev'[e].once /\ ~ev'[e].deleted => ev'[e].repeats = 1
      /\ runs[e] = 1 => ev'[e].once
      /\ ev'[e].life = "unborn" => runs[e] = 0
  BY <1>1, <1>2 DEF Onward
<1>4. runs[e] = 1 => ev'[e].deleted \/ \E h \in Holder : pc[h] = "run" /\ cur[h] = e
  BY <1>1, <1>2 DEF Onward
<1>5. e \in DeletesObject =>
        \A h \in Holder : pc[h] = "run" /\ cur[h] = e => ev'[e].deleted
  BY <1>1, <1>2 DEF Onward
<1> QED BY <1>2, <1>3, <1>4, <1>5

LEMMA SafeFault ==
  ASSUME Safe, NEW t \in Holder, AddFaults(t)
  PROVE  Safe'
<1>1. Counted /\ Counted'
  BY CountedFault DEF Safe
<1>2. /\ hand[t] # None /\ (obj = "gone" \/ holder = None \/ ~Live(hand[t]))
      /\ UNCHANGED <<obj, holder, events, ev, pc, cur, hand, runs, disturbed, overlap, keeper>>
  BY DEF AddFaults, objVars, threadVars, histVars
<1>3. overlap # {}
  <2> SUFFICES ASSUME overlap = {} PROVE FALSE
    OBVIOUS
  <2>1. hand[t] \in events /\ holder # None /\ obj # "gone"
    BY <1>2 DEF Safe, Given
  <2>2. Live(hand[t])
    BY <1>1, <2>1, Records, EventsAre DEF Live
  <2> QED BY <1>2, <2>1, <2>2
<1>4. OneHome' /\ Owned' /\ Keeper' /\ InCallback'
  BY <1>2 DEF Safe, OneHome, Owned, Keeper, InCallback, Busy
<1>5. Once'
  BY <1>2 DEF Safe, Once
<1>6. Given'
  BY <1>2, <1>3 DEF Given
<1> QED BY <1>1, <1>4, <1>5, <1>6 DEF Safe

LEMMA SafeRemove ==
  ASSUME Safe, NEW t \in Holder, NEW S \in SUBSET events, RemoveEvents(t, S)
  PROVE  Safe'
<1>1. Counted /\ Counted' /\ S \subseteq Event
  BY CountedRemove, EventsAre DEF Safe
<1>2. /\ \A e \in Event : OnwardHere(ev[e], ev'[e])
      /\ \A e \in S : ev'[e].deleted
  BY <1>1, RemoveOnward DEF RemoveEvents
<1>3. \A e \in Event : Onward(ev[e], ev'[e]) /\ ev'[e].inst = ev[e].inst
  BY <1>2 DEF OnwardHere
<1>4. /\ obj # "gone" /\ events' = events \ S
      /\ overlap' = overlap \cup HandsOf(S) /\ disturbed' = disturbed \cup RunningOf(S)
      /\ UNCHANGED <<obj, holder, pc, cur, hand, fault, runs, keeper>>
  BY DEF RemoveEvents, CanCall, objVars, threadVars
<1>5. OneHome'
  BY <1>1, <1>3, <1>4, EventsAre DEF Safe, OneHome, Onward
<1>6. Owned'
  BY <1>1, <1>2, <1>3, <1>4 DEF Safe, Owned, Onward
<1>7. Keeper'
  BY <1>4 DEF Safe, Keeper
<1>8. InCallback'
  <2> SUFFICES ASSUME NEW h \in Holder, Busy(h), cur[h] \notin disturbed'
               PROVE  /\ ev'[cur[h]].deleted \/ ev'[cur[h]].inst = h
                      /\ keeper = h
                      /\ cur[h] \in events' /\ holder = h
    BY <1>4 DEF InCallback, Busy
  <2>1. cur[h] \in Event
    BY <1>1, BusyEvent
  <2>2. cur[h] \notin disturbed /\ cur[h] \notin S
    BY <1>4 DEF RunningOf, Busy
  <2>3. /\ ev[cur[h]].deleted \/ ev[cur[h]].inst = h
        /\ keeper = h /\ cur[h] \in events /\ holder = h
    BY <1>4, <2>2 DEF Safe, InCallback
  <2> QED BY <1>3, <1>4, <2>1, <2>2, <2>3 DEF Onward
<1>9. Once'
  BY <1>3, <1>4, OnceKept
<1>10. Given'
  <2> SUFFICES ASSUME overlap' = {}
               PROVE  /\ fault = "none"
                      /\ \A g \in Holder : hand[g] # None => hand[g] \in events' /\ holder # None
    BY <1>4 DEF Given
  <2>1. overlap = {} /\ HandsOf(S) = {}
    BY <1>4
  <2>2. \A g \in Holder : hand[g] \notin S
    BY <2>1 DEF HandsOf
  <2> QED BY <1>4, <2>1, <2>2 DEF Safe, Given
<1> QED BY <1>1, <1>5, <1>6, <1>7, <1>8, <1>9, <1>10 DEF Safe

LEMMA SafeDestroy ==
  ASSUME Safe, NEW t \in Holder, Destroy(t)
  PROVE  Safe'
<1>1. Counted /\ Counted' /\ events \subseteq Event
  BY CountedDestroy, EventsAre DEF Safe
<1>2. /\ \A e \in Event : OnwardHere(ev[e], ev'[e])
      /\ \A e \in events : ev'[e].deleted
  BY <1>1, RemoveOnward DEF Destroy
<1>3. \A e \in Event : Onward(ev[e], ev'[e]) /\ ev'[e].inst = ev[e].inst
  BY <1>2 DEF OnwardHere
<1>4. /\ obj # "gone" /\ obj' = "gone" /\ events' = {}
      /\ overlap' = overlap \cup HandsOf(events)
      /\ UNCHANGED <<holder, pc, cur, hand, fault, runs, disturbed, keeper>>
  BY DEF Destroy, CanCall, threadVars
<1>5. OneHome' /\ Keeper'
  BY <1>4 DEF Safe, OneHome, Keeper
<1>6. Owned'
  BY <1>1, <1>2, <1>3, <1>4 DEF Safe, Owned, Onward
<1>7. InCallback'
  <2> SUFFICES ASSUME NEW h \in Holder, Busy(h), cur[h] \notin disturbed
               PROVE  /\ ev'[cur[h]].deleted \/ ev'[cur[h]].inst = h
                      /\ keeper = h
    BY <1>4 DEF InCallback, Busy
  <2>1. cur[h] \in Event
    BY <1>1, BusyEvent
  <2>2. (ev[cur[h]].deleted \/ ev[cur[h]].inst = h) /\ keeper = h
    BY DEF Safe, InCallback
  <2> QED BY <1>3, <2>1, <2>2 DEF Onward
<1>8. Once'
  BY <1>3, <1>4, OnceKept
<1>9. Given'
  <2> SUFFICES ASSUME overlap' = {}
               PROVE  fault = "none" /\ \A g \in Holder : hand[g] = None
    BY <1>4 DEF Given
  <2>1. overlap = {} /\ HandsOf(events) = {}
    BY <1>4
  <2>2. \A g \in Holder : hand[g] \notin events
    BY <2>1 DEF HandsOf
  <2> QED BY <2>1, <2>2 DEF Safe, Given
<1> QED BY <1>1, <1>5, <1>6, <1>7, <1>8, <1>9 DEF Safe

LEMMA SafeRelocate ==
  ASSUME Safe, Counted', NEW t \in Holder, NEW nh \in Holder \cup {None}, Relocate(t, nh),
         UNCHANGED <<events, pc, cur, hand, fault, runs>>,
         obj # "gone", obj' # "gone"
  PROVE  Safe'
<1>1. Counted /\ events \subseteq Event
  BY EventsAre DEF Safe
<1>2. /\ \A e \in Event : Onward(ev[e], ev'[e]) /\ ev'[e].deleted = ev[e].deleted
      /\ \A e \in Event \ events : ev'[e] = ev[e]
      /\ nh # holder => \A e \in events : ev[e].deleted \/ ev'[e].inst = nh
  BY <1>1, RelocateOnward
<1>3. holder' = nh /\ keeper' = (IF nh = None THEN keeper ELSE nh)
  BY DEF Relocate
<1>4. \/ nh = holder /\ UNCHANGED <<ev, disturbed, overlap>>
      \/ /\ nh # holder
         /\ disturbed' = disturbed \cup RunningOf(events)
         /\ overlap' = overlap \cup HandsOf(events)
  BY DEF Relocate
<1>5. OneHome'
  <2>1. CASE nh = holder
    BY <1>3, <1>4, <2>1 DEF Safe, OneHome
  <2>2. CASE nh # holder
    BY <1>1, <1>2, <1>3, <2>2 DEF OneHome
  <2> QED BY <2>1, <2>2
<1>6. Owned'
  BY <1>2 DEF Safe, Owned, Onward
<1>7. Keeper'
  BY <1>3 DEF Keeper
<1>8. InCallback'
  <2> SUFFICES ASSUME NEW h \in Holder, Busy(h), cur[h] \notin disturbed'
               PROVE  /\ ev'[cur[h]].deleted \/ ev'[cur[h]].inst = h
                      /\ keeper' = h /\ cur[h] \in events /\ holder' = h
    BY DEF InCallback, Busy
  <2>1. cur[h] \notin disturbed
    BY <1>4
  <2>2. /\ ev[cur[h]].deleted \/ ev[cur[h]].inst = h
        /\ keeper = h /\ cur[h] \in events /\ holder = h
    BY <2>1 DEF Safe, InCallback
  <2>3. nh = holder /\ UNCHANGED ev
    BY <1>4, <2>2 DEF RunningOf, Busy
  <2> QED BY <1>3, <2>2, <2>3
<1>9. Once'
  <2>1. disturbed \subseteq disturbed'
    BY <1>4
  <2> QED BY <1>2, <2>1, OnceKept
<1>10. Given'
  <2> SUFFICES ASSUME overlap' = {}
               PROVE  /\ fault = "none"
                      /\ \A g \in Holder : hand[g] # None => hand[g] \in events /\ holder' # None
    BY DEF Given
  <2>1. /\ overlap = {} /\ fault = "none"
        /\ \A g \in Holder : hand[g] # None => hand[g] \in events /\ holder # None
    BY <1>4 DEF Safe, Given
  <2>2. CASE nh = holder
    BY <1>3, <2>1, <2>2
  <2>3. CASE nh # holder
    <3>1. HandsOf(events) = {}
      BY <1>4, <2>3
    <3>2. \A g \in Holder : hand[g] \notin events
      BY <3>1 DEF HandsOf
    <3> QED BY <2>1, <3>2
  <2> QED BY <2>2, <2>3
<1> QED BY <1>5, <1>6, <1>7, <1>8, <1>9, <1>10 DEF Safe

LEMMA SafePushToWorld ==
  ASSUME Safe, NEW m \in Map, PushToWorld(m)
  PROVE  Safe'
<1>1. Counted' /\ m \in Holder
  BY CountedPushToWorld DEF Safe, Holder
<1>2. obj # "gone" /\ obj' # "gone" /\ Relocate(m, m)
      /\ UNCHANGED <<events, pc, cur, hand, fault, runs>>
  BY DEF PushToWorld
<1> QED BY <1>1, <1>2, SafeRelocate

LEMMA SafeRemoveFromWorld ==
  ASSUME Safe, NEW t \in Holder, RemoveFromWorld(t)
  PROVE  Safe'
<1>1. Counted'
  BY CountedRemoveFromWorld DEF Safe
<1>2. obj # "gone" /\ obj' # "gone" /\ Relocate(t, None)
      /\ UNCHANGED <<events, pc, cur, hand, fault, runs>>
  BY DEF RemoveFromWorld
<1> QED BY <1>1, <1>2, SafeRelocate

\* What AddEvent does: a new event of the holder, or one that is not taken.
LEMMA AddEventDoes ==
  ASSUME Counted, NEW t \in Holder, NEW e \in Event, NEW repeats \in 0..1, AddEvent(t, e, repeats)
  PROVE  \E h \in Holder :
           /\ h = HolderForAdd /\ holder' = h /\ keeper' = h
           /\ ev[e].life = "unborn" /\ ev[e].ref = 0 /\ e \notin events
           /\ ev'[e].life # "unborn" /\ (e \in events' => ev'[e].inst = h)
           /\ ev'[e].ref > 0 => e \in events' /\ (ev'[e].once => ev'[e].repeats = 1)
           /\ \A d \in Event \ {e} : ev'[d] = ev[d] /\ (d \in events' <=> d \in events)
           /\ events \subseteq events' /\ events' \subseteq events \cup {e}
           /\ \A g \in Holder : hand'[g] = hand[g] \/ (hand[g] = None /\ hand'[g] = e /\ e \in events')
           /\ e \in events' => hand'[t] = e
<1>1. PICK h \in Holder : h = HolderForAdd
  BY HolderForAddType DEF Counted
<1>2. /\ ev[e].life = "unborn" /\ holder' = h /\ keeper' = h /\ hand[t] = None
      /\ ev \in [Event -> TimedEvent] /\ ev[e] \in TimedEvent /\ ev[e].ref = 0 /\ e \notin events
      /\ hand \in [Holder -> Event \cup {None}]
  <2>1. ev[e].life = "unborn" /\ holder' = h /\ keeper' = h /\ hand[t] = None
    BY <1>1 DEF AddEvent, CanCall
  <2>2. ev \in [Event -> TimedEvent] /\ hand \in [Holder -> Event \cup {None}]
    BY DEF Counted, TypeOK
  <2>3. /\ ev[e] \in TimedEvent /\ ev[e].ref \in Nat /\ (ev[e].life = "live" <=> ev[e].ref > 0)
        /\ e \in events => ev[e].ref > 0
    BY Records
  <2> QED BY <2>1, <2>2, <2>3
<1>3. CASE /\ ev' = [ev EXCEPT ![e].life = "freed"] /\ UNCHANGED <<events, hand>>
  <2> DEFINE q == [ev[e] EXCEPT !.life = "freed"]
  <2>1. ev' = [ev EXCEPT ![e] = q]
    BY <1>2, <1>3
  <2>2. q.life = "freed" /\ q.ref = 0
    BY <1>2 DEF TimedEvent
  <2> HIDE DEF q
  <2>3. ev'[e] = q /\ \A d \in Event \ {e} : ev'[d] = ev[d]
    BY <1>2, <2>1
  <2> QED BY <1>1, <1>2, <1>3, <2>2, <2>3
<1>4. CASE /\ ev' = [ev EXCEPT ![e] = NewEvent(h, repeats)] /\ events' = events \cup {e}
           /\ hand' = [hand EXCEPT ![t] = e]
  <2> DEFINE q == NewEvent(h, repeats)
  <2>1. q.life = "live" /\ q.inst = h /\ (q.once => q.repeats = 1)
    BY DEF NewEvent
  <2>a. ev' = [ev EXCEPT ![e] = q]
    BY <1>4
  <2> HIDE DEF q
  <2>2. ev'[e] = q /\ \A d \in Event \ {e} : ev'[d] = ev[d]
    BY <1>2, <2>a
  <2>3. \A d \in Event \ {e} : d \in events' <=> d \in events
    BY <1>4
  <2>4. /\ hand'[t] = e /\ \A g \in Holder \ {t} : hand'[g] = hand[g]
    BY <1>2, <1>4
  <2> QED BY <1>1, <1>2, <1>4, <2>1, <2>2, <2>3, <2>4
<1> QED BY <1>1, <1>3, <1>4 DEF AddEvent

LEMMA SafeAddEvent ==
  ASSUME Safe, NEW t \in Holder, NEW e \in Event, NEW repeats \in 0..1, AddEvent(t, e, repeats)
  PROVE  Safe'
<1>1. Counted /\ Counted'
  BY CountedAddEvent DEF Safe
<1>2. PICK h \in Holder :
        /\ h = HolderForAdd /\ holder' = h /\ keeper' = h
        /\ ev[e].life = "unborn" /\ ev[e].ref = 0 /\ e \notin events
        /\ ev'[e].life # "unborn" /\ (e \in events' => ev'[e].inst = h)
        /\ ev'[e].ref > 0 => e \in events' /\ (ev'[e].once => ev'[e].repeats = 1)
        /\ \A d \in Event \ {e} : ev'[d] = ev[d] /\ (d \in events' <=> d \in events)
        /\ events \subseteq events' /\ events' \subseteq events \cup {e}
        /\ \A g \in Holder : hand'[g] = hand[g] \/ (hand[g] = None /\ hand'[g] = e /\ e \in events')
        /\ e \in events' => hand'[t] = e
  BY <1>1, AddEventDoes
<1>3. /\ obj # "gone" /\ UNCHANGED <<obj, pc, cur, fault, runs, disturbed, overlap>>
  BY DEF AddEvent, CanCall, objVars, threadVars
<1>4. events \subseteq Event /\ None \notin Holder /\ (holder # None => h = holder)
  BY <1>1, <1>2, EventsAre DEF HolderForAdd
<1>5. OneHome'
  <2> SUFFICES ASSUME NEW d \in events'
               PROVE  ev'[d].deleted \/ ev'[d].inst \in {h, None}
    BY <1>2 DEF OneHome
  <2>1. CASE d = e
    BY <1>2, <2>1
  <2>2. CASE d # e
    <3>1. d \in events /\ ev'[d] = ev[d]
      BY <1>2, <1>4, <2>2
    <3> QED BY <1>4, <3>1 DEF Safe, OneHome
  <2> QED BY <2>1, <2>2
<1>6. Owned'
  <2> SUFFICES ASSUME NEW d \in Event, ev'[d].ref > 0, ~ev'[d].deleted
               PROVE  d \in events'
    BY DEF Owned
  <2>1. CASE d = e
    BY <1>2, <2>1
  <2>2. CASE d # e
    BY <1>2, <2>2 DEF Safe, Owned
  <2> QED BY <2>1, <2>2
<1>7. Keeper'
  BY <1>2 DEF Keeper
<1>8. \A g \in Holder : Busy(g) => cur[g] \in Event \ {e}
  BY <1>1, <1>2, BusyEvent
<1>9. InCallback'
  <2> SUFFICES ASSUME NEW g \in Holder, Busy(g), cur[g] \notin disturbed
               PROVE  /\ ev'[cur[g]].deleted \/ ev'[cur[g]].inst = g
                      /\ h = g /\ cur[g] \in events'
    BY <1>2, <1>3 DEF InCallback, Busy
  <2>1. /\ ev[cur[g]].deleted \/ ev[cur[g]].inst = g
        /\ keeper = g /\ cur[g] \in events /\ holder = g
    BY <1>3 DEF Safe, InCallback
  <2>2. ev'[cur[g]] = ev[cur[g]] /\ cur[g] \in events'
    BY <1>2, <1>8, <2>1
  <2> QED BY <1>4, <2>1, <2>2
<1>10. Once'
  <2> SUFFICES ASSUME NEW d \in Event \ disturbed
               PROVE  /\ ev'[d].ref > 0 /\ ev'[d].once /\ ~ev'[d].deleted => ev'[d].repeats = 1
                      /\ runs[d] <= 1 /\ (runs[d] = 1 => ev'[d].once)
                      /\ ev'[d].life = "unborn" => runs[d] = 0
                      /\ \A g \in Holder : pc[g] = "due" /\ cur[g] = d => runs[d] = 0
                      /\ runs[d] = 1 => ev'[d].deleted \/ \E g \in Holder : pc[g] = "run" /\ cur[g] = d
                      /\ d \in DeletesObject =>
                           \A g \in Holder : pc[g] = "run" /\ cur[g] = d => ev'[d].deleted
    BY <1>3 DEF Once
  <2>1. /\ ev[d].ref > 0 /\ ev[d].once /\ ~ev[d].deleted => ev[d].repeats = 1
        /\ runs[d] <= 1 /\ (runs[d] = 1 => ev[d].once)
        /\ ev[d].life = "unborn" => runs[d] = 0
        /\ \A g \in Holder : pc[g] = "due" /\ cur[g] = d => runs[d] = 0
        /\ runs[d] = 1 => ev[d].deleted \/ \E g \in Holder : pc[g] = "run" /\ cur[g] = d
        /\ d \in DeletesObject => \A g \in Holder : pc[g] = "run" /\ cur[g] = d => ev[d].deleted
    BY DEF Safe, Once
  <2>2. CASE d = e
    <3>1. runs[e] = 0
      BY <1>2, <2>1, <2>2
    <3>2. \A g \in Holder : ~(pc[g] = "run" /\ cur[g] = e)
      BY <1>8 DEF Busy
    <3> QED BY <1>2, <2>2, <3>1, <3>2
  <2>3. CASE d # e
    <3>1. ev'[d] = ev[d]
      BY <1>2, <2>3
    <3> QED BY <2>1, <3>1
  <2> QED BY <2>2, <2>3
<1>11. Given'
  <2> SUFFICES ASSUME overlap = {}
               PROVE  /\ fault = "none"
                      /\ \A g \in Holder : hand'[g] # None => hand'[g] \in events'
    BY <1>2, <1>3, <1>4 DEF Given
  <2>1. fault = "none" /\ \A g \in Holder : hand[g] # None => hand[g] \in events
    BY DEF Safe, Given
  <2> QED BY <1>2, <2>1
<1> QED BY <1>1, <1>5, <1>6, <1>7, <1>9, <1>10, <1>11 DEF Safe

LEMMA SafeInit == Init => Safe
<1> SUFFICES ASSUME Init PROVE Safe
  OBVIOUS
<1>1. Counted
  BY CountedInit
<1>2. \A e \in Event : ev[e] = Unborn
  BY DEF Init
<1>3. Unborn.ref = 0 /\ Unborn.life = "unborn"
  BY DEF Unborn
<1>4. OneHome /\ Keeper /\ InCallback /\ Given
  BY DEF Init, OneHome, Keeper, InCallback, Busy, Given
<1>5. Owned
  BY <1>2, <1>3 DEF Owned
<1>6. Once
  BY <1>2, <1>3 DEF Init, Once
<1> QED BY <1>1, <1>4, <1>5, <1>6 DEF Safe

LEMMA SafeNext == Safe /\ [Next]_vars => Safe'
<1> SUFFICES ASSUME Safe, [Next]_vars PROVE Safe'
  OBVIOUS
<1>1. CASE UNCHANGED vars
  BY <1>1, SafeStutter
<1>2. ASSUME NEW t \in Holder, ObjectCall(t)
      PROVE  Safe'
  <2>1. CASE \E e \in Event, repeats \in 0..1 : AddEvent(t, e, repeats)
    BY <2>1, SafeAddEvent
  <2>2. CASE \E e \in events : RemoveEvents(t, {e})
    <3>1. PICK e \in events : RemoveEvents(t, {e})
      BY <2>2
    <3>2. {e} \in SUBSET events
      OBVIOUS
    <3> QED BY <3>1, <3>2, SafeRemove
  <2>3. CASE RemoveEvents(t, events)
    BY <2>3, SafeRemove
  <2>4. CASE \E e \in Event, time \in 1..MaxTime :
               ModifyTimeLeft(t, e, time) \/ ModifyTimeAndTimeLeft(t, e, time)
    BY <2>4, SafeModify
  <2>5. CASE \E m \in Map : AddToWorld(t, m)
    BY <2>5, SafeAddToWorld
  <2>6. CASE RemoveFromWorld(t)
    BY <2>6, SafeRemoveFromWorld
  <2>7. CASE Destroy(t)
    BY <2>7, SafeDestroy
  <2> QED BY <1>2, <2>1, <2>2, <2>3, <2>4, <2>5, <2>6, <2>7 DEF ObjectCall
<1>3. ASSUME NEW t \in Holder, AddToHolder(t) \/ AddFaults(t)
      PROVE  Safe'
  BY <1>3, SafeAddToHolder, SafeFault
<1>4. ASSUME NEW t \in Holder, Update(t)
      PROVE  Safe'
  BY <1>4, SafeUpdateBegin, SafeVisit, SafeExecute, SafeCallbackReturns, SafeUpdateEnd DEF Update
<1>5. ASSUME NEW m \in Map, PushToWorld(m)
      PROVE  Safe'
  BY <1>5, SafePushToWorld
<1> QED BY <1>1, <1>2, <1>3, <1>4, <1>5 DEF Next

LEMMA SafeAlways == Spec => []Safe
BY SafeInit, SafeNext, PTL DEF Spec

\* Reference counts say exactly who has an event, and event_AddEvent uses a
\* null or freed pointer only when another thread came between its halves.
THEOREM EventsConsistent == Spec => []Consistent
<1>1. Safe => Consistent
  BY DEF Safe, Counted, Given, Consistent, FaultOnlyByOverlap
<1> QED BY <1>1, SafeAlways, PTL

\* An event belongs to the holder of its object, or to none.
THEOREM EventsOneHome == Spec => []OneHome
<1>1. Safe => OneHome
  BY DEF Safe
<1> QED BY <1>1, SafeAlways, PTL

\* A one-shot event is started once, unless it is moved or removed meanwhile.
THEOREM StartedOnce == Spec => []OneShotOnce
<1>1. Safe => OneShotOnce
  BY DEF Safe, Once, OneShotOnce
<1> QED BY <1>1, SafeAlways, PTL

\* Only the thread of the last holder may be in a callback of a destroyed object.
THEOREM NoGhosts == Spec => []NoGhostCalls
<1>1. Safe => NoGhostCalls
  BY DEF Safe, InCallback, Busy, NoGhostCalls
<1> QED BY <1>1, SafeAlways, PTL

-----------------------------------------------------------------------------
(* No event is left behind, if none is added while the object is queued. *)

Settled == Safe /\ AtHome /\ Held

\* A step that does not move the object.
LEMMA AtHomeQuiet ==
  ASSUME Settled, \A e \in Event : OnwardHere(ev[e], ev'[e]), UNCHANGED <<holder, place>>,
         events' \subseteq events, obj' = obj \/ obj' = "gone"
  PROVE  AtHome'
<1>1. \A e \in events : Onward(ev[e], ev'[e]) /\ ev'[e].inst = ev[e].inst
  BY EventsAre DEF OnwardHere, Settled, Safe
<1>2. obj' = "in" => \A e \in events' : ev'[e].deleted \/ ev'[e].inst = holder
  BY <1>1 DEF Settled, AtHome, Onward
<1>3. /\ obj = "out" => place = None
      /\ obj \in {"out", "queued"} => holder \in {World, None}
      /\ obj = "in" => holder = place /\ place \in Map
  BY DEF Settled, AtHome
<1> QED BY <1>2, <1>3 DEF AtHome

\* A step that gives and takes no entries.
LEMMA HeldQuiet ==
  ASSUME Settled, \A e \in Event : OnwardHere(ev[e], ev'[e]),
         UNCHANGED <<holder, hand, list, pool>>,
         events' \subseteq events, obj' = obj \/ obj' = "gone"
  PROVE  Held'
<1>1. \A e \in events : Onward(ev[e], ev'[e])
  BY EventsAre DEF OnwardHere, Settled, Safe
<1> QED BY <1>1 DEF Settled, Held, Onward

LEMMA SettledQuiet ==
  ASSUME Settled, Safe', \A e \in Event : OnwardHere(ev[e], ev'[e]),
         UNCHANGED <<holder, place, hand, list, pool>>,
         events' \subseteq events, obj' = obj \/ obj' = "gone"
  PROVE  Settled'
BY AtHomeQuiet, HeldQuiet DEF Settled

LEMMA SettledModify ==
  ASSUME Settled, NEW t \in Holder, NEW e \in Event, NEW time \in 1..MaxTime,
         ModifyTimeLeft(t, e, time) \/ ModifyTimeAndTimeLeft(t, e, time)
  PROVE  Settled'
<1>1. Safe /\ Safe' /\ Counted
  BY SafeModify DEF Settled, Safe
<1>2. \A d \in Event : OnwardHere(ev[d], ev'[d])
  BY <1>1, ModifyAlike, AlikeOnward
<1>3. UNCHANGED <<objVars, holder, events, list, pool, hand>>
  BY DEF ModifyTimeLeft, ModifyTimeAndTimeLeft
<1> QED BY <1>1, <1>2, <1>3, SettledQuiet DEF objVars

LEMMA SettledRemove ==
  ASSUME Settled, NEW t \in Holder, NEW S \in SUBSET events, RemoveEvents(t, S)
  PROVE  Settled'
<1>1. Safe /\ Safe' /\ Counted
  BY SafeRemove DEF Settled, Safe
<1>2. \A e \in Event : OnwardHere(ev[e], ev'[e])
  BY <1>1, RemoveOnward DEF RemoveEvents
<1>3. events' \subseteq events /\ UNCHANGED <<obj, place, holder, list, pool, hand>>
  BY DEF RemoveEvents, objVars
<1> QED BY <1>1, <1>2, <1>3, SettledQuiet

LEMMA SettledDestroy ==
  ASSUME Settled, NEW t \in Holder, Destroy(t)
  PROVE  Settled'
<1>1. Safe /\ Safe' /\ Counted
  BY SafeDestroy DEF Settled, Safe
<1>2. \A e \in Event : OnwardHere(ev[e], ev'[e])
  BY <1>1, RemoveOnward DEF Destroy
<1>3. events' \subseteq events /\ obj' = "gone" /\ UNCHANGED <<place, holder, list, pool, hand>>
  BY DEF Destroy
<1> QED BY <1>1, <1>2, <1>3, SettledQuiet

LEMMA SettledStill ==
  ASSUME Settled, Safe', UNCHANGED <<ev, obj, place, holder, events, hand, list, pool>>
  PROVE  Settled'
<1>1. \A e \in Event : OnwardHere(ev[e], ev'[e])
  BY DEF OnwardHere, Onward
<1> QED BY <1>1, SettledQuiet

LEMMA SettledAddToHolder ==
  ASSUME Settled, NEW t \in Holder, AddToHolder(t)
  PROVE  Settled'
<1>1. Safe /\ Safe' /\ Counted /\ TypeOK /\ Fits /\ events \subseteq Event
  BY SafeAddToHolder, EventsAre DEF Settled, Safe, Counted
<1>2. \A e \in Event : OnwardHere(ev[e], ev'[e])
  BY <1>1, AddToHolderOnward
<1>3. PICK e \in Event : hand[t] = e
  BY <1>1 DEF AddToHolder, TypeOK
<1>4. /\ holder \in Holder /\ GiveTo(t, holder, {e}) /\ hand' = [hand EXCEPT ![t] = None]
      /\ UNCHANGED <<obj, place, holder, events, pc, cur>>
  BY <1>1, <1>3 DEF AddToHolder, TypeOK, objVars
<1>5. /\ list'[e][holder] + pool'[e][holder] > 0
      /\ \A d \in Event \ {e} : list'[d] = list[d] /\ pool'[d] = pool[d]
  BY <1>1, <1>4, GiveToCounts
<1>6. \A g \in Holder : hand[g] # e => hand'[g] = hand[g]
  BY <1>1, <1>3, <1>4 DEF TypeOK
<1>7. AtHome'
  BY <1>2, <1>4, AtHomeQuiet
<1>8. Held'
  <2> SUFFICES ASSUME obj = "in", NEW d \in events
               PROVE  \/ ev'[d].deleted \/ (\E g \in Holder : hand'[g] = d)
                      \/ list'[d][holder] + pool'[d][holder] > 0
    BY <1>4 DEF Held
  <2>1. CASE d = e
    BY <1>5, <2>1
  <2>2. CASE d # e
    <3>1. ev[d].deleted \/ (\E g \in Holder : hand[g] = d) \/ list[d][holder] + pool[d][holder] > 0
      BY DEF Settled, Held
    <3>2. ev[d].deleted => ev'[d].deleted
      BY <1>1, <1>2 DEF OnwardHere, Onward
    <3>3. (\E g \in Holder : hand[g] = d) => \E g \in Holder : hand'[g] = d
      BY <1>6, <2>2
    <3> QED BY <1>1, <1>5, <2>2, <3>1, <3>2, <3>3
  <2> QED BY <2>1, <2>2
<1> QED BY <1>1, <1>7, <1>8 DEF Settled

LEMMA SettledAddToWorld ==
  ASSUME Settled, NEW t \in Holder, NEW m \in Map, AddToWorld(t, m)
  PROVE  Settled'
<1>1. Safe'
  BY SafeAddToWorld DEF Settled
<1>2. obj = "out" /\ obj' = "queued" /\ UNCHANGED holder
  BY DEF AddToWorld
<1>3. AtHome'
  BY <1>2 DEF Settled, AtHome
<1> QED BY <1>1, <1>2, <1>3 DEF Settled, Held

LEMMA SettledRemoveFromWorld ==
  ASSUME Settled, NEW t \in Holder, RemoveFromWorld(t)
  PROVE  Settled'
<1>1. Safe'
  BY SafeRemoveFromWorld DEF Settled
<1>2. obj' = "out" /\ place' = None /\ holder' = None
  BY DEF RemoveFromWorld, Relocate
<1> QED BY <1>1, <1>2 DEF Settled, AtHome, Held

LEMMA SettledPushToWorld ==
  ASSUME Settled, NEW m \in Map, PushToWorld(m)
  PROVE  Settled'
<1>1. Safe /\ Safe' /\ Counted /\ TypeOK /\ Fits /\ events \subseteq Event
  BY SafePushToWorld, EventsAre DEF Settled, Safe, Counted
<1>2. /\ m \in Holder /\ m # World /\ m # None
  BY EventsAssumption DEF Holder
<1>3. /\ obj = "queued" /\ place = m /\ place' = m /\ Relocate(m, m)
      /\ UNCHANGED <<events, pc, cur, hand>>
  BY DEF PushToWorld
<1>4. m # holder
  BY <1>2, <1>3 DEF Settled, AtHome
<1>5. /\ \A e \in Event : ev'[e].deleted = ev[e].deleted
      /\ \A e \in events : ev[e].deleted \/ ev'[e].inst = m
  BY <1>1, <1>2, <1>3, <1>4, RelocateOnward
<1>6. holder' = m
  BY <1>3 DEF Relocate
<1>7. AtHome'
  BY <1>1, <1>3, <1>5, <1>6 DEF PushToWorld, AtHome
<1>8. Held'
  <2> DEFINE es == {e \in events : ~ev[e].deleted}
  <2>1. GiveTo(m, m, es) /\ es \in SUBSET Event
    BY <1>1, <1>2, <1>3, <1>4 DEF Relocate, AddObject
  <2>2. \A e \in events : e \in es \/ ev[e].deleted
    OBVIOUS
  <2> HIDE DEF es
  <2>3. \A e \in es : list'[e][m] + pool'[e][m] > 0
    BY <1>1, <1>2, <1>3, <2>1, GiveToCounts
  <2> QED BY <1>1, <1>3, <1>5, <1>6, <2>2, <2>3 DEF Held
<1> QED BY <1>1, <1>7, <1>8 DEF Settled

LEMMA SettledAddEvent ==
  ASSUME QueuedAdds = FALSE, Settled, NEW t \in Holder, NEW e \in Event, NEW repeats \in 0..1,
         AddEvent(t, e, repeats)
  PROVE  Settled'
<1>1. Safe /\ Safe' /\ Counted /\ TypeOK
  BY SafeAddEvent DEF Settled, Safe, Counted
<1>2. PICK h \in Holder :
        /\ h = HolderForAdd /\ holder' = h
        /\ (e \in events' => ev'[e].inst = h)
        /\ \A d \in Event \ {e} : ev'[d] = ev[d]
        /\ events' \subseteq events \cup {e}
        /\ \A g \in Holder : hand'[g] = hand[g] \/ (hand[g] = None /\ hand'[g] = e /\ e \in events')
        /\ e \in events' => hand'[t] = e
  BY <1>1, AddEventDoes
<1>3. ~(obj = "queued" /\ holder = None) /\ UNCHANGED <<obj, place, list, pool>>
  BY DEF AddEvent, objVars
<1>4. /\ obj = "out" => place = None
      /\ obj \in {"out", "queued"} => holder \in {World, None}
      /\ obj = "in" => holder = place /\ place \in Map
      /\ obj = "in" => \A d \in events : ev[d].deleted \/ ev[d].inst = holder
  BY DEF Settled, AtHome
<1>5. events \subseteq Event /\ None \notin Holder /\ Map \subseteq Holder
  BY <1>1, EventsAre DEF Holder
<1>6. (obj = "in" => h = holder) /\ (obj \in {"out", "queued"} => h \in {World, None})
  BY <1>2, <1>3, <1>4, <1>5 DEF HolderForAdd
<1>7. AtHome'
  <2>1. ASSUME obj = "in", NEW d \in events'
        PROVE  ev'[d].deleted \/ ev'[d].inst = h
    <3>1. CASE d = e
      BY <1>2, <3>1
    <3>2. CASE d # e
      <4>1. d \in events /\ ev'[d] = ev[d]
        BY <1>2, <1>5, <3>2
      <4> QED BY <1>4, <1>6, <2>1, <4>1
    <3> QED BY <3>1, <3>2
  <2> QED BY <1>2, <1>3, <1>4, <1>6, <2>1 DEF AtHome
<1>8. Held'
  <2> SUFFICES ASSUME obj = "in", NEW d \in events'
               PROVE  \/ ev'[d].deleted \/ (\E g \in Holder : hand'[g] = d)
                      \/ list[d][h] + pool[d][h] > 0
    BY <1>2, <1>3 DEF Held
  <2>1. CASE d = e
    BY <1>2, <2>1
  <2>2. CASE d # e
    <3>1. d \in events /\ ev'[d] = ev[d] /\ h = holder
      BY <1>2, <1>5, <1>6, <2>2
    <3>2. ev[d].deleted \/ (\E g \in Holder : hand[g] = d) \/ list[d][holder] + pool[d][holder] > 0
      BY <3>1 DEF Settled, Held
    <3>3. \A g \in Holder : hand[g] = d => hand'[g] = d
      BY <1>2, <1>5, <3>1, EventsAssumption
    <3> QED BY <3>1, <3>2, <3>3
  <2> QED BY <2>1, <2>2
<1> QED BY <1>1, <1>7, <1>8 DEF Settled

\* A step of Update: of what it does not delete, its holder keeps the entries.
LEMMA SettledUpdate ==
  ASSUME Settled, Safe', NEW h \in Holder, \A e \in Event : OnwardHere(ev[e], ev'[e]),
         UNCHANGED <<obj, place, holder, events, hand>>,
         \A e \in events : obj = "in" =>
           \/ ev'[e].deleted
           \/ list'[e][holder] + pool'[e][holder] = list[e][holder] + pool[e][holder]
  PROVE  Settled'
<1>1. AtHome'
  BY AtHomeQuiet
<1>2. \A e \in events : ev[e].deleted => ev'[e].deleted
  BY EventsAre DEF Settled, Safe, OnwardHere, Onward
<1>3. Held'
  <2> SUFFICES ASSUME obj = "in", NEW e \in events
               PROVE  \/ ev'[e].deleted \/ (\E g \in Holder : hand[g] = e)
                      \/ list'[e][holder] + pool'[e][holder] > 0
    BY DEF Held
  <2>1. ev[e].deleted \/ (\E g \in Holder : hand[g] = e) \/ list[e][holder] + pool[e][holder] > 0
    BY DEF Settled, Held
  <2> QED BY <1>2, <2>1
<1> QED BY <1>1, <1>3 DEF Settled

LEMMA AtHomeStays ==
  ASSUME Settled, obj = "in", NEW e \in events
  PROVE  holder \in Holder /\ e \in Event /\ (ev[e].deleted \/ Kept(holder, e))
BY EventsAre DEF Settled, Safe, AtHome, Kept, Holder

LEMMA SettledUpdateBegin ==
  ASSUME Settled, NEW h \in Holder, UpdateBegin(h)
  PROVE  Settled'
<1>1. Safe' /\ Counted
  BY SafeUpdateBegin DEF Settled, Safe
<1>2. \A e \in Event : OnwardHere(ev[e], ev'[e])
  BY <1>1, UpdateBeginOnward
<1>3. UNCHANGED <<obj, place, holder, events, hand>>
  BY DEF UpdateBegin, objVars
<1>4. ASSUME NEW e \in events, obj = "in"
      PROVE  \/ ev'[e].deleted
             \/ list'[e][holder] + pool'[e][holder] = list[e][holder] + pool[e][holder]
  <2>1. holder \in Holder /\ e \in Event /\ (ev[e].deleted \/ Kept(holder, e))
    BY <1>4, AtHomeStays
  <2>2. ev[e].deleted => ev'[e].deleted
    BY <1>2, <2>1 DEF OnwardHere, Onward
  <2> DEFINE n == list[e]
             p == pool[e]
  <2>3. n \in [Holder -> Nat] /\ p \in [Holder -> Nat]
    BY <1>1, <2>1, EntryTypes DEF Counted, EntryCounts
  <2>4. /\ list'[e] = IF Kept(h, e) THEN [n EXCEPT ![h] = n[h] + p[h]] ELSE n
        /\ pool'[e] = [p EXCEPT ![h] = 0]
    BY <2>1 DEF UpdateBegin
  <2>5. n[holder] \in Nat /\ p[holder] \in Nat
    BY <2>1, <2>3
  <2>6. n = list[e] /\ p = pool[e]
    OBVIOUS
  <2> HIDE DEF n, p
  <2>7. CASE h = holder
    BY <2>1, <2>2, <2>3, <2>4, <2>5, <2>6, <2>7
  <2>8. CASE h # holder
    <3>1. list'[e][holder] = n[holder] /\ pool'[e][holder] = p[holder]
      BY <2>1, <2>3, <2>4, <2>8
    <3> QED BY <2>6, <3>1
  <2> QED BY <2>7, <2>8
<1> QED BY <1>1, <1>2, <1>3, <1>4, SettledUpdate

\* An entry less in the list of h.
LEMMA LessElsewhere ==
  ASSUME Counted, NEW h \in Holder, NEW e \in Event, list' = OneLess(list, e, h), list[e][h] > 0
  PROVE  \A d \in Event : \A g \in Holder : d # e \/ g # h => list'[d][g] = list[d][g]
<1>1. list \in EntryCounts /\ list[e][h] \in Nat
  BY EntryTypes, Records DEF Counted
<1>2. Less(list, list', e, h)
  BY <1>1, OneLessType
<1> QED BY <1>2 DEF Less

LEMMA SettledVisit ==
  ASSUME Settled, NEW h \in Holder, NEW e \in Event, Visit(h, e)
  PROVE  Settled'
<1>1. Safe' /\ Counted /\ list[e][h] > 0
  BY SafeVisit, VisitLive DEF Settled, Safe
<1>2. \A d \in Event : OnwardHere(ev[d], ev'[d])
  BY <1>1, VisitOnward
<1>3. /\ UNCHANGED <<obj, place, holder, events, hand, pool>>
      /\ UNCHANGED list \/ (list' = OneLess(list, e, h) /\ ~Stays(h, e))
  BY DEF Visit, objVars
<1>4. ASSUME NEW d \in events, obj = "in"
      PROVE  \/ ev'[d].deleted
             \/ list'[d][holder] + pool'[d][holder] = list[d][holder] + pool[d][holder]
  <2>1. holder \in Holder /\ d \in Event /\ (ev[d].deleted \/ Kept(holder, d))
    BY <1>4, AtHomeStays
  <2>2. ev[d].deleted => ev'[d].deleted
    BY <1>2, <2>1 DEF OnwardHere, Onward
  <2>3. CASE UNCHANGED list
    BY <1>3, <2>3
  <2>4. CASE list' = OneLess(list, e, h) /\ ~Stays(h, e)
    <3>1. Kept(holder, d) => d # e \/ holder # h
      BY <2>4 DEF Stays
    <3>2. d # e \/ holder # h => list'[d][holder] = list[d][holder]
      BY <1>1, <2>1, <2>4, LessElsewhere
    <3> QED BY <1>3, <2>1, <2>2, <3>1, <3>2
  <2> QED BY <1>3, <2>3, <2>4
<1> QED BY <1>1, <1>2, <1>3, <1>4, SettledUpdate

LEMMA SettledExecute ==
  ASSUME Settled, NEW h \in Holder, Execute(h)
  PROVE  Settled'
<1>1. Safe' /\ Counted
  BY SafeExecute DEF Settled, Safe
<1>2. pc[h] = "due" /\ UNCHANGED <<obj, place, holder, events, hand, pool>>
  BY DEF Execute, objVars
<1>3. PICK e \in Event : cur[h] = e
  BY <1>1, <1>2, BusyEvent DEF Busy
<1>4. /\ \A d \in Event : OnwardHere(ev[d], ev'[d])
      /\ e \in DeletesObject => ev'[e].deleted
  BY <1>1, <1>3, ExecuteOnward
<1>5. UNCHANGED list \/ (list' = OneLess(list, e, h) /\ e \in DeletesObject)
  BY <1>3 DEF Execute
<1>6. list[e][h] > 0
  <2>1. Current(h, e) = 1 /\ todo[e][h] \in Nat
    BY <1>1, <1>2, <1>3, Records DEF Current
  <2>2. todo[e][h] + Current(h, e) > 0
    BY <2>1
  <2> QED BY <1>1, <2>2, EntryLive
<1>7. ASSUME NEW d \in events, obj = "in"
      PROVE  \/ ev'[d].deleted
             \/ list'[d][holder] + pool'[d][holder] = list[d][holder] + pool[d][holder]
  <2>1. holder \in Holder /\ d \in Event
    BY <1>7, AtHomeStays
  <2>2. CASE UNCHANGED list
    BY <1>2, <2>2
  <2>3. CASE list' = OneLess(list, e, h) /\ e \in DeletesObject
    <3>1. d # e => list'[d][holder] = list[d][holder]
      BY <1>1, <1>6, <2>1, <2>3, LessElsewhere
    <3> QED BY <1>2, <1>4, <2>3, <3>1
  <2> QED BY <1>5, <2>2, <2>3
<1> QED BY <1>1, <1>2, <1>4, <1>7, SettledUpdate

LEMMA SettledCallbackReturns ==
  ASSUME Settled, NEW h \in Holder, CallbackReturns(h)
  PROVE  Settled'
<1>1. Safe' /\ Counted
  BY SafeCallbackReturns DEF Settled, Safe
<1>2. pc[h] = "run" /\ UNCHANGED <<obj, place, holder, events, hand, pool>>
  BY DEF CallbackReturns, objVars
<1>3. PICK e \in Event : cur[h] = e
  BY <1>1, <1>2, BusyEvent DEF Busy
<1>4. /\ \A d \in Event : OnwardHere(ev[d], ev'[d])
      /\ ev'[e].deleted \/ UNCHANGED list
  BY <1>1, <1>3, CallbackReturnsOnward
<1>5. UNCHANGED list \/ (list' = OneLess(list, e, h) /\ e \notin DeletesObject)
  BY <1>3 DEF CallbackReturns
<1>6. e \notin DeletesObject => list[e][h] > 0
  <2> SUFFICES ASSUME e \notin DeletesObject PROVE list[e][h] > 0
    OBVIOUS
  <2>1. Current(h, e) = 1 /\ todo[e][h] \in Nat
    BY <1>1, <1>2, <1>3, Records DEF Current
  <2>2. todo[e][h] + Current(h, e) > 0
    BY <2>1
  <2> QED BY <1>1, <2>2, EntryLive
<1>7. ASSUME NEW d \in events, obj = "in"
      PROVE  \/ ev'[d].deleted
             \/ list'[d][holder] + pool'[d][holder] = list[d][holder] + pool[d][holder]
  <2>1. holder \in Holder /\ d \in Event
    BY <1>7, AtHomeStays
  <2>2. CASE UNCHANGED list
    BY <1>2, <2>2
  <2>3. CASE ev'[e].deleted /\ list' = OneLess(list, e, h) /\ e \notin DeletesObject
    <3>1. d # e => list'[d][holder] = list[d][holder]
      BY <1>1, <1>6, <2>1, <2>3, LessElsewhere
    <3> QED BY <1>2, <2>3, <3>1
  <2> QED BY <1>4, <1>5, <2>2, <2>3
<1> QED BY <1>1, <1>2, <1>4, <1>7, SettledUpdate

LEMMA SettledInit == Init => Settled
BY SafeInit DEF Init, Settled, AtHome, Held

LEMMA SettledNext == QueuedAdds = FALSE /\ Settled /\ [Next]_vars => Settled'
<1> SUFFICES ASSUME QueuedAdds = FALSE, Settled, [Next]_vars PROVE Settled'
  OBVIOUS
<1>0. Safe /\ Safe'
  BY SafeNext DEF Settled
<1>1. CASE UNCHANGED vars
  BY <1>0, <1>1, SettledStill DEF vars
<1>2. ASSUME NEW t \in Holder, ObjectCall(t)
      PROVE  Settled'
  <2>1. CASE \E e \in Event, repeats \in 0..1 : AddEvent(t, e, repeats)
    BY <2>1, SettledAddEvent
  <2>2. CASE \E e \in events : RemoveEvents(t, {e})
    <3>1. PICK e \in events : RemoveEvents(t, {e})
      BY <2>2
    <3>2. {e} \in SUBSET events
      OBVIOUS
    <3> QED BY <3>1, <3>2, SettledRemove
  <2>3. CASE RemoveEvents(t, events)
    BY <2>3, SettledRemove
  <2>4. CASE \E e \in Event, time \in 1..MaxTime :
               ModifyTimeLeft(t, e, time) \/ ModifyTimeAndTimeLeft(t, e, time)
    BY <2>4, SettledModify
  <2>5. CASE \E m \in Map : AddToWorld(t, m)
    BY <2>5, SettledAddToWorld
  <2>6. CASE RemoveFromWorld(t)
    BY <2>6, SettledRemoveFromWorld
  <2>7. CASE Destroy(t)
    BY <2>7, SettledDestroy
  <2> QED BY <1>2, <2>1, <2>2, <2>3, <2>4, <2>5, <2>6, <2>7 DEF ObjectCall
<1>3. ASSUME NEW t \in Holder, AddToHolder(t)
      PROVE  Settled'
  BY <1>3, SettledAddToHolder
<1>4. ASSUME NEW t \in Holder, AddFaults(t)
      PROVE  Settled'
  BY <1>0, <1>4, SettledStill DEF AddFaults, objVars
<1>5. ASSUME NEW t \in Holder, Update(t)
      PROVE  Settled'
  <2>1. CASE UpdateEnd(t)
    BY <1>0, <2>1, SettledStill DEF UpdateEnd, objVars
  <2> QED BY <1>5, <2>1, SettledUpdateBegin, SettledVisit, SettledExecute, SettledCallbackReturns
      DEF Update
<1>6. ASSUME NEW m \in Map, PushToWorld(m)
      PROVE  Settled'
  BY <1>6, SettledPushToWorld
<1> QED BY <1>1, <1>2, <1>3, <1>4, <1>5, <1>6 DEF Next

\* While its object is in a map, an event has an entry where that map's thread
\* finds it, or is about to get one, if none is added while the object waits to
\* be pushed.
THEOREM NotLeftBehind == ASSUME QueuedAdds = FALSE PROVE Spec => []NoneLeftBehind
<1>1. Settled => NoneLeftBehind
  BY DEF Settled, AtHome, Held, NoneLeftBehind
<1>2. Settled /\ [Next]_vars => Settled'
  BY SettledNext
<1> QED BY <1>1, <1>2, SettledInit, PTL DEF Spec

=============================================================================

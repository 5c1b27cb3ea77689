-------------------------- MODULE MapSessionsProofs --------------------------
(***************************************************************************)
(* For any number of maps: one thread at a time updates a session that     *)
(* moves between them, no live session is lost, and a deleted one is       *)
(* reached only by threads that have still to notice that they gave it up. *)
(*                                                                         *)
(* The invariant speaks of where each thread is by the top of its stack    *)
(* (the procedure it executes) and its base (what it will return to last). *)
(***************************************************************************)
EXTENDS MapSessions, SequenceTheorems, TLAPS

-----------------------------------------------------------------------------
(* The stacks that occur. *)

\* Places of Update, to which LogoutPlayer returns; and of RemoveFromWorld.
Work == {"socket", "packets", "compare", "timer", "ping", "deleted"}
Back == {"ping", "deleted", "compare"}
Leave == {"remove", "release", "addGlobal"}

\* The world thread puts the player on maps ...
WorldStack ==
  {<<>>, <<"unlock">>, <<"unlock", "delete">>, <<"delete">>}
    \cup {<<l>> : l \in Work \cup {"added", "setInstance"}}
    \cup {<<l, b>> : l \in {"logout", "loggedOut"}, b \in Back}

\* ... and the threads of maps take it away, in Update or by an event.
MapStack ==
  {<<>>, <<"delete">>, <<"pushed">>, <<"logout">>, <<"loggedOut">>, <<"sendNewWorld">>,
   <<"sendNewWorld", "compare">>}
    \cup {<<l>> : l \in Work}
    \cup {<<l, b>> : l \in {"logout", "loggedOut"}, b \in Back}
    \cup {<<l, "sendNewWorld">> : l \in Leave} \cup {<<l, "loggedOut">> : l \in Leave}
    \cup {<<l, "sendNewWorld", "compare">> : l \in Leave}
    \cup {<<l, "loggedOut", b>> : l \in Leave, b \in Back}

Stack(t) == IF t = World THEN WorldStack ELSE MapStack

TopOf(s) == IF s = <<>> THEN "idle" ELSE Head(s)
BaseOf(s) == IF s = <<>> THEN "idle" ELSE s[Len(s)]
top == [t \in Thread |-> TopOf(pc[t])]
base == [t \in Thread |-> BaseOf(pc[t])]

\* What the top and the base of a stack say of each other.
Shape(t, l, b) ==
  /\ l = "idle" <=> b = "idle"
  /\ l \in Work \cup {"added", "setInstance", "pushed", "delete"} => b = l
  /\ b = "delete" => l \in {"unlock", "delete"}
  /\ b = "unlock" => l = "unlock"
  /\ l = "unlock" => b \in {"unlock", "delete"}
  /\ b \in {"socket", "packets", "timer", "added", "setInstance", "pushed"} => l = b
  /\ l \in Leave => b \in Back \cup {"sendNewWorld", "loggedOut"}
  /\ l = "sendNewWorld" => b \in {"compare", "sendNewWorld"}
  /\ l \in {"logout", "loggedOut"} => b \in Back \cup {l}
  /\ b \in {"sendNewWorld", "loggedOut"} => l \in Leave \cup {b}
  /\ b = "logout" => l = "logout"
  /\ b = "deleted" => l \in {"deleted", "logout", "loggedOut"} \cup Leave
  /\ IF t = World
       THEN /\ l \notin Leave \cup {"pushed", "sendNewWorld"}
            /\ l \in {"logout", "loggedOut"} => b \in Back
       ELSE l \notin {"added", "setInstance", "unlock"}

Control == /\ pc \in [Thread -> WorldStack \cup MapStack]
           /\ \A t \in Thread : pc[t] \in Stack(t) /\ Shape(t, top[t], base[t])

-----------------------------------------------------------------------------
(* Stacks as sequences. *)

\* A sequence that has the parts of two others is their concatenation.
LEMMA Joined ==
  ASSUME NEW S, NEW s \in Seq(S), NEW u \in Seq(S), NEW v \in Seq(S),
         Len(v) = Len(s) + Len(u),
         \A i \in 1 .. Len(s) : v[i] = s[i],
         \A i \in 1 .. Len(u) : v[Len(s) + i] = u[i]
  PROVE  s \o u = v
<1>1. /\ s \o u \in Seq(S) /\ Len(s \o u) = Len(v)
      /\ \A i \in 1 .. Len(s) + Len(u) :
           (s \o u)[i] = IF i <= Len(s) THEN s[i] ELSE u[i - Len(s)]
  BY ConcatProperties
<1>2. ASSUME NEW i \in 1 .. Len(v)
      PROVE  (s \o u)[i] = v[i]
  <2>1. CASE i <= Len(s)
    BY <1>1, <2>1
  <2>2. CASE ~ (i <= Len(s))
    <3>1. i - Len(s) \in 1 .. Len(u) /\ Len(s) + (i - Len(s)) = i
      BY <2>2
    <3> QED BY <1>1, <2>2, <3>1
  <2> QED BY <2>1, <2>2
<1> QED BY <1>1, <1>2, SeqEqual

\* Pushing labels on short stacks.
LEMMA Push ==
  ASSUME NEW x, NEW y, NEW z
  PROVE  /\ <<x>> \o <<>> = <<x>>
         /\ <<x>> \o <<y>> = <<x, y>>
         /\ <<x>> \o <<y, z>> = <<x, y, z>>
         /\ <<x, y>> \o <<>> = <<x, y>>
         /\ <<x, y>> \o <<z>> = <<x, y, z>>
<1> DEFINE S == {x, y, z}
<1>1. /\ <<>> \in Seq(S) /\ <<x>> \in Seq(S) /\ <<y>> \in Seq(S) /\ <<z>> \in Seq(S)
      /\ <<x, y>> \in Seq(S) /\ <<y, z>> \in Seq(S) /\ <<x, y, z>> \in Seq(S)
  OBVIOUS
<1> HIDE DEF S
<1>2. <<x>> \o <<>> = <<x>> /\ <<x, y>> \o <<>> = <<x, y>>
  BY <1>1, ConcatEmptySeq
<1>3. <<x>> \o <<y>> = <<x, y>>
  <2>1. Len(<<x, y>>) = Len(<<x>>) + Len(<<y>>) /\ Len(<<x>>) = 1 /\ Len(<<y>>) = 1
    OBVIOUS
  <2>2. \A i \in 1 .. Len(<<x>>) : <<x, y>>[i] = <<x>>[i]
    OBVIOUS
  <2>3. \A i \in 1 .. Len(<<y>>) : <<x, y>>[Len(<<x>>) + i] = <<y>>[i]
    OBVIOUS
  <2> QED BY <1>1, <2>1, <2>2, <2>3, Joined
<1>4. <<x>> \o <<y, z>> = <<x, y, z>>
  <2>1. Len(<<x, y, z>>) = Len(<<x>>) + Len(<<y, z>>) /\ Len(<<x>>) = 1 /\ Len(<<y, z>>) = 2
    OBVIOUS
  <2>2. \A i \in 1 .. Len(<<x>>) : <<x, y, z>>[i] = <<x>>[i]
    OBVIOUS
  <2>3. \A i \in 1 .. Len(<<y, z>>) : <<x, y, z>>[Len(<<x>>) + i] = <<y, z>>[i]
    OBVIOUS
  <2> QED BY <1>1, <2>1, <2>2, <2>3, Joined
<1>5. <<x, y>> \o <<z>> = <<x, y, z>>
  <2>1. Len(<<x, y, z>>) = Len(<<x, y>>) + Len(<<z>>) /\ Len(<<x, y>>) = 2 /\ Len(<<z>>) = 1
    OBVIOUS
  <2>2. \A i \in 1 .. Len(<<x, y>>) : <<x, y, z>>[i] = <<x, y>>[i]
    OBVIOUS
  <2>3. \A i \in 1 .. Len(<<z>>) : <<x, y, z>>[Len(<<x, y>>) + i] = <<z>>[i]
    OBVIOUS
  <2> QED BY <1>1, <2>1, <2>2, <2>3, Joined
<1> QED BY <1>2, <1>3, <1>4, <1>5

\* The top, the base and the rest of stacks of no, one, two and three labels.
LEMMA Ends0 == TopOf(<<>>) = "idle" /\ BaseOf(<<>>) = "idle"
BY DEF TopOf, BaseOf

LEMMA Ends1 ==
  ASSUME NEW x
  PROVE  TopOf(<<x>>) = x /\ BaseOf(<<x>>) = x /\ Tail(<<x>>) = <<>>
BY DEF TopOf, BaseOf

LEMMA Ends2 ==
  ASSUME NEW x, NEW y
  PROVE  TopOf(<<x, y>>) = x /\ BaseOf(<<x, y>>) = y /\ Tail(<<x, y>>) = <<y>>
BY DEF TopOf, BaseOf

LEMMA Ends3 ==
  ASSUME NEW x, NEW y, NEW z
  PROVE  TopOf(<<x, y, z>>) = x /\ BaseOf(<<x, y, z>>) = z /\ Tail(<<x, y, z>>) = <<y, z>>
BY DEF TopOf, BaseOf

\* Every stack has a shape.
LEMMA WorldShape ==
  ASSUME NEW s \in WorldStack
  PROVE  Shape(World, TopOf(s), BaseOf(s))
<1>1. ASSUME NEW l \in Work \cup {"unlock", "delete", "added", "setInstance"}, s = <<l>>
      PROVE  Shape(World, TopOf(s), BaseOf(s))
  <2>1. TopOf(s) = l /\ BaseOf(s) = l
    BY <1>1, Ends1
  <2> QED BY <2>1 DEF Shape, Work, Back, Leave
<1>2. ASSUME NEW l \in {"logout", "loggedOut"}, NEW b \in Back, s = <<l, b>>
      PROVE  Shape(World, TopOf(s), BaseOf(s))
  <2>1. TopOf(s) = l /\ BaseOf(s) = b
    BY <1>2, Ends2
  <2> QED BY <2>1 DEF Shape, Work, Back, Leave
<1>3. ASSUME s = <<"unlock", "delete">>
      PROVE  Shape(World, TopOf(s), BaseOf(s))
  <2>1. TopOf(s) = "unlock" /\ BaseOf(s) = "delete"
    BY <1>3, Ends2
  <2> QED BY <2>1 DEF Shape, Work, Back, Leave
<1>4. ASSUME s = <<>>
      PROVE  Shape(World, TopOf(s), BaseOf(s))
  <2>1. TopOf(s) = "idle" /\ BaseOf(s) = "idle"
    BY <1>4, Ends0
  <2> QED BY <2>1 DEF Shape, Work, Back, Leave
<1> QED BY <1>1, <1>2, <1>3, <1>4 DEF WorldStack

LEMMA MapShape ==
  ASSUME NEW t, t # World, NEW s \in MapStack
  PROVE  Shape(t, TopOf(s), BaseOf(s))
<1>1. ASSUME NEW l \in Work \cup {"delete", "pushed", "logout", "loggedOut", "sendNewWorld"},
             s = <<l>>
      PROVE  Shape(t, TopOf(s), BaseOf(s))
  <2>1. TopOf(s) = l /\ BaseOf(s) = l
    BY <1>1, Ends1
  <2> QED BY <2>1 DEF Shape, Work, Back, Leave
<1>2. ASSUME NEW l \in {"logout", "loggedOut"}, NEW b \in Back, s = <<l, b>>
      PROVE  Shape(t, TopOf(s), BaseOf(s))
  <2>1. TopOf(s) = l /\ BaseOf(s) = b
    BY <1>2, Ends2
  <2> QED BY <2>1 DEF Shape, Work, Back, Leave
<1>3. ASSUME NEW l \in Leave, NEW b \in {"sendNewWorld", "loggedOut"}, s = <<l, b>>
      PROVE  Shape(t, TopOf(s), BaseOf(s))
  <2>1. TopOf(s) = l /\ BaseOf(s) = b
    BY <1>3, Ends2
  <2> QED BY <2>1 DEF Shape, Work, Back, Leave
<1>4. ASSUME NEW l \in Leave, NEW k, NEW b \in Back, s = <<l, k, b>>
      PROVE  Shape(t, TopOf(s), BaseOf(s))
  <2>1. TopOf(s) = l /\ BaseOf(s) = b
    BY <1>4, Ends3
  <2> QED BY <2>1 DEF Shape, Work, Back, Leave
<1>5. ASSUME s = <<"sendNewWorld", "compare">>
      PROVE  Shape(t, TopOf(s), BaseOf(s))
  <2>1. TopOf(s) = "sendNewWorld" /\ BaseOf(s) = "compare"
    BY <1>5, Ends2
  <2> QED BY <2>1 DEF Shape, Work, Back, Leave
<1>6. ASSUME s = <<>>
      PROVE  Shape(t, TopOf(s), BaseOf(s))
  <2>1. TopOf(s) = "idle" /\ BaseOf(s) = "idle"
    BY <1>6, Ends0
  <2> QED BY <2>1 DEF Shape, Work, Back, Leave
<1>7. "compare" \in Back
  BY DEF Back
<1> QED BY <1>1, <1>2, <1>3, <1>4, <1>5, <1>6, <1>7 DEF MapStack

\* A thread goes to a place: the top and the base of its stack are l and b then.
Goes(t, l, b) ==
  /\ Control'
  /\ \A u \in Thread : /\ top'[u] = IF u = t THEN l ELSE top[u]
                       /\ base'[u] = IF u = t THEN b ELSE base[u]

LEMMA Moved ==
  ASSUME Control, NEW t \in Thread, NEW s \in Stack(t), pc' = [pc EXCEPT ![t] = s]
  PROVE  Goes(t, TopOf(s), BaseOf(s))
<1>1. s \in WorldStack \cup MapStack
  BY DEF Stack
<1>2. pc' \in [Thread -> WorldStack \cup MapStack]
  BY <1>1 DEF Control
<1>3. pc'[t] = s /\ \A u \in Thread \ {t} : pc'[u] = pc[u]
  BY DEF Control
<1>4. top' = [top EXCEPT ![t] = TopOf(s)] /\ base' = [base EXCEPT ![t] = BaseOf(s)]
  <2>1. \A u \in Thread : /\ TopOf(pc'[u]) = [top EXCEPT ![t] = TopOf(s)][u]
                          /\ BaseOf(pc'[u]) = [base EXCEPT ![t] = BaseOf(s)][u]
    BY <1>3 DEF top, base
  <2> QED BY <2>1 DEF top, base
<1>5. ASSUME NEW u \in Thread
      PROVE  pc'[u] \in Stack(u) /\ Shape(u, top'[u], base'[u])
  <2>1. CASE u = t
    <3>1. Shape(t, TopOf(s), BaseOf(s))
      BY WorldShape, MapShape DEF Stack
    <3> QED BY <1>3, <1>4, <2>1, <3>1 DEF top, base
  <2>2. CASE u # t
    <3>1. top'[u] = top[u] /\ base'[u] = base[u]
      BY <1>4, <2>2 DEF top, base
    <3> QED BY <1>3, <2>2, <3>1 DEF Control
  <2> QED BY <2>1, <2>2
<1>6. \A u \in Thread : /\ top'[u] = IF u = t THEN TopOf(s) ELSE top[u]
                        /\ base'[u] = IF u = t THEN BaseOf(s) ELSE base[u]
  BY <1>4 DEF top, base
<1> QED BY <1>2, <1>5, <1>6 DEF Goes, Control

\* Nobody moves.
LEMMA Stands ==
  ASSUME Control, pc' = pc
  PROVE  Control' /\ top' = top /\ base' = base
<1>1. top' = top /\ base' = base
  BY DEF top, base
<1> QED BY <1>1 DEF Control

\* The stack of a thread, label by label.
LEMMA Parts ==
  ASSUME Control, NEW t \in Thread
  PROVE  /\ top[t] = TopOf(pc[t]) /\ base[t] = BaseOf(pc[t])
         /\ pc[t] \in Stack(t) /\ pc[t] \in WorldStack \cup MapStack
         /\ pc[t] = <<>> => top[t] = "idle" /\ base[t] = "idle"
         /\ \A l : pc[t] = <<l>> => top[t] = l /\ base[t] = l /\ Tail(pc[t]) = <<>>
         /\ \A l, k : pc[t] = <<l, k>> =>
              top[t] = l /\ base[t] = k /\ Tail(pc[t]) = <<k>>
         /\ \A l, k, b : pc[t] = <<l, k, b>> =>
              top[t] = l /\ base[t] = b /\ Tail(pc[t]) = <<k, b>>
<1>1. /\ top[t] = TopOf(pc[t]) /\ base[t] = BaseOf(pc[t])
      /\ pc[t] \in Stack(t) /\ pc[t] \in WorldStack \cup MapStack
  BY DEF top, base, Control
<1>2. pc[t] = <<>> => top[t] = "idle" /\ base[t] = "idle"
  BY <1>1, Ends0
<1>3. ASSUME NEW l, pc[t] = <<l>>
      PROVE  top[t] = l /\ base[t] = l /\ Tail(pc[t]) = <<>>
  <2>1. TopOf(<<l>>) = l /\ BaseOf(<<l>>) = l /\ Tail(<<l>>) = <<>>
    BY Ends1
  <2> QED BY <1>1, <1>3, <2>1
<1>4. ASSUME NEW l, NEW k, pc[t] = <<l, k>>
      PROVE  top[t] = l /\ base[t] = k /\ Tail(pc[t]) = <<k>>
  <2>1. TopOf(<<l, k>>) = l /\ BaseOf(<<l, k>>) = k /\ Tail(<<l, k>>) = <<k>>
    BY Ends2
  <2> QED BY <1>1, <1>4, <2>1
<1>5. ASSUME NEW l, NEW k, NEW b, pc[t] = <<l, k, b>>
      PROVE  top[t] = l /\ base[t] = b /\ Tail(pc[t]) = <<k, b>>
  <2>1. TopOf(<<l, k, b>>) = l /\ BaseOf(<<l, k, b>>) = b /\ Tail(<<l, k, b>>) = <<k, b>>
    BY Ends3
  <2> QED BY <1>1, <1>5, <2>1
<1> QED BY <1>1, <1>2, <1>3, <1>4, <1>5

\* What the guards of the actions say of the top and the base.
LEMMA Where ==
  ASSUME Control, NEW t \in Thread
  PROVE  /\ pc[t] = <<>> <=> top[t] = "idle"
         /\ pc[t] = <<"delete">> <=> top[t] = "delete"
         /\ pc[t] \in {<<>>, <<"unlock">>} <=> base[t] \in {"idle", "unlock"}
         /\ \A l : At(t, l) => top[t] = l
         /\ Shape(t, top[t], base[t])
<1>1. Shape(t, top[t], base[t])
  BY DEF Control
<1>2. \A l : At(t, l) => top[t] = l
  BY Parts DEF At, TopOf
<1>3. pc[t] = <<>> <=> top[t] = "idle"
  BY Parts DEF WorldStack, MapStack, Work, Back, Leave
<1>4. pc[t] = <<"delete">> <=> top[t] = "delete"
  BY Parts DEF WorldStack, MapStack, Work, Back, Leave
<1>5. pc[t] \in {<<>>, <<"unlock">>} <=> base[t] \in {"idle", "unlock"}
  BY Parts DEF WorldStack, MapStack, Work, Back, Leave
<1> QED BY <1>1, <1>2, <1>3, <1>4, <1>5

\* What lies under the top of a stack.
LEMMA Flat ==
  ASSUME Control, NEW t \in Thread,
         top[t] \in Work \cup {"added", "setInstance", "pushed", "delete"}
  PROVE  Tail(pc[t]) = <<>>
BY Parts DEF WorldStack, MapStack, Work, Back, Leave

LEMMA UnderLogout ==
  ASSUME Control, NEW t \in Thread, top[t] \in {"logout", "loggedOut"}
  PROVE  \/ Tail(pc[t]) = <<>> /\ base[t] = top[t] /\ t # World
         \/ Tail(pc[t]) = <<base[t]>> /\ base[t] \in Back
<1>1. CASE t = World
  <2>1. pc[t] \in WorldStack
    BY <1>1, Parts DEF Stack
  <2> QED BY <2>1, Parts DEF WorldStack, Work, Back, Leave
<1>2. CASE t # World
  <2>1. pc[t] \in MapStack
    BY <1>2, Parts DEF Stack
  <2> QED BY <2>1, <1>2, Parts DEF MapStack, Work, Back, Leave
<1> QED BY <1>1, <1>2

LEMMA UnderLeave ==
  ASSUME Control, NEW m \in Map, top[m] \in Leave
  PROVE  \/ Tail(pc[m]) = <<"sendNewWorld">> /\ base[m] = "sendNewWorld"
         \/ Tail(pc[m]) = <<"loggedOut">> /\ base[m] = "loggedOut"
         \/ Tail(pc[m]) = <<"sendNewWorld", "compare">> /\ base[m] = "compare"
         \/ \E b \in Back : Tail(pc[m]) = <<"loggedOut", b>> /\ base[m] = b
<1>1. m \in Thread /\ m # World
  BY MapSessionsAssumption DEF Thread
<1>2. pc[m] \in MapStack
  BY <1>1, Parts DEF Stack
<1> QED BY <1>1, <1>2, Parts DEF MapStack, Work, Back, Leave

LEMMA UnderSend ==
  ASSUME Control, NEW m \in Map, top[m] = "sendNewWorld"
  PROVE  \/ Tail(pc[m]) = <<>> /\ base[m] = "sendNewWorld"
         \/ Tail(pc[m]) = <<"compare">> /\ base[m] = "compare"
<1>1. m \in Thread /\ m # World
  BY MapSessionsAssumption DEF Thread
<1>2. pc[m] \in MapStack
  BY <1>1, Parts DEF Stack
<1> QED BY <1>1, <1>2, Parts DEF MapStack, Work, Back, Leave

-----------------------------------------------------------------------------
(* Where a thread goes by each way of changing its stack. *)

\* To another place of Update, or to a procedure that Update returns from.
LEMMA GotoWork ==
  ASSUME Control, NEW t \in Thread, top[t] \in Work \cup {"added", "setInstance"},
         NEW l, l \in Work \/ (t = World /\ l \in {"added", "setInstance"}), Goto(t, l)
  PROVE  Goes(t, l, l)
<1>1. pc' = [pc EXCEPT ![t] = <<l>>]
  BY Flat, Push DEF Goto
<1>2. <<l>> \in Stack(t)
  BY DEF Stack, WorldStack, MapStack
<1> QED BY <1>1, <1>2, Moved, Ends1

LEMMA CallLogout ==
  ASSUME Control, NEW t \in Thread, top[t] \in Work, NEW b \in Back, Call(t, "logout", b)
  PROVE  Goes(t, "logout", b)
<1>1. pc' = [pc EXCEPT ![t] = <<"logout", b>>]
  BY Flat, Push DEF Call
<1>2. <<"logout", b>> \in Stack(t)
  BY DEF Stack, WorldStack, MapStack
<1>3. TopOf(<<"logout", b>>) = "logout" /\ BaseOf(<<"logout", b>>) = b
  BY Ends2
<1> QED BY <1>1, <1>2, <1>3, Moved

LEMMA GotoLeave ==
  ASSUME Control, NEW m \in Map, top[m] \in Leave, NEW l \in Leave, Goto(m, l)
  PROVE  Goes(m, l, base[m])
<1>1. m \in Thread /\ Stack(m) = MapStack
  BY MapSessionsAssumption DEF Thread, Stack
<1>2. pc' = [pc EXCEPT ![m] = <<l>> \o Tail(pc[m])]
  BY DEF Goto
<1>3. ASSUME NEW k \in {"sendNewWorld", "loggedOut"}, Tail(pc[m]) = <<k>>, base[m] = k
      PROVE  Goes(m, l, base[m])
  <2>1. <<l>> \o <<k>> = <<l, k>> /\ TopOf(<<l, k>>) = l /\ BaseOf(<<l, k>>) = k
    BY Push, Ends2
  <2>2. <<l, k>> \in MapStack
    BY DEF MapStack
  <2> QED BY <1>1, <1>2, <1>3, <2>1, <2>2, Moved
<1>4. ASSUME NEW k, NEW b, <<k, b>> = <<"sendNewWorld", "compare">> \/ (k = "loggedOut" /\ b \in Back),
             Tail(pc[m]) = <<k, b>>, base[m] = b
      PROVE  Goes(m, l, base[m])
  <2>1. <<l>> \o <<k, b>> = <<l, k, b>>
    BY Push
  <2>2. TopOf(<<l, k, b>>) = l /\ BaseOf(<<l, k, b>>) = b
    BY Ends3, Zenon
  <2>3. <<l, k, b>> \in MapStack
    BY <1>4 DEF MapStack
  <2> QED BY <1>1, <1>2, <1>4, <2>1, <2>2, <2>3, Moved
<1> QED BY <1>3, <1>4, UnderLeave

LEMMA GotoLoggedOut ==
  ASSUME Control, top[World] = "logout", Goto(World, "loggedOut")
  PROVE  Goes(World, "loggedOut", base[World])
<1>1. World \in Thread /\ Stack(World) = WorldStack
  BY DEF Thread, Stack
<1>2. Tail(pc[World]) = <<base[World]>> /\ base[World] \in Back
  BY <1>1, UnderLogout
<1>3. pc' = [pc EXCEPT ![World] = <<"loggedOut">> \o <<base[World]>>]
  BY <1>2 DEF Goto
<1>4. <<"loggedOut">> \o <<base[World]>> = <<"loggedOut", base[World]>>
  BY Push
<1>5. <<"loggedOut", base[World]>> \in WorldStack
  BY <1>2 DEF WorldStack
<1>6. /\ TopOf(<<"loggedOut", base[World]>>) = "loggedOut"
      /\ BaseOf(<<"loggedOut", base[World]>>) = base[World]
  BY Ends2
<1> QED BY <1>1, <1>3, <1>4, <1>5, <1>6, Moved

LEMMA CallRemove ==
  ASSUME Control, NEW m \in Map, top[m] = "logout", Call(m, "remove", "loggedOut")
  PROVE  Goes(m, "remove", IF base[m] = "logout" THEN "loggedOut" ELSE base[m])
<1>1. m \in Thread /\ Stack(m) = MapStack /\ "remove" \in Leave
  BY MapSessionsAssumption DEF Thread, Stack, Leave
<1>2. pc' = [pc EXCEPT ![m] = <<"remove", "loggedOut">> \o Tail(pc[m])]
  BY DEF Call
<1>3. CASE Tail(pc[m]) = <<>> /\ base[m] = "logout"
  <2>1. <<"remove", "loggedOut">> \o <<>> = <<"remove", "loggedOut">>
    BY Push
  <2>2. <<"remove", "loggedOut">> \in MapStack
    BY <1>1 DEF MapStack
  <2>3. TopOf(<<"remove", "loggedOut">>) = "remove" /\ BaseOf(<<"remove", "loggedOut">>) = "loggedOut"
    BY Ends2
  <2> QED BY <1>1, <1>2, <1>3, <2>1, <2>2, <2>3, Moved
<1>4. CASE Tail(pc[m]) = <<base[m]>> /\ base[m] \in Back
  <2> DEFINE b == base[m]
  <2>1. <<"remove", "loggedOut">> \o <<b>> = <<"remove", "loggedOut", b>>
    BY Push
  <2>2. <<"remove", "loggedOut", b>> \in MapStack
    BY <1>1, <1>4 DEF MapStack
  <2>3. TopOf(<<"remove", "loggedOut", b>>) = "remove" /\ BaseOf(<<"remove", "loggedOut", b>>) = b
    <3>1. ASSUME NEW x, NEW y
          PROVE  TopOf(<<x, y, b>>) = x /\ BaseOf(<<x, y, b>>) = b
      BY Ends3, Zenon
    <3> QED BY <3>1
  <2>4. b # "logout"
    BY <1>4 DEF Back
  <2> QED BY <1>1, <1>2, <1>4, <2>1, <2>2, <2>3, <2>4, Moved
<1> QED BY <1>1, <1>3, <1>4, UnderLogout

\* Out of RemoveFromWorld.
LEMMA ReturnLeave ==
  ASSUME Control, NEW m \in Map, top[m] \in Leave, Return(m)
  PROVE  \E l \in {"sendNewWorld", "loggedOut"} : Goes(m, l, base[m])
<1>1. m \in Thread /\ Stack(m) = MapStack
  BY MapSessionsAssumption DEF Thread, Stack
<1>2. pc' = [pc EXCEPT ![m] = Tail(pc[m])]
  BY DEF Return
<1>3. ASSUME NEW k \in {"sendNewWorld", "loggedOut"}, Tail(pc[m]) = <<k>>, base[m] = k
      PROVE  Goes(m, k, base[m])
  <2>1. TopOf(<<k>>) = k /\ BaseOf(<<k>>) = k /\ <<k>> \in MapStack
    BY Ends1 DEF MapStack
  <2> QED BY <1>1, <1>2, <1>3, <2>1, Moved
<1>4. ASSUME NEW k, NEW b, <<k, b>> = <<"sendNewWorld", "compare">> \/ (k = "loggedOut" /\ b \in Back),
             Tail(pc[m]) = <<k, b>>, base[m] = b
      PROVE  Goes(m, k, base[m])
  <2>1. TopOf(<<k, b>>) = k /\ BaseOf(<<k, b>>) = b
    BY Ends2
  <2>2. <<k, b>> \in MapStack
    BY <1>4 DEF MapStack
  <2> QED BY <1>1, <1>2, <1>4, <2>1, <2>2, Moved
<1> QED BY <1>3, <1>4, UnderLeave

\* Out of LogoutPlayer: to Update, or to the map's loop if an event called it.
LEMMA ReturnLogout ==
  ASSUME Control, NEW t \in Thread, top[t] \in {"logout", "loggedOut"}, Return(t)
  PROVE  \/ base[t] \in Back /\ Goes(t, base[t], base[t])
         \/ t # World /\ base[t] = top[t] /\ Goes(t, "idle", "idle")
<1>1. pc' = [pc EXCEPT ![t] = Tail(pc[t])]
  BY DEF Return
<1>2. CASE Tail(pc[t]) = <<>> /\ base[t] = top[t] /\ t # World
  <2>1. <<>> \in Stack(t)
    BY DEF Stack, MapStack, WorldStack
  <2> QED BY <1>1, <1>2, <2>1, Moved, Ends0
<1>3. CASE Tail(pc[t]) = <<base[t]>> /\ base[t] \in Back
  <2>1. <<base[t]>> \in Stack(t)
    BY <1>3 DEF Stack, MapStack, WorldStack, Back, Work
  <2>2. TopOf(<<base[t]>>) = base[t] /\ BaseOf(<<base[t]>>) = base[t]
    BY Ends1
  <2> QED BY <1>1, <1>3, <2>1, <2>2, Moved
<1> QED BY <1>2, <1>3, UnderLogout

LEMMA ReturnSend ==
  ASSUME Control, NEW m \in Map, top[m] = "sendNewWorld", Return(m)
  PROVE  \/ base[m] = "compare" /\ Goes(m, "compare", "compare")
         \/ base[m] = "sendNewWorld" /\ Goes(m, "idle", "idle")
<1>1. m \in Thread /\ <<>> \in Stack(m) /\ <<"compare">> \in Stack(m)
  BY DEF Thread, Stack, MapStack, WorldStack, Work
<1>2. pc' = [pc EXCEPT ![m] = Tail(pc[m])]
  BY DEF Return
<1>3. CASE Tail(pc[m]) = <<>> /\ base[m] = "sendNewWorld"
  BY <1>1, <1>2, <1>3, Moved, Ends0
<1>4. CASE Tail(pc[m]) = <<"compare">> /\ base[m] = "compare"
  <2>1. TopOf(<<"compare">>) = "compare" /\ BaseOf(<<"compare">>) = "compare"
    BY Ends1
  <2> QED BY <1>1, <1>2, <1>4, <2>1, Moved
<1> QED BY <1>3, <1>4, UnderSend

LEMMA ReturnIdle ==
  ASSUME Control, NEW t \in Thread, top[t] \in {"delete", "pushed"}, Return(t)
  PROVE  Goes(t, "idle", "idle")
<1>1. <<>> \in Stack(t)
  BY DEF Stack, MapStack, WorldStack
<1>2. pc' = [pc EXCEPT ![t] = <<>>]
  BY Flat DEF Return
<1> QED BY <1>1, <1>2, Moved, Ends0

LEMMA ReturnUnlock ==
  ASSUME Control, top[World] = "unlock", Return(World)
  PROVE  \/ base[World] = "unlock" /\ Goes(World, "idle", "idle")
         \/ base[World] = "delete" /\ Goes(World, "delete", "delete")
<1>1. World \in Thread /\ pc[World] \in WorldStack
  BY Parts DEF Thread, Stack
<1>2. pc[World] \in {<<"unlock">>, <<"unlock", "delete">>}
  BY <1>1, Parts DEF WorldStack, Work, Back
<1>3. CASE pc[World] = <<"unlock">>
  <2>1. base[World] = "unlock" /\ Tail(pc[World]) = <<>>
    BY <1>1, <1>3, Parts
  <2>2. pc' = [pc EXCEPT ![World] = <<>>]
    BY <2>1 DEF Return
  <2>3. <<>> \in Stack(World)
    BY DEF Stack, WorldStack
  <2> QED BY <1>1, <2>1, <2>2, <2>3, Moved, Ends0
<1>4. CASE pc[World] = <<"unlock", "delete">>
  <2>1. base[World] = "delete" /\ Tail(pc[World]) = <<"delete">>
    BY <1>1, <1>4, Parts
  <2>2. pc' = [pc EXCEPT ![World] = <<"delete">>]
    BY <2>1 DEF Return
  <2>3. <<"delete">> \in Stack(World)
    BY DEF Stack, WorldStack
  <2>4. TopOf(<<"delete">>) = "delete" /\ BaseOf(<<"delete">>) = "delete"
    BY Ends1
  <2> QED BY <1>1, <2>1, <2>2, <2>3, <2>4, Moved
<1> QED BY <1>2, <1>3, <1>4

\* Update returns.
LEMMA Finished ==
  ASSUME Control, NEW t \in Thread, NEW result, Finish(t, result)
  PROVE  /\ t \in Map => IF result = "deleted" THEN Goes(t, "delete", "delete")
                         ELSE Goes(t, "idle", "idle")
         /\ t = World => Goes(t, "unlock", IF result = "deleted" THEN "delete" ELSE "unlock")
         /\ Sessions' = IF result = "ok" THEN Sessions ELSE Sessions \ {t}
<1> DEFINE s == (IF t = World THEN <<"unlock">> ELSE <<>>) \o
                (IF result = "deleted" THEN <<"delete">> ELSE <<>>)
<1>1. pc' = [pc EXCEPT ![t] = s]
  BY DEF Finish
<1>2. Sessions' = IF result = "ok" THEN Sessions ELSE Sessions \ {t}
  BY DEF Finish
<1>3. ASSUME t \in Map
      PROVE  IF result = "deleted" THEN Goes(t, "delete", "delete") ELSE Goes(t, "idle", "idle")
  <2>1. t # World /\ Stack(t) = MapStack
    BY <1>3, MapSessionsAssumption DEF Stack
  <2>2. CASE result = "deleted"
    <3>1. <<>> \o <<"delete">> = <<"delete">> /\ <<"delete">> \in Seq({"delete"})
      BY ConcatEmptySeq
    <3>2. s = <<"delete">>
      BY <2>1, <2>2, <3>1
    <3>3. TopOf(<<"delete">>) = "delete" /\ BaseOf(<<"delete">>) = "delete"
      BY Ends1
    <3>4. <<"delete">> \in MapStack
      BY DEF MapStack
    <3> HIDE DEF s
    <3> QED BY <1>1, <2>1, <2>2, <3>2, <3>3, <3>4, Moved
  <2>3. CASE result # "deleted"
    <3>1. <<>> \o <<>> = <<>>
      BY ConcatEmptySeq
    <3>2. s = <<>>
      BY <2>1, <2>3, <3>1
    <3>3. <<>> \in MapStack
      BY DEF MapStack
    <3> HIDE DEF s
    <3> QED BY <1>1, <2>1, <2>3, <3>2, <3>3, Ends0, Moved
  <2> QED BY <2>2, <2>3
<1>4. ASSUME t = World
      PROVE  Goes(t, "unlock", IF result = "deleted" THEN "delete" ELSE "unlock")
  <2>1. Stack(t) = WorldStack
    BY <1>4 DEF Stack
  <2>2. CASE result = "deleted"
    <3>1. <<"unlock">> \o <<"delete">> = <<"unlock", "delete">>
      BY Push
    <3>2. s = <<"unlock", "delete">>
      BY <1>4, <2>2, <3>1
    <3>3. TopOf(<<"unlock", "delete">>) = "unlock" /\ BaseOf(<<"unlock", "delete">>) = "delete"
      BY Ends2
    <3>4. <<"unlock", "delete">> \in WorldStack
      BY DEF WorldStack
    <3> HIDE DEF s
    <3> QED BY <1>1, <2>1, <2>2, <3>2, <3>3, <3>4, Moved
  <2>3. CASE result # "deleted"
    <3>1. <<"unlock">> \o <<>> = <<"unlock">>
      BY Push
    <3>2. s = <<"unlock">>
      BY <1>4, <2>3, <3>1
    <3>3. TopOf(<<"unlock">>) = "unlock" /\ BaseOf(<<"unlock">>) = "unlock"
      BY Ends1
    <3>4. <<"unlock">> \in WorldStack
      BY DEF WorldStack
    <3> HIDE DEF s
    <3> QED BY <1>1, <2>1, <2>3, <3>2, <3>3, <3>4, Moved
  <2> QED BY <2>2, <2>3
<1> QED BY <1>2, <1>3, <1>4

-----------------------------------------------------------------------------
(* The invariant. *)

Flags ==
  /\ socket \in BOOLEAN /\ loggingOut \in BOOLEAN /\ bDeleted \in BOOLEAN
  /\ freed \in BOOLEAN /\ player \in BOOLEAN /\ pushed \in BOOLEAN /\ newWorld \in BOOLEAN
  /\ packets \in 0 .. MaxPackets
  /\ logoutTime \in {"unset", "set", "due"}
  /\ overtaken \in {"no", "moved", "deleted"}

Places ==
  /\ instanceId \in Thread /\ Sessions \subseteq Thread /\ handed \subseteq Thread
  /\ mapMgr \in Map \cup {None} /\ pool \subseteq Map
  /\ local \in [Thread -> Map \cup {None}]

Mutex == /\ SessionsMutex \in {None, World}
         /\ SessionsMutex = World <=> top[World] \notin {"idle", "delete"}

\* A thread that can still reach the session.
Engaged(t) == base[t] \notin {"idle", "unlock"} \/ t \in Sessions

\* It is the one that instanceId names, or has handed the session over.
OneContext == \A t \in Thread : Engaged(t) => instanceId = t \/ t \in handed

\* Where a thread can be between handing over and comparing: nowhere near a
\* packet or a timer.
HandedOver ==
  /\ World \in handed /\ ~freed =>
       top[World] \in {"added", "setInstance", "compare"} \/ base[World] = "delete"
  /\ top[World] \in {"added", "setInstance"} => World \in handed
  /\ \A m \in Map : top[m] \in {"socket", "packets", "timer"} => m \notin handed
  /\ \A m \in Map : top[m] \in {"addGlobal", "sendNewWorld", "loggedOut"} => m \in handed

\* After the deletion only those that handed it over are left.
LeftAlone == freed => \A t \in Thread : Engaged(t) => t \in handed

\* The instance id and the player's map agree, but for the steps between.
Context ==
  /\ instanceId = World /\ top[World] \notin {"added", "setInstance"} => mapMgr = None
  /\ top[World] = "setInstance" =>
       /\ local[World] # None /\ instanceId \in {World, local[World]}
       /\ mapMgr \in {local[World], None}
  /\ \A m \in Map : instanceId = m => mapMgr = m \/ top[m] = "release"

\* What a map's thread finds where it is about to take the player away, and
\* where it has done that.
AtHome ==
  \A m \in Map : top[m] \in {"pushed", "logout", "remove"} => mapMgr = m /\ instanceId = m
Leaving == \A m \in Map : top[m] = "release" => mapMgr = None /\ instanceId = m
Away ==
  \A m \in Map : top[m] \in {"addGlobal", "sendNewWorld", "loggedOut"} =>
    mapMgr = None /\ instanceId = World

\* The player is where the pools say.
Placed == (mapMgr # None => player) /\ pool \subseteq {mapMgr}

\* A map that has the player, and not in its pool, has taken the session too.
Taken == \A m \in Map :
  /\ top[m] \notin {"idle", "delete"} => m \in Sessions
  /\ mapMgr = m /\ m \notin pool /\ ~bDeleted => m \in Sessions /\ instanceId = m

\* Somebody has the session, or is about to give it to the world thread.
Found ==
  ~bDeleted => \/ instanceId \in Sessions \cup pool
               \/ instanceId = World /\ \E m \in Map : top[m] = "addGlobal"

\* Update of t will give the result that makes its loop delete the session.
Dooms(t) == base[t] \in {"deleted", "delete"}

\* Then the others have handed the session over, and nobody puts the player on
\* another map.
Doomed ==
  /\ bDeleted /\ ~freed => \E t \in Thread : Dooms(t)
  /\ \A m \in Map : top[m] = "addGlobal" => ~bDeleted
  /\ \A t \in Thread : Dooms(t) =>
       /\ bDeleted /\ mapMgr \in {t, None}
       /\ base[t] = "delete" => t \notin Sessions
       /\ \A u \in Thread \ {t} : Engaged(u) => u \in handed

CalmInv == Context /\ AtHome /\ Leaving /\ Away /\ Placed /\ Taken /\ Found /\ Doomed

Calm == overtaken = "no"

Inv ==
  /\ Control /\ Flags /\ Places /\ Mutex
  /\ OneContext /\ HandedOver /\ LeftAlone /\ NeverLost
  /\ Calm => CalmInv

\* What the rest of the invariant depends on, besides the stacks.
core == <<instanceId, Sessions, handed, bDeleted, freed, overtaken, player, mapMgr, pool, local>>

-----------------------------------------------------------------------------
\* The names of the threads.
LEMMA Names == /\ \A m \in Map : m \in Thread /\ m # World /\ m # None
               /\ World \in Thread /\ World \notin Map /\ None \notin Thread
               /\ \A t \in Thread : t = World \/ t \in Map
BY MapSessionsAssumption DEF Thread

\* A step that changes neither the core nor the stacks.
LEMMA Still ==
  ASSUME Inv, Flags', pc' = pc, SessionsMutex' = SessionsMutex, UNCHANGED core
  PROVE  Inv'
<1>1. Control' /\ top' = top /\ base' = base
  BY Stands DEF Inv
<1>2. Places' /\ Mutex'
  BY <1>1 DEF Inv, Places, Mutex, core
<1>3. OneContext' /\ HandedOver' /\ LeftAlone' /\ NeverLost'
  BY <1>1 DEF Inv, OneContext, HandedOver, LeftAlone, NeverLost, Engaged, core
<1>4. (Calm => CalmInv)'
  BY <1>1 DEF Inv, Calm, CalmInv, Context, AtHome, Leaving, Away, Placed, Taken, Found, Doomed,
              Dooms, Engaged, core
<1> QED BY <1>1, <1>2, <1>3, <1>4 DEF Inv

\* A thread goes on in Update, or leaves it, and that is all.
LEMMA Quiet ==
  ASSUME Inv, Calm, Flags', Mutex', NEW t \in Thread, NEW l, NEW b, Goes(t, l, b), UNCHANGED core,
         l \in Work \cup {"idle", "unlock", "delete"}
           \/ (t = World /\ l \in {"logout", "loggedOut"}),
         top[t] \notin {"added", "setInstance", "release", "addGlobal"},
         t \in handed => /\ l \notin {"socket", "packets", "timer"}
                         /\ t = World => freed \/ l = "compare" \/ b = "delete",
         b \notin {"idle", "unlock"} => base[t] \notin {"idle", "unlock"},
         Dooms(t) <=> b \in {"deleted", "delete"},
         b = "delete" => base[t] = "delete",
         t \in Map /\ l \notin {"idle", "delete"} => top[t] \notin {"idle", "delete"}
  PROVE  Inv'
<1> USE Names
<1>1. /\ Control'
      /\ \A u \in Thread : /\ top'[u] = IF u = t THEN l ELSE top[u]
                           /\ base'[u] = IF u = t THEN b ELSE base[u]
  BY DEF Goes
<1>2. Places' /\ NeverLost'
  BY DEF Inv, Places, NeverLost, core
<1>3. \A u \in Thread : Engaged(u)' => Engaged(u)
  BY <1>1 DEF Engaged, core
<1>4. OneContext' /\ LeftAlone'
  BY <1>3 DEF Inv, OneContext, LeftAlone, core
<1>5. HandedOver'
  BY <1>1 DEF Inv, HandedOver, core, Work
<1>6. CalmInv
  BY DEF Inv
<1>7. Context' /\ AtHome' /\ Leaving' /\ Away' /\ Placed'
  <2>1. Context'
    BY <1>1, <1>6 DEF CalmInv, Context, core, Work
  <2>2. AtHome' /\ Leaving' /\ Away'
    BY <1>1, <1>6 DEF CalmInv, AtHome, Leaving, Away, core, Work
  <2>3. Placed'
    BY <1>6 DEF CalmInv, Placed, core
  <2> QED BY <2>1, <2>2, <2>3
<1>8. Taken'
  BY <1>1, <1>6 DEF CalmInv, Taken, core
<1>9. Found'
  BY <1>1, <1>6 DEF CalmInv, Found, core
<1>10. Doomed'
  <2>1. \A u \in Thread : Dooms(u)' <=> Dooms(u)
    BY <1>1 DEF Dooms
  <2>2. \A u \in Thread : base'[u] = "delete" => base[u] = "delete"
    BY <1>1
  <2>3. \A m \in Map : top'[m] = "addGlobal" => top[m] = "addGlobal"
    BY <1>1 DEF Work
  <2> QED BY <1>3, <1>6, <2>1, <2>2, <2>3 DEF CalmInv, Doomed, core
<1> QED BY <1>1, <1>2, <1>4, <1>5, <1>7, <1>8, <1>9, <1>10 DEF Inv, CalmInv

\* What the invariant says of a thread that is about to read packets or timers.
LEMMA AtWork ==
  ASSUME Inv, Running, NEW t \in Thread, top[t] \in {"socket", "packets", "timer"}
  PROVE  /\ t \notin handed /\ instanceId = t
         /\ t = World => mapMgr = None
         /\ t \in Map => mapMgr = t /\ player
         /\ base[t] = top[t] /\ ~Dooms(t)
<1> USE Names
<1>1. base[t] = top[t] /\ ~Dooms(t)
  BY DEF Inv, Control, Shape, Dooms, Work
<1>2. t \notin handed
  BY <1>1 DEF Inv, HandedOver, Running
<1>3. instanceId = t
  BY <1>1, <1>2 DEF Inv, OneContext, Engaged
<1> QED BY <1>1, <1>2, <1>3 DEF Inv, Running, Calm, CalmInv, Context, Placed

\* The world thread keeps SessionsMutex while it is in Update.
LEMMA MutexKept ==
  ASSUME Inv, NEW t \in Thread, NEW l, NEW b, Goes(t, l, b), SessionsMutex' = SessionsMutex,
         t = World => {l, top[t]} \cap {"idle", "delete"} = {}
  PROVE  Mutex'
BY Names DEF Inv, Mutex, Goes

\* Update goes on to another place.
LEMMA QuietGoto ==
  ASSUME Inv, Running, NEW t \in Thread, top[t] \in {"socket", "packets", "timer"},
         NEW l \in {"packets", "compare", "timer", "ping"}, Goto(t, l),
         Flags', UNCHANGED core, SessionsMutex' = SessionsMutex
  PROVE  Inv'
<1>1. Goes(t, l, l)
  BY GotoWork DEF Work, Inv
<1>2. Mutex'
  BY <1>1, MutexKept
<1> QED BY <1>1, <1>2, AtWork, Quiet, Names DEF Work, Running, Calm

\* Update leaves the session in the set.
LEMMA QuietFinish ==
  ASSUME Inv, Running, NEW t \in Thread, top[t] \in {"socket", "timer", "ping"},
         Finish(t, "ok"), Flags', SessionsMutex' = SessionsMutex,
         UNCHANGED <<instanceId, handed, bDeleted, freed, overtaken, player, mapMgr, pool, local>>
  PROVE  Inv'
<1> DEFINE l == IF t = World THEN "unlock" ELSE "idle"
<1>1. Goes(t, l, l) /\ UNCHANGED core
  BY Finished, Names DEF Inv, core
<1>2. Mutex'
  BY <1>1, MutexKept
<1>3. base[t] = top[t]
  BY DEF Inv, Control, Shape, Work
<1>4. t = World => World \notin handed
  BY <1>3 DEF Inv, HandedOver, Running
<1> QED BY <1>1, <1>2, <1>3, <1>4, Quiet, Names DEF Dooms, Running, Calm, Work

LEMMA StepTestSocket ==
  ASSUME Inv, Running, NEW t \in Thread, TestSocket(t)
  PROVE  Inv'
<1>1. top[t] = "socket"
  BY Where DEF Inv, TestSocket
<1>2. /\ SessionsMutex' = SessionsMutex /\ Flags'
      /\ UNCHANGED <<instanceId, handed, bDeleted, freed, overtaken, player, mapMgr, pool, local>>
  BY DEF TestSocket, ending, character, Inv, Flags
<1>3. CASE Finish(t, "ok")
  BY <1>1, <1>2, <1>3, QuietFinish
<1>4. CASE Goto(t, "packets") /\ Sessions' = Sessions
  BY <1>1, <1>2, <1>4, QuietGoto DEF core
<1> QED BY <1>3, <1>4 DEF TestSocket

LEMMA StepNoMorePackets ==
  ASSUME Inv, Running, NEW t \in Thread, NoMorePackets(t)
  PROVE  Inv'
<1>1. top[t] = "packets"
  BY Where DEF Inv, NoMorePackets
<1>2. SessionsMutex' = SessionsMutex /\ UNCHANGED core /\ Flags'
  BY DEF NoMorePackets, session, timers, ending, character, core, Inv, Flags
<1> QED BY <1>1, <1>2, QuietGoto DEF NoMorePackets

\* A packet whose handler does not move the player.
LEMMA StepQuietPacket ==
  ASSUME Inv, Running, NEW t \in Thread,
         LogoutRequest(t) \/ LogoutCancel(t) \/ OtherPacket(t)
  PROVE  Inv'
<1>1. top[t] = "packets"
  BY Where DEF Inv, LogoutRequest, LogoutCancel, OtherPacket, Pop
<1>2. packets' \in 0 .. MaxPackets
  BY MapSessionsAssumption DEF LogoutRequest, LogoutCancel, OtherPacket, Pop, Inv, Flags
<1>3. SessionsMutex' = SessionsMutex /\ UNCHANGED core /\ Flags' /\ Goto(t, "compare")
  BY <1>2 DEF LogoutRequest, LogoutCancel, OtherPacket, session, ending, character, core,
              Inv, Flags
<1> QED BY <1>1, <1>3, QuietGoto

LEMMA StepPing ==
  ASSUME Inv, Running, NEW t \in Thread, PingInTime(t) \/ PingTimeout(t)
  PROVE  Inv'
<1>1. top[t] = "ping" /\ Finish(t, "ok")
  BY Where DEF Inv, PingInTime, PingTimeout
<1>2. /\ SessionsMutex' = SessionsMutex /\ Flags'
      /\ UNCHANGED <<instanceId, handed, bDeleted, freed, overtaken, player, mapMgr, pool, local>>
  BY DEF PingInTime, PingTimeout, timers, ending, character, Inv, Flags
<1> QED BY <1>1, <1>2, QuietFinish

LEMMA StepSendNewWorld ==
  ASSUME Inv, Running, NEW t \in Thread, SendNewWorld(t)
  PROVE  Inv'
<1>1. top[t] = "sendNewWorld" /\ t \in Map
  BY Where, Names DEF Inv, SendNewWorld, Control, Shape
<1>2. SessionsMutex' = SessionsMutex /\ UNCHANGED core /\ Flags' /\ Return(t)
  BY DEF SendNewWorld, session, timers, ending, core, Inv, Flags
<1>3. PICK l \in {"compare", "idle"} : Goes(t, l, l) /\ (l = "compare" => base[t] = "compare")
  BY <1>1, <1>2, ReturnSend DEF Inv
<1>4. base[t] \in {"compare", "sendNewWorld"}
  BY <1>1 DEF Inv, Control, Shape
<1>5. Mutex'
  BY <1>1, <1>2, <1>3, MutexKept, Names
<1> QED BY <1>1, <1>2, <1>3, <1>4, <1>5, Quiet, Names DEF Dooms, Running, Calm, Work

LEMMA StepUnlock ==
  ASSUME Inv, Running, Unlock
  PROVE  Inv'
<1>1. top[World] = "unlock"
  BY Where, Names DEF Inv, Unlock
<1>2. SessionsMutex' = None /\ UNCHANGED core /\ Flags' /\ Return(World)
  BY DEF Unlock, timers, ending, character, core, Inv, Flags
<1>3. PICK l \in {"idle", "delete"} :
        Goes(World, l, l) /\ base[World] = IF l = "idle" THEN "unlock" ELSE "delete"
  BY <1>1, <1>2, ReturnUnlock DEF Inv
<1>4. Mutex'
  BY <1>2, <1>3, Names DEF Mutex, Goes
<1>5. World \in handed => l = "delete"
  BY <1>1, <1>3 DEF Inv, HandedOver, Running
<1> QED BY <1>1, <1>2, <1>3, <1>4, <1>5, Quiet, Names DEF Dooms, Running, Calm, Work

\* The map whose player it is begins to move it: by a packet or an event.
LEMMA BeginMove ==
  ASSUME Inv, Running, NEW m \in Map, mapMgr = m, instanceId = m, m \in Sessions,
         NEW l \in {"logout", "remove"}, NEW b, Goes(m, l, b),
         top[m] \in {"idle", "packets", "timer", "logout"},
         b \notin {"idle", "unlock", "delete"},
         b = "deleted" => base[m] = "deleted", base[m] = "deleted" => b = "deleted",
         Flags', UNCHANGED core, SessionsMutex' = SessionsMutex
  PROVE  Inv'
<1> USE Names
<1>1. /\ Control'
      /\ \A u \in Thread : /\ top'[u] = IF u = m THEN l ELSE top[u]
                           /\ base'[u] = IF u = m THEN b ELSE base[u]
  BY DEF Goes
<1>2. Places' /\ NeverLost' /\ Mutex'
  BY MutexKept DEF Inv, Places, NeverLost, core
<1>3. \A u \in Thread : Engaged(u)' => Engaged(u)
  BY <1>1 DEF Engaged, core
<1>4. OneContext' /\ LeftAlone'
  BY <1>3 DEF Inv, OneContext, LeftAlone, core
<1>5. HandedOver'
  BY <1>1 DEF Inv, HandedOver, core
<1>6. CalmInv /\ ~freed
  BY DEF Inv, Running, Calm
<1>7. Context' /\ AtHome' /\ Leaving' /\ Away' /\ Placed'
  <2>1. Context'
    BY <1>1, <1>6 DEF CalmInv, Context, core
  <2>2. AtHome' /\ Leaving' /\ Away'
    BY <1>1, <1>6 DEF CalmInv, AtHome, Leaving, Away, core
  <2>3. Placed'
    BY <1>6 DEF CalmInv, Placed, core
  <2> QED BY <2>1, <2>2, <2>3
<1>8. Taken'
  BY <1>1, <1>6 DEF CalmInv, Taken, core
<1>9. Found'
  BY <1>1, <1>6 DEF CalmInv, Found, core
<1>10. Doomed'
  <2>1. \A u \in Thread : Dooms(u)' <=> Dooms(u)
    <3>1. base[m] # "delete"
      BY DEF Inv, Control, Shape
    <3> QED BY <1>1, <3>1 DEF Dooms
  <2>2. \A u \in Thread : base'[u] = "delete" => base[u] = "delete"
    BY <1>1
  <2>3. \A n \in Map : top'[n] = "addGlobal" => top[n] = "addGlobal"
    BY <1>1
  <2> QED BY <1>3, <1>6, <2>1, <2>2, <2>3 DEF CalmInv, Doomed, core
<1> QED BY <1>1, <1>2, <1>4, <1>5, <1>7, <1>8, <1>9, <1>10 DEF Inv, CalmInv

\* A map that works on the session has it in its set, with the player.
LEMMA MapAtWork ==
  ASSUME Inv, Running, NEW m \in Map, top[m] \in {"packets", "timer", "logout"}
  PROVE  mapMgr = m /\ instanceId = m /\ m \in Sessions /\ player
<1>1. CalmInv
  BY DEF Inv, Running, Calm
<1>2. mapMgr = m /\ instanceId = m
  BY <1>1, AtWork, Names DEF CalmInv, AtHome
<1> QED BY <1>1, <1>2, Names DEF CalmInv, Taken, Placed

LEMMA StepPlayerLogout ==
  ASSUME Inv, Running, NEW t \in Thread, PlayerLogout(t)
  PROVE  Inv'
<1>1. top[t] = "packets" /\ mapMgr # None
  BY Where DEF Inv, PlayerLogout, Pop
<1>2. t \in Map
  BY <1>1, AtWork, Names
<1>3. packets' \in 0 .. MaxPackets
  BY MapSessionsAssumption DEF PlayerLogout, Pop, Inv, Flags
<1>4. SessionsMutex' = SessionsMutex /\ UNCHANGED core /\ Flags' /\ Call(t, "logout", "compare")
  BY <1>3 DEF PlayerLogout, session, ending, character, core, Inv, Flags
<1>5. Goes(t, "logout", "compare")
  BY <1>1, <1>4, CallLogout DEF Inv, Work, Back
<1> QED BY <1>1, <1>2, <1>4, <1>5, MapAtWork, BeginMove, AtWork DEF Dooms

LEMMA StepTeleport ==
  ASSUME Inv, Running, NEW t \in Thread, Teleport(t)
  PROVE  Inv'
<1>1. top[t] = "packets" /\ mapMgr # None
  BY Where DEF Inv, Teleport, Pop
<1>2. t \in Map
  BY <1>1, AtWork, Names
<1>3. packets' \in 0 .. MaxPackets
  BY MapSessionsAssumption DEF Teleport, Pop, Inv, Flags
<1>4. SessionsMutex' = SessionsMutex /\ UNCHANGED core /\ Flags'
  BY <1>3 DEF Teleport, session, ending, character, core, Inv, Flags
<1>5. Goes(t, "remove", "compare")
  <2>1. <<"remove", "sendNewWorld">> \o <<"compare">> = <<"remove", "sendNewWorld", "compare">>
    BY Push
  <2>2. pc' = [pc EXCEPT ![t] = <<"remove", "sendNewWorld", "compare">>]
    BY <2>1 DEF Teleport
  <2>3. <<"remove", "sendNewWorld", "compare">> \in Stack(t)
    BY <1>2, Names DEF Stack, MapStack, Leave
  <2>4. ASSUME NEW x, NEW y, NEW z
        PROVE  TopOf(<<x, y, z>>) = x /\ BaseOf(<<x, y, z>>) = z
    BY Ends3, Zenon
  <2>5. /\ TopOf(<<"remove", "sendNewWorld", "compare">>) = "remove"
        /\ BaseOf(<<"remove", "sendNewWorld", "compare">>) = "compare"
    BY <2>4
  <2> QED BY <2>2, <2>3, <2>5, Moved DEF Inv
<1> QED BY <1>1, <1>2, <1>4, <1>5, MapAtWork, BeginMove, AtWork DEF Dooms

\* A spell, a script or an event of a player that is on the map.
LEMMA StepHappens ==
  ASSUME Inv, Running, NEW m \in Map, EventTeleport(m) \/ EventKick(m)
  PROVE  Inv'
<1> USE Names
<1>1. /\ pc[m] = <<>> /\ mapMgr = m /\ m \notin pool
      /\ SessionsMutex' = SessionsMutex /\ UNCHANGED core /\ Flags'
  BY DEF EventTeleport, EventKick, Happens, session, timers, ending, character, core, Inv, Flags
<1>2. top[m] = "idle" /\ base[m] = "idle"
  BY <1>1, Parts DEF Inv
<1>3. CalmInv /\ ~freed
  BY DEF Inv, Running, Calm
<1>4. ~bDeleted
  <2>1. SUFFICES ASSUME bDeleted PROVE FALSE
    OBVIOUS
  <2>2. PICK t \in Thread : Dooms(t)
    BY <1>3, <2>1 DEF CalmInv, Doomed
  <2>3. mapMgr \in {t, None}
    BY <1>3, <2>2 DEF CalmInv, Doomed
  <2>4. t = m
    BY <1>1, <2>3
  <2> QED BY <1>2, <2>2, <2>4 DEF Dooms
<1>5. m \in Sessions /\ instanceId = m
  BY <1>1, <1>3, <1>4 DEF CalmInv, Taken
<1>6. Goes(m, "remove", "sendNewWorld") \/ Goes(m, "logout", "logout")
  <2>1. CASE EventTeleport(m)
    <3>1. pc' = [pc EXCEPT ![m] = <<"remove", "sendNewWorld">>]
      BY <2>1 DEF EventTeleport, Happens
    <3>2. <<"remove", "sendNewWorld">> \in Stack(m)
      BY DEF Stack, MapStack, Leave
    <3>3. /\ TopOf(<<"remove", "sendNewWorld">>) = "remove"
          /\ BaseOf(<<"remove", "sendNewWorld">>) = "sendNewWorld"
      BY Ends2
    <3> QED BY <3>1, <3>2, <3>3, Moved DEF Inv
  <2>2. CASE EventKick(m)
    <3>1. pc' = [pc EXCEPT ![m] = <<"logout">>]
      BY <2>2 DEF EventKick, Happens
    <3>2. <<"logout">> \in Stack(m)
      BY DEF Stack, MapStack
    <3>3. TopOf(<<"logout">>) = "logout" /\ BaseOf(<<"logout">>) = "logout"
      BY Ends1
    <3> QED BY <3>1, <3>2, <3>3, Moved DEF Inv
  <2> QED BY <2>1, <2>2
<1>7. ASSUME NEW l \in {"logout", "remove"}, NEW b \in {"sendNewWorld", "logout"}, Goes(m, l, b)
      PROVE  Inv'
  BY <1>1, <1>2, <1>5, <1>7, BeginMove
<1> QED BY <1>6, <1>7

LEMMA StepLogoutPlayer ==
  ASSUME Inv, Running, NEW t \in Thread, LogoutPlayer(t)
  PROVE  Inv'
<1> USE Names
<1>1. top[t] = "logout"
  BY Where DEF Inv, LogoutPlayer
<1>2. SessionsMutex' = SessionsMutex /\ UNCHANGED core /\ Flags'
  BY DEF LogoutPlayer, session, timers, character, core, Inv, Flags
<1>3. base[t] \in Back \cup {"logout"} /\ (t = World => base[t] \in Back)
  BY <1>1 DEF Inv, Control, Shape
<1>4. t = World => World \notin handed /\ mapMgr = None
  <2>1. t = World => World \notin handed
    BY <1>1, <1>3 DEF Inv, HandedOver, Running, Back
  <2>2. t = World => instanceId = World
    BY <1>3, <2>1 DEF Inv, OneContext, Engaged, Back
  <2> QED BY <1>1, <2>1, <2>2 DEF Inv, Running, Calm, CalmInv, Context
<1>5. CASE Return(t)
  <2>1. PICK l \in Back \cup {"idle"} :
          Goes(t, l, l) /\ IF l = "idle" THEN base[t] = "logout" /\ t # World ELSE base[t] = l
    BY <1>1, <1>5, ReturnLogout DEF Inv, Back
  <2>2. Mutex'
    BY <1>1, <1>2, <2>1, MutexKept DEF Back
  <2> QED BY <1>1, <1>2, <1>4, <2>1, <2>2, Quiet DEF Dooms, Running, Calm, Work, Back
<1>6. CASE t \in Map /\ Call(t, "remove", "loggedOut")
  <2> DEFINE b == IF base[t] = "logout" THEN "loggedOut" ELSE base[t]
  <2>1. Goes(t, "remove", b)
    BY <1>1, <1>6, CallRemove DEF Inv
  <2>2. b \notin {"idle", "unlock", "delete"} /\ (b = "deleted" <=> base[t] = "deleted")
    BY <1>3 DEF Back
  <2> HIDE DEF b
  <2> QED BY <1>1, <1>2, <1>6, <2>1, <2>2, MapAtWork, BeginMove
<1>7. CASE t = World /\ Goto(t, "loggedOut")
  <2>1. Goes(World, "loggedOut", base[World])
    BY <1>1, <1>7, GotoLoggedOut DEF Inv
  <2>2. Mutex'
    BY <1>1, <1>2, <1>7, <2>1, MutexKept
  <2> QED BY <1>1, <1>2, <1>3, <1>4, <1>7, <2>1, <2>2, Quiet DEF Dooms, Running, Calm, Work, Back
<1>8. t \in Map => player /\ mapMgr # None
  BY <1>1, MapAtWork
<1> QED BY <1>4, <1>5, <1>6, <1>7, <1>8 DEF LogoutPlayer

\* A thread gives the session up: in its loop, or since the instance ids differ.
LEMMA Drop ==
  ASSUME Inv, Running, NEW t \in Thread, top[t] \in {"idle", "compare"}, instanceId # t,
         NEW l \in {"idle", "unlock"}, Goes(t, l, l), t \in Map => l = "idle",
         Sessions' = Sessions \ {t}, handed' = handed \ {t}, Flags', Mutex',
         UNCHANGED <<instanceId, bDeleted, freed, overtaken, player, mapMgr, pool, local>>
  PROVE  Inv'
<1> USE Names
<1>1. /\ Control'
      /\ \A u \in Thread : /\ top'[u] = IF u = t THEN l ELSE top[u]
                           /\ base'[u] = IF u = t THEN l ELSE base[u]
  BY DEF Goes
<1>2. Places'
  BY DEF Inv, Places
<1>3. CalmInv /\ ~freed /\ base[t] = top[t]
  BY DEF Inv, Running, Calm, Control, Shape, Work
<1>4. ~Engaged(t)' /\ \A u \in Thread \ {t} : Engaged(u)' <=> Engaged(u)
  BY <1>1 DEF Engaged
<1>5. OneContext' /\ LeftAlone'
  BY <1>3, <1>4 DEF Inv, OneContext, LeftAlone
<1>6. HandedOver'
  BY <1>1 DEF Inv, HandedOver
<1>7. Context' /\ AtHome' /\ Leaving' /\ Away' /\ Placed'
  <2>1. Context'
    BY <1>1, <1>3 DEF CalmInv, Context
  <2>2. AtHome' /\ Leaving' /\ Away'
    BY <1>1, <1>3 DEF CalmInv, AtHome, Leaving, Away
  <2>3. Placed'
    BY <1>3 DEF CalmInv, Placed
  <2> QED BY <2>1, <2>2, <2>3
<1>8. Taken' /\ Found'
  <2>1. Taken'
    BY <1>1, <1>3 DEF CalmInv, Taken
  <2>2. Found'
    BY <1>1, <1>3 DEF CalmInv, Found
  <2> QED BY <2>1, <2>2
<1>9. NeverLost'
  BY <1>6, <1>8 DEF NeverLost, Found, HandedOver
<1>10. Doomed'
  <2>1. \A u \in Thread : Dooms(u)' <=> Dooms(u)
    BY <1>1, <1>3 DEF Dooms
  <2>2. \A u \in Thread : base'[u] = "delete" <=> base[u] = "delete"
    BY <1>1, <1>3
  <2>3. \A m \in Map : top'[m] = "addGlobal" => top[m] = "addGlobal"
    BY <1>1
  <2> QED BY <1>3, <1>4, <2>1, <2>2, <2>3 DEF CalmInv, Doomed
<1> QED BY <1>1, <1>2, <1>5, <1>6, <1>7, <1>8, <1>9, <1>10 DEF Inv, CalmInv

LEMMA StepEraseForeign ==
  ASSUME Inv, Running, NEW t \in Thread, Visit(t), EraseForeign(t)
  PROVE  Inv'
<1>1. top[t] = "idle" /\ base[t] = "idle"
  BY Parts DEF Inv, Visit
<1>2. /\ Control' /\ top' = top /\ base' = base /\ SessionsMutex' = SessionsMutex
      /\ instanceId # t /\ Sessions' = Sessions \ {t} /\ handed' = handed \ {t} /\ Flags'
      /\ UNCHANGED <<instanceId, bDeleted, freed, overtaken, player, mapMgr, pool, local>>
  BY Stands DEF Visit, EraseForeign, SameContext, control, timers, ending, character, Inv, Flags
<1>3. Goes(t, "idle", "idle") /\ Mutex'
  BY <1>1, <1>2 DEF Goes, Inv, Mutex
<1> QED BY <1>1, <1>2, <1>3, Drop

\* A thread begins Update for a session that is its own.
LEMMA StepStartUpdate ==
  ASSUME Inv, Running, NEW t \in Thread, Visit(t), StartUpdate(t)
  PROVE  Inv'
<1> USE Names
<1>1. top[t] = "idle" /\ base[t] = "idle" /\ t \in Sessions /\ instanceId = t
  BY Parts DEF Inv, Visit, StartUpdate, SameContext
<1>2. /\ SessionsMutex' = IF t = World THEN World ELSE SessionsMutex
      /\ handed' = handed \ {t} /\ Flags'
      /\ UNCHANGED <<instanceId, Sessions, bDeleted, freed, overtaken, player, mapMgr, pool, local>>
  BY DEF Visit, StartUpdate, timers, ending, character, Inv, Flags
<1>3. Goes(t, "socket", "socket")
  <2>1. pc' = [pc EXCEPT ![t] = <<"socket">>] /\ <<"socket">> \in Stack(t)
    BY DEF StartUpdate, Stack, WorldStack, MapStack, Work
  <2>2. TopOf(<<"socket">>) = "socket" /\ BaseOf(<<"socket">>) = "socket"
    BY Ends1
  <2> QED BY <2>1, <2>2, Moved DEF Inv
<1>4. /\ Control'
      /\ \A u \in Thread : /\ top'[u] = IF u = t THEN "socket" ELSE top[u]
                           /\ base'[u] = IF u = t THEN "socket" ELSE base[u]
  BY <1>3 DEF Goes
<1>5. Places' /\ Mutex' /\ NeverLost'
  BY <1>1, <1>2, <1>4 DEF Inv, Places, Mutex, NeverLost
<1>6. CalmInv /\ ~freed
  BY DEF Inv, Running, Calm
<1>7. \A u \in Thread : Engaged(u)' => Engaged(u)
  BY <1>1, <1>2, <1>4 DEF Engaged
<1>8. OneContext' /\ LeftAlone'
  BY <1>1, <1>2, <1>6, <1>7 DEF Inv, OneContext, LeftAlone
<1>9. HandedOver'
  BY <1>1, <1>2, <1>4 DEF Inv, HandedOver
<1>10. Context' /\ AtHome' /\ Leaving' /\ Away' /\ Placed'
  <2>1. Context'
    BY <1>1, <1>2, <1>4, <1>6 DEF CalmInv, Context
  <2>2. AtHome' /\ Leaving' /\ Away'
    BY <1>1, <1>2, <1>4, <1>6 DEF CalmInv, AtHome, Leaving, Away
  <2>3. Placed'
    BY <1>2, <1>6 DEF CalmInv, Placed
  <2> QED BY <2>1, <2>2, <2>3
<1>11. Taken' /\ Found'
  <2>1. Taken'
    BY <1>1, <1>2, <1>4, <1>6 DEF CalmInv, Taken
  <2>2. Found'
    BY <1>1, <1>2, <1>4, <1>6 DEF CalmInv, Found
  <2> QED BY <2>1, <2>2
<1>12. Doomed'
  <2>1. \A u \in Thread : (Dooms(u)' <=> Dooms(u)) /\ (base'[u] = "delete" <=> base[u] = "delete")
    BY <1>1, <1>4 DEF Dooms
  <2>2. \A m \in Map : top'[m] = "addGlobal" => top[m] = "addGlobal"
    BY <1>4
  <2>3. ASSUME NEW u \in Thread, Dooms(u)
        PROVE  t \notin handed
    <3>1. u # t
      BY <1>1, <2>3 DEF Dooms
    <3>2. mapMgr \in {u, None}
      BY <1>6, <2>3 DEF CalmInv, Doomed
    <3>3. t \in Map => mapMgr = t
      BY <1>1, <1>6 DEF CalmInv, Context
    <3>4. t = World => World \notin handed
      BY <1>1, <1>6 DEF Inv, HandedOver
    <3> QED BY <3>1, <3>2, <3>3, <3>4
  <2>4. ASSUME NEW u \in Thread, Dooms(u), NEW v \in Thread \ {u}, Engaged(v)
        PROVE  v \in handed'
    BY <1>2, <1>6, <2>3, <2>4 DEF CalmInv, Doomed
  <2> QED BY <1>2, <1>6, <1>7, <2>1, <2>2, <2>4 DEF CalmInv, Doomed
<1> QED BY <1>2, <1>4, <1>5, <1>8, <1>9, <1>10, <1>11, <1>12 DEF Inv, CalmInv

LEMMA StepVisit ==
  ASSUME Inv, Running, NEW t \in Thread, Visit(t)
  PROVE  Inv'
BY StepEraseForeign, StepStartUpdate DEF Visit

\* Update says that the session is deleted: its loop takes it out of the set, and
\* will delete it.
LEMMA Doom ==
  ASSUME Inv, Running, NEW t \in Thread, top[t] \in {"compare", "deleted"},
         Finish(t, "deleted"), bDeleted, mapMgr \in {t, None},
         \A u \in Thread \ {t} : Engaged(u) => u \in handed,
         Flags', SessionsMutex' = SessionsMutex,
         UNCHANGED <<instanceId, handed, bDeleted, freed, overtaken, player, mapMgr, pool, local>>
  PROVE  Inv'
<1> USE Names
<1> DEFINE l == IF t = World THEN "unlock" ELSE "delete"
<1>1. Goes(t, l, "delete") /\ Sessions' = Sessions \ {t}
  BY Finished DEF Inv
<1>2. l \in {"unlock", "delete"} /\ (t \in Map => l = "delete") /\ (t = World => l = "unlock")
  OBVIOUS
<1> HIDE DEF l
<1>3. /\ Control'
      /\ \A u \in Thread : /\ top'[u] = IF u = t THEN l ELSE top[u]
                           /\ base'[u] = IF u = t THEN "delete" ELSE base[u]
  BY <1>1 DEF Goes
<1>4. CalmInv /\ ~freed /\ base[t] = top[t]
  BY DEF Inv, Running, Calm, Control, Shape, Work
<1>5. Places' /\ NeverLost' /\ Mutex'
  BY <1>1, <1>2, MutexKept DEF Inv, Places, NeverLost
<1>6. \A u \in Thread : Engaged(u)' => Engaged(u)
  BY <1>1, <1>3, <1>4 DEF Engaged
<1>7. OneContext' /\ LeftAlone'
  BY <1>4, <1>6 DEF Inv, OneContext, LeftAlone
<1>8. HandedOver'
  BY <1>2, <1>3 DEF Inv, HandedOver
<1>9. Context' /\ AtHome' /\ Leaving' /\ Away' /\ Placed'
  <2>1. Context'
    BY <1>2, <1>3, <1>4 DEF CalmInv, Context
  <2>2. AtHome' /\ Leaving' /\ Away'
    BY <1>2, <1>3, <1>4 DEF CalmInv, AtHome, Leaving, Away
  <2>3. Placed'
    BY <1>4 DEF CalmInv, Placed
  <2> QED BY <2>1, <2>2, <2>3
<1>10. Taken' /\ Found'
  BY <1>1, <1>2, <1>3, <1>4 DEF CalmInv, Taken, Found
<1>11. Doomed'
  <2>1. Dooms(t)' /\ t \notin Sessions'
    BY <1>1, <1>3 DEF Dooms
  <2>2. \A u \in Thread \ {t} : /\ Dooms(u)' <=> Dooms(u)
                                /\ base'[u] = base[u] /\ (u \in Sessions' <=> u \in Sessions)
    BY <1>1, <1>3 DEF Dooms
  <2>3. \A m \in Map : top'[m] = "addGlobal" => top[m] = "addGlobal"
    BY <1>2, <1>3
  <2> QED BY <1>4, <1>6, <2>1, <2>2, <2>3 DEF CalmInv, Doomed
<1> QED BY <1>3, <1>5, <1>7, <1>8, <1>9, <1>10, <1>11 DEF Inv, CalmInv

LEMMA StepDeleted ==
  ASSUME Inv, Running, NEW t \in Thread, Deleted(t)
  PROVE  Inv'
<1>1. top[t] = "deleted" /\ Dooms(t)
  BY Where DEF Inv, Deleted, Shape, Work, Dooms
<1>2. /\ bDeleted /\ mapMgr \in {t, None}
      /\ \A u \in Thread \ {t} : Engaged(u) => u \in handed
  BY <1>1 DEF Inv, Running, Calm, CalmInv, Doomed
<1>3. /\ Flags' /\ SessionsMutex' = SessionsMutex /\ Finish(t, "deleted")
      /\ UNCHANGED <<instanceId, handed, bDeleted, freed, overtaken, player, mapMgr, pool, local>>
  BY DEF Deleted, timers, ending, character, Inv, Flags
<1> QED BY <1>1, <1>2, <1>3, Doom

\* The instance id is still the thread's, and the session lives: on to the next packet.
LEMMA GoesOnWith ==
  ASSUME Inv, Running, NEW t \in Thread, top[t] = "compare", instanceId = t, ~bDeleted,
         Goto(t, "packets"), handed' = handed \ {t}, Flags', SessionsMutex' = SessionsMutex,
         UNCHANGED <<instanceId, Sessions, bDeleted, freed, overtaken, player, mapMgr, pool, local>>
  PROVE  Inv'
<1> USE Names
<1>1. Goes(t, "packets", "packets")
  BY GotoWork DEF Inv, Work
<1>2. /\ Control'
      /\ \A u \in Thread : /\ top'[u] = IF u = t THEN "packets" ELSE top[u]
                           /\ base'[u] = IF u = t THEN "packets" ELSE base[u]
  BY <1>1 DEF Goes
<1>3. CalmInv /\ ~freed /\ base[t] = "compare"
  BY DEF Inv, Running, Calm, Control, Shape, Work
<1>4. Places' /\ Mutex'
  BY <1>1, MutexKept DEF Inv, Places
<1>5. \A u \in Thread : Engaged(u)' => Engaged(u)
  BY <1>2, <1>3 DEF Engaged
<1>6. OneContext' /\ LeftAlone'
  BY <1>3, <1>5 DEF Inv, OneContext, LeftAlone
<1>7. HandedOver'
  BY <1>2 DEF Inv, HandedOver
<1>8. Context' /\ AtHome' /\ Leaving' /\ Away' /\ Placed'
  <2>1. Context'
    BY <1>2, <1>3 DEF CalmInv, Context
  <2>2. AtHome' /\ Leaving' /\ Away'
    BY <1>2, <1>3 DEF CalmInv, AtHome, Leaving, Away
  <2>3. Placed'
    BY <1>3 DEF CalmInv, Placed
  <2> QED BY <2>1, <2>2, <2>3
<1>9. Taken' /\ Found'
  BY <1>2, <1>3 DEF CalmInv, Taken, Found
<1>10. NeverLost'
  BY <1>7, <1>9 DEF NeverLost, Found, HandedOver
<1>11. Doomed'
  <2>1. \A u \in Thread : ~Dooms(u)
    BY <1>3 DEF CalmInv, Doomed
  <2>2. \A u \in Thread : ~Dooms(u)'
    BY <1>2, <2>1 DEF Dooms
  <2> QED BY <2>2 DEF Doomed
<1> QED BY <1>2, <1>4, <1>6, <1>7, <1>8, <1>9, <1>10, <1>11 DEF Inv, CalmInv

LEMMA StepCompare ==
  ASSUME Inv, Running, NEW t \in Thread, Compare(t)
  PROVE  Inv'
<1> USE Names
<1>1. top[t] = "compare" /\ base[t] = "compare"
  BY Where DEF Inv, Compare, Shape, Work
<1>2. /\ Flags' /\ SessionsMutex' = SessionsMutex
      /\ UNCHANGED <<instanceId, bDeleted, freed, overtaken, player, mapMgr, pool, local>>
  BY DEF Compare, timers, ending, character, Inv, Flags
<1>3. CASE instanceId # t
  <2> DEFINE l == IF t = World THEN "unlock" ELSE "idle"
  <2>1. Finish(t, "changed") /\ handed' = handed \ {t}
    BY <1>3 DEF Compare, SameContext
  <2>2. Goes(t, l, l) /\ Sessions' = Sessions \ {t}
    BY <2>1, Finished DEF Inv
  <2>3. l \in {"idle", "unlock"} /\ (t \in Map => l = "idle") /\ (t = World => l = "unlock")
    OBVIOUS
  <2> HIDE DEF l
  <2>4. Mutex'
    BY <1>1, <1>2, <2>2, <2>3, MutexKept
  <2> QED BY <1>1, <1>2, <1>3, <2>1, <2>2, <2>3, <2>4, Drop
<1>4. CASE instanceId = t /\ bDeleted
  <2>1. Finish(t, "deleted") /\ handed' = handed
    BY <1>4 DEF Compare, SameContext
  <2>2. \A u \in Thread \ {t} : Engaged(u) => u \in handed
    BY <1>4 DEF Inv, OneContext
  <2>3. mapMgr \in {t, None}
    BY <1>1, <1>4 DEF Inv, Running, Calm, CalmInv, Context
  <2> QED BY <1>1, <1>2, <1>4, <2>1, <2>2, <2>3, Doom
<1>5. CASE instanceId = t /\ ~bDeleted
  <2>1. Goto(t, "packets") /\ Sessions' = Sessions /\ handed' = handed \ {t}
    BY <1>5 DEF Compare, SameContext
  <2> QED BY <1>1, <1>2, <1>5, <2>1, GoesOnWith
<1> QED BY <1>2, <1>3, <1>4, <1>5 DEF Inv, Flags

\* The procedures during which another thread is in the way.
MoveLabel == {"added", "setInstance", "remove", "release", "addGlobal", "sendNewWorld", "pushed",
              "loggedOut"}

LEMMA NotMoved ==
  ASSUME Control, NEW t \in Thread, ~MovedByOther(t), NEW u \in Thread \ {t}
  PROVE  top[u] \notin MoveLabel
<1>1. SUFFICES ASSUME top[u] \in MoveLabel
               PROVE  FALSE
  OBVIOUS
<1>2. top[u] = TopOf(pc[u]) /\ pc[u] \in WorldStack \cup MapStack
  BY Parts
<1>3. pc[u] # <<>>
  BY <1>1, <1>2, Ends0 DEF MoveLabel
<1>4. Len(pc[u]) >= 1 /\ top[u] = pc[u][1]
  BY <1>2, <1>3 DEF TopOf, WorldStack, MapStack
<1>5. 1 \in 1 .. 3
  OBVIOUS
<1> QED BY <1>1, <1>4, <1>5 DEF MovedByOther, MoveLabel

\* The timer says that the session is to be deleted.
LEMMA StepDooms ==
  ASSUME Inv, Running, NEW t \in Thread, top[t] = "timer", Call(t, "logout", "deleted"),
         bDeleted', overtaken' = IF MovedByOther(t) THEN "deleted" ELSE "no",
         Flags', SessionsMutex' = SessionsMutex,
         UNCHANGED <<instanceId, Sessions, handed, freed, player, mapMgr, pool, local>>
  PROVE  Inv'
<1> USE Names
<1>1. Goes(t, "logout", "deleted")
  BY CallLogout DEF Inv, Work, Back
<1>2. /\ Control'
      /\ \A u \in Thread : /\ top'[u] = IF u = t THEN "logout" ELSE top[u]
                           /\ base'[u] = IF u = t THEN "deleted" ELSE base[u]
  BY <1>1 DEF Goes
<1>3. CalmInv /\ ~freed
  BY DEF Inv, Running, Calm
<1>4. /\ t \notin handed /\ instanceId = t /\ mapMgr \in {t, None} /\ (t \in Map => mapMgr = t)
      /\ (t = World => mapMgr = None) /\ base[t] = "timer"
  BY AtWork
<1>5. Places' /\ Mutex' /\ NeverLost'
  BY <1>1, MutexKept DEF Inv, Places, NeverLost
<1>6. \A u \in Thread : Engaged(u)' => Engaged(u)
  BY <1>2, <1>4 DEF Engaged
<1>7. OneContext' /\ LeftAlone'
  BY <1>3, <1>6 DEF Inv, OneContext, LeftAlone
<1>8. HandedOver'
  BY <1>2, <1>4 DEF Inv, HandedOver
<1>9. ASSUME overtaken' = "no"
      PROVE  CalmInv'
  <2>1. \A u \in Thread \ {t} : top[u] \notin MoveLabel
    BY <1>9, NotMoved DEF Inv
  <2>2. Context' /\ AtHome' /\ Leaving' /\ Away' /\ Placed'
    <3>1. Context'
      BY <1>2, <1>3, <1>4 DEF CalmInv, Context
    <3>2. AtHome' /\ Leaving' /\ Away'
      BY <1>2, <1>3, <1>4 DEF CalmInv, AtHome, Leaving, Away
    <3>3. Placed'
      BY <1>3 DEF CalmInv, Placed
    <3> QED BY <3>1, <3>2, <3>3
  <2>3. Taken' /\ Found'
    BY <1>2, <1>3, <1>4 DEF CalmInv, Taken, Found
  <2>4. Doomed'
    <3>1. \A m \in Map : top'[m] # "addGlobal"
      BY <1>2, <2>1 DEF MoveLabel
    <3>2. Dooms(t)'
      BY <1>2 DEF Dooms
    <3>3. \A u \in Thread : Dooms(u)' => u = t
      BY <1>2, <1>3, <1>4 DEF Dooms, CalmInv, Doomed, Engaged
    <3>4. \A u \in Thread \ {t} : Engaged(u) => u \in handed
      BY <1>4 DEF Inv, OneContext
    <3> QED BY <1>2, <1>4, <1>6, <3>1, <3>2, <3>3, <3>4 DEF Doomed
  <2> QED BY <2>2, <2>3, <2>4 DEF CalmInv
<1> QED BY <1>2, <1>5, <1>7, <1>8, <1>9 DEF Inv, Calm

LEMMA StepTestTimer ==
  ASSUME Inv, Running, NEW t \in Thread, TestTimer(t)
  PROVE  Inv'
<1> USE Names
<1> DEFINE dooms == logoutTime = "due" /\ ~Moving /\ ~socket
<1>1. top[t] = "timer"
  BY Where DEF Inv, TestTimer
<1>2. t \notin handed /\ instanceId = t /\ (t = World => mapMgr = None) /\ base[t] = "timer"
  BY <1>1, AtWork
<1>3. /\ SessionsMutex' = SessionsMutex /\ bDeleted' = (bDeleted \/ dooms) /\ handed' = handed
      /\ overtaken' = IF dooms /\ MovedByOther(t) THEN "deleted" ELSE "no"
      /\ UNCHANGED <<instanceId, freed, player, mapMgr, pool, local>>
      /\ UNCHANGED <<timers, loggingOut, freed, character>>
  BY <1>2 DEF TestTimer, SameContext, character
<1>4. Flags'
  BY <1>3 DEF timers, character, Inv, Flags
<1>5. overtaken = "no"
  BY DEF Running
<1>6. CASE logoutTime # "due"
  <2>1. Goto(t, "ping") /\ Sessions' = Sessions
    BY <1>2, <1>6 DEF TestTimer, SameContext
  <2>2. UNCHANGED core
    BY <1>3, <1>5, <1>6, <2>1 DEF core, Inv, Flags
  <2> QED BY <1>1, <1>3, <1>4, <2>1, <2>2, QuietGoto
<1>7. CASE logoutTime = "due" /\ Moving
  <2>1. Finish(t, "ok")
    BY <1>2, <1>7 DEF TestTimer, SameContext
  <2>2. bDeleted' = bDeleted /\ overtaken' = overtaken
    BY <1>3, <1>5, <1>7 DEF Inv, Flags
  <2> QED BY <1>1, <1>3, <1>4, <2>1, <2>2, QuietFinish
<1>8. CASE logoutTime = "due" /\ ~Moving /\ socket
  <2>1. Call(t, "logout", "ping") /\ Sessions' = Sessions
    BY <1>2, <1>8 DEF TestTimer, SameContext
  <2>2. UNCHANGED core
    BY <1>3, <1>5, <1>8, <2>1 DEF core, Inv, Flags
  <2>3. Goes(t, "logout", "ping")
    BY <1>1, <2>1, CallLogout DEF Inv, Work, Back
  <2>4. CASE t \in Map
    BY <1>1, <1>2, <1>3, <1>4, <2>2, <2>3, <2>4, MapAtWork, BeginMove
  <2>5. CASE t = World
    <3>1. Mutex'
      BY <1>1, <1>3, <2>3, MutexKept
    <3> QED BY <1>1, <1>2, <1>4, <2>2, <2>3, <2>5, <3>1, Quiet DEF Dooms, Running, Calm
  <2> QED BY <2>4, <2>5
<1>9. CASE dooms
  <2>1. Call(t, "logout", "deleted") /\ Sessions' = Sessions
    BY <1>2, <1>9 DEF TestTimer, SameContext
  <2> QED BY <1>1, <1>3, <1>4, <1>9, <2>1, StepDooms
<1> QED BY <1>6, <1>7, <1>8, <1>9

\* The session is deleted.
LEMMA StepDeleteSession ==
  ASSUME Inv, Running, NEW t \in Thread, DeleteSession(t)
  PROVE  Inv'
<1> USE Names
<1>1. top[t] = "delete" /\ base[t] = "delete" /\ Dooms(t)
  BY Where DEF Inv, DeleteSession, Shape, Dooms
<1>2. /\ Flags' /\ SessionsMutex' = SessionsMutex /\ freed'
      /\ UNCHANGED <<instanceId, Sessions, handed, bDeleted, overtaken, player, mapMgr, pool, local>>
  BY DEF DeleteSession, session, timers, character, Inv, Flags
<1>3. Goes(t, "idle", "idle")
  BY <1>1, ReturnIdle DEF Inv, DeleteSession
<1>4. /\ Control'
      /\ \A u \in Thread : /\ top'[u] = IF u = t THEN "idle" ELSE top[u]
                           /\ base'[u] = IF u = t THEN "idle" ELSE base[u]
  BY <1>3 DEF Goes
<1>5. CalmInv
  BY DEF Inv, Running, Calm
<1>6. Places' /\ NeverLost' /\ Mutex'
  BY <1>1, <1>2, <1>4 DEF Inv, Places, NeverLost, Mutex
<1>7. /\ bDeleted /\ t \notin Sessions
      /\ \A u \in Thread \ {t} : Engaged(u) => u \in handed
  BY <1>1, <1>5 DEF CalmInv, Doomed
<1>8. ~Engaged(t)' /\ \A u \in Thread : Engaged(u)' => Engaged(u)
  BY <1>2, <1>4, <1>7 DEF Engaged
<1>9. OneContext' /\ LeftAlone'
  BY <1>2, <1>7, <1>8 DEF Inv, OneContext, LeftAlone
<1>10. HandedOver'
  BY <1>2, <1>4 DEF Inv, HandedOver
<1>11. Context' /\ AtHome' /\ Leaving' /\ Away' /\ Placed'
  <2>1. Context'
    BY <1>1, <1>2, <1>4, <1>5 DEF CalmInv, Context
  <2>2. AtHome' /\ Leaving' /\ Away'
    BY <1>2, <1>4, <1>5 DEF CalmInv, AtHome, Leaving, Away
  <2>3. Placed'
    BY <1>2, <1>5 DEF CalmInv, Placed
  <2> QED BY <2>1, <2>2, <2>3
<1>12. Taken' /\ Found'
  BY <1>2, <1>4, <1>5, <1>7 DEF CalmInv, Taken, Found
<1>13. Doomed'
  <2>1. \A u \in Thread : Dooms(u)' => u # t /\ Dooms(u) /\ base'[u] = base[u]
    BY <1>4 DEF Dooms
  <2>2. \A m \in Map : top'[m] = "addGlobal" => top[m] = "addGlobal"
    BY <1>4
  <2> QED BY <1>2, <1>5, <1>8, <2>1, <2>2 DEF CalmInv, Doomed
<1> QED BY <1>2, <1>4, <1>6, <1>9, <1>10, <1>11, <1>12, <1>13 DEF Inv, CalmInv

\* The world thread puts the player on a map, or finds none that will have it.
LEMMA StepEnter ==
  ASSUME Inv, Running, NEW t \in Thread, Login(t) \/ WorldportAck(t)
  PROVE  Inv'
<1> USE Names
<1>1. top[t] = "packets" /\ mapMgr = None
  <2>1. top[t] = "packets"
    BY Where DEF Inv, Login, WorldportAck, Pop
  <2> QED BY <2>1 DEF Login, WorldportAck, Inv, Running, Calm, CalmInv, Placed
<1>2. t = World /\ World \notin handed /\ instanceId = World /\ base[t] = "packets"
  BY <1>1, AtWork
<1>3. CalmInv /\ ~freed /\ pool = {}
  BY <1>1 DEF Inv, Running, Calm, CalmInv, Placed, Places
<1>4. packets' \in 0 .. MaxPackets
  BY MapSessionsAssumption DEF Login, WorldportAck, Pop, Inv, Flags
<1>5. /\ Enter(t) /\ player' /\ Flags' /\ SessionsMutex' = SessionsMutex
      /\ UNCHANGED <<instanceId, Sessions, bDeleted, freed, local>>
  BY <1>4 DEF Login, WorldportAck, Enter, Inv, Flags
<1>6. overtaken' = IF MovedByOther(t) THEN "moved" ELSE "no"
  BY <1>5 DEF Enter
<1>7. \A u \in Thread : ~Dooms(u)
  BY <1>2, <1>3 DEF CalmInv, Doomed, Engaged, Dooms
<1>8. ~bDeleted
  BY <1>3, <1>7 DEF CalmInv, Doomed
<1>9. ASSUME NEW m \in Map, mapMgr' = m, pool' = pool \cup {m}, handed' = handed \cup {t},
             Goto(t, "added")
      PROVE  Inv'
  <2>1. Goes(World, "added", "added")
    BY <1>1, <1>2, <1>9, GotoWork DEF Inv, Work
  <2>2. /\ Control'
        /\ \A u \in Thread : /\ top'[u] = IF u = World THEN "added" ELSE top[u]
                             /\ base'[u] = IF u = World THEN "added" ELSE base[u]
    BY <2>1 DEF Goes
  <2>3. Places' /\ NeverLost' /\ Mutex'
    BY <1>1, <1>2, <1>5, <1>9, <2>1, MutexKept DEF Inv, Places, NeverLost
  <2>4. \A u \in Thread : Engaged(u)' => Engaged(u)
    BY <1>2, <1>5, <2>2 DEF Engaged
  <2>5. OneContext' /\ LeftAlone'
    BY <1>3, <1>5, <1>9, <2>4 DEF Inv, OneContext, LeftAlone
  <2>6. HandedOver'
    BY <1>2, <1>5, <1>9, <2>2 DEF Inv, HandedOver
  <2>7. ASSUME overtaken' = "no"
        PROVE  CalmInv'
    <3>1. \A u \in Thread \ {World} : top[u] \notin MoveLabel
      BY <1>2, <1>6, <2>7, NotMoved DEF Inv
    <3>2. Context'
      BY <1>2, <1>5, <2>2 DEF Context
    <3>3. AtHome' /\ Leaving' /\ Away'
      BY <1>1, <1>2, <1>3, <2>2, <3>1 DEF CalmInv, AtHome, Leaving, Away, MoveLabel
    <3>4. Placed' /\ Taken'
      BY <1>3, <1>5, <1>9, <2>2 DEF CalmInv, Placed, Taken
    <3>5. Found'
      BY <1>2, <1>3, <1>5, <1>9, <3>1 DEF CalmInv, Found, MoveLabel
    <3>6. Doomed'
      <4>1. \A u \in Thread : ~Dooms(u)'
        BY <1>7, <2>2 DEF Dooms
      <4> QED BY <1>5, <1>8, <4>1 DEF Doomed
    <3> QED BY <3>2, <3>3, <3>4, <3>5, <3>6 DEF CalmInv
  <2> QED BY <1>5, <2>2, <2>3, <2>5, <2>6, <2>7 DEF Inv, Calm
<1>10. ASSUME mapMgr' = None, pool' = pool, handed' = handed, Goto(t, "compare")
       PROVE  Inv'
  <2>1. Goes(World, "compare", "compare")
    BY <1>1, <1>2, <1>10, GotoWork DEF Inv, Work
  <2>2. /\ Control'
        /\ \A u \in Thread : /\ top'[u] = IF u = World THEN "compare" ELSE top[u]
                             /\ base'[u] = IF u = World THEN "compare" ELSE base[u]
    BY <2>1 DEF Goes
  <2>3. Places' /\ NeverLost' /\ Mutex'
    BY <1>1, <1>2, <1>5, <1>10, <2>1, MutexKept DEF Inv, Places, NeverLost
  <2>4. \A u \in Thread : Engaged(u)' => Engaged(u)
    BY <1>2, <1>5, <2>2 DEF Engaged
  <2>5. OneContext' /\ LeftAlone'
    BY <1>3, <1>5, <1>10, <2>4 DEF Inv, OneContext, LeftAlone
  <2>6. HandedOver'
    BY <1>2, <1>5, <1>10, <2>2 DEF Inv, HandedOver
  <2>7. Context' /\ AtHome' /\ Leaving' /\ Away' /\ Placed'
    <3>1. Context'
      BY <1>1, <1>2, <1>3, <1>5, <1>10, <2>2 DEF CalmInv, Context
    <3>2. AtHome' /\ Leaving' /\ Away'
      BY <1>1, <1>3, <1>5, <1>10, <2>2 DEF CalmInv, AtHome, Leaving, Away
    <3>3. Placed'
      BY <1>3, <1>10 DEF Placed
    <3> QED BY <3>1, <3>2, <3>3
  <2>8. Taken' /\ Found'
    BY <1>3, <1>5, <1>10, <2>2 DEF CalmInv, Taken, Found
  <2>9. Doomed'
    <3>1. \A u \in Thread : ~Dooms(u)'
      BY <1>7, <2>2 DEF Dooms
    <3> QED BY <1>5, <1>8, <3>1 DEF Doomed
  <2> QED BY <1>5, <2>2, <2>3, <2>5, <2>6, <2>7, <2>8, <2>9 DEF Inv, CalmInv
<1> QED BY <1>5, <1>9, <1>10 DEF Enter

\* A step of the world thread's AddToWorld: to SetInstance, or out of it.
LEMMA StepAdded ==
  ASSUME Inv, Running, NEW t \in Thread, Added(t)
  PROVE  Inv'
<1> USE Names
<1>1. top[t] = "added" /\ base[t] = "added" /\ t = World
  BY Where DEF Inv, Added, Shape
<1>2. CalmInv /\ ~freed /\ World \in handed
  BY <1>1 DEF Inv, Running, Calm, HandedOver
<1>3. /\ Flags' /\ SessionsMutex' = SessionsMutex
      /\ UNCHANGED <<instanceId, Sessions, handed, bDeleted, freed, overtaken, player, mapMgr, pool>>
  BY DEF Added, session, timers, ending, Inv, Flags
<1>4. ASSUME NEW l \in {"compare", "setInstance"}, Goto(World, l),
             l = "compare" => mapMgr = None /\ local' = local,
             l = "setInstance" => mapMgr # None /\ local' = [local EXCEPT ![World] = mapMgr]
      PROVE  Inv'
  <2>1. Goes(World, l, l)
    BY <1>1, <1>4, GotoWork DEF Inv, Work
  <2>2. /\ Control'
        /\ \A u \in Thread : /\ top'[u] = IF u = World THEN l ELSE top[u]
                             /\ base'[u] = IF u = World THEN l ELSE base[u]
    BY <2>1 DEF Goes
  <2>3. Places' /\ NeverLost'
    BY <1>3, <1>4 DEF Inv, Places, NeverLost
  <2>4. Mutex'
    BY <1>1, <1>3, <2>1, MutexKept
  <2>5. \A u \in Thread : Engaged(u)' => Engaged(u)
    BY <1>1, <1>3, <2>2 DEF Engaged
  <2>6. OneContext' /\ LeftAlone'
    BY <1>2, <1>3, <2>5 DEF Inv, OneContext, LeftAlone
  <2>7. HandedOver'
    BY <1>2, <1>3, <2>2 DEF Inv, HandedOver
  <2>8. l = "setInstance" => local'[World] = mapMgr /\ instanceId \in {World, mapMgr}
    <3>1. ASSUME l = "setInstance"
          PROVE  local'[World] = mapMgr
      BY <1>4, <3>1 DEF Inv, Places
    <3>2. ASSUME l = "setInstance", instanceId # World
          PROVE  instanceId = mapMgr
      <4>1. instanceId \in Map
        BY <3>2 DEF Inv, Places
      <4> QED BY <1>2, <1>4, <3>2, <4>1 DEF CalmInv, Context, Leaving
    <3> QED BY <3>1, <3>2
  <2>9. Context' /\ AtHome' /\ Leaving' /\ Away' /\ Placed'
    <3>1. Context'
      BY <1>2, <1>3, <1>4, <2>2, <2>8 DEF CalmInv, Context
    <3>2. AtHome' /\ Leaving' /\ Away'
      BY <1>2, <1>3, <2>2 DEF CalmInv, AtHome, Leaving, Away
    <3>3. Placed'
      BY <1>2, <1>3 DEF CalmInv, Placed
    <3> QED BY <3>1, <3>2, <3>3
  <2>10. Taken' /\ Found'
    BY <1>2, <1>3, <2>2 DEF CalmInv, Taken, Found
  <2>11. Doomed'
    <3>1. \A u \in Thread : /\ Dooms(u)' => Dooms(u)
                            /\ Dooms(u) => Dooms(u)'
                            /\ base'[u] = "delete" => base[u] = "delete"
      BY <1>1, <2>2 DEF Dooms
    <3>2. \A m \in Map : top'[m] = top[m]
      BY <2>2
    <3>3. bDeleted' /\ ~freed' => \E u \in Thread : Dooms(u)'
      BY <1>2, <1>3, <3>1 DEF CalmInv, Doomed, Dooms
    <3>4. \A m \in Map : top'[m] = "addGlobal" => ~bDeleted'
      BY <1>2, <1>3, <3>2 DEF CalmInv, Doomed
    <3>5. ASSUME NEW u \in Thread, Dooms(u)'
          PROVE  /\ bDeleted' /\ mapMgr' \in {u, None}
                 /\ base'[u] = "delete" => u \notin Sessions'
                 /\ \A v \in Thread \ {u} : Engaged(v)' => v \in handed'
      BY <1>2, <1>3, <2>5, <3>1, <3>5 DEF CalmInv, Doomed, Dooms
    <3> QED BY <3>3, <3>4, <3>5 DEF Doomed
  <2> QED BY <1>3, <2>2, <2>3, <2>4, <2>6, <2>7, <2>9, <2>10, <2>11 DEF Inv, CalmInv
<1>5. CASE mapMgr = None
  BY <1>1, <1>4, <1>5 DEF Added
<1>6. CASE mapMgr # None
  BY <1>1, <1>4, <1>6 DEF Added
<1> QED BY <1>5, <1>6

\* The instance id becomes that of the map whose thread may have the player by now.
LEMMA StepSetInstance ==
  ASSUME Inv, Running, NEW t \in Thread, SetInstance(t)
  PROVE  Inv'
<1> USE Names
<1>1. top[t] = "setInstance" /\ base[t] = "setInstance" /\ t = World
  BY Where DEF Inv, SetInstance, Shape
<1>2. CalmInv /\ ~freed /\ World \in handed
  BY <1>1 DEF Inv, Running, Calm, HandedOver
<1>3. /\ Flags' /\ SessionsMutex' = SessionsMutex
      /\ overtaken' = IF mapMgr # local[World] THEN "moved" ELSE "no"
      /\ instanceId' = local[World] /\ local' = [local EXCEPT ![World] = None]
      /\ UNCHANGED <<Sessions, handed, bDeleted, freed, player, mapMgr, pool>>
  BY <1>1 DEF SetInstance, timers, character, Inv, Flags
<1>4. /\ local[World] \in Map /\ instanceId \in {World, local[World]}
      /\ mapMgr \in {local[World], None}
  BY <1>1, <1>2 DEF CalmInv, Context, Inv, Places
<1>5. Goes(World, "compare", "compare")
  BY <1>1, GotoWork DEF Inv, Work, SetInstance
<1>6. /\ Control'
      /\ \A u \in Thread : /\ top'[u] = IF u = World THEN "compare" ELSE top[u]
                           /\ base'[u] = IF u = World THEN "compare" ELSE base[u]
  BY <1>5 DEF Goes
<1>7. Places' /\ NeverLost' /\ Mutex'
  BY <1>1, <1>2, <1>3, <1>4, <1>5, MutexKept DEF Inv, Places, NeverLost
<1>8. \A u \in Thread : Engaged(u)' => Engaged(u)
  BY <1>1, <1>3, <1>6 DEF Engaged
<1>9. OneContext' /\ LeftAlone'
  BY <1>2, <1>3, <1>4, <1>8 DEF Inv, OneContext, LeftAlone
<1>10. HandedOver'
  BY <1>2, <1>3, <1>6 DEF Inv, HandedOver
<1>11. ASSUME overtaken' = "no"
       PROVE  CalmInv'
  <2>1. mapMgr = local[World] /\ mapMgr # None
    BY <1>3, <1>4, <1>11
  <2>2. Context'
    BY <1>3, <1>4, <1>6, <2>1 DEF Context
  <2>3. AtHome' /\ Leaving' /\ Away' /\ Placed'
    BY <1>2, <1>3, <1>6, <2>1 DEF CalmInv, AtHome, Leaving, Away, Placed
  <2>4. Taken' /\ Found'
    BY <1>2, <1>3, <1>4, <1>6, <2>1 DEF CalmInv, Taken, Found
  <2>5. Doomed'
    <3>1. \A u \in Thread : /\ Dooms(u)' => Dooms(u)
                            /\ Dooms(u) => Dooms(u)'
                            /\ base'[u] = "delete" => base[u] = "delete"
      BY <1>1, <1>6 DEF Dooms
    <3>2. \A m \in Map : top'[m] = top[m]
      BY <1>6
    <3>3. bDeleted' /\ ~freed' => \E u \in Thread : Dooms(u)'
      BY <1>2, <1>3, <3>1 DEF CalmInv, Doomed, Dooms
    <3>4. \A m \in Map : top'[m] = "addGlobal" => ~bDeleted'
      BY <1>2, <1>3, <3>2 DEF CalmInv, Doomed
    <3>5. ASSUME NEW u \in Thread, Dooms(u)'
          PROVE  /\ bDeleted' /\ mapMgr' \in {u, None}
                 /\ base'[u] = "delete" => u \notin Sessions'
                 /\ \A v \in Thread \ {u} : Engaged(v)' => v \in handed'
      BY <1>2, <1>3, <1>8, <3>1, <3>5 DEF CalmInv, Doomed, Dooms
    <3> QED BY <3>3, <3>4, <3>5 DEF Doomed
  <2> QED BY <2>2, <2>3, <2>4, <2>5 DEF CalmInv
<1> QED BY <1>3, <1>6, <1>7, <1>9, <1>10, <1>11 DEF Inv, Calm

\* LogoutPlayer deletes the player.
LEMMA StepLoggedOut ==
  ASSUME Inv, Running, NEW t \in Thread, LoggedOut(t)
  PROVE  Inv'
<1> USE Names
<1>1. top[t] = "loggedOut"
  BY Where DEF Inv, LoggedOut
<1>2. /\ Flags' /\ SessionsMutex' = SessionsMutex /\ mapMgr' = None
      /\ overtaken' = IF player /\ (mapMgr # None \/ MovedByOther(t)) THEN "deleted" ELSE "no"
      /\ UNCHANGED <<instanceId, Sessions, handed, bDeleted, freed, pool, local>>
  BY DEF LoggedOut, session, Inv, Flags
<1>3. PICK l \in Back \cup {"idle"} :
        Goes(t, l, l) /\ IF l = "idle" THEN base[t] = "loggedOut" /\ t # World ELSE base[t] = l
  BY <1>1, ReturnLogout DEF Inv, Back, LoggedOut
<1>4. /\ Control'
      /\ \A u \in Thread : /\ top'[u] = IF u = t THEN l ELSE top[u]
                           /\ base'[u] = IF u = t THEN l ELSE base[u]
  BY <1>3 DEF Goes
<1>5. CalmInv /\ ~freed
  BY DEF Inv, Running, Calm
<1>6. Places' /\ NeverLost' /\ Mutex'
  BY <1>1, <1>2, <1>3, MutexKept DEF Inv, Places, NeverLost, Back
<1>7. \A u \in Thread : Engaged(u)' => Engaged(u)
  BY <1>2, <1>3, <1>4 DEF Engaged
<1>8. OneContext' /\ LeftAlone'
  BY <1>2, <1>5, <1>7 DEF Inv, OneContext, LeftAlone
<1>9. HandedOver'
  <2>1. t = World => World \notin handed
    BY <1>1, <1>3, <1>5 DEF Inv, HandedOver, Back
  <2> QED BY <1>2, <1>3, <1>4, <2>1 DEF Inv, HandedOver, Back
<1>10. ASSUME overtaken' = "no"
       PROVE  CalmInv'
  <2>1. mapMgr = None /\ pool = {}
    BY <1>2, <1>5, <1>10 DEF CalmInv, Placed, Inv, Places
  <2>2. Context' /\ AtHome' /\ Leaving' /\ Away' /\ Placed'
    <3>1. Context'
      BY <1>1, <1>2, <1>3, <1>4, <1>5, <2>1 DEF CalmInv, Context, Back
    <3>2. AtHome' /\ Leaving' /\ Away'
      BY <1>2, <1>3, <1>4, <1>5, <2>1 DEF CalmInv, AtHome, Leaving, Away, Back
    <3>3. Placed'
      BY <1>2, <2>1 DEF Placed
    <3> QED BY <3>1, <3>2, <3>3
  <2>3. Taken' /\ Found'
    <3>1. Taken'
      BY <1>1, <1>2, <1>3, <1>4, <1>5 DEF CalmInv, Taken
    <3>2. Found'
      BY <1>1, <1>2, <1>4, <1>5 DEF CalmInv, Found
    <3> QED BY <3>1, <3>2
  <2>4. Doomed'
    <3>1. \A u \in Thread : /\ Dooms(u)' <=> Dooms(u)
                            /\ base'[u] = "delete" => base[u] = "delete"
      BY <1>3, <1>4 DEF Dooms, Back
    <3>2. \A m \in Map : top'[m] = "addGlobal" => top[m] = "addGlobal"
      BY <1>3, <1>4 DEF Back
    <3> QED BY <1>2, <1>5, <1>7, <2>1, <3>1, <3>2 DEF CalmInv, Doomed
  <2> QED BY <2>2, <2>3, <2>4 DEF CalmInv
<1> QED BY <1>2, <1>4, <1>6, <1>8, <1>9, <1>10 DEF Inv, Calm

\* The three steps of RemoveFromWorld: off the map, to the world thread's instance id,
\* into its set.
LEMMA StepRemove ==
  ASSUME Inv, Running, NEW t \in Thread, Remove(t)
  PROVE  Inv'
<1> USE Names
<1>1. top[t] = "remove" /\ t \in Map /\ t # World
  BY Where DEF Inv, Remove, Shape, Leave
<1>2. CalmInv /\ ~freed
  BY DEF Inv, Running, Calm
<1>3. mapMgr = t /\ instanceId = t /\ t \in Sessions
  BY <1>1, <1>2 DEF CalmInv, AtHome, Taken
<1>4. /\ Flags' /\ SessionsMutex' = SessionsMutex /\ mapMgr' = None /\ pool' = pool \ {t}
      /\ UNCHANGED <<instanceId, Sessions, handed, bDeleted, freed, overtaken, player, local>>
  BY <1>3 DEF Remove, session, timers, ending, Inv, Flags
<1>5. Goes(t, "release", base[t])
  BY <1>1, GotoLeave DEF Inv, Leave, Remove
<1>6. /\ Control'
      /\ \A u \in Thread : /\ top'[u] = IF u = t THEN "release" ELSE top[u]
                           /\ base'[u] = base[u]
  BY <1>5 DEF Goes
<1>7. Places' /\ NeverLost' /\ Mutex'
  BY <1>1, <1>3, <1>4, <1>5, MutexKept DEF Inv, Places, NeverLost
<1>8. \A u \in Thread : Engaged(u)' <=> Engaged(u)
  BY <1>4, <1>6 DEF Engaged
<1>9. OneContext' /\ LeftAlone'
  BY <1>2, <1>4, <1>8 DEF Inv, OneContext, LeftAlone
<1>10. HandedOver'
  BY <1>1, <1>4, <1>6 DEF Inv, HandedOver
<1>11. Context' /\ AtHome' /\ Leaving' /\ Away' /\ Placed'
  <2>1. Context'
    BY <1>1, <1>2, <1>3, <1>4, <1>6 DEF CalmInv, Context
  <2>2. AtHome' /\ Leaving' /\ Away'
    BY <1>1, <1>2, <1>3, <1>4, <1>6 DEF CalmInv, AtHome, Leaving, Away
  <2>3. Placed'
    BY <1>2, <1>3, <1>4 DEF CalmInv, Placed
  <2> QED BY <2>1, <2>2, <2>3
<1>12. Taken' /\ Found'
  BY <1>2, <1>3, <1>4, <1>6 DEF CalmInv, Taken, Found
<1>13. Doomed'
  <2>1. \A u \in Thread : Dooms(u)' <=> Dooms(u)
    BY <1>6 DEF Dooms
  <2>2. \A m \in Map : top'[m] = "addGlobal" => top[m] = "addGlobal"
    BY <1>6
  <2> QED BY <1>2, <1>4, <1>6, <1>8, <2>1, <2>2 DEF CalmInv, Doomed
<1> QED BY <1>4, <1>6, <1>7, <1>9, <1>10, <1>11, <1>12, <1>13 DEF Inv, CalmInv

LEMMA StepRelease ==
  ASSUME Inv, Running, NEW t \in Thread, Release(t)
  PROVE  Inv'
<1> USE Names
<1>1. top[t] = "release" /\ t \in Map /\ t # World
  BY Where DEF Inv, Release, Shape, Leave
<1>2. CalmInv /\ ~freed
  BY DEF Inv, Running, Calm
<1>3. mapMgr = None /\ instanceId = t /\ t \in Sessions
  BY <1>1, <1>2 DEF CalmInv, Leaving, Taken
<1>4. /\ Flags' /\ SessionsMutex' = SessionsMutex /\ instanceId' = World
      /\ handed' = handed \cup {t}
      /\ UNCHANGED <<Sessions, bDeleted, freed, overtaken, player, mapMgr, pool, local>>
  BY DEF Release, timers, ending, character, Inv, Flags
<1>5. PICK l \in {"sendNewWorld", "loggedOut", "addGlobal"} :
        Goes(t, l, base[t]) /\ (l = "addGlobal" => ~bDeleted)
                            /\ (~bDeleted => l = "addGlobal")
  <2>1. CASE bDeleted
    BY <1>1, <2>1, ReturnLeave DEF Inv, Leave, Release
  <2>2. CASE ~bDeleted
    BY <1>1, <2>2, GotoLeave DEF Inv, Leave, Release
  <2> QED BY <2>1, <2>2
<1>6. /\ Control'
      /\ \A u \in Thread : /\ top'[u] = IF u = t THEN l ELSE top[u]
                           /\ base'[u] = base[u]
  BY <1>5 DEF Goes
<1>7. Places' /\ NeverLost' /\ Mutex'
  BY <1>1, <1>4, <1>5, MutexKept DEF Inv, Places, NeverLost
<1>8. \A u \in Thread : Engaged(u)' <=> Engaged(u)
  BY <1>4, <1>6 DEF Engaged
<1>9. OneContext' /\ LeftAlone'
  BY <1>2, <1>3, <1>4, <1>8 DEF Inv, OneContext, LeftAlone
<1>10. HandedOver'
  BY <1>1, <1>4, <1>6 DEF Inv, HandedOver
<1>11. Context' /\ AtHome' /\ Leaving' /\ Away' /\ Placed'
  <2>1. Context'
    BY <1>1, <1>2, <1>3, <1>4, <1>6 DEF CalmInv, Context
  <2>2. AtHome' /\ Leaving' /\ Away'
    BY <1>1, <1>2, <1>3, <1>4, <1>6 DEF CalmInv, AtHome, Leaving, Away
  <2>3. Placed'
    BY <1>2, <1>4 DEF CalmInv, Placed
  <2> QED BY <2>1, <2>2, <2>3
<1>12. Taken' /\ Found'
  <2>1. Taken'
    BY <1>2, <1>3, <1>4, <1>6 DEF CalmInv, Taken
  <2>2. Found'
    BY <1>1, <1>4, <1>5, <1>6 DEF Found
  <2> QED BY <2>1, <2>2
<1>13. Doomed'
  <2>1. \A u \in Thread : Dooms(u)' <=> Dooms(u)
    BY <1>6 DEF Dooms
  <2>2. \A m \in Map : top'[m] = "addGlobal" => ~bDeleted'
    BY <1>2, <1>4, <1>5, <1>6 DEF CalmInv, Doomed
  <2> QED BY <1>2, <1>4, <1>6, <1>8, <2>1, <2>2 DEF CalmInv, Doomed
<1> QED BY <1>4, <1>6, <1>7, <1>9, <1>10, <1>11, <1>12, <1>13 DEF Inv, CalmInv

LEMMA StepAddGlobalSession ==
  ASSUME Inv, Running, NEW t \in Thread, AddGlobalSession(t)
  PROVE  Inv'
<1> USE Names
<1>1. top[t] = "addGlobal" /\ t \in Map /\ t # World
  BY Where DEF Inv, AddGlobalSession, Shape, Leave
<1>2. CalmInv /\ ~freed
  BY DEF Inv, Running, Calm
<1>3. mapMgr = None /\ instanceId = World /\ t \in handed /\ ~bDeleted
  BY <1>1, <1>2 DEF Inv, HandedOver, CalmInv, Away, Doomed
<1>4. /\ Flags' /\ SessionsMutex' = SessionsMutex /\ Sessions' = Sessions \cup {World}
      /\ UNCHANGED <<instanceId, handed, bDeleted, freed, overtaken, player, mapMgr, pool, local>>
  BY DEF AddGlobalSession, timers, ending, character, Inv, Flags
<1>5. PICK l \in {"sendNewWorld", "loggedOut"} : Goes(t, l, base[t])
  BY <1>1, ReturnLeave DEF Inv, Leave, AddGlobalSession
<1>6. /\ Control'
      /\ \A u \in Thread : /\ top'[u] = IF u = t THEN l ELSE top[u]
                           /\ base'[u] = base[u]
  BY <1>5 DEF Goes
<1>7. Places' /\ NeverLost' /\ Mutex'
  BY <1>1, <1>3, <1>4, <1>5, MutexKept DEF Inv, Places, NeverLost
<1>8. \A u \in Thread \ {World} : Engaged(u)' <=> Engaged(u)
  BY <1>4, <1>6 DEF Engaged
<1>9. OneContext' /\ LeftAlone'
  BY <1>2, <1>3, <1>4, <1>8 DEF Inv, OneContext, LeftAlone
<1>10. HandedOver'
  BY <1>1, <1>3, <1>4, <1>6 DEF Inv, HandedOver
<1>11. Context' /\ AtHome' /\ Leaving' /\ Away' /\ Placed'
  <2>1. Context'
    BY <1>1, <1>2, <1>4, <1>6 DEF CalmInv, Context
  <2>2. AtHome' /\ Leaving' /\ Away'
    BY <1>1, <1>2, <1>3, <1>4, <1>6 DEF CalmInv, AtHome, Leaving, Away
  <2>3. Placed'
    BY <1>2, <1>4 DEF CalmInv, Placed
  <2> QED BY <2>1, <2>2, <2>3
<1>12. Taken' /\ Found'
  <2>1. Taken'
    BY <1>1, <1>2, <1>4, <1>6 DEF CalmInv, Taken
  <2>2. Found'
    BY <1>3, <1>4 DEF Found
  <2> QED BY <2>1, <2>2
<1>13. Doomed'
  <2>1. \A u \in Thread : ~Dooms(u)'
    BY <1>2, <1>3, <1>6 DEF Dooms, CalmInv, Doomed
  <2> QED BY <1>3, <1>4, <2>1 DEF Doomed
<1> QED BY <1>4, <1>6, <1>7, <1>9, <1>10, <1>11, <1>12, <1>13 DEF Inv, CalmInv

\* A map takes the player and the session over from its insert pool.
LEMMA StepPushObject ==
  ASSUME Inv, Running, NEW m \in Map, PushObject(m)
  PROVE  Inv'
<1> USE Names
<1>1. top[m] = "idle" /\ base[m] = "idle" /\ m \in pool
  BY Parts DEF Inv, PushObject
<1>2. CalmInv /\ ~freed
  BY DEF Inv, Running, Calm
<1>3. mapMgr = m
  BY <1>1, <1>2 DEF CalmInv, Placed
<1>4. /\ Flags' /\ SessionsMutex' = SessionsMutex /\ instanceId' = m
      /\ Sessions' = Sessions \cup {m}
      /\ UNCHANGED <<handed, bDeleted, freed, overtaken, player, mapMgr, pool, local>>
  BY <1>3 DEF PushObject, timers, ending, Inv, Flags
<1>5. Goes(m, "pushed", "pushed")
  <2>1. pc' = [pc EXCEPT ![m] = <<"pushed">>] /\ <<"pushed">> \in Stack(m)
    BY DEF PushObject, Stack, MapStack
  <2>2. TopOf(<<"pushed">>) = "pushed" /\ BaseOf(<<"pushed">>) = "pushed"
    BY Ends1
  <2> QED BY <2>1, <2>2, Moved DEF Inv
<1>6. /\ Control'
      /\ \A u \in Thread : /\ top'[u] = IF u = m THEN "pushed" ELSE top[u]
                           /\ base'[u] = IF u = m THEN "pushed" ELSE base[u]
  BY <1>5 DEF Goes
<1>7. Places' /\ NeverLost' /\ Mutex'
  BY <1>4, <1>5, MutexKept DEF Inv, Places, NeverLost
<1>8. \A u \in Thread \ {m} : Engaged(u)' => Engaged(u)
  BY <1>4, <1>6 DEF Engaged
<1>9. ASSUME NEW u \in Thread \ {m}, Engaged(u)
      PROVE  u \in handed
  <2>1. SUFFICES ASSUME instanceId = u
                 PROVE  u \in handed
    BY <1>9 DEF Inv, OneContext
  <2>2. CASE u = World
    BY <1>2, <1>3, <2>1, <2>2 DEF Inv, HandedOver, CalmInv, Context
  <2>3. CASE u \in Map
    BY <1>2, <1>3, <1>9, <2>1, <2>3 DEF CalmInv, Context, Leaving
  <2> QED BY <2>2, <2>3
<1>10. OneContext' /\ LeftAlone'
  BY <1>2, <1>4, <1>8, <1>9 DEF OneContext, LeftAlone
<1>11. HandedOver'
  BY <1>4, <1>6 DEF Inv, HandedOver
<1>12. Context' /\ AtHome' /\ Leaving' /\ Away' /\ Placed'
  <2>1. Context'
    BY <1>2, <1>3, <1>4, <1>6 DEF CalmInv, Context
  <2>2. AtHome' /\ Leaving' /\ Away'
    BY <1>2, <1>3, <1>4, <1>6 DEF CalmInv, AtHome, Leaving, Away
  <2>3. Placed'
    BY <1>2, <1>4 DEF CalmInv, Placed
  <2> QED BY <2>1, <2>2, <2>3
<1>13. Taken' /\ Found'
  BY <1>2, <1>3, <1>4, <1>6 DEF CalmInv, Taken, Found
<1>14. Doomed'
  <2>1. \A u \in Thread : ~Dooms(u)
    BY <1>1, <1>2, <1>3 DEF Dooms, CalmInv, Doomed
  <2>2. ~bDeleted
    BY <1>2, <2>1 DEF CalmInv, Doomed
  <2>3. \A u \in Thread : ~Dooms(u)'
    BY <1>6, <2>1 DEF Dooms
  <2> QED BY <1>4, <2>2, <2>3 DEF Doomed
<1> QED BY <1>4, <1>6, <1>7, <1>10, <1>11, <1>12, <1>13, <1>14 DEF Inv, CalmInv

LEMMA StepOnPushToWorld ==
  ASSUME Inv, Running, NEW m \in Map, OnPushToWorld(m)
  PROVE  Inv'
<1> USE Names
<1>1. top[m] = "pushed" /\ base[m] = "pushed"
  BY Where DEF Inv, OnPushToWorld, Shape
<1>2. CalmInv /\ ~freed
  BY DEF Inv, Running, Calm
<1>3. mapMgr = m /\ instanceId = m /\ m \in Sessions
  BY <1>1, <1>2 DEF CalmInv, AtHome, Taken
<1>4. /\ Flags' /\ SessionsMutex' = SessionsMutex /\ pool' = pool \ {m}
      /\ UNCHANGED <<instanceId, Sessions, handed, bDeleted, freed, overtaken, player, mapMgr, local>>
  BY DEF OnPushToWorld, session, timers, ending, Inv, Flags
<1>5. Goes(m, "idle", "idle")
  BY <1>1, ReturnIdle DEF Inv, OnPushToWorld
<1>6. /\ Control'
      /\ \A u \in Thread : /\ top'[u] = IF u = m THEN "idle" ELSE top[u]
                           /\ base'[u] = IF u = m THEN "idle" ELSE base[u]
  BY <1>5 DEF Goes
<1>7. Places' /\ NeverLost' /\ Mutex'
  BY <1>3, <1>4, <1>5, MutexKept DEF Inv, Places, NeverLost
<1>8. \A u \in Thread : Engaged(u)' => Engaged(u)
  BY <1>1, <1>4, <1>6 DEF Engaged
<1>9. OneContext' /\ LeftAlone'
  BY <1>2, <1>4, <1>8 DEF Inv, OneContext, LeftAlone
<1>10. HandedOver'
  BY <1>4, <1>6 DEF Inv, HandedOver
<1>11. Context' /\ AtHome' /\ Leaving' /\ Away' /\ Placed'
  <2>1. Context'
    BY <1>1, <1>2, <1>3, <1>4, <1>6 DEF CalmInv, Context
  <2>2. AtHome' /\ Leaving' /\ Away'
    BY <1>2, <1>4, <1>6 DEF CalmInv, AtHome, Leaving, Away
  <2>3. Placed'
    BY <1>2, <1>4 DEF CalmInv, Placed
  <2> QED BY <2>1, <2>2, <2>3
<1>12. Taken' /\ Found'
  BY <1>2, <1>3, <1>4, <1>6 DEF CalmInv, Taken, Found
<1>13. Doomed'
  <2>1. \A u \in Thread : Dooms(u)' <=> Dooms(u)
    BY <1>1, <1>6 DEF Dooms
  <2>2. \A u \in Thread : base'[u] = "delete" => base[u] = "delete"
    BY <1>6
  <2>3. \A n \in Map : top'[n] = "addGlobal" => top[n] = "addGlobal"
    BY <1>6
  <2> QED BY <1>2, <1>4, <1>8, <2>1, <2>2, <2>3 DEF CalmInv, Doomed
<1> QED BY <1>4, <1>6, <1>7, <1>9, <1>10, <1>11, <1>12, <1>13 DEF Inv, CalmInv

\* The client, the socket's worker and time.
LEMMA StepOutside ==
  ASSUME Inv, QueuePacket \/ OnDisconnect \/ Kick \/ Tick
  PROVE  Inv'
<1>1. packets' \in 0 .. MaxPackets
  BY MapSessionsAssumption
  DEF QueuePacket, OnDisconnect, Kick, Tick, LogoutTimeComes, Inv, Flags
<1>2. /\ pc' = pc /\ SessionsMutex' = SessionsMutex /\ UNCHANGED core /\ Flags'
  BY <1>1 DEF QueuePacket, OnDisconnect, Kick, Tick, LogoutTimeComes, session, ending, character,
              control, core, Inv, Flags
<1> QED BY <1>2, Still

LEMMA StepUpdate ==
  ASSUME Inv, Running, NEW t \in Thread, Update(t)
  PROVE  Inv'
BY StepTestSocket, StepNoMorePackets, StepQuietPacket, StepEnter, StepTeleport, StepPlayerLogout,
   StepCompare, StepTestTimer, StepDeleted, StepPing, StepAdded, StepSetInstance,
   StepSendNewWorld, StepLogoutPlayer, StepLoggedOut, StepRemove, StepRelease
DEF Update, Packet

LEMMA InitInv == Init => Inv
<1> USE Names
<1> SUFFICES ASSUME Init PROVE Inv
  OBVIOUS
<1>1. \A t \in Thread : pc[t] = <<>>
  BY DEF Init
<1>2. \A t \in Thread : top[t] = "idle" /\ base[t] = "idle"
  BY <1>1, Ends0 DEF top, base
<1>3. Control
  <2>1. <<>> \in WorldStack /\ <<>> \in MapStack
    BY DEF WorldStack, MapStack
  <2>2. pc \in [Thread -> WorldStack \cup MapStack]
    BY <2>1 DEF Init
  <2>3. \A t \in Thread : Shape(t, "idle", "idle")
    BY DEF Shape, Work, Back, Leave
  <2> QED BY <1>1, <1>2, <2>1, <2>2, <2>3 DEF Control, Stack
<1>4. Flags /\ Places /\ Mutex
  <2>1. Flags
    <3>1. packets \in 0 .. MaxPackets
      BY MapSessionsAssumption DEF Init
    <3> QED BY <3>1 DEF Init, Flags
  <2>2. Places
    BY DEF Init, Places
  <2>3. Mutex
    BY <1>2 DEF Init, Mutex
  <2> QED BY <2>1, <2>2, <2>3
<1>5. OneContext /\ HandedOver /\ LeftAlone /\ NeverLost
  BY <1>2 DEF Init, OneContext, HandedOver, LeftAlone, NeverLost, Engaged
<1>6. CalmInv
  BY <1>2 DEF Init, CalmInv, Context, AtHome, Leaving, Away, Placed, Taken, Found, Doomed, Dooms
<1> QED BY <1>3, <1>4, <1>5, <1>6 DEF Inv

LEMMA NextInv == Inv /\ [Next]_vars => Inv'
<1> SUFFICES ASSUME Inv, [Next]_vars PROVE Inv'
  OBVIOUS
<1> USE Names
<1>1. ASSUME Running, NEW t \in Thread, Step(t) \/ AddGlobalSession(t)
      PROVE  Inv'
  BY <1>1, StepVisit, StepUpdate, StepDeleteSession, StepUnlock, StepPushObject,
     StepOnPushToWorld, StepAddGlobalSession DEF Step
<1>2. ASSUME Running, NEW m \in Map, EventTeleport(m) \/ EventKick(m)
      PROVE  Inv'
  BY <1>2, StepHappens
<1>3. CASE QueuePacket \/ OnDisconnect \/ Kick \/ Tick
  BY <1>3, StepOutside
<1>4. CASE UNCHANGED vars
  BY <1>4, Still DEF vars, session, timers, ending, character, control, core, Inv, Flags
<1> QED BY <1>1, <1>2, <1>3, <1>4 DEF Next

-----------------------------------------------------------------------------
(* What follows from the invariant. *)

\* The stacks have labels only, and at most three.
LEMMA Labels ==
  ASSUME Control, NEW t \in Thread
  PROVE  Len(pc[t]) <= 3 /\ \A i \in 1 .. Len(pc[t]) : pc[t][i] \in Label
<1>1. pc[t] \in WorldStack \cup MapStack
  BY Parts
<1>2. ASSUME NEW l \in Label, pc[t] = <<l>>
      PROVE  Len(pc[t]) <= 3 /\ \A i \in 1 .. Len(pc[t]) : pc[t][i] \in Label
  BY <1>2
<1>3. ASSUME NEW l \in Label, NEW k \in Label, pc[t] = <<l, k>>
      PROVE  Len(pc[t]) <= 3 /\ \A i \in 1 .. Len(pc[t]) : pc[t][i] \in Label
  BY <1>3
<1>4. ASSUME NEW l \in Label, NEW k \in Label, NEW b \in Label, pc[t] = <<l, k, b>>
      PROVE  Len(pc[t]) <= 3 /\ \A i \in 1 .. Len(pc[t]) : pc[t][i] \in Label
  BY <1>4
<1>5. CASE pc[t] = <<>>
  BY <1>5
<1>6. /\ Work \subseteq Label /\ Back \subseteq Label /\ Leave \subseteq Label
      /\ {"unlock", "delete", "added", "setInstance", "logout", "loggedOut", "pushed",
          "sendNewWorld", "compare"} \subseteq Label
  BY DEF Work, Back, Leave, Label
<1>7. \/ pc[t] = <<>>
      \/ \E l \in Label : pc[t] = <<l>>
      \/ \E l, k \in Label : pc[t] = <<l, k>>
      \/ \E l, k, b \in Label : pc[t] = <<l, k, b>>
  BY <1>1, <1>6 DEF WorldStack, MapStack
<1> QED BY <1>2, <1>3, <1>4, <1>5, <1>7

LEMMA InvTypeOK == Inv => TypeOK
<1> SUFFICES ASSUME Inv PROVE TypeOK
  OBVIOUS
<1> USE Names
<1>1. \A t \in Thread : /\ Len(pc[t]) <= 3
                        /\ \A i \in 1 .. Len(pc[t]) : pc[t][i] \in Label
                        /\ local[t] \in Map \cup {None}
  BY Labels DEF Inv, Places
<1>2. SessionsMutex = World <=> pc[World] # <<>> /\ pc[World] # <<"delete">>
  BY Where DEF Inv, Mutex
<1> QED BY <1>1, <1>2 DEF Inv, Flags, Places, Mutex, TypeOK

LEMMA InvConsistent == Inv => Consistent
<1> SUFFICES ASSUME Inv PROVE Consistent
  OBVIOUS
<1>1. PoolLive
  BY MapSessionsAssumption DEF Inv, Calm, CalmInv, Placed, Places, PoolLive
<1>2. RemovedByItsMap
  <2>1. SUFFICES ASSUME overtaken = "no", NEW t \in Thread, At(t, "remove")
                 PROVE  mapMgr = t
    BY DEF RemovedByItsMap
  <2>2. top[t] = "remove" /\ t \in Map
    BY <2>1, Where, Names DEF Inv, Shape, Leave
  <2> QED BY <2>1, <2>2 DEF Inv, Calm, CalmInv, AtHome
<1> QED BY <1>1, <1>2, InvTypeOK DEF Consistent

LEMMA InvOwner == Inv => Owner
<1> SUFFICES ASSUME Inv, NEW t \in Thread, InUpdate(t)
             PROVE  instanceId = t \/ t \in handed
  BY DEF Owner
<1>1. base[t] \notin {"idle", "unlock"}
  BY Parts DEF InUpdate, Inv, BaseOf
<1> QED BY <1>1 DEF Inv, OneContext, Engaged

LEMMA InvDeletedByOwner == Inv => DeletedByOwner
<1> SUFFICES ASSUME Inv, freed, NEW t \in Thread, pc[t] \notin {<<>>, <<"unlock">>} \/ t \in Sessions
             PROVE  t \in handed
  BY DEF DeletedByOwner
<1>1. Engaged(t)
  BY Where DEF Inv, Engaged
<1> QED BY <1>1 DEF Inv, LeftAlone

LEMMA SpecInv == Spec => []Inv
<1>1. Init => Inv
  BY InitInv
<1>2. Inv /\ [Next]_vars => Inv'
  BY NextInv
<1> QED BY <1>1, <1>2, PTL DEF Spec

\* Types, insert pools that hold live players of their map, and removals by the player's
\* own map.
THEOREM SpecConsistent == Spec => []Consistent
BY SpecInv, InvConsistent, PTL

\* A thread updates the session only while instanceId names it, or from where it has
\* handed the session over to its next comparison of the instance ids: the unlocked
\* instanceId keeps the threads of the maps and the world thread apart.
THEOREM SpecOwner == Spec => []Owner
BY SpecInv, InvOwner, PTL

\* A live session that nobody is handing over is in the set of the thread that its
\* instanceId names, or its player in that map's insert pool.
THEOREM SpecNeverLost == Spec => []NeverLost
<1>1. Inv => NeverLost
  BY DEF Inv
<1> QED BY <1>1, SpecInv, PTL

\* When a session is deleted, only threads that have handed it over can still reach it.
THEOREM SpecDeletedByOwner == Spec => []DeletedByOwner
BY SpecInv, InvDeletedByOwner, PTL
=============================================================================

-------------------------- MODULE LogonLinkProofs ---------------------------
(***************************************************************************)
(* Proofs about LogonLink, for any number of connections and troubles: no  *)
(* link is orphaned (Consistent), a realm that is shown online is held by  *)
(* a socket that will set it offline (OnlineHeld), and the realm of a link *)
(* is online while the link rests (RestartedOnlineInOrder).                *)
(***************************************************************************)
EXTENDS LogonLink, TLAPS

Request == {"syn", "auth", "register", "pop", "fin"}
Answer == {"authOk", "registered", "fin"}

\* A message m is under way in q; at most one is.
Carries(q, m) == \E i \in DOMAIN q : q[i] = m
Once(q, m) == \A i, j \in DOMAIN q : q[i] = m /\ q[j] = m => i = j

-----------------------------------------------------------------------------
(* The world's side. *)

\* The link of the watcher is the entry, until it is given up.  Only the first
\* link is made without mapLock, and then there is none to be dropped.
Watch ==
  /\ watcher.at = "connectAll" => id = {} /\ worker.at # "dropped"
  /\ watcher.at = "authenticate" =>
       /\ entry = watcher.c
       /\ mapLock \/ (id = {} /\ worker.at # "dropped")
  /\ watcher.at = "register" => entry \in {watcher.c, None}
  /\ watcher.at = "giveUp" => entry = None

Closed == worker.at # "wait" => worker.c \notin worldOpen

\* While the worker is on its way to take the entry out, there is no sound link
\* there: a new one cannot be authenticated, since the worker would have to read
\* the answer.
Drop ==
  worker.at = "dropped" \/ (worker.at = "onDisconnect" /\ worker.c \in id)
    => entry \notin worldOpen \cap (id \cup authenticated)

WorldInv == Watch /\ Closed /\ Drop /\ NoOrphan

-----------------------------------------------------------------------------
(* The authentication passes over each connection once. *)

Asked(c) == Carries(toLogon[c], "auth") \/ logonWorker = [at |-> "auth", c |-> c]

Handshake ==
  \A c \in Conn :
    /\ Once(toLogon[c], "auth") /\ Once(toWorld[c], "authOk")
    /\ logonWorker = [at |-> "auth", c |-> c] => ~Carries(toLogon[c], "auth")
    /\ Carries(toWorld[c], "authOk") => ~Asked(c)
    /\ c \in authenticated \cup id => ~Asked(c) /\ ~Carries(toWorld[c], "authOk")

-----------------------------------------------------------------------------
(* The logon server's side. *)

\* A socket in the registry is open, or the worker is at its end; a connection
\* that was not accepted yet is unknown to all.
Sockets ==
  /\ \A c \in serverSockets :
       \/ c \in logonOpen
       \/ logonWorker.at \in {"onDisconnect", "remove"} /\ logonWorker.c = c
  /\ main.at = "disconnect" => main.c \notin serverSockets
  /\ \A c \in Conn :
       /\ Once(toLogon[c], "syn")
       /\ Carries(toLogon[c], "syn") =>
            c \notin logonOpen \cup serverSockets \cup {logonWorker.c, main.c}

\* A socket has no ids but its own; its population is reported when it has it;
\* and its realm is offline before it leaves the registry, unless raced.
Realms ==
  /\ \A c \in Conn :
       /\ server_ids[c] \subseteq {c}
       /\ Carries(toLogon[c], "pop") \/ logonWorker = [at |-> "pop", c |-> c]
            => c \in server_ids[c]
  /\ logonWorker.at # "wait" => logonWorker.c \in Conn
  /\ main.at # "wait" => main.c \in Conn
  /\ logonWorker.at = "reply" => realm = logonWorker.c
  /\ logonWorker.at = "remove" => ~online \/ realm \notin server_ids[logonWorker.c]
  /\ main.at = "remove" => raced \/ ~online \/ realm \notin server_ids[main.c]

Inv == TypeOK /\ WorldInv /\ Handshake /\ Sockets /\ Realms /\ OnlineHeld

-----------------------------------------------------------------------------
(* Sending and reading. *)

LEMMA CarriesAppend ==
  ASSUME NEW S, NEW q \in Seq(S), NEW x \in S, NEW m
  PROVE  /\ Carries(Append(q, x), m) => Carries(q, m) \/ m = x
         /\ Once(q, m) /\ (m # x \/ ~Carries(q, m)) => Once(Append(q, x), m)
BY DEF Carries, Once

LEMMA CarriesTail ==
  ASSUME NEW S, NEW q \in Seq(S), q # <<>>, NEW m
  PROVE  /\ Carries(Tail(q), m) => Carries(q, m)
         /\ Once(q, m) => Once(Tail(q), m)
         /\ Once(q, m) /\ Head(q) = m => ~Carries(Tail(q), m)
         /\ Carries(q, Head(q))
BY DEF Carries, Once

LEMMA CarriesEmpty == \A m : ~Carries(<<>>, m) /\ Once(<<>>, m)
BY DEF Carries, Once

\* What a new connection carries.
LEMMA CarriesDialled ==
  /\ Once(<<"syn", "auth">>, "syn") /\ Once(<<"syn", "auth">>, "auth")
  /\ ~Carries(<<"syn", "auth">>, "pop")
BY DEF Carries, Once

\* p comes from q by sending m on c, by taking c's first message, by emptying c, or
\* is the same.
Sent(p, q, c, m) ==
  \A d \in Conn :
    \/ p[d] = q[d]
    \/ d = c /\ \/ p[d] = Append(q[d], m)
                \/ q[d] # <<>> /\ p[d] = Tail(q[d])
                \/ p[d] = <<>>

Channels == toLogon \in [Conn -> Seq(Request)] /\ toWorld \in [Conn -> Seq(Answer)]

LEMMA RequestsCarry ==
  ASSUME Channels, NEW c, NEW x \in Request, Sent(toLogon', toLogon, c, x),
         NEW d \in Conn, NEW m
  PROVE  /\ Carries(toLogon'[d], m) => Carries(toLogon[d], m) \/ (m = x /\ d = c)
         /\ Once(toLogon[d], m) /\ (m # x \/ ~Carries(toLogon[d], m)) => Once(toLogon'[d], m)
<1>0. toLogon[d] \in Seq(Request)
  BY DEF Channels
<1>1. CASE toLogon'[d] = toLogon[d]
  BY <1>1
<1>2. CASE d = c /\ toLogon'[d] = Append(toLogon[d], x)
  BY <1>0, <1>2, CarriesAppend
<1>3. CASE toLogon'[d] = <<>>
  BY <1>3, CarriesEmpty
<1>4. CASE toLogon[d] # <<>> /\ toLogon'[d] = Tail(toLogon[d])
  BY <1>0, <1>4, CarriesTail
<1> QED BY <1>1, <1>2, <1>3, <1>4 DEF Sent

LEMMA AnswersCarry ==
  ASSUME Channels, NEW c, NEW x \in Answer, Sent(toWorld', toWorld, c, x),
         NEW d \in Conn, NEW m
  PROVE  /\ Carries(toWorld'[d], m) => Carries(toWorld[d], m) \/ (m = x /\ d = c)
         /\ Once(toWorld[d], m) /\ (m # x \/ ~Carries(toWorld[d], m)) => Once(toWorld'[d], m)
<1>0. toWorld[d] \in Seq(Answer)
  BY DEF Channels
<1>1. CASE toWorld'[d] = toWorld[d]
  BY <1>1
<1>2. CASE d = c /\ toWorld'[d] = Append(toWorld[d], x)
  BY <1>0, <1>2, CarriesAppend
<1>3. CASE toWorld'[d] = <<>>
  BY <1>3, CarriesEmpty
<1>4. CASE toWorld[d] # <<>> /\ toWorld'[d] = Tail(toWorld[d])
  BY <1>0, <1>4, CarriesTail
<1> QED BY <1>1, <1>2, <1>3, <1>4 DEF Sent

LEMMA Typed == Inv => Channels
BY DEF Inv, TypeOK, Channels, Request, Answer

LEMMA SendsSent ==
  ASSUME Channels, NEW c \in Conn
  PROVE  /\ \A m \in Request : WorldSends(c, m) =>
              toLogon' \in [Conn -> Seq(Request)] /\ Sent(toLogon', toLogon, c, m)
         /\ \A m \in Answer : LogonSends(c, m) =>
              toWorld' \in [Conn -> Seq(Answer)] /\ Sent(toWorld', toWorld, c, m)
<1>1. ASSUME NEW m \in Request, WorldSends(c, m)
      PROVE  toLogon' \in [Conn -> Seq(Request)] /\ Sent(toLogon', toLogon, c, m)
  <2>1. Append(toLogon[c], m) \in Seq(Request)
    BY DEF Channels
  <2> QED BY <1>1, <2>1 DEF Channels, WorldSends, Sent
<1>2. ASSUME NEW m \in Answer, LogonSends(c, m)
      PROVE  toWorld' \in [Conn -> Seq(Answer)] /\ Sent(toWorld', toWorld, c, m)
  <2>1. Append(toWorld[c], m) \in Seq(Answer)
    BY DEF Channels
  <2> QED BY <1>2, <2>1 DEF Channels, LogonSends, Sent
<1> QED BY <1>1, <1>2

\* Closing a socket sends the end of the stream and forgets what was received.
LEMMA CloseSent ==
  ASSUME Channels, NEW c \in Conn
  PROVE  /\ CloseWorld(c) => /\ Channels' /\ worldOpen' = worldOpen \ {c}
                             /\ Sent(toLogon', toLogon, c, "fin")
                             /\ Sent(toWorld', toWorld, c, "fin")
         /\ CloseLogon(c) => /\ Channels' /\ logonOpen' = logonOpen \ {c}
                             /\ Sent(toLogon', toLogon, c, "fin")
                             /\ Sent(toWorld', toWorld, c, "fin")
<1>1. ASSUME CloseWorld(c)
      PROVE  /\ Channels' /\ worldOpen' = worldOpen \ {c}
             /\ Sent(toLogon', toLogon, c, "fin") /\ Sent(toWorld', toWorld, c, "fin")
  <2>1. toLogon' \in [Conn -> Seq(Request)] /\ Sent(toLogon', toLogon, c, "fin")
    BY <1>1, SendsSent DEF CloseWorld, Request
  <2>2. toWorld' \in [Conn -> Seq(Answer)] /\ Sent(toWorld', toWorld, c, "fin")
    BY <1>1 DEF CloseWorld, Channels, Sent, Answer
  <2> QED BY <1>1, <2>1, <2>2 DEF CloseWorld, Channels
<1>2. ASSUME CloseLogon(c)
      PROVE  /\ Channels' /\ logonOpen' = logonOpen \ {c}
             /\ Sent(toLogon', toLogon, c, "fin") /\ Sent(toWorld', toWorld, c, "fin")
  <2>1. toWorld' \in [Conn -> Seq(Answer)] /\ Sent(toWorld', toWorld, c, "fin")
    BY <1>2, SendsSent DEF CloseLogon, Answer
  <2>2. toLogon' \in [Conn -> Seq(Request)] /\ Sent(toLogon', toLogon, c, "fin")
    BY <1>2 DEF CloseLogon, Channels, Sent, Request
  <2> QED BY <1>2, <2>1, <2>2 DEF CloseLogon, Channels
<1> QED BY <1>1, <1>2

-----------------------------------------------------------------------------
(* What most steps leave alone. *)

\* The logon server's steps do not touch the world's variables.
LEMMA WorldFrame == Inv /\ UNCHANGED worldVars => WorldInv'
BY DEF Inv, worldVars, worldSockets, handler, WorldInv, Watch, Closed, Drop, NoOrphan

\* No step but the dial, the reading of a challenge and its answer has to do with
\* the handshake, as long as it sends neither and nothing new is authenticated.
LEMMA HandshakeFrame ==
  ASSUME Inv, NEW c,
         NEW x \in Request \ {"auth"}, Sent(toLogon', toLogon, c, x),
         NEW y \in Answer \ {"authOk"}, Sent(toWorld', toWorld, c, y),
         logonWorker' = logonWorker \/ logonWorker'.at # "auth",
         authenticated' \cup id' \subseteq authenticated \cup id
  PROVE  Handshake'
<1> SUFFICES ASSUME NEW d \in Conn
             PROVE  /\ Once(toLogon'[d], "auth") /\ Once(toWorld'[d], "authOk")
                    /\ logonWorker' = [at |-> "auth", c |-> d] => ~Carries(toLogon'[d], "auth")
                    /\ Carries(toWorld'[d], "authOk") => ~Asked(d)'
                    /\ d \in authenticated' \cup id' =>
                         ~Asked(d)' /\ ~Carries(toWorld'[d], "authOk")
  BY DEF Handshake
<1>1. Channels
  BY Typed
<1>2. /\ Carries(toLogon'[d], "auth") => Carries(toLogon[d], "auth")
      /\ Once(toLogon[d], "auth") => Once(toLogon'[d], "auth")
  BY <1>1, RequestsCarry
<1>3. /\ Carries(toWorld'[d], "authOk") => Carries(toWorld[d], "authOk")
      /\ Once(toWorld[d], "authOk") => Once(toWorld'[d], "authOk")
  BY <1>1, AnswersCarry
<1>4. logonWorker' = [at |-> "auth", c |-> d] => logonWorker = [at |-> "auth", c |-> d]
  OBVIOUS
<1> QED BY <1>2, <1>3, <1>4 DEF Inv, Handshake, Asked

\* The world's steps but the dial and the report of the population have to do with
\* the logon server only by what they send.
LEMMA LogonFrame ==
  ASSUME Inv, UNCHANGED logonVars, NEW c,
         NEW x \in {"register", "fin"}, Sent(toLogon', toLogon, c, x)
  PROVE  Sockets' /\ Realms' /\ OnlineHeld'
<1> USE DEF logonVars, registry, Inv
<1>1. \A d \in Conn : /\ Carries(toLogon'[d], "syn") => Carries(toLogon[d], "syn")
                      /\ Carries(toLogon'[d], "pop") => Carries(toLogon[d], "pop")
                      /\ Once(toLogon[d], "syn") => Once(toLogon'[d], "syn")
  <2>1. x \in Request
    BY DEF Request
  <2> QED BY <2>1, Typed, RequestsCarry
<1>2. Sockets'
  BY <1>1 DEF Sockets
<1>3. Realms'
  BY <1>1 DEF Realms
<1>4. OnlineHeld'
  BY DEF OnlineHeld
<1> QED BY <1>2, <1>3, <1>4

\* A step of the world's threads or of the network, but the dial, the reading of the
\* first answer and the report of the population.
LEMMA WorldStep ==
  ASSUME Inv, NEW c, NEW x \in {"register", "fin"},
         Sent(toLogon', toLogon, c, x), Sent(toWorld', toWorld, c, "fin"),
         UNCHANGED logonVars, authenticated' \cup id' \subseteq authenticated \cup id,
         TypeOK', WorldInv'
  PROVE  Inv'
<1>1. Handshake'
  BY HandshakeFrame DEF Request, Answer, logonVars
<1>2. Sockets' /\ Realms' /\ OnlineHeld'
  BY LogonFrame
<1> QED BY <1>1, <1>2 DEF Inv

-----------------------------------------------------------------------------
(* The network and the watcher. *)

LEMMA TroubleType == Inv /\ (Trouble \/ UNCHANGED troubles) => troubles' \in 0 .. MaxTroubles
BY LogonLinkAssumption DEF Inv, TypeOK, Trouble

LEMMA CutInv ==
  ASSUME Inv, NEW c \in Conn, Cut(c)
  PROVE  Inv'
<1>1. Channels' /\ Sent(toLogon', toLogon, c, "fin") /\ Sent(toWorld', toWorld, c, "fin")
  BY Typed DEF Cut, Channels, Sent
<1>2. TypeOK'
  <2>1. troubles' \in 0 .. MaxTroubles
    BY TroubleType DEF Cut
  <2>2. UNCHANGED <<worldOpen, authenticated, id, entry, Registered, mapLock, watcher, worker,
                    logonOpen, serverSockets, server_ids, realm, online, logonWorker, main,
                    raced>>
    BY DEF Cut, worldVars, worldSockets, handler, logonVars, registry
  <2>3. cut' \subseteq Conn
    BY DEF Cut, Inv, TypeOK
  <2>4. TypeOK
    BY DEF Inv
  <2>5. /\ toLogon' \in [Conn -> Seq({"syn", "auth", "register", "pop", "fin"})]
        /\ toWorld' \in [Conn -> Seq({"authOk", "registered", "fin"})]
    BY <1>1 DEF Channels, Request, Answer
  <2> QED BY <2>1, <2>2, <2>3, <2>4, <2>5 DEF TypeOK
<1>3. WorldInv'
  BY WorldFrame DEF Cut
<1> QED BY <1>1, <1>2, <1>3, WorldStep DEF Cut, worldVars, worldSockets

\* A new link is the entry, and no other was.
LEMMA ConnectInv ==
  ASSUME Inv, NEW c \in Conn, Connect(c)
  PROVE  Inv'
<1> USE LogonLinkAssumption DEF Connect, Fresh, MayConnect, Inv
<1>1. toLogon' \in [Conn -> Seq(Request)]
  <2>1. <<"syn", "auth">> \in Seq(Request)
    BY DEF Request
  <2> QED BY <2>1, Typed DEF Channels
<1>2. TypeOK'
  BY <1>1 DEF TypeOK, Request, Place
<1>3. WorldInv'
  <2>1. \A d \in worldOpen \cap id : FALSE
    BY DEF WorldInv, Watch, NoOrphan, TypeOK
  <2>2. Watch'
    BY DEF WorldInv, Watch, TypeOK
  <2>3. Closed' /\ Drop'
    BY DEF WorldInv, Closed, Drop, TypeOK
  <2>4. NoOrphan'
    BY <2>1 DEF NoOrphan
  <2> QED BY <2>2, <2>3, <2>4 DEF WorldInv
<1>4. \A d \in Conn : toLogon'[d] = IF d = c THEN <<"syn", "auth">> ELSE toLogon[d]
  BY Typed DEF Channels
<1>5. c \notin serverSockets
  BY DEF Sockets
<1>6. Handshake'
  BY <1>4, CarriesDialled, CarriesEmpty DEF Handshake, Asked
<1>7. Sockets'
  BY <1>4, <1>5, CarriesDialled DEF Sockets
<1>8. Realms'
  BY <1>4, CarriesDialled DEF Realms, TypeOK
<1>9. OnlineHeld'
  BY <1>5 DEF OnlineHeld, TypeOK
<1> QED BY <1>2, <1>3, <1>6, <1>7, <1>8, <1>9

LEMMA ConnectFailsInv ==
  ASSUME Inv, ConnectFails
  PROVE  Inv'
<1>0. troubles' \in 0 .. MaxTroubles
  BY TroubleType DEF ConnectFails
<1>1. TypeOK'
  BY <1>0 DEF ConnectFails, Inv, TypeOK, Place, worldSockets, logonVars, registry
<1>2. WorldInv'
  BY DEF ConnectFails, Inv, TypeOK, Place, worldSockets, WorldInv, Watch, Closed, Drop,
         NoOrphan
<1>3. Sent(toLogon', toLogon, None, "fin") /\ Sent(toWorld', toWorld, None, "fin")
  BY DEF ConnectFails, Sent
<1> QED BY <1>1, <1>2, <1>3, WorldStep DEF ConnectFails, worldSockets

\* The link gets the id; it is the entry.
LEMMA RequestAdditionInv ==
  ASSUME Inv, RequestAddition
  PROVE  Inv'
<1> DEFINE c == watcher.c
<1> USE DEF RequestAddition, Inv
<1>1. PICK d \in Conn : d = watcher.c
  BY DEF TypeOK
<1>2. toLogon' \in [Conn -> Seq(Request)] /\ Sent(toLogon', toLogon, d, "register")
  BY <1>1, Typed, SendsSent DEF Request
<1>3. Sent(toWorld', toWorld, d, "fin")
  BY DEF Sent
<1>4. TypeOK'
  BY <1>1, <1>2 DEF TypeOK, Request, Place, logonVars, registry
<1>5. WorldInv'
  BY <1>1 DEF TypeOK, Place, WorldInv, Watch, Closed, Drop, NoOrphan
<1> QED BY <1>1, <1>2, <1>3, <1>4, <1>5, WorldStep

\* The watcher closes a link, or finds it closed.
LEMMA ClosesOrNot ==
  ASSUME Inv, NEW c,
         IF c \in worldOpen THEN CloseWorld(c) ELSE UNCHANGED <<worldOpen, toLogon, toWorld>>
  PROVE  /\ Channels' /\ worldOpen' = worldOpen \ {c}
         /\ Sent(toLogon', toLogon, c, "fin") /\ Sent(toWorld', toWorld, c, "fin")
<1>1. CASE c \in worldOpen
  <2>1. c \in Conn
    BY <1>1 DEF Inv, TypeOK
  <2> QED BY <1>1, <2>1, CloseSent, Typed
<1>2. CASE c \notin worldOpen
  BY <1>2, Typed DEF Channels, Sent
<1> QED BY <1>1, <1>2

LEMMA AuthTimeOutInv ==
  ASSUME Inv, AuthTimeOut
  PROVE  Inv'
<1> PICK c : c = watcher.c
  OBVIOUS
<1>1. /\ Channels' /\ worldOpen' = worldOpen \ {c}
      /\ Sent(toLogon', toLogon, c, "fin") /\ Sent(toWorld', toWorld, c, "fin")
  BY ClosesOrNot DEF AuthTimeOut
<1> USE LogonLinkAssumption DEF AuthTimeOut, Back, Inv
<1>0. troubles' \in 0 .. MaxTroubles
  BY TroubleType DEF TenSeconds
<1>2. TypeOK'
  BY <1>0, <1>1 DEF TypeOK, Channels, Request, Answer, Place, logonVars, registry
<1>3. WorldInv'
  BY <1>1 DEF TypeOK, Place, WorldInv, Watch, Closed, Drop, NoOrphan
<1> QED BY <1>1, <1>2, <1>3, WorldStep

LEMMA LinkedInv ==
  ASSUME Inv, Linked
  PROVE  Inv'
<1> USE DEF Linked, Back, Inv, net, worldSockets
<1>1. TypeOK'
  BY DEF TypeOK, Place, logonVars, registry
<1>2. WorldInv'
  BY DEF TypeOK, Place, WorldInv, Watch, Closed, Drop, NoOrphan
<1>3. Sent(toLogon', toLogon, None, "fin") /\ Sent(toWorld', toWorld, None, "fin")
  BY DEF Sent
<1> QED BY <1>1, <1>2, <1>3, WorldStep

LEMMA RegisterTimeOutInv ==
  ASSUME Inv, RegisterTimeOut
  PROVE  Inv'
<1> USE LogonLinkAssumption DEF RegisterTimeOut, Inv, worldSockets
<1>0. troubles' \in 0 .. MaxTroubles
  BY TroubleType DEF TenSeconds
<1>1. TypeOK'
  BY <1>0 DEF TypeOK, Place, logonVars, registry
<1>2. WorldInv'
  <2>1. watcher' = [at |-> "giveUp", c |-> watcher.c]
    BY DEF TypeOK, Place
  <2>2. Watch' /\ Closed'
    BY <2>1 DEF WorldInv, Watch, Closed
  <2>3. Drop'
    BY DEF TypeOK, WorldInv, Drop
  <2>4. NoOrphan'
    <3> SUFFICES ASSUME NEW c \in worldOpen \cap id PROVE c = watcher.c
      BY <2>1 DEF NoOrphan
    <3>1. c \in Conn /\ entry = c
      BY DEF TypeOK, WorldInv, NoOrphan
    <3> QED BY <3>1 DEF WorldInv, Watch
  <2> QED BY <2>2, <2>3, <2>4 DEF WorldInv
<1>3. Sent(toLogon', toLogon, None, "fin") /\ Sent(toWorld', toWorld, None, "fin")
  BY DEF Sent
<1> QED BY <1>1, <1>2, <1>3, WorldStep

LEMMA GiveUpInv ==
  ASSUME Inv, GiveUp
  PROVE  Inv'
<1> PICK c : c = watcher.c
  OBVIOUS
<1>1. /\ Channels' /\ worldOpen' = worldOpen \ {c}
      /\ Sent(toLogon', toLogon, c, "fin") /\ Sent(toWorld', toWorld, c, "fin")
  BY ClosesOrNot DEF GiveUp
<1> USE LogonLinkAssumption DEF GiveUp, Back, Inv
<1>2. TypeOK'
  BY <1>1 DEF TypeOK, Channels, Request, Answer, Place, logonVars, registry
<1>3. WorldInv'
  BY <1>1 DEF TypeOK, Place, WorldInv, Watch, Closed, Drop, NoOrphan
<1> QED BY <1>1, <1>2, <1>3, WorldStep

LEMMA FoundDeadInv ==
  ASSUME Inv, FoundDead
  PROVE  Inv'
<1> USE LogonLinkAssumption DEF FoundDead, Inv, net
<1>1. TypeOK'
  BY DEF TypeOK, Place, logonVars, registry
<1>2. WorldInv'
  BY DEF TypeOK, Place, WorldInv, Watch, Closed, Drop, NoOrphan
<1>3. Sent(toLogon', toLogon, None, "fin") /\ Sent(toWorld', toWorld, None, "fin")
  BY DEF Sent
<1> QED BY <1>1, <1>2, <1>3, WorldStep

LEMMA PongTimeOutInv ==
  ASSUME Inv, PongTimeOut
  PROVE  Inv'
<1> PICK c \in Conn : c = entry
  BY DEF PongTimeOut, Inv, TypeOK
<1>1. /\ Channels' /\ worldOpen' = worldOpen \ {c}
      /\ Sent(toLogon', toLogon, c, "fin") /\ Sent(toWorld', toWorld, c, "fin")
  BY CloseSent, Typed DEF PongTimeOut
<1> USE LogonLinkAssumption DEF PongTimeOut, Inv
<1>0. troubles' \in 0 .. MaxTroubles
  BY TroubleType
<1>2. TypeOK'
  BY <1>0, <1>1 DEF TypeOK, Channels, Request, Answer, Place, logonVars, registry
<1>3. WorldInv'
  BY <1>1 DEF TypeOK, Place, WorldInv, Watch, Closed, Drop, NoOrphan
<1> QED BY <1>1, <1>2, <1>3, WorldStep

-----------------------------------------------------------------------------
(* The worker of the world. *)

\* What reading the first message of c leaves.
LEMMA ReadsAnswer ==
  ASSUME Inv, NEW c \in Conn, toWorld[c] # <<>>, toWorld' = [toWorld EXCEPT ![c] = Tail(@)]
  PROVE  toWorld' \in [Conn -> Seq(Answer)] /\ Sent(toWorld', toWorld, c, "fin")
<1>1. Tail(toWorld[c]) \in Seq(Answer)
  BY Typed DEF Channels
<1> QED BY <1>1, Typed DEF Channels, Sent

\* The answer comes once, so a socket that has its id is not authenticated again.
LEMMA HandleAuthResponseInv ==
  ASSUME Inv, NEW c \in Conn, worker.at = "wait", c \in worldOpen, toWorld[c] # <<>>,
         HandleAuthResponse(c), UNCHANGED logonVars
  PROVE  Inv'
<1> USE DEF HandleAuthResponse, Inv
<1>1. toWorld' \in [Conn -> Seq(Answer)] /\ Sent(toWorld', toWorld, c, "fin")
  BY ReadsAnswer
<1>2. /\ Carries(toWorld[c], "authOk") /\ ~Carries(toWorld'[c], "authOk")
      /\ \A d \in Conn : /\ Carries(toWorld'[d], "authOk") => Carries(toWorld[d], "authOk")
                         /\ Once(toWorld'[d], "authOk")
  <2>1. toWorld[c] \in Seq(Answer) /\ toWorld'[c] = Tail(toWorld[c])
    BY Typed DEF Channels
  <2>2. Carries(toWorld[c], "authOk") /\ ~Carries(toWorld'[c], "authOk")
    BY <2>1, CarriesTail DEF Handshake
  <2> QED BY <1>1, <2>2, Typed, AnswersCarry DEF Handshake, Answer
<1>3. c \notin id /\ ~Asked(c)
  BY <1>2 DEF Handshake
<1>4. TypeOK'
  BY <1>1, <1>3 DEF TypeOK, Answer, Place, handler, logonVars, registry
<1>5. WorldInv'
  BY DEF WorldInv, Watch, Closed, Drop, NoOrphan, handler
<1>6. Handshake'
  <2>1. UNCHANGED <<toLogon, logonWorker, id>> /\ authenticated' = authenticated \cup {c}
    BY DEF logonVars
  <2> QED BY <1>2, <1>3, <2>1 DEF Handshake, Asked
<1>7. Sockets' /\ Realms' /\ OnlineHeld'
  <2>1. Sent(toLogon', toLogon, c, "fin")
    BY DEF Sent
  <2> QED BY <2>1, LogonFrame
<1> QED BY <1>4, <1>5, <1>6, <1>7

LEMMA HandleRegisteredInv ==
  ASSUME Inv, NEW c \in Conn, toWorld[c] # <<>>, HandleRegistered(c), UNCHANGED logonVars
  PROVE  Inv'
<1>1. toWorld' \in [Conn -> Seq(Answer)] /\ Sent(toWorld', toWorld, c, "fin")
  BY ReadsAnswer DEF HandleRegistered
<1>2. /\ UNCHANGED <<troubles, cut, toLogon, worldOpen, authenticated, id, entry, mapLock,
                     watcher, worker>>
      /\ Registered' \in BOOLEAN
  BY DEF HandleRegistered, worldSockets
<1>3. Sent(toLogon', toLogon, c, "fin")
  BY <1>2 DEF Sent
<1>4. TypeOK'
  <2>1. TypeOK
    BY DEF Inv
  <2>2. {Registered, mapLock, online, raced}' \subseteq BOOLEAN
    BY <1>2, <2>1 DEF TypeOK, logonVars, registry
  <2> QED BY <1>1, <1>2, <2>1, <2>2 DEF TypeOK, Answer, logonVars, registry
<1>5. WorldInv'
  BY <1>2 DEF Inv, WorldInv, Watch, Closed, Drop, NoOrphan
<1> QED BY <1>1, <1>2, <1>3, <1>4, <1>5, WorldStep

\* A link that ends is the entry or is being given up; either way no sound link is
\* the entry when its drop comes to be reported.
LEMMA DisconnectInv ==
  ASSUME Inv, NEW c \in Conn, worker.at = "wait", c \in worldOpen, Disconnect(c),
         UNCHANGED logonVars
  PROVE  Inv'
<1> USE LogonLinkAssumption DEF Disconnect, Inv, handler
<1>1. /\ Channels' /\ worldOpen' = worldOpen \ {c}
      /\ Sent(toLogon', toLogon, c, "fin") /\ Sent(toWorld', toWorld, c, "fin")
  BY CloseSent, Typed
<1>2. troubles' \in 0 .. MaxTroubles
  BY TroubleType
<1>3. TypeOK'
  BY <1>1, <1>2 DEF TypeOK, Channels, Request, Answer, Place, logonVars, registry
<1>4. WorldInv'
  <2>1. Watch' /\ Closed'
    BY <1>1 DEF WorldInv, Watch, Closed
  <2>2. Drop'
    BY <1>1 DEF TypeOK, WorldInv, Watch, Drop, NoOrphan
  <2>3. NoOrphan'
    BY <1>1 DEF WorldInv, NoOrphan
  <2> QED BY <2>1, <2>2, <2>3 DEF WorldInv
<1> QED BY <1>1, <1>3, <1>4, WorldStep

LEMMA OnDisconnectInv ==
  ASSUME Inv, OnDisconnect
  PROVE  Inv'
<1> USE DEF OnDisconnect, Inv, net, worldSockets, handler
<1>1. TypeOK'
  BY DEF TypeOK, Place, logonVars, registry
<1>2. WorldInv'
  BY DEF TypeOK, Place, WorldInv, Watch, Closed, Drop, NoOrphan
<1>3. Sent(toLogon', toLogon, None, "fin") /\ Sent(toWorld', toWorld, None, "fin")
  BY DEF Sent
<1> QED BY <1>1, <1>2, <1>3, WorldStep

\* The entry that is taken out is not a sound link.
LEMMA ConnectionDroppedInv ==
  ASSUME Inv, ConnectionDropped
  PROVE  Inv'
<1> USE LogonLinkAssumption DEF ConnectionDropped, MapLockFree, Inv, net
<1>1. TypeOK'
  BY DEF TypeOK, Place, logonVars, registry
<1>2. WorldInv'
  BY DEF TypeOK, Place, WorldInv, Watch, Closed, Drop, NoOrphan
<1>3. Sent(toLogon', toLogon, None, "fin") /\ Sent(toWorld', toWorld, None, "fin")
  BY DEF Sent
<1> QED BY <1>1, <1>2, <1>3, WorldStep

LEMMA WorkerReadsInv ==
  ASSUME Inv, NEW c \in Conn, WorkerReads(c)
  PROVE  Inv'
BY HandleAuthResponseInv, HandleRegisteredInv, DisconnectInv DEF WorkerReads

\* The population of the link's own realm is reported.
LEMMA SendPopulationInv ==
  ASSUME Inv, NEW c \in Conn, SendPopulation(c)
  PROVE  Inv'
<1> USE DEF SendPopulation, Inv, logonVars, registry
<1>1. toLogon' \in [Conn -> Seq(Request)] /\ Sent(toLogon', toLogon, c, "pop")
  BY Typed, SendsSent DEF Request
<1>2. troubles' \in 0 .. MaxTroubles
  BY TroubleType
<1>3. TypeOK'
  BY <1>1, <1>2 DEF TypeOK, Request, Place, worldVars, worldSockets, handler
<1>4. WorldInv'
  BY WorldFrame
<1>5. Handshake'
  <2>1. Sent(toWorld', toWorld, c, "fin")
    BY DEF Sent
  <2>2. authenticated' \cup id' \subseteq authenticated \cup id
    BY DEF worldVars, worldSockets
  <2> QED BY <1>1, <2>1, <2>2, HandshakeFrame DEF Request, Answer
<1>6. \A d \in Conn : /\ Carries(toLogon'[d], "syn") => Carries(toLogon[d], "syn")
                      /\ Carries(toLogon'[d], "pop") => Carries(toLogon[d], "pop") \/ d = c
                      /\ Once(toLogon[d], "syn") => Once(toLogon'[d], "syn")
  BY <1>1, Typed, RequestsCarry DEF Request
<1>7. Sockets'
  BY <1>6 DEF Sockets
<1>8. Realms'
  BY <1>6 DEF Realms
<1>9. OnlineHeld'
  BY DEF OnlineHeld
<1> QED BY <1>3, <1>4, <1>5, <1>7, <1>8, <1>9

-----------------------------------------------------------------------------
(* The worker of the logon server. *)

\* A step of the logon server that neither reads a challenge nor answers one.
LEMMA LogonStep ==
  ASSUME Inv, UNCHANGED worldVars, NEW c,
         NEW x \in Request \ {"auth"}, Sent(toLogon', toLogon, c, x),
         NEW y \in Answer \ {"authOk"}, Sent(toWorld', toWorld, c, y),
         logonWorker' = logonWorker \/ logonWorker'.at # "auth",
         TypeOK', Sockets', Realms', OnlineHeld'
  PROVE  Inv'
<1>1. WorldInv'
  BY WorldFrame
<1>2. Handshake'
  BY HandshakeFrame DEF worldVars, worldSockets
<1> QED BY <1>1, <1>2 DEF Inv

LEMMA WorldTypes ==
  ASSUME Inv, UNCHANGED worldVars
  PROVE  /\ worldOpen' \subseteq Conn /\ id' \subseteq Conn /\ authenticated' \subseteq Conn \ id'
         /\ {Registered', mapLock'} \subseteq BOOLEAN /\ entry' \in Conn \cup {None}
         /\ watcher' \in Place({"connectAll", "update", "authenticate", "register", "giveUp"})
         /\ worker' \in Place({"wait", "onDisconnect", "dropped"})
         /\ mapLock' => watcher'.at \in {"authenticate", "register", "giveUp"}
BY DEF Inv, TypeOK, worldVars, worldSockets, handler

\* What reading the first message of c leaves.
LEMMA ReadsRequest ==
  ASSUME Inv, NEW c \in Conn, toLogon[c] # <<>>, toLogon' = [toLogon EXCEPT ![c] = Tail(@)]
  PROVE  /\ toLogon' \in [Conn -> Seq(Request)] /\ Sent(toLogon', toLogon, c, "fin")
         /\ Carries(toLogon[c], Head(toLogon[c]))
         /\ Once(toLogon[c], Head(toLogon[c])) => ~Carries(toLogon'[c], Head(toLogon[c]))
         /\ \A d \in Conn : \A m : /\ Carries(toLogon'[d], m) => Carries(toLogon[d], m)
                                   /\ Once(toLogon[d], m) => Once(toLogon'[d], m)
<1>1. toLogon[c] \in Seq(Request) /\ Tail(toLogon[c]) \in Seq(Request)
  BY Typed DEF Channels
<1>2. toLogon' \in [Conn -> Seq(Request)] /\ Sent(toLogon', toLogon, c, "fin")
  BY <1>1, Typed DEF Channels, Sent
<1>3. \A d \in Conn : toLogon'[d] = IF d = c THEN Tail(toLogon[c]) ELSE toLogon[d]
  BY Typed DEF Channels
<1> QED BY <1>1, <1>2, <1>3, CarriesTail

LEMMA AcceptInv ==
  ASSUME Inv, NEW c \in Conn, Accept(c)
  PROVE  Inv'
<1>1. /\ toLogon' \in [Conn -> Seq(Request)] /\ Sent(toLogon', toLogon, c, "fin")
      /\ Carries(toLogon[c], "syn")
      /\ Once(toLogon[c], "syn") => ~Carries(toLogon'[c], "syn")
      /\ \A d \in Conn : \A m : /\ Carries(toLogon'[d], m) => Carries(toLogon[d], m)
                                /\ Once(toLogon[d], m) => Once(toLogon'[d], m)
  BY ReadsRequest DEF Accept
<1>2. /\ logonOpen' = logonOpen \cup {c} /\ serverSockets' = serverSockets \cup {c}
      /\ UNCHANGED <<troubles, cut, toWorld, worldVars, server_ids, realm, online, logonWorker,
                     main, raced>>
  BY DEF Accept
<1>3. TypeOK'
  BY <1>1, <1>2, WorldTypes DEF Inv, TypeOK, Request
<1>4. Sockets'
  BY <1>1, <1>2 DEF Inv, Sockets
<1>5. Realms' /\ OnlineHeld'
  BY <1>1, <1>2 DEF Inv, Realms, OnlineHeld
<1>6. Sent(toWorld', toWorld, c, "fin")
  BY <1>2 DEF Sent
<1> QED BY <1>1, <1>2, <1>3, <1>4, <1>5, <1>6, LogonStep DEF Request, Answer

\* A challenge is in the worker's hands and on the way to it no more.
LEMMA LogonReadsInv ==
  ASSUME Inv, NEW c \in Conn, LogonReads(c)
  PROVE  Inv'
<1> DEFINE h == Head(toLogon[c])
<1>1. /\ toLogon' \in [Conn -> Seq(Request)]
      /\ Carries(toLogon[c], h)
      /\ Once(toLogon[c], h) => ~Carries(toLogon'[c], h)
      /\ \A d \in Conn : \A m : /\ Carries(toLogon'[d], m) => Carries(toLogon[d], m)
                                /\ Once(toLogon[d], m) => Once(toLogon'[d], m)
  BY ReadsRequest DEF LogonReads
<1>2. /\ logonWorker.at = "wait" /\ c \in logonOpen /\ h \in {"auth", "register", "pop"}
      /\ logonWorker' = [at |-> h, c |-> c]
      /\ UNCHANGED <<troubles, cut, toWorld, worldVars, logonOpen, serverSockets, server_ids,
                     realm, online, main, raced>>
  BY DEF LogonReads, registry
<1> HIDE DEF h
<1>3. TypeOK'
  BY <1>1, <1>2, WorldTypes DEF Inv, TypeOK, Request, Place
<1>4. WorldInv'
  BY <1>2, WorldFrame
<1>5. Handshake'
  BY <1>1, <1>2 DEF Inv, Handshake, Asked, worldVars, worldSockets
<1>6. Sockets'
  BY <1>1, <1>2 DEF Inv, Sockets
<1>7. Realms' /\ OnlineHeld'
  BY <1>1, <1>2 DEF Inv, Realms, OnlineHeld
<1> QED BY <1>3, <1>4, <1>5, <1>6, <1>7 DEF Inv

\* The one challenge becomes the one answer.
LEMMA HandleAuthChallengeInv ==
  ASSUME Inv, HandleAuthChallenge
  PROVE  Inv'
<1> PICK c \in Conn : c = logonWorker.c
  BY DEF Inv, Realms, HandleAuthChallenge
<1>1. toWorld' \in [Conn -> Seq(Answer)] /\ Sent(toWorld', toWorld, c, "authOk")
  BY Typed, SendsSent DEF HandleAuthChallenge, Answer
<1>2. /\ logonWorker = [at |-> "auth", c |-> c] /\ logonWorker' = [at |-> "wait", c |-> None]
      /\ UNCHANGED <<troubles, cut, toLogon, worldVars, logonOpen, serverSockets, server_ids,
                     realm, online, main, raced>>
  BY DEF HandleAuthChallenge, LogonIdle, registry, Inv, TypeOK, Place
<1>3. TypeOK'
  BY <1>1, <1>2, WorldTypes DEF Inv, TypeOK, Answer, Place
<1>4. WorldInv'
  BY <1>2, WorldFrame
<1>5. Handshake'
  <2>1. ~Carries(toWorld[c], "authOk") /\ ~Carries(toLogon[c], "auth")
        /\ c \notin authenticated \cup id
    BY <1>2 DEF Inv, Handshake, Asked
  <2>2. \A d \in Conn : /\ Carries(toWorld'[d], "authOk") => Carries(toWorld[d], "authOk") \/ d = c
                        /\ Once(toWorld'[d], "authOk")
    <3>1. \A d \in Conn \ {c} : toWorld'[d] = toWorld[d]
      BY <1>1 DEF Sent
    <3>2. \A d \in Conn : Once(toWorld[d], "authOk")
      BY DEF Inv, Handshake
    <3>3. Once(toWorld'[c], "authOk")
      BY <1>1, <2>1, <3>2, Typed, AnswersCarry DEF Answer
    <3> QED BY <3>1, <3>2, <3>3
  <2> QED BY <1>2, <2>1, <2>2 DEF Inv, Handshake, Asked, worldVars, worldSockets
<1>6. Sockets'
  BY <1>2, LogonLinkAssumption DEF Inv, Sockets, TypeOK
<1>7. Realms' /\ OnlineHeld'
  BY <1>2 DEF Inv, Realms, OnlineHeld
<1> QED BY <1>3, <1>4, <1>5, <1>6, <1>7 DEF Inv

\* The realm gets the id of this registration, which no other socket has.
LEMMA HandleRegisterInv ==
  ASSUME Inv, HandleRegister
  PROVE  Inv'
<1> PICK c \in Conn : c = logonWorker.c
  BY DEF Inv, Realms, HandleRegister
<1>1. /\ logonWorker.at = "register" /\ logonWorker' = [at |-> "reply", c |-> c]
      /\ realm' = c /\ online' /\ online' \in BOOLEAN
      /\ (raced' <=> TimedOut(c)) /\ raced' \in BOOLEAN
      /\ UNCHANGED <<troubles, cut, toLogon, toWorld, worldVars, logonOpen, serverSockets,
                     server_ids, main>>
  BY DEF HandleRegister, NewId, TimedOut, Inv, TypeOK, Place, net
<1>2. TypeOK'
  BY <1>1, WorldTypes DEF Inv, TypeOK, Place
<1>3. Sockets'
  BY <1>1 DEF Inv, Sockets
<1>4. Realms'
  BY <1>1 DEF Inv, Realms, TimedOut
<1>5. OnlineHeld'
  BY <1>1 DEF OnlineHeld
<1>6. Sent(toLogon', toLogon, c, "fin") /\ Sent(toWorld', toWorld, c, "fin")
  BY <1>1 DEF Sent
<1> QED BY <1>1, <1>2, <1>3, <1>4, <1>5, <1>6, LogonStep DEF Request, Answer

\* Now the socket holds the realm, unless it was timed out meanwhile.
LEMMA ReplyInv ==
  ASSUME Inv, Reply
  PROVE  Inv'
<1> PICK c \in Conn : c = logonWorker.c
  BY DEF Inv, Realms, Reply
<1>1. /\ logonWorker.at = "reply" /\ logonWorker' = [at |-> "wait", c |-> None]
      /\ realm = c
      /\ server_ids' = [server_ids EXCEPT ![c] = {c}]
      /\ (raced' <=> raced \/ TimedOut(c)) /\ raced' \in BOOLEAN
      /\ UNCHANGED <<troubles, cut, toLogon, worldVars, logonOpen, serverSockets, realm,
                     online, main>>
  BY DEF Reply, LogonIdle, TimedOut, Inv, TypeOK, Realms
<1>2. toWorld' \in [Conn -> Seq(Answer)] /\ Sent(toWorld', toWorld, c, "registered")
  BY Typed, SendsSent DEF Reply, Answer
<1>3. TypeOK'
  BY <1>1, <1>2, WorldTypes DEF Inv, TypeOK, Place, Answer
<1>4. Sockets'
  BY <1>1, LogonLinkAssumption DEF Inv, Sockets, TypeOK
<1>5. Realms'
  BY <1>1 DEF Inv, Realms, TimedOut, TypeOK
<1>6. OnlineHeld'
  BY <1>1 DEF OnlineHeld, TimedOut, Inv, TypeOK
<1>7. Sent(toLogon', toLogon, c, "fin")
  BY <1>1 DEF Sent
<1> QED BY <1>1, <1>2, <1>3, <1>4, <1>5, <1>6, <1>7, LogonStep DEF Request, Answer

\* A realm that is shown online again is one of the reporting socket's.
LEMMA HandlePopulationRespondInv ==
  ASSUME Inv, HandlePopulationRespond
  PROVE  Inv'
<1> PICK c \in Conn : c = logonWorker.c
  BY DEF Inv, Realms, HandlePopulationRespond
<1>1. /\ logonWorker = [at |-> "pop", c |-> c] /\ logonWorker' = [at |-> "wait", c |-> None]
      /\ (online' <=> online \/ realm = c) /\ online' \in BOOLEAN
      /\ (raced' <=> raced \/ TimedOut(c)) /\ raced' \in BOOLEAN
      /\ UNCHANGED <<troubles, cut, toLogon, toWorld, worldVars, logonOpen, serverSockets,
                     server_ids, realm, main>>
  BY DEF HandlePopulationRespond, LogonIdle, TimedOut, Inv, TypeOK, Place, net
<1>2. TypeOK'
  BY <1>1, WorldTypes DEF Inv, TypeOK, Place
<1>3. Sockets'
  BY <1>1, LogonLinkAssumption DEF Inv, Sockets, TypeOK
<1>4. Realms'
  BY <1>1 DEF Inv, Realms, TimedOut
<1>5. OnlineHeld'
  BY <1>1 DEF OnlineHeld, TimedOut, Inv, Realms
<1>6. Sent(toLogon', toLogon, c, "fin") /\ Sent(toWorld', toWorld, c, "fin")
  BY <1>1 DEF Sent
<1> QED BY <1>1, <1>2, <1>3, <1>4, <1>5, <1>6, LogonStep DEF Request, Answer

LEMMA LogonDisconnectInv ==
  ASSUME Inv, NEW c \in Conn, LogonDisconnect(c)
  PROVE  Inv'
<1>1. /\ logonWorker.at = "wait" /\ c \in logonOpen
      /\ logonWorker' = [at |-> "onDisconnect", c |-> c]
      /\ UNCHANGED <<cut, worldVars, serverSockets, server_ids, realm, online, main, raced>>
      /\ troubles' \in 0 .. MaxTroubles
  BY TroubleType DEF LogonDisconnect, registry
<1>2. /\ Channels' /\ logonOpen' = logonOpen \ {c}
      /\ Sent(toLogon', toLogon, c, "fin") /\ Sent(toWorld', toWorld, c, "fin")
  BY CloseSent, Typed DEF LogonDisconnect
<1>3. \A d \in Conn : /\ Carries(toLogon'[d], "syn") => Carries(toLogon[d], "syn")
                      /\ Carries(toLogon'[d], "pop") => Carries(toLogon[d], "pop")
                      /\ Once(toLogon[d], "syn") => Once(toLogon'[d], "syn")
  BY <1>2, Typed, RequestsCarry DEF Request
<1>4. TypeOK'
  BY <1>1, <1>2, WorldTypes DEF Inv, TypeOK, Place, Channels, Request, Answer
<1>5. Sockets'
  BY <1>1, <1>2, <1>3 DEF Inv, Sockets
<1>6. Realms' /\ OnlineHeld'
  BY <1>1, <1>3 DEF Inv, Realms, OnlineHeld
<1> QED BY <1>1, <1>2, <1>4, <1>5, <1>6, LogonStep DEF Request, Answer

\* The realms of a socket go offline before it leaves the registry.
LEMMA LogonOnDisconnectInv ==
  ASSUME Inv, LogonOnDisconnect
  PROVE  Inv'
<1> PICK c \in Conn : c = logonWorker.c
  BY DEF Inv, Realms, LogonOnDisconnect
<1>1. /\ logonWorker = [at |-> "onDisconnect", c |-> c]
      /\ UNCHANGED <<troubles, cut, toLogon, toWorld, worldVars, logonOpen, serverSockets,
                     server_ids, realm, main, raced>>
      /\ online' \in BOOLEAN
      /\ \/ /\ c \in serverSockets /\ (online' <=> online /\ realm \notin server_ids[c])
            /\ logonWorker' = [at |-> "remove", c |-> c]
         \/ /\ c \notin serverSockets /\ (online' <=> online)
            /\ logonWorker' = [at |-> "wait", c |-> None]
  BY DEF LogonOnDisconnect, ItsRealmsOffline, SetRealmOffline, LogonIdle, Inv, TypeOK, Place,
         net
<1>2. TypeOK'
  <2>1. logonWorker' \in Place({"wait", "auth", "register", "reply", "pop", "onDisconnect",
                                "remove"})
    BY <1>1 DEF Place
  <2>2. {Registered, mapLock, online, raced}' \subseteq BOOLEAN
    BY <1>1, WorldTypes DEF Inv, TypeOK
  <2> QED BY <1>1, <2>1, <2>2, WorldTypes DEF Inv, TypeOK
<1>3. Sockets'
  BY <1>1, LogonLinkAssumption DEF Inv, Sockets, TypeOK
<1>4. Realms'
  <2>1. logonWorker'.at = "remove" => ~online' \/ realm' \notin server_ids'[logonWorker'.c]
    BY <1>1
  <2>2. main'.at = "remove" => raced' \/ ~online' \/ realm' \notin server_ids'[main'.c]
    BY <1>1 DEF Inv, Realms
  <2>3. /\ logonWorker'.at # "wait" => logonWorker'.c \in Conn
        /\ logonWorker'.at # "reply"
        /\ \A d \in Conn : logonWorker' # [at |-> "pop", c |-> d]
    BY <1>1
  <2>4. \A d \in Conn : /\ server_ids'[d] \subseteq {d}
                        /\ Carries(toLogon'[d], "pop") => d \in server_ids'[d]
    BY <1>1 DEF Inv, Realms
  <2>5. main'.at # "wait" => main'.c \in Conn
    BY <1>1 DEF Inv, Realms
  <2> QED BY <2>1, <2>2, <2>3, <2>4, <2>5 DEF Realms
<1>5. OnlineHeld'
  BY <1>1 DEF OnlineHeld, Inv
<1>6. Sent(toLogon', toLogon, c, "fin") /\ Sent(toWorld', toWorld, c, "fin")
  BY <1>1 DEF Sent
<1> QED BY <1>1, <1>2, <1>3, <1>4, <1>5, <1>6, LogonStep DEF Request, Answer

LEMMA RemoveServerSocketInv ==
  ASSUME Inv, RemoveServerSocket
  PROVE  Inv'
<1> PICK c \in Conn : c = logonWorker.c
  BY DEF Inv, Realms, RemoveServerSocket
<1>1. /\ logonWorker.at = "remove" /\ logonWorker' = [at |-> "wait", c |-> None]
      /\ main.at = "wait" /\ serverSockets' = serverSockets \ {c}
      /\ UNCHANGED <<troubles, cut, toLogon, toWorld, worldVars, logonOpen, server_ids, realm,
                     online, main, raced>>
  BY DEF RemoveServerSocket, LogonIdle, net
<1>2. TypeOK'
  BY <1>1, WorldTypes DEF Inv, TypeOK, Place
<1>3. Sockets'
  BY <1>1, LogonLinkAssumption DEF Inv, Sockets, TypeOK
<1>4. Realms'
  BY <1>1 DEF Inv, Realms
<1>5. OnlineHeld'
  BY <1>1 DEF OnlineHeld, Inv, Realms
<1>6. Sent(toLogon', toLogon, c, "fin") /\ Sent(toWorld', toWorld, c, "fin")
  BY <1>1 DEF Sent
<1> QED BY <1>1, <1>2, <1>3, <1>4, <1>5, <1>6, LogonStep DEF Request, Answer

-----------------------------------------------------------------------------
(* The main thread of the logon server. *)

\* From here on a packet handled on c counts as raced.
LEMMA TimeoutSocketsInv ==
  ASSUME Inv, NEW c \in Conn, TimeoutSockets(c)
  PROVE  Inv'
<1>1. /\ main.at = "wait" /\ c \in serverSockets /\ main' = [at |-> "remove", c |-> c]
      /\ (online' <=> online /\ realm \notin server_ids[c]) /\ online' \in BOOLEAN
      /\ (raced' <=> raced \/ logonWorker = [at |-> "reply", c |-> c]) /\ raced' \in BOOLEAN
      /\ UNCHANGED <<cut, toLogon, toWorld, worldVars, logonOpen, serverSockets, server_ids,
                     realm, logonWorker>>
      /\ troubles' \in 0 .. MaxTroubles
  BY TroubleType DEF TimeoutSockets, SetRealmOffline
<1>2. TypeOK'
  BY <1>1, WorldTypes DEF Inv, TypeOK, Place
<1>3. Sockets'
  BY <1>1 DEF Inv, Sockets
<1>4. Realms'
  BY <1>1 DEF Inv, Realms
<1>5. OnlineHeld'
  BY <1>1 DEF OnlineHeld, Inv
<1>6. Sent(toLogon', toLogon, c, "fin") /\ Sent(toWorld', toWorld, c, "fin")
  BY <1>1 DEF Sent
<1> QED BY <1>1, <1>2, <1>3, <1>4, <1>5, <1>6, LogonStep DEF Request, Answer

LEMMA MainRemovesInv ==
  ASSUME Inv, MainRemoves
  PROVE  Inv'
<1> PICK c \in Conn : c = main.c
  BY DEF Inv, Realms, MainRemoves
<1>1. /\ main.at = "remove" /\ main' = [at |-> "disconnect", c |-> c]
      /\ serverSockets' = serverSockets \ {c}
      /\ UNCHANGED <<troubles, cut, toLogon, toWorld, worldVars, logonOpen, server_ids, realm,
                     online, logonWorker, raced>>
  BY DEF MainRemoves, Inv, TypeOK, Place, net
<1>2. TypeOK'
  BY <1>1, WorldTypes DEF Inv, TypeOK, Place
<1>3. Sockets'
  BY <1>1 DEF Inv, Sockets
<1>4. Realms'
  BY <1>1 DEF Inv, Realms
<1>5. OnlineHeld'
  BY <1>1 DEF OnlineHeld, Inv, Realms
<1>6. Sent(toLogon', toLogon, c, "fin") /\ Sent(toWorld', toWorld, c, "fin")
  BY <1>1 DEF Sent
<1> QED BY <1>1, <1>2, <1>3, <1>4, <1>5, <1>6, LogonStep DEF Request, Answer

LEMMA MainDisconnectsInv ==
  ASSUME Inv, MainDisconnects
  PROVE  Inv'
<1> PICK c \in Conn : c = main.c
  BY DEF Inv, Realms, MainDisconnects
<1>1. /\ main.at = "disconnect" /\ main' = [at |-> "wait", c |-> None]
      /\ UNCHANGED <<troubles, cut, worldVars, serverSockets, server_ids, realm, online,
                     logonWorker, raced>>
  BY DEF MainDisconnects, registry
<1>2. /\ Channels' /\ logonOpen' = logonOpen \ {c}
      /\ Sent(toLogon', toLogon, c, "fin") /\ Sent(toWorld', toWorld, c, "fin")
  <2>1. CASE c \in logonOpen
    BY <2>1, CloseSent, Typed DEF MainDisconnects
  <2>2. CASE c \notin logonOpen
    <3>1. UNCHANGED <<logonOpen, toLogon, toWorld>>
      BY <2>2 DEF MainDisconnects
    <3> QED BY <2>2, <3>1, Typed DEF Channels, Sent
  <2> QED BY <2>1, <2>2
<1>3. \A d \in Conn : /\ Carries(toLogon'[d], "syn") => Carries(toLogon[d], "syn")
                      /\ Carries(toLogon'[d], "pop") => Carries(toLogon[d], "pop")
                      /\ Once(toLogon[d], "syn") => Once(toLogon'[d], "syn")
  BY <1>2, Typed, RequestsCarry DEF Request
<1>4. TypeOK'
  BY <1>1, <1>2, WorldTypes DEF Inv, TypeOK, Place, Channels, Request, Answer
<1>5. Sockets'
  BY <1>1, <1>2, <1>3, LogonLinkAssumption DEF Inv, Sockets, TypeOK
<1>6. Realms' /\ OnlineHeld'
  BY <1>1, <1>3 DEF Inv, Realms, OnlineHeld
<1> QED BY <1>1, <1>2, <1>4, <1>5, <1>6, LogonStep DEF Request, Answer

-----------------------------------------------------------------------------
LEMMA InitInv == Init => Inv
<1> SUFFICES ASSUME Init PROVE Inv
  OBVIOUS
<1> USE LogonLinkAssumption DEF Init
<1>1. TypeOK
  <2>1. /\ toLogon \in [Conn -> Seq({"syn", "auth", "register", "pop", "fin"})]
        /\ toWorld \in [Conn -> Seq({"authOk", "registered", "fin"})]
    OBVIOUS
  <2>2. {Registered, mapLock, online, raced} \subseteq BOOLEAN
    OBVIOUS
  <2>4. troubles \in 0 .. MaxTroubles /\ {entry, realm} \subseteq Conn \cup {None}
    OBVIOUS
  <2>3. server_ids \in [Conn -> SUBSET Conn]
    OBVIOUS
  <2> QED BY <2>1, <2>2, <2>3, <2>4 DEF TypeOK, Place
<1>2. WorldInv
  BY DEF WorldInv, Watch, Closed, Drop, NoOrphan
<1>3. \A c \in Conn : toLogon[c] = <<>> /\ toWorld[c] = <<>>
  OBVIOUS
<1>4. Handshake
  BY <1>3, CarriesEmpty DEF Handshake, Asked
<1>5. Sockets
  BY <1>3, CarriesEmpty DEF Sockets
<1>6. Realms /\ OnlineHeld
  BY <1>3, CarriesEmpty DEF Realms, OnlineHeld
<1> QED BY <1>1, <1>2, <1>4, <1>5, <1>6 DEF Inv

LEMMA StutterInv == Inv /\ UNCHANGED vars => Inv'
<1> SUFFICES ASSUME Inv, UNCHANGED vars PROVE Inv'
  OBVIOUS
<1>1. UNCHANGED worldVars /\ UNCHANGED logonVars
      /\ UNCHANGED <<troubles, cut, toLogon, toWorld>>
  BY DEF vars, net
<1>2. TypeOK'
  BY <1>1, WorldTypes DEF Inv, TypeOK, logonVars, registry
<1>3. WorldInv'
  BY <1>1, WorldFrame
<1>4. Sent(toLogon', toLogon, None, "fin") /\ Sent(toWorld', toWorld, None, "fin")
  BY <1>1 DEF Sent
<1> QED BY <1>1, <1>2, <1>3, <1>4, WorldStep DEF worldVars, worldSockets

LEMMA NextInv == Inv /\ [Next]_vars => Inv'
<1> SUFFICES ASSUME Inv, [Next]_vars PROVE Inv'
  OBVIOUS
<1>1. CASE ConnectFails \/ WatcherStep \/ PongTimeOut
  BY <1>1, ConnectFailsInv, ConnectInv, RequestAdditionInv, AuthTimeOutInv, LinkedInv,
     RegisterTimeOutInv, GiveUpInv, FoundDeadInv, PongTimeOutInv DEF WatcherStep
<1>2. CASE OnDisconnect \/ ConnectionDropped
  BY <1>2, OnDisconnectInv, ConnectionDroppedInv
<1>3. CASE LogonWorkerStep
  BY <1>3, HandleAuthChallengeInv, HandleRegisterInv, ReplyInv, HandlePopulationRespondInv,
     LogonOnDisconnectInv, RemoveServerSocketInv DEF LogonWorkerStep
<1>4. CASE MainStep
  BY <1>4, MainRemovesInv, MainDisconnectsInv DEF MainStep
<1>5. CASE \E c \in Conn : Cut(c) \/ WorkerReads(c) \/ SendPopulation(c) \/ Accept(c)
                           \/ LogonReads(c) \/ LogonDisconnect(c) \/ TimeoutSockets(c)
  BY <1>5, CutInv, WorkerReadsInv, SendPopulationInv, AcceptInv, LogonReadsInv,
     LogonDisconnectInv, TimeoutSocketsInv
<1>6. CASE UNCHANGED vars
  BY <1>6, StutterInv
<1> QED BY <1>1, <1>2, <1>3, <1>4, <1>5, <1>6 DEF Next

THEOREM LinkInvariance == Spec => []Inv
BY InitInv, NextInv, PTL DEF Spec

\* However many connections are made, cut and given up, no drop takes a sound link
\* out of logons.
THEOREM LinkConsistent == Spec => []Consistent
<1>1. Inv => Consistent
  BY DEF Inv, WorldInv, Consistent
<1> QED BY <1>1, LinkInvariance, PTL

\* And a realm that the registry shows online is held by one of its sockets.
THEOREM RealmHeld == Spec => []OnlineHeld
<1>1. Inv => OnlineHeld
  BY DEF Inv
<1> QED BY <1>1, LinkInvariance, PTL

-----------------------------------------------------------------------------
(* Who takes the realm offline: only the end of the socket whose registration it is. *)

\* A socket in whose OnDisconnect the worker is has been closed; a connection that
\* was not accepted yet has no ids; and a realm that is offline and in its own
\* socket's ids, or about to be, is so because that socket was timed out or has ended.
Ended ==
  /\ logonWorker.at \in {"onDisconnect", "remove"} => logonWorker.c \notin logonOpen
  /\ \A c \in Conn : Carries(toLogon[c], "syn") => server_ids[c] = {}
  /\ ~online =>
       \A c \in Conn :
         realm = c /\ (c \in server_ids[c] \/ logonWorker = [at |-> "reply", c |-> c]) =>
           c \notin logonOpen \/ (main.at # "wait" /\ main.c = c)

\* No connection is new that was not: true of every step but the dial.
NoneNew == \A d \in Conn : Carries(toLogon'[d], "syn") => Carries(toLogon[d], "syn")

LEMMA SentNoneNew ==
  ASSUME Inv, NEW c, NEW x \in Request \ {"syn"}, Sent(toLogon', toLogon, c, x)
  PROVE  NoneNew
BY Typed, RequestsCarry DEF NoneNew

\* The world's steps but the dial change nothing that Ended speaks of.
LEMMA WorldNoneNew ==
  ASSUME Inv,
         \/ ConnectFails \/ RequestAddition \/ AuthTimeOut \/ Linked \/ RegisterTimeOut
         \/ GiveUp \/ FoundDead \/ PongTimeOut \/ OnDisconnect \/ ConnectionDropped
         \/ \E c \in Conn : Cut(c) \/ WorkerReads(c) \/ SendPopulation(c)
  PROVE  NoneNew /\ UNCHANGED logonVars
<1>1. CASE ConnectFails \/ Linked \/ RegisterTimeOut \/ FoundDead \/ OnDisconnect
           \/ ConnectionDropped
  BY <1>1 DEF NoneNew, ConnectFails, Linked, RegisterTimeOut, FoundDead, OnDisconnect,
              ConnectionDropped, net
<1>2. CASE RequestAddition
  <2>1. watcher.c \in Conn
    BY <1>2 DEF RequestAddition, Inv, TypeOK
  <2>2. Sent(toLogon', toLogon, watcher.c, "register")
    BY <1>2, <2>1, Typed, SendsSent DEF RequestAddition, Request
  <2> QED BY <1>2, <2>2, SentNoneNew DEF RequestAddition, Request
<1>3. CASE AuthTimeOut \/ GiveUp
  <2>1. Sent(toLogon', toLogon, watcher.c, "fin")
    BY <1>3, ClosesOrNot DEF AuthTimeOut, GiveUp
  <2> QED BY <1>3, <2>1, SentNoneNew DEF AuthTimeOut, GiveUp, Request
<1>4. CASE PongTimeOut
  <2>1. entry \in Conn
    BY <1>4 DEF PongTimeOut, Inv, TypeOK
  <2>2. Sent(toLogon', toLogon, entry, "fin")
    BY <1>4, <2>1, CloseSent, Typed DEF PongTimeOut
  <2> QED BY <1>4, <2>2, SentNoneNew DEF PongTimeOut, Request
<1>5. ASSUME NEW c \in Conn, Cut(c)
      PROVE  NoneNew /\ UNCHANGED logonVars
  <2>1. Sent(toLogon', toLogon, c, "fin")
    BY <1>5, Typed DEF Cut, Channels, Sent
  <2> QED BY <1>5, <2>1, SentNoneNew DEF Cut, Request
<1>6. ASSUME NEW c \in Conn, WorkerReads(c)
      PROVE  NoneNew /\ UNCHANGED logonVars
  <2>1. CASE HandleAuthResponse(c) \/ HandleRegistered(c)
    BY <1>6, <2>1 DEF WorkerReads, HandleAuthResponse, HandleRegistered, NoneNew
  <2>2. CASE Disconnect(c)
    <3>1. Sent(toLogon', toLogon, c, "fin")
      BY <2>2, CloseSent, Typed DEF Disconnect
    <3> QED BY <1>6, <3>1, SentNoneNew DEF WorkerReads, Request
  <2> QED BY <1>6, <2>1, <2>2 DEF WorkerReads
<1>7. ASSUME NEW c \in Conn, SendPopulation(c)
      PROVE  NoneNew /\ UNCHANGED logonVars
  <2>1. Sent(toLogon', toLogon, c, "pop")
    BY <1>7, Typed, SendsSent DEF SendPopulation, Request
  <2> QED BY <1>7, <2>1, SentNoneNew DEF SendPopulation, Request
<1> QED BY <1>1, <1>2, <1>3, <1>4, <1>5, <1>6, <1>7

LEMMA EndedFrame == Ended /\ NoneNew /\ UNCHANGED logonVars => Ended'
BY DEF Ended, NoneNew, logonVars, registry

\* A connection that is dialled is nobody's any more.
LEMMA ConnectEnded ==
  ASSUME Inv, Ended, NEW c \in Conn, Connect(c)
  PROVE  Ended'
<1>1. /\ c # logonWorker.c /\ c \notin logonOpen
      /\ server_ids' = [server_ids EXCEPT ![c] = {}]
      /\ UNCHANGED <<logonOpen, realm, online, logonWorker, main>>
  BY DEF Connect, Fresh
<1>2. \A d \in Conn : server_ids'[d] = IF d = c THEN {} ELSE server_ids[d]
  BY <1>1 DEF Inv, TypeOK
<1>3. \A d \in Conn \ {c} : toLogon'[d] = toLogon[d]
  BY Typed DEF Connect, Channels
<1> QED BY <1>1, <1>2, <1>3 DEF Ended

\* The logon server's steps that leave the realm and the ids as they are.
LEMMA LogonNoneNew ==
  ASSUME Inv, LogonWorkerStep \/ MainStep
              \/ \E c \in Conn : Accept(c) \/ LogonReads(c) \/ LogonDisconnect(c)
                                 \/ TimeoutSockets(c)
  PROVE  NoneNew
<1>1. CASE LogonWorkerStep \/ MainRemoves
  BY <1>1 DEF LogonWorkerStep, NoneNew, HandleAuthChallenge, HandleRegister, Reply,
     HandlePopulationRespond, LogonOnDisconnect, RemoveServerSocket, MainRemoves, net
<1>2. CASE MainDisconnects
  <2>1. Sent(toLogon', toLogon, main.c, "fin")
    <3>1. CASE main.c \in logonOpen
      <4>1. main.c \in Conn
        BY <3>1 DEF Inv, TypeOK
      <4> QED BY <1>2, <3>1, <4>1, CloseSent, Typed DEF MainDisconnects
    <3>2. CASE main.c \notin logonOpen
      BY <1>2, <3>2 DEF MainDisconnects, Sent
    <3> QED BY <3>1, <3>2
  <2> QED BY <2>1, SentNoneNew DEF Request
<1>3. ASSUME NEW c \in Conn, Accept(c) \/ LogonReads(c)
      PROVE  NoneNew
  <2>1. toLogon[c] # <<>> /\ toLogon' = [toLogon EXCEPT ![c] = Tail(@)]
    BY <1>3 DEF Accept, LogonReads
  <2> QED BY <2>1, ReadsRequest DEF NoneNew
<1>4. ASSUME NEW c \in Conn, LogonDisconnect(c)
      PROVE  NoneNew
  <2>1. Sent(toLogon', toLogon, c, "fin")
    BY <1>4, CloseSent, Typed DEF LogonDisconnect
  <2> QED BY <2>1, SentNoneNew DEF Request
<1>5. ASSUME NEW c \in Conn, TimeoutSockets(c)
      PROVE  NoneNew
  BY <1>5 DEF TimeoutSockets, NoneNew
<1> QED BY <1>1, <1>2, <1>3, <1>4, <1>5 DEF MainStep

LEMMA LogonWorkerEnded ==
  ASSUME Inv, Ended, LogonWorkerStep
  PROVE  Ended'
<1>0. NoneNew /\ UNCHANGED logonOpen
  BY LogonNoneNew DEF LogonWorkerStep, HandleAuthChallenge, HandleRegister, Reply,
     HandlePopulationRespond, LogonOnDisconnect, RemoveServerSocket
<1>1. CASE HandleAuthChallenge
  BY <1>0, <1>1 DEF HandleAuthChallenge, LogonIdle, registry, Ended, NoneNew
<1>2. CASE HandleRegister
  <2>1. online' /\ server_ids' = server_ids /\ logonWorker'.at = "reply"
    BY <1>2 DEF HandleRegister, Inv, TypeOK, Place
  <2> QED BY <1>0, <2>1 DEF Ended, NoneNew
\* the realm was the worker's already
<1>3. CASE Reply
  <2> PICK c \in Conn : c = logonWorker.c
    BY <1>3 DEF Reply, Inv, Realms
  <2>1. /\ logonWorker.at = "reply" /\ realm = c /\ logonWorker'.at = "wait"
        /\ server_ids' = [server_ids EXCEPT ![c] = {c}]
        /\ UNCHANGED <<realm, online, main>>
    BY <1>3 DEF Reply, LogonIdle, Inv, Realms
  <2>2. \A d \in Conn : server_ids'[d] = IF d = c THEN {c} ELSE server_ids[d]
    BY <2>1 DEF Inv, TypeOK
  <2>3. ~Carries(toLogon'[c], "syn")
    BY <1>0 DEF NoneNew, Inv, Sockets
  <2>4. logonWorker = [at |-> "reply", c |-> c]
    BY <2>1 DEF Inv, TypeOK, Place
  <2>5. \A d \in Conn : Carries(toLogon'[d], "syn") => server_ids'[d] = {}
    BY <1>0, <2>2, <2>3 DEF Ended, NoneNew
  <2>6. ~online => c \notin logonOpen \/ (main.at # "wait" /\ main.c = c)
    BY <2>1, <2>4 DEF Ended
  <2> QED BY <1>0, <2>1, <2>5, <2>6 DEF Ended
<1>4. CASE HandlePopulationRespond
  <2>1. /\ logonWorker'.at = "wait" /\ (online => online')
        /\ UNCHANGED <<server_ids, realm, main>>
    BY <1>4 DEF HandlePopulationRespond, LogonIdle
  <2> QED BY <1>0, <2>1 DEF Ended, NoneNew
\* it goes offline with the socket that is closed
<1>5. CASE LogonOnDisconnect
  <2> PICK c \in Conn : c = logonWorker.c
    BY <1>5 DEF LogonOnDisconnect, Inv, Realms
  <2>1. /\ c \notin logonOpen
        /\ UNCHANGED <<server_ids, realm, main>>
        /\ logonWorker'.at \in {"wait", "remove"} /\ logonWorker'.at # "reply"
        /\ logonWorker'.at = "remove" => logonWorker'.c = c
    BY <1>5 DEF LogonOnDisconnect, LogonIdle, Ended, Inv, TypeOK, Place
  <2>2. online' = online \/ (online' <=> online /\ realm \notin server_ids[c])
    BY <1>5 DEF LogonOnDisconnect, ItsRealmsOffline, SetRealmOffline
  <2>3. \A d \in Conn : server_ids[d] \subseteq {d}
    BY DEF Inv, Realms
  <2> QED BY <1>0, <2>1, <2>2, <2>3 DEF Ended, NoneNew
<1>6. CASE RemoveServerSocket
  BY <1>0, <1>6 DEF RemoveServerSocket, LogonIdle, Ended, NoneNew
<1> QED BY <1>1, <1>2, <1>3, <1>4, <1>5, <1>6 DEF LogonWorkerStep

LEMMA LogonOtherEnded ==
  ASSUME Inv, Ended,
         MainStep \/ \E c \in Conn : Accept(c) \/ LogonReads(c) \/ LogonDisconnect(c)
                                     \/ TimeoutSockets(c)
  PROVE  Ended'
<1>0. NoneNew
  BY LogonNoneNew
<1>1. CASE MainRemoves
  <2>1. /\ main.at = "remove" /\ main'.at = "disconnect" /\ main'.c = main.c
        /\ UNCHANGED <<logonOpen, server_ids, realm, online, logonWorker>>
    BY <1>1 DEF MainRemoves, Inv, TypeOK, Place
  <2> QED BY <1>0, <2>1 DEF Ended, NoneNew
<1>2. CASE MainDisconnects
  <2>1. /\ logonOpen' = logonOpen \ {main.c} /\ main'.at = "wait"
        /\ UNCHANGED <<server_ids, realm, online, logonWorker>>
    BY <1>2 DEF MainDisconnects, CloseLogon, registry
  <2> QED BY <1>0, <2>1 DEF Ended, NoneNew
<1>3. ASSUME NEW c \in Conn, Accept(c)
      PROVE  Ended'
  <2>1. /\ logonWorker.at = "wait" /\ logonOpen' = logonOpen \cup {c}
        /\ UNCHANGED <<server_ids, realm, online, logonWorker, main>>
    BY <1>3 DEF Accept
  <2>2. server_ids[c] = {}
    BY <1>3, ReadsRequest DEF Accept, Ended
  <2> QED BY <1>0, <2>1, <2>2 DEF Ended, NoneNew
<1>4. ASSUME NEW c \in Conn, LogonReads(c)
      PROVE  Ended'
  <2>1. /\ logonWorker'.at \in {"auth", "register", "pop"}
        /\ UNCHANGED <<logonOpen, server_ids, realm, online, main>>
    BY <1>4 DEF LogonReads, registry
  <2> QED BY <1>0, <2>1 DEF Ended, NoneNew
<1>5. ASSUME NEW c \in Conn, LogonDisconnect(c)
      PROVE  Ended'
  <2>1. /\ logonOpen' = logonOpen \ {c} /\ logonWorker' = [at |-> "onDisconnect", c |-> c]
        /\ UNCHANGED <<server_ids, realm, online, main>>
    BY <1>5 DEF LogonDisconnect, CloseLogon, registry
  <2> QED BY <1>0, <2>1 DEF Ended, NoneNew
\* it goes offline with the socket that is timed out
<1>6. ASSUME NEW c \in Conn, TimeoutSockets(c)
      PROVE  Ended'
  <2>1. /\ main.at = "wait" /\ main' = [at |-> "remove", c |-> c]
        /\ (online' <=> online /\ realm \notin server_ids[c])
        /\ UNCHANGED <<logonOpen, server_ids, realm, logonWorker>>
    BY <1>6 DEF TimeoutSockets, SetRealmOffline
  <2>2. \A d \in Conn : server_ids[d] \subseteq {d}
    BY DEF Inv, Realms
  <2> QED BY <1>0, <2>1, <2>2 DEF Ended, NoneNew
<1> QED BY <1>1, <1>2, <1>3, <1>4, <1>5, <1>6 DEF MainStep

LEMMA NextEnded == Inv /\ Ended /\ [Next]_vars => Ended'
<1> SUFFICES ASSUME Inv, Ended, [Next]_vars PROVE Ended'
  OBVIOUS
<1>1. CASE \E c \in Conn : Connect(c)
  BY <1>1, ConnectEnded
<1>2. CASE \/ ConnectFails \/ RequestAddition \/ AuthTimeOut \/ Linked \/ RegisterTimeOut
           \/ GiveUp \/ FoundDead \/ PongTimeOut \/ OnDisconnect \/ ConnectionDropped
           \/ \E c \in Conn : Cut(c) \/ WorkerReads(c) \/ SendPopulation(c)
  BY <1>2, WorldNoneNew, EndedFrame
<1>3. CASE LogonWorkerStep
  BY <1>3, LogonWorkerEnded
<1>4. CASE MainStep \/ \E c \in Conn : Accept(c) \/ LogonReads(c) \/ LogonDisconnect(c)
                                       \/ TimeoutSockets(c)
  BY <1>4, LogonOtherEnded
<1>5. CASE UNCHANGED vars
  BY <1>5, EndedFrame DEF vars, net, NoneNew
<1> QED BY <1>1, <1>2, <1>3, <1>4, <1>5 DEF Next, WatcherStep

\* And while the link rests the end of no other socket has taken its realm offline,
\* if the link's registration was handled last (RealmSocket::HandleRegister).
THEOREM RestartStaysOnline == Spec => []RestartedOnlineInOrder
<1>1. Init => Ended
  <2> SUFFICES ASSUME Init PROVE Ended
    OBVIOUS
  <2>1. \A c \in Conn : toLogon[c] = <<>> /\ server_ids[c] = {}
    BY DEF Init
  <2> QED BY <2>1 DEF Init, Ended
<1>2. Inv /\ Ended => RestartedOnlineInOrder
  BY DEF Inv, Realms, Ended, RestartedOnlineInOrder, AtRest, TypeOK
<1> QED BY <1>1, <1>2, NextEnded, LinkInvariance, PTL DEF Spec
=============================================================================

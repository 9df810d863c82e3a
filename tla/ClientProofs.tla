---------------------------- MODULE ClientProofs ----------------------------
(***************************************************************************)
(* Safety of the web client, one part per module of it.                    *)
(*                                                                         *)
(* RoomSocket, for any number of clients, tokens and lost sockets: the     *)
(* argument is about one step, Subscribe, which either shares the client   *)
(* or disconnects it before it makes the next, so that whatever happens    *)
(* later to the old one finds it unable to come back.                      *)
(*                                                                         *)
(* WebSession, for any tabs and bounds (PagesComeToRest): a page that is   *)
(* not ready has its own refresh in flight, and after a clean logout no    *)
(* answer under way brings anything of the session back.                   *)
(*                                                                         *)
(* MessageList, for any bounds (NoMessageTwice, QuietListIsTrue,           *)
(* TheEntriesStay): what every frame, page and call still on its way will  *)
(* do to the list, so that a list with nothing on its way shows the truth. *)
(***************************************************************************)
EXTENDS RoomSocket, WebSession, MessageList, FiniteSetTheorems, SequenceTheorems,
        TLAPS

USE NoneAssumption, BoundAssumption

\* There are two hooks, so a set of them is counted without induction.
LEMMA HookCount ==
    ASSUME NEW S \in SUBSET Hooks
    PROVE  /\ Cardinality(S) \in 0..2
           /\ Cardinality(S) = 0 <=> S = {}
           /\ \A h \in Hooks \ S : Cardinality(S \cup {h}) = Cardinality(S) + 1
<1> DEFINE a == "members"  b == "room"
<1>1. Hooks = {a, b} /\ a # b
  BY DEF Hooks
<1>2. IsFiniteSet({}) /\ Cardinality({}) = 0
  BY FS_EmptySet
<1> HIDE DEF a, b
<1>3. IsFiniteSet({a}) /\ Cardinality({a}) = 1 /\ IsFiniteSet({b}) /\ Cardinality({b}) = 1
  BY FS_Singleton
<1>4. b \notin {a} /\ a \notin {b} /\ b \notin {} /\ a \notin {}
  BY <1>1
<1>5. Cardinality({a} \cup {b}) = Cardinality({a}) + 1
  BY <1>3, <1>4, FS_AddElement
<1>6. Cardinality({a} \cup {b}) = 2
  BY <1>3, <1>5
<1>7. ASSUME NEW h \in Hooks \ S
      PROVE  Cardinality(S \cup {h}) = Cardinality(S) + 1
  <2>1. IsFiniteSet(Hooks)
    BY <1>1, <1>3, FS_AddElement
  <2> QED
    BY <2>1, FS_Subset, FS_AddElement
<1>8. S = {} \/ S = {a} \/ S = {b} \/ S = {a} \cup {b}
  BY <1>1
<1>9. Cardinality(S) \in 0..2
  BY <1>2, <1>3, <1>6, <1>8
<1>10. Cardinality(S) = 0 <=> S = {}
  <2>1. S # {} => S = {a} \/ S = {b} \/ S = {a} \cup {b}
    BY <1>8
  <2>2. S # {} => Cardinality(S) = 1 \/ Cardinality(S) = 2
    BY <1>3, <1>6, <2>1
  <2> QED
    BY <1>2, <2>2
<1> QED
  BY <1>7, <1>9, <1>10

\* What disconnect leaves of a client.
LEMMA DisconnectedClient ==
    ASSUME clients \in [Clients -> Client], NEW c \in Clients
    PROVE  /\ Disconnected(c) \in Client
           /\ Disconnected(c).token = clients[c].token
           /\ Disconnected(c).again = FALSE /\ Disconnected(c).timer = FALSE
           /\ Disconnected(c).socket \in {"none", "closing"}
<1> DEFINE k == clients[c]
           s == IF k.socket = "none" THEN "none" ELSE "closing"
<1>1. k \in Client
  OBVIOUS
<1>2. s \in {"none", "closing"}
  OBVIOUS
<1>3. Disconnected(c) = [k EXCEPT !.again = FALSE, !.timer = FALSE, !.socket = s]
  BY <1>1 DEF Disconnected, Client
<1> HIDE DEF s, k
<1>4. Disconnected(c) = [token |-> k.token, socket |-> s, again |-> FALSE, timer |-> FALSE]
  BY <1>1, <1>3 DEF Client
<1> QED
  BY <1>1, <1>2, <1>4 DEF Client, k

\* No client exists at the start.
LEMMA InitSharing == Init => SharingInv
<1> SUFFICES ASSUME Init PROVE SharingInv
  OBVIOUS
<1>1. TypeOK
  <2>1. clients \in [Clients -> Client] /\ made \in 0..MaxClients
    BY DEF Init, Client, Tokens
  <2>2. /\ taken \in [Hooks -> Tokens \cup {NoToken}] /\ connected \in [Hooks -> BOOLEAN]
        /\ subs \in [Hooks -> Clients \cup {NoClient}]
    BY DEF Init
  <2>3. token \in Tokens /\ refreshed \in Tokens /\ expired \subseteq Tokens /\ drops \in 0..MaxDrops
    BY DEF Init, Tokens
  <2>4. page \in {"away", "rendered", "effects", "ready"} /\ loads \in 0..2 /\ refs \in 0..2
    BY DEF Init
  <2>5. seen \in BOOLEAN /\ joined \in BOOLEAN /\ inRoom \in BOOLEAN
    BY DEF Init
  <2>6. global \in Clients \cup {NoClient}
    BY DEF Init
  <2> QED
    BY <2>1, <2>2, <2>3, <2>4, <2>5, <2>6 DEF TypeOK
<1>2. Registered = {}
  BY DEF Init, Registered, Hooks
<1>3. LastOneCloses
  BY <1>2, HookCount, FS_EmptySet DEF Init, LastOneCloses
<1>4. NoStraySocket /\ SharedUnlessStale /\ Staged
  BY <1>2 DEF Init, NoStraySocket, Live, SharedUnlessStale, Staged, NewClient, Hooks
<1> QED
  BY <1>1, <1>3, <1>4 DEF SharingInv

\* A hook that is not registered subscribes: what the page knows of the clients
\* stays true, whatever token the hook brings.
LEMMA SubscribeSharing ==
    ASSUME SharingInv, NEW h \in Hooks, h \notin Registered,
           NEW t \in Tokens, Subscribe(h, t),
           taken'[h] = t, \A g \in Registered : taken'[g] = taken[g]
    PROVE  /\ clients' \in [Clients -> Client] /\ made' \in 0..MaxClients
           /\ global' \in Clients /\ refs' \in 0..2
           /\ subs' \in [Hooks -> Clients \cup {NoClient}]
           /\ Registered' = Registered \cup {h}
           /\ NoStraySocket' /\ LastOneCloses' /\ SharedUnlessStale'
           /\ \A g \in Hooks : subs'[g] # NoClient => subs'[g] <= made'
           /\ global' <= made' /\ \E g \in Hooks : subs'[g] = global'
           /\ \A c \in Clients : c # global' /\ clients'[c].socket # "none" => ~clients'[c].again
<1> USE DEF SharingInv, Staged
<1>1. /\ Registered \in SUBSET Hooks /\ h \notin Registered
      /\ Cardinality(Registered \cup {h}) = Cardinality(Registered) + 1
      /\ Cardinality(Registered) \in 0..2 /\ Cardinality(Registered \cup {h}) \in 0..2
  BY HookCount DEF Registered
<1>2. refs = Cardinality(Registered) /\ refs' = refs + 1
  BY DEF LastOneCloses, Subscribe
<1>3. CASE global # NoClient /\ clients[global].token = t
  <2>1. /\ UNCHANGED <<global, clients, made>> /\ subs' = [subs EXCEPT ![h] = global]
        /\ global \in Clients
    BY <1>3 DEF Subscribe, TypeOK
  <2>2. Registered' = Registered \cup {h}
    BY <1>3, <2>1 DEF Registered, TypeOK
  <2>3. LastOneCloses'
    BY <1>1, <1>2, <1>3, <2>1, <2>2 DEF LastOneCloses
  <2>4. NoStraySocket'
    BY <2>1 DEF NoStraySocket, Live
  <2>5. SharedUnlessStale'
    BY <1>3, <2>1 DEF SharedUnlessStale, Registered, TypeOK
  <2> QED
    BY <1>1, <1>2, <1>3, <2>1, <2>2, <2>3, <2>4, <2>5 DEF TypeOK, Clients
<1>4. CASE ~(global # NoClient /\ clients[global].token = t)
  <2>1. /\ made < MaxClients /\ made' = made + 1 /\ global' = made + 1
        /\ clients' = [c \in Clients |->
                          IF c = made + 1 THEN NewClient(t)
                          ELSE IF c = global THEN Disconnected(c) ELSE clients[c]]
        /\ subs' = [subs EXCEPT ![h] = made + 1]
    BY <1>4 DEF Subscribe
  <2>2. /\ made + 1 \in Clients /\ made + 1 # NoClient /\ global # made + 1
        /\ \A g \in Registered : subs[g] \in Clients /\ subs[g] # made + 1
    BY <2>1 DEF TypeOK, Clients, Registered
  <2>3. Registered' = Registered \cup {h}
    BY <2>1, <2>2 DEF Registered, TypeOK
  <2>4. LastOneCloses'
    BY <1>1, <1>2, <2>1, <2>2, <2>3 DEF LastOneCloses
  <2>5. clients' \in [Clients -> Client]
    <3>1. NewClient(t) \in Client
      BY DEF NewClient, Client
    <3>2. \A c \in Clients : clients[c] \in Client /\ Disconnected(c) \in Client
      BY DisconnectedClient DEF TypeOK
    <3> QED
      BY <2>1, <3>1, <3>2
  <2>6. \A c \in Clients : c # made + 1 =>
           /\ clients'[c].token = clients[c].token
           /\ c = global => ~clients'[c].timer /\ ~clients'[c].again
                            /\ clients'[c].socket \in {"none", "closing"}
           /\ c # global => clients'[c] = clients[c]
    BY <2>1, DisconnectedClient DEF TypeOK
  <2>7. NoStraySocket'
    BY <2>1, <2>6 DEF NoStraySocket, Live
  <2>8. clients'[made + 1].token = t
    BY <2>1, <2>2 DEF NewClient
  <2>9. SharedUnlessStale'
    <3> SUFFICES ASSUME NEW g \in Hooks, subs'[g] # NoClient
                 PROVE  /\ clients'[subs'[g]].token = taken'[g]
                        /\ subs'[g] = global' \/ taken'[g] # clients'[global'].token
      BY DEF SharedUnlessStale
    <3>1. CASE g = h
      BY <2>1, <2>8, <3>1 DEF TypeOK
    <3>2. CASE g # h
      <4>1. g \in Registered /\ subs'[g] = subs[g]
        BY <2>1, <3>2 DEF TypeOK, Registered
      <4>2. /\ clients[subs[g]].token = taken[g] /\ taken'[g] = taken[g]
            /\ subs[g] = global \/ taken[g] # clients[global].token
        BY <4>1 DEF SharedUnlessStale, Registered
      <4>3. global # NoClient
        BY <1>1, <4>1, HookCount DEF LastOneCloses
      <4>4. subs[g] \in Clients /\ subs[g] # made + 1
        BY <2>2, <4>1
      <4>5. clients'[subs[g]].token = taken'[g]
        BY <2>6, <4>2, <4>4
      <4>6. subs[g] = global
        <5>1. \A f \in Hooks : f = g \/ f = h
          BY <3>2 DEF Hooks
        <5> QED
          BY <4>3, <5>1 DEF Registered
      <4>7. taken'[g] # t
        BY <1>4, <4>2, <4>3, <4>6
      <4> QED
        BY <2>1, <2>8, <4>1, <4>5, <4>7
    <3> QED
      BY <3>1, <3>2
  <2>10. \A c \in Clients : c # global' /\ clients'[c].socket # "none" => ~clients'[c].again
    BY <2>1, <2>6
  <2>11. \A g \in Hooks : subs'[g] # NoClient => subs'[g] <= made'
    BY <2>1 DEF TypeOK, Clients
  <2> QED
    BY <1>1, <1>2, <2>1, <2>2, <2>3, <2>4, <2>5, <2>7, <2>9, <2>10, <2>11 DEF TypeOK, Clients
<1> QED
  BY <1>3, <1>4

\* A step that leaves hooks, clients' shares and page alone.
LEMMA SocketSharing ==
    ASSUME SharingInv, NEW c \in Clients, Open(c) \/ Close(c) \/ Reconnect(c)
    PROVE  SharingInv'
<1> USE DEF SharingInv, auth, view, hook, room
<1> DEFINE k == clients[c]
<1>1. /\ UNCHANGED <<token, refreshed, expired, page, taken, loads, global, refs, made, subs>>
      /\ Registered' = Registered
  BY DEF Open, Close, Reconnect, Registered
<1>2. k \in Client
  BY DEF TypeOK
<1>3. /\ clients' \in [Clients -> Client]
      /\ \A d \in Clients : d # c => clients'[d] = clients[d]
      /\ clients'[c].token = k.token /\ clients'[c].again = k.again
      /\ clients'[c].socket # "none" => Live(c)
      /\ clients'[c].timer => k.again /\ k.socket # "none"
  <2>1. CASE Open(c)
    <3> DEFINE n == [[k EXCEPT !.socket = "open"] EXCEPT !.timer = FALSE]
    <3>1. clients' = [clients EXCEPT ![c] = n] /\ k.socket = "connecting"
      BY <2>1 DEF Open, TypeOK
    <3>2. n \in Client /\ n.token = k.token /\ n.again = k.again /\ n.timer = FALSE
      BY <1>2 DEF Client
    <3> HIDE DEF n
    <3> QED
      BY <1>2, <3>1, <3>2 DEF TypeOK, Live
  <2>2. CASE Close(c)
    <3> DEFINE n == [[k EXCEPT !.socket = "none"] EXCEPT !.timer = k.again]
    <3>1. clients' = [clients EXCEPT ![c] = n] /\ k.socket # "none"
      BY <2>2 DEF Close, TypeOK
    <3>2. n \in Client /\ n.token = k.token /\ n.again = k.again /\ n.timer = k.again /\ n.socket = "none"
      BY <1>2 DEF Client
    <3> HIDE DEF n
    <3> QED
      BY <1>2, <3>1, <3>2 DEF TypeOK, Live
  <2>3. CASE Reconnect(c)
    <3> DEFINE n == [[k EXCEPT !.timer = FALSE] EXCEPT !.socket = "connecting"]
    <3>1. clients' = [clients EXCEPT ![c] = n] /\ k.timer
      BY <2>3 DEF Reconnect, TypeOK
    <3>2. n \in Client /\ n.token = k.token /\ n.again = k.again /\ n.timer = FALSE
      BY <1>2 DEF Client
    <3> HIDE DEF n
    <3> QED
      BY <1>2, <3>1, <3>2 DEF TypeOK, Live
  <2> QED
    BY <2>1, <2>2, <2>3
<1>4. TypeOK'
  <2>1. connected' \in [Hooks -> BOOLEAN] /\ seen' \in BOOLEAN /\ joined' \in BOOLEAN
        /\ inRoom' \in BOOLEAN
    BY DEF TypeOK, Open, Close, Reconnect, Emit
  <2>2. drops' = drops \/ (drops < MaxDrops /\ drops' = drops + 1)
    BY DEF Open, Close, Reconnect
  <2>3. drops' \in 0..MaxDrops
    BY <2>2 DEF TypeOK
  <2> QED
    BY <1>1, <1>3, <2>1, <2>3 DEF TypeOK
<1>5. c # global => ~Live(c) /\ (k.socket # "none" => ~k.again)
  BY DEF NoStraySocket, Staged
<1>6. c # global => clients'[c].socket = "none" /\ ~clients'[c].timer
  BY <1>3, <1>5
<1>7. \A d \in Clients : clients'[d].token = clients[d].token
  BY <1>3
<1>8. NoStraySocket'
  BY <1>1, <1>3, <1>6 DEF NoStraySocket, Live
<1>9. LastOneCloses'
  BY <1>1 DEF LastOneCloses
<1>10. SharedUnlessStale'
  <2>1. \A h \in Hooks : subs[h] # NoClient => subs[h] \in Clients
    BY DEF TypeOK
  <2>2. (\E h \in Hooks : subs[h] # NoClient) => global \in Clients
    <3>1. Registered \in SUBSET Hooks
      BY DEF Registered
    <3>2. Registered # {} => global # NoClient
      BY <3>1, HookCount DEF LastOneCloses
    <3> QED
      BY <3>2 DEF Registered, TypeOK
  <2> QED
    BY <1>1, <1>7, <2>1, <2>2 DEF SharedUnlessStale
<1>11. Staged'
  BY <1>1, <1>3, <1>6 DEF Staged
<1> QED
  BY <1>4, <1>8, <1>9, <1>10, <1>11

\* The effect of a hook with a token subscribes it, one without does nothing.
LEMMA EffectSharing ==
    ASSUME SharingInv, NEW h \in Hooks, h \notin Registered,
           NEW t \in Tokens \cup {NoToken}, Effect(h, t),
           taken'[h] = t, \A g \in Registered : taken'[g] = taken[g]
    PROVE  /\ clients' \in [Clients -> Client] /\ made' \in 0..MaxClients
           /\ global' \in Clients \cup {NoClient} /\ refs' \in 0..2
           /\ subs' \in [Hooks -> Clients \cup {NoClient}]
           /\ Registered' \subseteq Registered \cup {h}
           /\ NoStraySocket' /\ LastOneCloses' /\ SharedUnlessStale'
           /\ \A g \in Hooks : subs'[g] # NoClient => subs'[g] <= made'
           /\ global' # NoClient => global' <= made' /\ \E g \in Hooks : subs'[g] = global'
           /\ \A c \in Clients : c # global' /\ clients'[c].socket # "none" => ~clients'[c].again
<1>1. CASE t = NoToken
  <2>1. UNCHANGED <<global, refs, clients, made, subs>>
    BY <1>1 DEF Effect, ws
  <2>2. Registered' = Registered
    BY <2>1 DEF Registered
  <2>3. LastOneCloses'
    BY <2>1, <2>2 DEF SharingInv, LastOneCloses
  <2>4. NoStraySocket'
    BY <2>1 DEF SharingInv, NoStraySocket, Live
  <2>5. SharedUnlessStale'
    BY <2>1 DEF SharingInv, SharedUnlessStale, Registered
  <2> QED
    BY <2>1, <2>2, <2>3, <2>4, <2>5 DEF SharingInv, TypeOK, Staged
<1>2. CASE t # NoToken
  <2>1. t \in Tokens /\ Subscribe(h, t)
    BY <1>2 DEF Effect
  <2> QED
    BY <2>1, SubscribeSharing
<1> QED
  BY <1>1, <1>2

\* The page's own steps.
LEMMA PageSharing ==
    ASSUME SharingInv, Mount \/ MountEffects \/ Rerender \/ Unmount
    PROVE  SharingInv'
<1> USE DEF SharingInv, auth, ws, hook, room
<1>1. CASE Mount
  <2>1. Registered = {} /\ Registered' = Registered
    BY <1>1 DEF Mount, Staged, Registered
  <2>2. /\ UNCHANGED <<global, refs, clients, made, subs>>
        /\ page' = "rendered"
    BY <1>1 DEF Mount
  <2>3. TypeOK'
    <3>1. taken' \in [Hooks -> Tokens \cup {NoToken}]
      <4>1. \A h \in Hooks : (IF h = "members" THEN token ELSE NoToken) \in Tokens \cup {NoToken}
        BY DEF TypeOK
      <4> QED
        BY <1>1, <4>1 DEF Mount
    <3>2. seen' \in BOOLEAN /\ joined' \in BOOLEAN
          /\ UNCHANGED <<token, refreshed, expired, loads, connected, inRoom, drops>>
      BY <1>1 DEF Mount
    <3> QED
      BY <2>2, <3>1, <3>2 DEF TypeOK
  <2>4. NoStraySocket' /\ LastOneCloses'
    BY <2>1, <2>2 DEF NoStraySocket, Live, LastOneCloses
  <2>5. SharedUnlessStale'
    BY <2>1, <2>2 DEF SharedUnlessStale, Registered
  <2>6. Staged'
    BY <2>1, <2>2 DEF Staged
  <2> QED
    BY <2>3, <2>4, <2>5, <2>6
<1>2. CASE MountEffects
  <2>1. /\ "members" \in Hooks /\ Registered = {} /\ Effect("members", taken["members"])
        /\ page' = "effects" /\ taken' = [taken EXCEPT !["room"] = token] /\ loads' = 2
        /\ UNCHANGED <<token, refreshed, expired, connected, seen, joined, inRoom, drops>>
    BY <1>2 DEF MountEffects, Staged, Hooks
  <2>2. taken["members"] \in Tokens \cup {NoToken} /\ taken'["members"] = taken["members"]
    BY <2>1 DEF TypeOK
  <2>3. /\ clients' \in [Clients -> Client] /\ made' \in 0..MaxClients
        /\ global' \in Clients \cup {NoClient} /\ refs' \in 0..2
        /\ subs' \in [Hooks -> Clients \cup {NoClient}]
        /\ Registered' \subseteq Registered \cup {"members"}
        /\ NoStraySocket' /\ LastOneCloses' /\ SharedUnlessStale'
        /\ \A g \in Hooks : subs'[g] # NoClient => subs'[g] <= made'
        /\ global' # NoClient => global' <= made' /\ \E g \in Hooks : subs'[g] = global'
        /\ \A c \in Clients : c # global' /\ clients'[c].socket # "none" => ~clients'[c].again
    BY <2>1, <2>2, EffectSharing
  <2>4. TypeOK'
    <3>1. taken' \in [Hooks -> Tokens \cup {NoToken}]
      BY <2>1 DEF TypeOK
    <3>2. page' \in {"away", "rendered", "effects", "ready"} /\ loads' \in 0..2
      BY <2>1
    <3> QED
      BY <2>1, <2>3, <3>1, <3>2 DEF TypeOK
  <2>5. Staged'
    BY <2>1, <2>3 DEF Staged
  <2> QED
    BY <2>3, <2>4, <2>5
<1>3. CASE Rerender
  <2>1. /\ "room" \in Hooks /\ "room" \notin Registered /\ Effect("room", taken["room"])
        /\ page' = "ready"
        /\ UNCHANGED <<token, refreshed, expired, taken, loads, connected, seen, joined, inRoom, drops>>
    BY <1>3 DEF Rerender, Staged, Hooks
  <2>2. taken["room"] \in Tokens \cup {NoToken}
    BY <2>1 DEF TypeOK
  <2>3. /\ clients' \in [Clients -> Client] /\ made' \in 0..MaxClients
        /\ global' \in Clients \cup {NoClient} /\ refs' \in 0..2
        /\ subs' \in [Hooks -> Clients \cup {NoClient}]
        /\ NoStraySocket' /\ LastOneCloses' /\ SharedUnlessStale'
        /\ \A g \in Hooks : subs'[g] # NoClient => subs'[g] <= made'
        /\ global' # NoClient => global' <= made' /\ \E g \in Hooks : subs'[g] = global'
        /\ \A c \in Clients : c # global' /\ clients'[c].socket # "none" => ~clients'[c].again
    BY <2>1, <2>2, EffectSharing
  <2>4. TypeOK'
    BY <2>1, <2>3 DEF TypeOK
  <2>5. Staged'
    BY <2>1, <2>3 DEF Staged
  <2> QED
    BY <2>3, <2>4, <2>5
<1>4. CASE Unmount
  <2>1. refs - Cardinality(Registered) = 0
    BY HookCount DEF LastOneCloses, TypeOK, Registered
  <2>2. /\ subs' = [h \in Hooks |-> NoClient] /\ refs' = 0 /\ made' = made
        /\ page' = "away" /\ loads' = 0
        /\ global # NoClient => global' = NoClient
              /\ clients' = [clients EXCEPT ![global] = Disconnected(global)]
        /\ global = NoClient => UNCHANGED <<clients, global>>
    BY <1>4, <2>1 DEF Unmount, Cleanup
  <2>3. global' = NoClient
    BY <2>2
  <2>4. Registered' = {}
    BY <2>2 DEF Registered
  <2>5. LastOneCloses'
    BY <2>2, <2>3, <2>4, FS_EmptySet DEF LastOneCloses
  <2>6. clients' \in [Clients -> Client]
    BY <2>2, DisconnectedClient DEF TypeOK
  <2>7. \A c \in Clients :
           /\ ~clients'[c].timer /\ clients'[c].socket \in {"none", "closing"}
           /\ clients'[c].socket # "none" => ~clients'[c].again
    <3> SUFFICES ASSUME NEW c \in Clients
                 PROVE  /\ ~clients'[c].timer /\ clients'[c].socket \in {"none", "closing"}
                        /\ clients'[c].socket # "none" => ~clients'[c].again
      OBVIOUS
    <3>1. CASE c = global
      <4>1. global # NoClient
        BY <3>1 DEF Clients
      <4>2. clients'[c] = Disconnected(c)
        BY <2>2, <3>1, <4>1 DEF TypeOK
      <4> QED
        BY <4>2, DisconnectedClient DEF TypeOK
    <3>2. CASE c # global
      <4>1. clients'[c] = clients[c] /\ clients[c] \in Client
        BY <2>2, <3>2 DEF TypeOK
      <4> QED
        BY <3>2, <4>1 DEF NoStraySocket, Staged, Live, Client
    <3> QED
      BY <3>1, <3>2
  <2>8. TypeOK'
    <3>1. connected' \in [Hooks -> BOOLEAN] /\ inRoom' \in BOOLEAN
          /\ UNCHANGED <<token, refreshed, expired, taken, seen, joined, drops>>
      BY <1>4 DEF Unmount
    <3> QED
      BY <2>2, <2>3, <2>6, <3>1 DEF TypeOK
  <2>9. NoStraySocket' /\ SharedUnlessStale' /\ Staged'
    BY <2>2, <2>3, <2>4, <2>7 DEF NoStraySocket, SharedUnlessStale, Staged, Live
  <2> QED
    BY <2>5, <2>8, <2>9
<1> QED
  BY <1>1, <1>2, <1>3, <1>4

\* Renders and the rest of the tab touch neither clients nor hooks.
LEMMA QuietSharing ==
    ASSUME SharingInv,
           LoadAnswer \/ Render \/ RefreshToken \/ ClearToken \/ ExpireToken \/ UNCHANGED vars
    PROVE  SharingInv'
<1> USE DEF SharingInv, auth, view, ws, hook, room
<1>1. /\ UNCHANGED <<page, taken, global, refs, clients, made, subs>>
      /\ Registered' = Registered
  BY DEF LoadAnswer, Render, RefreshToken, ClearToken, ExpireToken, vars, Registered
<1>2. connected' = connected /\ drops' = drops
  BY DEF LoadAnswer, Render, RefreshToken, ClearToken, ExpireToken, vars
<1>3. loads' \in 0..2
  BY DEF TypeOK, LoadAnswer, Render, RefreshToken, ClearToken, ExpireToken, vars
<1>4. seen' \in BOOLEAN /\ joined' \in BOOLEAN /\ inRoom' \in BOOLEAN
  <2>1. connected["room"] \in BOOLEAN
    BY DEF TypeOK, Hooks
  <2> QED
    BY <2>1 DEF TypeOK, LoadAnswer, Render, JoinEffect, RefreshToken, ClearToken, ExpireToken, vars
<1>5. token' \in Tokens \cup {NoToken} /\ refreshed' \in Tokens /\ expired' \subseteq Tokens
  <2>1. CASE RefreshToken
    BY <2>1 DEF TypeOK, Tokens, RefreshToken
  <2>2. CASE ClearToken
    BY <2>2 DEF TypeOK, ClearToken
  <2>3. CASE ExpireToken
    BY <2>3 DEF TypeOK, Tokens, ExpireToken
  <2>4. CASE LoadAnswer \/ Render \/ UNCHANGED vars
    BY <2>4 DEF TypeOK, LoadAnswer, Render, vars
  <2> QED
    BY <2>1, <2>2, <2>3, <2>4
<1>6. TypeOK'
  BY <1>1, <1>2, <1>3, <1>4, <1>5 DEF TypeOK
<1>7. NoStraySocket' /\ LastOneCloses' /\ SharedUnlessStale' /\ Staged'
  BY <1>1 DEF NoStraySocket, LastOneCloses, SharedUnlessStale, Staged, Live
<1> QED
  BY <1>6, <1>7

\* The inductive invariant holds in every reachable state: clients are replaced
\* one by one, and only the last of them can still connect.
THEOREM Sharing == Spec => []SharingInv
<1>1. ASSUME SharingInv, [Next]_vars PROVE SharingInv'
  <2>1. CASE \E c \in Clients : Open(c) \/ Close(c) \/ Reconnect(c)
    BY <1>1, <2>1, SocketSharing
  <2>2. CASE Mount \/ MountEffects \/ Rerender \/ Unmount
    BY <1>1, <2>2, PageSharing
  <2>3. CASE LoadAnswer \/ Render \/ RefreshToken \/ ClearToken \/ ExpireToken \/ UNCHANGED vars
    BY <1>1, <2>3, QuietSharing
  <2> QED
    BY <1>1, <2>1, <2>2, <2>3 DEF Next
<1> QED
  BY <1>1, InitSharing, PTL DEF Spec

\* A replaced or abandoned client never holds an open socket or a timer again,
\* so that a tab has at most one live connection.
THEOREM NoStray == Spec => []NoStraySocket
<1>1. SharingInv => NoStraySocket
  BY DEF SharingInv
<1> QED
  BY <1>1, Sharing, PTL

\* globalRefCount counts the registered hooks, and the client is there exactly
\* while one of them is.
THEOREM Counting == Spec => []LastOneCloses
<1>1. SharingInv => LastOneCloses
  BY DEF SharingInv
<1> QED
  BY <1>1, Sharing, PTL

\* A hook that is not registered with the shared client took a token that was
\* replaced before the other hook took its own.
THEOREM Shared == Spec => []SharedUnlessStale
<1>1. SharingInv => SharedUnlessStale
  BY DEF SharingInv
<1> QED
  BY <1>1, Sharing, PTL
------------------------------------------------------------------------------
(* WebSession: what a call in flight may be, where it came from, and what it *)
(* may still do to a tab after a logout.                                     *)

\* What a slot of a tab holds, when n refresh tokens have been minted.
FetchOf(s, n) ==
    {c \in Fetch :
        /\ c.ck \in 0..n /\ c.new \in 0..n
        /\ c.kind = "logout" => c.pc \in {"idle", "sent", "granted", "error"}
        /\ s \in {"init", "old", "guard"} => c.kind = "refresh"
        /\ s = "form" => c.pc = "idle" \/ c.kind # "refresh"}

\* Its answer brings nobody a token.
Harmless(c) ==
    \/ c.pc = "idle" \/ c.kind = "logout"
    \/ c.kind = "refresh" /\ c.ck = 0 /\ c.pc \in {"refused", "error"}

TabOK(t) ==
    /\ shown[t] # "closed" => ready[t] \/ Busy(t, "init")
    /\ shown[t] = "closed" =>
         access[t] = "none" /\ bad[t] = 0 /\ t \notin inbox /\ \A s \in Slots : ~Busy(t, s)
    /\ \A s \in Slots : call[t][s] \in FetchOf(s, newest)
    /\ out => /\ t \in inbox \/ access[t] = "none"
              /\ \A s \in Slots : Harmless(call[t][s])

PageIInv == PageTypeOK /\ (\A t \in Tabs : TabOK(t)) /\ (out => cookie = 0)

Elsewhere(t) ==
    \A x \in Tabs \ {t} :
        /\ call'[x] = call[x] /\ shown'[x] = shown[x] /\ ready'[x] = ready[x]
        /\ access'[x] = access[x] /\ bad'[x] = bad[x] /\ (x \in inbox' <=> x \in inbox)

\* A step of one tab leaves the others as they are.
LEMMA TabKeeps ==
    ASSUME PageIInv, NEW t \in Tabs, PageTypeOK', newest <= newest', Elsewhere(t), TabOK(t)',
           out' => out /\ cookie' = 0
    PROVE  PageIInv'
<1>1. ASSUME NEW x \in Tabs, x # t
      PROVE  TabOK(x)'
  <2>1. \A s \in Slots : FetchOf(s, newest) \subseteq FetchOf(s, newest')
    BY DEF PageIInv, PageTypeOK, FetchOf
  <2>2. TabOK(x)
    BY DEF PageIInv
  <2> QED
    BY <1>1, <2>1, <2>2 DEF TabOK, Elsewhere, Busy
<1> QED
  BY <1>1 DEF PageIInv

\* The call of one slot of one tab changes.
LEMMA OneSlot ==
    ASSUME PageTypeOK, NEW t \in Tabs, NEW s \in Slots, NEW c \in Fetch, SetCall(t, s, c)
    PROVE  /\ call' \in [Tabs -> [Slots -> Fetch]]
           /\ call'[t][s] = c
           /\ \A y \in Slots \ {s} : call'[t][y] = call[t][y]
           /\ \A x \in Tabs \ {t} : call'[x] = call[x]
<1>1. call \in [Tabs -> [Slots -> Fetch]]
  BY DEF PageTypeOK
<1>2. call' = [call EXCEPT ![t] = [call[t] EXCEPT ![s] = c]]
  BY <1>1 DEF SetCall
<1>3. [call[t] EXCEPT ![s] = c] \in [Slots -> Fetch]
  BY <1>1
<1> QED
  BY <1>1, <1>2, <1>3

\* The call of one slot ends.
LEMMA SlotEnds ==
    ASSUME PageIInv, NEW t \in Tabs, NEW s \in Slots
    PROVE  /\ NoFetch \in Fetch /\ NoFetch.pc = "idle"
           /\ \A y \in Slots : NoFetch \in FetchOf(y, newest)
           /\ Done(t, s) \in [Slots -> Fetch] /\ Done(t, s)[s] = NoFetch
           /\ \A y \in Slots \ {s} : Done(t, s)[y] = call[t][y]
           /\ \A y \in Slots : Done(t, s)[y] \in FetchOf(y, newest)
           /\ out => \A y \in Slots : Harmless(Done(t, s)[y])
<1>1. /\ NoFetch \in Fetch /\ NoFetch.pc = "idle" /\ NoFetch.kind = "refresh"
      /\ NoFetch.ck = 0 /\ NoFetch.new = 0
  BY DEF NoFetch, Fetch
<1>2. newest \in Nat /\ call[t] \in [Slots -> Fetch] /\ TabOK(t)
  BY DEF PageIInv, PageTypeOK
<1>3. \A y \in Slots : NoFetch \in FetchOf(y, newest)
  BY <1>1, <1>2 DEF FetchOf
<1>4. /\ Done(t, s) \in [Slots -> Fetch] /\ Done(t, s)[s] = NoFetch
      /\ \A y \in Slots \ {s} : Done(t, s)[y] = call[t][y]
  BY <1>1, <1>2 DEF Done
<1> QED
  BY <1>1, <1>2, <1>3, <1>4 DEF TabOK, Harmless

\* What refresh/route.ts is sent, and what it answers without a cookie.
LEMMA RefreshSent ==
    ASSUME NEW n \in Nat, NEW ck \in 0..n
    PROVE  /\ SendFetch("refresh", ck) \in Fetch /\ SendFetch("refresh", ck).pc # "idle"
           /\ \A s \in Slots : s # "form" => SendFetch("refresh", ck) \in FetchOf(s, n)
           /\ ck = 0 => Harmless(SendFetch("refresh", ck))
<1> PICK p \in {"sent", "refused"} : p = IF ck = 0 THEN "refused" ELSE "sent"
  OBVIOUS
<1>1. SendFetch("refresh", ck) = [pc |-> p, kind |-> "refresh", ck |-> ck, new |-> 0]
  <2>1. SendFetch("refresh", ck) = [NoFetch EXCEPT !.pc = p, !.kind = "refresh", !.ck = ck]
    BY DEF SendFetch
  <2> QED
    BY <2>1 DEF NoFetch
<1>2. ck \in Nat
  OBVIOUS
<1>3. SendFetch("refresh", ck) \in Fetch
  BY <1>1, <1>2 DEF Fetch
<1> QED
  BY <1>1, <1>3 DEF FetchOf, Harmless

\* The cookie an answer leaves.
LEMMA CookieOK ==
    ASSUME PageIInv, NEW t \in Tabs, NEW s \in Slots
    PROVE  /\ CookieAfter(call[t][s]) \in 0..newest
           /\ out => CookieAfter(call[t][s]) = 0
<1> PICK c : c = call[t][s]
  OBVIOUS
<1>1. c \in Fetch /\ c.ck \in 0..newest /\ c.new \in 0..newest /\ (out => Harmless(c))
  BY DEF PageIInv, TabOK, FetchOf
<1>2. cookie \in 0..newest /\ newest \in Nat /\ (out => cookie = 0)
  BY DEF PageIInv, PageTypeOK
<1>3. CookieAfter(c) \in {c.ck, c.new, 0, cookie}
  BY DEF CookieAfter
<1>4. out => CookieAfter(c) \in {0, cookie}
  BY <1>1 DEF CookieAfter, Harmless
<1> QED
  BY <1>1, <1>2, <1>3, <1>4

\* A tab has come to a page.
Landed(t) ==
    /\ shown' \in [Tabs -> {"closed", "login", "rooms"}] /\ ready' \in [Tabs -> BOOLEAN]
    /\ access' \in [Tabs -> {"none", "live", "expired"}] /\ bad' \in [Tabs -> 0..MaxApi]
    /\ call' \in [Tabs -> [Slots -> Fetch]]
    /\ \A x \in Tabs \ {t} : /\ call'[x] = call[x] /\ shown'[x] = shown[x]
                             /\ ready'[x] = ready[x] /\ access'[x] = access[x] /\ bad'[x] = bad[x]
    /\ shown'[t] \in {"login", "rooms"}
    /\ ready'[t] \/ call'[t]["init"].pc # "idle"
    /\ \A s \in Slots : call'[t][s] \in FetchOf(s, newest)

\* router.push and router.replace.
LEMMA NavigateKeeps ==
    ASSUME PageIInv, NEW t \in Tabs, NEW target \in {"login", "rooms"}, NEW ck \in 0..newest,
           NEW acc \in {"none", "live"}, NEW held \in [Slots -> Fetch],
           \A s \in Slots : held[s] \in FetchOf(s, newest),
           ready[t] \/ held["init"].pc # "idle", Navigate(t, target, ck, acc, held)
    PROVE  /\ Landed(t) /\ access'[t] = acc
           /\ ck = 0 /\ (\A s \in Slots : Harmless(held[s])) => \A s \in Slots : Harmless(call'[t][s])
<1> DEFINE p == Served(target, ck)
           kept == IF held["init"].pc = "idle" THEN held["old"] ELSE held["init"]
           first == IF acc = "none" THEN SendFetch("refresh", ck) ELSE NoFetch
           after == IF p = shown[t] THEN held ELSE [held EXCEPT !["old"] = kept, !["init"] = first]
           set == IF p = shown[t] THEN ready[t] ELSE acc # "none"
<1>1. /\ shown \in [Tabs -> {"closed", "login", "rooms"}] /\ ready \in [Tabs -> BOOLEAN]
      /\ access \in [Tabs -> {"none", "live", "expired"}] /\ call \in [Tabs -> [Slots -> Fetch]]
      /\ bad \in [Tabs -> 0..MaxApi] /\ newest \in Nat
  BY DEF PageIInv, PageTypeOK
<1>2. p \in {"login", "rooms"}
  BY DEF Served
<1>3. /\ shown' = [shown EXCEPT ![t] = p] /\ access' = [access EXCEPT ![t] = acc] /\ bad' = bad
      /\ ready' = [ready EXCEPT ![t] = set] /\ call' = [call EXCEPT ![t] = after]
  BY <1>1 DEF Navigate
<1>4. /\ first \in Fetch /\ first \in FetchOf("init", newest)
      /\ acc = "none" => first.pc # "idle"
      /\ ck = 0 => Harmless(first)
  <2>1. NoFetch \in Fetch /\ NoFetch \in FetchOf("init", newest) /\ Harmless(NoFetch)
    BY SlotEnds DEF Slots, Harmless
  <2> QED
    BY <1>1, <2>1, RefreshSent DEF Slots
<1>5. /\ kept \in Fetch /\ kept \in FetchOf("old", newest)
      /\ (\A s \in Slots : Harmless(held[s])) => Harmless(kept)
  BY DEF FetchOf, Slots
<1> HIDE DEF kept, first
<1>6. /\ after \in [Slots -> Fetch]
      /\ \A s \in Slots : after[s] \in FetchOf(s, newest)
      /\ ck = 0 /\ (\A s \in Slots : Harmless(held[s])) => \A s \in Slots : Harmless(after[s])
      /\ p # shown[t] => after["init"] = first
      /\ p = shown[t] => after = held
  <2>1. CASE p = shown[t]
    BY <2>1
  <2>2. CASE p # shown[t]
    <3>1. after = [held EXCEPT !["old"] = kept, !["init"] = first]
      BY <2>2
    <3>2. after \in [Slots -> Fetch] /\ after["init"] = first /\ after["old"] = kept
      BY <1>4, <1>5, <3>1 DEF Slots
    <3>3. \A s \in Slots : s = "init" \/ s = "old" \/ after[s] = held[s]
      BY <3>1
    <3> QED
      BY <1>4, <1>5, <2>2, <3>2, <3>3
  <2> QED
    BY <2>1, <2>2
<1>7. set \in BOOLEAN /\ (set \/ after["init"].pc # "idle")
  BY <1>1, <1>4, <1>6
<1> HIDE DEF after, set, p
<1> QED
  BY <1>1, <1>2, <1>3, <1>6, <1>7 DEF Landed

\* A load of the document.
LEMMA LoadKeeps ==
    ASSUME PageIInv, NEW t \in Tabs, NEW target \in {"login", "rooms"}, NEW ck \in 0..newest,
           NEW held \in [Slots -> Fetch], \A s \in Slots : held[s] \in FetchOf(s, newest),
           Load(t, target, ck, held)
    PROVE  /\ Landed(t) /\ access'[t] = "none"
           /\ ck = 0 /\ (\A s \in Slots : Harmless(held[s])) => \A s \in Slots : Harmless(call'[t][s])
<1>1. /\ shown \in [Tabs -> {"closed", "login", "rooms"}] /\ ready \in [Tabs -> BOOLEAN]
      /\ access \in [Tabs -> {"none", "live", "expired"}] /\ call \in [Tabs -> [Slots -> Fetch]]
      /\ bad \in [Tabs -> 0..MaxApi] /\ newest \in Nat /\ 0 \in 0..MaxApi
  BY WebAssumption DEF PageIInv, PageTypeOK
<1>2. Served(target, ck) \in {"login", "rooms"}
  BY DEF Served
<1>3. PICK s \in Slots :
         call' = [call EXCEPT ![t] = [x \in Slots |-> CASE x = "init" -> SendFetch("refresh", ck)
                                                        [] x = "orphan" -> held[s]
                                                        [] OTHER -> NoFetch]]
  BY DEF Load
<1> DEFINE first == SendFetch("refresh", ck)
           after == [x \in Slots |-> CASE x = "init" -> first [] x = "orphan" -> held[s] [] OTHER -> NoFetch]
<1>4. /\ first \in Fetch /\ first \in FetchOf("init", newest) /\ first.pc # "idle"
      /\ ck = 0 => Harmless(first)
  BY <1>1, RefreshSent DEF Slots
<1>5. /\ NoFetch \in Fetch /\ Harmless(NoFetch)
      /\ \A x \in Slots : NoFetch \in FetchOf(x, newest)
  BY SlotEnds DEF Harmless
<1>6. held[s] \in Fetch /\ held[s] \in FetchOf("orphan", newest)
  BY DEF FetchOf
<1> HIDE DEF first
<1>7. \A x \in Slots : (x = "init" /\ after[x] = first) \/ (x = "orphan" /\ after[x] = held[s]) \/ after[x] = NoFetch
  <2> SUFFICES ASSUME NEW x \in Slots
               PROVE  (x = "init" /\ after[x] = first) \/ (x = "orphan" /\ after[x] = held[s]) \/ after[x] = NoFetch
    OBVIOUS
  <2>1. CASE x = "init"
    BY <2>1
  <2>2. CASE x = "orphan"
    BY <2>2
  <2>3. CASE x # "init" /\ x # "orphan"
    BY <2>3
  <2> QED
    BY <2>1, <2>2, <2>3
<1>8. after["init"] = first
  BY DEF Slots
<1>9. after \in [Slots -> Fetch]
  <2>1. \A x \in Slots : after[x] \in Fetch
    BY <1>4, <1>5, <1>6, <1>7
  <2> QED
    BY <2>1
<1>10. /\ \A x \in Slots : after[x] \in FetchOf(x, newest)
       /\ ck = 0 /\ (\A x \in Slots : Harmless(held[x])) => \A x \in Slots : Harmless(after[x])
  BY <1>4, <1>5, <1>6, <1>7
<1>11. call' = [call EXCEPT ![t] = after]
  BY <1>3 DEF first
<1> HIDE DEF after
<1>12. /\ shown' = [shown EXCEPT ![t] = Served(target, ck)] /\ access' = [access EXCEPT ![t] = "none"]
       /\ ready' = [ready EXCEPT ![t] = FALSE] /\ bad' = [bad EXCEPT ![t] = 0]
  BY DEF Load
<1> QED
  BY <1>1, <1>2, <1>4, <1>8, <1>9, <1>10, <1>11, <1>12 DEF Landed

\* A step that gives one slot of a tab another call, and may give it a token.
LEMMA SlotKeeps ==
    ASSUME PageIInv, NEW t \in Tabs, NEW s \in Slots, NEW c \in Fetch, SetCall(t, s, c),
           valid' \in 0..newest', newest' \in Nat, newest <= newest', fresh' \in BOOLEAN,
           cookie' \in 0..newest', user' \in 0..MaxUser, faults' \in 0..MaxFaults, out' \in BOOLEAN,
           shown' = shown, inbox' = inbox, bad' \in [Tabs -> 0..MaxApi], ready' \in [Tabs -> BOOLEAN],
           access' \in [Tabs -> {"none", "live", "expired"}],
           \A x \in Tabs \ {t} : ready'[x] = ready[x] /\ access'[x] = access[x] /\ bad'[x] = bad[x],
           c \in FetchOf(s, newest'), ready[t] => ready'[t], s = "init" => ready'[t] \/ c.pc # "idle",
           shown[t] # "closed",
           out' => out /\ cookie' = 0 /\ Harmless(c) /\ (t \in inbox \/ access'[t] = "none")
    PROVE  PageIInv'
<1>1. PageTypeOK /\ TabOK(t)
  BY DEF PageIInv
<1>2. /\ call' \in [Tabs -> [Slots -> Fetch]] /\ call'[t][s] = c
      /\ \A y \in Slots \ {s} : call'[t][y] = call[t][y]
      /\ \A x \in Tabs \ {t} : call'[x] = call[x]
  BY <1>1, OneSlot
<1>3. PageTypeOK'
  BY <1>1, <1>2 DEF PageTypeOK
<1>4. \A y \in Slots : FetchOf(y, newest) \subseteq FetchOf(y, newest')
  BY <1>1 DEF PageTypeOK, FetchOf
<1>5. \A y \in Slots : call'[t][y] \in FetchOf(y, newest')
  BY <1>1, <1>2, <1>4 DEF TabOK
<1>6. ready'[t] \/ call'[t]["init"].pc # "idle"
  BY <1>1, <1>2 DEF TabOK, Busy, Slots
<1>7. out' => \A y \in Slots : Harmless(call'[t][y])
  BY <1>1, <1>2 DEF TabOK
<1>8. TabOK(t)'
  BY <1>5, <1>6, <1>7 DEF TabOK, Busy, Harmless
<1> QED
  BY <1>1, <1>2, <1>3, <1>8, TabKeeps DEF Elsewhere

\* The servers answer.
LEMMA ServersKeep ==
    ASSUME PageIInv, NEW t \in Tabs, NEW s \in Slots,
           \/ CheckToken(t, s) \/ StoreToken(t, s) \/ Refuse(t, s) \/ Fail(t, s)
           \/ s = "form" /\ ServeLogout(t)
    PROVE  PageIInv'
<1> PICK c : c = call[t][s]
  OBVIOUS
<1>1. PageTypeOK /\ TabOK(t) /\ c \in Fetch /\ c \in FetchOf(s, newest) /\ newest \in Nat
      /\ (out => cookie = 0 /\ Harmless(c)) /\ shown[t] \in {"closed", "login", "rooms"}
  BY DEF PageIInv, TabOK, PageTypeOK
<1>2. c.pc # "idle"
  BY <1>1 DEF CheckToken, StoreToken, Refuse, Fail, ServeLogout
<1>3. shown[t] # "closed"
  BY <1>1, <1>2 DEF TabOK, Busy
<1>4. ASSUME NEW pc \in {"checked", "granted", "refused", "error"}, Answer(t, s, pc),
             c.kind = "logout" => pc \in {"granted", "error"},
             c.kind = "refresh" /\ c.ck = 0 /\ c.pc = "refused" => pc = "error",
             out => c.kind = "logout" \/ c.pc = "refused",
             UNCHANGED <<backend, cookie, tabState, inbox, user, out>>, faults' \in 0..MaxFaults
      PROVE  PageIInv'
  <2> PICK d : d = [c EXCEPT !.pc = pc]
    OBVIOUS
  <2>1. d \in Fetch /\ d.pc = pc /\ d.kind = c.kind /\ d.ck = c.ck /\ d.new = c.new
    BY <1>1 DEF Fetch
  <2>2. d \in FetchOf(s, newest) /\ (out => Harmless(d))
    BY <1>1, <1>2, <1>4, <2>1 DEF FetchOf, Harmless
  <2>3. SetCall(t, s, d)
    BY <1>4 DEF Answer
  <2>4. UNCHANGED <<valid, newest, fresh, cookie, shown, ready, access, bad, inbox, user, out>>
    BY <1>4 DEF backend, tabState
  <2>5. /\ valid' \in 0..newest' /\ newest' \in Nat /\ newest <= newest' /\ fresh' \in BOOLEAN
        /\ cookie' \in 0..newest' /\ user' \in 0..MaxUser /\ faults' \in 0..MaxFaults /\ out' \in BOOLEAN
        /\ bad' \in [Tabs -> 0..MaxApi] /\ ready' \in [Tabs -> BOOLEAN]
        /\ access' \in [Tabs -> {"none", "live", "expired"}]
    BY <1>1, <1>4, <2>4 DEF PageTypeOK
  <2>6. out' => out /\ cookie' = 0 /\ Harmless(d) /\ (t \in inbox \/ access'[t] = "none")
    BY <1>1, <2>2, <2>4 DEF TabOK
  <2>7. d \in FetchOf(s, newest') /\ d.pc # "idle"
    BY <2>1, <2>2, <2>4
  <2> QED
    BY <1>3, <2>1, <2>3, <2>4, <2>5, <2>6, <2>7, SlotKeeps
<1>5. CASE CheckToken(t, s)
  <2>1. c.kind = "refresh" /\ c.pc = "sent" /\ ~out
    BY <1>1, <1>5 DEF CheckToken, Harmless
  <2>2. PICK pc \in {"checked", "refused"} : Answer(t, s, pc)
    BY <1>5 DEF CheckToken
  <2> QED
    BY <1>1, <1>4, <1>5, <2>1, <2>2 DEF CheckToken, PageTypeOK
<1>6. CASE StoreToken(t, s)
  <2> PICK m : m = Mint
    OBVIOUS
  <2>1. m \in Nat /\ newest <= m
    BY <1>1 DEF Mint, PageTypeOK
  <2> PICK d : d = [c EXCEPT !.pc = "granted", !.new = m]
    OBVIOUS
  <2>2. d \in Fetch /\ d.pc = "granted" /\ d.kind = c.kind /\ d.ck = c.ck /\ d.new = m
    BY <1>1, <2>1 DEF Fetch
  <2>3. c.kind # "logout" /\ ~out
    BY <1>1, <1>6 DEF StoreToken, FetchOf, Harmless
  <2>4. d \in FetchOf(s, m)
    <3>1. d.ck \in 0..m /\ d.new \in 0..m
      BY <1>1, <2>1, <2>2 DEF FetchOf
    <3>2. d.kind # "logout" /\ (s \in {"init", "old", "guard"} => d.kind = "refresh")
          /\ (s = "form" => d.pc = "idle" \/ d.kind # "refresh")
      BY <1>1, <1>2, <2>2, <2>3 DEF FetchOf
    <3> QED
      BY <2>2, <3>1, <3>2 DEF FetchOf
  <2>5. SetCall(t, s, d) /\ valid' = m /\ newest' = m /\ fresh' = TRUE
        /\ UNCHANGED <<cookie, shown, ready, access, bad, inbox, user, faults, out>>
    BY <1>6 DEF StoreToken, tabState
  <2>6. cookie \in 0..m /\ m \in 0..m
    BY <1>1, <2>1 DEF PageTypeOK
  <2> QED
    BY <1>1, <1>3, <2>1, <2>2, <2>3, <2>4, <2>5, <2>6, SlotKeeps DEF PageTypeOK, TabOK
<1>7. CASE Refuse(t, s)
  <2>1. c.kind # "logout" /\ c.pc \in {"sent", "checked"} /\ ~out
    BY <1>1, <1>7 DEF Refuse, Harmless
  <2>2. faults' \in 0..MaxFaults
    BY <1>1, <1>7, WebAssumption DEF Refuse, PageTypeOK
  <2> QED
    BY <1>4, <1>7, <2>1, <2>2 DEF Refuse
<1>8. CASE Fail(t, s)
  <2>1. faults' \in 0..MaxFaults
    BY <1>1, <1>8, WebAssumption DEF Fail, PageTypeOK
  <2>2. out => c.kind = "logout" \/ c.pc = "refused"
    BY <1>1, <1>8 DEF Fail, Harmless
  <2> QED
    BY <1>4, <1>8, <2>1, <2>2 DEF Fail
<1>9. CASE s = "form" /\ ServeLogout(t)
  BY <1>1, <1>4, <1>9 DEF ServeLogout, PageTypeOK
<1> QED
  BY <1>5, <1>6, <1>7, <1>8, <1>9

\* The tab applies the answer to a refresh.
LEMMA RefreshKeeps ==
    ASSUME PageIInv, NEW t \in Tabs, NEW s \in Slots,
           RefreshOk(t, s) \/ (s = "init" /\ InitFails(t)) \/ (s = "old" /\ OldFails(t))
    PROVE  PageIInv'
<1>1. PageTypeOK /\ TabOK(t) /\ call[t][s] \in FetchOf(s, newest) /\ newest \in Nat
      /\ (out => cookie = 0 /\ Harmless(call[t][s])) /\ call \in [Tabs -> [Slots -> Fetch]]
  BY DEF PageIInv, TabOK, PageTypeOK
<1>2. call[t][s].pc # "idle" /\ shown[t] # "closed"
  BY <1>1 DEF RefreshOk, InitFails, OldFails, Failed, TabOK, Busy
<1>3. CookieAfter(call[t][s]) \in 0..newest /\ (out => CookieAfter(call[t][s]) = 0)
  BY CookieOK
<1>4. /\ NoFetch \in Fetch /\ NoFetch \in FetchOf(s, newest) /\ Harmless(NoFetch)
  BY SlotEnds DEF Harmless
<1>5. call' = [call EXCEPT ![t] = Done(t, s)] => SetCall(t, s, NoFetch)
  BY <1>1 DEF SetCall, Done
<1>6. CASE RefreshOk(t, s)
  <2>1. ~out
    BY <1>1, <1>6 DEF RefreshOk, FetchOf, Harmless
  <2>2. /\ SetCall(t, s, NoFetch) /\ cookie' = CookieAfter(call[t][s])
        /\ access' = [access EXCEPT ![t] = "live"]
        /\ ready' = [ready EXCEPT ![t] = ready[t] \/ s = "init"]
        /\ UNCHANGED <<valid, newest, fresh, shown, bad, inbox, user, faults, out>>
    BY <1>5, <1>6 DEF RefreshOk, backend
  <2>3. /\ ready' \in [Tabs -> BOOLEAN] /\ (ready[t] => ready'[t]) /\ (s = "init" => ready'[t])
        /\ access' \in [Tabs -> {"none", "live", "expired"}]
        /\ \A x \in Tabs \ {t} : ready'[x] = ready[x] /\ access'[x] = access[x]
    BY <1>1, <2>2 DEF PageTypeOK
  <2> QED
    BY <1>1, <1>2, <1>3, <1>4, <2>1, <2>2, <2>3, SlotKeeps DEF PageTypeOK
<1>7. CASE s = "old" /\ OldFails(t)
  <2>1. /\ SetCall(t, s, NoFetch) /\ cookie' = CookieAfter(call[t][s])
        /\ access' = [access EXCEPT ![t] = "none"]
        /\ UNCHANGED <<valid, newest, fresh, shown, ready, bad, inbox, user, faults, out>>
    BY <1>5, <1>7 DEF OldFails, backend
  <2>2. /\ access' \in [Tabs -> {"none", "live", "expired"}] /\ access'[t] = "none"
        /\ \A x \in Tabs \ {t} : access'[x] = access[x]
    BY <1>1, <2>1 DEF PageTypeOK
  <2> QED
    BY <1>1, <1>2, <1>3, <1>4, <1>7, <2>1, <2>2, SlotKeeps DEF PageTypeOK
<1>8. CASE s = "init" /\ InitFails(t)
  <2> DEFINE c == CookieAfter(call[t]["init"])
             chat == shown[t] = "rooms"
             next == IF chat THEN SendFetch("refresh", c) ELSE call[t]["old"]
             after == [Done(t, "init") EXCEPT !["old"] = IF chat THEN SendFetch("refresh", c) ELSE @]
  <2>1. /\ cookie' = c /\ access' = [access EXCEPT ![t] = "none"] /\ ready' = [ready EXCEPT ![t] = TRUE]
        /\ bad' = [bad EXCEPT ![t] = IF chat /\ bad[t] < MaxApi THEN bad[t] + 1 ELSE bad[t]]
        /\ call' = [call EXCEPT ![t] = after]
        /\ UNCHANGED <<valid, newest, fresh, shown, inbox, user, faults, out>>
    BY <1>8 DEF InitFails, backend
  <2>2. /\ Done(t, "init") \in [Slots -> Fetch]
        /\ \A y \in Slots : Done(t, "init")[y] \in FetchOf(y, newest)
        /\ out => \A y \in Slots : Harmless(Done(t, "init")[y])
        /\ Done(t, "init")["old"] = call[t]["old"]
    BY SlotEnds DEF Slots
  <2>3. /\ next \in Fetch /\ next \in FetchOf("old", newest)
        /\ out => Harmless(next)
    BY <1>1, <1>3, <1>8, <2>2, RefreshSent DEF Slots
  <2>4. after = [Done(t, "init") EXCEPT !["old"] = next]
    BY <2>2
  <2> HIDE DEF c, next, after
  <2>5. /\ after \in [Slots -> Fetch]
        /\ \A y \in Slots : after[y] \in FetchOf(y, newest)
        /\ out => \A y \in Slots : Harmless(after[y])
    BY <2>2, <2>3, <2>4
  <2>6. /\ call' \in [Tabs -> [Slots -> Fetch]] /\ call'[t] = after
        /\ access' \in [Tabs -> {"none", "live", "expired"}] /\ access'[t] = "none"
        /\ ready' \in [Tabs -> BOOLEAN] /\ ready'[t]
        /\ \A x \in Tabs \ {t} : call'[x] = call[x] /\ ready'[x] = ready[x] /\ access'[x] = access[x]
    BY <1>1, <2>1, <2>5 DEF PageTypeOK
  <2>7. bad' \in [Tabs -> 0..MaxApi] /\ \A x \in Tabs \ {t} : bad'[x] = bad[x]
    BY <1>1, <2>1, WebAssumption DEF PageTypeOK
  <2>8. c \in 0..newest /\ (out => c = 0)
    BY <1>3, <1>8 DEF c
  <2>9. PageTypeOK'
    BY <1>1, <2>1, <2>6, <2>7, <2>8 DEF PageTypeOK
  <2>10. TabOK(t)'
    BY <1>2, <2>1, <2>5, <2>6 DEF TabOK, Harmless
  <2>11. Elsewhere(t)
    BY <2>1, <2>6, <2>7 DEF Elsewhere
  <2>12. newest <= newest' /\ (out' => out /\ cookie' = 0)
    BY <1>1, <2>1, <2>8
  <2> QED
    BY <2>9, <2>10, <2>11, <2>12, TabKeeps
<1> QED
  BY <1>6, <1>7, <1>8

LEMMA LandedKeeps ==
    ASSUME PageIInv, NEW t \in Tabs, Landed(t), cookie' \in 0..newest, UNCHANGED backend,
           user' \in 0..MaxUser, faults' = faults, out' \in BOOLEAN,
           inbox' = inbox \/ inbox' = inbox \ {t},
           out' => out /\ cookie' = 0 /\ access'[t] = "none" /\ \A s \in Slots : Harmless(call'[t][s])
    PROVE  PageIInv'
<1>1. PageTypeOK /\ newest \in Nat /\ UNCHANGED <<valid, newest, fresh>>
  BY DEF PageIInv, PageTypeOK, backend
<1>2. PageTypeOK'
  BY <1>1 DEF PageTypeOK, Landed
<1>3. TabOK(t)'
  BY <1>1 DEF TabOK, Busy, Harmless, Landed
<1>4. Elsewhere(t)
  BY DEF Elsewhere, Landed
<1> QED
  BY <1>1, <1>2, <1>3, <1>4, TabKeeps

\* The tab leaves the page, or loads another.
LEMMA PageKeeps ==
    ASSUME PageIInv, NEW t \in Tabs,
           GuardFails(t) \/ LoginOk(t) \/ ReceiveLogout(t) \/ OpenTab(t) \/ Reload(t)
    PROVE  PageIInv'
<1>1. PageTypeOK /\ TabOK(t) /\ newest \in Nat /\ cookie \in 0..newest /\ (out => cookie = 0)
      /\ call[t] \in [Slots -> Fetch] /\ (\A s \in Slots : call[t][s] \in FetchOf(s, newest))
      /\ (out => \A s \in Slots : Harmless(call[t][s]))
  BY DEF PageIInv, PageTypeOK, TabOK
<1>2. CASE GuardFails(t)
  <2> PICK c \in 0..newest : c = CookieAfter(call[t]["guard"]) /\ (out => c = 0)
    BY CookieOK DEF Slots
  <2>1. cookie' = c /\ Load(t, "login", c, Done(t, "guard")) /\ UNCHANGED <<backend, inbox, user, faults, out>>
    BY <1>2 DEF GuardFails
  <2>2. Landed(t) /\ access'[t] = "none" /\ (out => \A s \in Slots : Harmless(call'[t][s]))
    BY <2>1, LoadKeeps, SlotEnds DEF Slots
  <2> QED
    BY <1>1, <2>1, <2>2, LandedKeeps DEF PageTypeOK
<1>3. CASE LoginOk(t)
  <2> PICK c \in 0..newest : c = CookieAfter(call[t]["form"])
    BY CookieOK DEF Slots
  <2>1. /\ cookie' = c /\ Navigate(t, "rooms", c, "live", Done(t, "form"))
        /\ UNCHANGED <<backend, inbox, user, faults, out>>
        /\ call[t]["form"].pc = "granted" /\ call[t]["form"].kind = "login"
    BY <1>3 DEF LoginOk
  <2>2. ~out /\ (ready[t] \/ call[t]["init"].pc # "idle")
    BY <1>1, <2>1 DEF TabOK, Busy, Harmless, Slots
  <2>3. Done(t, "form")["init"] = call[t]["init"]
    BY SlotEnds DEF Slots
  <2>4. Landed(t)
    BY <2>1, <2>2, <2>3, NavigateKeeps, SlotEnds DEF Slots
  <2> QED
    BY <1>1, <2>1, <2>2, <2>4, LandedKeeps DEF PageTypeOK
<1>4. CASE ReceiveLogout(t)
  <2>1. /\ inbox' = inbox \ {t} /\ Navigate(t, "login", cookie, "none", call[t]) /\ t \in inbox
        /\ UNCHANGED <<backend, cookie, user, faults, out>>
    BY <1>4 DEF ReceiveLogout
  <2>2. ready[t] \/ call[t]["init"].pc # "idle"
    BY <1>1, <2>1 DEF TabOK, Busy
  <2>3. Landed(t) /\ access'[t] = "none" /\ (out => \A s \in Slots : Harmless(call'[t][s]))
    BY <1>1, <2>1, <2>2, NavigateKeeps
  <2> QED
    BY <1>1, <2>1, <2>3, LandedKeeps DEF PageTypeOK
<1>5. CASE OpenTab(t)
  <2>1. Load(t, "rooms", cookie, call[t]) /\ UNCHANGED <<backend, cookie, inbox, user, faults, out>>
    BY <1>5 DEF OpenTab
  <2>2. Landed(t) /\ access'[t] = "none" /\ (out => \A s \in Slots : Harmless(call'[t][s]))
    BY <1>1, <2>1, LoadKeeps
  <2> QED
    BY <1>1, <2>1, <2>2, LandedKeeps DEF PageTypeOK
<1>6. CASE Reload(t)
  <2>1. /\ Load(t, shown[t], cookie, call[t]) /\ inbox' = inbox \ {t} /\ shown[t] \in {"login", "rooms"}
        /\ UNCHANGED <<backend, cookie, faults, out>> /\ user' \in 0..MaxUser
    BY <1>1, <1>6, WebAssumption DEF Reload, PageTypeOK
  <2>2. Landed(t) /\ access'[t] = "none" /\ (out => \A s \in Slots : Harmless(call'[t][s]))
    BY <1>1, <2>1, LoadKeeps
  <2> QED
    BY <1>1, <2>1, <2>2, LandedKeeps DEF PageTypeOK
<1> QED
  BY <1>2, <1>3, <1>4, <1>5, <1>6

\* logout() tells the other tabs: it is the one step that touches them all, and the
\* only one that starts the time after a logout.
LEMMA LogoutKeeps ==
    ASSUME PageIInv, NEW t \in Tabs, LogoutDone(t)
    PROVE  PageIInv'
<1> DEFINE form == call[t]["form"]
<1>1. PageTypeOK /\ TabOK(t) /\ newest \in Nat
  BY DEF PageIInv, PageTypeOK
<1> PICK c \in 0..newest : c = CookieAfter(form)
  BY CookieOK DEF Slots
<1>2. /\ form.pc \in {"granted", "error"} /\ form.kind = "logout" /\ cookie' = c
      /\ (out' => form.pc = "granted" /\ Alone(t)) /\ inbox' \in {OpenTabs, OpenTabs \ {t}}
      /\ Navigate(t, "login", c, "none", Done(t, "form")) /\ UNCHANGED <<backend, user, faults>>
  BY DEF LogoutDone
<1>3. shown[t] # "closed" /\ (ready[t] \/ call[t]["init"].pc # "idle")
  BY <1>1, <1>2 DEF TabOK, Busy, Slots
<1>4. Done(t, "form")["init"] = call[t]["init"]
  BY SlotEnds DEF Slots
<1>5. out' => c = 0
  BY <1>2 DEF CookieAfter
<1>6. out' => /\ \A s \in Slots : Done(t, "form")[s].pc = "idle"
              /\ \A x \in Tabs \ {t} : \A s \in Slots : call[x][s].pc = "idle"
  BY <1>2, SlotEnds DEF Alone, Busy, Slots
<1>7. Landed(t) /\ access'[t] = "none" /\ (out' => \A s \in Slots : Harmless(call'[t][s]))
  <2>1. out' => \A s \in Slots : Harmless(Done(t, "form")[s])
    BY <1>6 DEF Harmless
  <2>2. \A s \in Slots : Done(t, "form")[s] \in FetchOf(s, newest)
    BY SlotEnds DEF Slots
  <2>3. Done(t, "form") \in [Slots -> Fetch]
    BY SlotEnds DEF Slots
  <2> QED
    BY <1>2, <1>3, <1>4, <1>5, <2>1, <2>2, <2>3, NavigateKeeps
<1>8. UNCHANGED <<valid, newest, fresh, user, faults>>
  BY <1>2 DEF backend
<1>9. PageTypeOK'
  <2>1. inbox' \subseteq Tabs
    BY <1>2 DEF OpenTabs
  <2>2. out' \in BOOLEAN
    BY DEF LogoutDone
  <2> QED
    BY <1>1, <1>2, <1>7, <1>8, <2>1, <2>2 DEF PageTypeOK, Landed
<1>10. TabOK(t)'
  BY <1>7, <1>8 DEF TabOK, Busy, Harmless, Landed
<1>11. ASSUME NEW x \in Tabs, x # t
       PROVE  TabOK(x)'
  <2>1. TabOK(x) /\ call'[x] = call[x] /\ shown'[x] = shown[x] /\ ready'[x] = ready[x] /\ access'[x] = access[x]
        /\ bad'[x] = bad[x] /\ (x \in inbox' <=> shown[x] # "closed")
    BY <1>2, <1>7, <1>11 DEF PageIInv, Landed, OpenTabs
  <2>2. out' => \A s \in Slots : Harmless(call[x][s])
    BY <1>6, <1>11 DEF Harmless
  <2> QED
    BY <1>8, <2>1, <2>2 DEF TabOK, Busy, Harmless
<1>12. out' => cookie' = 0
  BY <1>2, <1>5
<1> QED
  BY <1>9, <1>10, <1>11, <1>12 DEF PageIInv

\* The user submits or clicks, the form is refused, an API call meets 401.
LEMMA FormKeeps ==
    ASSUME PageIInv, NEW t \in Tabs,
           LoginFails(t) \/ SubmitLogin(t) \/ ClickLogout(t) \/ OrphanAnswer(t) \/ Api401(t)
    PROVE  PageIInv'
<1>1. PageTypeOK /\ TabOK(t) /\ newest \in Nat /\ cookie \in 0..newest /\ (out => cookie = 0)
      /\ call \in [Tabs -> [Slots -> Fetch]]
  BY DEF PageIInv, PageTypeOK
<1>2. NoFetch \in Fetch /\ (\A s \in Slots : NoFetch \in FetchOf(s, newest)) /\ Harmless(NoFetch)
  BY SlotEnds DEF Harmless, Slots
<1>3. \A s \in Slots : call' = [call EXCEPT ![t] = Done(t, s)] => SetCall(t, s, NoFetch)
  BY <1>1 DEF SetCall, Done
<1>4. ASSUME NEW s \in Slots, s # "init", NEW c \in FetchOf(s, newest), SetCall(t, s, c),
             cookie' \in 0..newest, user' \in 0..MaxUser, out' \in BOOLEAN, bad' \in [Tabs -> 0..MaxApi],
             \A x \in Tabs \ {t} : bad'[x] = bad[x],
             UNCHANGED <<backend, shown, ready, access, inbox, faults>>, shown[t] # "closed",
             out' => out /\ cookie' = 0 /\ Harmless(c)
      PROVE  PageIInv'
  <2>1. UNCHANGED <<valid, newest, fresh>> /\ c \in Fetch
    BY <1>4 DEF backend, FetchOf
  <2>2. /\ valid' \in 0..newest' /\ newest' \in Nat /\ newest <= newest' /\ fresh' \in BOOLEAN
        /\ ready' \in [Tabs -> BOOLEAN] /\ access' \in [Tabs -> {"none", "live", "expired"}]
        /\ faults' \in 0..MaxFaults
    BY <1>1, <1>4, <2>1 DEF PageTypeOK
  <2>3. out' => t \in inbox \/ access'[t] = "none"
    BY <1>1, <1>4 DEF TabOK
  <2> QED
    BY <1>4, <2>1, <2>2, <2>3, SlotKeeps
<1>5. CASE LoginFails(t)
  <2>1. SetCall(t, "form", NoFetch) /\ UNCHANGED <<backend, cookie, tabState, inbox, user, faults, out>>
    BY <1>3, <1>5 DEF LoginFails, Slots
  <2>2. shown[t] # "closed"
    BY <1>1, <1>5 DEF LoginFails, Failed, TabOK, Busy, Slots
  <2> QED
    BY <1>1, <1>2, <1>4, <2>1, <2>2 DEF PageTypeOK, tabState, Slots
<1>6. CASE OrphanAnswer(t)
  <2>1. /\ SetCall(t, "orphan", NoFetch) /\ cookie' \in {cookie, CookieAfter(call[t]["orphan"])}
        /\ UNCHANGED <<backend, tabState, inbox, user, faults, out>>
    BY <1>3, <1>6 DEF OrphanAnswer, Slots
  <2>2. shown[t] # "closed"
    BY <1>1, <1>6 DEF OrphanAnswer, TabOK, Busy, Slots
  <2>3. cookie' \in 0..newest /\ (out => cookie' = 0)
    BY <1>1, <2>1, CookieOK DEF Slots
  <2> QED
    BY <1>1, <1>2, <1>4, <2>1, <2>2, <2>3 DEF PageTypeOK, tabState, Slots
<1>7. ASSUME NEW kind \in {"login", "logout"}, NEW ck \in 0..newest
      PROVE  SendFetch(kind, ck) \in FetchOf("form", newest) /\ (kind = "logout" => Harmless(SendFetch(kind, ck)))
  <2>1. SendFetch(kind, ck) = [NoFetch EXCEPT !.pc = "sent", !.kind = kind, !.ck = ck]
    BY <1>7 DEF SendFetch
  <2>2. SendFetch(kind, ck) = [pc |-> "sent", kind |-> kind, ck |-> ck, new |-> 0]
    BY <2>1 DEF NoFetch
  <2> QED
    BY <1>1, <1>7, <2>2 DEF FetchOf, Fetch, Harmless
<1>8. CASE SubmitLogin(t)
  <2>1. /\ SetCall(t, "form", SendFetch("login", 0)) /\ shown[t] # "closed" /\ ~out'
        /\ UNCHANGED <<backend, cookie, tabState, inbox, faults>>
    BY <1>8 DEF SubmitLogin
  <2>3. out' \in BOOLEAN
    BY <1>8, Zenon DEF SubmitLogin
  <2>2. user' \in 0..MaxUser
    BY <1>1, <1>8, WebAssumption DEF SubmitLogin, PageTypeOK
  <2> QED
    BY <1>1, <1>4, <1>7, <2>1, <2>2, <2>3 DEF PageTypeOK, tabState, Slots
<1>9. CASE ClickLogout(t)
  <2>1. /\ SetCall(t, "form", SendFetch("logout", cookie)) /\ shown[t] # "closed"
        /\ UNCHANGED <<backend, cookie, tabState, inbox, faults, out>>
    BY <1>9 DEF ClickLogout
  <2>2. user' \in 0..MaxUser
    BY <1>1, <1>9, WebAssumption DEF ClickLogout, PageTypeOK
  <2> QED
    BY <1>1, <1>4, <1>7, <2>1, <2>2 DEF PageTypeOK, tabState, Slots
<1>10. CASE Api401(t)
  <2>1. /\ bad[t] > 0 /\ bad' = [bad EXCEPT ![t] = bad[t] - 1]
        /\ IF Busy(t, "guard") THEN call' = call ELSE SetCall(t, "guard", SendFetch("refresh", cookie))
        /\ UNCHANGED <<backend, cookie, shown, ready, access, inbox, user, faults, out>>
    BY <1>10 DEF Api401, SetCall
  <2>2. bad' \in [Tabs -> 0..MaxApi] /\ \A x \in Tabs \ {t} : bad'[x] = bad[x]
    BY <1>1, <2>1, WebAssumption DEF PageTypeOK
  <2>3. shown[t] # "closed"
    BY <1>1, <2>1, WebAssumption DEF TabOK
  <2>4. SetCall(t, "guard", call[t]["guard"]) \/ SetCall(t, "guard", SendFetch("refresh", cookie))
    <3>1. call = [call EXCEPT ![t]["guard"] = call[t]["guard"]]
      BY <1>1 DEF Slots
    <3> QED
      BY <2>1, <3>1 DEF SetCall
  <2>5. /\ call[t]["guard"] \in FetchOf("guard", newest) /\ SendFetch("refresh", cookie) \in FetchOf("guard", newest)
        /\ out => Harmless(call[t]["guard"]) /\ Harmless(SendFetch("refresh", cookie))
    BY <1>1, RefreshSent DEF TabOK, Slots
  <2> QED
    BY <1>1, <1>4, <2>1, <2>2, <2>3, <2>4, <2>5 DEF PageTypeOK, Slots
<1> QED
  BY <1>5, <1>6, <1>8, <1>9, <1>10

\* Time passes, and an API call is sent in vain.
LEMMA ClockKeeps ==
    ASSUME PageIInv, Second \/ ExpireSession \/ \E t \in Tabs : ExpireAccess(t) \/ SendApi(t)
    PROVE  PageIInv'
<1>1. PageTypeOK /\ \A t \in Tabs : TabOK(t)
  BY DEF PageIInv
<1>2. CASE Second
  <2>1. UNCHANGED <<valid, newest, cookie, shown, ready, access, bad, call, inbox, user, faults, out>>
    BY <1>2 DEF Second, tabState
  <2>2. fresh' \in BOOLEAN
    BY <1>2, Zenon DEF Second
  <2> QED
    BY <1>1, <2>1, <2>2 DEF PageIInv, PageTypeOK, TabOK, Busy, Harmless
<1>3. CASE ExpireSession
  <2>1. UNCHANGED <<newest, shown, ready, access, bad, call, inbox, user, faults, out>>
    BY <1>3 DEF ExpireSession, tabState
  <2>2. fresh' \in BOOLEAN
    BY <1>3, Zenon DEF ExpireSession
  <2>3. cookie' \in {0, cookie} /\ valid' \in {0, valid}
    BY <1>3 DEF ExpireSession
  <2>4. PageTypeOK'
    BY <1>1, <2>1, <2>2, <2>3 DEF PageTypeOK
  <2>5. \A t \in Tabs : TabOK(t)'
    BY <1>1, <2>1 DEF TabOK, Busy, Harmless
  <2> QED
    BY <2>1, <2>3, <2>4, <2>5 DEF PageIInv
<1>4. ASSUME NEW t \in Tabs, ExpireAccess(t)
      PROVE  PageIInv'
  <2>1. /\ access[t] = "live" /\ access' = [access EXCEPT ![t] = "expired"]
        /\ UNCHANGED <<valid, newest, cookie, shown, ready, bad, call, inbox, user, faults, out>>
    BY <1>4 DEF ExpireAccess
  <2>2. fresh' \in BOOLEAN
    BY <1>4, Zenon DEF ExpireAccess
  <2>3. PageTypeOK' /\ Elsewhere(t) /\ newest <= newest'
    BY <1>1, <2>1, <2>2 DEF PageTypeOK, Elsewhere
  <2>4. TabOK(t)'
    BY <1>1, <2>1 DEF TabOK, Busy, Harmless
  <2> QED
    BY <2>1, <2>3, <2>4, TabKeeps DEF PageIInv
<1>5. ASSUME NEW t \in Tabs, SendApi(t)
      PROVE  PageIInv'
  <2>1. /\ shown[t] = "rooms" /\ bad[t] < MaxApi /\ bad' = [bad EXCEPT ![t] = bad[t] + 1]
        /\ UNCHANGED <<valid, newest, fresh, cookie, shown, ready, access, call, inbox, user, faults, out>>
    BY <1>5 DEF SendApi, backend
  <2>2. PageTypeOK' /\ Elsewhere(t) /\ newest <= newest'
    BY <1>1, <2>1, WebAssumption DEF PageTypeOK, Elsewhere
  <2>3. TabOK(t)'
    BY <1>1, <2>1 DEF TabOK, Busy, Harmless
  <2> QED
    BY <2>1, <2>2, <2>3, TabKeeps DEF PageIInv
<1> QED
  BY <1>2, <1>3, <1>4, <1>5

LEMMA WebStarts == WebInit => PageIInv
<1> SUFFICES ASSUME WebInit PROVE PageIInv
  OBVIOUS
<1>1. NoFetch \in Fetch /\ NoFetch.pc = "idle" /\ \A s \in Slots : NoFetch \in FetchOf(s, 0)
  BY DEF NoFetch, Fetch, FetchOf
<1>2. PageTypeOK
  <2>1. call \in [Tabs -> [Slots -> Fetch]]
    BY <1>1 DEF WebInit
  <2>2. /\ ready \in [Tabs -> BOOLEAN] /\ bad \in [Tabs -> 0..MaxApi] /\ 0 \in 0..MaxUser /\ 0 \in 0..MaxFaults
        /\ shown \in [Tabs -> {"closed", "login", "rooms"}] /\ access \in [Tabs -> {"none", "live", "expired"}]
    BY WebAssumption DEF WebInit
  <2>3. fresh \in BOOLEAN /\ out \in BOOLEAN
    BY Zenon DEF WebInit
  <2> QED
    BY <2>1, <2>2, <2>3 DEF WebInit, PageTypeOK
<1>3. \A t \in Tabs : TabOK(t)
  BY <1>1 DEF WebInit, TabOK, Busy
<1> QED
  BY <1>2, <1>3 DEF WebInit, PageIInv

\* Whatever calls are in flight when a page is mounted, it becomes ready; and a
\* logout that met none leaves nothing of the session in the browser.
THEOREM PagesComeToRest == WebSpec => []PageInv
<1>1. WebInit => PageIInv
  BY WebStarts
<1>2. PageIInv /\ [WebNext]_webVars => PageIInv'
  <2> SUFFICES ASSUME PageIInv, [WebNext]_webVars PROVE PageIInv'
    OBVIOUS
  <2>1. ASSUME NEW t \in Tabs, NEW s \in Slots, Handle(t, s) \/ Refuse(t, s) \/ Fail(t, s)
        PROVE  PageIInv'
    <3>1. \/ CheckToken(t, s) \/ StoreToken(t, s) \/ Refuse(t, s) \/ Fail(t, s) \/ (s = "form" /\ ServeLogout(t))
          \/ RefreshOk(t, s) \/ (s = "init" /\ InitFails(t)) \/ (s = "old" /\ OldFails(t))
          \/ GuardFails(t) \/ LoginOk(t) \/ LoginFails(t) \/ LogoutDone(t) \/ OrphanAnswer(t)
      BY <2>1 DEF Handle
    <3>2. CASE CheckToken(t, s) \/ StoreToken(t, s) \/ Refuse(t, s) \/ Fail(t, s) \/ (s = "form" /\ ServeLogout(t))
      BY <3>2, ServersKeep
    <3>3. CASE RefreshOk(t, s) \/ (s = "init" /\ InitFails(t)) \/ (s = "old" /\ OldFails(t))
      BY <3>3, RefreshKeeps
    <3>4. CASE GuardFails(t) \/ LoginOk(t)
      BY <3>4, PageKeeps
    <3>5. CASE LogoutDone(t)
      BY <3>5, LogoutKeeps
    <3>6. CASE LoginFails(t) \/ OrphanAnswer(t)
      BY <3>6, FormKeeps
    <3> QED
      BY <3>1, <3>2, <3>3, <3>4, <3>5, <3>6
  <2>2. ASSUME NEW t \in Tabs, Api401(t) \/ ReceiveLogout(t)
        PROVE  PageIInv'
    BY <2>2, PageKeeps, FormKeeps
  <2>3. ASSUME NEW t \in Tabs,
               SendApi(t) \/ SubmitLogin(t) \/ ClickLogout(t) \/ OpenTab(t) \/ Reload(t) \/ ExpireAccess(t)
        PROVE  PageIInv'
    BY <2>3, PageKeeps, FormKeeps, ClockKeeps
  <2>4. CASE Second \/ ExpireSession
    BY <2>4, ClockKeeps
  <2>5. CASE UNCHANGED webVars
    BY <2>5 DEF webVars, backend, tabState, PageIInv, PageTypeOK, TabOK, Busy, Harmless
  <2> QED
    BY <2>1, <2>2, <2>3, <2>4, <2>5 DEF WebNext
<1>3. PageIInv => PageInv
  <2> SUFFICES ASSUME PageIInv PROVE PageInv
    OBVIOUS
  <2>1. NoDeadSpinner
    BY DEF PageIInv, TabOK, NoDeadSpinner, OpenTabs
  <2>2. LogoutClearsTabs
    BY DEF PageIInv, TabOK, LogoutClearsTabs
  <2> QED
    BY <2>1, <2>2 DEF PageIInv, PageInv
<1> QED
  BY <1>1, <1>2, <1>3, PTL DEF WebSpec

------------------------------------------------------------------------------
(* MessageList: what is still to come, of the services and of the user's own *)
(* calls, accounts for every difference between the list and the truth.      *)

Sent == MaxMessages + 1 .. MaxMessages + sends
Posts(ids) == [kind : {"message"}, id : ids]
Changes == [kind : {"mark"}, id : Messages, mark : Marks, on : BOOLEAN]
Receipts == [kind : {"receipt"}, id : Placeholders, server : Messages]

IsChange(f, m, x) == f.kind = "mark" /\ f.id = m /\ f.mark = x
Has(q, m, x) == \E i \in DOMAIN q : IsChange(q[i], m, x)

\* The last change of mark x of message m in q, if there is one, leaves it as in s.
EndsWith(q, m, x, s) ==
    \A i \in DOMAIN q :
        IsChange(q[i], m, x) => (q[i].on <=> x \in s) \/ \E j \in DOMAIN q : j > i /\ IsChange(q[j], m, x)
Posted(q, m) == \E i \in DOMAIN q : q[i].kind = "message" /\ q[i].id = m

\* Frames reach the tab in the order wire, pubsub, up.
Moving(m, x) == Has(wire, m, x) \/ Has(pubsub, m, x) \/ Has(up, m, x)
LastSays(m, x, s) ==
    /\ EndsWith(up, m, x, s)
    /\ Has(up, m, x) \/ EndsWith(pubsub, m, x, s)
    /\ Has(up, m, x) \/ Has(pubsub, m, x) \/ EndsWith(wire, m, x, s)
Announced(m) == Posted(pubsub, m) \/ Posted(wire, m)

CallRecord ==
    [state : {"none", "sent", "ok", "failed", "over"}, id : AllIds \cup {0}, mark : Marks, on : BOOLEAN]
Active(k) == calls[k].state \in {"sent", "ok", "failed"}

FramesOK ==
    /\ up \in Seq(Posts(Placeholders) \cup Changes)
    /\ pubsub \in Seq(Posts(Messages) \cup Changes)
    /\ wire \in Seq(Posts(Messages) \cup Changes \cup Receipts)
    /\ calls \in [Calls -> CallRecord]
    /\ Old <= stored
    /\ \A i \in DOMAIN up : up[i].kind = "message" => up[i].id \in Sent
    /\ \A m : Announced(m) => m \in Old + 1 .. accepted
    /\ owed \subseteq Receipts /\ overtaken \subseteq 1 .. accepted

\* A receipt on its way, written or owed, names a placeholder and its message.
\* Unless the broadcast went ahead, it renames it to an id that is not shown yet.
ReceiptOK(r) ==
    /\ r.id \in Sent /\ r.server \in Old + 1 .. accepted
    /\ r.server \in excused \/ Announced(r.server)
    /\ r.server \in overtaken => r.server \in excused
    /\ r.id \in Ids(list) => r.server \in overtaken \/ r.server \notin Ids(list)
ReceiptsOK ==
    /\ \A i \in DOMAIN wire : wire[i].kind = "receipt" => ReceiptOK(wire[i])
    /\ \A i, j \in DOMAIN wire :
         /\ wire[i].kind = "receipt" /\ wire[j].kind = "message" /\ wire[j].id = wire[i].server
              => i < j \/ wire[i].server \in overtaken
         /\ wire[i].kind = "receipt" /\ wire[j].kind = "receipt" /\ wire[j].server = wire[i].server => i = j
    /\ \A r \in owed :
         /\ ReceiptOK(r)
         /\ \A s \in owed : s = r
         /\ \A i \in DOMAIN wire : wire[i].kind = "receipt" => wire[i].server # r.server
         /\ Posted(wire, r.server) => r.server \in overtaken

\* Pages are what they were asked for: consecutive messages down to the cursor.
Consecutive(items) ==
    \A i \in DOMAIN items : items[i].id = items[1].id + i - 1 /\ items[i].id \in 1 .. accepted
PagesOK ==
    /\ \A i \in DOMAIN list : list[i].id \in 1 .. accepted \cup Sent
    /\ history.state \in {"asked", "answered", "done", "failed"}
    /\ history.state # "done" => cursor = 0
    /\ history.state = "answered" =>
         /\ Consecutive(history.items) /\ NextCursor(history.items) <= Old + 1
         /\ \A m \in 1 .. Old : NextCursor(history.items) <= m => m \in Ids(history.items)
    /\ older.state \in {"idle", "asked", "answered"}
    /\ older.state # "idle" => cursor # 0
    /\ cursor # 0 =>
         /\ 1 < cursor /\ cursor <= Old + 1 /\ cursor \in Ids(list)
         /\ \A i \in DOMAIN list : cursor <= list[i].id
    /\ older.state = "answered" =>
         /\ Consecutive(older.items) /\ older.items # <<>>
         /\ older.items[Len(older.items)].id = cursor - 1

Covered(m) ==
    m \in Ids(list) \cup excused \/ Announced(m) \/ (history.state = "answered" /\ m \in Ids(history.items))
Everywhere ==
    /\ \A m \in Old + 1 .. accepted : Covered(m)
    /\ history.state = "done" => \A m \in 1 .. Old : cursor <= m => m \in Ids(list)

\* A call nobody disturbs: the list is ahead of the services until it is answered.
Undisturbed(k) ==
    LET c == calls[k] IN
    /\ history.state = "done" /\ c.id \in Ids(list)
    /\ ~Moving(c.id, c.mark)
    /\ c.mark \in truth[c.id] <=> (c.on <=> c.state = "ok")
    /\ \A i \in DOMAIN list : list[i].id = c.id => (c.mark \in list[i].marks <=> c.on)
    /\ \A j \in Calls : Active(j) /\ calls[j].id = c.id /\ calls[j].mark = c.mark => j = k
CallOK(k) ==
    LET c == calls[k] IN
    /\ c.id \in AllIds /\ c.mark # "theirs"
    /\ c.mark \in {"deleted", "edited"} => c.id \in mine \cup Placeholders
    /\ c.state = "ok" => c.id \in 1 .. stored
    /\ c.id \in Placeholders => c.id \in excused
    /\ c.id \notin excused => Undisturbed(k)
CallsOK == \A k \in Calls : Active(k) => CallOK(k)
Called(m, x) == \E k \in Calls : Active(k) /\ calls[k].id = m /\ calls[k].mark = x

\* An entry of items shows mark x of message m as the services have it.
Agrees(items, m, x) ==
    \A i \in DOMAIN items : items[i].id = m => (x \in items[i].marks <=> x \in truth[m])
MarkOK(m, x) ==
    /\ LastSays(m, x, truth[m])
    /\ ~Moving(m, x) =>
         /\ m \notin Ids(list) /\ Announced(m) => x \notin truth[m]
         /\ history.state = "answered" => Agrees(history.items, m, x)
         /\ older.state = "answered" => Agrees(older.items, m, x)
         /\ history.state = "done" /\ ~Called(m, x) => Agrees(list, m, x)
MarksOK ==
    /\ \A i \in DOMAIN up : up[i].kind = "mark" =>
         up[i].mark \in {"edited", "mine"} \/ (up[i].mark = "deleted" /\ up[i].id \in mine)
    /\ \A m \in Messages : stored < m => truth[m] = {}
    /\ \A m \in Messages \ excused : \A x \in Marks : MarkOK(m, x)
    /\ \A i \in DOMAIN list : list[i].id \in Placeholders \ excused => list[i].marks = {}

ListIInv == ListInv /\ FramesOK /\ ReceiptsOK /\ PagesOK /\ Everywhere /\ CallsOK /\ MarksOK

\* What Append does to a queue of frames.
LEMMA QueueAppend ==
    ASSUME NEW S, NEW q \in Seq(S), NEW f \in S
    PROVE  /\ Append(q, f) \in Seq(S) /\ DOMAIN Append(q, f) = 1 .. Len(q) + 1 /\ DOMAIN q = 1 .. Len(q) /\ Len(q) \in Nat
           /\ \A i \in DOMAIN q : i \in DOMAIN Append(q, f) /\ Append(q, f)[i] = q[i]
           /\ \A i \in DOMAIN Append(q, f) : Append(q, f)[i] = IF i = Len(q) + 1 THEN f ELSE q[i]
           /\ \A m, x : Has(Append(q, f), m, x) <=> Has(q, m, x) \/ IsChange(f, m, x)
           /\ \A m, x, s : EndsWith(Append(q, f), m, x, s) <=>
                             IF IsChange(f, m, x) THEN f.on <=> x \in s ELSE EndsWith(q, m, x, s)
           /\ \A m : Posted(Append(q, f), m) <=> Posted(q, m) \/ (f.kind = "message" /\ f.id = m)
<1> PICK r : r = Append(q, f)
  OBVIOUS
<1> PICK n : n = Len(q)
  OBVIOUS
<1>1. /\ r \in Seq(S) /\ DOMAIN r = 1 .. n + 1 /\ DOMAIN q = 1 .. n /\ n \in Nat
      /\ \A i \in 1 .. n : r[i] = q[i]
      /\ r[n + 1] = f
  BY AppendProperties
<1>2. \A i \in DOMAIN q : i \in DOMAIN r /\ r[i] = q[i] /\ n + 1 > i
  BY <1>1
<1>3. \A i \in DOMAIN r : i \in DOMAIN q \/ i = n + 1
  BY <1>1
<1>4. n + 1 \in DOMAIN r /\ \A j \in DOMAIN r : ~(j > n + 1)
  BY <1>1
<1>5. \A m, x : Has(r, m, x) <=> Has(q, m, x) \/ IsChange(f, m, x)
  BY <1>1, <1>2, <1>3, <1>4 DEF Has
<1>6. ASSUME NEW m, NEW x, NEW s
      PROVE  EndsWith(r, m, x, s) <=> IF IsChange(f, m, x) THEN f.on <=> x \in s ELSE EndsWith(q, m, x, s)
  <2>1. CASE IsChange(f, m, x)
    <3>1. (f.on <=> x \in s) => EndsWith(r, m, x, s)
      BY <1>1, <1>2, <1>3, <1>4, <2>1 DEF EndsWith
    <3>2. EndsWith(r, m, x, s) => (f.on <=> x \in s)
      BY <1>1, <1>4, <2>1 DEF EndsWith
    <3> QED
      BY <2>1, <3>1, <3>2
  <2>2. CASE ~IsChange(f, m, x)
    <3>1. EndsWith(r, m, x, s) => EndsWith(q, m, x, s)
      <4> SUFFICES ASSUME EndsWith(r, m, x, s), NEW i \in DOMAIN q, IsChange(q[i], m, x), ~(q[i].on <=> x \in s)
                   PROVE  \E j \in DOMAIN q : j > i /\ IsChange(q[j], m, x)
        BY DEF EndsWith
      <4>1. PICK j \in DOMAIN r : j > i /\ IsChange(r[j], m, x)
        BY <1>2 DEF EndsWith
      <4> QED
        BY <1>1, <1>2, <1>3, <2>2, <4>1
    <3>2. EndsWith(q, m, x, s) => EndsWith(r, m, x, s)
      <4> SUFFICES ASSUME EndsWith(q, m, x, s), NEW i \in DOMAIN r, IsChange(r[i], m, x), ~(r[i].on <=> x \in s)
                   PROVE  \E j \in DOMAIN r : j > i /\ IsChange(r[j], m, x)
        BY DEF EndsWith
      <4>1. i \in DOMAIN q /\ r[i] = q[i]
        BY <1>1, <1>2, <1>3, <2>2
      <4>2. PICK j \in DOMAIN q : j > i /\ IsChange(q[j], m, x)
        BY <4>1 DEF EndsWith
      <4> QED
        BY <1>2, <4>2
    <3> QED
      BY <2>2, <3>1, <3>2
  <2> QED
    BY <2>1, <2>2
<1>7. \A m : Posted(r, m) <=> Posted(q, m) \/ (f.kind = "message" /\ f.id = m)
  BY <1>1, <1>2, <1>3, <1>4 DEF Posted
<1>8. \A i \in DOMAIN r : r[i] = IF i = n + 1 THEN f ELSE q[i]
  BY <1>1
<1> QED
  BY <1>1, <1>2, <1>5, <1>6, <1>7, <1>8

\* What Tail does to it.
LEMMA QueueTail ==
    ASSUME NEW S, NEW q \in Seq(S), q # <<>>
    PROVE  /\ Tail(q) \in Seq(S) /\ Head(q) \in S /\ Head(q) = q[1] /\ 1 \in DOMAIN q
           /\ \A i \in DOMAIN Tail(q) : i \in Nat /\ i + 1 \in DOMAIN q /\ Tail(q)[i] = q[i + 1]
           /\ \A i \in DOMAIN q : i \in Nat /\ (i = 1 \/ (i - 1 \in DOMAIN Tail(q) /\ Tail(q)[i - 1] = q[i]))
           /\ \A m, x : Has(q, m, x) <=> Has(Tail(q), m, x) \/ IsChange(Head(q), m, x)
           /\ \A m, x, s : /\ EndsWith(q, m, x, s) => EndsWith(Tail(q), m, x, s)
                           /\ EndsWith(q, m, x, s) /\ IsChange(Head(q), m, x) /\ ~Has(Tail(q), m, x)
                                => (Head(q).on <=> x \in s)
           /\ \A m : Posted(q, m) <=> Posted(Tail(q), m) \/ (Head(q).kind = "message" /\ Head(q).id = m)
<1> PICK r : r = Tail(q)
  OBVIOUS
<1> PICK n : n = Len(q)
  OBVIOUS
<1>1. /\ r \in Seq(S) /\ DOMAIN r = 1 .. n - 1 /\ DOMAIN q = 1 .. n /\ n \in Nat /\ n > 0
      /\ \A i \in 1 .. n - 1 : r[i] = q[i + 1]
      /\ Head(q) = q[1] /\ Head(q) \in S
  BY HeadTailProperties, EmptySeq, LenProperties
<1>2. \A i \in DOMAIN r : i \in Nat /\ i + 1 \in DOMAIN q /\ r[i] = q[i + 1]
  BY <1>1
<1>3. \A i \in DOMAIN q : i \in Nat /\ (i = 1 \/ (i - 1 \in DOMAIN r /\ r[i - 1] = q[i]))
  BY <1>1
<1>4. 1 \in DOMAIN q
  BY <1>1
<1>5. \A m, x : Has(q, m, x) <=> Has(r, m, x) \/ IsChange(Head(q), m, x)
  BY <1>1, <1>2, <1>3, <1>4 DEF Has
<1>6. ASSUME NEW m, NEW x, NEW s, EndsWith(q, m, x, s)
      PROVE  EndsWith(r, m, x, s)
  <2> SUFFICES ASSUME NEW i \in DOMAIN r, IsChange(r[i], m, x), ~(r[i].on <=> x \in s)
               PROVE  \E j \in DOMAIN r : j > i /\ IsChange(r[j], m, x)
    BY DEF EndsWith
  <2>1. PICK j \in DOMAIN q : j > i + 1 /\ IsChange(q[j], m, x)
    BY <1>2, <1>6 DEF EndsWith
  <2>2. j - 1 \in DOMAIN r /\ r[j - 1] = q[j] /\ j - 1 > i
    BY <1>2, <1>3, <2>1
  <2> QED
    BY <2>1, <2>2
<1>7. ASSUME NEW m, NEW x, NEW s, EndsWith(q, m, x, s), IsChange(Head(q), m, x), ~Has(r, m, x)
      PROVE  Head(q).on <=> x \in s
  <2> SUFFICES ASSUME ~(Head(q).on <=> x \in s) PROVE FALSE
    OBVIOUS
  <2>1. PICK j \in DOMAIN q : j > 1 /\ IsChange(q[j], m, x)
    BY <1>1, <1>4, <1>7 DEF EndsWith
  <2>2. j - 1 \in DOMAIN r /\ r[j - 1] = q[j]
    BY <1>3, <2>1
  <2> QED
    BY <1>7, <2>1, <2>2 DEF Has
<1>8. ASSUME NEW m
      PROVE  Posted(q, m) <=> Posted(r, m) \/ (Head(q).kind = "message" /\ Head(q).id = m)
  <2>1. ASSUME NEW i \in DOMAIN q, q[i].kind = "message", q[i].id = m, i # 1
        PROVE  Posted(r, m)
    BY <1>3, <2>1 DEF Posted
  <2>2. Posted(r, m) => Posted(q, m)
    BY <1>2 DEF Posted
  <2> QED
    BY <1>1, <1>4, <2>1, <2>2 DEF Posted
<1> QED
  BY <1>1, <1>2, <1>3, <1>4, <1>5, <1>6, <1>7, <1>8

\* What is in the list after a mark is set or taken away.
LEMMA MarkedEntry ==
    ASSUME NEW i \in DOMAIN list, list[i] \in Entries, NEW id, NEW mark \in Marks, NEW on,
           NEW r, r = Marked(list, id, mark, on)
    PROVE  /\ r[i] \in Entries /\ r[i].id = list[i].id
           /\ list[i].id = id => (mark \in r[i].marks <=> on)
           /\ \A x : list[i].id # id \/ x # mark => (x \in r[i].marks <=> x \in list[i].marks)
<1> PICK w : w = With(list[i].marks, mark, on)
  OBVIOUS
<1>1. w \subseteq Marks /\ (mark \in w <=> on) /\ \A x : x # mark => (x \in w <=> x \in list[i].marks)
  BY DEF With, Entries
<1>2. CASE list[i].id = id
  <2>1. r[i] = [list[i] EXCEPT !.marks = w]
    BY <1>2 DEF Marked
  <2>2. r[i] \in Entries /\ r[i].id = list[i].id /\ r[i].marks = w
    BY <1>1, <2>1 DEF Entries
  <2> QED
    BY <1>1, <1>2, <2>2
<1>3. CASE list[i].id # id
  <2>1. r[i] = list[i]
    BY <1>3 DEF Marked
  <2> QED
    BY <1>3, <2>1
<1> QED
  BY <1>2, <1>3

LEMMA MarkedList ==
    ASSUME list \in Seq(Entries), NEW id, NEW mark \in Marks, NEW on, NEW r, r = Marked(list, id, mark, on)
    PROVE  r \in Seq(Entries) /\ DOMAIN r = DOMAIN list /\ Len(r) = Len(list) /\ Ids(r) = Ids(list)
<1>1. DOMAIN list = 1 .. Len(list) /\ Len(list) \in Nat /\ \A i \in DOMAIN list : list[i] \in Entries
  BY LenProperties, ElementOfSeq
<1>2. DOMAIN r = DOMAIN list
  BY DEF Marked
<1>3. ASSUME NEW i \in DOMAIN list
      PROVE  r[i] \in Entries /\ r[i].id = list[i].id
  <2>1. list[i] \in Entries
    BY <1>1
  <2>2. /\ r[i] \in Entries /\ r[i].id = list[i].id
        /\ list[i].id = id => (mark \in r[i].marks <=> on)
        /\ \A x : list[i].id # id \/ x # mark => (x \in r[i].marks <=> x \in list[i].marks)
    BY <2>1, MarkedEntry
  <2> QED
    BY <2>2
<1>4. r = [i \in 1 .. Len(list) |-> r[i]] /\ \A i \in 1 .. Len(list) : r[i] \in Entries
  <2>1. r = [i \in DOMAIN list |-> r[i]]
    BY DEF Marked
  <2> QED
    BY <1>1, <1>3, <2>1
<1>5. r \in Seq(Entries)
  BY <1>1, <1>4, IsASeq
<1>6. Len(r) = Len(list)
  BY <1>1, <1>2, <1>5, LenProperties
<1>7. Ids(r) = Ids(list)
  BY <1>2, <1>3 DEF Ids
<1> QED
  BY <1>2, <1>5, <1>6, <1>7

\* What an entry, a page and a frame are.
LEMMA ListTypes ==
    ASSUME ListIInv
    PROVE  /\ list \in Seq(Entries) /\ DOMAIN list = 1 .. Len(list) /\ Len(list) \in Nat
           /\ \A i \in DOMAIN list : list[i] \in Entries /\ list[i].id \in Nat /\ list[i].marks \subseteq Marks
           /\ stored \in Nat /\ accepted \in Nat /\ stored <= accepted /\ accepted <= MaxMessages
           /\ Old \in Nat /\ Old <= stored /\ MaxMessages \in Nat /\ MaxSends \in Nat
           /\ sends \in Nat /\ sends <= MaxSends /\ cursor \in Nat
           /\ truth \in [Messages -> SUBSET Marks] /\ mine \subseteq 1 .. accepted
           /\ calls \in [Calls -> CallRecord] /\ excused \subseteq AllIds
           /\ overtaken \subseteq 1 .. accepted /\ owed \subseteq Receipts
<1>1. ListTypeOK /\ FramesOK
  BY DEF ListIInv, ListInv
<1>2. DOMAIN list = 1 .. Len(list) /\ Len(list) \in Nat /\ \A i \in DOMAIN list : list[i] \in Entries
  BY <1>1, LenProperties, ElementOfSeq DEF ListTypeOK
<1>3. \A i \in DOMAIN list : list[i].id \in Nat /\ list[i].marks \subseteq Marks
  BY <1>2, BoundsAssumption DEF Entries, AllIds, Messages, Placeholders
<1>4. /\ stored \in Nat /\ accepted \in Nat /\ stored <= accepted /\ accepted <= MaxMessages
      /\ Old \in Nat /\ Old <= stored /\ MaxMessages \in Nat /\ MaxSends \in Nat
      /\ sends \in Nat /\ sends <= MaxSends /\ cursor \in Nat
  <2>1. stored \in 0 .. accepted /\ accepted \in 0 .. MaxMessages /\ sends \in 0 .. MaxSends /\ cursor \in 0 .. MaxMessages
    BY <1>1 DEF ListTypeOK
  <2>2. Old <= stored
    BY <1>1 DEF FramesOK
  <2> QED
    BY <2>1, <2>2, BoundsAssumption
<1>5. /\ list \in Seq(Entries) /\ truth \in [Messages -> SUBSET Marks] /\ mine \subseteq 1 .. accepted
      /\ excused \subseteq AllIds
  BY <1>1 DEF ListTypeOK
<1>6. calls \in [Calls -> CallRecord] /\ overtaken \subseteq 1 .. accepted /\ owed \subseteq Receipts
  BY <1>1 DEF FramesOK
<1> QED
  BY <1>2, <1>3, <1>4, <1>5, <1>6

\* Of them, those about numbers.
LEMMA ListNumbers ==
    ASSUME ListIInv
    PROVE  /\ stored \in Nat /\ accepted \in Nat /\ stored <= accepted /\ accepted <= MaxMessages
           /\ Old \in Nat /\ Old <= stored /\ MaxMessages \in Nat /\ MaxSends \in Nat
           /\ sends \in Nat /\ sends <= MaxSends /\ cursor \in Nat
  BY ListTypes

LEMMA SameEnd ==
    ASSUME NEW q, NEW m, NEW x, NEW s, NEW u, x \in s <=> x \in u, EndsWith(q, m, x, s)
    PROVE  EndsWith(q, m, x, u)
  BY DEF EndsWith

LEMMA NothingMoves ==
    ASSUME NEW m, NEW x, ~Moving(m, x)
    PROVE  \A s : LastSays(m, x, s)
  BY DEF Moving, LastSays, Has, EndsWith


\* The receipts that are on their way stay as they are, while less of the list
\* may be accounted for.
LEMMA ReceiptsStay ==
    ASSUME ListIInv, UNCHANGED <<wire, owed, list, sends>>, accepted' \in Nat, accepted <= accepted',
           overtaken \subseteq overtaken', overtaken' \ overtaken \subseteq excused', excused \subseteq excused',
           \A m : Announced(m) => m \in excused' \/ Announced(m)'
    PROVE  ReceiptsOK'
<1>1. ReceiptsOK
  BY DEF ListIInv
<1>2. Old + 1 .. accepted \subseteq Old + 1 .. accepted' /\ Sent' = Sent /\ Ids(list)' = Ids(list)
  BY ListNumbers DEF Sent
<1>4. (\A i \in DOMAIN wire : wire[i].kind = "receipt" => ReceiptOK(wire[i]))'
  BY <1>1, <1>2 DEF ReceiptsOK, ReceiptOK
<1>5. (\A r \in owed : ReceiptOK(r))'
  BY <1>1, <1>2 DEF ReceiptsOK, ReceiptOK
<1> QED
  BY <1>1, <1>4, <1>5 DEF ReceiptsOK

\* The services go on, and the tab sees nothing of it yet.
LEMMA FlowKeeps ==
    ASSUME ListIInv, UNCHANGED <<truth, list, cursor, history, older, sends, calls>>,
           theirs' \in 0 .. MaxTheirs, stored <= stored', stored' \in 0 .. accepted',
           accepted <= accepted', accepted' \in 0 .. MaxMessages, mine \subseteq mine', mine' \subseteq 1 .. accepted',
           overtaken \subseteq overtaken', overtaken' \subseteq Messages,
           excused \subseteq excused', excused' \subseteq AllIds,
           FramesOK', ReceiptsOK',
           \A m, x : m \notin excused' => (Moving(m, x)' <=> Moving(m, x)),
           \A m, x, s : m \notin excused' /\ LastSays(m, x, s) => LastSays(m, x, s)',
           \A m : m \notin excused' => (Announced(m)' <=> Announced(m) \/ m \in accepted + 1 .. accepted'),
           \A i \in DOMAIN up' : up'[i].kind = "mark" =>
               up'[i].mark \in {"edited", "mine"} \/ (up'[i].mark = "deleted" /\ up'[i].id \in mine)
    PROVE  ListIInv'
<1>1. ListTypeOK /\ ShownOnce /\ PagesOK /\ Everywhere /\ CallsOK /\ MarksOK
  BY DEF ListIInv, ListInv
<1>2. ListTypeOK'
  BY <1>1 DEF ListTypeOK
<1>3. ShownOnce'
  BY <1>1 DEF ShownOnce
<1>4. PagesOK'
  <2>1. 1 .. accepted \subseteq 1 .. accepted' /\ Sent' = Sent
    BY ListTypes DEF Sent
  <2> QED
    BY <1>1, <2>1 DEF PagesOK, Consecutive, Ids, NextCursor
<1>5. Everywhere'
  <2>1. \A m \in Old + 1 .. accepted' : m \in Old + 1 .. accepted \/ m \in accepted + 1 .. accepted'
    BY ListTypes
  <2>2. \A m : Covered(m) \/ m \in accepted + 1 .. accepted' => Covered(m)'
    BY DEF Covered, Ids
  <2> QED
    BY <1>1, <2>1, <2>2 DEF Everywhere, Ids
<1>6. CallsOK'
  <2> SUFFICES ASSUME NEW k \in Calls, Active(k) PROVE CallOK(k)'
    BY DEF CallsOK, Active
  <2>1. CallOK(k)
    BY <1>1 DEF CallsOK
  <2>2. 1 .. stored \subseteq 1 .. stored'
    BY ListTypes
  <2>3. calls[k].id \notin excused' /\ Undisturbed(k) => Undisturbed(k)'
    BY DEF Undisturbed, Ids, Active
  <2> QED
    BY <2>1, <2>2, <2>3 DEF CallOK
<1>7. MarksOK'
  <2>1. \A m \in Messages : stored' < m => truth'[m] = {}
    <3>1. \A m \in Messages : m \in Nat
      BY BoundsAssumption DEF Messages
    <3>2. stored \in Nat /\ accepted' \in Nat /\ stored' \in Nat /\ stored <= stored'
      BY <1>2, ListNumbers, BoundsAssumption DEF ListTypeOK
    <3>3. \A m \in Messages : stored' < m => stored < m
      BY <3>1, <3>2
    <3> QED
      BY <1>1, <3>3 DEF MarksOK
  <2>2. ASSUME NEW m \in Messages \ excused', NEW x \in Marks
        PROVE  MarkOK(m, x)'
    <3>1. MarkOK(m, x) /\ m \notin excused'
      BY <1>1, <2>2 DEF MarksOK
    <3>2. LastSays(m, x, truth[m])'
      BY <3>1 DEF MarkOK
    <3>3. m \notin Ids(list) /\ Announced(m)' /\ ~Moving(m, x) => x \notin truth[m]
      <4>1. m \in accepted + 1 .. accepted' => truth[m] = {}
        BY <1>1, <2>2, ListTypes DEF MarksOK
      <4> QED
        BY <3>1, <4>1 DEF MarkOK
    <3> QED
      BY <3>1, <3>2, <3>3 DEF MarkOK, Agrees, Called, Active, Ids
  <2>3. \A i \in DOMAIN up' : up'[i].kind = "mark" =>
          up'[i].mark \in {"edited", "mine"} \/ (up'[i].mark = "deleted" /\ up'[i].id \in mine')
    OBVIOUS
  <2> QED
    BY <1>1, <2>1, <2>2, <2>3 DEF MarksOK
<1> QED
  BY <1>2, <1>3, <1>4, <1>5, <1>6, <1>7 DEF ListIInv, ListInv

LEMMA PersistKeeps == ASSUME ListIInv, Persist PROVE ListIInv'
<1>1. /\ stored' = stored + 1 /\ stored < accepted
      /\ UNCHANGED <<accepted, truth, mine, pubsub, owed, wire, up, list, cursor, history, older, sends, calls,
                     theirs, overtaken, excused>>
  BY DEF Persist, client
<1>2. FramesOK /\ MarksOK /\ ListTypeOK
  BY DEF ListIInv, ListInv
<1>3. FramesOK'
  BY <1>1, <1>2, ListTypes DEF FramesOK, Announced, Sent
<1>4. /\ \A m, x : Moving(m, x)' <=> Moving(m, x)
      /\ \A m, x, s : LastSays(m, x, s) => LastSays(m, x, s)'
      /\ \A m : Announced(m)' <=> Announced(m)
  BY <1>1 DEF Moving, LastSays, Announced
<1>5. stored <= stored' /\ stored' \in 0 .. accepted' /\ accepted' \in 0 .. MaxMessages /\ accepted <= accepted'
      /\ accepted + 1 .. accepted' = {} /\ accepted' \in Nat
  BY <1>1, ListTypes
<1>6. \A i \in DOMAIN up' : up'[i].kind = "mark" =>
        up'[i].mark \in {"edited", "mine"} \/ (up'[i].mark = "deleted" /\ up'[i].id \in mine)
  BY <1>1, <1>2 DEF MarksOK
<1>7. ReceiptsOK'
  BY <1>1, <1>4, <1>5, ReceiptsStay
<1> QED
  BY <1>1, <1>2, <1>3, <1>4, <1>5, <1>6, <1>7, ListTypes, FlowKeeps DEF ListTypeOK

LEMMA TheyPostKeeps == ASSUME ListIInv, TheyPost PROVE ListIInv'
<1> PICK f : f = [kind |-> "message", id |-> accepted + 1]
  OBVIOUS
<1>1. /\ accepted < MaxMessages /\ accepted' = accepted + 1 /\ theirs < MaxTheirs /\ theirs' = theirs + 1
      /\ pubsub' = Append(pubsub, f)
      /\ UNCHANGED <<stored, truth, mine, owed, wire, up, list, cursor, history, older, sends, calls, overtaken, excused>>
  BY DEF TheyPost, Accept, client
<1>2. FramesOK /\ MarksOK /\ ListTypeOK
  BY DEF ListIInv, ListInv
<1>3. accepted + 1 \in Messages /\ accepted + 1 \in Old + 1 .. accepted' /\ accepted + 1 .. accepted' = {accepted + 1}
      /\ stored' \in 0 .. accepted' /\ stored <= stored' /\ accepted <= accepted' /\ accepted' \in 0 .. MaxMessages
      /\ accepted' \in Nat
  BY <1>1, ListTypes DEF Messages
<1>4. f \in Posts(Messages) \cup Changes /\ f.kind = "message" /\ f.id = accepted + 1 /\ \A m, x : ~IsChange(f, m, x)
  BY <1>3 DEF Posts, IsChange
<1>5. /\ pubsub' \in Seq(Posts(Messages) \cup Changes)
      /\ \A m, x : Has(pubsub', m, x) <=> Has(pubsub, m, x)
      /\ \A m, x, s : EndsWith(pubsub', m, x, s) <=> EndsWith(pubsub, m, x, s)
      /\ \A m : Posted(pubsub', m) <=> Posted(pubsub, m) \/ m = accepted + 1
  BY <1>1, <1>2, <1>4, QueueAppend DEF FramesOK
<1>6. \A m, x : Moving(m, x)' <=> Moving(m, x)
  BY <1>1, <1>5 DEF Moving
<1>7. \A m, x, s : LastSays(m, x, s) => LastSays(m, x, s)'
  BY <1>1, <1>5 DEF LastSays
<1>8. \A m : Announced(m)' <=> Announced(m) \/ m = accepted + 1
  BY <1>1, <1>5 DEF Announced
<1>9. Old + 1 .. accepted \subseteq Old + 1 .. accepted' /\ 1 .. accepted \subseteq 1 .. accepted'
  BY <1>1, ListTypes
<1>10. FramesOK'
  BY <1>1, <1>2, <1>3, <1>5, <1>8, <1>9 DEF FramesOK, Sent
<1>11. ReceiptsOK'
  BY <1>1, <1>3, <1>8, ReceiptsStay
<1>12. theirs' \in 0 .. MaxTheirs /\ mine' \subseteq 1 .. accepted'
  BY <1>1, <1>2, ListTypes, BoundsAssumption DEF ListTypeOK
<1>13. \A i \in DOMAIN up' : up'[i].kind = "mark" =>
         up'[i].mark \in {"edited", "mine"} \/ (up'[i].mark = "deleted" /\ up'[i].id \in mine)
  BY <1>1, <1>2 DEF MarksOK
<1> QED
  BY <1>1, <1>2, <1>3, <1>6, <1>7, <1>8, <1>10, <1>11, <1>12, <1>13, FlowKeeps DEF ListTypeOK

\* The service takes a frame of this tab: what is left of them.
LEMMA FrameReceived ==
    ASSUME ListIInv, NEW h, up # <<>>, h = Head(up), up' = Tail(up), UNCHANGED sends
    PROVE  /\ up' \in Seq(Posts(Placeholders) \cup Changes) /\ h \in Posts(Placeholders) \cup Changes
           /\ \A m, x : Has(up, m, x) <=> Has(up', m, x) \/ IsChange(h, m, x)
           /\ \A m, x, s : /\ EndsWith(up, m, x, s) => EndsWith(up', m, x, s)
                           /\ EndsWith(up, m, x, s) /\ IsChange(h, m, x) /\ ~Has(up', m, x)
                                => (h.on <=> x \in s)
           /\ \A i \in DOMAIN up' : up'[i].kind = "mark" =>
                up'[i].mark \in {"edited", "mine"} \/ (up'[i].mark = "deleted" /\ up'[i].id \in mine)
           /\ \A i \in DOMAIN up' : up'[i].kind = "message" => up'[i].id \in Sent'
           /\ h.id \in AllIds /\ (h.kind = "message" => h.id \in Placeholders /\ h.id \in Sent)
<1>1. FramesOK /\ MarksOK
  BY DEF ListIInv
<1>2. /\ up' \in Seq(Posts(Placeholders) \cup Changes) /\ h \in Posts(Placeholders) \cup Changes
      /\ h = up[1] /\ 1 \in DOMAIN up
      /\ \A i \in DOMAIN up' : i + 1 \in DOMAIN up /\ up'[i] = up[i + 1]
      /\ \A m, x : Has(up, m, x) <=> Has(up', m, x) \/ IsChange(h, m, x)
      /\ \A m, x, s : /\ EndsWith(up, m, x, s) => EndsWith(up', m, x, s)
                      /\ EndsWith(up, m, x, s) /\ IsChange(h, m, x) /\ ~Has(up', m, x)
                           => (h.on <=> x \in s)
  BY <1>1, QueueTail DEF FramesOK
<1>3. \A i \in DOMAIN up' : up'[i].kind = "mark" =>
         up'[i].mark \in {"edited", "mine"} \/ (up'[i].mark = "deleted" /\ up'[i].id \in mine)
  BY <1>1, <1>2 DEF MarksOK
<1>4. \A i \in DOMAIN up' : up'[i].kind = "message" => up'[i].id \in Sent'
  BY <1>1, <1>2 DEF FramesOK, Sent
<1>5. h.id \in AllIds /\ (h.kind = "message" => h.id \in Placeholders /\ h.id \in Sent)
  BY <1>1, <1>2 DEF FramesOK, Posts, Changes, AllIds
<1> QED
  BY <1>2, <1>3, <1>4, <1>5

LEMMA RefusedKeeps == ASSUME ListIInv, Refused PROVE ListIInv'
<1> PICK h : h = Head(up)
  OBVIOUS
<1>1. /\ up # <<>> /\ up' = Tail(up) /\ excused' = excused \cup {h.id}
      /\ UNCHANGED <<accepted, stored, truth, mine, pubsub, owed, wire, list, cursor, history, older, sends, calls,
                     theirs, overtaken>>
  BY DEF Refused, services, client
<1>2. FramesOK /\ ListTypeOK
  BY DEF ListIInv, ListInv
<1>3. /\ up' \in Seq(Posts(Placeholders) \cup Changes)
      /\ \A m, x : Has(up, m, x) <=> Has(up', m, x) \/ IsChange(h, m, x)
      /\ \A m, x, s : EndsWith(up, m, x, s) => EndsWith(up', m, x, s)
      /\ \A i \in DOMAIN up' : up'[i].kind = "mark" =>
           up'[i].mark \in {"edited", "mine"} \/ (up'[i].mark = "deleted" /\ up'[i].id \in mine)
      /\ \A i \in DOMAIN up' : up'[i].kind = "message" => up'[i].id \in Sent'
      /\ h.id \in AllIds
  BY <1>1, FrameReceived
<1>4. \A m, x : m \notin excused' => ~IsChange(h, m, x)
  BY <1>1 DEF IsChange
<1>5. \A m, x : m \notin excused' => (Moving(m, x)' <=> Moving(m, x))
  BY <1>1, <1>3, <1>4 DEF Moving
<1>6. \A m, x, s : m \notin excused' /\ LastSays(m, x, s) => LastSays(m, x, s)'
  BY <1>1, <1>3, <1>4 DEF LastSays
<1>7. \A m : Announced(m)' <=> Announced(m)
  BY <1>1 DEF Announced
<1>8. FramesOK'
  BY <1>1, <1>2, <1>3, <1>7 DEF FramesOK, Sent
<1>9. accepted + 1 .. accepted' = {} /\ accepted <= accepted' /\ stored <= stored' /\ accepted' \in Nat
  BY <1>1, ListTypes
<1>10. ReceiptsOK'
  BY <1>1, <1>7, <1>9, ReceiptsStay
<1>11. excused \subseteq excused' /\ excused' \subseteq AllIds
  BY <1>1, <1>3, ListTypes
<1> QED
  BY <1>1, <1>2, <1>3, <1>5, <1>6, <1>7, <1>8, <1>9, <1>10, <1>11, FlowKeeps DEF ListTypeOK

LEMMA ReceiveKeeps == ASSUME ListIInv, Receive PROVE ListIInv'
<1> PICK h : h = Head(up)
  OBVIOUS
<1>1. /\ up # <<>> /\ up' = Tail(up) /\ owed = {}
      /\ UNCHANGED <<stored, truth, wire, list, cursor, history, older, sends, calls, theirs, overtaken, excused>>
  BY DEF Receive, client
<1>2. FramesOK /\ ReceiptsOK /\ PagesOK /\ ListTypeOK
  BY DEF ListIInv, ListInv
<1>3. /\ up' \in Seq(Posts(Placeholders) \cup Changes) /\ h \in Posts(Placeholders) \cup Changes
      /\ \A m, x : Has(up, m, x) <=> Has(up', m, x) \/ IsChange(h, m, x)
      /\ \A m, x, s : /\ EndsWith(up, m, x, s) => EndsWith(up', m, x, s)
                      /\ EndsWith(up, m, x, s) /\ IsChange(h, m, x) /\ ~Has(up', m, x)
                           => (h.on <=> x \in s)
      /\ \A i \in DOMAIN up' : up'[i].kind = "mark" =>
           up'[i].mark \in {"edited", "mine"} \/ (up'[i].mark = "deleted" /\ up'[i].id \in mine)
      /\ \A i \in DOMAIN up' : up'[i].kind = "message" => up'[i].id \in Sent'
      /\ h.kind = "message" => h.id \in Placeholders /\ h.id \in Sent
  BY <1>1, FrameReceived
<1>4. CASE h.kind = "message"
  <2> PICK m : m = accepted + 1
    OBVIOUS
  <2> PICK f : f = [kind |-> "message", id |-> m]
    OBVIOUS
  <2> PICK r : r = [kind |-> "receipt", id |-> h.id, server |-> m]
    OBVIOUS
  <2>1. /\ accepted < MaxMessages /\ accepted' = m /\ pubsub' = Append(pubsub, f)
        /\ mine' = mine \cup {m} /\ owed' = {r}
    BY <1>4 DEF Receive, Accept
  <2>2. /\ m \in Messages /\ m \in Old + 1 .. accepted' /\ m \notin 1 .. accepted /\ m \notin Old + 1 .. accepted
        /\ accepted + 1 .. accepted' = {m} /\ accepted <= accepted' /\ stored <= stored' /\ stored' \in 0 .. accepted'
        /\ accepted' \in 0 .. MaxMessages /\ mine' \subseteq 1 .. accepted' /\ m \notin Sent
        /\ Old + 1 .. accepted \subseteq Old + 1 .. accepted' /\ 1 .. accepted \subseteq 1 .. accepted'
    <3>1. /\ accepted \in Nat /\ MaxMessages \in Nat /\ Old \in Nat /\ stored \in Nat /\ sends \in Nat
          /\ stored <= accepted /\ Old <= accepted /\ m = accepted + 1 /\ m <= MaxMessages /\ accepted' = m
      BY <2>1, ListNumbers
    <3>2. m \in Messages /\ m \in Old + 1 .. accepted' /\ m \notin 1 .. accepted /\ m \notin Old + 1 .. accepted
      BY <3>1 DEF Messages
    <3>3. accepted + 1 .. accepted' = {m} /\ accepted <= accepted' /\ accepted' \in 0 .. MaxMessages
      BY <3>1
    <3>4. stored <= stored' /\ stored' \in 0 .. accepted'
      BY <1>1, <3>1
    <3>5. Old + 1 .. accepted \subseteq Old + 1 .. accepted' /\ 1 .. accepted \subseteq 1 .. accepted'
      BY <3>1
    <3>6. mine' \subseteq 1 .. accepted'
      BY <2>1, <3>1, <3>5, ListTypes
    <3>7. m \notin Sent
      BY <3>1 DEF Sent
    <3> QED
      BY <3>2, <3>3, <3>4, <3>5, <3>6, <3>7
  <2>3. /\ f \in Posts(Messages) \cup Changes /\ f.kind = "message" /\ f.id = m
        /\ \A n, x : ~IsChange(f, n, x)
    BY <2>2 DEF Posts, IsChange
  <2>4. r \in Receipts /\ r.kind = "receipt" /\ r.id = h.id /\ r.server = m
    BY <1>3, <1>4, <2>2 DEF Receipts
  <2>5. /\ pubsub' \in Seq(Posts(Messages) \cup Changes)
        /\ \A n, x : Has(pubsub', n, x) <=> Has(pubsub, n, x)
        /\ \A n, x, s : EndsWith(pubsub', n, x, s) <=> EndsWith(pubsub, n, x, s)
        /\ \A n : Posted(pubsub', n) <=> Posted(pubsub, n) \/ n = m
    BY <1>2, <2>1, <2>3, QueueAppend DEF FramesOK
  <2>6. \A n, x : ~IsChange(h, n, x)
    BY <1>4 DEF IsChange
  <2>7. \A n, x : Moving(n, x)' <=> Moving(n, x)
    BY <1>1, <1>3, <2>5, <2>6 DEF Moving
  <2>8. \A n, x, s : LastSays(n, x, s) => LastSays(n, x, s)'
    BY <1>1, <1>3, <2>5, <2>6 DEF LastSays
  <2>9. \A n : Announced(n)' <=> Announced(n) \/ n = m
    BY <1>1, <2>5 DEF Announced
  <2>10. FramesOK'
    <3>1. \A n : Announced(n)' => n \in (Old + 1 .. accepted)'
      BY <1>2, <2>2, <2>9 DEF FramesOK
    <3>2. owed' \subseteq Receipts /\ overtaken' \subseteq 1 .. accepted'
      BY <1>1, <1>2, <2>1, <2>2, <2>4 DEF FramesOK
    <3> QED
      BY <1>1, <1>2, <1>3, <2>5, <3>1, <3>2 DEF FramesOK
  <2>11. ReceiptsOK'
    <3>1. m \notin Ids(list)
      <4>1. \A i \in DOMAIN list : list[i].id \in 1 .. accepted \cup Sent
        BY <1>2 DEF PagesOK
      <4> QED
        BY <2>2, <4>1 DEF Ids
    <3>2. ~Posted(wire, m) /\ m \notin overtaken
      BY <1>2, <2>2 DEF FramesOK, Announced
    <3>3. \A i \in DOMAIN wire : wire[i].kind = "receipt" => wire[i].server # m
      BY <1>2, <2>2 DEF ReceiptsOK, ReceiptOK
    <3>4. ReceiptOK(r)'
      BY <1>1, <1>3, <1>4, <2>2, <2>4, <2>9, <3>1, <3>2 DEF ReceiptOK, Sent, Ids
    <3>5. (\A i \in DOMAIN wire : wire[i].kind = "receipt" => ReceiptOK(wire[i]))'
      BY <1>1, <1>2, <2>2, <2>9 DEF ReceiptsOK, ReceiptOK, Sent, Ids
    <3>6. (\A s \in owed : ReceiptOK(s))'
      BY <2>1, <3>4
    <3>7. (\A i, j \in DOMAIN wire :
             /\ wire[i].kind = "receipt" /\ wire[j].kind = "message" /\ wire[j].id = wire[i].server
                  => i < j \/ wire[i].server \in overtaken
             /\ wire[i].kind = "receipt" /\ wire[j].kind = "receipt" /\ wire[j].server = wire[i].server => i = j)'
      BY <1>1, <1>2 DEF ReceiptsOK
    <3>8. \A s \in owed' : s = r /\ s.server = m
      BY <2>1, <2>4
    <3> QED
      BY <1>1, <3>2, <3>3, <3>5, <3>6, <3>7, <3>8 DEF ReceiptsOK
  <2>12. mine \subseteq mine' /\ theirs' \in 0 .. MaxTheirs
    BY <1>1, <1>2, <2>1 DEF ListTypeOK
  <2> QED
    BY <1>1, <1>2, <1>3, <2>2, <2>7, <2>8, <2>9, <2>10, <2>11, <2>12, FlowKeeps DEF ListTypeOK
<1>5. CASE h.kind # "message"
  <2>1. pubsub' = Append(pubsub, h) /\ UNCHANGED <<accepted, mine, owed>>
    BY <1>5 DEF Receive
  <2>2. h \in Posts(Messages) \cup Changes
    BY <1>3, <1>5 DEF Posts
  <2>3. pubsub \in Seq(Posts(Messages) \cup Changes)
    BY <1>2 DEF FramesOK
  <2>4. pubsub' \in Seq(Posts(Messages) \cup Changes)
    BY <2>1, <2>2, <2>3, QueueAppend
  <2>5. \A m, x : Has(pubsub', m, x) <=> Has(pubsub, m, x) \/ IsChange(h, m, x)
    BY <2>1, <2>2, <2>3, QueueAppend
  <2>6. \A m, x, s : EndsWith(pubsub', m, x, s) <=>
                       IF IsChange(h, m, x) THEN h.on <=> x \in s ELSE EndsWith(pubsub, m, x, s)
    BY <2>1, <2>2, <2>3, QueueAppend
  <2>7. \A m : Posted(pubsub', m) <=> Posted(pubsub, m)
    <3>1. \A m : Posted(pubsub', m) <=> Posted(pubsub, m) \/ (h.kind = "message" /\ h.id = m)
      BY <2>1, <2>2, <2>3, QueueAppend
    <3> QED
      BY <1>5, <3>1
  <2>8. \A m, x : Moving(m, x)' <=> Moving(m, x)
    BY <1>1, <1>3, <2>1, <2>5 DEF Moving
  <2>9. \A m, x, s : LastSays(m, x, s) => LastSays(m, x, s)'
    BY <1>1, <1>3, <2>1, <2>5, <2>6 DEF LastSays
  <2>10. \A m : Announced(m)' <=> Announced(m)
    BY <1>1, <2>1, <2>7 DEF Announced
  <2>11. FramesOK'
    BY <1>1, <1>2, <1>3, <2>1, <2>4, <2>10 DEF FramesOK, Sent
  <2>12. accepted + 1 .. accepted' = {} /\ accepted <= accepted' /\ stored <= stored' /\ accepted' \in Nat
    BY <1>1, <2>1, ListTypes
  <2>13. ReceiptsOK'
    BY <1>1, <2>1, <2>10, <2>12, ReceiptsStay
  <2> QED
    BY <1>1, <1>2, <1>3, <2>1, <2>8, <2>9, <2>10, <2>11, <2>12, <2>13, FlowKeeps DEF ListTypeOK
<1> QED
  BY <1>4, <1>5

\* A receipt that is owed is written to the socket, or finds none.
LEMMA WriteReceiptKeeps ==
    ASSUME ListIInv, NEW r \in owed, NEW arrives \in BOOLEAN, WriteReceipt(r, arrives)
    PROVE  ListIInv'
<1>1. /\ owed' = owed \ {r} /\ wire' = IF arrives THEN Append(wire, r) ELSE wire
      /\ UNCHANGED <<accepted, stored, truth, mine, pubsub, up, list, cursor, history, older, sends, calls,
                     theirs, overtaken, excused>>
  BY DEF WriteReceipt, client
<1>2. FramesOK /\ ReceiptsOK /\ MarksOK /\ ListTypeOK
  BY DEF ListIInv, ListInv
<1>3. /\ r \in Posts(Messages) \cup Changes \cup Receipts /\ r.kind = "receipt" /\ \A m, x : ~IsChange(r, m, x)
  BY <1>2 DEF FramesOK, Receipts, IsChange
<1>4. /\ wire' \in Seq(Posts(Messages) \cup Changes \cup Receipts)
      /\ \A m, x : Has(wire', m, x) <=> Has(wire, m, x)
      /\ \A m, x, s : EndsWith(wire', m, x, s) <=> EndsWith(wire, m, x, s)
      /\ \A m : Posted(wire', m) <=> Posted(wire, m)
  <2>1. CASE arrives
    <3>1. wire' = Append(wire, r) /\ wire \in Seq(Posts(Messages) \cup Changes \cup Receipts)
      BY <1>1, <1>2, <2>1 DEF FramesOK
    <3>2. /\ wire' \in Seq(Posts(Messages) \cup Changes \cup Receipts)
          /\ \A m, x : Has(wire', m, x) <=> Has(wire, m, x) \/ IsChange(r, m, x)
      BY <1>3, <3>1, QueueAppend
    <3>3. \A m, x, s : EndsWith(wire', m, x, s) <=>
                          IF IsChange(r, m, x) THEN r.on <=> x \in s ELSE EndsWith(wire, m, x, s)
      BY <1>3, <3>1, QueueAppend
    <3>4. \A m : Posted(wire', m) <=> Posted(wire, m) \/ (r.kind = "message" /\ r.id = m)
      BY <1>3, <3>1, QueueAppend
    <3> QED
      BY <1>3, <3>2, <3>3, <3>4
  <2>2. CASE ~arrives
    BY <1>1, <1>2, <2>2 DEF FramesOK
  <2> QED
    BY <2>1, <2>2
<1>5. /\ DOMAIN wire = 1 .. Len(wire) /\ Len(wire) \in Nat
      /\ \A i \in DOMAIN wire' : (i \in DOMAIN wire /\ wire'[i] = wire[i]) \/ (i = Len(wire) + 1 /\ wire'[i] = r)
  <2>1. CASE arrives
    <3>1. /\ DOMAIN wire' = 1 .. Len(wire) + 1 /\ DOMAIN wire = 1 .. Len(wire) /\ Len(wire) \in Nat
          /\ \A i \in DOMAIN wire' : wire'[i] = IF i = Len(wire) + 1 THEN r ELSE wire[i]
      BY <1>1, <1>2, <1>3, <2>1, QueueAppend DEF FramesOK
    <3> QED
      BY <3>1
  <2>2. CASE ~arrives
    BY <1>1, <1>2, <2>2, LenProperties DEF FramesOK
  <2> QED
    BY <2>1, <2>2
<1>6. /\ \A m, x : Moving(m, x)' <=> Moving(m, x)
      /\ \A m, x, s : LastSays(m, x, s) => LastSays(m, x, s)'
      /\ \A m : Announced(m)' <=> Announced(m)
  BY <1>1, <1>4 DEF Moving, LastSays, Announced
<1>7. FramesOK'
  BY <1>1, <1>2, <1>4, <1>6 DEF FramesOK, Sent
<1>8. ReceiptsOK'
  <2>1. /\ ReceiptOK(r) /\ \A i \in DOMAIN wire : wire[i].kind = "receipt" => wire[i].server # r.server
        /\ Posted(wire, r.server) => r.server \in overtaken
        /\ owed' = {}
    BY <1>1, <1>2 DEF ReceiptsOK
  <2>2. (\A i \in DOMAIN wire : wire[i].kind = "receipt" => ReceiptOK(wire[i]))'
    BY <1>1, <1>2, <1>5, <1>6, <2>1 DEF ReceiptsOK, ReceiptOK, Sent, Ids
  <2>3. ASSUME NEW i \in DOMAIN wire', NEW j \in DOMAIN wire', wire'[i].kind = "receipt"
        PROVE  /\ wire'[j].kind = "message" /\ wire'[j].id = wire'[i].server => i < j \/ wire'[i].server \in overtaken'
               /\ wire'[j].kind = "receipt" /\ wire'[j].server = wire'[i].server => i = j
    <3>1. CASE i \in DOMAIN wire /\ wire'[i] = wire[i]
      <4>1. CASE j \in DOMAIN wire /\ wire'[j] = wire[j]
        BY <1>1, <1>2, <2>3, <3>1, <4>1 DEF ReceiptsOK
      <4>2. CASE j = Len(wire) + 1 /\ wire'[j] = r
        <5>1. i < j
          BY <1>5, <3>1, <4>2
        <5> QED
          BY <2>1, <2>3, <3>1, <4>2, <5>1
      <4> QED
        BY <1>5, <4>1, <4>2
    <3>2. CASE i = Len(wire) + 1 /\ wire'[i] = r
      <4>1. CASE j \in DOMAIN wire /\ wire'[j] = wire[j]
        BY <1>1, <2>1, <2>3, <3>2, <4>1 DEF Posted
      <4>2. CASE j = Len(wire) + 1 /\ wire'[j] = r
        BY <1>3, <3>2, <4>2
      <4> QED
        BY <1>5, <4>1, <4>2
    <3> QED
      BY <1>5, <3>1, <3>2
  <2> QED
    BY <2>1, <2>2, <2>3 DEF ReceiptsOK
<1>9. \A i \in DOMAIN up' : up'[i].kind = "mark" =>
         up'[i].mark \in {"edited", "mine"} \/ (up'[i].mark = "deleted" /\ up'[i].id \in mine)
  BY <1>1, <1>2 DEF MarksOK
<1>10. accepted + 1 .. accepted' = {} /\ accepted <= accepted' /\ stored <= stored'
  BY <1>1, ListTypes
<1> QED
  BY <1>1, <1>2, <1>6, <1>7, <1>8, <1>9, <1>10, FlowKeeps DEF ListTypeOK

\* The listener passes a frame on, or it is lost.
LEMMA BroadcastKeeps == ASSUME ListIInv, NEW arrives \in BOOLEAN, Broadcast(arrives) PROVE ListIInv'
<1> PICK h : h = Head(pubsub)
  OBVIOUS
<1> PICK early : early = {r \in owed : h.kind = "message" /\ r.server = h.id}
  OBVIOUS
<1>1. /\ pubsub # <<>> /\ pubsub' = Tail(pubsub) /\ wire' = IF arrives THEN Append(wire, h) ELSE wire
      /\ overtaken' = overtaken \cup {r.server : r \in early}
      /\ excused' = IF arrives /\ early = {} THEN excused ELSE excused \cup {h.id}
      /\ UNCHANGED <<accepted, stored, truth, mine, owed, up, list, cursor, history, older, sends, calls, theirs>>
  BY DEF Broadcast, client
<1>2. FramesOK /\ ReceiptsOK /\ MarksOK /\ ListTypeOK
  BY DEF ListIInv, ListInv
<1>3. /\ pubsub' \in Seq(Posts(Messages) \cup Changes) /\ h \in Posts(Messages) \cup Changes
      /\ \A m, x : Has(pubsub, m, x) <=> Has(pubsub', m, x) \/ IsChange(h, m, x)
      /\ \A m, x, s : /\ EndsWith(pubsub, m, x, s) => EndsWith(pubsub', m, x, s)
                      /\ EndsWith(pubsub, m, x, s) /\ IsChange(h, m, x) /\ ~Has(pubsub', m, x)
                           => (h.on <=> x \in s)
      /\ \A m : Posted(pubsub, m) <=> Posted(pubsub', m) \/ (h.kind = "message" /\ h.id = m)
  BY <1>1, <1>2, QueueTail DEF FramesOK
<1>4. h \in Posts(Messages) \cup Changes \cup Receipts /\ h.kind # "receipt" /\ h.id \in Messages
  BY <1>3 DEF Posts, Changes
<1>5. /\ overtaken \subseteq overtaken' /\ overtaken' \ overtaken \subseteq excused' /\ overtaken' \subseteq 1 .. accepted
      /\ \A r \in owed : h.kind = "message" /\ r.server = h.id => r.server \in overtaken'
      /\ \A m \in overtaken' : m \in overtaken \/ (h.kind = "message" /\ m = h.id)
  <2>1. h.kind = "message" => h.id \in 1 .. accepted
    <3>1. h.kind = "message" => h.id \in Old + 1 .. accepted
      BY <1>2, <1>3 DEF FramesOK, Announced
    <3> QED
      BY <3>1, ListNumbers
  <2>2. \A m \in {r.server : r \in early} : h.kind = "message" /\ m = h.id /\ early # {}
    OBVIOUS
  <2> QED
    BY <1>1, <1>2, <2>1, <2>2 DEF FramesOK
<1>6. excused \subseteq excused' /\ excused' \subseteq AllIds /\ (arrives \/ h.id \in excused')
  BY <1>1, <1>4, ListTypes DEF AllIds
<1>7. \A m, x : ~arrives /\ m \notin excused' => ~IsChange(h, m, x)
  BY <1>6 DEF IsChange
<1>8. CASE arrives
  <2>1. /\ wire' \in Seq(Posts(Messages) \cup Changes \cup Receipts)
        /\ \A m, x : Has(wire', m, x) <=> Has(wire, m, x) \/ IsChange(h, m, x)
        /\ \A m, x, s : EndsWith(wire', m, x, s) <=>
                          IF IsChange(h, m, x) THEN h.on <=> x \in s ELSE EndsWith(wire, m, x, s)
        /\ \A m : Posted(wire', m) <=> Posted(wire, m) \/ (h.kind = "message" /\ h.id = m)
        /\ DOMAIN wire' = 1 .. Len(wire) + 1 /\ DOMAIN wire = 1 .. Len(wire) /\ Len(wire) \in Nat
        /\ \A i \in DOMAIN wire' : wire'[i] = IF i = Len(wire) + 1 THEN h ELSE wire[i]
    BY <1>1, <1>2, <1>4, <1>8, QueueAppend DEF FramesOK
  <2>2. \A m, x : Moving(m, x)' <=> Moving(m, x)
    BY <1>1, <1>3, <2>1 DEF Moving
  <2>3. \A m, x, s : LastSays(m, x, s) => LastSays(m, x, s)'
    BY <1>1, <1>3, <2>1 DEF LastSays
  <2>4. \A m : Announced(m)' <=> Announced(m)
    BY <1>1, <1>3, <2>1 DEF Announced
  <2>5. ReceiptsOK'
    <3>1. \A i \in DOMAIN wire' : wire'[i].kind = "receipt" => i \in DOMAIN wire /\ wire'[i] = wire[i] /\ i < Len(wire) + 1
      BY <1>4, <2>1
    <3>2. \A j \in DOMAIN wire' : (j \in DOMAIN wire /\ wire'[j] = wire[j]) \/ j = Len(wire) + 1
      BY <2>1
    <3>3. (\A i \in DOMAIN wire : wire[i].kind = "receipt" => ReceiptOK(wire[i]))'
      BY <1>1, <1>2, <1>5, <1>6, <2>4, <3>1 DEF ReceiptsOK, ReceiptOK, Sent, Ids
    <3>4. (\A r \in owed : ReceiptOK(r))'
      BY <1>1, <1>2, <1>5, <1>6, <2>4 DEF ReceiptsOK, ReceiptOK, Sent, Ids
    <3>5. ASSUME NEW i \in DOMAIN wire', NEW j \in DOMAIN wire', wire'[i].kind = "receipt"
          PROVE  /\ wire'[j].kind = "message" /\ wire'[j].id = wire'[i].server => i < j \/ wire'[i].server \in overtaken'
                 /\ wire'[j].kind = "receipt" /\ wire'[j].server = wire'[i].server => i = j
      <4>1. i \in DOMAIN wire /\ wire'[i] = wire[i] /\ i < Len(wire) + 1
        BY <3>1, <3>5
      <4>2. CASE j = Len(wire) + 1
        BY <1>4, <2>1, <4>1, <4>2
      <4>3. CASE j \in DOMAIN wire /\ wire'[j] = wire[j]
        BY <1>2, <1>5, <3>5, <4>1, <4>3 DEF ReceiptsOK
      <4> QED
        BY <3>2, <4>2, <4>3
    <3>6. ASSUME NEW r \in owed
          PROVE  /\ \A s \in owed : s = r
                 /\ \A i \in DOMAIN wire' : wire'[i].kind = "receipt" => wire'[i].server # r.server
                 /\ Posted(wire', r.server) => r.server \in overtaken'
      BY <1>2, <1>5, <2>1, <3>1 DEF ReceiptsOK
    <3> QED
      BY <1>1, <3>3, <3>4, <3>5, <3>6 DEF ReceiptsOK
  <2>6. FramesOK'
    BY <1>1, <1>2, <1>3, <1>5, <2>1, <2>4 DEF FramesOK, Sent
  <2>7. accepted + 1 .. accepted' = {} /\ accepted <= accepted' /\ stored <= stored' /\ overtaken' \subseteq Messages
    <3>1. accepted' = accepted /\ stored' = stored
      BY <1>1
    <3>2. 1 .. accepted \subseteq Messages
      BY ListNumbers DEF Messages
    <3> QED
      BY <1>5, <3>1, <3>2, ListNumbers
  <2>8. \A i \in DOMAIN up' : up'[i].kind = "mark" =>
           up'[i].mark \in {"edited", "mine"} \/ (up'[i].mark = "deleted" /\ up'[i].id \in mine)
    BY <1>1, <1>2 DEF MarksOK
  <2> QED
    BY <1>1, <1>2, <1>5, <1>6, <2>2, <2>3, <2>4, <2>5, <2>6, <2>7, <2>8, FlowKeeps DEF ListTypeOK
<1>9. CASE ~arrives
  <2>1. wire' = wire
    BY <1>1, <1>9
  <2>2. \A m, x : m \notin excused' => (Moving(m, x)' <=> Moving(m, x))
    BY <1>1, <1>3, <1>7, <1>9, <2>1 DEF Moving
  <2>3. \A m, x, s : m \notin excused' /\ LastSays(m, x, s) => LastSays(m, x, s)'
    BY <1>1, <1>3, <1>7, <1>9, <2>1 DEF LastSays
  <2>4. /\ \A m : m \notin excused' => (Announced(m)' <=> Announced(m))
        /\ \A m : Announced(m)' => Announced(m)
    BY <1>3, <1>6, <1>9, <2>1 DEF Announced
  <2>5. accepted + 1 .. accepted' = {} /\ accepted <= accepted' /\ stored <= stored' /\ overtaken' \subseteq Messages
        /\ accepted' \in Nat
    BY <1>1, <1>5, ListTypes DEF Messages
  <2>6. ReceiptsOK'
    BY <1>1, <1>5, <1>6, <2>1, <2>4, <2>5, ReceiptsStay
  <2>7. FramesOK'
    BY <1>1, <1>2, <1>3, <1>5, <2>1, <2>4 DEF FramesOK, Sent
  <2>8. \A i \in DOMAIN up' : up'[i].kind = "mark" =>
           up'[i].mark \in {"edited", "mine"} \/ (up'[i].mark = "deleted" /\ up'[i].id \in mine)
    BY <1>1, <1>2 DEF MarksOK
  <2> QED
    BY <1>1, <1>2, <1>5, <1>6, <2>2, <2>3, <2>4, <2>5, <2>6, <2>7, <2>8, FlowKeeps DEF ListTypeOK
<1> QED
  BY <1>8, <1>9

\* The socket breaks.
LEMMA DisconnectKeeps == ASSUME ListIInv, Disconnect PROVE ListIInv'
<1>1. /\ wire' = <<>> /\ up' = <<>> /\ excused' = excused \cup Ids(wire) \cup Ids(up)
      /\ UNCHANGED <<accepted, stored, truth, mine, pubsub, owed, list, cursor, history, older, sends, calls,
                     theirs, overtaken>>
  BY DEF Disconnect, services, client
<1>2. FramesOK /\ ReceiptsOK /\ ListTypeOK
  BY DEF ListIInv, ListInv
<1>3. DOMAIN wire' = {} /\ DOMAIN up' = {} /\ <<>> \in Seq(Posts(Placeholders) \cup Changes)
      /\ <<>> \in Seq(Posts(Messages) \cup Changes \cup Receipts)
  BY <1>1, EmptySeq
<1>4. \A m : m \notin excused' => m \notin Ids(wire) /\ m \notin Ids(up)
  BY <1>1
<1>5. /\ \A m, x : ~Has(wire', m, x) /\ ~Has(up', m, x)
      /\ \A m, x, s : EndsWith(wire', m, x, s) /\ EndsWith(up', m, x, s)
      /\ \A m : ~Posted(wire', m)
  BY <1>3 DEF Has, EndsWith, Posted
<1>6. \A m, x : m \notin excused' => ~Has(wire, m, x) /\ ~Has(up, m, x) /\ ~Posted(wire, m)
  BY <1>4 DEF Has, Posted, IsChange, Ids
<1>7. \A m, x : m \notin excused' => (Moving(m, x)' <=> Moving(m, x))
  BY <1>1, <1>5, <1>6 DEF Moving
<1>8. \A m, x, s : m \notin excused' /\ LastSays(m, x, s) => LastSays(m, x, s)'
  BY <1>1, <1>5, <1>6 DEF LastSays
<1>9. /\ \A m : m \notin excused' => (Announced(m)' <=> Announced(m))
      /\ \A m : Announced(m)' => Announced(m)
  BY <1>1, <1>5, <1>6 DEF Announced
<1>10. excused \subseteq excused' /\ excused' \subseteq AllIds
  <2>1. Ids(wire) \subseteq AllIds
    <3>1. \A i \in DOMAIN wire : wire[i] \in Posts(Messages) \cup Changes \cup Receipts
      BY <1>2, ElementOfSeq, LenProperties DEF FramesOK
    <3> QED
      BY <3>1 DEF Ids, Posts, Changes, Receipts, AllIds
  <2>2. Ids(up) \subseteq AllIds
    <3>1. \A i \in DOMAIN up : up[i] \in Posts(Placeholders) \cup Changes
      BY <1>2, ElementOfSeq, LenProperties DEF FramesOK
    <3> QED
      BY <3>1 DEF Ids, Posts, Changes, AllIds
  <2> QED
    BY <1>1, <2>1, <2>2, ListTypes
<1>11. FramesOK'
  <2>1. up' \in Seq(Posts(Placeholders) \cup Changes) /\ wire' \in Seq(Posts(Messages) \cup Changes \cup Receipts)
    BY <1>1, <1>3
  <2> QED
    BY <1>1, <1>2, <1>3, <1>9, <2>1 DEF FramesOK, Sent
<1>12. ReceiptsOK'
  <2>1. (\A r \in owed : ReceiptOK(r))'
    BY <1>1, <1>2, <1>9, <1>10 DEF ReceiptsOK, ReceiptOK, Sent, Ids
  <2> QED
    BY <1>1, <1>2, <1>3, <1>5, <2>1 DEF ReceiptsOK
<1>13. accepted + 1 .. accepted' = {} /\ accepted <= accepted' /\ stored <= stored'
  BY <1>1, ListTypes
<1> QED
  BY <1>1, <1>2, <1>3, <1>7, <1>8, <1>9, <1>10, <1>11, <1>12, <1>13, FlowKeeps DEF ListTypeOK
\* Another user changes a mark that is not this user's to change.
LEMMA TheyMarkKeeps ==
    ASSUME ListIInv, NEW n \in Messages, NEW y \in Marks, NEW on \in BOOLEAN, TheyMark(n, y, on)
    PROVE  ListIInv'
<1> PICK f : f = MarkFrame(n, y, on)
  OBVIOUS
<1>1. /\ theirs < MaxTheirs /\ theirs' = theirs + 1 /\ n <= stored /\ y \in {"deleted", "theirs"}
      /\ y = "deleted" => n \notin mine
      /\ truth' = [truth EXCEPT ![n] = With(truth[n], y, on)] /\ pubsub' = Append(pubsub, f)
      /\ UNCHANGED <<accepted, stored, mine, owed, wire, up, list, cursor, history, older, sends, calls, overtaken, excused>>
  BY DEF TheyMark, client
<1>2. ListTypeOK /\ ShownOnce /\ FramesOK /\ ReceiptsOK /\ PagesOK /\ Everywhere /\ CallsOK /\ MarksOK
  BY DEF ListIInv, ListInv
<1>3. /\ truth' \in [Messages -> SUBSET Marks]
      /\ \A m \in Messages : m # n => truth'[m] = truth[m]
      /\ \A x : x \in truth'[n] <=> IF x = y THEN on ELSE x \in truth[n]
  <2>1. With(truth[n], y, on) \subseteq Marks /\ \A x : x \in With(truth[n], y, on) <=> IF x = y THEN on ELSE x \in truth[n]
    BY ListTypes DEF With
  <2> QED
    BY <1>1, <2>1, ListTypes
<1>4. /\ f \in Posts(Messages) \cup Changes /\ f.kind = "mark" /\ f.on = on
      /\ \A m, x : IsChange(f, m, x) <=> m = n /\ x = y
  BY DEF MarkFrame, Changes, IsChange
<1>5. /\ pubsub' \in Seq(Posts(Messages) \cup Changes)
      /\ \A m, x : Has(pubsub', m, x) <=> Has(pubsub, m, x) \/ (m = n /\ x = y)
      /\ \A m, x, s : EndsWith(pubsub', m, x, s) <=>
                        IF m = n /\ x = y THEN on <=> x \in s ELSE EndsWith(pubsub, m, x, s)
      /\ \A m : Posted(pubsub', m) <=> Posted(pubsub, m)
  <2>1. pubsub \in Seq(Posts(Messages) \cup Changes)
    BY <1>2 DEF FramesOK
  <2>2. /\ pubsub' \in Seq(Posts(Messages) \cup Changes)
        /\ \A m, x : Has(pubsub', m, x) <=> Has(pubsub, m, x) \/ IsChange(f, m, x)
    BY <1>1, <1>4, <2>1, QueueAppend
  <2>3. \A m, x, s : EndsWith(pubsub', m, x, s) <=>
                       IF IsChange(f, m, x) THEN f.on <=> x \in s ELSE EndsWith(pubsub, m, x, s)
    BY <1>1, <1>4, <2>1, QueueAppend
  <2>4. \A m : Posted(pubsub', m) <=> Posted(pubsub, m) \/ (f.kind = "message" /\ f.id = m)
    BY <1>1, <1>4, <2>1, QueueAppend
  <2> QED
    BY <1>4, <2>2, <2>3, <2>4
<1>6. \A m : Announced(m)' <=> Announced(m)
  BY <1>1, <1>5 DEF Announced
<1>7. /\ Moving(n, y)'
      /\ \A m, x : m # n \/ x # y => (Moving(m, x)' <=> Moving(m, x))
      /\ \A m, x, s : (m # n \/ x # y) /\ LastSays(m, x, s) => LastSays(m, x, s)'
  BY <1>1, <1>5 DEF Moving, LastSays
<1>8. LastSays(n, y, truth[n])'
  <2>1. ~Has(up, n, y)
    BY <1>1, <1>2 DEF MarksOK, Has, IsChange
  <2>2. EndsWith(pubsub', n, y, truth'[n])
    BY <1>3, <1>5
  <2> QED
    BY <1>1, <1>5, <2>1, <2>2 DEF LastSays, Has, EndsWith
<1>9. ListTypeOK' /\ ShownOnce'
  <2>1. theirs' \in 0 .. MaxTheirs
    BY <1>1, <1>2, BoundsAssumption DEF ListTypeOK
  <2> QED
    BY <1>1, <1>2, <1>3, <2>1 DEF ListTypeOK, ShownOnce
<1>10. FramesOK'
  BY <1>1, <1>2, <1>5, <1>6 DEF FramesOK, Sent
<1>11. ReceiptsOK'
  BY <1>1, <1>6, ListNumbers, ReceiptsStay
<1>12. PagesOK'
  BY <1>1, <1>2 DEF PagesOK, Consecutive, Sent, Ids, NextCursor
<1>13. Everywhere'
  BY <1>1, <1>2, <1>6 DEF Everywhere, Covered, Ids
<1>14. CallsOK'
  <2> SUFFICES ASSUME NEW k \in Calls, Active(k) PROVE CallOK(k)'
    BY <1>1 DEF CallsOK, Active
  <2>1. CallOK(k)
    BY <1>2 DEF CallsOK
  <2>2. calls[k].id # n \/ calls[k].mark # y
    <3>1. n \notin Placeholders
      BY ListTypes DEF Messages, Placeholders
    <3> QED
      BY <1>1, <2>1, <3>1 DEF CallOK
  <2>3. calls[k].id \notin excused => Undisturbed(k)'
    <3> SUFFICES ASSUME calls[k].id \notin excused PROVE Undisturbed(k)'
      OBVIOUS
    <3>1. calls[k].id \in Messages /\ Undisturbed(k)
      BY <2>1 DEF CallOK, AllIds
    <3> QED
      BY <1>1, <1>3, <1>7, <2>2, <3>1 DEF Undisturbed, Ids, Active
  <2> QED
    BY <1>1, <2>1, <2>3 DEF CallOK
<1>15. MarksOK'
  <2>1. \A m \in Messages : stored' < m => truth'[m] = {}
    BY <1>1, <1>2, <1>3, ListTypes DEF MarksOK, Messages
  <2>2. ASSUME NEW m \in Messages \ excused, NEW x \in Marks
        PROVE  MarkOK(m, x)'
    <3>1. MarkOK(m, x)
      BY <1>2, <2>2 DEF MarksOK
    <3>2. CASE m = n /\ x = y
      BY <1>7, <1>8, <3>2 DEF MarkOK
    <3>3. CASE m # n \/ x # y
      <4>1. x \in truth'[m] <=> x \in truth[m]
        BY <1>3, <3>3
      <4>2. LastSays(m, x, truth'[m])
        BY <3>1, <4>1, SameEnd DEF MarkOK, LastSays
      <4>3. LastSays(m, x, truth[m])'
        BY <1>7, <3>3, <4>2
      <4> QED
        BY <1>1, <1>6, <1>7, <3>1, <3>3, <4>1, <4>3 DEF MarkOK, Agrees, Called, Active, Ids
    <3> QED
      BY <3>2, <3>3
  <2> QED
    BY <1>1, <1>2, <2>1, <2>2 DEF MarksOK
<1> QED
  BY <1>9, <1>10, <1>11, <1>12, <1>13, <1>14, <1>15 DEF ListIInv, ListInv

\* What is in one queue is in the queues one after the other.
LEMMA ConcatHolds ==
    ASSUME NEW S, NEW s \in Seq(S), NEW t \in Seq(S)
    PROVE  /\ s \o t \in Seq(S)
           /\ \A i \in DOMAIN s : s[i] \in ToSet(s \o t)
           /\ \A i \in DOMAIN t : t[i] \in ToSet(s \o t)
<1> PICK q : q = s \o t
  OBVIOUS
<1> PICK n : n = Len(s)
  OBVIOUS
<1> PICK l : l = Len(t)
  OBVIOUS
<1>1. /\ q \in Seq(S) /\ DOMAIN q = 1 .. n + l /\ n \in Nat /\ l \in Nat /\ DOMAIN s = 1 .. n /\ DOMAIN t = 1 .. l
      /\ \A i \in 1 .. n + l : q[i] = IF i <= n THEN s[i] ELSE t[i - n]
  <2>1. q \in Seq(S) /\ Len(q) = n + l /\ \A i \in 1 .. Len(s) + Len(t) : q[i] = IF i <= Len(s) THEN s[i] ELSE t[i - Len(s)]
    BY ConcatProperties
  <2> QED
    BY <2>1, LenProperties
<1>2. ASSUME NEW i \in DOMAIN s PROVE i \in DOMAIN q /\ q[i] = s[i]
  BY <1>1
<1>3. ASSUME NEW i \in DOMAIN t PROVE n + i \in DOMAIN q /\ q[n + i] = t[i]
  <2>1. i \in Nat /\ n + i \in 1 .. n + l /\ ~(n + i <= n) /\ n + i - n = i
    BY <1>1
  <2> QED
    BY <1>1, <2>1
<1> QED
  BY <1>1, <1>2, <1>3 DEF ToSet

\* Every frame on its way is among those of the three queues together.
LEMMA FramesOnTheWay ==
    ASSUME ListIInv
    PROVE  /\ \A i \in DOMAIN up : up[i] \in ToSet(up \o pubsub \o wire)
           /\ \A i \in DOMAIN pubsub : pubsub[i] \in ToSet(up \o pubsub \o wire)
           /\ \A i \in DOMAIN wire : wire[i] \in ToSet(up \o pubsub \o wire)
<1> PICK S : S = Posts(Messages) \cup Posts(Placeholders) \cup Changes \cup Receipts
  OBVIOUS
<1>2. up \in Seq(S) /\ pubsub \in Seq(S) /\ wire \in Seq(S)
  <2>1. /\ up \in Seq(Posts(Placeholders) \cup Changes) /\ pubsub \in Seq(Posts(Messages) \cup Changes)
        /\ wire \in Seq(Posts(Messages) \cup Changes \cup Receipts)
    BY DEF ListIInv, FramesOK
  <2>2. /\ Posts(Placeholders) \cup Changes \subseteq S /\ Posts(Messages) \cup Changes \subseteq S
        /\ Posts(Messages) \cup Changes \cup Receipts \subseteq S
    OBVIOUS
  <2>3. up \in Seq(S)
    BY <2>1, <2>2, SeqMonotonic
  <2>4. pubsub \in Seq(S)
    BY <2>1, <2>2, SeqMonotonic
  <2>5. wire \in Seq(S)
    BY <2>1, <2>2, SeqMonotonic
  <2> QED
    BY <2>3, <2>4, <2>5
<1> PICK a : a = up
  OBVIOUS
<1> PICK b : b = pubsub
  OBVIOUS
<1> PICK c : c = wire
  OBVIOUS
<1> PICK ab : ab = a \o b
  OBVIOUS
<1> PICK q : q = ab \o c
  OBVIOUS
<1>3. /\ ab \in Seq(S)
      /\ \A i \in DOMAIN a : a[i] \in ToSet(ab)
      /\ \A i \in DOMAIN b : b[i] \in ToSet(ab)
  BY <1>2, ConcatHolds
<1>4. /\ \A i \in DOMAIN ab : ab[i] \in ToSet(q)
      /\ \A i \in DOMAIN c : c[i] \in ToSet(q)
  BY <1>2, <1>3, ConcatHolds
<1>5. \A f \in ToSet(ab) : f \in ToSet(q)
  BY <1>4 DEF ToSet
<1>6. q = up \o pubsub \o wire
  OBVIOUS
<1> QED
  BY <1>3, <1>4, <1>5, <1>6

\* Of a message that is settled nothing is under way.
LEMMA SettledIsStill ==
    ASSUME ListIInv, NEW n, Settled(n)
    PROVE  /\ \A x : ~Moving(n, x)
           /\ ~Announced(n)
           /\ \A k \in Calls : Active(k) => calls[k].id # n
           /\ \A i \in DOMAIN wire : wire[i].kind = "receipt" => wire[i].server # n
           /\ \A r \in owed : r.server # n
<1>1. /\ \A i \in DOMAIN up : up[i].id # n
      /\ \A i \in DOMAIN pubsub : pubsub[i].id # n
      /\ \A i \in DOMAIN wire : wire[i].id # n /\ (wire[i].kind = "receipt" => wire[i].server # n)
  BY FramesOnTheWay DEF Settled
<1>2. \A k \in Calls : Active(k) => calls[k].id # n
  BY DEF Settled, Active
<1>3. \A r \in owed : r.server # n
  BY DEF Settled
<1>4. \A x : ~Moving(n, x)
  BY <1>1 DEF Moving, Has, IsChange
<1>5. ~Announced(n)
  BY <1>1 DEF Announced, Posted
<1> QED
  BY <1>1, <1>2, <1>3, <1>4, <1>5

\* A request is made, answered or given up, and nothing is shown of it yet.  A
\* page has the messages that are settled as they are.
LEMMA RequestKeeps ==
    ASSUME ListIInv,
           UNCHANGED <<accepted, stored, truth, mine, pubsub, owed, wire, up, list, cursor, sends, calls, theirs, overtaken>>,
           history' \in Request, older' \in Request, PagesOK',
           history'.state = "done" <=> history.state = "done",
           history' = history \/ (history.state # "answered" /\ \A m \in Messages, x \in Marks : Agrees(history'.items, m, x)),
           older'.state # "answered" \/ older' = older \/ \A m \in Messages, x \in Marks : Agrees(older'.items, m, x),
           excused' \subseteq excused,
           \A m \in excused \ excused' :
               /\ m \in Messages /\ Settled(m)
               /\ \/ m \notin Old + 1 .. accepted
                  \/ history'.state = "answered" /\ m \in Ids(history'.items)
               /\ history'.state = "done" => m \notin Ids(list)
               /\ history'.state # "answered" \/ history' # history
               /\ older'.state # "answered" \/ older' # older
    PROVE  ListIInv'
<1>1. ListTypeOK /\ ShownOnce /\ FramesOK /\ ReceiptsOK /\ PagesOK /\ Everywhere /\ CallsOK /\ MarksOK
  BY DEF ListIInv, ListInv
<1>2. ListTypeOK' /\ ShownOnce'
  BY <1>1 DEF ListTypeOK, ShownOnce
<1>3. FramesOK'
  BY <1>1 DEF FramesOK, Announced, Sent
<1>4. ASSUME NEW m \in excused \ excused'
      PROVE  /\ \A x : ~Moving(m, x)
             /\ ~Announced(m)
             /\ \A k \in Calls : Active(k) => calls[k].id # m
             /\ \A i \in DOMAIN wire : wire[i].kind = "receipt" => wire[i].server # m
             /\ \A r \in owed : r.server # m
  BY <1>4, SettledIsStill
<1>5. ReceiptsOK'
  <2>1. (\A i \in DOMAIN wire : wire[i].kind = "receipt" => ReceiptOK(wire[i]))'
    BY <1>1, <1>4 DEF ReceiptsOK, ReceiptOK, Announced, Sent, Ids
  <2>2. (\A r \in owed : ReceiptOK(r))'
    BY <1>1, <1>4 DEF ReceiptsOK, ReceiptOK, Announced, Sent, Ids
  <2> QED
    BY <1>1, <2>1, <2>2 DEF ReceiptsOK
<1>6. Everywhere'
  <2>1. ASSUME NEW m \in Old + 1 .. accepted PROVE Covered(m)'
    <3>1. Covered(m)
      BY <1>1 DEF Everywhere
    <3> QED
      BY <3>1 DEF Covered, Announced, Ids
  <2> QED
    BY <1>1, <2>1 DEF Everywhere, Ids
<1>7. CallsOK'
  <2> SUFFICES ASSUME NEW k \in Calls, Active(k) PROVE CallOK(k)'
    BY DEF CallsOK, Active
  <2>1. CallOK(k) /\ (calls[k].id \notin excused' => calls[k].id \notin excused)
    BY <1>1, <1>4 DEF CallsOK
  <2>2. Undisturbed(k) => Undisturbed(k)'
    BY DEF Undisturbed, Active, Moving, Ids
  <2>3. calls[k].id \in Placeholders => calls[k].id \in excused'
    BY <2>1 DEF CallOK
  <2> QED
    BY <2>1, <2>2, <2>3 DEF CallOK
<1>8. MarksOK'
  <2>1. ASSUME NEW m \in Messages \ excused', NEW x \in Marks
        PROVE  MarkOK(m, x)'
    <3>1. CASE m \notin excused
      <4>1. MarkOK(m, x)
        BY <1>1, <2>1, <3>1 DEF MarksOK
      <4>2. history'.state = "answered" /\ ~Moving(m, x) => Agrees(history'.items, m, x)
        BY <2>1, <4>1 DEF MarkOK
      <4>3. older'.state = "answered" /\ ~Moving(m, x) => Agrees(older'.items, m, x)
        BY <2>1, <4>1 DEF MarkOK
      <4> QED
        BY <4>1, <4>2, <4>3 DEF MarkOK, Agrees, Called, Active, Moving, LastSays, Announced, Ids
    <3>2. CASE m \in excused \ excused'
      <4>1. ~Moving(m, x) /\ ~Announced(m)
        BY <1>4, <3>2
      <4>2. LastSays(m, x, truth[m])
        BY <4>1, NothingMoves
      <4>3. history'.state = "answered" => Agrees(history'.items, m, x)
        BY <2>1, <3>2
      <4>4. older'.state = "answered" => Agrees(older'.items, m, x)
        BY <2>1, <3>2
      <4>5. history'.state = "done" => Agrees(list, m, x)
        BY <3>2 DEF Agrees, Ids
      <4> QED
        BY <4>1, <4>2, <4>3, <4>4, <4>5 DEF MarkOK, Agrees, Moving, LastSays, Announced, Ids
    <3> QED
      BY <2>1, <3>1, <3>2
  <2>2. \A i \in DOMAIN list : list[i].id \in Placeholders \ excused' => list[i].id \in Placeholders \ excused
    <3>1. \A m \in excused \ excused' : m \notin Placeholders
      BY BoundsAssumption DEF Messages, Placeholders
    <3> QED
      BY <3>1
  <2> QED
    BY <1>1, <2>1, <2>2 DEF MarksOK
<1> QED
  BY <1>2, <1>3, <1>5, <1>6, <1>7, <1>8 DEF ListIInv, ListInv

\* What a page is: consecutive messages as the services have them, the newest
\* of those asked for, and all of them if the cursor it leaves is 0.
LEMMA ItemsFacts ==
    ASSUME ListIInv, NEW before \in Nat, NEW last,
           last = IF before = 0 \/ before > stored + 1 THEN stored ELSE before - 1
    PROVE  /\ Items(before) \in Seq(Entries) /\ Consecutive(Items(before))
           /\ \A m \in Messages, x \in Marks : Agrees(Items(before), m, x)
           /\ last > 0 => /\ Items(before) # <<>>
                          /\ Items(before)[Len(Items(before))].id = last
           /\ \A m \in 1 .. last : NextCursor(Items(before)) <= m => m \in Ids(Items(before))
           /\ NextCursor(Items(before)) = 0 \/ NextCursor(Items(before)) + PageSize <= last + 1
<1> PICK first : first = IF last > PageSize THEN last - PageSize + 1 ELSE 1
  OBVIOUS
<1> PICK n : n = last - first + 1
  OBVIOUS
<1> PICK r : r = Items(before)
  OBVIOUS
<1>0. PageSize \in Nat /\ PageSize > 0 /\ stored \in Nat /\ accepted \in Nat /\ stored <= accepted
      /\ accepted <= MaxMessages /\ MaxMessages \in Nat
  BY ListTypes, BoundsAssumption
<1>1. /\ last \in Nat /\ last <= stored /\ first \in Nat /\ 1 <= first /\ n \in Nat /\ n = last - first + 1
      /\ last > 0 => n > 0
      /\ first = 1 \/ first + PageSize = last + 1
  <2>1. last \in Nat /\ last <= stored
    BY <1>0
  <2>2. CASE last > PageSize
    BY <1>0, <2>1, <2>2
  <2>3. CASE ~(last > PageSize)
    BY <1>0, <2>1, <2>3
  <2> QED
    BY <2>2, <2>3
<1>2. r = [i \in 1 .. n |-> Entry(first + i - 1, truth[first + i - 1], TRUE)]
  BY DEF Items
<1>3. \A i \in 1 .. n : first + i - 1 \in 1 .. stored /\ first + i - 1 \in 1 .. accepted /\ first + i - 1 \in Messages
  BY <1>0, <1>1 DEF Messages
<1>4. /\ DOMAIN r = 1 .. n
      /\ \A i \in 1 .. n : r[i] \in Entries /\ r[i].id = first + i - 1 /\ r[i].marks = truth[first + i - 1]
  BY <1>2, <1>3, ListTypes DEF Entry, Entries, AllIds
<1>5. r \in Seq(Entries) /\ Len(r) = n
  <2>1. r = [i \in 1 .. n |-> r[i]] /\ \A i \in 1 .. n : r[i] \in Entries
    BY <1>2, <1>4
  <2>2. r \in Seq(Entries)
    BY <1>1, <2>1, IsASeq
  <2> QED
    BY <1>1, <1>4, <2>2, LenProperties
<1>6. Consecutive(r)
  BY <1>1, <1>3, <1>4 DEF Consecutive
<1>7. \A m \in Messages, x \in Marks : Agrees(r, m, x)
  BY <1>4 DEF Agrees
<1>8. last > 0 => /\ r # <<>> /\ r[1].id = first /\ r[Len(r)].id = last
  <2> SUFFICES ASSUME last > 0 PROVE r # <<>> /\ r[1].id = first /\ r[Len(r)].id = last
    OBVIOUS
  <2>1. 1 \in 1 .. n /\ n \in 1 .. n /\ first + 1 - 1 = first /\ first + n - 1 = last
    BY <1>1
  <2> QED
    BY <1>4, <1>5, <2>1, EmptySeq
<1>9. ASSUME NEW m \in 1 .. last, NextCursor(r) <= m
      PROVE  m \in Ids(r)
  <2>1. last > 0 /\ r # <<>> /\ r[1].id = first
    BY <1>1, <1>8, <1>9
  <2>2. first <= m
    BY <1>1, <1>9, <2>1 DEF NextCursor
  <2>3. m - first + 1 \in 1 .. n /\ r[m - first + 1].id = m
    BY <1>1, <1>4, <1>9, <2>2
  <2> QED
    BY <1>4, <2>3 DEF Ids
<1>10. NextCursor(r) = 0 \/ NextCursor(r) + PageSize <= last + 1
  <2>1. CASE last = 0
    <3>1. n = 0
      BY <1>1, <2>1, BoundsAssumption
    <3>2. r = <<>>
      BY <1>5, <3>1, EmptySeq
    <3> QED
      BY <3>2 DEF NextCursor
  <2>2. CASE last # 0
    BY <1>1, <1>8, <2>2, BoundsAssumption DEF NextCursor
  <2> QED
    BY <2>1, <2>2
<1> QED
  BY <1>5, <1>6, <1>7, <1>8, <1>9, <1>10

LEMMA ServeHistoryKeeps == ASSUME ListIInv, ServeHistory PROVE ListIInv'
<1> PICK r : r = Items(0)
  OBVIOUS
<1>1. /\ history.state = "asked" /\ history' = [state |-> "answered", items |-> r]
      /\ excused' = {m \in excused : ~(m \in 1 .. stored /\ Settled(m))}
      /\ UNCHANGED <<accepted, stored, truth, mine, pubsub, owed, wire, up, list, cursor, older, sends, calls,
                     theirs, overtaken>>
  BY DEF ServeHistory, services
<1>2. ListTypeOK /\ PagesOK
  BY DEF ListIInv, ListInv
<1>3. /\ r \in Seq(Entries) /\ Consecutive(r)
      /\ \A m \in Messages, x \in Marks : Agrees(r, m, x)
      /\ \A m \in 1 .. stored : NextCursor(r) <= m => m \in Ids(r)
      /\ NextCursor(r) = 0 \/ NextCursor(r) + PageSize <= stored + 1
  BY ItemsFacts
<1>4. history' \in Request /\ history'.state = "answered" /\ history'.items = r
  BY <1>1, <1>3 DEF Request
<1>5. 1 .. Old \subseteq 1 .. stored
  BY ListTypes
<1>12. NextCursor(r) \in Nat
  <2>1. r # <<>> => r[1] \in Entries
    BY <1>3, ElementOfSeq, EmptySeq, LenProperties
  <2> QED
    BY <2>1, BoundsAssumption DEF NextCursor, Entries, AllIds, Messages, Placeholders
<1>6. NextCursor(r) <= Old + 1
  BY <1>3, <1>12, ListTypes, BoundsAssumption
<1>7. PagesOK'
  BY <1>1, <1>2, <1>3, <1>4, <1>5, <1>6 DEF PagesOK, Consecutive, Sent, Ids, NextCursor
<1>8. older' \in Request /\ older' = older
  BY <1>1, <1>2 DEF ListTypeOK
<1>9. \A m \in Messages, x \in Marks : Agrees(history'.items, m, x)
  BY <1>3, <1>4
<1>10. history'.state = "done" <=> history.state = "done"
  BY <1>1, <1>4
<1>11. ASSUME NEW m \in excused \ excused'
       PROVE  /\ m \in Messages /\ Settled(m)
              /\ \/ m \notin Old + 1 .. accepted
                 \/ history'.state = "answered" /\ m \in Ids(history'.items)
              /\ history'.state # "done" /\ history' # history /\ older'.state # "answered"
  <2>1. m \in 1 .. stored /\ Settled(m)
    BY <1>1, <1>11
  <2>2. m \in Messages
    BY <2>1, ListNumbers DEF Messages
  <2>3. m \in Old + 1 .. accepted => NextCursor(r) <= m
    <3>1. NextCursor(r) \in Nat /\ Old \in Nat
      BY <1>6, <1>12, ListNumbers
    <3> QED
      BY <1>6, <2>1, <3>1
  <2>4. older.state = "idle"
    BY <1>1, <1>2 DEF PagesOK
  <2> QED
    BY <1>1, <1>3, <1>4, <1>8, <2>1, <2>2, <2>3, <2>4
<1> QED
  BY <1>1, <1>4, <1>7, <1>8, <1>9, <1>10, <1>11, RequestKeeps

LEMMA ServeOlderKeeps == ASSUME ListIInv, ServeOlder PROVE ListIInv'
<1> PICK r : r = Items(cursor)
  OBVIOUS
<1>1. /\ older.state = "asked" /\ older' = [state |-> "answered", items |-> r]
      /\ excused' = {m \in excused : ~(m \in Ids(r) /\ Settled(m))}
      /\ UNCHANGED <<accepted, stored, truth, mine, pubsub, owed, wire, up, list, cursor, history, sends, calls,
                     theirs, overtaken>>
  BY DEF ServeOlder, services
<1>2. ListTypeOK /\ PagesOK
  BY DEF ListIInv, ListInv
<1>3. cursor # 0 /\ 1 < cursor /\ cursor <= Old + 1
  BY <1>1, <1>2 DEF PagesOK
<1>4. /\ cursor \in Nat /\ cursor - 1 > 0
      /\ cursor - 1 = IF cursor = 0 \/ cursor > stored + 1 THEN stored ELSE cursor - 1
  BY <1>3, ListTypes
<1>5. /\ r \in Seq(Entries) /\ Consecutive(r)
      /\ \A m \in Messages, x \in Marks : Agrees(r, m, x)
      /\ r # <<>> /\ r[Len(r)].id = cursor - 1
  BY <1>4, ItemsFacts
<1>6. older' \in Request /\ older'.state = "answered" /\ older'.items = r
  BY <1>1, <1>5 DEF Request
<1>7. PagesOK'
  BY <1>1, <1>2, <1>3, <1>5, <1>6 DEF PagesOK, Consecutive, Sent, Ids, NextCursor
<1>8. history' \in Request /\ history' = history /\ history.state = "done"
  BY <1>1, <1>2 DEF ListTypeOK, PagesOK
<1>9. \A m \in Messages, x \in Marks : Agrees(older'.items, m, x)
  BY <1>5, <1>6
<1>10. older' # older
  BY <1>1, <1>6
<1>11. ASSUME NEW m \in Ids(r)
       PROVE  m \in Messages /\ m \notin Old + 1 .. accepted /\ m \notin Ids(list)
  <2> PICK a : a = r[1].id
    OBVIOUS
  <2> PICK n : n = Len(r)
    OBVIOUS
  <2>1. DOMAIN r = 1 .. n /\ n \in Nat /\ n \in DOMAIN r /\ 1 \in DOMAIN r
    BY <1>5, LenProperties, EmptySeq
  <2>2. PICK i \in DOMAIN r : r[i].id = m
    BY DEF Ids
  <2>3. \A j \in DOMAIN r : r[j].id = a + j - 1 /\ r[j].id \in 1 .. accepted
    BY <1>5 DEF Consecutive
  <2>4. m = a + i - 1 /\ m \in 1 .. accepted /\ cursor - 1 = a + n - 1 /\ a \in 1 .. accepted
    BY <1>5, <2>1, <2>2, <2>3
  <2>5. accepted \in Nat /\ cursor \in Nat /\ Old \in Nat /\ accepted <= MaxMessages /\ MaxMessages \in Nat
    BY ListNumbers
  <2>6. i \in Nat /\ i <= n
    BY <2>1
  <2>7. m \in Nat /\ m < cursor
    BY <2>1, <2>4, <2>5, <2>6
  <2>8. m \in Messages /\ m \notin Old + 1 .. accepted
    BY <1>3, <2>4, <2>5, <2>7 DEF Messages
  <2>9. \A j \in DOMAIN list : cursor <= list[j].id /\ list[j].id \in Nat
    BY <1>2, <1>3, ListTypes DEF PagesOK
  <2>10. m \notin Ids(list)
    BY <2>5, <2>7, <2>9 DEF Ids
  <2> QED
    BY <2>8, <2>10
<1>12. \A m \in excused \ excused' : m \in Ids(r) /\ Settled(m)
  BY <1>1
<1> QED
  BY <1>1, <1>6, <1>7, <1>8, <1>9, <1>10, <1>11, <1>12, RequestKeeps

LEMMA LoadOlderKeeps == ASSUME ListIInv, LoadOlder \/ OlderFails PROVE ListIInv'
<1>1. UNCHANGED <<accepted, stored, truth, mine, pubsub, owed, wire, up, list, cursor, history, sends, calls, theirs,
                  overtaken, excused>>
  BY DEF LoadOlder, OlderFails, services
<1>2. ListTypeOK /\ PagesOK
  BY DEF ListIInv, ListInv
<1>3. older' \in Request /\ (older'.state = "idle" \/ (older'.state = "asked" /\ cursor # 0))
  <2>1. <<>> \in Seq(Entries)
    BY EmptySeq
  <2>2. older' = [state |-> "idle", items |-> <<>>] \/ (older' = [state |-> "asked", items |-> <<>>] /\ cursor # 0)
    BY DEF LoadOlder, OlderFails, NoRequest
  <2>3. CASE older' = [state |-> "idle", items |-> <<>>]
    BY <2>1, <2>3 DEF Request
  <2>4. CASE older' = [state |-> "asked", items |-> <<>>] /\ cursor # 0
    BY <2>1, <2>4 DEF Request
  <2> QED
    BY <2>2, <2>3, <2>4
<1>4. PagesOK'
  BY <1>1, <1>2, <1>3 DEF PagesOK, Consecutive, Sent, Ids, NextCursor
<1>5. history' \in Request /\ history' = history
  BY <1>1, <1>2 DEF ListTypeOK
<1> QED
  BY <1>1, <1>3, <1>4, <1>5, RequestKeeps

\* The page asked for has nothing the list shows.
LEMMA OlderIsOlder ==
    ASSUME ListIInv, older.state = "answered"
    PROVE  /\ older.items \in Seq(Entries) /\ DOMAIN older.items = 1 .. Len(older.items)
           /\ Len(older.items) \in Nat /\ Len(older.items) > 0 /\ older.items # <<>>
           /\ history.state = "done" /\ 1 < cursor /\ cursor <= Old + 1
           /\ older.items[1].id \in 1 .. accepted /\ older.items[1].id <= cursor - 1
           /\ \A i \in DOMAIN older.items :
                older.items[i].id = older.items[1].id + i - 1 /\ older.items[i].id \in 1 .. accepted /\ older.items[i].id < cursor
           /\ \A m \in older.items[1].id .. cursor - 1 : m \in Ids(older.items)
           /\ \A m : m \in Ids(list) => m \notin Ids(older.items)
<1> PICK r : r = older.items
  OBVIOUS
<1>1. ListTypeOK /\ PagesOK
  BY DEF ListIInv, ListInv
<1>2. /\ history.state = "done" /\ 1 < cursor /\ cursor <= Old + 1
      /\ \A i \in DOMAIN list : cursor <= list[i].id
      /\ Consecutive(r) /\ r # <<>> /\ r[Len(r)].id = cursor - 1
  BY <1>1 DEF PagesOK
<1>3. r \in Seq(Entries) /\ DOMAIN r = 1 .. Len(r) /\ Len(r) \in Nat /\ Len(r) > 0
  <2>1. r \in Seq(Entries)
    BY <1>1 DEF ListTypeOK, Request
  <2> QED
    BY <1>2, <2>1, LenProperties, EmptySeq
<1> PICK a : a = r[1].id
  OBVIOUS
<1> PICK n : n = Len(r)
  OBVIOUS
<1>4. /\ \A i \in 1 .. n : r[i].id = a + i - 1 /\ r[i].id \in 1 .. accepted
      /\ n \in Nat /\ n > 0 /\ a \in 1 .. accepted /\ accepted \in Nat /\ cursor \in Nat
      /\ cursor - 1 = a + n - 1
  <2>1. accepted \in Nat /\ cursor \in Nat /\ 1 \in 1 .. n /\ n \in 1 .. n /\ n \in Nat /\ n > 0
    BY <1>3, ListTypes
  <2>2. \A i \in 1 .. n : r[i].id = a + i - 1 /\ r[i].id \in 1 .. accepted
    BY <1>2, <1>3 DEF Consecutive
  <2>3. a \in 1 .. accepted /\ r[n].id = a + n - 1 /\ r[n].id = cursor - 1
    BY <1>2, <2>1, <2>2
  <2> QED
    BY <2>1, <2>2, <2>3
<1>5. ASSUME NEW i \in 1 .. n
      PROVE  r[i].id < cursor
  <2>1. i \in Nat /\ i <= n /\ a \in Nat /\ n \in Nat /\ cursor \in Nat /\ cursor - 1 = a + n - 1
    BY <1>4
  <2>2. r[i].id = a + i - 1
    BY <1>4
  <2>3. a + i - 1 < cursor
    BY <2>1
  <2> QED
    BY <2>2, <2>3
<1>6. ASSUME NEW m \in a .. cursor - 1
      PROVE  m \in Ids(r)
  <2>0. a \in Nat /\ n \in Nat /\ cursor \in Nat /\ cursor - 1 = a + n - 1
    BY <1>4
  <2>1. m \in Nat /\ a <= m /\ m <= a + n - 1
    BY <2>0
  <2>2. m - a + 1 \in 1 .. n
    BY <2>0, <2>1
  <2>3. a + (m - a + 1) - 1 = m
    BY <2>0, <2>1
  <2>4. r[m - a + 1].id = m
    BY <1>4, <2>2, <2>3
  <2> QED
    BY <1>3, <2>2, <2>4 DEF Ids
<1>7. ASSUME NEW m, m \in Ids(list), m \in Ids(r) PROVE FALSE
  <2> PICK i \in DOMAIN list : list[i].id = m
    BY <1>7 DEF Ids
  <2> PICK j \in 1 .. n : r[j].id = m
    BY <1>3, <1>7 DEF Ids
  <2>1. cursor <= m /\ m < cursor
    BY <1>2, <1>5
  <2>2. m \in Nat /\ cursor \in Nat
    BY ListTypes
  <2> QED
    BY <2>1, <2>2
<1>8. (\A i \in 1 .. n : r[i].id < cursor) /\ (\A m \in a .. cursor - 1 : m \in Ids(r)) /\ Ids(list) \cap Ids(r) = {}
  BY <1>5, <1>6, <1>7
<1> QED
  BY <1>2, <1>3, <1>4, <1>8

\* A call reaches the services.
LEMMA ServeCallKeeps ==
    ASSUME ListIInv, NEW k \in Calls, NEW outcome \in {"ok", "lost", "refused"}, ServeCall(k, outcome)
    PROVE  ListIInv'
<1> PICK id : id = calls[k].id
  OBVIOUS
<1> PICK mark : mark = calls[k].mark
  OBVIOUS
<1>1. /\ calls[k].state = "sent" /\ (outcome # "refused" => id <= stored)
      /\ calls' = [calls EXCEPT ![k].state = IF outcome = "ok" THEN "ok" ELSE "failed"]
      /\ excused' = IF outcome = "lost" THEN excused \cup {id} ELSE excused
      /\ UNCHANGED <<accepted, stored, mine, pubsub, owed, wire, up, list, cursor, history, older, sends, theirs, overtaken>>
  BY DEF ServeCall
<1>2. ListTypeOK /\ ShownOnce /\ FramesOK /\ ReceiptsOK /\ PagesOK /\ Everywhere /\ CallsOK /\ MarksOK
  BY DEF ListIInv, ListInv
<1>3. /\ calls' \in [Calls -> CallRecord]
      /\ \A j \in Calls : calls'[j].id = calls[j].id /\ calls'[j].mark = calls[j].mark /\ calls'[j].on = calls[j].on
      /\ \A j \in Calls : j # k => calls'[j].state = calls[j].state
      /\ calls'[k].state = IF outcome = "ok" THEN "ok" ELSE "failed"
  BY <1>1, ListTypes DEF CallRecord
<1>4. Active(k) /\ CallOK(k) /\ \A j \in Calls : Active(j)' <=> Active(j)
  BY <1>1, <1>2, <1>3 DEF Active, CallsOK
<1>5. id \in AllIds /\ mark \in Marks /\ (outcome # "refused" => id \in 1 .. stored /\ id \in Messages)
  <2>1. mark \in Marks
    BY ListTypes DEF CallRecord
  <2>2. id \in AllIds
    BY <1>4 DEF CallOK
  <2>3. id \in Nat /\ 0 < id
    BY <2>2, BoundsAssumption DEF AllIds, Messages, Placeholders
  <2>4. outcome # "refused" => id \in 1 .. stored /\ id \in Messages
    BY <1>1, <2>3, ListNumbers DEF Messages
  <2> QED
    BY <2>1, <2>2, <2>4
<1>6. /\ truth' \in [Messages -> SUBSET Marks]
      /\ \A m \in Messages : \A x : m # id \/ x # mark => (x \in truth'[m] <=> x \in truth[m])
      /\ \A m \in Messages : m # id => truth'[m] = truth[m]
      /\ outcome # "refused" => (mark \in truth'[id] <=> calls[k].on)
      /\ outcome = "refused" => truth' = truth
  <2>1. CASE outcome = "refused"
    BY <2>1, ListTypes DEF ServeCall
  <2>2. CASE outcome # "refused"
    <3> PICK w : w = With(truth[id], mark, calls[k].on)
      OBVIOUS
    <3>1. w \subseteq Marks /\ \A x : x \in w <=> IF x = mark THEN calls[k].on ELSE x \in truth[id]
      BY <1>5, <2>2, ListTypes DEF With
    <3>2. truth' = [truth EXCEPT ![id] = w]
      BY <2>2 DEF ServeCall
    <3> QED
      BY <1>5, <2>2, <3>1, <3>2, ListTypes
  <2> QED
    BY <2>1, <2>2
<1>7. excused \subseteq excused' /\ excused' \subseteq AllIds /\ (id \notin excused' => id \notin excused /\ outcome # "lost")
  BY <1>1, <1>5, ListTypes
<1>8. ListTypeOK' /\ ShownOnce'
  <2>1. \A j \in Calls : calls'[j].state \in {"none", "sent", "ok", "failed", "over"}
    BY <1>3 DEF CallRecord
  <2> QED
    BY <1>1, <1>2, <1>6, <1>7, <2>1 DEF ListTypeOK, ShownOnce
<1>9. FramesOK' /\ ReceiptsOK'
  <2>1. FramesOK'
    BY <1>1, <1>2, <1>3 DEF FramesOK, Announced, Sent
  <2>2. \A m : Announced(m)' <=> Announced(m)
    BY <1>1 DEF Announced
  <2>3. accepted' \in Nat /\ accepted <= accepted' /\ overtaken' \ overtaken \subseteq excused'
    BY <1>1, ListNumbers
  <2> QED
    BY <1>1, <1>7, <2>1, <2>2, <2>3, ReceiptsStay
<1>10. PagesOK'
  BY <1>1, <1>2 DEF PagesOK, Consecutive, Sent, Ids, NextCursor
<1>11. Everywhere'
  BY <1>1, <1>2, <1>7 DEF Everywhere, Covered, Announced, Ids
<1>13. CallsOK'
  <2> SUFFICES ASSUME NEW j \in Calls, Active(j) PROVE CallOK(j)'
    BY <1>4 DEF CallsOK
  <2>1. CallOK(j)
    BY <1>2 DEF CallsOK
  <2>2. ASSUME calls[j].id \notin excused'
        PROVE  Undisturbed(j)'
    <3>1. Undisturbed(j) /\ calls[j].id \in Messages
      BY <1>7, <2>1, <2>2 DEF CallOK, AllIds
    <3>2. calls'[j].mark \in truth'[calls'[j].id] <=> (calls'[j].on <=> calls'[j].state = "ok")
      <4>1. CASE j = k
        <5>1. calls[k].mark \in truth[calls[k].id] <=> ~calls[k].on
          BY <1>1, <1>3, <3>1, <4>1, ListTypes DEF Undisturbed, CallRecord
        <5>2. outcome \in {"ok", "refused"}
          BY <1>7, <2>2, <4>1
        <5>3. CASE outcome = "ok"
          BY <1>3, <1>6, <4>1, <5>3
        <5>4. CASE outcome = "refused"
          BY <1>3, <1>6, <4>1, <5>1, <5>4
        <5> QED
          BY <5>2, <5>3, <5>4
      <4>2. CASE j # k
        <5>1. calls[j].id # id \/ calls[j].mark # mark
          BY <1>4, <3>1, <4>2 DEF Undisturbed
        <5> QED
          BY <1>3, <1>6, <3>1, <4>2, <5>1 DEF Undisturbed
      <4> QED
        BY <4>1, <4>2
    <3>3. \A i \in Calls : Active(i)' /\ calls'[i].id = calls'[j].id /\ calls'[i].mark = calls'[j].mark => i = j
      BY <1>3, <1>4, <3>1 DEF Undisturbed
    <3>4. ~Moving(calls[j].id, calls[j].mark)' /\ history'.state = "done" /\ calls[j].id \in Ids(list')
      BY <1>1, <3>1 DEF Undisturbed, Moving
    <3>5. \A i \in DOMAIN list' : list'[i].id = calls[j].id => (calls[j].mark \in list'[i].marks <=> calls[j].on)
      BY <1>1, <3>1 DEF Undisturbed
    <3> QED
      BY <1>1, <1>3, <3>2, <3>3, <3>4, <3>5 DEF Undisturbed, Active, Moving
  <2>3. calls'[j].state = "ok" => calls[j].id \in 1 .. stored
    BY <1>3, <1>5, <2>1 DEF CallOK
  <2> QED
    BY <1>1, <1>3, <1>7, <2>1, <2>2, <2>3 DEF CallOK
<1>14. MarksOK'
  <2>1. \A m \in Messages : stored' < m => truth'[m] = {}
    <3>1. \A m \in Messages : stored < m => m # id \/ outcome = "refused"
      BY <1>1, <1>5, ListTypes
    <3> QED
      BY <1>1, <1>2, <1>6, <3>1 DEF MarksOK
  <2>2. ASSUME NEW m \in Messages \ excused', NEW x \in Marks
        PROVE  MarkOK(m, x)'
    <3>1. MarkOK(m, x) /\ m \in Messages
      BY <1>2, <1>7, <2>2 DEF MarksOK
    <3>2. \A n, y : Called(n, y)' <=> Called(n, y)
      BY <1>3, <1>4 DEF Called
    <3>3. /\ \A n : Announced(n)' <=> Announced(n)
          /\ \A n, y : Moving(n, y)' <=> Moving(n, y)
          /\ \A n, y, s : LastSays(n, y, s)' <=> LastSays(n, y, s)
      BY <1>1 DEF Announced, Moving, LastSays
    <3>4. CASE m = id /\ x = mark
      <4>1. Undisturbed(k) /\ m \in Ids(list)
        BY <1>4, <1>7, <2>2, <3>4 DEF CallOK, Undisturbed
      <4>2. ~Moving(m, x) /\ history.state = "done" /\ Called(m, x)
        BY <1>4, <3>4, <4>1 DEF Undisturbed, Called
      <4>4. LastSays(m, x, truth[m])'
        BY <3>3, <4>2, NothingMoves
      <4>5. older.state = "answered" => Agrees(older.items, m, x)'
        <5>1. older.state = "answered" => m \notin Ids(older.items)
          BY <4>1, OlderIsOlder
        <5> QED
          BY <1>1, <5>1 DEF Agrees, Ids
      <4> QED
        BY <1>1, <3>2, <4>1, <4>2, <4>4, <4>5 DEF MarkOK
    <3>5. CASE m # id \/ x # mark
      <4>1. x \in truth'[m] <=> x \in truth[m]
        BY <1>6, <3>1, <3>5
      <4>2. LastSays(m, x, truth'[m])
        BY <3>1, <4>1, SameEnd DEF MarkOK, LastSays
      <4>3. LastSays(m, x, truth[m])'
        BY <3>3, <4>2
      <4> QED
        BY <1>1, <3>1, <3>2, <3>3, <4>1, <4>3 DEF MarkOK, Agrees
    <3> QED
      BY <3>4, <3>5
  <2> QED
    BY <1>1, <1>2, <1>7, <2>1, <2>2 DEF MarksOK
<1> QED
  BY <1>8, <1>9, <1>10, <1>11, <1>13, <1>14 DEF ListIInv, ListInv


\* What is left on the socket after its first frame f is handled.
LEMMA FrameTaken ==
    ASSUME ListIInv, NEW f, wire # <<>>, f = Head(wire), wire' = Tail(wire), UNCHANGED <<up, pubsub>>
    PROVE  /\ f \in Posts(Messages) \cup Changes \cup Receipts
           /\ 1 \in DOMAIN wire /\ wire[1] = f
           /\ wire' \in Seq(Posts(Messages) \cup Changes \cup Receipts)
           /\ \A i \in DOMAIN wire' : i \in Nat /\ i + 1 \in DOMAIN wire /\ wire'[i] = wire[i + 1]
           /\ \A m, x : Moving(m, x) <=> Moving(m, x)' \/ IsChange(f, m, x)
           /\ \A m, x, s : LastSays(m, x, s) => LastSays(m, x, s)'
           /\ \A m, x, s : LastSays(m, x, s) /\ IsChange(f, m, x) /\ ~Moving(m, x)' => (f.on <=> x \in s)
           /\ \A m : Announced(m) <=> Announced(m)' \/ (f.kind = "message" /\ f.id = m)
<1>1. wire \in Seq(Posts(Messages) \cup Changes \cup Receipts)
  BY DEF ListIInv, FramesOK
<1>2. /\ wire' \in Seq(Posts(Messages) \cup Changes \cup Receipts) /\ f \in Posts(Messages) \cup Changes \cup Receipts
      /\ f = wire[1] /\ 1 \in DOMAIN wire
      /\ \A i \in DOMAIN wire' : i \in Nat /\ i + 1 \in DOMAIN wire /\ wire'[i] = wire[i + 1]
      /\ \A m, x : Has(wire, m, x) <=> Has(wire', m, x) \/ IsChange(f, m, x)
      /\ \A m, x, s : /\ EndsWith(wire, m, x, s) => EndsWith(wire', m, x, s)
                      /\ EndsWith(wire, m, x, s) /\ IsChange(f, m, x) /\ ~Has(wire', m, x)
                           => (f.on <=> x \in s)
      /\ \A m : Posted(wire, m) <=> Posted(wire', m) \/ (f.kind = "message" /\ f.id = m)
  BY <1>1, QueueTail
<1>3. \A m, x : Moving(m, x) <=> Moving(m, x)' \/ IsChange(f, m, x)
  BY <1>2 DEF Moving
<1>4. \A m, x, s : LastSays(m, x, s) => LastSays(m, x, s)'
  BY <1>2 DEF LastSays
<1>5. \A m, x, s : LastSays(m, x, s) /\ IsChange(f, m, x) /\ ~Moving(m, x)' => (f.on <=> x \in s)
  BY <1>2 DEF LastSays, Moving
<1>6. \A m : Announced(m) <=> Announced(m)' \/ (f.kind = "message" /\ f.id = m)
  BY <1>2 DEF Announced
<1> QED
  BY <1>2, <1>3, <1>4, <1>5, <1>6

\* The receipts that are left when the first frame is handled are as they should be.
LEMMA ReceiptsTaken ==
    ASSUME ListIInv, NEW f, wire # <<>>, f = Head(wire), wire' = Tail(wire),
           UNCHANGED <<up, pubsub, owed, accepted, sends, overtaken>>, excused \subseteq excused',
           \A m : m \in Ids(list') => \/ m \in Ids(list)
                                      \/ f.kind = "message" /\ m = f.id
                                      \/ f.kind = "receipt" /\ m = f.server
    PROVE  ReceiptsOK'
<1>1. /\ 1 \in DOMAIN wire /\ wire[1] = f
      /\ \A i \in DOMAIN wire' : i \in Nat /\ i + 1 \in DOMAIN wire /\ wire'[i] = wire[i + 1]
      /\ \A m : Announced(m) <=> Announced(m)' \/ (f.kind = "message" /\ f.id = m)
  BY FrameTaken
<1>2. ReceiptsOK /\ FramesOK
  BY DEF ListIInv
<1>3. /\ f.kind = "message" => f.id \in Old + 1 .. accepted
      /\ f.kind = "receipt" => f.server \in Old + 1 .. accepted
  BY <1>1, <1>2 DEF FramesOK, ReceiptsOK, ReceiptOK
<1>4. \A m \in Sent : m \notin Old + 1 .. accepted
  BY ListNumbers DEF Sent
<1>5. ASSUME NEW r, ReceiptOK(r), r.server \in overtaken \/ ~(f.kind = "message" /\ f.id = r.server),
             ~(f.kind = "receipt" /\ f.server = r.server)
      PROVE  /\ r.id \in Sent /\ r.server \in Old + 1 .. accepted
             /\ r.server \in excused' \/ Announced(r.server)'
             /\ r.server \in overtaken => r.server \in excused'
             /\ r.id \in Ids(list') => r.server \in overtaken \/ r.server \notin Ids(list')
  <2>1. r.id \in Ids(list') => r.id \in Ids(list)
    BY <1>3, <1>4, <1>5 DEF ReceiptOK
  <2> QED
    BY <1>1, <1>5, <2>1 DEF ReceiptOK
<1>6. (\A i \in DOMAIN wire : wire[i].kind = "receipt" => ReceiptOK(wire[i]))'
  <2> SUFFICES ASSUME NEW i \in DOMAIN wire', wire'[i].kind = "receipt"
               PROVE  /\ wire'[i].id \in Sent /\ wire'[i].server \in Old + 1 .. accepted
                      /\ wire'[i].server \in excused' \/ Posted(pubsub, wire'[i].server) \/ Posted(wire', wire'[i].server)
                      /\ wire'[i].server \in overtaken => wire'[i].server \in excused'
                      /\ wire'[i].id \in Ids(list') => wire'[i].server \in overtaken \/ wire'[i].server \notin Ids(list')
    BY DEF ReceiptOK, Announced, Sent, Ids
  <2> PICK r : r = wire[i + 1]
    OBVIOUS
  <2>1. i + 1 \in DOMAIN wire /\ wire'[i] = r /\ r.kind = "receipt" /\ i + 1 # 1 /\ ~(i + 1 < 1)
    BY <1>1
  <2>2. ReceiptOK(r)
    BY <1>2, <2>1 DEF ReceiptsOK
  <2>3. r.server \in overtaken \/ ~(f.kind = "message" /\ f.id = r.server)
    BY <1>1, <1>2, <2>1 DEF ReceiptsOK
  <2>4. ~(f.kind = "receipt" /\ f.server = r.server)
    BY <1>1, <1>2, <2>1 DEF ReceiptsOK
  <2>5. /\ r.id \in Sent /\ r.server \in Old + 1 .. accepted
        /\ r.server \in excused' \/ Announced(r.server)'
        /\ r.server \in overtaken => r.server \in excused'
        /\ r.id \in Ids(list') => r.server \in overtaken \/ r.server \notin Ids(list')
    BY <1>5, <2>2, <2>3, <2>4
  <2> QED
    BY <2>1, <2>5 DEF Announced
<1>7. ASSUME NEW r \in owed
      PROVE  /\ ReceiptOK(r)'
             /\ \A s \in owed : s = r
             /\ \A i \in DOMAIN wire' : wire'[i].kind = "receipt" => wire'[i].server # r.server
             /\ Posted(wire', r.server) => r.server \in overtaken
  <2>1. /\ ReceiptOK(r)
        /\ \A s \in owed : s = r
        /\ \A i \in DOMAIN wire : wire[i].kind = "receipt" => wire[i].server # r.server
        /\ Posted(wire, r.server) => r.server \in overtaken
    BY <1>2 DEF ReceiptsOK
  <2>2. ~(f.kind = "receipt" /\ f.server = r.server)
    BY <1>1, <2>1
  <2>3. f.kind = "message" /\ f.id = r.server => Posted(wire, r.server)
    BY <1>1 DEF Posted
  <2>4. /\ r.id \in Sent /\ r.server \in Old + 1 .. accepted
        /\ r.server \in excused' \/ Announced(r.server)'
        /\ r.server \in overtaken => r.server \in excused'
        /\ r.id \in Ids(list') => r.server \in overtaken \/ r.server \notin Ids(list')
    BY <1>5, <2>1, <2>2, <2>3
  <2>5. ReceiptOK(r)'
    BY <2>4 DEF ReceiptOK, Sent, Ids
  <2>6. \A i \in DOMAIN wire' : wire'[i].kind = "receipt" => wire'[i].server # r.server
    BY <1>1, <2>1
  <2>7. Posted(wire', r.server) => Posted(wire, r.server)
    BY <1>1 DEF Posted
  <2> QED
    BY <2>1, <2>5, <2>6, <2>7
<1>8. ASSUME NEW i \in DOMAIN wire', NEW j \in DOMAIN wire'
      PROVE  /\ wire'[i].kind = "receipt" /\ wire'[j].kind = "message" /\ wire'[j].id = wire'[i].server
                  => i < j \/ wire'[i].server \in overtaken
             /\ wire'[i].kind = "receipt" /\ wire'[j].kind = "receipt" /\ wire'[j].server = wire'[i].server => i = j
  <2>1. /\ i \in Nat /\ j \in Nat /\ i + 1 \in DOMAIN wire /\ j + 1 \in DOMAIN wire
        /\ wire'[i] = wire[i + 1] /\ wire'[j] = wire[j + 1]
    BY <1>1
  <2>2. (i + 1 < j + 1 => i < j) /\ (i + 1 = j + 1 => i = j)
    BY <2>1
  <2> QED
    BY <1>2, <2>1, <2>2 DEF ReceiptsOK
<1> QED
  BY <1>6, <1>7, <1>8 DEF ReceiptsOK

\* A receipt gives a placeholder the id of its message.
LEMMA ReceiptKeeps == ASSUME ListIInv, HandleEvent, Head(wire).kind = "receipt" PROVE ListIInv'
<1> PICK f : f = Head(wire)
  OBVIOUS
<1> PICK p : p = f.id
  OBVIOUS
<1> PICK s : s = f.server
  OBVIOUS
<1>1. /\ wire # <<>> /\ wire' = Tail(wire) /\ f.kind = "receipt"
      /\ list' = Confirmed(f)
      /\ excused' = IF p \in excused THEN excused \cup {s} ELSE excused
      /\ UNCHANGED <<accepted, stored, truth, mine, pubsub, owed, up, cursor, history, older, sends, calls, theirs, overtaken>>
  BY DEF HandleEvent, services
<1>2. ListTypeOK /\ ShownOnce /\ FramesOK /\ ReceiptsOK /\ PagesOK /\ Everywhere /\ CallsOK /\ MarksOK
  BY DEF ListIInv, ListInv
<1>3. /\ 1 \in DOMAIN wire /\ wire[1] = f /\ wire' \in Seq(Posts(Messages) \cup Changes \cup Receipts)
      /\ \A i \in DOMAIN wire' : i \in Nat /\ i + 1 \in DOMAIN wire /\ wire'[i] = wire[i + 1]
      /\ \A m, x : Moving(m, x)' <=> Moving(m, x)
      /\ \A m, x, u : LastSays(m, x, u) => LastSays(m, x, u)'
      /\ \A m : Announced(m)' <=> Announced(m)
  BY <1>1, FrameTaken DEF IsChange
<1>4. /\ p \in Sent /\ s \in Old + 1 .. accepted /\ (s \in excused \/ Announced(s))
      /\ s \in overtaken => s \in excused
      /\ p \in Ids(list) => s \in overtaken \/ s \notin Ids(list)
  BY <1>1, <1>2, <1>3 DEF ReceiptsOK, ReceiptOK
<1>5. /\ p \in Placeholders /\ p \in Nat /\ s \in Messages /\ s \in Nat /\ s \in 1 .. accepted /\ s # p
      /\ \A m \in Messages : m # p
  BY <1>4, ListTypes DEF Sent, Messages, Placeholders
<1>6. /\ list' \in Seq(Entries) /\ DOMAIN list' = DOMAIN list
      /\ \A i \in DOMAIN list : /\ list'[i].id = IF list[i].id = p THEN s ELSE list[i].id
                                /\ list'[i].marks = list[i].marks
  <2>1. DOMAIN list' = DOMAIN list
    BY <1>1 DEF Confirmed
  <2>2. ASSUME NEW i \in DOMAIN list
        PROVE  /\ list'[i] \in Entries /\ list'[i].id = (IF list[i].id = p THEN s ELSE list[i].id)
               /\ list'[i].marks = list[i].marks
    <3>1. CASE list[i].id = p
      <4>1. list'[i] = [list[i] EXCEPT !.id = s, !.confirmed = TRUE]
        BY <1>1, <3>1 DEF Confirmed
      <4> QED
        BY <1>5, <3>1, <4>1, ListTypes DEF Entries, AllIds
    <3>2. CASE list[i].id # p
      <4>1. list'[i] = list[i]
        BY <1>1, <3>2 DEF Confirmed
      <4> QED
        BY <3>2, <4>1, ListTypes
    <3> QED
      BY <3>1, <3>2
  <2>3. list' = [i \in 1 .. Len(list) |-> list'[i]]
    BY <1>1, ListTypes DEF Confirmed
  <2>4. list' \in Seq(Entries)
    <3>1. Len(list) \in Nat /\ DOMAIN list = 1 .. Len(list)
      BY ListTypes
    <3> QED
      BY <2>2, <2>3, <3>1, IsASeq
  <2> QED
    BY <2>1, <2>2, <2>4
<1>7. /\ \A m : m \in Ids(list') <=> (m \in Ids(list) /\ m # p) \/ (m = s /\ p \in Ids(list))
  BY <1>6 DEF Ids
<1>8. excused \subseteq excused' /\ excused' \subseteq AllIds /\ (s \notin excused' => p \notin excused /\ s \notin excused)
  BY <1>1, <1>5, ListTypes DEF AllIds
<1>9. ListTypeOK'
  BY <1>1, <1>2, <1>6, <1>8 DEF ListTypeOK
<1>10. ShownOnce'
  <2> SUFFICES ASSUME NEW i \in DOMAIN list, NEW j \in DOMAIN list, list'[i].id = list'[j].id,
                      list'[i].id \notin overtaken
               PROVE  i = j
    BY <1>1, <1>6 DEF ShownOnce
  <2>1. list[i].id = list[j].id /\ list[i].id \notin overtaken
    <3>1. list[i].id \in Ids(list) /\ list[j].id \in Ids(list)
      BY DEF Ids
    <3>2. p \notin overtaken
      BY <1>2, <1>5 DEF ListTypeOK
    <3> QED
      BY <1>4, <1>6, <3>1, <3>2
  <2> QED
    BY <1>2, <2>1 DEF ShownOnce
<1>11. FramesOK'
  BY <1>1, <1>2, <1>3 DEF FramesOK, Sent
<1>12. ReceiptsOK'
  BY <1>1, <1>7, <1>8, ReceiptsTaken
<1>13. PagesOK'
  <2>1. \A i \in DOMAIN list' : list'[i].id \in 1 .. accepted \cup Sent
    BY <1>2, <1>5, <1>6 DEF PagesOK
  <2>2. cursor # 0 => cursor \in Ids(list') /\ \A i \in DOMAIN list' : cursor <= list'[i].id
    <3> SUFFICES ASSUME cursor # 0 PROVE cursor \in Ids(list') /\ \A i \in DOMAIN list' : cursor <= list'[i].id
      OBVIOUS
    <3>1. cursor \in Ids(list) /\ cursor <= Old + 1 /\ \A i \in DOMAIN list : cursor <= list[i].id
      BY <1>2 DEF PagesOK
    <3>2. cursor # p
      BY <1>2, <1>4, ListTypes DEF ListTypeOK, Sent
    <3>3. cursor <= s
      BY <1>4, <3>1, ListTypes
    <3> QED
      BY <1>6, <1>7, <3>1, <3>2, <3>3
  <2> QED
    BY <1>1, <1>2, <2>1, <2>2 DEF PagesOK, Consecutive, Sent, Ids, NextCursor
<1>14. \A m \in Messages : m \in Ids(list) => m \in Ids(list')
  BY <1>5, <1>7
<1>15. Everywhere'
  <2>1. \A m \in Old + 1 .. accepted : m \in Messages
    BY ListTypes DEF Messages
  <2>2. \A m \in 1 .. Old : m \in Messages
    BY ListTypes DEF Messages
  <2>3. \A m \in Old + 1 .. accepted : Covered(m)'
    BY <1>1, <1>2, <1>3, <1>8, <1>14, <2>1 DEF Everywhere, Covered
  <2>4. history.state = "done" => \A m \in 1 .. Old : cursor <= m => m \in Ids(list')
    BY <1>2, <1>14, <2>2 DEF Everywhere
  <2> QED
    BY <1>1, <2>3, <2>4 DEF Everywhere, Announced
<1>16. CallsOK'
  <2> SUFFICES ASSUME NEW k \in Calls, Active(k) PROVE CallOK(k)'
    BY <1>1 DEF CallsOK, Active
  <2>1. CallOK(k)
    BY <1>2 DEF CallsOK
  <2>2. ASSUME calls[k].id \notin excused'
        PROVE  Undisturbed(k)'
    <3>1. Undisturbed(k) /\ calls[k].id \in Messages
      BY <1>8, <2>1, <2>2 DEF CallOK, AllIds
    <3>2. calls[k].id \in Ids(list') /\ ~Moving(calls[k].id, calls[k].mark)'
      BY <1>1, <1>3, <1>14, <3>1 DEF Undisturbed
    <3>3. \A i \in DOMAIN list' : list'[i].id = calls[k].id => (calls[k].mark \in list'[i].marks <=> calls[k].on)
      <4> SUFFICES ASSUME NEW i \in DOMAIN list, list'[i].id = calls[k].id
                   PROVE  calls[k].mark \in list'[i].marks <=> calls[k].on
        BY <1>6
      <4>1. list[i].id \in Ids(list) /\ calls[k].id \in Ids(list)
        BY <3>1 DEF Ids, Undisturbed
      <4>2. list[i].id = calls[k].id
        BY <1>4, <1>6, <1>8, <2>2, <4>1
      <4> QED
        BY <1>6, <3>1, <4>2 DEF Undisturbed
    <3> QED
      BY <1>1, <3>1, <3>2, <3>3 DEF Undisturbed, Active, Moving
  <2> QED
    BY <1>1, <1>8, <2>1, <2>2 DEF CallOK
<1>17. MarksOK'
  <2>1. ASSUME NEW m \in Messages \ excused', NEW x \in Marks
        PROVE  MarkOK(m, x)'
    <3>1. MarkOK(m, x) /\ m \in Messages /\ m \notin excused
      BY <1>2, <1>8, <2>1 DEF MarksOK
    <3>2. LastSays(m, x, truth[m])'
      BY <1>1, <1>3, <3>1 DEF MarkOK
    <3>3. m \notin Ids(list') /\ Announced(m)' /\ ~Moving(m, x)' => x \notin truth[m]
      BY <1>3, <1>14, <3>1 DEF MarkOK
    <3>4. ASSUME history.state = "done", ~Called(m, x), ~Moving(m, x)' PROVE Agrees(list', m, x)
      <4> SUFFICES ASSUME NEW i \in DOMAIN list, list'[i].id = m PROVE x \in list'[i].marks <=> x \in truth[m]
        BY <1>1, <1>6 DEF Agrees
      <4>1. CASE list[i].id # p
        <5>1. list[i].id = m /\ list'[i].marks = list[i].marks
          BY <1>6, <4>1
        <5>2. ~Moving(m, x)
          BY <1>3, <3>4
        <5>3. Agrees(list, m, x)
          BY <3>1, <3>4, <5>2 DEF MarkOK
        <5> QED
          BY <5>1, <5>3 DEF Agrees
      <4>2. CASE list[i].id = p
        <5>1. m = s /\ p \in Ids(list)
          BY <1>6, <4>2 DEF Ids
        <5>2. s \notin Ids(list) /\ p \notin excused /\ Announced(s)
          BY <1>4, <1>8, <2>1, <5>1
        <5>3. list[i].marks = {}
          BY <1>2, <1>5, <4>2, <5>2 DEF MarksOK
        <5>4. x \notin truth[m]
          BY <1>3, <1>4, <3>1, <3>4, <5>1, <5>2 DEF MarkOK
        <5> QED
          BY <1>6, <5>3, <5>4
      <4> QED
        BY <4>1, <4>2
    <3>5. (Called(m, x)' <=> Called(m, x)) /\ (Moving(m, x)' <=> Moving(m, x))
      BY <1>1, <1>3 DEF Called, Active
    <3>6. /\ history'.state = "answered" /\ ~Moving(m, x)' => Agrees(history.items, m, x)
          /\ older'.state = "answered" /\ ~Moving(m, x)' => Agrees(older.items, m, x)
      BY <1>1, <3>1, <3>5 DEF MarkOK
    <3> QED
      BY <1>1, <3>2, <3>3, <3>4, <3>5, <3>6 DEF MarkOK, Agrees
  <2>2. ASSUME NEW i \in DOMAIN list', list'[i].id \in Placeholders \ excused' PROVE list'[i].marks = {}
    <3>1. s \notin Placeholders
      BY <1>4, ListTypes DEF Placeholders
    <3> QED
      BY <1>2, <1>6, <1>8, <2>2, <3>1 DEF MarksOK
  <2> QED
    BY <1>1, <1>2, <2>1, <2>2 DEF MarksOK
<1> QED
  BY <1>9, <1>10, <1>11, <1>12, <1>13, <1>15, <1>16, <1>17 DEF ListIInv, ListInv


\* An entry is added at the end of the list.
LEMMA EntryAppended ==
    ASSUME NEW q \in Seq(Entries), NEW e \in Entries
    PROVE  /\ Append(q, e) \in Seq(Entries) /\ Len(q) \in Nat
           /\ DOMAIN q = 1 .. Len(q) /\ DOMAIN Append(q, e) = 1 .. Len(q) + 1
           /\ \A i \in DOMAIN q : i \in DOMAIN Append(q, e) /\ Append(q, e)[i] = q[i]
           /\ Len(q) + 1 \in DOMAIN Append(q, e) /\ Append(q, e)[Len(q) + 1] = e
           /\ \A i \in DOMAIN Append(q, e) : i \in DOMAIN q \/ i = Len(q) + 1
<1> PICK r : r = Append(q, e)
  OBVIOUS
<1> PICK n : n = Len(q)
  OBVIOUS
<1>1. r \in Seq(Entries) /\ n \in Nat /\ DOMAIN q = 1 .. n /\ DOMAIN r = 1 .. n + 1
      /\ (\A i \in 1 .. n : r[i] = q[i]) /\ r[n + 1] = e
  BY AppendProperties, LenProperties
<1> QED
  BY <1>1

\* A broadcast message is appended unless its receipt or the history came first.
LEMMA MessageKeeps == ASSUME ListIInv, HandleEvent, Head(wire).kind = "message" PROVE ListIInv'
<1> PICK f : f = Head(wire)
  OBVIOUS
<1> PICK n : n = f.id
  OBVIOUS
<1>1. /\ wire # <<>> /\ wire' = Tail(wire) /\ f.kind = "message"
      /\ list' = Appended(f)
      /\ UNCHANGED <<accepted, stored, truth, mine, pubsub, owed, up, cursor, history, older, sends, calls, theirs,
                     overtaken, excused>>
  BY DEF HandleEvent, services
<1>2. ListTypeOK /\ ShownOnce /\ FramesOK /\ ReceiptsOK /\ PagesOK /\ Everywhere /\ CallsOK /\ MarksOK
  BY DEF ListIInv, ListInv
<1>3. /\ 1 \in DOMAIN wire /\ wire[1] = f /\ wire' \in Seq(Posts(Messages) \cup Changes \cup Receipts)
      /\ \A i \in DOMAIN wire' : i \in Nat /\ i + 1 \in DOMAIN wire /\ wire'[i] = wire[i + 1]
      /\ \A m, x : Moving(m, x)' <=> Moving(m, x)
      /\ \A m, x, u : LastSays(m, x, u) => LastSays(m, x, u)'
      /\ \A m : Announced(m) <=> Announced(m)' \/ m = n
  BY <1>1, FrameTaken DEF IsChange
<1>4. n \in Old + 1 .. accepted /\ Announced(n)
  BY <1>2, <1>3 DEF FramesOK
<1>5. n \in Messages /\ n \in Nat /\ n \in 1 .. accepted /\ n \in AllIds /\ n \notin Placeholders /\ n \notin Sent
  BY <1>4, ListTypes DEF Sent, Messages, Placeholders, AllIds
<1> PICK e : e = Entry(n, {}, TRUE)
  OBVIOUS
<1>6. e \in Entries /\ e.id = n /\ e.marks = {}
  BY <1>5 DEF Entry, Entries
<1>7. /\ list' \in Seq(Entries)
      /\ \A i \in DOMAIN list : i \in DOMAIN list' /\ list'[i] = list[i]
      /\ \A i \in DOMAIN list' : (i \in DOMAIN list /\ list'[i] = list[i])
                                 \/ (n \notin Ids(list) /\ i = Len(list) + 1 /\ list'[i] = e)
      /\ n \in Ids(list')
  <2>1. CASE n \in Ids(list)
    BY <1>1, <2>1, ListTypes DEF Appended
  <2>2. CASE n \notin Ids(list)
    <3>1. list' = Append(list, e)
      BY <1>1, <2>2 DEF Appended
    <3>2. list \in Seq(Entries)
      BY ListTypes
    <3>3. /\ list' \in Seq(Entries)
          /\ \A i \in DOMAIN list : i \in DOMAIN list' /\ list'[i] = list[i]
          /\ Len(list) + 1 \in DOMAIN list' /\ list'[Len(list) + 1] = e
          /\ \A i \in DOMAIN list' : i \in DOMAIN list \/ i = Len(list) + 1
      <4>1. list' \in Seq(Entries)
        BY <1>6, <3>1, <3>2, EntryAppended
      <4>2. \A i \in DOMAIN list : i \in DOMAIN list' /\ list'[i] = list[i]
        <5> PICK k : k = Len(list)
          OBVIOUS
        <5>1. /\ k \in Nat /\ DOMAIN list = 1 .. k /\ DOMAIN list' = 1 .. k + 1
              /\ \A i \in 1 .. k : list'[i] = list[i]
          BY <1>6, <3>1, <3>2, AppendProperties, LenProperties
        <5> QED
          BY <5>1
      <4>3. Len(list) + 1 \in DOMAIN list' /\ list'[Len(list) + 1] = e
        BY <1>6, <3>1, <3>2, EntryAppended
      <4>4. \A i \in DOMAIN list' : i \in DOMAIN list \/ i = Len(list) + 1
        BY <1>6, <3>1, <3>2, EntryAppended
      <4> QED
        BY <4>1, <4>2, <4>3, <4>4
    <3> QED
      BY <1>6, <2>2, <3>3 DEF Ids
  <2> QED
    BY <2>1, <2>2
<1>8. \A m : m \in Ids(list') <=> m \in Ids(list) \/ m = n
  BY <1>6, <1>7 DEF Ids
<1>9. ListTypeOK'
  BY <1>1, <1>2, <1>7 DEF ListTypeOK
<1>10. ShownOnce'
  <2> SUFFICES ASSUME NEW i \in DOMAIN list', NEW j \in DOMAIN list', list'[i].id = list'[j].id,
                      list'[i].id \notin overtaken
               PROVE  i = j
    BY <1>1 DEF ShownOnce
  <2>1. \A k \in DOMAIN list : n \notin Ids(list) => list[k].id # n
    BY DEF Ids
  <2>2. CASE i \in DOMAIN list /\ list'[i] = list[i] /\ j \in DOMAIN list /\ list'[j] = list[j]
    BY <1>2, <2>2 DEF ShownOnce
  <2>3. CASE n \notin Ids(list) /\ list'[i] = e /\ i = Len(list) + 1
    BY <1>6, <1>7, <2>1, <2>3
  <2>4. CASE n \notin Ids(list) /\ list'[j] = e /\ j = Len(list) + 1
    BY <1>6, <1>7, <2>1, <2>4
  <2> QED
    BY <1>7, <2>2, <2>3, <2>4
<1>11. FramesOK'
  <2>1. \A m : Announced(m)' => m \in Old + 1 .. accepted
    BY <1>2, <1>3 DEF FramesOK
  <2> QED
    BY <1>1, <1>2, <1>3, <2>1 DEF FramesOK, Sent
<1>12. ReceiptsOK'
  BY <1>1, <1>8, ReceiptsTaken
<1>13. PagesOK'
  <2>1. \A i \in DOMAIN list' : list'[i].id \in 1 .. accepted \cup Sent
    BY <1>2, <1>5, <1>6, <1>7 DEF PagesOK
  <2>2. cursor # 0 => cursor \in Ids(list') /\ \A i \in DOMAIN list' : cursor <= list'[i].id
    <3> SUFFICES ASSUME cursor # 0 PROVE cursor \in Ids(list') /\ \A i \in DOMAIN list' : cursor <= list'[i].id
      OBVIOUS
    <3>1. cursor \in Ids(list) /\ cursor <= Old + 1 /\ \A i \in DOMAIN list : cursor <= list[i].id
      BY <1>2 DEF PagesOK
    <3>2. cursor <= n
      BY <1>4, <3>1, ListTypes
    <3> QED
      BY <1>6, <1>7, <1>8, <3>1, <3>2
  <2> QED
    BY <1>1, <1>2, <2>1, <2>2 DEF PagesOK, Consecutive, Sent, Ids, NextCursor
<1>14. Everywhere'
  <2>1. \A m \in Old + 1 .. accepted : Covered(m)'
    BY <1>1, <1>2, <1>3, <1>8 DEF Everywhere, Covered
  <2>2. history.state = "done" => \A m \in 1 .. Old : cursor <= m => m \in Ids(list')
    BY <1>2, <1>8 DEF Everywhere
  <2> QED
    BY <1>1, <2>1, <2>2 DEF Everywhere, Announced
<1>15. CallsOK'
  <2> SUFFICES ASSUME NEW k \in Calls, Active(k) PROVE CallOK(k)'
    BY <1>1 DEF CallsOK, Active
  <2>1. CallOK(k)
    BY <1>2 DEF CallsOK
  <2>2. ASSUME Undisturbed(k)
        PROVE  Undisturbed(k)'
    <3>1. calls[k].id \in Ids(list') /\ ~Moving(calls[k].id, calls[k].mark)'
      BY <1>1, <1>3, <1>8, <2>2 DEF Undisturbed
    <3>2. \A i \in DOMAIN list' : list'[i].id = calls[k].id => (calls[k].mark \in list'[i].marks <=> calls[k].on)
      <4>1. /\ calls[k].id \in Ids(list)
            /\ \A i \in DOMAIN list : list[i].id = calls[k].id => (calls[k].mark \in list[i].marks <=> calls[k].on)
        BY <2>2 DEF Undisturbed
      <4> SUFFICES ASSUME NEW i \in DOMAIN list', list'[i].id = calls[k].id
                   PROVE  calls[k].mark \in list'[i].marks <=> calls[k].on
        OBVIOUS
      <4>2. i \in DOMAIN list /\ list'[i] = list[i]
        BY <1>6, <1>7, <4>1
      <4> QED
        BY <4>1, <4>2
    <3> QED
      BY <1>1, <2>2, <3>1, <3>2 DEF Undisturbed, Active, Moving
  <2> QED
    BY <1>1, <2>1, <2>2 DEF CallOK
<1>16. MarksOK'
  <2>1. ASSUME NEW m \in Messages \ excused, NEW x \in Marks
        PROVE  MarkOK(m, x)'
    <3>1. MarkOK(m, x)
      BY <1>2, <2>1 DEF MarksOK
    <3>2. LastSays(m, x, truth[m])'
      BY <1>1, <1>3, <3>1 DEF MarkOK
    <3>3. m \notin Ids(list') /\ Announced(m)' /\ ~Moving(m, x)' => x \notin truth[m]
      BY <1>3, <1>8, <3>1 DEF MarkOK
    <3>4. ASSUME history.state = "done", ~Called(m, x), ~Moving(m, x)' PROVE Agrees(list', m, x)
      <4> SUFFICES ASSUME NEW i \in DOMAIN list', list'[i].id = m PROVE x \in list'[i].marks <=> x \in truth[m]
        BY <1>1 DEF Agrees
      <4>1. CASE i \in DOMAIN list /\ list'[i] = list[i]
        <5>1. Agrees(list, m, x)
          BY <1>3, <3>1, <3>4 DEF MarkOK
        <5> QED
          BY <4>1, <5>1 DEF Agrees
      <4>2. CASE n \notin Ids(list) /\ list'[i] = e
        <5>1. x \notin truth[m]
          BY <1>3, <1>4, <1>6, <3>1, <3>4, <4>2 DEF MarkOK
        <5> QED
          BY <1>6, <4>2, <5>1
      <4> QED
        BY <1>7, <4>1, <4>2
    <3>5. (Called(m, x)' <=> Called(m, x)) /\ (Moving(m, x)' <=> Moving(m, x))
      BY <1>1, <1>3 DEF Called, Active
    <3>6. /\ history'.state = "answered" /\ ~Moving(m, x)' => Agrees(history.items, m, x)
          /\ older'.state = "answered" /\ ~Moving(m, x)' => Agrees(older.items, m, x)
      BY <1>1, <3>1, <3>5 DEF MarkOK
    <3> QED
      BY <1>1, <3>2, <3>3, <3>4, <3>5, <3>6 DEF MarkOK, Agrees
  <2>2. ASSUME NEW i \in DOMAIN list', list'[i].id \in Placeholders \ excused PROVE list'[i].marks = {}
    BY <1>2, <1>6, <1>7, <2>2 DEF MarksOK
  <2> QED
    BY <1>1, <1>2, <2>1, <2>2 DEF MarksOK
<1> QED
  BY <1>9, <1>10, <1>11, <1>12, <1>13, <1>14, <1>15, <1>16 DEF ListIInv, ListInv

\* An event changes a mark of an entry.
LEMMA ChangeKeeps == ASSUME ListIInv, HandleEvent, Head(wire).kind = "mark" PROVE ListIInv'
<1> PICK f : f = Head(wire)
  OBVIOUS
<1> PICK n : n = f.id
  OBVIOUS
<1> PICK y : y = f.mark
  OBVIOUS
<1>1. /\ wire # <<>> /\ wire' = Tail(wire) /\ f.kind = "mark"
      /\ list' = Marked(list, n, y, f.on)
      /\ excused' = IF history.state = "done" /\ n \in Ids(list) THEN excused ELSE excused \cup {n}
      /\ UNCHANGED <<accepted, stored, truth, mine, pubsub, owed, up, cursor, history, older, sends, calls, theirs, overtaken>>
  BY DEF HandleEvent, services
<1>2. ListTypeOK /\ ShownOnce /\ FramesOK /\ ReceiptsOK /\ PagesOK /\ Everywhere /\ CallsOK /\ MarksOK
  BY DEF ListIInv, ListInv
<1>3. /\ f \in Posts(Messages) \cup Changes \cup Receipts
      /\ 1 \in DOMAIN wire /\ wire[1] = f /\ wire' \in Seq(Posts(Messages) \cup Changes \cup Receipts)
      /\ \A i \in DOMAIN wire' : i \in Nat /\ i + 1 \in DOMAIN wire /\ wire'[i] = wire[i + 1]
      /\ \A m, x : Moving(m, x) <=> Moving(m, x)' \/ IsChange(f, m, x)
      /\ \A m, x, u : LastSays(m, x, u) => LastSays(m, x, u)'
      /\ \A m, x, u : LastSays(m, x, u) /\ IsChange(f, m, x) /\ ~Moving(m, x)' => (f.on <=> x \in u)
      /\ \A m : Announced(m) <=> Announced(m)'
  BY <1>1, FrameTaken
<1>4. n \in Messages /\ y \in Marks /\ f.on \in BOOLEAN /\ \A m, x : IsChange(f, m, x) <=> m = n /\ x = y
  BY <1>1, <1>3 DEF Posts, Changes, Receipts, IsChange
<1>5. n \in AllIds /\ n \notin Placeholders
  BY <1>4, ListTypes DEF AllIds, Messages, Placeholders
<1>6. /\ list' \in Seq(Entries) /\ DOMAIN list' = DOMAIN list /\ Ids(list') = Ids(list)
      /\ \A i \in DOMAIN list : list'[i].id = list[i].id
      /\ \A i \in DOMAIN list : \A x :
           list[i].id # n \/ x # y => (x \in list'[i].marks <=> x \in list[i].marks)
      /\ \A i \in DOMAIN list : list[i].id = n => (y \in list'[i].marks <=> f.on)
  <2>1. list \in Seq(Entries) /\ y \in Marks /\ \A i \in DOMAIN list : list[i] \in Entries
    BY <1>4, ListTypes
  <2> PICK v : v = f.on
    OBVIOUS
  <2> PICK r : r = Marked(list, n, y, v)
    OBVIOUS
  <2>2. r \in Seq(Entries) /\ DOMAIN r = DOMAIN list /\ Ids(r) = Ids(list)
    BY <2>1, MarkedList
  <2>3. ASSUME NEW i \in DOMAIN list
        PROVE  /\ r[i].id = list[i].id
               /\ list[i].id = n => (y \in r[i].marks <=> v)
               /\ \A x : list[i].id # n \/ x # y => (x \in r[i].marks <=> x \in list[i].marks)
    <3>1. r[i].id = list[i].id
      <4>1. list[i] \in Entries
        BY <2>1
      <4>2. CASE list[i].id = n
        BY <4>1, <4>2 DEF Marked, Entries
      <4>3. CASE list[i].id # n
        BY <4>3 DEF Marked
      <4> QED
        BY <4>2, <4>3
    <3>2. list[i].id = n => (y \in r[i].marks <=> v)
      BY <2>1, MarkedEntry
    <3>3. \A x : list[i].id # n \/ x # y => (x \in r[i].marks <=> x \in list[i].marks)
      BY <2>1, MarkedEntry
    <3> QED
      BY <3>1, <3>2, <3>3
  <2> QED
    BY <1>1, <2>2, <2>3
<1>7. /\ excused \subseteq excused' /\ excused' \subseteq AllIds
      /\ n \notin excused' => history.state = "done" /\ n \in Ids(list)
  BY <1>1, <1>5, ListTypes
<1>8. ListTypeOK' /\ ShownOnce'
  BY <1>1, <1>2, <1>6, <1>7 DEF ListTypeOK, ShownOnce
<1>9. FramesOK'
  BY <1>1, <1>2, <1>3 DEF FramesOK, Sent
<1>10. ReceiptsOK'
  BY <1>1, <1>6, <1>7, ReceiptsTaken
<1>11. PagesOK'
  <2>1. /\ \A i \in DOMAIN list' : list'[i].id \in 1 .. accepted \cup Sent
        /\ cursor # 0 => cursor \in Ids(list') /\ \A i \in DOMAIN list' : cursor <= list'[i].id
    BY <1>2, <1>6 DEF PagesOK
  <2> QED
    BY <1>1, <1>2, <2>1 DEF PagesOK, Consecutive, Sent, Ids, NextCursor
<1>12. Everywhere'
  <2>1. \A m \in Old + 1 .. accepted : Covered(m)'
    BY <1>1, <1>2, <1>3, <1>6, <1>7 DEF Everywhere, Covered
  <2>2. history.state = "done" => \A m \in 1 .. Old : cursor <= m => m \in Ids(list')
    BY <1>2, <1>6 DEF Everywhere
  <2> QED
    BY <1>1, <2>1, <2>2 DEF Everywhere, Announced
<1>13. CallsOK'
  <2> SUFFICES ASSUME NEW k \in Calls, Active(k) PROVE CallOK(k)'
    BY <1>1 DEF CallsOK, Active
  <2>1. CallOK(k)
    BY <1>2 DEF CallsOK
  <2>2. ASSUME Undisturbed(k)
        PROVE  Undisturbed(k)'
    <3>1. calls[k].id # n \/ calls[k].mark # y
      BY <1>3, <1>4, <2>2 DEF Undisturbed
    <3>2. calls[k].id \in Ids(list') /\ ~Moving(calls[k].id, calls[k].mark)'
      BY <1>1, <1>3, <1>6, <2>2 DEF Undisturbed
    <3>3. \A i \in DOMAIN list' : list'[i].id = calls[k].id => (calls[k].mark \in list'[i].marks <=> calls[k].on)
      BY <1>6, <2>2, <3>1 DEF Undisturbed
    <3> QED
      BY <1>1, <2>2, <3>2, <3>3 DEF Undisturbed, Active, Moving
  <2> QED
    BY <1>1, <1>7, <2>1, <2>2 DEF CallOK
<1>14. MarksOK'
  <2>1. ASSUME NEW m \in Messages \ excused', NEW x \in Marks
        PROVE  MarkOK(m, x)'
    <3>1. MarkOK(m, x)
      BY <1>2, <1>7, <2>1 DEF MarksOK
    <3>2. LastSays(m, x, truth[m])' /\ LastSays(m, x, truth[m])
      BY <1>1, <1>3, <3>1 DEF MarkOK
    <3>3. Called(m, x)' <=> Called(m, x)
      BY <1>1 DEF Called, Active
    <3>4. CASE m = n /\ x = y
      <4>1. m \in Ids(list) /\ m \in Ids(list') /\ history.state = "done"
        BY <1>6, <1>7, <2>1, <3>4
      <4>2. older.state = "answered" => Agrees(older.items, m, x)
        <5>1. older.state = "answered" => m \notin Ids(older.items)
          BY <4>1, OlderIsOlder
        <5> QED
          BY <5>1 DEF Agrees, Ids
      <4>3. ~Moving(m, x)' => Agrees(list', m, x)
        <5>1. ~Moving(m, x)' => (f.on <=> x \in truth[m])
          BY <1>3, <1>4, <3>2, <3>4
        <5> QED
          BY <1>6, <3>4, <5>1 DEF Agrees
      <4> QED
        BY <1>1, <3>2, <3>3, <4>1, <4>2, <4>3 DEF MarkOK, Agrees
    <3>5. CASE m # n \/ x # y
      <4>1. Moving(m, x)' <=> Moving(m, x)
        BY <1>3, <1>4, <3>5
      <4>2. Agrees(list, m, x) => Agrees(list', m, x)
        BY <1>6, <3>5 DEF Agrees
      <4>3. history.state = "done" /\ ~Called(m, x) /\ ~Moving(m, x) => Agrees(list', m, x)
        BY <3>1, <4>2 DEF MarkOK
      <4>4. m \notin Ids(list') /\ Announced(m)' /\ ~Moving(m, x) => x \notin truth[m]
        BY <1>3, <1>6, <3>1 DEF MarkOK
      <4>5. /\ history.state = "answered" /\ ~Moving(m, x) => Agrees(history.items, m, x)
            /\ older.state = "answered" /\ ~Moving(m, x) => Agrees(older.items, m, x)
        BY <3>1 DEF MarkOK
      <4> QED
        BY <1>1, <3>2, <3>3, <4>1, <4>3, <4>4, <4>5 DEF MarkOK, Agrees
    <3> QED
      BY <3>4, <3>5
  <2>2. ASSUME NEW i \in DOMAIN list', list'[i].id \in Placeholders \ excused' PROVE list'[i].marks = {}
    BY <1>2, <1>5, <1>6, <1>7, <2>2 DEF MarksOK
  <2> QED
    BY <1>1, <1>2, <2>1, <2>2 DEF MarksOK
<1> QED
  BY <1>8, <1>9, <1>10, <1>11, <1>12, <1>13, <1>14 DEF ListIInv, ListInv

LEMMA HandleEventKeeps == ASSUME ListIInv, HandleEvent PROVE ListIInv'
<1>1. wire # <<>> /\ wire \in Seq(Posts(Messages) \cup Changes \cup Receipts)
  BY DEF HandleEvent, ListIInv, FramesOK
<1>2. Head(wire) \in Posts(Messages) \cup Changes \cup Receipts
  BY <1>1, QueueTail
<1>3. Head(wire).kind \in {"receipt", "message", "mark"}
  BY <1>2 DEF Posts, Changes, Receipts
<1> QED
  BY <1>3, ReceiptKeeps, MessageKeeps, ChangeKeeps

\* The receipts on their way stay as they should be while the list changes.
LEMMA ReceiptsKept ==
    ASSUME ListIInv, UNCHANGED <<wire, owed, pubsub, accepted, overtaken>>, excused \subseteq excused', Sent \subseteq Sent',
           \A p \in Sent : \A s \in Old + 1 .. accepted :
               p \in Ids(list') /\ s \in Ids(list') => p \in Ids(list) /\ s \in Ids(list)
    PROVE  ReceiptsOK'
<1>1. ReceiptsOK
  BY DEF ListIInv
<1>2. (\A i \in DOMAIN wire : wire[i].kind = "receipt" => ReceiptOK(wire[i]))'
  <2> SUFFICES ASSUME NEW i \in DOMAIN wire, wire[i].kind = "receipt"
               PROVE  /\ wire[i].id \in Sent' /\ wire[i].server \in Old + 1 .. accepted
                      /\ wire[i].server \in excused' \/ Posted(pubsub, wire[i].server) \/ Posted(wire, wire[i].server)
                      /\ wire[i].server \in overtaken => wire[i].server \in excused'
                      /\ wire[i].id \in Ids(list') => wire[i].server \in overtaken \/ wire[i].server \notin Ids(list')
    BY DEF ReceiptOK, Announced, Sent, Ids
  <2>1. ReceiptOK(wire[i])
    BY <1>1 DEF ReceiptsOK
  <2> QED
    BY <2>1 DEF ReceiptOK, Announced
<1>3. ASSUME NEW r \in owed PROVE ReceiptOK(r)'
  <2>1. ReceiptOK(r)
    BY <1>1 DEF ReceiptsOK
  <2>2. /\ r.id \in Sent' /\ r.server \in Old + 1 .. accepted
        /\ r.server \in excused' \/ Announced(r.server)
        /\ r.server \in overtaken => r.server \in excused'
        /\ r.id \in Ids(list') => r.server \in overtaken \/ r.server \notin Ids(list')
    BY <2>1 DEF ReceiptOK
  <2> QED
    BY <2>2 DEF ReceiptOK, Announced, Sent, Ids
<1> QED
  BY <1>1, <1>2, <1>3 DEF ReceiptsOK

\* The answer to the history request replaces the list.
LEMMA HistoryKeeps == ASSUME ListIInv, NEW ok \in BOOLEAN, History(ok) PROVE ListIInv'
<1> PICK r : r = IF ok THEN history.items ELSE <<>>
  OBVIOUS
<1>1. /\ history.state = "answered" /\ list' = r
      /\ cursor' = IF ok THEN NextCursor(r) ELSE 0
      /\ history' = [state |-> IF ok THEN "done" ELSE "failed", items |-> <<>>]
      /\ excused' = excused \cup ((Ids(list) \cup Ids(history.items)) \ Ids(list'))
      /\ UNCHANGED <<accepted, stored, truth, mine, pubsub, owed, wire, up, older, sends, calls, theirs, overtaken>>
  BY DEF History, services, NoRequest
<1>2. ListTypeOK /\ ShownOnce /\ FramesOK /\ ReceiptsOK /\ PagesOK /\ Everywhere /\ CallsOK /\ MarksOK
  BY DEF ListIInv, ListInv
<1>3. /\ r \in Seq(Entries) /\ DOMAIN r = 1 .. Len(r) /\ Len(r) \in Nat /\ \A i \in DOMAIN r : r[i] \in Entries
  <2>1. history.items \in Seq(Entries) /\ <<>> \in Seq(Entries)
    BY <1>2, EmptySeq DEF ListTypeOK, Request
  <2>2. r \in Seq(Entries)
    BY <2>1
  <2> QED
    BY <2>2, LenProperties, ElementOfSeq
<1>4. /\ \A i \in DOMAIN r : r[i].id = r[1].id + i - 1 /\ r[i].id \in 1 .. accepted
      /\ DOMAIN r # {} => 1 \in DOMAIN r /\ r[1].id \in 1 .. accepted
  <2>1. Consecutive(r)
    <3>1. CASE ok
      BY <1>1, <1>2, <3>1 DEF PagesOK
    <3>2. CASE ~ok
      BY <3>2, EmptySeq DEF Consecutive
    <3> QED
      BY <3>1, <3>2
  <2> QED
    BY <1>3, <2>1 DEF Consecutive
<1>5. ShownOnce'
  <2> SUFFICES ASSUME NEW i \in DOMAIN r, NEW j \in DOMAIN r, r[i].id = r[j].id PROVE i = j
    BY <1>1 DEF ShownOnce
  <2> PICK a : a = r[1].id
    OBVIOUS
  <2>1. i \in Nat /\ j \in Nat /\ DOMAIN r # {}
    BY <1>3
  <2>2. \A k \in DOMAIN r : r[k].id = a + k - 1
    BY <1>4
  <2>3. r[i].id = a + i - 1
    BY <2>2
  <2>4. r[j].id = a + j - 1
    BY <2>2
  <2>5. a \in Nat
    BY <1>4, <2>1, ListTypes
  <2> QED
    BY <2>1, <2>3, <2>4, <2>5
<1>6. /\ excused \subseteq excused' /\ excused' \subseteq AllIds
      /\ \A m : m \in Ids(list) \cup Ids(history.items) => m \in excused' \/ m \in Ids(list')
  <2>1. Ids(list) \subseteq AllIds
    BY ListTypes DEF Ids, Entries
  <2>2. Ids(history.items) \subseteq AllIds
    <3>1. history.items \in Seq(Entries)
      BY <1>2 DEF ListTypeOK, Request
    <3>2. \A i \in DOMAIN history.items : history.items[i] \in Entries
      BY <3>1, LenProperties, ElementOfSeq
    <3> QED
      BY <3>2 DEF Ids, Entries
  <2> QED
    BY <1>1, <2>1, <2>2, ListTypes
<1>7. /\ cursor' \in 0 .. MaxMessages
      /\ cursor' # 0 => /\ ok /\ r # <<>> /\ 1 \in DOMAIN r /\ cursor' = r[1].id /\ cursor' # 1 /\ cursor' <= Old + 1
  <2>1. ok => NextCursor(r) <= Old + 1
    BY <1>1, <1>2 DEF PagesOK
  <2>2. CASE r = <<>> \/ ~ok
    BY <1>1, <2>2, ListTypes DEF NextCursor
  <2>3. CASE r # <<>> /\ ok
    <3>1. 1 \in DOMAIN r
      BY <1>3, <2>3, EmptySeq
    <3>2. r[1].id \in 1 .. accepted
      BY <1>4, <3>1
    <3> QED
      BY <1>1, <2>1, <2>3, <3>1, <3>2, ListTypes DEF NextCursor
  <2> QED
    BY <2>2, <2>3
<1>8. ListTypeOK'
  <2>1. history' \in Request
    BY <1>1, EmptySeq DEF Request
  <2> QED
    BY <1>1, <1>2, <1>3, <1>6, <1>7, <2>1 DEF ListTypeOK
<1>9. FramesOK'
  BY <1>1, <1>2 DEF FramesOK, Announced, Sent
<1>10. ReceiptsOK'
  <2>1. \A m \in Ids(list') : m \notin Sent
    BY <1>1, <1>4, ListNumbers DEF Sent, Ids
  <2>2. Sent \subseteq Sent'
    BY <1>1 DEF Sent
  <2> QED
    BY <1>1, <1>6, <2>1, <2>2, ReceiptsKept
<1>11. PagesOK'
  <2>1. \A i \in DOMAIN list' : list'[i].id \in 1 .. accepted \cup Sent
    BY <1>1, <1>4
  <2>2. older.state = "idle"
    BY <1>1, <1>2 DEF PagesOK
  <2>3. cursor' # 0 =>
          /\ 1 < cursor' /\ cursor' <= Old + 1 /\ cursor' \in Ids(list')
          /\ \A i \in DOMAIN list' : cursor' <= list'[i].id
    <3> SUFFICES ASSUME cursor' # 0
                 PROVE  /\ 1 < cursor' /\ cursor' <= Old + 1 /\ cursor' \in Ids(list')
                        /\ \A i \in DOMAIN list' : cursor' <= list'[i].id
      OBVIOUS
    <3> PICK a : a = r[1].id
      OBVIOUS
    <3>1. cursor' = a /\ a # 1 /\ a <= Old + 1 /\ 1 \in DOMAIN r /\ a \in 1 .. accepted
      BY <1>4, <1>7
    <3>2. a \in Nat /\ 1 < a
      BY <3>1, ListTypes
    <3>3. ASSUME NEW i \in DOMAIN r PROVE a <= r[i].id
      <4>1. r[i].id = a + i - 1
        BY <1>4
      <4>2. i \in Nat /\ 1 <= i
        BY <1>3
      <4> QED
        BY <3>2, <4>1, <4>2
    <3> QED
      BY <1>1, <3>1, <3>2, <3>3 DEF Ids
  <2>4. history'.state = (IF ok THEN "done" ELSE "failed") /\ (~ok => cursor' = 0)
    BY <1>1
  <2> QED
    BY <1>1, <2>1, <2>2, <2>3, <2>4 DEF PagesOK, Sent
<1>12. Everywhere'
  <2>1. \A m \in Old + 1 .. accepted : Covered(m)'
    BY <1>1, <1>2, <1>6 DEF Everywhere, Covered, Announced
  <2>2. history'.state = "done" => \A m \in 1 .. Old : cursor' <= m => m \in Ids(list')
    BY <1>1, <1>2 DEF PagesOK
  <2> QED
    BY <1>1, <2>1, <2>2 DEF Everywhere, Announced
<1>13. CallsOK'
  <2>1. \A k \in Calls : Active(k) => calls[k].id \in excused
    BY <1>1, <1>2 DEF CallsOK, CallOK, Undisturbed
  <2> QED
    BY <1>1, <1>2, <1>6, <2>1 DEF CallsOK, CallOK, Active
<1>14. MarksOK'
  <2>1. ASSUME NEW m \in Messages \ excused', NEW x \in Marks
        PROVE  MarkOK(m, x)'
    <3>1. MarkOK(m, x)
      BY <1>2, <1>6, <2>1 DEF MarksOK
    <3>2. LastSays(m, x, truth[m])'
      BY <1>1, <3>1 DEF MarkOK, LastSays
    <3>3. (Announced(m)' <=> Announced(m)) /\ (Moving(m, x)' <=> Moving(m, x))
      BY <1>1 DEF Announced, Moving
    <3>4. m \notin Ids(list') /\ Announced(m) /\ ~Moving(m, x) => x \notin truth[m]
      BY <1>6, <2>1, <3>1 DEF MarkOK
    <3>5. ~Moving(m, x) => Agrees(r, m, x)
      <4>1. CASE ok
        BY <1>1, <3>1, <4>1 DEF MarkOK
      <4>2. CASE ~ok
        BY <4>2, EmptySeq DEF Agrees
      <4> QED
        BY <4>1, <4>2
    <3>6. history'.state # "answered" /\ older.state # "answered"
      BY <1>1, <1>2 DEF PagesOK
    <3> QED
      BY <1>1, <3>2, <3>3, <3>4, <3>5, <3>6 DEF MarkOK, Agrees
  <2>2. \A i \in DOMAIN list' : list'[i].id \notin Placeholders
    BY <1>1, <1>4, ListTypes DEF Placeholders
  <2> QED
    BY <1>1, <1>2, <2>1, <2>2 DEF MarksOK
<1> QED
  BY <1>5, <1>8, <1>9, <1>10, <1>11, <1>12, <1>13, <1>14 DEF ListIInv, ListInv

\* What the list is when the older page is put before it.
LEMMA PageBefore ==
    ASSUME ListIInv, OlderLoaded, NEW n, n = Len(older.items)
    PROVE  /\ list' \in Seq(Entries) /\ n \in Nat /\ Len(list') = n + Len(list)
           /\ \A i \in 1 .. n : i \in DOMAIN list' /\ list'[i] = older.items[i]
           /\ \A i \in DOMAIN list : n + i \in DOMAIN list' /\ list'[n + i] = list[i]
           /\ \A i \in DOMAIN list' : i \in Nat /\ (i \in 1 .. n \/ (i - n \in DOMAIN list /\ i = n + (i - n)))
<1> PICK r : r = older.items
  OBVIOUS
<1>1. r \in Seq(Entries) /\ DOMAIN r = 1 .. n /\ n \in Nat
  BY OlderIsOlder DEF OlderLoaded
<1>2. list' = r \o list
  BY DEF OlderLoaded
<1> PICK l : l = list
  OBVIOUS
<1>3. l \in Seq(Entries) /\ DOMAIN l = 1 .. Len(l) /\ Len(l) \in Nat
  BY ListTypes
<1> PICK q : q = r \o l
  OBVIOUS
<1>4. /\ q \in Seq(Entries) /\ Len(q) = n + Len(l)
      /\ \A i \in 1 .. n + Len(l) : q[i] = IF i <= n THEN r[i] ELSE l[i - n]
  BY <1>1, <1>3, ConcatProperties
<1>5. DOMAIN q = 1 .. n + Len(l)
  BY <1>4, LenProperties
<1>6. \A i \in 1 .. n : i \in DOMAIN q /\ q[i] = r[i]
  BY <1>1, <1>3, <1>4, <1>5
<1>7. ASSUME NEW i \in DOMAIN l PROVE n + i \in DOMAIN q /\ q[n + i] = l[i]
  <2>1. i \in Nat /\ n + i \in 1 .. n + Len(l) /\ ~(n + i <= n) /\ n + i - n = i
    BY <1>1, <1>3
  <2>2. q[n + i] = l[n + i - n]
    BY <1>4, <2>1
  <2> QED
    BY <1>5, <2>1, <2>2
<1>8. ASSUME NEW i \in DOMAIN q PROVE i \in Nat /\ (i \in 1 .. n \/ (i - n \in DOMAIN l /\ i = n + (i - n)))
  BY <1>1, <1>3, <1>5
<1> QED
  BY <1>1, <1>2, <1>4, <1>6, <1>7, <1>8

\* The older page is put before the list.
LEMMA OlderLoadedKeeps == ASSUME ListIInv, OlderLoaded PROVE ListIInv'
<1> PICK r : r = older.items
  OBVIOUS
<1> PICK n : n = Len(older.items)
  OBVIOUS
<1>1. /\ older.state = "answered" /\ older' = [state |-> "idle", items |-> <<>>]
      /\ cursor' = NextCursor(r)
      /\ UNCHANGED <<accepted, stored, truth, mine, pubsub, owed, wire, up, history, sends, calls, theirs, overtaken, excused>>
  BY DEF OlderLoaded, services, NoRequest
<1>2. ListTypeOK /\ ShownOnce /\ FramesOK /\ ReceiptsOK /\ PagesOK /\ Everywhere /\ CallsOK /\ MarksOK
  BY DEF ListIInv, ListInv
<1>3. /\ r \in Seq(Entries) /\ DOMAIN r = 1 .. n /\ n \in Nat /\ n > 0 /\ r # <<>>
      /\ history.state = "done" /\ 1 < cursor /\ cursor <= Old + 1
      /\ r[1].id \in 1 .. accepted /\ r[1].id <= cursor - 1
      /\ \A i \in DOMAIN r : r[i].id = r[1].id + i - 1 /\ r[i].id \in 1 .. accepted /\ r[i].id < cursor
      /\ \A m \in r[1].id .. cursor - 1 : m \in Ids(r)
      /\ \A m : m \in Ids(list) => m \notin Ids(r)
  BY <1>1, OlderIsOlder
<1>4. /\ list' \in Seq(Entries)
      /\ \A i \in DOMAIN r : i \in DOMAIN list' /\ list'[i] = r[i]
      /\ \A i \in DOMAIN list : n + i \in DOMAIN list' /\ list'[n + i] = list[i]
      /\ \A i \in DOMAIN list' : i \in Nat /\ (i \in DOMAIN r \/ (i - n \in DOMAIN list /\ i = n + (i - n)))
  BY <1>3, PageBefore
<1>5. \A i \in DOMAIN list' : (i \in DOMAIN r /\ list'[i] = r[i])
                              \/ (\E j \in DOMAIN list : i = n + j /\ list'[i] = list[j])
  BY <1>4
<1>6. \A m : m \in Ids(list') <=> m \in Ids(r) \/ m \in Ids(list)
  BY <1>4, <1>5 DEF Ids
<1>7. /\ cursor' = (IF r[1].id = 1 THEN 0 ELSE r[1].id) /\ cursor' \in 0 .. MaxMessages
      /\ cursor' <= r[1].id /\ (cursor' # 0 => cursor' = r[1].id /\ 1 < cursor')
  <2>1. cursor' = IF r[1].id = 1 THEN 0 ELSE r[1].id
    BY <1>1, <1>3 DEF NextCursor
  <2>2. r[1].id \in 1 .. accepted
    BY <1>3
  <2>3. accepted \in Nat /\ MaxMessages \in Nat /\ accepted <= MaxMessages
    BY ListTypes
  <2> QED
    BY <2>1, <2>2, <2>3
<1>8. ListTypeOK'
  <2>1. older' \in Request
    BY <1>1, EmptySeq DEF Request
  <2> QED
    BY <1>1, <1>2, <1>4, <1>7, <2>1 DEF ListTypeOK
<1>9. ShownOnce'
  <2> SUFFICES ASSUME NEW i \in DOMAIN list', NEW j \in DOMAIN list', list'[i].id = list'[j].id,
                      list'[i].id \notin overtaken
               PROVE  i = j
    BY <1>1 DEF ShownOnce
  <2>1. CASE i \in DOMAIN r /\ list'[i] = r[i] /\ j \in DOMAIN r /\ list'[j] = r[j]
    <3> PICK a : a = r[1].id
      OBVIOUS
    <3>1. \A k \in DOMAIN r : r[k].id = a + k - 1
      BY <1>3
    <3>2. i \in Nat /\ j \in Nat
      BY <1>3, <2>1
    <3>3. a \in 1 .. accepted /\ accepted \in Nat
      BY <1>3, ListTypes
    <3>4. a \in Nat
      BY <3>3
    <3>5. r[i].id = a + i - 1
      BY <2>1, <3>1
    <3>6. r[j].id = a + j - 1
      BY <2>1, <3>1
    <3> QED
      BY <2>1, <3>2, <3>4, <3>5, <3>6
  <2>2. ASSUME NEW a \in DOMAIN r, NEW b \in DOMAIN list PROVE r[a].id # list[b].id
    <3>1. r[a].id \in Ids(r) /\ list[b].id \in Ids(list)
      BY DEF Ids
    <3> QED
      BY <1>3, <3>1
  <2>3. CASE (\E a \in DOMAIN list : i = n + a /\ list'[i] = list[a]) /\ (\E b \in DOMAIN list : j = n + b /\ list'[j] = list[b])
    BY <1>2, <2>3 DEF ShownOnce
  <2> QED
    BY <1>5, <2>1, <2>2, <2>3
<1>10. FramesOK'
  BY <1>1, <1>2 DEF FramesOK, Announced, Sent
<1>11. ReceiptsOK'
  <2>1. \A m \in Ids(r) : m \in 1 .. accepted /\ m < cursor
    BY <1>3 DEF Ids
  <2>2. ASSUME NEW p \in Sent, NEW s \in Old + 1 .. accepted PROVE p \notin Ids(r) /\ s \notin Ids(r)
    BY <1>3, <2>1, ListNumbers DEF Sent
  <2>3. Sent' = Sent
    BY <1>1 DEF Sent
  <2> QED
    BY <1>1, <1>6, <2>2, <2>3, ReceiptsKept
<1>12. PagesOK'
  <2>1. \A i \in DOMAIN list' : list'[i].id \in 1 .. accepted \cup Sent
    BY <1>2, <1>3, <1>5 DEF PagesOK
  <2>2. cursor' # 0 => cursor' \in Ids(list') /\ cursor' <= Old + 1
    <3>1. 1 \in DOMAIN r
      BY <1>3
    <3>2. r[1].id \in Ids(r)
      BY <3>1 DEF Ids
    <3>3. cursor' # 0 => cursor' = r[1].id
      BY <1>7
    <3>4. cursor' # 0 => cursor' <= Old + 1
      BY <1>3, <1>7, ListNumbers
    <3> QED
      BY <1>6, <3>2, <3>3, <3>4
  <2>3. \A i \in DOMAIN list' : cursor' <= list'[i].id
    <3>1. ASSUME NEW i \in DOMAIN r PROVE cursor' <= r[i].id
      <4> PICK a : a = r[1].id
        OBVIOUS
      <4>1. r[i].id = a + i - 1
        BY <1>3
      <4>2. i \in Nat /\ 1 <= i
        BY <1>3
      <4>3. a \in Nat /\ cursor' \in Nat /\ cursor' <= a
        BY <1>3, <1>7, ListNumbers
      <4> QED
        BY <4>1, <4>2, <4>3
    <3>2. \A i \in DOMAIN list : cursor' <= list[i].id
      <4>1. \A i \in DOMAIN list : cursor <= list[i].id /\ list[i].id \in Nat
        BY <1>2, <1>3, ListTypes DEF PagesOK
      <4>2. cursor' <= cursor /\ cursor' \in Nat /\ cursor \in Nat
        BY <1>3, <1>7, ListTypes
      <4> QED
        BY <4>1, <4>2
    <3> QED
      BY <1>5, <3>1, <3>2
  <2>4. older'.state = "idle" /\ history' = history /\ history.state = "done"
    BY <1>1, <1>3
  <2> QED
    BY <1>1, <1>7, <2>1, <2>2, <2>3, <2>4 DEF PagesOK, Sent
<1>13. Everywhere'
  <2>1. \A m \in Old + 1 .. accepted : Covered(m)'
    BY <1>1, <1>2, <1>6 DEF Everywhere, Covered, Announced
  <2>2. ASSUME NEW m \in 1 .. Old, cursor' <= m PROVE m \in Ids(list')
    <3>1. CASE cursor <= m
      BY <1>2, <1>3, <1>6, <3>1 DEF Everywhere
    <3>2. CASE ~(cursor <= m)
      <4>1. m \in r[1].id .. cursor - 1
        BY <1>3, <1>7, <2>2, <3>2, ListNumbers
      <4> QED
        BY <1>3, <1>6, <4>1
    <3> QED
      BY <3>1, <3>2
  <2> QED
    BY <1>1, <2>1, <2>2 DEF Everywhere, Announced
<1>14. CallsOK'
  <2> SUFFICES ASSUME NEW k \in Calls, Active(k) PROVE CallOK(k)'
    BY <1>1 DEF CallsOK, Active
  <2>1. CallOK(k)
    BY <1>2 DEF CallsOK
  <2>2. ASSUME Undisturbed(k)
        PROVE  Undisturbed(k)'
    <3>1. calls[k].id \in Ids(list') /\ calls[k].id \notin Ids(r)
      BY <1>3, <1>6, <2>2 DEF Undisturbed
    <3>2. ~Moving(calls[k].id, calls[k].mark)'
      BY <1>1, <2>2 DEF Undisturbed, Moving
    <3>3. \A i \in DOMAIN list' : list'[i].id = calls[k].id => (calls[k].mark \in list'[i].marks <=> calls[k].on)
      BY <1>5, <2>2, <3>1 DEF Undisturbed, Ids
    <3> QED
      BY <1>1, <2>2, <3>1, <3>2, <3>3 DEF Undisturbed, Active, Moving
  <2> QED
    BY <1>1, <2>1, <2>2 DEF CallOK
<1>15. MarksOK'
  <2>1. ASSUME NEW m \in Messages \ excused, NEW x \in Marks
        PROVE  MarkOK(m, x)'
    <3>1. MarkOK(m, x)
      BY <1>2, <2>1 DEF MarksOK
    <3>2. LastSays(m, x, truth[m])'
      BY <1>1, <3>1 DEF MarkOK, LastSays
    <3>3. (Announced(m)' <=> Announced(m)) /\ (Moving(m, x)' <=> Moving(m, x)) /\ (Called(m, x)' <=> Called(m, x))
      BY <1>1 DEF Announced, Moving, Called, Active
    <3>4. m \notin Ids(list') /\ Announced(m) /\ ~Moving(m, x) => x \notin truth[m]
      BY <1>6, <3>1 DEF MarkOK
    <3>5. ~Moving(m, x) => Agrees(r, m, x)
      BY <1>1, <3>1 DEF MarkOK
    <3>6. ~Moving(m, x) /\ ~Called(m, x) => Agrees(list', m, x)
      <4>1. ~Moving(m, x) /\ ~Called(m, x) => Agrees(list, m, x)
        BY <1>3, <3>1 DEF MarkOK
      <4> QED
        BY <1>5, <3>5, <4>1 DEF Agrees
    <3>7. history'.state # "answered" /\ older'.state # "answered"
      BY <1>1, <1>3
    <3> QED
      BY <1>1, <3>2, <3>3, <3>4, <3>6, <3>7 DEF MarkOK, Agrees
  <2>2. ASSUME NEW i \in DOMAIN list', list'[i].id \in Placeholders \ excused PROVE list'[i].marks = {}
    <3>1. ASSUME NEW j \in DOMAIN r PROVE r[j].id \notin Placeholders
      <4>1. r[j].id \in 1 .. accepted
        BY <1>3
      <4> QED
        BY <4>1, ListTypes DEF Placeholders
    <3> QED
      BY <1>2, <1>5, <2>2, <3>1 DEF MarksOK
  <2> QED
    BY <1>1, <1>2, <2>1, <2>2 DEF MarksOK
<1> QED
  BY <1>8, <1>9, <1>10, <1>11, <1>12, <1>13, <1>14, <1>15 DEF ListIInv, ListInv

\* The user's message is shown at once, under a number no frame has named.
LEMMA SendKeeps == ASSUME ListIInv, NEW open \in BOOLEAN, Send(open) PROVE ListIInv'
<1> PICK n : n = MaxMessages + sends + 1
  OBVIOUS
<1> PICK e : e = Entry(n, {}, FALSE)
  OBVIOUS
<1> PICK f : f = [kind |-> "message", id |-> n]
  OBVIOUS
<1>1. /\ sends < MaxSends /\ sends' = sends + 1 /\ list' = Append(list, e)
      /\ up' = IF open THEN Append(up, f) ELSE up
      /\ UNCHANGED <<accepted, stored, truth, mine, pubsub, owed, wire, cursor, history, older, calls, theirs, overtaken, excused>>
  BY DEF Send, services
<1>2. ListTypeOK /\ ShownOnce /\ FramesOK /\ ReceiptsOK /\ PagesOK /\ Everywhere /\ CallsOK /\ MarksOK
  BY DEF ListIInv, ListInv
<1>3. /\ n \in Placeholders /\ n \in AllIds /\ n \in Nat /\ n \notin Sent /\ n \in Sent' /\ Sent \subseteq Sent'
      /\ n \notin Messages /\ n \notin 1 .. accepted /\ cursor < n /\ sends' \in 0 .. MaxSends
  <2>1. /\ sends \in Nat /\ MaxSends \in Nat /\ MaxMessages \in Nat /\ accepted \in Nat /\ Old \in Nat
        /\ accepted <= MaxMessages /\ Old <= accepted /\ cursor \in Nat /\ sends < MaxSends /\ sends' = sends + 1
    BY <1>1, ListTypes
  <2>2. n \in Nat /\ MaxMessages < n /\ n = MaxMessages + sends + 1
    BY <2>1
  <2>3. n \in MaxMessages + 1 .. MaxMessages + MaxSends /\ n \in MaxMessages + 1 .. MaxMessages + sends'
    BY <2>1, <2>2
  <2>4. n \notin MaxMessages + 1 .. MaxMessages + sends
    BY <2>1, <2>2
  <2>5. Sent \subseteq Sent'
    BY <2>1 DEF Sent
  <2>6. n \notin Messages /\ n \notin 1 .. accepted /\ sends' \in 0 .. MaxSends
    BY <2>1, <2>2 DEF Messages
  <2>7. cursor <= MaxMessages
    BY <1>2, <2>1 DEF ListTypeOK
  <2>8. cursor < n
    BY <2>1, <2>2, <2>7
  <2>9. n \in Placeholders /\ n \in AllIds /\ n \notin Sent /\ n \in Sent'
    BY <2>3, <2>4 DEF Placeholders, AllIds, Sent
  <2> QED
    BY <2>2, <2>5, <2>6, <2>8, <2>9
<1>4. e \in Entries /\ e.id = n /\ e.marks = {} /\ f \in Posts(Placeholders) \cup Changes /\ f.kind = "message" /\ f.id = n
  BY <1>3 DEF Entry, Entries, Posts
<1>5. /\ list' \in Seq(Entries)
      /\ \A i \in DOMAIN list : i \in DOMAIN list' /\ list'[i] = list[i]
      /\ Len(list) + 1 \in DOMAIN list' /\ list'[Len(list) + 1] = e
      /\ \A i \in DOMAIN list' : i \in DOMAIN list \/ i = Len(list) + 1
  <2>1. list \in Seq(Entries)
    BY ListTypes
  <2>2. list' = Append(list, e) /\ e \in Entries
    BY <1>1, <1>4
  <2>3. list' \in Seq(Entries)
    BY <2>1, <2>2, EntryAppended
  <2>4. \A i \in DOMAIN list : i \in DOMAIN list' /\ list'[i] = list[i]
    <3>1. \A i \in DOMAIN list : i \in DOMAIN Append(list, e) /\ Append(list, e)[i] = list[i]
      BY <2>1, <2>2, EntryAppended
    <3> QED
      BY <2>2, <3>1
  <2>5. Len(list) + 1 \in DOMAIN list' /\ list'[Len(list) + 1] = e
    BY <2>1, <2>2, EntryAppended
  <2>6. \A i \in DOMAIN list' : i \in DOMAIN list \/ i = Len(list) + 1
    BY <2>1, <2>2, EntryAppended
  <2> QED
    BY <2>3, <2>4, <2>5, <2>6
<1>6. \A m : m \in Ids(list') <=> m \in Ids(list) \/ m = n
  BY <1>4, <1>5 DEF Ids
<1>7. n \notin Ids(list)
  BY <1>2, <1>3 DEF PagesOK, Ids
<1>8. \A i \in DOMAIN list' : (i \in DOMAIN list /\ list'[i] = list[i]) \/ (i = Len(list) + 1 /\ list'[i] = e)
  BY <1>5
<1>9. /\ up' \in Seq(Posts(Placeholders) \cup Changes)
      /\ \A m, x : Has(up', m, x) <=> Has(up, m, x)
      /\ \A m, x, s : EndsWith(up', m, x, s) <=> EndsWith(up, m, x, s)
      /\ \A i \in DOMAIN up' : (i \in DOMAIN up /\ up'[i] = up[i]) \/ up'[i] = f
  <2>1. CASE ~open
    BY <1>1, <1>2, <2>1 DEF FramesOK
  <2>2. CASE open
    <3>1. up' = Append(up, f)
      BY <1>1, <2>2
    <3>2. \A m, x : ~IsChange(f, m, x)
      BY <1>4 DEF IsChange
    <3>3. up \in Seq(Posts(Placeholders) \cup Changes)
      BY <1>2 DEF FramesOK
    <3>4. /\ up' \in Seq(Posts(Placeholders) \cup Changes)
          /\ \A m, x : Has(up', m, x) <=> Has(up, m, x)
          /\ \A m, x, s : EndsWith(up', m, x, s) <=> EndsWith(up, m, x, s)
      BY <1>4, <3>1, <3>2, <3>3, QueueAppend
    <3>5. \A i \in DOMAIN up' : (i \in DOMAIN up /\ up'[i] = up[i]) \/ up'[i] = f
      <4>1. /\ DOMAIN up' = 1 .. Len(up) + 1 /\ DOMAIN up = 1 .. Len(up) /\ Len(up) \in Nat
            /\ \A i \in DOMAIN up' : up'[i] = IF i = Len(up) + 1 THEN f ELSE up[i]
        BY <1>4, <3>1, <3>3, QueueAppend
      <4> QED
        BY <4>1
    <3> QED
      BY <3>4, <3>5
  <2> QED
    BY <2>1, <2>2
<1>10. /\ \A m, x : Moving(m, x)' <=> Moving(m, x)
       /\ \A m, x, s : LastSays(m, x, s) => LastSays(m, x, s)'
       /\ \A m : Announced(m)' <=> Announced(m)
  BY <1>1, <1>9 DEF Moving, LastSays, Announced
<1>11. ListTypeOK'
  BY <1>1, <1>2, <1>3, <1>5 DEF ListTypeOK
<1>12. ShownOnce'
  <2> SUFFICES ASSUME NEW i \in DOMAIN list', NEW j \in DOMAIN list', list'[i].id = list'[j].id,
                      list'[i].id \notin overtaken
               PROVE  i = j
    BY <1>1 DEF ShownOnce
  <2>1. \A k \in DOMAIN list : list[k].id # n
    BY <1>7 DEF Ids
  <2>2. CASE i \in DOMAIN list /\ list'[i] = list[i] /\ j \in DOMAIN list /\ list'[j] = list[j]
    BY <1>2, <2>2 DEF ShownOnce
  <2>3. CASE list'[i] = e /\ i = Len(list) + 1
    BY <1>4, <1>8, <2>1, <2>3
  <2>4. CASE list'[j] = e /\ j = Len(list) + 1
    BY <1>4, <1>8, <2>1, <2>4
  <2> QED
    BY <1>8, <2>2, <2>3, <2>4
<1>13. FramesOK'
  <2>1. \A i \in DOMAIN up' : up'[i].kind = "message" => up'[i].id \in Sent'
    BY <1>2, <1>3, <1>4, <1>9 DEF FramesOK
  <2> QED
    BY <1>1, <1>2, <1>9, <1>10, <2>1 DEF FramesOK
<1>14. ReceiptsOK'
  <2>1. \A s \in Old + 1 .. accepted : s \in 1 .. accepted
    BY ListNumbers
  <2>2. ASSUME NEW p \in Sent, NEW s \in Old + 1 .. accepted PROVE p # n /\ s # n
    BY <1>3, <2>1
  <2> QED
    BY <1>1, <1>3, <1>6, <2>2, ReceiptsKept
<1>15. PagesOK'
  <2>1. \A i \in DOMAIN list' : list'[i].id \in 1 .. accepted \cup Sent'
    BY <1>2, <1>3, <1>4, <1>8 DEF PagesOK
  <2>2. cursor # 0 => cursor \in Ids(list') /\ \A i \in DOMAIN list' : cursor <= list'[i].id
    <3>1. cursor <= n
      BY <1>3, ListTypes
    <3> QED
      BY <1>2, <1>4, <1>6, <1>8, <3>1 DEF PagesOK
  <2>3. UNCHANGED <<history, older, cursor, accepted>>
    BY <1>1
  <2>4. \A q : Consecutive(q)' <=> Consecutive(q)
    BY <2>3 DEF Consecutive
  <2> QED
    BY <1>2, <2>1, <2>2, <2>3, <2>4 DEF PagesOK, Ids, NextCursor
<1>16. Everywhere'
  <2>1. \A m \in Old + 1 .. accepted : Covered(m)'
    BY <1>1, <1>2, <1>6, <1>10 DEF Everywhere, Covered
  <2> QED
    BY <1>1, <1>2, <1>6, <2>1 DEF Everywhere
<1>17. CallsOK'
  <2> SUFFICES ASSUME NEW k \in Calls, Active(k) PROVE CallOK(k)'
    BY <1>1 DEF CallsOK, Active
  <2>1. CallOK(k)
    BY <1>2 DEF CallsOK
  <2>2. ASSUME Undisturbed(k)
        PROVE  Undisturbed(k)'
    <3>1. calls[k].id \in Ids(list') /\ calls[k].id # n
      BY <1>6, <1>7, <2>2 DEF Undisturbed
    <3>2. ~Moving(calls[k].id, calls[k].mark)'
      BY <1>1, <1>10, <2>2 DEF Undisturbed
    <3>3. \A i \in DOMAIN list' : list'[i].id = calls[k].id => (calls[k].mark \in list'[i].marks <=> calls[k].on)
      BY <1>4, <1>8, <2>2, <3>1 DEF Undisturbed
    <3> QED
      BY <1>1, <2>2, <3>1, <3>2, <3>3 DEF Undisturbed, Active, Moving
  <2> QED
    BY <1>1, <2>1, <2>2 DEF CallOK
<1>18. MarksOK'
  <2>1. ASSUME NEW m \in Messages \ excused, NEW x \in Marks
        PROVE  MarkOK(m, x)'
    <3>1. MarkOK(m, x) /\ m # n
      BY <1>2, <1>3, <2>1 DEF MarksOK
    <3>2. LastSays(m, x, truth[m])'
      BY <1>1, <1>10, <3>1 DEF MarkOK
    <3>3. Called(m, x)' <=> Called(m, x)
      BY <1>1 DEF Called, Active
    <3>4. Agrees(list, m, x) => Agrees(list', m, x)
      BY <1>4, <1>8, <3>1 DEF Agrees
    <3>5. m \notin Ids(list') /\ Announced(m)' /\ ~Moving(m, x)' => x \notin truth[m]
      BY <1>6, <1>10, <3>1 DEF MarkOK
    <3>6. /\ history.state = "done" /\ ~Called(m, x) /\ ~Moving(m, x) => Agrees(list', m, x)
          /\ history.state = "answered" /\ ~Moving(m, x) => Agrees(history.items, m, x)
          /\ older.state = "answered" /\ ~Moving(m, x) => Agrees(older.items, m, x)
      BY <3>1, <3>4 DEF MarkOK
    <3> QED
      BY <1>1, <1>10, <3>2, <3>3, <3>5, <3>6 DEF MarkOK, Agrees
  <2>2. ASSUME NEW i \in DOMAIN list', list'[i].id \in Placeholders \ excused PROVE list'[i].marks = {}
    BY <1>2, <1>4, <1>8, <2>2 DEF MarksOK
  <2>3. \A i \in DOMAIN up' : up'[i].kind = "mark" =>
          up'[i].mark \in {"edited", "mine"} \/ (up'[i].mark = "deleted" /\ up'[i].id \in mine)
    BY <1>2, <1>4, <1>9 DEF MarksOK
  <2> QED
    BY <1>1, <1>2, <2>1, <2>2, <2>3 DEF MarksOK
<1> QED
  BY <1>11, <1>12, <1>13, <1>14, <1>15, <1>16, <1>17, <1>18 DEF ListIInv, ListInv

\* What setting mark y of entry n leaves alone.
LEMMA MarkingKeeps ==
    ASSUME ListIInv, NEW n \in AllIds, NEW y \in Marks, NEW on, NEW r, r = Marked(list, n, y, on), list' = r,
           UNCHANGED <<accepted, stored, truth, mine, pubsub, owed, wire, up, cursor, history, older, sends, theirs, overtaken>>,
           calls' \in [Calls -> CallRecord], excused \subseteq excused', excused' \subseteq AllIds
    PROVE  /\ ListTypeOK' /\ ShownOnce' /\ FramesOK' /\ ReceiptsOK' /\ PagesOK' /\ Everywhere'
           /\ DOMAIN list' = DOMAIN list /\ Ids(list') = Ids(list)
           /\ \A i \in DOMAIN list : list'[i].id = list[i].id
           /\ \A i \in DOMAIN list : list[i].id = n => (y \in list'[i].marks <=> on)
           /\ \A i \in DOMAIN list : \A x :
                list[i].id # n \/ x # y => (x \in list'[i].marks <=> x \in list[i].marks)
<1>1. ListTypeOK /\ ShownOnce /\ FramesOK /\ ReceiptsOK /\ PagesOK /\ Everywhere
  BY DEF ListIInv, ListInv
<1>2. list \in Seq(Entries) /\ \A i \in DOMAIN list : list[i] \in Entries
  BY ListTypes
<1>3. r \in Seq(Entries) /\ DOMAIN r = DOMAIN list /\ Len(r) = Len(list) /\ Ids(r) = Ids(list)
  BY <1>2, MarkedList
<1>4. ASSUME NEW i \in DOMAIN list
      PROVE  /\ r[i].id = list[i].id
             /\ list[i].id = n => (y \in r[i].marks <=> on)
             /\ \A x : list[i].id # n \/ x # y => (x \in r[i].marks <=> x \in list[i].marks)
  BY <1>2, MarkedEntry
<1>5. \A i \in DOMAIN list : list'[i].id = list[i].id
  BY <1>4
<1>6. \A i \in DOMAIN list : list[i].id = n => (y \in list'[i].marks <=> on)
  BY <1>4
<1>7. \A i \in DOMAIN list : \A x : list[i].id # n \/ x # y => (x \in list'[i].marks <=> x \in list[i].marks)
  BY <1>4
<1>8. ListTypeOK'
  <2>1. \A k \in Calls : calls'[k].state \in {"none", "sent", "ok", "failed", "over"}
    BY DEF CallRecord
  <2> QED
    BY <1>1, <1>3, <2>1 DEF ListTypeOK
<1>9. ShownOnce'
  BY <1>1, <1>3, <1>5 DEF ShownOnce
<1>10. FramesOK'
  BY <1>1 DEF FramesOK, Announced, Sent
<1>11. ReceiptsOK'
  <2>1. Ids(list') = Ids(list)
    BY <1>3
  <2>2. Sent' = Sent
    BY DEF Sent
  <2> QED
    BY <2>1, <2>2, ReceiptsKept
<1>12. PagesOK'
  <2>1. /\ \A i \in DOMAIN list' : list'[i].id \in 1 .. accepted \cup Sent
        /\ cursor # 0 => cursor \in Ids(list') /\ \A i \in DOMAIN list' : cursor <= list'[i].id
    BY <1>1, <1>3, <1>5 DEF PagesOK
  <2> QED
    BY <1>1, <2>1 DEF PagesOK, Consecutive, Sent, Ids, NextCursor
<1>13. Everywhere'
  <2>1. \A m \in Old + 1 .. accepted : Covered(m)'
    BY <1>1, <1>3 DEF Everywhere, Covered, Announced
  <2>2. history.state = "done" => \A m \in 1 .. Old : cursor <= m => m \in Ids(list')
    BY <1>1, <1>3 DEF Everywhere
  <2> QED
    BY <2>1, <2>2 DEF Everywhere, Announced
<1> QED
  BY <1>3, <1>5, <1>6, <1>7, <1>8, <1>9, <1>10, <1>11, <1>12, <1>13

\* Where a mark is not changing nothing that could change it is on its way.
LEMMA NothingChanging ==
    ASSUME ListIInv, NEW id, NEW mark, ~Changing(id, mark)
    PROVE  ~Moving(id, mark) /\ \A k \in Calls : Active(k) => calls[k].id # id \/ calls[k].mark # mark
<1>1. \A f \in ToSet(up \o pubsub \o wire) : ~IsChange(f, id, mark)
  BY DEF Changing, IsChange
<1>2. ~Moving(id, mark)
  BY <1>1, FramesOnTheWay DEF Moving, Has
<1>3. \A k \in Calls : Active(k) => calls[k].id # id \/ calls[k].mark # mark
  BY DEF Changing, Active
<1> QED
  BY <1>2, <1>3

\* A call is shown before it is made.
LEMMA CallKeeps ==
    ASSUME ListIInv, NEW k \in Calls, NEW n \in Messages \cup Placeholders, NEW on \in BOOLEAN,
           NEW y \in Marks \ {"theirs"}, Call(k, n, y, on)
    PROVE  ListIInv'
<1> PICK c : c = [state |-> "sent", id |-> n, mark |-> y, on |-> on]
  OBVIOUS
<1> PICK r : r = Marked(list, n, y, on)
  OBVIOUS
<1>1. /\ calls[k].state = "none"
      /\ \E i \in DOMAIN list : list[i].id = n /\ (on <=> y \notin list[i].marks)
      /\ y \in {"deleted", "edited"} => n \in mine \cup Placeholders
      /\ list' = r /\ calls' = [calls EXCEPT ![k] = c]
      /\ excused' = IF Changing(n, y) \/ history.state # "done" \/ n \in Placeholders
                    THEN excused \cup {n} ELSE excused
      /\ UNCHANGED <<accepted, stored, truth, mine, pubsub, owed, wire, up, cursor, history, older, sends, theirs, overtaken>>
  BY DEF Call, services
<1>2. ListTypeOK /\ ShownOnce /\ PagesOK /\ CallsOK /\ MarksOK
  BY DEF ListIInv, ListInv
<1>3. y \in Marks /\ y # "theirs" /\ n \in AllIds
  BY DEF AllIds
<1>4. c \in CallRecord /\ c.state = "sent" /\ c.id = n /\ c.mark = y /\ c.on = on
  BY <1>3 DEF CallRecord
<1>5. /\ calls' \in [Calls -> CallRecord] /\ calls'[k] = c
      /\ \A j \in Calls : j # k => calls'[j] = calls[j]
  BY <1>1, <1>4, ListTypes
<1>6. ~Active(k) /\ Active(k)' /\ \A j \in Calls : j # k => (Active(j)' <=> Active(j))
  BY <1>1, <1>4, <1>5 DEF Active
<1>7. /\ excused \subseteq excused' /\ excused' \subseteq AllIds
      /\ n \notin excused' => ~Changing(n, y) /\ history.state = "done" /\ n \notin Placeholders /\ n \notin excused
  BY <1>1, <1>3, ListTypes
<1>8. /\ ListTypeOK' /\ ShownOnce' /\ FramesOK' /\ ReceiptsOK' /\ PagesOK' /\ Everywhere'
      /\ DOMAIN list' = DOMAIN list /\ Ids(list') = Ids(list)
      /\ \A i \in DOMAIN list : list'[i].id = list[i].id
      /\ \A i \in DOMAIN list : list[i].id = n => (y \in list'[i].marks <=> on)
      /\ \A i \in DOMAIN list : \A x :
           list[i].id # n \/ x # y => (x \in list'[i].marks <=> x \in list[i].marks)
  BY <1>1, <1>3, <1>5, <1>7, MarkingKeeps
<1>9. \A m, x : (Moving(m, x)' <=> Moving(m, x)) /\ (Announced(m)' <=> Announced(m))
                /\ \A s : LastSays(m, x, s)' <=> LastSays(m, x, s)
  BY <1>1 DEF Moving, Announced, LastSays
<1>10. ASSUME n \notin excused'
       PROVE  /\ n \in Messages /\ ~Moving(n, y) /\ (y \in truth[n] <=> ~on)
              /\ \A j \in Calls : Active(j) => calls[j].id # n \/ calls[j].mark # y
  <2>1. n \in Messages /\ n \notin excused /\ history.state = "done"
    BY <1>7, <1>10
  <2>2. ~Moving(n, y) /\ \A j \in Calls : Active(j) => calls[j].id # n \/ calls[j].mark # y
    BY <1>7, <1>10, NothingChanging
  <2>3. ~Called(n, y)
    BY <2>2 DEF Called
  <2>4. Agrees(list, n, y)
    BY <1>2, <1>3, <2>1, <2>2, <2>3 DEF MarksOK, MarkOK
  <2>5. y \in truth[n] <=> ~on
    BY <1>1, <2>4 DEF Agrees
  <2> QED
    BY <2>1, <2>2, <2>5
<1>11. n \in Ids(list)
  BY <1>1 DEF Ids
<1>12. CallsOK'
  <2>1. CallOK(k)'
    <3>1. n \notin excused' => Undisturbed(k)'
      <4> SUFFICES ASSUME n \notin excused' PROVE Undisturbed(k)'
        OBVIOUS
      <4>1. \A j \in Calls : Active(j)' /\ calls'[j].id = n /\ calls'[j].mark = y => j = k
        BY <1>5, <1>6, <1>10
      <4>2. ~Moving(n, y)' /\ history'.state = "done" /\ n \in Ids(list')
        BY <1>1, <1>7, <1>8, <1>9, <1>10, <1>11
      <4>3. y \in truth'[n] <=> (on <=> "sent" = "ok")
        BY <1>1, <1>10
      <4>4. \A i \in DOMAIN list' : list'[i].id = n => (y \in list'[i].marks <=> on)
        BY <1>8
      <4> QED
        BY <1>4, <1>5, <4>1, <4>2, <4>3, <4>4 DEF Undisturbed
    <3>2. n \in Placeholders => n \in excused'
      BY <1>7
    <3> QED
      BY <1>1, <1>3, <1>4, <1>5, <3>1, <3>2 DEF CallOK
  <2>2. ASSUME NEW j \in Calls, j # k, Active(j) PROVE CallOK(j)'
    <3>1. CallOK(j)
      BY <1>2, <2>2 DEF CallsOK
    <3>2. calls[j].id \notin excused' => Undisturbed(j)'
      <4> SUFFICES ASSUME calls[j].id \notin excused' PROVE Undisturbed(j)'
        OBVIOUS
      <4>1. Undisturbed(j) /\ (calls[j].id # n \/ calls[j].mark # y)
        BY <1>7, <1>10, <2>2, <3>1 DEF CallOK
      <4>2. \A i \in Calls : Active(i)' /\ calls'[i].id = calls[j].id /\ calls'[i].mark = calls[j].mark => i = j
        BY <1>4, <1>5, <1>6, <4>1 DEF Undisturbed
      <4>3. ~Moving(calls[j].id, calls[j].mark) /\ history.state = "done" /\ calls[j].id \in Ids(list)
        BY <4>1 DEF Undisturbed
      <4>4. Moving(calls[j].id, calls[j].mark)' <=> Moving(calls[j].id, calls[j].mark)
        BY <1>1, <1>5, <2>2 DEF Moving
      <4>5. \A i \in DOMAIN list' : list'[i].id = calls[j].id => (calls[j].mark \in list'[i].marks <=> calls[j].on)
        BY <1>8, <4>1 DEF Undisturbed
      <4>6. calls[j].mark \in truth[calls[j].id] <=> (calls[j].on <=> calls[j].state = "ok")
        BY <4>1 DEF Undisturbed
      <4> QED
        BY <1>1, <1>5, <1>8, <2>2, <4>2, <4>3, <4>4, <4>5, <4>6 DEF Undisturbed
    <3> QED
      BY <1>1, <1>5, <1>7, <2>2, <3>1, <3>2 DEF CallOK
  <2> QED
    BY <1>6, <2>1, <2>2 DEF CallsOK
<1>13. MarksOK'
  <2>1. ASSUME NEW m \in Messages \ excused', NEW x \in Marks
        PROVE  MarkOK(m, x)'
    <3>1. MarkOK(m, x)
      BY <1>2, <1>7, <2>1 DEF MarksOK
    <3>2. LastSays(m, x, truth[m])'
      BY <1>1, <1>9, <3>1 DEF MarkOK, LastSays
    <3>3. m = n /\ x = y => Called(m, x)'
      BY <1>4, <1>5, <1>6 DEF Called
    <3>4. m # n \/ x # y => (Called(m, x) => Called(m, x)')
      BY <1>5, <1>6 DEF Called
    <3>5. m # n \/ x # y => (Agrees(list, m, x) => Agrees(list', m, x))
      BY <1>8 DEF Agrees
    <3>6. history.state = "done" /\ ~Called(m, x)' /\ ~Moving(m, x) => Agrees(list', m, x)
      BY <3>1, <3>3, <3>4, <3>5 DEF MarkOK
    <3>7. /\ m \notin Ids(list) /\ Announced(m) /\ ~Moving(m, x) => x \notin truth[m]
          /\ history.state = "answered" /\ ~Moving(m, x) => Agrees(history.items, m, x)
          /\ older.state = "answered" /\ ~Moving(m, x) => Agrees(older.items, m, x)
      BY <3>1 DEF MarkOK
    <3> QED
      BY <1>1, <1>8, <1>9, <3>2, <3>6, <3>7 DEF MarkOK, Agrees
  <2>2. ASSUME NEW i \in DOMAIN list', list'[i].id \in Placeholders \ excused' PROVE list'[i].marks = {}
    <3>1. list[i].id \in Placeholders \ excused /\ list[i].id # n
      BY <1>7, <1>8, <2>2
    <3>2. list[i].marks = {}
      BY <1>2, <1>8, <3>1 DEF MarksOK
    <3> QED
      BY <1>8, <3>1, <3>2
  <2> QED
    BY <1>1, <1>2, <2>1, <2>2 DEF MarksOK
<1> QED
  BY <1>8, <1>12, <1>13 DEF ListIInv, ListInv

\* The answer of a call: its event is on its way, unless the socket is closed.
LEMMA CallAnsweredKeeps ==
    ASSUME ListIInv, NEW k \in Calls, NEW open \in BOOLEAN, CallAnswered(k, open)
    PROVE  ListIInv'
<1> PICK id : id = calls[k].id
  OBVIOUS
<1> PICK mark : mark = calls[k].mark
  OBVIOUS
<1> PICK on : on = calls[k].on
  OBVIOUS
<1> PICK f : f = MarkFrame(id, mark, on)
  OBVIOUS
<1>1. /\ calls[k].state = "ok" /\ calls' = [calls EXCEPT ![k].state = "over"]
      /\ up' = IF open THEN Append(up, f) ELSE up
      /\ UNCHANGED <<accepted, stored, truth, mine, pubsub, owed, wire, list, cursor, history, older, sends, theirs, overtaken, excused>>
  BY DEF CallAnswered, services
<1>2. ListTypeOK /\ ShownOnce /\ FramesOK /\ ReceiptsOK /\ PagesOK /\ Everywhere /\ CallsOK /\ MarksOK
  BY DEF ListIInv, ListInv
<1>3. /\ calls' \in [Calls -> CallRecord] /\ calls'[k].state = "over"
      /\ \A j \in Calls : j # k => calls'[j] = calls[j]
  BY <1>1, ListTypes DEF CallRecord
<1>4. Active(k) /\ CallOK(k) /\ ~Active(k)' /\ \A j \in Calls : j # k => (Active(j)' <=> Active(j))
  BY <1>1, <1>2, <1>3 DEF Active, CallsOK
<1>5. /\ id \in 1 .. stored /\ id \in Messages /\ id \notin Placeholders /\ mark \in Marks \ {"theirs"} /\ on \in BOOLEAN
      /\ mark = "deleted" => id \in mine
  <2>1. id \in 1 .. stored /\ mark \in Marks \ {"theirs"} /\ on \in BOOLEAN /\ (mark = "deleted" => id \in mine \cup Placeholders)
    BY <1>1, <1>4, ListTypes DEF CallOK, CallRecord
  <2>2. id \in Messages /\ id \notin Placeholders
    BY <2>1, ListTypes DEF Messages, Placeholders
  <2> QED
    BY <2>1, <2>2
<1>6. /\ f \in Posts(Placeholders) \cup Changes /\ f.kind = "mark" /\ f.id = id /\ f.mark = mark /\ f.on = on
      /\ \A m, x : IsChange(f, m, x) <=> m = id /\ x = mark
  BY <1>5 DEF MarkFrame, Changes, IsChange
<1>7. /\ up' \in Seq(Posts(Placeholders) \cup Changes)
      /\ \A i \in DOMAIN up' : (i \in DOMAIN up /\ up'[i] = up[i]) \/ up'[i] = f
      /\ \A m, x : Has(up', m, x) <=> Has(up, m, x) \/ (open /\ m = id /\ x = mark)
      /\ \A m, x, s : m # id \/ x # mark => (EndsWith(up', m, x, s) <=> EndsWith(up, m, x, s))
      /\ \A s : open /\ (on <=> mark \in s) => EndsWith(up', id, mark, s)
  <2>1. CASE ~open
    BY <1>1, <1>2, <2>1 DEF FramesOK
  <2>2. CASE open
    <3>1. up' = Append(up, f)
      BY <1>1, <2>2
    <3>2. up \in Seq(Posts(Placeholders) \cup Changes)
      BY <1>2 DEF FramesOK
    <3>3. /\ up' \in Seq(Posts(Placeholders) \cup Changes)
          /\ \A m, x : Has(up', m, x) <=> Has(up, m, x) \/ IsChange(f, m, x)
      BY <1>6, <3>1, <3>2, QueueAppend
    <3>4. \A m, x, s : EndsWith(up', m, x, s) <=>
                            IF IsChange(f, m, x) THEN f.on <=> x \in s ELSE EndsWith(up, m, x, s)
      BY <1>6, <3>1, <3>2, QueueAppend
    <3>5. \A i \in DOMAIN up' : (i \in DOMAIN up /\ up'[i] = up[i]) \/ up'[i] = f
      <4>1. /\ DOMAIN up' = 1 .. Len(up) + 1 /\ DOMAIN up = 1 .. Len(up) /\ Len(up) \in Nat
            /\ \A i \in DOMAIN up' : up'[i] = IF i = Len(up) + 1 THEN f ELSE up[i]
        BY <1>6, <3>1, <3>2, QueueAppend
      <4> QED
        BY <4>1
    <3>6. \A m, x, s : m # id \/ x # mark => (EndsWith(up', m, x, s) <=> EndsWith(up, m, x, s))
      BY <1>6, <3>4
    <3>7. \A s : (on <=> mark \in s) => EndsWith(up', id, mark, s)
      BY <1>6, <3>4
    <3> QED
      BY <1>6, <2>2, <3>3, <3>5, <3>6, <3>7
  <2> QED
    BY <2>1, <2>2
<1>8. /\ \A m, x : Moving(m, x)' <=> Moving(m, x) \/ (open /\ m = id /\ x = mark)
      /\ \A m, x, s : (m # id \/ x # mark) /\ LastSays(m, x, s) => LastSays(m, x, s)'
      /\ \A m : Announced(m)' <=> Announced(m)
  BY <1>1, <1>7 DEF Moving, LastSays, Announced
<1>9. ListTypeOK' /\ ShownOnce'
  <2>1. \A j \in Calls : calls'[j].state \in {"none", "sent", "ok", "failed", "over"}
    BY <1>3 DEF CallRecord
  <2> QED
    BY <1>1, <1>2, <2>1 DEF ListTypeOK, ShownOnce
<1>10. FramesOK'
  <2>1. \A i \in DOMAIN up' : up'[i].kind = "message" => up'[i].id \in Sent
    BY <1>2, <1>6, <1>7 DEF FramesOK
  <2> QED
    BY <1>1, <1>2, <1>3, <1>7, <1>8, <2>1 DEF FramesOK, Sent
<1>11. ReceiptsOK' /\ PagesOK' /\ Everywhere'
  <2>1. ReceiptsOK'
    BY <1>1, <1>8, ListNumbers, ReceiptsStay
  <2>2. PagesOK'
    BY <1>1, <1>2 DEF PagesOK, Consecutive, Sent, Ids, NextCursor
  <2>3. Everywhere'
    BY <1>1, <1>2, <1>8 DEF Everywhere, Covered, Ids
  <2> QED
    BY <2>1, <2>2, <2>3
<1>12. CallsOK'
  <2> SUFFICES ASSUME NEW j \in Calls, j # k, Active(j) PROVE CallOK(j)'
    BY <1>4 DEF CallsOK
  <2>1. CallOK(j)
    BY <1>2 DEF CallsOK
  <2>2. ASSUME Undisturbed(j)
        PROVE  Undisturbed(j)'
    <3>1. calls[j].id # id \/ calls[j].mark # mark
      BY <1>4, <2>2 DEF Undisturbed
    <3>2. ~Moving(calls[j].id, calls[j].mark)'
      <4>1. Moving(calls[j].id, calls[j].mark)' <=>
              (Has(wire, calls[j].id, calls[j].mark) \/ Has(pubsub, calls[j].id, calls[j].mark) \/ Has(up', calls[j].id, calls[j].mark))
        BY <1>1, <1>3 DEF Moving
      <4> QED
        BY <1>7, <2>2, <3>1, <4>1 DEF Undisturbed, Moving
    <3>3. \A i \in Calls : Active(i)' /\ calls'[i].id = calls[j].id /\ calls'[i].mark = calls[j].mark => i = j
      BY <1>3, <1>4, <2>2 DEF Undisturbed
    <3> QED
      BY <1>1, <1>3, <2>2, <3>2, <3>3 DEF Undisturbed, Ids
  <2> QED
    BY <1>1, <1>3, <2>1, <2>2 DEF CallOK
<1>13. MarksOK'
  <2>1. ASSUME NEW m \in Messages \ excused, NEW x \in Marks
        PROVE  MarkOK(m, x)'
    <3>1. MarkOK(m, x)
      BY <1>2, <2>1 DEF MarksOK
    <3>2. CASE m # id \/ x # mark
      <4>1. Called(m, x)' <=> Called(m, x)
        BY <1>3, <1>4, <3>2 DEF Called
      <4>2. LastSays(m, x, truth[m])'
        BY <1>1, <1>8, <3>1, <3>2 DEF MarkOK
      <4>3. Moving(m, x)' <=> Moving(m, x)
        BY <1>8, <3>2
      <4>4. /\ m \notin Ids(list) /\ Announced(m) /\ ~Moving(m, x) => x \notin truth[m]
            /\ history.state = "answered" /\ ~Moving(m, x) => Agrees(history.items, m, x)
            /\ older.state = "answered" /\ ~Moving(m, x) => Agrees(older.items, m, x)
            /\ history.state = "done" /\ ~Called(m, x) /\ ~Moving(m, x) => Agrees(list, m, x)
        BY <3>1 DEF MarkOK
      <4> QED
        BY <1>1, <1>8, <4>1, <4>2, <4>3, <4>4 DEF MarkOK, Agrees, Ids
    <3>3. CASE m = id /\ x = mark
      <4>1. Undisturbed(k)
        BY <1>4, <2>1, <3>3 DEF CallOK
      <4>2. /\ ~Moving(m, x) /\ history.state = "done" /\ m \in Ids(list)
            /\ x \in truth[m] <=> on
            /\ \A i \in DOMAIN list : list[i].id = m => (x \in list[i].marks <=> on)
        BY <1>1, <1>5, <3>3, <4>1 DEF Undisturbed
      <4>3. Agrees(list, m, x)
        BY <4>2 DEF Agrees
      <4>4. older.state = "answered" => Agrees(older.items, m, x)
        <5>1. older.state = "answered" => m \notin Ids(older.items)
          BY <4>2, OlderIsOlder
        <5> QED
          BY <5>1 DEF Agrees, Ids
      <4>5. LastSays(m, x, truth[m])'
        <5>1. CASE open
          <6>1. EndsWith(up', m, x, truth[m]) /\ Has(up', m, x)
            BY <1>7, <3>3, <4>2, <5>1
          <6> QED
            BY <1>1, <6>1 DEF LastSays
        <5>2. CASE ~open
          <6>1. ~Moving(m, x)'
            BY <1>8, <4>2, <5>2
          <6> QED
            BY <6>1 DEF LastSays, Moving, Has, EndsWith
        <5> QED
          BY <5>1, <5>2
      <4> QED
        BY <1>1, <4>2, <4>3, <4>4, <4>5 DEF MarkOK, Agrees, Ids
    <3> QED
      BY <3>2, <3>3
  <2>2. \A i \in DOMAIN up' : up'[i].kind = "mark" =>
          up'[i].mark \in {"edited", "mine"} \/ (up'[i].mark = "deleted" /\ up'[i].id \in mine)
    BY <1>2, <1>5, <1>6, <1>7 DEF MarksOK, Marks
  <2> QED
    BY <1>1, <1>2, <2>1, <2>2 DEF MarksOK
<1> QED
  BY <1>9, <1>10, <1>11, <1>12, <1>13 DEF ListIInv, ListInv

\* A call fails: what it showed is taken back, except of an edit.
LEMMA CallFailedKeeps == ASSUME ListIInv, NEW k \in Calls, CallFailed(k) PROVE ListIInv'
<1> PICK id : id = calls[k].id
  OBVIOUS
<1> PICK mark : mark = calls[k].mark
  OBVIOUS
<1> PICK on : on = calls[k].on
  OBVIOUS
<1> PICK v : v = ~on
  OBVIOUS
<1> PICK r : r = Marked(list, id, mark, v)
  OBVIOUS
<1>1. /\ calls[k].state = "failed" /\ calls' = [calls EXCEPT ![k].state = "over"]
      /\ list' = IF mark = "edited" THEN list ELSE r
      /\ excused' = IF mark = "edited" THEN excused \cup {id} ELSE excused
      /\ UNCHANGED <<accepted, stored, truth, mine, pubsub, owed, wire, up, cursor, history, older, sends, theirs, overtaken>>
  BY DEF CallFailed, Undone, services
<1>2. ListTypeOK /\ ShownOnce /\ FramesOK /\ ReceiptsOK /\ PagesOK /\ Everywhere /\ CallsOK /\ MarksOK
  BY DEF ListIInv, ListInv
<1>3. /\ calls' \in [Calls -> CallRecord] /\ calls'[k].state = "over"
      /\ \A j \in Calls : j # k => calls'[j] = calls[j]
  BY <1>1, ListTypes DEF CallRecord
<1>4. Active(k) /\ CallOK(k) /\ ~Active(k)' /\ \A j \in Calls : j # k => (Active(j)' <=> Active(j))
  BY <1>1, <1>2, <1>3 DEF Active, CallsOK
<1>5. /\ id \in AllIds /\ mark \in Marks /\ on \in BOOLEAN /\ (id \in Placeholders => id \in excused)
      /\ excused \subseteq excused' /\ excused' \subseteq AllIds /\ (id \notin excused' => mark # "edited")
  BY <1>1, <1>4, ListTypes DEF CallOK, CallRecord
<1>6. /\ ListTypeOK' /\ ShownOnce' /\ FramesOK' /\ ReceiptsOK' /\ PagesOK' /\ Everywhere'
      /\ DOMAIN list' = DOMAIN list /\ Ids(list') = Ids(list)
      /\ \A i \in DOMAIN list : list'[i].id = list[i].id
      /\ \A i \in DOMAIN list : list[i].id = id /\ mark # "edited" => (mark \in list'[i].marks <=> v)
      /\ \A i \in DOMAIN list : \A x :
           list[i].id # id \/ x # mark => (x \in list'[i].marks <=> x \in list[i].marks)
  <2>1. CASE mark = "edited"
    <3>1. list' = list
      BY <1>1, <2>1
    <3>2. \A j \in Calls : calls'[j].state \in {"none", "sent", "ok", "failed", "over"}
      BY <1>3 DEF CallRecord
    <3>3. ListTypeOK' /\ ShownOnce'
      BY <1>1, <1>2, <1>5, <3>1, <3>2 DEF ListTypeOK, ShownOnce
    <3>4. FramesOK' /\ ReceiptsOK'
      <4>1. FramesOK'
        BY <1>1, <1>2, <1>3 DEF FramesOK, Announced, Sent
      <4>2. Ids(list') = Ids(list) /\ Sent' = Sent
        BY <1>1, <3>1 DEF Sent
      <4>3. ReceiptsOK'
        BY <1>1, <1>5, <4>2, ReceiptsKept
      <4> QED
        BY <4>1, <4>3
    <3>5. PagesOK'
      BY <1>1, <1>2, <3>1 DEF PagesOK, Consecutive, Sent, Ids, NextCursor
    <3>6. Everywhere'
      BY <1>1, <1>2, <1>5, <3>1 DEF Everywhere, Covered, Announced, Ids
    <3> QED
      BY <2>1, <3>1, <3>3, <3>4, <3>5, <3>6
  <2>2. CASE mark # "edited"
    <3>1. list' = r
      BY <1>1, <2>2
    <3> QED
      BY <1>1, <1>3, <1>5, <3>1, MarkingKeeps
  <2> QED
    BY <2>1, <2>2
<1>7. \A m, x : (Moving(m, x)' <=> Moving(m, x)) /\ (Announced(m)' <=> Announced(m))
                /\ \A s : LastSays(m, x, s)' <=> LastSays(m, x, s)
  BY <1>1 DEF Moving, Announced, LastSays
<1>8. CallsOK'
  <2> SUFFICES ASSUME NEW j \in Calls, j # k, Active(j) PROVE CallOK(j)'
    BY <1>4 DEF CallsOK
  <2>1. CallOK(j)
    BY <1>2 DEF CallsOK
  <2>2. ASSUME Undisturbed(j)
        PROVE  Undisturbed(j)'
    <3>1. calls[j].id # id \/ calls[j].mark # mark
      BY <1>4, <2>2 DEF Undisturbed
    <3>2. \A i \in Calls : Active(i)' /\ calls'[i].id = calls[j].id /\ calls'[i].mark = calls[j].mark => i = j
      BY <1>3, <1>4, <2>2 DEF Undisturbed
    <3>3. ~Moving(calls[j].id, calls[j].mark) /\ history.state = "done" /\ calls[j].id \in Ids(list)
      BY <2>2 DEF Undisturbed
    <3>4. Moving(calls[j].id, calls[j].mark)' <=> Moving(calls[j].id, calls[j].mark)
      BY <1>1, <1>3 DEF Moving
    <3>5. \A i \in DOMAIN list' : list'[i].id = calls[j].id => (calls[j].mark \in list'[i].marks <=> calls[j].on)
      BY <1>6, <2>2, <3>1 DEF Undisturbed
    <3>6. calls[j].mark \in truth[calls[j].id] <=> (calls[j].on <=> calls[j].state = "ok")
      BY <2>2 DEF Undisturbed
    <3> QED
      BY <1>1, <1>3, <1>6, <3>2, <3>3, <3>4, <3>5, <3>6 DEF Undisturbed
  <2> QED
    BY <1>1, <1>3, <1>5, <2>1, <2>2 DEF CallOK
<1>9. MarksOK'
  <2>1. ASSUME NEW m \in Messages \ excused', NEW x \in Marks
        PROVE  MarkOK(m, x)'
    <3>1. MarkOK(m, x)
      BY <1>2, <1>5, <2>1 DEF MarksOK
    <3>2. LastSays(m, x, truth[m])'
      BY <1>1, <1>7, <3>1 DEF MarkOK, LastSays
    <3>3. ~Called(m, x)' /\ ~Moving(m, x) /\ history.state = "done" => Agrees(list', m, x)
      <4>1. CASE m = id /\ x = mark
        <5>1. Undisturbed(k) /\ mark # "edited"
          BY <1>4, <1>5, <2>1, <4>1 DEF CallOK
        <5>2. x \in truth[m] <=> v
          BY <1>1, <1>5, <4>1, <5>1 DEF Undisturbed
        <5> QED
          BY <1>1, <1>6, <4>1, <5>1, <5>2 DEF Agrees
      <4>2. CASE m # id \/ x # mark
        <5>1. Called(m, x)' <=> Called(m, x)
          BY <1>3, <1>4, <4>2 DEF Called
        <5>2. Agrees(list, m, x) => Agrees(list', m, x)
          BY <1>6, <4>2 DEF Agrees
        <5> QED
          BY <3>1, <5>1, <5>2 DEF MarkOK
      <4> QED
        BY <4>1, <4>2
    <3>4. /\ m \notin Ids(list) /\ Announced(m) /\ ~Moving(m, x) => x \notin truth[m]
          /\ history.state = "answered" /\ ~Moving(m, x) => Agrees(history.items, m, x)
          /\ older.state = "answered" /\ ~Moving(m, x) => Agrees(older.items, m, x)
      BY <3>1 DEF MarkOK
    <3> QED
      BY <1>1, <1>6, <1>7, <3>2, <3>3, <3>4 DEF MarkOK, Agrees
  <2>2. ASSUME NEW i \in DOMAIN list', list'[i].id \in Placeholders \ excused' PROVE list'[i].marks = {}
    <3>1. list[i].id \in Placeholders \ excused /\ list[i].id # id
      BY <1>5, <1>6, <2>2
    <3>2. list[i].marks = {}
      BY <1>2, <1>6, <3>1 DEF MarksOK
    <3> QED
      BY <1>6, <3>1, <3>2
  <2> QED
    BY <1>1, <1>2, <2>1, <2>2 DEF MarksOK
<1> QED
  BY <1>6, <1>8, <1>9 DEF ListIInv, ListInv

LEMMA ListStarts == ListInit => ListIInv
<1> SUFFICES ASSUME ListInit PROVE ListIInv
  OBVIOUS
<1>1. /\ accepted = Old /\ stored = Old /\ truth = [m \in Messages |-> {}]
      /\ mine \in {{}, IF Old > 0 THEN {Old} ELSE {}}
      /\ pubsub = <<>> /\ wire = <<>> /\ up = <<>> /\ list = <<>> /\ cursor = 0
      /\ history = [state |-> "asked", items |-> <<>>] /\ older = [state |-> "idle", items |-> <<>>]
      /\ sends = 0 /\ theirs = 0 /\ owed = {} /\ overtaken = {} /\ excused = {}
      /\ calls = [k \in Calls |-> [state |-> "none", id |-> 0, mark |-> "edited", on |-> TRUE]]
  BY DEF ListInit, NoRequest, NoCall
<1>2. /\ Old \in Nat /\ MaxMessages \in Nat /\ MaxSends \in Nat /\ MaxTheirs \in Nat /\ Old <= MaxMessages
      /\ \A m \in Old + 1 .. Old : FALSE
  BY BoundsAssumption
<1>3. \A S : <<>> \in Seq(S)
  BY EmptySeq
<1>4. /\ DOMAIN list = {} /\ DOMAIN wire = {} /\ DOMAIN pubsub = {} /\ DOMAIN up = {}
      /\ \A k \in Calls : ~Active(k)
  BY <1>1 DEF Active
<1>5. ListTypeOK
  <2>1. history \in Request /\ older \in Request
    BY <1>1, <1>3 DEF Request
  <2>2. stored \in 0 .. accepted /\ accepted \in 0 .. MaxMessages /\ mine \subseteq 1 .. accepted /\ cursor \in 0 .. MaxMessages
    BY <1>1, <1>2
  <2>3. truth \in [Messages -> SUBSET Marks]
    BY <1>1
  <2>4. \A k \in Calls : calls[k].state \in {"none", "sent", "ok", "failed", "over"}
    BY <1>1
  <2>5. sends \in 0 .. MaxSends /\ theirs \in 0 .. MaxTheirs /\ list \in Seq(Entries) /\ excused \subseteq AllIds /\ overtaken \subseteq Messages
    BY <1>1, <1>2, <1>3
  <2> QED
    BY <2>1, <2>2, <2>3, <2>4, <2>5 DEF ListTypeOK
<1>6. ShownOnce
  BY <1>4 DEF ShownOnce
<1>7. FramesOK
  <2>1. calls \in [Calls -> CallRecord]
    BY <1>1 DEF CallRecord, Marks
  <2> QED
    BY <1>1, <1>2, <1>3, <1>4, <2>1 DEF FramesOK, Announced, Posted
<1>8. ReceiptsOK /\ PagesOK /\ Everywhere
  BY <1>1, <1>2, <1>4 DEF ReceiptsOK, PagesOK, Everywhere
<1>9. CallsOK
  BY <1>4 DEF CallsOK
<1>10. MarksOK
  BY <1>1, <1>4 DEF MarksOK, MarkOK, LastSays, EndsWith, Announced, Posted, Ids
<1> QED
  BY <1>5, <1>6, <1>7, <1>8, <1>9, <1>10 DEF ListIInv, ListInv

LEMMA ListGoesOn == ListIInv /\ [ListNext]_listVars => ListIInv'
<1> SUFFICES ASSUME ListIInv, [ListNext]_listVars PROVE ListIInv'
  OBVIOUS
<1>1. CASE Receive \/ Refused \/ Persist \/ Disconnect \/ TheyPost \/ ServeHistory \/ ServeOlder
  BY <1>1, ReceiveKeeps, RefusedKeeps, PersistKeeps, DisconnectKeeps, TheyPostKeeps, ServeHistoryKeeps, ServeOlderKeeps
<1>11. CASE \E r \in owed, arrives \in BOOLEAN : WriteReceipt(r, arrives)
  BY <1>11, WriteReceiptKeeps
<1>12. CASE \E arrives \in BOOLEAN : Broadcast(arrives)
  BY <1>12, BroadcastKeeps
<1>2. CASE \E m \in Messages, mark \in Marks, on \in BOOLEAN : TheyMark(m, mark, on)
  BY <1>2, TheyMarkKeeps
<1>3. CASE \E k \in Calls, outcome \in {"ok", "lost", "refused"} : ServeCall(k, outcome)
  BY <1>3, ServeCallKeeps
<1>4. CASE HandleEvent \/ LoadOlder \/ OlderLoaded \/ OlderFails
  BY <1>4, HandleEventKeeps, LoadOlderKeeps, OlderLoadedKeeps
<1>5. CASE \E ok \in BOOLEAN : History(ok)
  BY <1>5, HistoryKeeps
<1>6. CASE \E open \in BOOLEAN : Send(open)
  BY <1>6, SendKeeps
<1>7. CASE \E k \in Calls, id \in Messages \cup Placeholders, on \in BOOLEAN,
              mark \in Marks \ {"theirs"} : Call(k, id, mark, on)
  BY <1>7, CallKeeps
<1>8. CASE \E k \in Calls, open \in BOOLEAN : CallAnswered(k, open)
  BY <1>8, CallAnsweredKeeps
<1>9. CASE \E k \in Calls : CallFailed(k)
  BY <1>9, CallFailedKeeps
<1>10. CASE UNCHANGED listVars
  <2>1. UNCHANGED <<accepted, stored, truth, mine, pubsub, owed, wire, up, list, cursor, history, older, sends, calls, theirs, overtaken, excused>>
    BY <1>10 DEF listVars, services, client
  <2>2. history' \in Request /\ older' \in Request /\ PagesOK /\ history' = history /\ older' = older
    BY <2>1 DEF ListIInv, ListInv, ListTypeOK
  <2>3. PagesOK'
    BY <2>1, <2>2 DEF PagesOK, Consecutive, Sent, Ids, NextCursor
  <2> QED
    BY <2>1, <2>2, <2>3, RequestKeeps
<1> QED
  BY <1>1, <1>2, <1>3, <1>4, <1>5, <1>6, <1>7, <1>8, <1>9, <1>10, <1>11, <1>12 DEF ListNext

LEMMA ListIsInvariant == ListSpec => []ListIInv
<1>1. ListInit => ListIInv
  BY ListStarts
<1>2. ListIInv /\ [ListNext]_listVars => ListIInv'
  BY ListGoesOn
<1> QED
  BY <1>1, <1>2, PTL DEF ListSpec

\* Whatever is lost, refused or late, and in whatever order the pages of history,
\* the receipt and the broadcast of a message arrive, no id is in the list twice,
\* except of a message whose broadcast was written before its receipt: the guard
\* against duplicate delivery knows the server's id only, and the placeholder
\* does not have it yet.
THEOREM NoMessageTwice == ListSpec => []ListInv
<1>1. ListIInv => ListInv
  BY DEF ListIInv
<1> QED
  BY <1>1, ListIsInvariant, PTL

\* When nothing is under way the list agrees with the services, over lost and
\* refused frames, broken connections and overlapping calls: every message from
\* the cursor on is in it, with the marks the services have.  The exceptions are
\* what the code does not mend: a message of which a frame was lost, refused or
\* out of order since the last page that has it was read, a failed edit, a call
\* whose answer was lost, and two changes of one mark at a time.
THEOREM QuietListIsTrue == ListSpec => []QuietShowsHistory
<1>1. ListIInv => QuietShowsHistory
  <2> SUFFICES ASSUME ListIInv, Quiet PROVE ShowsTruth /\ ShowsAll
    BY DEF QuietShowsHistory
  <2>1. PagesOK /\ Everywhere /\ MarksOK
    BY DEF ListIInv
  <2>2. /\ history.state = "done" /\ pubsub = <<>> /\ wire = <<>> /\ up = <<>>
        /\ \A k \in Calls : ~Active(k)
    BY DEF Quiet, Active
  <2>3. \A m, x : ~Moving(m, x) /\ ~Announced(m) /\ ~Called(m, x)
    BY <2>2 DEF Moving, Announced, Called, Has, Posted
  <2>4. ShowsTruth
    <3> SUFFICES ASSUME NEW i \in DOMAIN list, list[i].id \in Messages \ excused
                 PROVE  list[i].marks = truth[list[i].id]
      BY DEF ShowsTruth
    <3> PICK m : m = list[i].id
      OBVIOUS
    <3>1. \A x \in Marks : Agrees(list, m, x)
      BY <2>1, <2>2, <2>3 DEF MarksOK, MarkOK
    <3>2. \A x \in Marks : x \in list[i].marks <=> x \in truth[m]
      BY <3>1 DEF Agrees
    <3>3. list[i].marks \subseteq Marks /\ truth[m] \subseteq Marks
      BY ListTypes
    <3> QED
      BY <3>2, <3>3
  <2>5. ShowsAll
    <3> SUFFICES ASSUME NEW m \in 1 .. accepted, cursor <= m PROVE m \in Ids(list) \cup excused
      BY DEF ShowsAll
    <3>1. m \in 1 .. Old \/ m \in Old + 1 .. accepted
      BY ListTypes
    <3> QED
      BY <2>1, <2>2, <2>3, <3>1 DEF Everywhere, Covered
  <2> QED
    BY <2>4, <2>5
<1> QED
  BY <1>1, ListIsInvariant, PTL

\* What a step of the list may do once the history is there: the entries keep
\* their places, an older page comes before them, a newer message after.
Stays(skip) ==
    /\ \A i \in 1 .. skip : list'[i].id < cursor
    /\ \A i \in DOMAIN list :
          \/ list'[skip + i].id = list[i].id
          \/ (list[i].id \in Placeholders /\ list'[skip + i].confirmed)
    /\ \A i \in skip + Len(list) + 1 .. Len(list') : list'[i].id > cursor

LEMMA StaysInPlace ==
    ASSUME ListIInv, DOMAIN list' = DOMAIN list, Len(list') = Len(list),
           \A i \in DOMAIN list : \/ list'[i].id = list[i].id
                                  \/ (list[i].id \in Placeholders /\ list'[i].confirmed)
    PROVE  0 \in 0 .. Len(list') - Len(list) /\ Stays(0)
<1>1. Len(list) \in Nat /\ \A i \in DOMAIN list : i \in Nat /\ 0 + i = i
  BY ListTypes
<1>2. 0 + Len(list) + 1 .. Len(list') = {} /\ 1 .. 0 = {}
  BY <1>1
<1> QED
  BY <1>1, <1>2 DEF Stays

\* An entry put at the end is newer than the cursor.
LEMMA StaysAndGrows ==
    ASSUME ListIInv, NEW e \in Entries, list' = Append(list, e), e.id > cursor
    PROVE  0 \in 0 .. Len(list') - Len(list) /\ Stays(0)
<1> PICK l : l = list
  OBVIOUS
<1> PICK r : r = Append(l, e)
  OBVIOUS
<1>1. l \in Seq(Entries)
  BY ListTypes
<1>2. /\ r \in Seq(Entries) /\ Len(l) \in Nat /\ DOMAIN l = 1 .. Len(l) /\ DOMAIN r = 1 .. Len(l) + 1
      /\ \A i \in DOMAIN l : r[i] = l[i]
      /\ r[Len(l) + 1] = e
  BY <1>1, EntryAppended
<1>3. Len(r) = Len(l) + 1
  BY <1>2, LenProperties
<1>4. \A i \in DOMAIN l : i \in Nat /\ 0 + i = i
  BY <1>2
<1>5. 0 \in 0 .. Len(r) - Len(l) /\ 1 .. 0 = {} /\ 0 + Len(l) + 1 .. Len(r) = {Len(l) + 1}
  BY <1>2, <1>3
<1>6. list' = r /\ list = l
  OBVIOUS
<1> QED
  BY <1>2, <1>4, <1>5, <1>6 DEF Stays

\* Once the history is there no message leaves the list and no two change
\* places: an older page goes before them, a newer message after them.
THEOREM TheEntriesStay == ListSpec => EntriesStay
<1>1. ListIInv /\ [ListNext]_listVars =>
        [history.state = "done" =>
           \E skip \in 0 .. Len(list') - Len(list) :
             /\ \A i \in 1 .. skip : list'[i].id < cursor
             /\ \A i \in DOMAIN list :
                   \/ list'[skip + i].id = list[i].id
                   \/ (list[i].id \in Placeholders /\ list'[skip + i].confirmed)
             /\ \A i \in skip + Len(list) + 1 .. Len(list') : list'[i].id > cursor]_listVars
  <2> SUFFICES ASSUME ListIInv, ListNext, history.state = "done"
               PROVE  \E skip \in 0 .. Len(list') - Len(list) : Stays(skip)
    BY DEF Stays
  <2>1. list \in Seq(Entries) /\ DOMAIN list = 1 .. Len(list) /\ Len(list) \in Nat /\ cursor \in Nat
    BY ListTypes
  <2>2. ASSUME list' = list PROVE \E skip \in 0 .. Len(list') - Len(list) : Stays(skip)
    BY <2>2, StaysInPlace
  <2>3. ASSUME NEW n, NEW y \in Marks, NEW on, list' = Marked(list, n, y, on)
        PROVE  \E skip \in 0 .. Len(list') - Len(list) : Stays(skip)
    <3> PICK r : r = Marked(list, n, y, on)
      OBVIOUS
    <3>1. r \in Seq(Entries) /\ DOMAIN r = DOMAIN list /\ Len(r) = Len(list) /\ Ids(r) = Ids(list)
      BY <2>1, MarkedList
    <3>2. \A i \in DOMAIN list : list[i] \in Entries
      BY ListTypes
    <3>3. ASSUME NEW i \in DOMAIN list PROVE r[i].id = list[i].id
      <4>1. list[i] \in Entries
        BY <3>2
      <4>2. CASE list[i].id = n
        <5>1. r[i] = [list[i] EXCEPT !.marks = With(list[i].marks, y, on)]
          BY <4>2 DEF Marked
        <5> QED
          BY <4>1, <5>1 DEF Entries
      <4>3. CASE list[i].id # n
        BY <4>3 DEF Marked
      <4> QED
        BY <4>2, <4>3
    <3> QED
      BY <2>3, <3>1, <3>3, StaysInPlace
  <2>4. CASE HandleEvent
    <3> PICK f : f = Head(wire)
      OBVIOUS
    <3>1. /\ wire # <<>> /\ wire \in Seq(Posts(Messages) \cup Changes \cup Receipts)
      BY <2>4 DEF HandleEvent, ListIInv, FramesOK
    <3>2. f \in Posts(Messages) \cup Changes \cup Receipts /\ f = wire[1] /\ 1 \in DOMAIN wire
      BY <3>1, QueueTail
    <3>3. f.kind \in {"receipt", "message", "mark"}
      BY <3>2 DEF Posts, Changes, Receipts
    <3>4. CASE f.kind = "receipt"
      <4>1. list' = Confirmed(f)
        BY <2>4, <3>4 DEF HandleEvent
      <4>2. f.id \in Placeholders
        BY <3>2, <3>4 DEF Posts, Changes, Receipts
      <4>3. DOMAIN list' = DOMAIN list
        BY <4>1 DEF Confirmed
      <4>4. ASSUME NEW i \in DOMAIN list
            PROVE  list'[i].id = list[i].id \/ (list[i].id \in Placeholders /\ list'[i].confirmed)
        <5>1. list[i] \in Entries
          BY ListTypes
        <5>2. CASE list[i].id = f.id
          <6>1. list'[i] = [list[i] EXCEPT !.id = f.server, !.confirmed = TRUE]
            BY <4>1, <5>2 DEF Confirmed
          <6>2. list'[i].confirmed
            BY <5>1, <6>1 DEF Entries
          <6> QED
            BY <4>2, <5>2, <6>2
        <5>3. CASE list[i].id # f.id
          <6>1. list'[i] = list[i]
            BY <4>1, <5>3 DEF Confirmed
          <6> QED
            BY <6>1
        <5> QED
          BY <5>2, <5>3
      <4>5. Len(list') = Len(list)
        <5>1. ListIInv'
          BY <2>4, HandleEventKeeps
        <5>2. list' \in Seq(Entries)
          BY <5>1 DEF ListIInv, ListInv, ListTypeOK
        <5> QED
          BY <2>1, <4>3, <5>2, LenProperties
      <4> QED
        BY <4>3, <4>4, <4>5, StaysInPlace
    <3>5. CASE f.kind = "message"
      <4>1. list' = Appended(f)
        BY <2>4, <3>5 DEF HandleEvent
      <4>2. CASE f.id \in Ids(list)
        BY <2>2, <4>1, <4>2 DEF Appended
      <4>3. CASE f.id \notin Ids(list)
        <5> PICK e : e = Entry(f.id, {}, TRUE)
          OBVIOUS
        <5>1. list' = Append(list, e)
          BY <4>1, <4>3 DEF Appended
        <5>2. f.id \in Old + 1 .. accepted
          <6>1. Announced(f.id)
            BY <3>2, <3>5 DEF Announced, Posted
          <6> QED
            BY <6>1 DEF ListIInv, FramesOK
        <5>3. e \in Entries /\ e.id = f.id
          <6>1. f.id \in AllIds
            BY <5>2, ListTypes DEF AllIds, Messages
          <6> QED
            BY <6>1 DEF Entry, Entries
        <5>4. f.id > cursor
          <6>1. cursor # 0 => cursor <= Old + 1 /\ cursor # f.id
            BY <4>3 DEF ListIInv, PagesOK
          <6>2. cursor \in Nat /\ Old \in Nat /\ accepted \in Nat
            BY ListTypes
          <6> QED
            BY <5>2, <6>1, <6>2
        <5> QED
          BY <5>1, <5>3, <5>4, StaysAndGrows
      <4> QED
        BY <4>2, <4>3
    <3>6. CASE f.kind = "mark"
      <4>1. list' = Marked(list, f.id, f.mark, f.on)
        BY <2>4, <3>6 DEF HandleEvent
      <4>2. f.mark \in Marks
        BY <3>2, <3>6 DEF Posts, Changes, Receipts
      <4> QED
        BY <2>3, <4>1, <4>2
    <3> QED
      BY <3>3, <3>4, <3>5, <3>6
  <2>5. CASE OlderLoaded
    <3> PICK n : n = Len(older.items)
      OBVIOUS
    <3>1. older.state = "answered"
      BY <2>5 DEF OlderLoaded
    <3>2. /\ DOMAIN older.items = 1 .. n /\ n \in Nat
          /\ \A i \in DOMAIN older.items : older.items[i].id < cursor
      BY <3>1, OlderIsOlder
    <3>3. /\ Len(list') = n + Len(list)
          /\ \A i \in 1 .. n : list'[i] = older.items[i]
          /\ \A i \in DOMAIN list : list'[n + i] = list[i]
      BY <2>5, PageBefore
    <3>4. n \in 0 .. Len(list') - Len(list) /\ n + Len(list) + 1 .. Len(list') = {}
      BY <2>1, <3>2, <3>3
    <3> QED
      BY <3>2, <3>3, <3>4 DEF Stays
  <2>6. CASE \E open \in BOOLEAN : Send(open)
    <3> PICK n : n = MaxMessages + sends + 1
      OBVIOUS
    <3> PICK e : e = Entry(n, {}, FALSE)
      OBVIOUS
    <3>1. list' = Append(list, e) /\ sends < MaxSends
      BY <2>6 DEF Send
    <3>2. n \in Placeholders /\ n > cursor
      BY <3>1, ListTypes DEF Placeholders, ListIInv, ListInv, ListTypeOK
    <3>3. e \in Entries /\ e.id = n
      BY <3>2 DEF Entry, Entries, AllIds
    <3> QED
      BY <3>1, <3>2, <3>3, StaysAndGrows
  <2>7. CASE \E k \in Calls, id \in Messages \cup Placeholders, on \in BOOLEAN,
                mark \in Marks \ {"theirs"} : Call(k, id, mark, on)
    <3>1. \E id, on : \E mark \in Marks : list' = Marked(list, id, mark, on)
      BY <2>7 DEF Call
    <3> QED
      BY <2>3, <3>1
  <2>8. CASE \E k \in Calls : CallFailed(k)
    <3>1. PICK k \in Calls : CallFailed(k)
      BY <2>8
    <3>2. calls[k].mark \in Marks
      BY ListTypes DEF CallRecord
    <3>3. list' = list \/ list' = Marked(list, calls[k].id, calls[k].mark, ~calls[k].on)
      BY <3>1 DEF CallFailed, Undone
    <3> PICK v : v = ~calls[k].on
      OBVIOUS
    <3> QED
      BY <2>2, <2>3, <3>2, <3>3
  <2>9. CASE \/ Receive \/ Refused \/ Persist \/ Disconnect \/ TheyPost \/ ServeHistory \/ ServeOlder
             \/ LoadOlder \/ OlderFails
             \/ \E q \in owed, arrives \in BOOLEAN : WriteReceipt(q, arrives)
             \/ \E arrives \in BOOLEAN : Broadcast(arrives)
             \/ \E m \in Messages, mark \in Marks, on \in BOOLEAN : TheyMark(m, mark, on)
             \/ \E k \in Calls, outcome \in {"ok", "lost", "refused"} : ServeCall(k, outcome)
             \/ \E k \in Calls, open \in BOOLEAN : CallAnswered(k, open)
    <3>1. list' = list
      BY <2>9 DEF Receive, Refused, Persist, Disconnect, TheyPost, ServeHistory, ServeOlder, LoadOlder, OlderFails,
           WriteReceipt, Broadcast, TheyMark, ServeCall, CallAnswered, client
    <3> QED
      BY <2>2, <3>1
  <2>10. \A ok : ~History(ok)
    BY DEF History
  <2> QED
    BY <2>4, <2>5, <2>6, <2>7, <2>8, <2>9, <2>10 DEF ListNext
<1> QED
  BY <1>1, ListIsInvariant, PTL DEF ListSpec, EntriesStay
=============================================================================

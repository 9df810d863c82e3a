---------------------------- MODULE RoomHubProofs ----------------------------
(* Safety of RoomHub for any users, rooms, sockets and limit, with the calls *)
(* of the endpoint mended or as they stand.                                  *)
(*                                                                           *)
(* Neither HubInv nor PresenceTold is inductive: both speak of users at rest *)
(* and of the next await only.  HubIInv adds what a session between two      *)
(* awaits has still to do: the room a user is in is in Redis or is on its    *)
(* way there, the room she left is gone from Redis or is to go, and what a   *)
(* handler gives up when it raises never holds a write of her presence.      *)
EXTENDS RoomHub, FiniteSetTheorems, SequenceTheorems, TLAPS

USE NoneAssumption, BoundAssumption, FiniteAssumption

\* Awaits that leave presence alone.
Quiet == {"reply", "incr", "expire", "note", "receipt", "receipt ends"}
Await == [op : {"sadd", "srem"}, room : Rooms] \cup [op : Quiet \cup {"online", "offline"}, room : {None}]

\* What the awaits of a session can be.  A handler that has come to the quiet
\* ones writes no presence any more, it never both enters and leaves rooms; only
\* the cleanup takes a user offline, and it brings nothing back.
Shape(t, p) ==
    /\ \A i, j \in DOMAIN t :
         /\ i <= j /\ t[i].op \in Quiet => t[j].op \in Quiet
         /\ t[i].op = "sadd" => t[j].op # "srem"
    /\ \A i \in DOMAIN t :
         /\ p = "cleanup" => t[i].op \in {"srem", "offline"}
         /\ p = "busy" => t[i].op # "offline"

\* A user is known exactly while the session lasts.
SessionOK(s) ==
    /\ user[s] = None <=> pc[s] = "none"
    /\ Shape(todo[s], pc[s])

Pending(u, e) == \E s \in Socks : user[s] = u /\ e \in ToSet(todo[s])

OneSession(u) == \A s, t \in Socks : user[s] = u /\ user[t] = u => s = t

\* What Redis holds of a user is what the hub knows, up to what is pending.
RoomTold(u, r) ==
    <<u, r>> \in rooms <=>
        \/ Pending(u, In("sadd", r))
        \/ <<u, r>> \in pres /\ ~Pending(u, In("srem", r))
Told(u) ==
    /\ \A r \in Rooms : RoomTold(u, r)
    /\ (\E r \in Rooms : <<u, r>> \in rooms) => u \in online \/ Pending(u, Do("online"))
    /\ (\A s \in Socks : user[s] = u => ~Live(s)) => u \notin online \/ Pending(u, Do("offline"))

HubIInv ==
    /\ HubInv
    /\ todo \in [Socks -> Seq(Await)]
    /\ \A s \in Socks : SessionOK(s)
    /\ \A u \in Users \ crossed : OneSession(u)
    /\ \A u \in Users \ (crossed \cup scarred) : Told(u)

------------------------------------------------------------------------------
(* Sequences of awaits *)

LEMMA Asked ==
    /\ \A op \in Quiet \cup {"online", "offline"} : Do(op) \in Await /\ Do(op).op = op
    /\ \A op \in {"sadd", "srem"}, r \in Rooms : In(op, r) \in Await /\ In(op, r).op = op
  BY DEF Await, Do, In, Quiet

LEMMA AwaitFields ==
    ASSUME NEW e \in Await
    PROVE  /\ e.op \in {"sadd", "srem"} => e.room \in Rooms /\ e = In(e.op, e.room)
           /\ e.op \notin {"sadd", "srem"} => e = Do(e.op)
           /\ e.op \in Quiet \cup {"sadd", "srem", "online", "offline"}
  BY DEF Await, Do, In, Quiet

LEMMA NothingShaped == ASSUME NEW p PROVE <<>> \in Seq(Await) /\ Shape(<<>>, p) /\ ToSet(<<>>) = {}
  BY DEF Shape, ToSet

LEMMA Filled ==
    ASSUME NEW t \in Seq(Await)
    PROVE  /\ Len(t) \in Nat /\ DOMAIN t = 1..Len(t)
           /\ t # <<>> <=> 1 \in DOMAIN t
<1>1. Len(t) \in Nat /\ DOMAIN t = 1..Len(t)
  OBVIOUS
<1>2. t # <<>> => Len(t) \in Nat \ {0}
  BY EmptySeq
<1>3. t = <<>> => Len(t) = 0
  OBVIOUS
<1> QED
  BY <1>1, <1>2, <1>3

LEMMA OneAwait ==
    ASSUME NEW op \in Quiet
    PROVE  /\ <<Do(op)>> \in Seq(Await) /\ <<Do(op)>> # <<>>
           /\ Shape(<<Do(op)>>, "busy")
           /\ \A e \in ToSet(<<Do(op)>>) : e.op \in Quiet
<1> DEFINE t == <<Do(op)>>
<1>1. /\ Do(op) \in Await /\ Do(op).op = op /\ DOMAIN t = {1} /\ t[1] = Do(op) /\ t # <<>>
      /\ t \in Seq(Await)
  BY Asked
<1>2. \A i \in DOMAIN t : t[i].op = op
  BY <1>1
<1> HIDE DEF t
<1>3. Shape(t, "busy")
  BY <1>2 DEF Shape, Quiet
<1>4. \A e \in ToSet(t) : e.op = op
  BY <1>2 DEF ToSet
<1> QED
  BY <1>1, <1>3, <1>4 DEF t

LEMMA Entering ==
    ASSUME NEW r \in Rooms, NEW t, t = <<In("sadd", r), Do("online"), Do("note")>>
    PROVE  /\ t \in Seq(Await) /\ t # <<>> /\ Shape(t, "busy")
           /\ ToSet(t) = {In("sadd", r), Do("online"), Do("note")}
<1>1. /\ In("sadd", r) \in Await /\ Do("online") \in Await /\ Do("note") \in Await
      /\ In("sadd", r).op = "sadd" /\ Do("online").op = "online" /\ Do("note").op = "note"
  BY Asked DEF Quiet
<1>2. DOMAIN t = 1..3 /\ t[1] = In("sadd", r) /\ t[2] = Do("online") /\ t[3] = Do("note") /\ t # <<>> /\ t \in Seq(Await)
  BY <1>1
<1>3. Shape(t, "busy")
  <2>1. t[1].op = "sadd" /\ t[2].op = "online" /\ t[3].op = "note"
    BY <1>1, <1>2
  <2>2. \A i \in DOMAIN t : i \in Int /\ (i = 1 \/ i = 2 \/ i = 3)
    BY <1>2
  <2>3. \A i, j \in DOMAIN t : i <= j /\ t[i].op \in Quiet => t[j].op \in Quiet
    <3>1. \A i \in DOMAIN t : t[i].op \in Quiet => i = 3
      BY <2>1, <2>2 DEF Quiet
    <3>2. \A i, j \in DOMAIN t : i = 3 /\ i <= j => j = 3
      BY <2>2
    <3>3. t[3].op \in Quiet
      BY <2>1 DEF Quiet
    <3> QED
      BY <3>1, <3>2, <3>3
  <2>4. \A i \in DOMAIN t : t[i].op \notin {"srem", "offline"}
    BY <2>1, <2>2
  <2> QED
    BY <2>3, <2>4 DEF Shape
<1>4. ToSet(t) = {In("sadd", r), Do("online"), Do("note")}
  BY <1>2 DEF ToSet
<1> QED
  BY <1>2, <1>3, <1>4

LEMMA Leaving ==
    ASSUME NEW r \in Rooms, NEW t, t = <<In("srem", r), Do("note")>>
    PROVE  /\ t \in Seq(Await) /\ t # <<>> /\ Shape(t, "busy")
           /\ ToSet(t) = {In("srem", r), Do("note")}
<1>1. /\ In("srem", r) \in Await /\ Do("note") \in Await
      /\ In("srem", r).op = "srem" /\ Do("note").op = "note"
  BY Asked DEF Quiet
<1>2. DOMAIN t = 1..2 /\ t[1] = In("srem", r) /\ t[2] = Do("note") /\ t # <<>> /\ t \in Seq(Await)
  BY <1>1
<1>3. Shape(t, "busy")
  <2>1. t[1].op = "srem" /\ t[2].op = "note"
    BY <1>1, <1>2
  <2>2. \A i \in DOMAIN t : i \in Int /\ (i = 1 \/ i = 2)
    BY <1>2
  <2>3. \A i, j \in DOMAIN t : i <= j /\ t[i].op \in Quiet => t[j].op \in Quiet
    <3>1. \A i \in DOMAIN t : t[i].op \in Quiet => i = 2
      BY <2>1, <2>2 DEF Quiet
    <3>2. \A i, j \in DOMAIN t : i = 2 /\ i <= j => j = 2
      BY <2>2
    <3>3. t[2].op \in Quiet
      BY <2>1 DEF Quiet
    <3> QED
      BY <3>1, <3>2, <3>3
  <2>4. \A i \in DOMAIN t : t[i].op \notin {"sadd", "offline"}
    BY <2>1, <2>2
  <2> QED
    BY <2>3, <2>4 DEF Shape
<1>4. ToSet(t) = {In("srem", r), Do("note")}
  BY <1>2 DEF ToSet
<1> QED
  BY <1>2, <1>3, <1>4

\* The receipt and the note of a message, in either order.
LEMMA SideBySide ==
    ASSUME NEW t \in SetToSeqs({Do("note"), Do("receipt")})
    PROVE  t \in Seq(Await) /\ Shape(t, "busy") /\ \A e \in ToSet(t) : e.op \in Quiet
<1> DEFINE S == {Do("note"), Do("receipt")}
<1>1. IsFiniteSet({Do("note")}) /\ IsFiniteSet({Do("note")} \cup {Do("receipt")})
  BY FS_Singleton, FS_AddElement
<1>2. S = {Do("note")} \cup {Do("receipt")}
  OBVIOUS
<1>3. Cardinality(S) \in Nat
  BY <1>1, <1>2, FS_CardinalityType
<1>4. \A e \in S : e \in Await /\ e.op \in {"note", "receipt"}
  BY Asked DEF Quiet
<1>5. t \in [1..Cardinality(S) -> S]
  BY DEF SetToSeqs
<1> HIDE DEF S
<1>6. t \in Seq(Await) /\ \A i \in DOMAIN t : t[i] \in S
  BY <1>3, <1>4, <1>5
<1> QED
  BY <1>4, <1>6 DEF Shape, ToSet, Quiet

\* One await less.
LEMMA Behead ==
    ASSUME NEW t \in Seq(Await), t # <<>>, NEW p, Shape(t, p)
    PROVE  /\ t[1] \in Await /\ Tail(t) \in Seq(Await) /\ Shape(Tail(t), p)
           /\ ToSet(t) = {t[1]} \cup ToSet(Tail(t))
           /\ Tail(t) = <<>> <=> ~(Len(t) > 1)
<1>1. /\ Len(t) \in Nat \ {0} /\ DOMAIN t = 1..Len(t) /\ Tail(t) \in Seq(Await)
      /\ DOMAIN Tail(t) = 1..(Len(t) - 1) /\ Len(Tail(t)) = Len(t) - 1
      /\ \A i \in 1..(Len(t) - 1) : Tail(t)[i] = t[i + 1]
  OBVIOUS
<1>2. Shape(Tail(t), p)
  BY <1>1 DEF Shape
<1>3. ToSet(t) \subseteq {t[1]} \cup ToSet(Tail(t))
  <2> SUFFICES ASSUME NEW i \in 1..Len(t), i # 1 PROVE t[i] \in ToSet(Tail(t))
    BY <1>1 DEF ToSet
  <2>1. i - 1 \in DOMAIN Tail(t) /\ Tail(t)[i - 1] = t[i]
    BY <1>1
  <2> QED
    BY <2>1 DEF ToSet
<1>4. {t[1]} \cup ToSet(Tail(t)) \subseteq ToSet(t)
  BY <1>1 DEF ToSet
<1>5. Tail(t) = <<>> <=> ~(Len(t) > 1)
  <2>1. Len(<<>>) = 0
    OBVIOUS
  <2>2. Tail(t) # <<>> => Len(Tail(t)) \in Nat \ {0}
    BY <1>1, EmptySeq
  <2> QED
    BY <1>1, <2>1, <2>2
<1> QED
  BY <1>1, <1>2, <1>3, <1>4, <1>5

\* A finite set as a sequence has all its elements.
LEMMA AllInSeq ==
    ASSUME NEW S, IsFiniteSet(S)
    PROVE  /\ Cardinality(S) \in Nat /\ SetToSeq(S) \in [1..Cardinality(S) -> S]
           /\ \A x \in S : \E i \in 1..Cardinality(S) : SetToSeq(S)[i] = x
<1> DEFINE n == Cardinality(S)
<1>1. n \in Nat /\ ExistsBijection(1..n, S)
  BY FS_CardinalityType
<1>2. \E f \in [1..n -> S] : IsInjective(f)
  BY <1>1 DEF ExistsBijection, Bijection, Injection
<1>3. SetToSeq(S) \in [1..n -> S] /\ IsInjective(SetToSeq(S))
  BY <1>2 DEF SetToSeq
<1>4. IsFiniteSet(1..n) /\ Cardinality(1..n) = n
  BY <1>1, FS_Interval
<1>5. SetToSeq(S) \in Injection(1..n, S)
  BY <1>3 DEF Injection
<1>6. SetToSeq(S) \in Surjection(1..n, S)
  BY <1>4, <1>5, FS_Injection
<1> QED
  BY <1>1, <1>3, <1>6 DEF Surjection

\* The cleanup takes a user out of all her rooms, then offline.
LEMMA OfflineAwaits ==
    ASSUME NEW u
    PROVE  /\ Offline(u) \in Seq(Await) /\ Offline(u) # <<>> /\ Shape(Offline(u), "cleanup")
           /\ Do("offline") \in ToSet(Offline(u))
           /\ \A r \in RoomsOf(u) : In("srem", r) \in ToSet(Offline(u))
           /\ \A e \in ToSet(Offline(u)) : e.op \in {"srem", "offline"}
<1> DEFINE n == Cardinality(RoomsOf(u))
           q == SetToSeq(RoomsOf(u))
           a == [i \in 1..n |-> In("srem", q[i])]
           b == <<Do("offline")>>
<1>1. RoomsOf(u) \subseteq Rooms /\ IsFiniteSet(RoomsOf(u))
  BY FS_Subset DEF RoomsOf
<1>2. n \in Nat /\ q \in [1..n -> RoomsOf(u)] /\ \A r \in RoomsOf(u) : \E i \in 1..n : q[i] = r
  BY <1>1, AllInSeq
<1>3. Offline(u) = a \o b
  BY DEF Offline
<1> HIDE DEF n, q
<1>4. a \in Seq(Await) /\ Len(a) = n /\ \A i \in 1..n : a[i] = In("srem", q[i]) /\ a[i].op = "srem"
  BY <1>1, <1>2, Asked
<1>5. b \in Seq(Await) /\ Len(b) = 1 /\ b[1] = Do("offline") /\ b[1].op = "offline"
  BY Asked
<1> HIDE DEF a, b
<1>6. /\ a \o b \in Seq(Await) /\ DOMAIN (a \o b) = 1..(n + 1)
      /\ \A i \in 1..n : (a \o b)[i] = a[i]
      /\ (a \o b)[n + 1] = b[1]
  <2>1. a \o b \in Seq(Await) /\ Len(a \o b) = n + 1
    <3>1. a \in Seq(Await) /\ b \in Seq(Await) /\ Len(a) = n /\ Len(b) = 1
      BY <1>4, <1>5
    <3> QED
      BY <3>1, ConcatProperties
  <2>2. \A i \in 1..(n + 1) : (a \o b)[i] = IF i <= n THEN a[i] ELSE b[i - n]
    BY <1>2, <1>4, <1>5, ConcatProperties
  <2>3. DOMAIN (a \o b) = 1..(n + 1)
    BY <2>1
  <2> QED
    BY <2>1, <2>2, <2>3, <1>2
<1>7. \A i \in DOMAIN (a \o b) : (a \o b)[i].op \in {"srem", "offline"}
  <2> SUFFICES ASSUME NEW i \in 1..(n + 1) PROVE (a \o b)[i].op \in {"srem", "offline"}
    BY <1>6
  <2>1. i \in 1..n \/ i = n + 1
    BY <1>2
  <2> QED
    BY <2>1, <1>4, <1>5, <1>6
<1>8. Shape(a \o b, "cleanup")
  BY <1>7 DEF Shape, Quiet
<1>9. Do("offline") \in ToSet(a \o b)
  <2>1. n + 1 \in DOMAIN (a \o b)
    BY <1>2, <1>6
  <2>2. (a \o b)[n + 1] = Do("offline")
    BY <1>2, <1>5, <1>6
  <2> QED
    BY <2>1, <2>2 DEF ToSet
<1>10. \A r \in RoomsOf(u) : In("srem", r) \in ToSet(a \o b)
  BY <1>2, <1>4, <1>6 DEF ToSet
<1>11. a \o b # <<>>
  BY <1>2, <1>6
<1>12. \A e \in ToSet(a \o b) : e.op \in {"srem", "offline"}
  BY <1>7 DEF ToSet
<1> QED
  BY <1>3, <1>6, <1>8, <1>9, <1>10, <1>11, <1>12

------------------------------------------------------------------------------
(* Types *)

HubType == TypeOK /\ todo \in [Socks -> Seq(Await)]

LEMMA CounterSteps ==
    /\ RL!Fresh \in [n : 0..(Limit + 1), ttl : BOOLEAN]
    /\ \A c \in [n : 0..(Limit + 1), ttl : BOOLEAN] :
         /\ RL!Incr(c) \in [n : 0..(Limit + 1), ttl : BOOLEAN]
         /\ RL!Expire(c) \in [n : 0..(Limit + 1), ttl : BOOLEAN]
         /\ RL!Elapse(c) \in [n : 0..(Limit + 1), ttl : BOOLEAN]
         /\ ~RL!Stuck(RL!Fresh) /\ ~RL!Stuck(RL!Expire(c)) /\ ~RL!Stuck(RL!Elapse(c))
         /\ RL!Stuck(RL!Incr(c)) => RL!StartsWindow(RL!Incr(c)) \/ RL!Stuck(c)
<1>1. 0 \in 0..(Limit + 1) /\ FALSE \in BOOLEAN
  OBVIOUS
<1>2. ASSUME NEW c \in [n : 0..(Limit + 1), ttl : BOOLEAN]
      PROVE  /\ RL!Incr(c) \in [n : 0..(Limit + 1), ttl : BOOLEAN]
             /\ RL!Stuck(RL!Incr(c)) => RL!StartsWindow(RL!Incr(c)) \/ RL!Stuck(c)
  <2>1. PICK n \in 0..(Limit + 1), b \in BOOLEAN : c = [n |-> n, ttl |-> b]
    OBVIOUS
  <2>2. RL!Incr(c) = [n |-> IF n > Limit THEN n ELSE n + 1, ttl |-> b]
    BY <2>1 DEF RL!Incr
  <2>3. (IF n > Limit THEN n ELSE n + 1) \in 0..(Limit + 1)
    OBVIOUS
  <2> QED
    BY <2>1, <2>2, <2>3 DEF RL!Stuck, RL!StartsWindow
<1>3. ASSUME NEW c \in [n : 0..(Limit + 1), ttl : BOOLEAN]
      PROVE  /\ RL!Expire(c) \in [n : 0..(Limit + 1), ttl : BOOLEAN]
             /\ ~RL!Stuck(RL!Expire(c))
  <2>1. PICK n \in 0..(Limit + 1), b \in BOOLEAN : c = [n |-> n, ttl |-> b]
    OBVIOUS
  <2>2. RL!Expire(c) = [n |-> n, ttl |-> (c.n > 0)] /\ c.n = n
    BY <2>1 DEF RL!Expire
  <2>3. CASE n > 0
    <3>1. RL!Expire(c) = [n |-> n, ttl |-> TRUE]
      BY <2>2, <2>3
    <3>2. RL!Expire(c) \in [n : 0..(Limit + 1), ttl : BOOLEAN] /\ RL!Expire(c).ttl = TRUE
      BY <3>1
    <3> QED
      BY <3>2 DEF RL!Stuck
  <2>4. CASE ~(n > 0)
    <3>1. (c.n > 0) = FALSE
      BY <2>2, <2>4
    <3> QED
      BY <2>2, <2>4, <3>1 DEF RL!Stuck
  <2> QED
    BY <2>3, <2>4
<1> QED
  BY <1>1, <1>2, <1>3 DEF RL!Fresh, RL!Elapse, RL!Stuck

LEMMA TableSizeType == conns \in [Users -> Socks \cup {None}] => TableSize \in 0..Cardinality(Users)
<1>1. /\ IsFiniteSet({u \in Users : conns[u] # None})
      /\ Cardinality({u \in Users : conns[u] # None}) <= Cardinality(Users)
  BY FS_Subset
<1> QED
  BY <1>1, FS_CardinalityType DEF TableSize

\* What a step leaves of a session.
Becomes(s, p, w, t) ==
    \A x \in Socks :
        /\ pc'[x] = IF x = s THEN p ELSE pc[x]
        /\ user'[x] = IF x = s THEN w ELSE user[x]
        /\ todo'[x] = IF x = s THEN t ELSE todo[x]

------------------------------------------------------------------------------
(* The steps of a session, by what they do to it *)

\* The tables and what Redis holds are left alone.
Aside == UNCHANGED <<tables, shared, crossed, scarred>>

Begins(s) ==
    /\ pc[s] = "open" /\ Aside
    /\ \E op \in {"reply", "incr"} : Becomes(s, "busy", user[s], <<Do(op)>>)

Opens(s) ==
    /\ pc[s] = "authed" /\ Becomes(s, "open", user[s], todo[s])
    /\ conns' = [conns EXCEPT ![user[s]] = s]
    /\ UNCHANGED <<rooms, mine, shared, crossed, scarred>>

Refused(s) == pc[s] = "authed" /\ Becomes(s, "none", None, todo[s]) /\ Aside

\* The first of the awaits is over.
Ran(s) ==
    /\ todo[s] # <<>> /\ todo[s][1].op \notin {"expire", "incr"}
    /\ LET over == Tail(todo[s]) = <<>> /\ pc[s] = "cleanup"
       IN Becomes(s, IF Tail(todo[s]) # <<>> THEN pc[s] ELSE IF over THEN "none" ELSE "open",
                  IF over THEN None ELSE user[s], Tail(todo[s]))
    /\ PresenceCall(s) \/ (todo[s][1].op \in Quiet /\ UNCHANGED <<pres, online>>)
    /\ UNCHANGED <<tables, rate, crossed, scarred>>

\* send_to_user is at its send.
Sends(s) ==
    /\ Now(s, "receipt") /\ Aside
    /\ Becomes(s, pc[s], user[s], [todo[s] EXCEPT ![1] = Do("receipt ends")])

\* A handler was reached: it entered a room, left one, or did neither.
Served(s, t) ==
    /\ pc[s] = "busy" /\ (Now(s, "incr") \/ Now(s, "expire"))
    /\ t \in Seq(Await) /\ Shape(t, "busy")
    /\ Becomes(s, IF t # <<>> THEN "busy" ELSE "open", user[s], t)
    /\ \/ \E r \in Rooms : /\ t = <<In("sadd", r), Do("online"), Do("note")>>
                           /\ rooms' = rooms \cup {<<user[s], r>>} /\ mine' = mine \cup {<<user[s], r>>}
       \/ \E r \in Rooms : /\ t = <<In("srem", r), Do("note")>>
                           /\ rooms' = rooms \ {<<user[s], r>>} /\ mine' = mine \ {<<user[s], r>>}
       \/ (\A e \in ToSet(t) : e.op \in Quiet) /\ UNCHANGED <<rooms, mine>>
    /\ UNCHANGED <<conns, pres, online, crossed, scarred>>

\* The counter of the user of s, before its EXPIRE or after.
Counted(s, t) ==
    /\ rate' \in [Users -> RL!Counter]
    /\ \A u \in Users \ {user[s]} : rate'[u] = rate[u]
    /\ \/ Now(s, "incr") /\ (RL!Stuck(rate'[user[s]]) => RL!Stuck(rate[user[s]]) \/ t = <<Do("expire")>>)
       \/ Now(s, "expire") /\ ~RL!Stuck(rate'[user[s]])

\* The session goes into its cleanup; what it gives up is quiet, unless it was
\* Redis that failed.
Ends(s) ==
    /\ pc[s] \in {"open", "busy"}
    /\ LeaveAll(user[s]) /\ conns' = Disconnected(user[s], s)
    /\ Becomes(s, "cleanup", user[s], Offline(user[s]))
    /\ UNCHANGED <<shared, crossed>>
    /\ \/ scarred' = scarred \cup {user[s]}
       \/ scarred' = scarred /\ ~Now(s, "expire") /\ \A e \in ToSet(todo[s]) : e.op \in Quiet

\* The cleanup is cut short.
Aborts(s) ==
    /\ pc[s] = "cleanup" /\ Becomes(s, "none", None, <<>>)
    /\ UNCHANGED <<tables, shared, crossed>> /\ scarred' = scarred \cup {user[s]}

\* Nothing that the sessions and the tables are made of.
Around ==
    /\ UNCHANGED <<pc, user, todo, tables, pres, online, crossed, scarred>>
    /\ \/ rate' = rate
       \/ \E u \in Users : rate' = [rate EXCEPT ![u] = RL!Elapse(@)]

Step(s) ==
    \/ Begins(s) \/ Opens(s) \/ Refused(s) \/ Ran(s) \/ Sends(s) \/ Ends(s) \/ Aborts(s)
    \/ \E t \in Seq(Await) : Served(s, t) /\ Counted(s, t)

\* What a session is for the steps below.
LEMMA SessionFacts ==
    ASSUME HubIInv, NEW s \in Socks
    PROVE  /\ user[s] \in Users \cup {None} /\ (pc[s] # "none" <=> user[s] \in Users)
           /\ todo[s] \in Seq(Await) /\ Shape(todo[s], pc[s])
           /\ todo[s] # <<>> <=> pc[s] \in {"busy", "cleanup"}
           /\ \A op : Now(s, op) <=> todo[s] # <<>> /\ todo[s][1].op = op
  BY DEF HubIInv, HubInv, TypeOK, SessionOK, Now

LEMMA Advanced ==
    ASSUME HubIInv, NEW s \in Socks, todo[s] # <<>>, Advance(s)
    PROVE  /\ LET over == Tail(todo[s]) = <<>> /\ pc[s] = "cleanup"
              IN Becomes(s, IF Tail(todo[s]) # <<>> THEN pc[s] ELSE IF over THEN "none" ELSE "open",
                         IF over THEN None ELSE user[s], Tail(todo[s]))
           /\ todo' \in [Socks -> Seq(Await)]
           /\ pc' \in [Socks -> {"none", "authed", "open", "busy", "cleanup"}]
           /\ user' \in [Socks -> Users \cup {None}] /\ gone' \subseteq Socks
<1>1. HubType
  BY DEF HubIInv, HubInv, HubType
<1>2. /\ Tail(todo[s]) \in Seq(Await)
      /\ Tail(todo[s]) = <<>> <=> ~(Len(todo[s]) > 1)
  BY SessionFacts, Behead
<1>3. todo' = [todo EXCEPT ![s] = Tail(todo[s])]
  BY DEF Advance
<1>4. todo' \in [Socks -> Seq(Await)]
  BY <1>1, <1>2, <1>3 DEF HubType
<1>5. CASE Len(todo[s]) > 1
  <2>1. UNCHANGED <<pc, user, gone>>
    BY <1>5 DEF Advance
  <2>2. Becomes(s, pc[s], user[s], Tail(todo[s]))
    BY <1>1, <1>3, <2>1 DEF Becomes, HubType
  <2> QED
    BY <1>1, <1>2, <1>4, <1>5, <2>1, <2>2 DEF HubType, TypeOK
<1>6. CASE ~(Len(todo[s]) > 1) /\ pc[s] = "cleanup"
  <2>1. pc' = [pc EXCEPT ![s] = "none"] /\ user' = [user EXCEPT ![s] = None] /\ gone' = gone \ {s}
    BY <1>6 DEF Advance, Over
  <2>2. Becomes(s, "none", None, Tail(todo[s]))
    BY <1>1, <1>3, <2>1 DEF Becomes, HubType, TypeOK
  <2> QED
    BY <1>1, <1>2, <1>4, <1>6, <2>1, <2>2 DEF HubType, TypeOK
<1>7. CASE ~(Len(todo[s]) > 1) /\ pc[s] # "cleanup"
  <2>1. pc' = [pc EXCEPT ![s] = "open"] /\ UNCHANGED <<user, gone>>
    BY <1>7 DEF Advance
  <2>2. Becomes(s, "open", user[s], Tail(todo[s]))
    BY <1>1, <1>3, <2>1 DEF Becomes, HubType, TypeOK
  <2> QED
    BY <1>1, <1>2, <1>4, <1>7, <2>1, <2>2 DEF HubType, TypeOK
<1> QED
  BY <1>5, <1>6, <1>7

\* The awaits a handler leaves behind.
LEMMA Dispatched ==
    ASSUME HubIInv, NEW s \in Socks, pc[s] = "busy", Dispatch(s)
    PROVE  \E t \in Seq(Await) :
             /\ Shape(t, "busy") /\ todo' = [todo EXCEPT ![s] = t]
             /\ \/ \E r \in Rooms : /\ t = <<In("sadd", r), Do("online"), Do("note")>>
                                    /\ rooms' = rooms \cup {<<user[s], r>>} /\ mine' = mine \cup {<<user[s], r>>}
                \/ \E r \in Rooms : /\ t = <<In("srem", r), Do("note")>>
                                    /\ rooms' = rooms \ {<<user[s], r>>} /\ mine' = mine \ {<<user[s], r>>}
                \/ (\A e \in ToSet(t) : e.op \in Quiet) /\ UNCHANGED <<rooms, mine>>
<1>1. ASSUME NEW r \in Rooms, JoinRoom(s, r)
      PROVE  \E t \in Seq(Await) :
               /\ Shape(t, "busy") /\ todo' = [todo EXCEPT ![s] = t]
               /\ t = <<In("sadd", r), Do("online"), Do("note")>>
               /\ rooms' = rooms \cup {<<user[s], r>>} /\ mine' = mine \cup {<<user[s], r>>}
  BY <1>1, Entering DEF JoinRoom
<1>2. ASSUME NEW r \in Rooms, LeaveRoom(s, r)
      PROVE  \E t \in Seq(Await) :
               /\ Shape(t, "busy") /\ todo' = [todo EXCEPT ![s] = t]
               /\ t = <<In("srem", r), Do("note")>>
               /\ rooms' = rooms \ {<<user[s], r>>} /\ mine' = mine \ {<<user[s], r>>}
  BY <1>2, Leaving DEF LeaveRoom
<1>4. "note" \in Quiet /\ "reply" \in Quiet
  BY DEF Quiet
<1>5. /\ <<>> \in Seq(Await) /\ Shape(<<>>, "busy") /\ \A e \in ToSet(<<>>) : e.op \in Quiet
      /\ \A op \in {"note", "reply"} :
           <<Do(op)>> \in Seq(Await) /\ Shape(<<Do(op)>>, "busy") /\ \A e \in ToSet(<<Do(op)>>) : e.op \in Quiet
  BY <1>4, NothingShaped, OneAwait
<1>6. ASSUME NEW r \in Rooms, Message(s, r)
      PROVE  \E q \in Seq(Await) :
               /\ Shape(q, "busy") /\ todo' = [todo EXCEPT ![s] = q]
               /\ (\A e \in ToSet(q) : e.op \in Quiet) /\ UNCHANGED <<rooms, mine>>
  <2>1. PICK q : /\ q = <<>> \/ q \in SetToSeqs({Do("note"), Do("receipt")})
                 /\ todo' = [todo EXCEPT ![s] = q] /\ UNCHANGED <<rooms, mine>>
    BY <1>6 DEF Message
  <2>2. q \in Seq(Await) /\ Shape(q, "busy") /\ \A e \in ToSet(q) : e.op \in Quiet
    BY <2>1, <1>5, SideBySide
  <2> QED
    BY <2>1, <2>2
<1>7. ASSUME NEW r \in Rooms, Relay(s, r) \/ React(s, r)
      PROVE  \E q \in Seq(Await) :
               /\ Shape(q, "busy") /\ todo' = [todo EXCEPT ![s] = q]
               /\ (\A e \in ToSet(q) : e.op \in Quiet) /\ UNCHANGED <<rooms, mine>>
  <2>1. PICK q \in {<<>>, <<Do("note")>>} : todo' = [todo EXCEPT ![s] = q] /\ UNCHANGED <<rooms, mine>>
    BY <1>7 DEF Relay, React
  <2> QED
    BY <2>1, <1>5
<1>8. ASSUME Answer(s)
      PROVE  \E q \in Seq(Await) :
               /\ Shape(q, "busy") /\ todo' = [todo EXCEPT ![s] = q]
               /\ (\A e \in ToSet(q) : e.op \in Quiet) /\ UNCHANGED <<rooms, mine>>
  BY <1>8, <1>5 DEF Answer
<1> QED
  BY <1>1, <1>2, <1>6, <1>7, <1>8 DEF Dispatch

LEMMA Admitted ==
    ASSUME HubIInv, NEW s \in Socks, pc[s] = "busy", Now(s, "incr") \/ Now(s, "expire"),
           NEW c, Admit(s, c), UNCHANGED <<user, conns, pres, online, crossed, scarred>>
    PROVE  /\ \E t \in Seq(Await) : Served(s, t)
           /\ todo' \in [Socks -> Seq(Await)]
           /\ pc' \in [Socks -> {"none", "authed", "open", "busy", "cleanup"}]
           /\ rooms' \subseteq Users \X Rooms /\ mine' \subseteq Users \X Rooms
<1>1. "reply" \in Quiet
  BY DEF Quiet
<1>2. PICK t \in Seq(Await) :
        /\ Shape(t, "busy") /\ todo' = [todo EXCEPT ![s] = t]
        /\ \/ \E r \in Rooms : /\ t = <<In("sadd", r), Do("online"), Do("note")>>
                               /\ rooms' = rooms \cup {<<user[s], r>>} /\ mine' = mine \cup {<<user[s], r>>}
           \/ \E r \in Rooms : /\ t = <<In("srem", r), Do("note")>>
                               /\ rooms' = rooms \ {<<user[s], r>>} /\ mine' = mine \ {<<user[s], r>>}
           \/ (\A e \in ToSet(t) : e.op \in Quiet) /\ UNCHANGED <<rooms, mine>>
  <2>1. CASE Dispatch(s)
    BY <2>1, Dispatched
  <2>2. CASE todo' = [todo EXCEPT ![s] = <<Do("reply")>>] /\ UNCHANGED <<rooms, mine>>
    BY <2>2, <1>1, OneAwait
  <2> QED
    BY <2>1, <2>2 DEF Admit
<1>3. TypeOK /\ todo \in [Socks -> Seq(Await)] /\ user[s] \in Users
  BY SessionFacts DEF HubIInv, HubInv
<1>4. todo'[s] = t /\ pc' = [pc EXCEPT ![s] = IF t # <<>> THEN "busy" ELSE "open"]
  BY <1>2, <1>3 DEF Admit, Handled
<1>5. Becomes(s, IF t # <<>> THEN "busy" ELSE "open", user[s], t)
  BY <1>2, <1>3, <1>4 DEF Becomes, TypeOK
<1>6. Served(s, t)
  BY <1>2, <1>5 DEF Served
<1>7. todo' \in [Socks -> Seq(Await)] /\ pc' \in [Socks -> {"none", "authed", "open", "busy", "cleanup"}]
  BY <1>2, <1>3, <1>4 DEF TypeOK
<1>8. rooms' \subseteq Users \X Rooms /\ mine' \subseteq Users \X Rooms
  BY <1>2, <1>3 DEF TypeOK
<1> QED
  BY <1>6, <1>7, <1>8

LEMMA EndsStep ==
    ASSUME HubIInv, NEW s \in Socks, pc[s] \in {"open", "busy"}, Finally(s), 
           UNCHANGED <<user, gone, shared, redis, crossed, faults>>,
           \/ scarred' = scarred \cup {user[s]}
           \/ scarred' = scarred /\ ~Now(s, "expire") /\ \A e \in ToSet(todo[s]) : e.op \in Quiet
    PROVE  Ends(s) /\ HubType'
<1>1. TypeOK /\ todo \in [Socks -> Seq(Await)] /\ user[s] \in Users
  BY SessionFacts DEF HubIInv, HubInv
<1>2. /\ pc' = [pc EXCEPT ![s] = "cleanup"] /\ todo' = [todo EXCEPT ![s] = Offline(user[s])]
      /\ size' = [size EXCEPT ![s] = 0]
      /\ LeaveAll(user[s]) /\ conns' = Disconnected(user[s], s)
  BY DEF Finally
<1>3. Becomes(s, "cleanup", user[s], Offline(user[s]))
  BY <1>1, <1>2 DEF Becomes, TypeOK
<1>4. Cardinality(Users) \in Nat
  BY FS_CardinalityType
<1>5. todo' \in [Socks -> Seq(Await)]
  BY <1>1, <1>2, OfflineAwaits
<1>6. pc' \in [Socks -> {"none", "authed", "open", "busy", "cleanup"}] /\ size' \in [Socks -> 0..Cardinality(Users)]
  BY <1>1, <1>2, <1>4 DEF TypeOK
<1>7. rooms' \subseteq rooms /\ mine' \subseteq mine
  BY <1>2 DEF LeaveAll
<1>8. conns' \in [Users -> Socks \cup {None}]
  BY <1>1, <1>2 DEF TypeOK, Disconnected
<1>9. scarred' \subseteq Users
  BY <1>1 DEF TypeOK
<1>10. HubType'
  BY <1>1, <1>5, <1>6, <1>7, <1>8, <1>9 DEF HubType, TypeOK, shared
<1>11. Ends(s)
  BY <1>2, <1>3 DEF Ends
<1> QED
  BY <1>10, <1>11

\* What raises without Redis is quiet, and so is what follows it.
LEMMA RaisedQuietly ==
    ASSUME HubIInv, NEW s \in Socks, todo[s] # <<>>, Raises(s), ~RedisFails(s)
    PROVE  pc[s] = "busy" /\ ~Now(s, "expire") /\ \A e \in ToSet(todo[s]) : e.op \in Quiet
<1>1. todo[s][1].op \in {"note", "reply", "receipt ends"}
  BY DEF Raises, Now
<1>2. todo[s] \in Seq(Await) /\ Shape(todo[s], pc[s]) /\ pc[s] \in {"busy", "cleanup"}
  BY SessionFacts
<1>3. 1 \in DOMAIN todo[s] /\ \A i \in DOMAIN todo[s] : i \in Nat /\ 1 <= i
  BY <1>2
<1>4. pc[s] = "busy"
  BY <1>1, <1>2, <1>3 DEF Shape
<1>5. \A i \in DOMAIN todo[s] : todo[s][i].op \in Quiet
  BY <1>1, <1>2, <1>3 DEF Shape, Quiet
<1> QED
  BY <1>1, <1>4, <1>5 DEF ToSet, Now

LEMMA EndpointStep ==
    ASSUME HubIInv, NEW s \in Socks, Endpoint(s)
    PROVE  (Step(s) \/ Around) /\ HubType'
<1> DEFINE PCs == {"none", "authed", "open", "busy", "cleanup"}
<1> USE DEF HubType
<1>1. TypeOK /\ todo \in [Socks -> Seq(Await)]
  BY DEF HubIInv, HubInv
<1>2. Cardinality(Users) \in Nat
  BY FS_CardinalityType
<1>3. CASE Receive(s)
  <2>1. PICK op \in {"reply", "incr"} : todo' = [todo EXCEPT ![s] = <<Do(op)>>]
    BY <1>3 DEF Receive
  <2>2. <<Do(op)>> \in Seq(Await)
    BY <2>1, OneAwait DEF Quiet
  <2>3. /\ pc[s] = "open" /\ pc' = [pc EXCEPT ![s] = "busy"]
        /\ UNCHANGED <<size, user, gone, tables, shared, redis, history>>
    BY <1>3 DEF Receive
  <2>4. Becomes(s, "busy", user[s], <<Do(op)>>)
    BY <1>1, <2>1, <2>3 DEF Becomes, TypeOK
  <2>5. Begins(s)
    BY <2>1, <2>3, <2>4 DEF Begins, Aside, history
  <2>6. HubType'
    BY <1>1, <2>1, <2>2, <2>3 DEF TypeOK, tables, shared, history
  <2> QED
    BY <2>5, <2>6 DEF Step
<1>4. CASE Leave(s)
  <2>1. UNCHANGED <<pc, user, todo, size, tables, shared, redis, history>> /\ gone' = gone \cup {s}
    BY <1>4 DEF Leave
  <2>2. Around
    BY <2>1 DEF Around, shared, history
  <2>3. HubType'
    BY <1>1, <2>1 DEF TypeOK, tables, shared, history
  <2> QED
    BY <2>2, <2>3
<1>5. CASE Connect(s)
  <2>1. pc[s] = "authed" /\ UNCHANGED <<todo, size, rooms, mine, shared, redis, history>> /\ user[s] \in Users
    BY <1>5, SessionFacts DEF Connect
  <2>2. CASE pc' = [pc EXCEPT ![s] = "open"] /\ conns' = [conns EXCEPT ![user[s]] = s] /\ UNCHANGED <<user, gone>>
    <3>1. Becomes(s, "open", user[s], todo[s])
      BY <1>1, <2>1, <2>2 DEF Becomes, TypeOK
    <3>2. Opens(s)
      BY <2>1, <2>2, <3>1 DEF Opens, history
    <3>3. HubType'
      BY <1>1, <2>1, <2>2 DEF TypeOK, shared, history
    <3> QED
      BY <3>2, <3>3 DEF Step
  <2>3. CASE pc' = [pc EXCEPT ![s] = "none"] /\ Over(s) /\ UNCHANGED conns
    <3>1. Becomes(s, "none", None, todo[s])
      BY <1>1, <2>1, <2>3 DEF Becomes, TypeOK, Over
    <3>2. Refused(s)
      BY <2>1, <2>3, <3>1 DEF Refused, Aside, tables, history
    <3>3. HubType'
      BY <1>1, <2>1, <2>3 DEF TypeOK, shared, history, Over
    <3> QED
      BY <3>2, <3>3 DEF Step
  <2> QED
    BY <1>5, <2>2, <2>3 DEF Connect
<1>6. CASE ClientGone(s)
  <2>1. pc[s] = "open" /\ Finally(s) /\ UNCHANGED <<user, gone, shared, redis, history>> /\ todo[s] = <<>>
    BY <1>6, SessionFacts DEF ClientGone
  <2>2. ~Now(s, "expire") /\ \A e \in ToSet(todo[s]) : e.op \in Quiet
    BY <2>1, NothingShaped DEF Now
  <2>3. UNCHANGED <<user, gone, shared, redis, crossed, faults>> /\ scarred' = scarred
    BY <2>1 DEF history
  <2>4. Ends(s) /\ HubType'
    BY <2>1, <2>2, <2>3, EndsStep
  <2> QED
    BY <2>4 DEF Step
<1>7. CASE Raise(s)
  <2>1. /\ pc[s] = "busy" /\ todo[s] # <<>> /\ Raises(s) /\ Finally(s) /\ Scar(s)
        /\ UNCHANGED <<user, gone, pres, online, rate, redis, crossed, faults>>
    BY <1>7 DEF Raise
  <2>2. \/ scarred' = scarred \cup {user[s]}
        \/ scarred' = scarred /\ ~Now(s, "expire") /\ \A e \in ToSet(todo[s]) : e.op \in Quiet
    BY <2>1, RaisedQuietly DEF Scar
  <2>3. Ends(s) /\ HubType'
    BY <2>1, <2>2, EndsStep DEF shared
  <2> QED
    BY <2>3 DEF Step
<1>8. CASE CleanupRaises(s)
  <2>1. /\ pc[s] = "cleanup" /\ Raises(s) /\ todo[s] # <<>> /\ user[s] \in Users
        /\ pc' = [pc EXCEPT ![s] = "none"] /\ todo' = [todo EXCEPT ![s] = <<>>]
        /\ user' = [user EXCEPT ![s] = None] /\ gone' = gone \ {s} /\ Scar(s)
        /\ UNCHANGED <<size, tables, shared, redis, crossed, faults>>
    BY <1>8, SessionFacts DEF CleanupRaises, Over
  <2>2. scarred' = scarred \cup {user[s]}
    BY <2>1, RaisedQuietly DEF Scar
  <2>3. Becomes(s, "none", None, <<>>)
    BY <1>1, <2>1 DEF Becomes, TypeOK
  <2>4. Aborts(s)
    BY <2>1, <2>2, <2>3 DEF Aborts
  <2>5. todo' \in [Socks -> Seq(Await)]
    BY <1>1, <2>1
  <2>6. HubType'
    BY <1>1, <2>1, <2>2, <2>5 DEF TypeOK, tables, shared
  <2> QED
    BY <2>4, <2>6 DEF Step
<1>9. CASE Count(s)
  <2> DEFINE c == RL!Incr(rate[user[s]])
  <2>1. /\ pc[s] = "busy" /\ Now(s, "incr") /\ user[s] \in Users
        /\ rate' = [rate EXCEPT ![user[s]] = c]
        /\ UNCHANGED <<size, user, gone, conns, pres, online, redis, history>>
    BY <1>9, SessionFacts DEF Count
  <2>2. rate' \in [Users -> RL!Counter] /\ c \in RL!Counter /\ rate'[user[s]] = c
    BY <1>1, <2>1, CounterSteps DEF TypeOK, RL!Counter
  <2>3. \A u \in Users \ {user[s]} : rate'[u] = rate[u]
    BY <1>1, <2>1 DEF TypeOK
  <2>4. RL!Stuck(c) => RL!StartsWindow(c) \/ RL!Stuck(rate[user[s]])
    BY <1>1, <2>1, CounterSteps DEF TypeOK
  <2> HIDE DEF c
  <2>5. CASE RL!StartsWindow(c)
    <3>1. todo' = [todo EXCEPT ![s] = <<Do("expire")>>] /\ UNCHANGED <<pc, rooms, mine>>
      BY <1>9, <2>5 DEF Count, c
    <3>2. <<Do("expire")>> \in Seq(Await) /\ Shape(<<Do("expire")>>, "busy") /\ <<Do("expire")>> # <<>>
      BY OneAwait DEF Quiet
    <3>3. \A e \in ToSet(<<Do("expire")>>) : e.op \in Quiet
      BY OneAwait DEF Quiet
    <3>4. Becomes(s, "busy", user[s], <<Do("expire")>>)
      BY <1>1, <2>1, <3>1 DEF Becomes, TypeOK
    <3>5. Served(s, <<Do("expire")>>)
      BY <2>1, <3>1, <3>2, <3>3, <3>4 DEF Served, history
    <3>6. Counted(s, <<Do("expire")>>)
      BY <2>1, <2>2, <2>3 DEF Counted
    <3>7. todo' \in [Socks -> Seq(Await)]
      BY <1>1, <3>1, <3>2
    <3>8. HubType'
      BY <1>1, <2>1, <2>2, <3>1, <3>7 DEF TypeOK, history, RL!Counter
    <3> QED
      BY <3>2, <3>5, <3>6, <3>8 DEF Step
  <2>6. CASE ~RL!StartsWindow(c)
    <3>1. Admit(s, c)
      BY <1>9, <2>6 DEF Count, c
    <3>2. /\ \E t \in Seq(Await) : Served(s, t)
          /\ todo' \in [Socks -> Seq(Await)] /\ pc' \in [Socks -> PCs]
          /\ rooms' \subseteq Users \X Rooms /\ mine' \subseteq Users \X Rooms
      BY <2>1, <3>1, Admitted DEF history
    <3>3. ASSUME NEW t PROVE Counted(s, t)
      BY <2>1, <2>2, <2>3, <2>4, <2>6 DEF Counted
    <3>4. HubType'
      BY <1>1, <2>1, <2>2, <3>2 DEF TypeOK, history, RL!Counter
    <3> QED
      BY <3>2, <3>3, <3>4 DEF Step
  <2> QED
    BY <2>5, <2>6
<1>10. CASE StartWindow(s)
  <2> DEFINE c == RL!Expire(rate[user[s]])
  <2>1. /\ pc[s] = "busy" /\ Now(s, "expire") /\ user[s] \in Users
        /\ rate' = [rate EXCEPT ![user[s]] = c]
        /\ UNCHANGED <<size, user, gone, conns, pres, online, redis, history>>
        /\ Admit(s, [rate[user[s]] EXCEPT !.n = 1])
    BY <1>10, SessionFacts DEF StartWindow
  <2>2. rate' \in [Users -> RL!Counter] /\ c \in RL!Counter /\ rate'[user[s]] = c /\ ~RL!Stuck(c)
    BY <1>1, <2>1, CounterSteps DEF TypeOK, RL!Counter
  <2>3. \A u \in Users \ {user[s]} : rate'[u] = rate[u]
    BY <1>1, <2>1 DEF TypeOK
  <2> HIDE DEF c
  <2>4. /\ \E t \in Seq(Await) : Served(s, t)
        /\ todo' \in [Socks -> Seq(Await)] /\ pc' \in [Socks -> PCs]
        /\ rooms' \subseteq Users \X Rooms /\ mine' \subseteq Users \X Rooms
    BY <2>1, Admitted DEF history
  <2>5. ASSUME NEW t PROVE Counted(s, t)
    BY <2>1, <2>2, <2>3 DEF Counted
  <2>6. HubType'
    BY <1>1, <2>1, <2>2, <2>4 DEF TypeOK, history, RL!Counter
  <2> QED
    BY <2>4, <2>5, <2>6 DEF Step
<1>11. ASSUME Advance(s), todo[s] # <<>>, todo[s][1].op \notin {"expire", "incr"},
              PresenceCall(s) \/ (todo[s][1].op \in Quiet /\ UNCHANGED <<pres, online>>),
              UNCHANGED <<tables, rate, redis, history>>, size' \in [Socks -> 0..Cardinality(Users)]
       PROVE  Ran(s) /\ HubType'
  <2>1. Ran(s)
    BY <1>11, Advanced DEF Ran, history
  <2>2. todo' \in [Socks -> Seq(Await)] /\ pc' \in [Socks -> PCs] /\ user' \in [Socks -> Users \cup {None}] /\ gone' \subseteq Socks
    BY <1>11, Advanced
  <2>3. pres' \subseteq Users \X Rooms /\ online' \subseteq Users
    <3>1. user[s] \in Users /\ todo[s][1] \in Await
      BY <1>11, SessionFacts, Behead
    <3>2. todo[s][1].op = "sadd" => todo[s][1].room \in Rooms
      BY <3>1, AwaitFields
    <3> QED
      BY <1>1, <1>11, <3>1, <3>2 DEF PresenceCall, TypeOK, Now
  <2>4. HubType'
    BY <1>1, <1>11, <2>2, <2>3 DEF TypeOK, tables, history
  <2> QED
    BY <2>1, <2>4
<1>12. CASE Presence(s)
  <2>1. PresenceCall(s) /\ Advance(s) /\ UNCHANGED <<size, tables, rate, redis, history>>
    BY <1>12 DEF Presence
  <2>2. todo[s] # <<>> /\ todo[s][1].op \notin {"expire", "incr"}
    BY <2>1 DEF PresenceCall, Now
  <2> QED
    BY <1>1, <1>11, <2>1, <2>2 DEF TypeOK, Step
<1>13. ASSUME NEW op \in Quiet \ {"incr", "expire"}, Now(s, op), Advance(s),
              UNCHANGED <<tables, shared, redis, history>>, size' \in [Socks -> 0..Cardinality(Users)]
       PROVE  Ran(s) /\ HubType'
  BY <1>11, <1>13 DEF Now, shared
<1>14. CASE Publish(s)
  BY <1>1, <1>13, <1>14 DEF Publish, Quiet, TypeOK, Step
<1>15. CASE Reply(s)
  BY <1>1, <1>13, <1>15 DEF Reply, Quiet, TypeOK, Step
<1>17. CASE ReceiptEnds(s)
  <2>1. Now(s, "receipt ends") /\ Advance(s) /\ UNCHANGED <<tables, shared, redis, history>> /\ size' = [size EXCEPT ![s] = 0]
    BY <1>17 DEF ReceiptEnds
  <2>2. 0 \in 0..Cardinality(Users)
    BY <1>2
  <2>3. size' \in [Socks -> 0..Cardinality(Users)]
    BY <1>1, <2>1, <2>2 DEF TypeOK
  <2> QED
    BY <1>13, <2>1, <2>3 DEF Quiet, Step
<1>16. CASE Receipt(s)
  <2>1. CASE Advance(s) /\ UNCHANGED size
    BY <1>1, <1>13, <1>16, <2>1 DEF Receipt, Quiet, TypeOK, Step
  <2>2. CASE /\ todo' = [todo EXCEPT ![s][1].op = "receipt ends"]
             /\ size' = [size EXCEPT ![s] = TableSize] /\ UNCHANGED <<pc, user, gone>>
    <3> DEFINE t == [todo[s] EXCEPT ![1] = Do("receipt ends")]
    <3>1. todo[s] \in Seq(Await) /\ todo[s] # <<>> /\ todo[s][1].op = "receipt" /\ todo[s][1] \in Await
      BY <1>1, <1>16, SessionFacts, Behead DEF Receipt, Now
    <3>2. todo[s][1] = Do("receipt") /\ Do("receipt ends") \in Await
      <4>1. todo[s][1] = Do(todo[s][1].op)
        BY <3>1, AwaitFields
      <4>2. "receipt ends" \in Quiet
        BY DEF Quiet
      <4> QED
        BY <3>1, <4>1, <4>2, Asked
    <3>3. [todo[s][1] EXCEPT !.op = "receipt ends"] = Do("receipt ends")
      <4>1. PICK e : e = [Do("receipt") EXCEPT !.op = "receipt ends"]
        OBVIOUS
      <4>2. e \in [op : {"receipt ends"}, room : {None}]
        BY <4>1 DEF Do
      <4>3. e = Do("receipt ends")
        BY <4>2 DEF Do
      <4> QED
        BY <3>2, <4>1, <4>3
    <3>4. t \in Seq(Await)
      <4>1. 1 \in 1..Len(todo[s])
        BY <3>1
      <4> QED
        BY <3>1, <3>2, <4>1, ExceptSeq
    <3>5. todo' = [todo EXCEPT ![s] = t]
      BY <2>2, <3>3
    <3> HIDE DEF t
    <3>6. Becomes(s, pc[s], user[s], t)
      BY <1>1, <2>2, <3>5 DEF Becomes, TypeOK
    <3>7. Sends(s)
      BY <1>16, <3>6 DEF Sends, Receipt, Aside, history, t
    <3>8. todo' \in [Socks -> Seq(Await)]
      BY <1>1, <3>4, <3>5
    <3>9. size' \in [Socks -> 0..Cardinality(Users)]
      BY <1>1, <2>2, TableSizeType DEF TypeOK
    <3>10. HubType'
      BY <1>1, <1>16, <2>2, <3>8, <3>9 DEF TypeOK, Receipt, tables, shared, history
    <3> QED
      BY <3>7, <3>10 DEF Step
  <2> QED
    BY <1>16, <2>1, <2>2 DEF Receipt
<1> QED
  BY <1>3, <1>4, <1>5, <1>6, <1>7, <1>8, <1>9, <1>10, <1>12, <1>14, <1>15, <1>16, <1>17 DEF Endpoint, Step

------------------------------------------------------------------------------
(* Sessions and tables *)

LEMMA QuietAsks ==
    ASSUME NEW t, \A e \in ToSet(t) : e.op \in Quiet
    PROVE  /\ \A r : In("sadd", r) \notin ToSet(t) /\ In("srem", r) \notin ToSet(t)
           /\ Do("online") \notin ToSet(t) /\ Do("offline") \notin ToSet(t)
  BY DEF Quiet, In, Do

\* A send to the user takes the place of the look for the socket.
LEMMA SendTodo ==
    ASSUME HubIInv, NEW s \in Socks, Now(s, "receipt"),
           NEW t, t = [todo[s] EXCEPT ![1] = Do("receipt ends")]
    PROVE  /\ t \in Seq(Await) /\ t # <<>> /\ Shape(t, pc[s])
           /\ \A e : e.op \notin Quiet => (e \in ToSet(t) <=> e \in ToSet(todo[s]))
           /\ pc[s] = "busy"
<1>1. /\ todo[s] \in Seq(Await) /\ todo[s] # <<>> /\ Shape(todo[s], pc[s]) /\ pc[s] \in {"busy", "cleanup"}
      /\ todo[s][1].op = "receipt"
  BY SessionFacts DEF Now
<1>2. Len(todo[s]) \in Nat /\ DOMAIN todo[s] = 1..Len(todo[s]) /\ 1 \in 1..Len(todo[s])
  BY <1>1, Filled
<1>3. Do("receipt ends") \in Await /\ Do("receipt ends").op = "receipt ends" /\ "receipt ends" \in Quiet /\ "receipt" \in Quiet
  BY Asked DEF Quiet
<1>4. /\ t \in Seq(Await) /\ DOMAIN t = DOMAIN todo[s] /\ t[1] = Do("receipt ends")
      /\ \A i \in DOMAIN todo[s] : i # 1 => t[i] = todo[s][i]
  <2>1. t \in Seq(Await)
    BY <1>1, <1>2, <1>3, ExceptSeq
  <2> QED
    BY <2>1, <1>1, <1>2
<1>5. t # <<>>
  BY <1>2, <1>4, Filled
<1>6. pc[s] = "busy"
  BY <1>1, <1>2 DEF Shape
<1>7. \A i \in DOMAIN t : /\ t[i].op \in Quiet <=> todo[s][i].op \in Quiet
                          /\ t[i].op = todo[s][i].op \/ (t[i].op \in Quiet /\ todo[s][i].op \in Quiet)
  BY <1>1, <1>3, <1>4
<1>8. Shape(t, pc[s])
  <2>1. \A i, j \in DOMAIN t : i <= j /\ t[i].op \in Quiet => t[j].op \in Quiet
    BY <1>1, <1>4, <1>7 DEF Shape
  <2>2. \A i \in DOMAIN t : t[i].op # "offline"
    BY <1>1, <1>3, <1>4, <1>6 DEF Shape
  <2>3. \A i, j \in DOMAIN t : t[i].op = "sadd" => t[j].op # "srem"
    <3>1. "sadd" \notin Quiet /\ "srem" \notin Quiet
      BY DEF Quiet
    <3>2. \A i \in DOMAIN t : /\ t[i].op = "sadd" => todo[s][i].op = "sadd"
                              /\ t[i].op = "srem" => todo[s][i].op = "srem"
      BY <1>7, <3>1
    <3>3. \A i, j \in DOMAIN todo[s] : todo[s][i].op = "sadd" => todo[s][j].op # "srem"
      BY <1>1 DEF Shape
    <3>4. SUFFICES ASSUME NEW i \in DOMAIN t, NEW j \in DOMAIN t, t[i].op = "sadd", t[j].op = "srem"
                   PROVE  FALSE
      BY Zenon
    <3>5. i \in DOMAIN todo[s] /\ j \in DOMAIN todo[s]
      BY <1>4
    <3>6. todo[s][i].op = "sadd" /\ todo[s][j].op = "srem"
      BY <3>2, <3>4
    <3> QED
      BY <3>3, <3>5, <3>6
  <2> QED
    BY <2>1, <2>2, <2>3, <1>6 DEF Shape
<1>9. ASSUME NEW e, e.op \notin Quiet
      PROVE  e \in ToSet(t) <=> e \in ToSet(todo[s])
  <2>1. t[1].op \in Quiet /\ todo[s][1].op \in Quiet
    BY <1>1, <1>3, <1>4
  <2>2. e # t[1] /\ e # todo[s][1]
    BY <2>1, <1>9
  <2> QED
    BY <2>2, <1>4 DEF ToSet
<1> QED
  BY <1>4, <1>5, <1>6, <1>8, <1>9

\* What a step makes of a session is a session again, of the same user or of no
\* one.
LEMMA Stepped ==
    ASSUME HubIInv, NEW s \in Socks, Step(s)
    PROVE  \E p, w, t :
             /\ Becomes(s, p, w, t)
             /\ w \in {user[s], None} /\ (w = None <=> p = "none")
             /\ Shape(t, p) /\ (t # <<>> <=> p \in {"busy", "cleanup"})
<1>1. /\ user[s] \in Users \cup {None} /\ (pc[s] # "none" <=> user[s] \in Users)
      /\ todo[s] \in Seq(Await) /\ Shape(todo[s], pc[s])
      /\ todo[s] # <<>> <=> pc[s] \in {"busy", "cleanup"}
  BY SessionFacts
<1>2. CASE Begins(s)
  <2>1. PICK op \in {"reply", "incr"} : Becomes(s, "busy", user[s], <<Do(op)>>)
    BY <1>2 DEF Begins
  <2>2. <<Do(op)>> # <<>> /\ Shape(<<Do(op)>>, "busy")
    BY OneAwait DEF Quiet
  <2> QED
    BY <1>1, <1>2, <2>1, <2>2 DEF Begins
<1>3. CASE Opens(s) \/ Refused(s)
  <2>1. todo[s] = <<>> /\ Shape(todo[s], "open") /\ Shape(todo[s], "none") /\ user[s] # None
    BY <1>1, <1>3, NothingShaped DEF Opens, Refused
  <2>2. Becomes(s, "open", user[s], todo[s]) \/ Becomes(s, "none", None, todo[s])
    BY <1>3 DEF Opens, Refused
  <2> QED
    BY <2>1, <2>2
<1>4. CASE Ran(s)
  <2>1. todo[s] # <<>>
    BY <1>4 DEF Ran
  <2>2. Shape(Tail(todo[s]), pc[s])
    BY <1>1, <2>1, Behead
  <2>3. CASE Tail(todo[s]) # <<>>
    <3>1. Becomes(s, pc[s], user[s], Tail(todo[s]))
      BY <1>4, <2>3 DEF Ran
    <3> QED
      BY <1>1, <2>1, <2>2, <2>3, <3>1
  <2>4. CASE Tail(todo[s]) = <<>>
    <3>1. Becomes(s, "none", None, Tail(todo[s])) \/ Becomes(s, "open", user[s], Tail(todo[s]))
      BY <1>4, <2>4 DEF Ran
    <3>2. Shape(Tail(todo[s]), "none") /\ Shape(Tail(todo[s]), "open") /\ user[s] # None
      BY <1>1, <2>1, <2>4, NothingShaped
    <3> QED
      BY <2>4, <3>1, <3>2
  <2> QED
    BY <2>3, <2>4
<1>5. CASE Sends(s)
  BY <1>1, <1>5, SendTodo DEF Sends
<1>6. CASE Ends(s)
  <2>1. Becomes(s, "cleanup", user[s], Offline(user[s])) /\ user[s] # None
    BY <1>1, <1>6 DEF Ends
  <2> QED
    BY <2>1, OfflineAwaits
<1>7. CASE Aborts(s)
  BY <1>1, <1>7, NothingShaped DEF Aborts
<1>8. ASSUME NEW t \in Seq(Await), Served(s, t)
      PROVE  \E p, w, q :
             /\ Becomes(s, p, w, q)
             /\ w \in {user[s], None} /\ (w = None <=> p = "none")
             /\ Shape(q, p) /\ (q # <<>> <=> p \in {"busy", "cleanup"})
  <2>1. Becomes(s, IF t # <<>> THEN "busy" ELSE "open", user[s], t) /\ Shape(t, "busy") /\ user[s] # None
    BY <1>1, <1>8 DEF Served
  <2>2. t = <<>> => Shape(t, "open")
    BY NothingShaped
  <2> QED
    BY <2>1, <2>2
<1> QED
  BY <1>2, <1>3, <1>4, <1>5, <1>6, <1>7, <1>8 DEF Step

LEMMA SessionsStep ==
    ASSUME HubIInv, NEW s \in Socks, Step(s)
    PROVE  /\ \A x \in Socks : /\ user'[x] = None <=> pc'[x] = "none"
                               /\ Shape(todo'[x], pc'[x])
                               /\ todo'[x] # <<>> <=> pc'[x] \in {"busy", "cleanup"}
           /\ \A x \in Socks : user'[x] = user[x] \/ user'[x] = None
  BY Stepped, SessionFacts DEF Becomes

\* What a step of s does to the tables: it adds or removes only its user's rooms
\* and only its own entry.
LEMMA TablesStep ==
    ASSUME HubIInv, NEW s \in Socks, Step(s)
    PROVE  /\ rooms' = mine'
           /\ \A q \in rooms' : \E x \in Socks : user'[x] = q[1] /\ pc'[x] \in {"open", "busy"}
           /\ \A u \in Users : conns'[u] # None => user'[conns'[u]] = u /\ pc'[conns'[u]] \in {"open", "busy"}
           /\ \A u \in Users : conns[u] # None /\ conns'[u] = None => pc'[conns[u]] \in {"cleanup", "none"}
<1>1. /\ TypeOK /\ rooms = mine
      /\ \A q \in rooms : \E x \in Socks : user[x] = q[1] /\ pc[x] \in {"open", "busy"}
      /\ \A u \in Users : conns[u] # None => user[conns[u]] = u /\ pc[conns[u]] \in {"open", "busy"}
  BY DEF HubIInv, HubInv, Live
<1>2. /\ user[s] \in Users \cup {None} /\ (pc[s] # "none" <=> user[s] \in Users)
      /\ todo[s] # <<>> <=> pc[s] \in {"busy", "cleanup"}
  BY SessionFacts
<1>3. conns \in [Users -> Socks \cup {None}]
  BY <1>1 DEF TypeOK
<1>4. ASSUME NEW p, NEW t, Becomes(s, p, user[s], t), pc[s] = p \/ (p \in {"open", "busy"} /\ pc[s] # "cleanup"),
             UNCHANGED tables
      PROVE  /\ rooms' = mine'
             /\ \A q \in rooms' : \E x \in Socks : user'[x] = q[1] /\ pc'[x] \in {"open", "busy"}
             /\ \A u \in Users : conns'[u] # None => user'[conns'[u]] = u /\ pc'[conns'[u]] \in {"open", "busy"}
             /\ \A u \in Users : conns[u] # None /\ conns'[u] = None => pc'[conns[u]] \in {"cleanup", "none"}
  BY <1>1, <1>3, <1>4 DEF Becomes, tables
<1>5. ASSUME NEW t, Becomes(s, "none", None, t), pc[s] \in {"authed", "cleanup"}, UNCHANGED tables
      PROVE  /\ rooms' = mine'
             /\ \A q \in rooms' : \E x \in Socks : user'[x] = q[1] /\ pc'[x] \in {"open", "busy"}
             /\ \A u \in Users : conns'[u] # None => user'[conns'[u]] = u /\ pc'[conns'[u]] \in {"open", "busy"}
             /\ \A u \in Users : conns[u] # None /\ conns'[u] = None => pc'[conns[u]] \in {"cleanup", "none"}
  BY <1>1, <1>3, <1>5 DEF Becomes, tables
<1>6. CASE Begins(s)
  BY <1>4, <1>6 DEF Begins, Aside
<1>7. CASE Opens(s)
  <2>1. /\ pc[s] = "authed" /\ Becomes(s, "open", user[s], todo[s]) /\ user[s] \in Users
        /\ conns' = [conns EXCEPT ![user[s]] = s] /\ rooms' = rooms /\ mine' = mine
    BY <1>2, <1>7 DEF Opens
  <2>2. \A u \in Users : conns'[u] = IF u = user[s] THEN s ELSE conns[u]
    BY <1>3, <2>1
  <2>3. \A q \in rooms' : \E x \in Socks : user'[x] = q[1] /\ pc'[x] \in {"open", "busy"}
    BY <1>1, <2>1 DEF Becomes
  <2> QED
    BY <1>1, <1>3, <2>1, <2>2, <2>3 DEF Becomes
<1>8. CASE Refused(s)
  BY <1>5, <1>8 DEF Refused, Aside
<1>9. CASE Ran(s)
  <2>1. UNCHANGED tables /\ pc[s] \in {"busy", "cleanup"}
    BY <1>2, <1>9 DEF Ran
  <2>2. CASE Tail(todo[s]) # <<>>
    BY <1>4, <1>9, <2>1, <2>2 DEF Ran
  <2>3. CASE Tail(todo[s]) = <<>> /\ pc[s] = "cleanup"
    <3>1. Becomes(s, "none", None, Tail(todo[s]))
      BY <1>9, <2>3 DEF Ran
    <3> QED
      BY <1>5, <2>1, <2>3, <3>1
  <2>4. CASE Tail(todo[s]) = <<>> /\ pc[s] = "busy"
    <3>1. Becomes(s, "open", user[s], Tail(todo[s]))
      BY <1>9, <2>4 DEF Ran
    <3> QED
      BY <1>4, <2>1, <2>4, <3>1
  <2> QED
    BY <2>1, <2>2, <2>3, <2>4
<1>10. CASE Sends(s)
  BY <1>4, <1>10 DEF Sends, Aside
<1>11. CASE Aborts(s)
  BY <1>5, <1>11 DEF Aborts
<1>12. CASE Ends(s)
  <2>1. /\ pc[s] \in {"open", "busy"} /\ user[s] \in Users /\ Becomes(s, "cleanup", user[s], Offline(user[s]))
        /\ LeaveAll(user[s]) /\ conns' = Disconnected(user[s], s)
    BY <1>2, <1>12 DEF Ends
  <2>2. rooms' = {q \in rooms : q[1] # user[s]} /\ mine' = {q \in rooms : q[1] # user[s]}
    BY <1>1, <2>1 DEF LeaveAll
  <2>3. \A q \in rooms' : \E x \in Socks : user'[x] = q[1] /\ pc'[x] \in {"open", "busy"}
    BY <1>1, <2>1, <2>2 DEF Becomes
  <2>4. \A u \in Users : conns'[u] = IF u = user[s] /\ conns[u] = s THEN None ELSE conns[u]
    BY <1>3, <2>1 DEF Disconnected
  <2>5. \A u \in Users : conns[u] = s => u = user[s]
    BY <1>1, <2>1
  <2> QED
    BY <1>1, <1>3, <2>1, <2>2, <2>3, <2>4, <2>5 DEF Becomes
<1>13. ASSUME NEW t \in Seq(Await), Served(s, t)
       PROVE  /\ rooms' = mine'
              /\ \A q \in rooms' : \E x \in Socks : user'[x] = q[1] /\ pc'[x] \in {"open", "busy"}
              /\ \A u \in Users : conns'[u] # None => user'[conns'[u]] = u /\ pc'[conns'[u]] \in {"open", "busy"}
              /\ \A u \in Users : conns[u] # None /\ conns'[u] = None => pc'[conns[u]] \in {"cleanup", "none"}
  <2>1. PICK p \in {"open", "busy"} : Becomes(s, p, user[s], t)
    BY <1>13 DEF Served
  <2>2. pc[s] = "busy" /\ conns' = conns
    BY <1>13 DEF Served
  <2>3. rooms' = mine' /\ \A q \in rooms' : q \in rooms \/ q[1] = user[s]
    <3>1. \/ \E r \in Rooms : rooms' = rooms \cup {<<user[s], r>>} /\ mine' = mine \cup {<<user[s], r>>}
          \/ \E r \in Rooms : rooms' = rooms \ {<<user[s], r>>} /\ mine' = mine \ {<<user[s], r>>}
          \/ rooms' = rooms /\ mine' = mine
      BY <1>13 DEF Served
    <3>2. rooms = mine
      BY <1>1
    <3>3. \A a, r : <<a, r>>[1] = a
      OBVIOUS
    <3>4. rooms' = mine'
      BY <3>1, <3>2
    <3>5. \A q \in rooms' : q \in rooms \/ \E r \in Rooms : q = <<user[s], r>>
      BY <3>1
    <3> QED
      BY <3>3, <3>4, <3>5
  <2>4. ASSUME NEW q \in rooms' PROVE \E x \in Socks : user'[x] = q[1] /\ pc'[x] \in {"open", "busy"}
    <3>1. CASE q[1] = user[s]
      BY <2>1, <3>1 DEF Becomes
    <3>2. CASE q \in rooms
      BY <1>1, <2>1, <2>2, <3>2 DEF Becomes
    <3> QED
      BY <2>3, <3>1, <3>2
  <2> QED
    BY <1>1, <1>3, <2>1, <2>2, <2>3, <2>4 DEF Becomes
<1> QED
  BY <1>6, <1>7, <1>8, <1>9, <1>10, <1>11, <1>12, <1>13 DEF Step

\* A session between INCR and EXPIRE goes on to EXPIRE, or its user is scarred.
LEMMA CountersStep ==
    ASSUME HubIInv, NEW s \in Socks, Step(s), HubType',
           NEW u \in Users \ scarred', RL!Stuck(rate'[u])
    PROVE  \E x \in Socks : user'[x] = u /\ pc'[x] = "busy" /\ Now(x, "expire")'
<1> DEFINE Waits(x) == user[x] = u /\ pc[x] = "busy" /\ todo[x] # <<>> /\ todo[x][1].op = "expire"
<1>1. scarred \subseteq scarred'
  BY DEF Step, Begins, Opens, Refused, Ran, Sends, Ends, Aborts, Served, Aside
<1>2. RL!Stuck(rate[u]) => \E x \in Socks : Waits(x)
  BY <1>1 DEF HubIInv, HubInv, CountersExpire, Now
<1>3. ASSUME NEW x \in Socks \ {s}, Waits(x)
      PROVE  user'[x] = u /\ pc'[x] = "busy" /\ Now(x, "expire")'
  BY <1>3, Stepped DEF Becomes, Now
<1>4. ASSUME rate'[u] = rate[u], ~Waits(s)
      PROVE  \E x \in Socks : user'[x] = u /\ pc'[x] = "busy" /\ Now(x, "expire")'
  BY <1>2, <1>3, <1>4
<1>5. CASE Begins(s) \/ Opens(s) \/ Refused(s) \/ Aborts(s)
  BY <1>4, <1>5 DEF Begins, Opens, Refused, Aborts, Aside, shared
<1>6. CASE Ran(s)
  BY <1>4, <1>6 DEF Ran
<1>7. CASE Sends(s)
  BY <1>4, <1>7 DEF Sends, Aside, shared, Now
<1>8. CASE Ends(s)
  BY <1>4, <1>8 DEF Ends, shared, Now
<1>9. ASSUME NEW t \in Seq(Await), Served(s, t), Counted(s, t)
      PROVE  \E x \in Socks : user'[x] = u /\ pc'[x] = "busy" /\ Now(x, "expire")'
  <2>1. CASE u # user[s]
    BY <1>4, <1>9, <2>1 DEF Counted
  <2>2. CASE u = user[s] /\ Now(s, "incr")
    <3>1. RL!Stuck(rate[u]) \/ t = <<Do("expire")>>
      BY <1>9, <2>2 DEF Counted, Now
    <3>2. ~Waits(s)
      BY <2>2 DEF Now
    <3>3. ASSUME t = <<Do("expire")>>
          PROVE  user'[s] = u /\ pc'[s] = "busy" /\ Now(s, "expire")'
      <4>1. t # <<>> /\ t[1].op = "expire"
        BY <3>3, OneAwait DEF Do
      <4> QED
        BY <1>9, <2>2, <4>1 DEF Served, Becomes, Now
    <3> QED
      BY <1>2, <1>3, <3>1, <3>2, <3>3
  <2>3. CASE u = user[s] /\ Now(s, "expire")
    BY <1>9, <2>3 DEF Counted, Now
  <2> QED
    BY <1>9, <2>1, <2>2, <2>3 DEF Served
<1> QED
  BY <1>5, <1>6, <1>7, <1>8, <1>9 DEF Step

------------------------------------------------------------------------------
(* Presence *)

\* What is pending of a user whose only session is s is what s has to do.
LEMMA OwnPending ==
    ASSUME HubIInv, NEW s \in Socks, user[s] \in Users \ crossed
    PROVE  \A e : Pending(user[s], e) <=> e \in ToSet(todo[s])
  BY DEF HubIInv, OneSession, Pending

\* A step of s says nothing of the other users.
LEMMA OthersTold ==
    ASSUME HubIInv, NEW s \in Socks, Step(s), NEW u \in Users, u # user[s], Told(u)
    PROVE  Told(u)'
<1>1. PICK p, w, t : Becomes(s, p, w, t) /\ w \in {user[s], None}
  BY Stepped
<1>2. user[s] \in Users \cup {None} /\ None \notin Users
  BY SessionFacts
<1>3. /\ \A x \in Socks : user'[x] = u <=> user[x] = u
      /\ \A x \in Socks : user[x] = u => todo'[x] = todo[x] /\ pc'[x] = pc[x]
  BY <1>1, <1>2 DEF Becomes
<1>4. \A e : Pending(u, e)' <=> Pending(u, e)
  BY <1>3 DEF Pending
<1>5. (\A x \in Socks : user'[x] = u => ~Live(x)') <=> (\A x \in Socks : user[x] = u => ~Live(x))
  BY <1>3 DEF Live
<1>6. rooms = mine /\ todo[s] # <<>> => todo[s][1] \in Await
  BY SessionFacts, Behead DEF HubIInv, HubInv
<1>7. \A r : <<u, r>> \in rooms' <=> <<u, r>> \in rooms
  <2>1. CASE UNCHANGED rooms
    BY <2>1
  <2>2. CASE LeaveAll(user[s])
    BY <2>2 DEF LeaveAll
  <2>3. CASE \E r \in Rooms : rooms' = rooms \cup {<<user[s], r>>} \/ rooms' = rooms \ {<<user[s], r>>}
    BY <2>3
  <2>4. \/ UNCHANGED rooms \/ LeaveAll(user[s])
        \/ \E r \in Rooms : rooms' = rooms \cup {<<user[s], r>>} \/ rooms' = rooms \ {<<user[s], r>>}
    BY DEF Step, Begins, Opens, Refused, Ran, Sends, Ends, Aborts, Served, Aside, tables
  <2> QED
    BY <2>1, <2>2, <2>3, <2>4
<1>8. (\A r : <<u, r>> \in pres' <=> <<u, r>> \in pres) /\ (u \in online' <=> u \in online)
  <2>1. CASE UNCHANGED <<pres, online>>
    BY <2>1
  <2>2. CASE PresenceCall(s)
    BY <2>2 DEF PresenceCall
  <2>3. UNCHANGED <<pres, online>> \/ PresenceCall(s)
    BY DEF Step, Begins, Opens, Refused, Ran, Sends, Ends, Aborts, Served, Aside, shared
  <2> QED
    BY <2>1, <2>2, <2>3
<1>9. \A r \in Rooms : RoomTold(u, r)'
  BY <1>4, <1>7, <1>8 DEF Told, RoomTold
<1>10. (\E r \in Rooms : <<u, r>> \in rooms') => u \in online' \/ Pending(u, Do("online"))'
  BY <1>4, <1>7, <1>8 DEF Told
<1>11. (\A x \in Socks : user'[x] = u => ~Live(x)') => u \notin online' \/ Pending(u, Do("offline"))'
  BY <1>4, <1>5, <1>8 DEF Told
<1> QED
  BY <1>9, <1>10, <1>11 DEF Told

\* Of its own user: what is told of her with t to do.
LEMMA OwnTold ==
    ASSUME HubIInv, NEW s \in Socks, NEW u \in Users \ crossed, u = user[s],
           NEW p, NEW w \in {u, None}, NEW t, Becomes(s, p, w, t), w = None => t = <<>>,
           \A r \in Rooms : <<u, r>> \in rooms' <=>
               \/ In("sadd", r) \in ToSet(t)
               \/ <<u, r>> \in pres' /\ In("srem", r) \notin ToSet(t),
           (\E r \in Rooms : <<u, r>> \in rooms') => u \in online' \/ Do("online") \in ToSet(t),
           w = None \/ p \notin {"open", "busy"} => u \notin online' \/ Do("offline") \in ToSet(t)
    PROVE  Told(u)'
<1>1. \A x \in Socks : user[x] = u => x = s
  BY DEF HubIInv, OneSession
<1>2. None # u
  OBVIOUS
<1>3. /\ \A x \in Socks : user'[x] = u => x = s
      /\ user'[s] = w /\ pc'[s] = p /\ todo'[s] = t
  BY <1>1, <1>2 DEF Becomes
<1>4. \A e : Pending(u, e)' <=> w = u /\ e \in ToSet(t)
  BY <1>3 DEF Pending, ToSet
<1>5. w = None => ToSet(t) = {}
  BY NothingShaped
<1>6. \A e : Pending(u, e)' <=> e \in ToSet(t)
  BY <1>4, <1>5
<1>7. \A r \in Rooms : RoomTold(u, r)'
  BY <1>6 DEF RoomTold
<1>8. (\A x \in Socks : user'[x] = u => ~Live(x)') => w = None \/ p \notin {"open", "busy"}
  BY <1>3 DEF Live
<1> QED
  BY <1>6, <1>7, <1>8 DEF Told

\* A call to Redis does what was pending.
LEMMA RanTold ==
    ASSUME HubIInv, NEW s \in Socks, NEW u \in Users \ (crossed \cup scarred), u = user[s], Ran(s)
    PROVE  Told(u)'
<1> DEFINE t == todo[s]
           q == Tail(t)
           h == t[1]
<1>1. /\ t \in Seq(Await) /\ t # <<>> /\ Shape(t, pc[s]) /\ pc[s] \in {"busy", "cleanup"}
      /\ rooms = mine /\ user[s] # None /\ Told(u)
  BY SessionFacts DEF Ran, HubIInv, HubInv
<1>2. \A e : Pending(u, e) <=> e \in ToSet(t)
  BY OwnPending
<1>3. ToSet(t) = {h} \cup ToSet(q) /\ h \in Await
  BY <1>1, Behead
<1>4. /\ \A r \in Rooms : <<u, r>> \in rooms <=>
           \/ In("sadd", r) \in ToSet(t)
           \/ <<u, r>> \in pres /\ In("srem", r) \notin ToSet(t)
      /\ (\E r \in Rooms : <<u, r>> \in rooms) => u \in online \/ Do("online") \in ToSet(t)
      /\ pc[s] \notin {"open", "busy"} => u \notin online \/ Do("offline") \in ToSet(t)
  <2>1. pc[s] \notin {"open", "busy"} => \A x \in Socks : user[x] = u => ~Live(x)
    BY DEF Live, HubIInv, OneSession
  <2> QED
    BY <1>1, <1>2, <2>1 DEF Told, RoomTold
<1>5. rooms' = rooms
  BY DEF Ran, tables
\* Shape, element by element.
<1>6. \A e, f \in ToSet(t) : e.op = "sadd" => f.op # "srem"
  BY <1>1 DEF Shape, ToSet
<1>7. \A e \in ToSet(t) : /\ pc[s] = "cleanup" => e.op \in {"srem", "offline"}
                          /\ pc[s] = "busy" => e.op # "offline"
  BY <1>1 DEF Shape, ToSet
<1> HIDE DEF t, q, h
<1>8. \A op, r : In(op, r).op = op /\ In(op, r).room = r /\ Do(op).op = op
  BY DEF In, Do
<1>9. \/ h.op = "sadd" /\ pres' = pres \cup {<<u, h.room>>} /\ online' = online
      \/ h.op = "srem" /\ pres' = pres \ {<<u, h.room>>} /\ online' = online
      \/ h.op = "online" /\ online' = online \cup {u} /\ pres' = pres
      \/ h.op = "offline" /\ online' = online \ {u} /\ pres' = pres
      \/ h.op \in Quiet /\ pres' = pres /\ online' = online
  BY DEF Ran, PresenceCall, Now, h, t
<1>10. h.op \in {"sadd", "srem"} => h = In(h.op, h.room)
  BY <1>3, AwaitFields
<1>11. ASSUME NEW r \in Rooms
       PROVE  <<u, r>> \in rooms' <=>
                \/ In("sadd", r) \in ToSet(q)
                \/ <<u, r>> \in pres' /\ In("srem", r) \notin ToSet(q)
  <2>1. CASE h.op = "sadd"
    <3>1. \A e \in ToSet(t) : e.op # "srem"
      BY <1>3, <1>6, <2>1
    <3>2. In("srem", r) \notin ToSet(t) /\ In("srem", r) \notin ToSet(q)
      BY <1>3, <1>8, <3>1
    <3>3. pres' = pres \cup {<<u, h.room>>}
      BY <1>9, <2>1 DEF Quiet
    <3>4. h = In("sadd", r) <=> h.room = r
      BY <1>8, <1>10, <2>1
    <3> QED
      BY <1>3, <1>4, <1>5, <3>2, <3>3, <3>4
  <2>2. CASE h.op = "srem"
    <3>1. \A e \in ToSet(t) : e.op # "sadd"
      BY <1>3, <1>6, <2>2
    <3>2. In("sadd", r) \notin ToSet(t) /\ In("sadd", r) \notin ToSet(q)
      BY <1>3, <1>8, <3>1
    <3>3. pres' = pres \ {<<u, h.room>>}
      BY <1>9, <2>2 DEF Quiet
    <3>4. h = In("srem", r) <=> h.room = r
      BY <1>8, <1>10, <2>2
    <3> QED
      BY <1>3, <1>4, <1>5, <3>2, <3>3, <3>4
  <2>3. CASE h.op \notin {"sadd", "srem"}
    <3>1. pres' = pres
      BY <1>9, <2>3
    <3>2. h # In("sadd", r) /\ h # In("srem", r)
      BY <1>8, <2>3
    <3> QED
      BY <1>3, <1>4, <1>5, <3>1, <3>2
  <2> QED
    BY <2>1, <2>2, <2>3
<1>12. ASSUME NEW r \in Rooms, <<u, r>> \in rooms'
       PROVE  u \in online' \/ Do("online") \in ToSet(q)
  <2>1. u \in online \/ Do("online") \in ToSet(t)
    BY <1>4, <1>5, <1>12
  <2>2. \E x \in Socks : user[x] = u /\ Live(x)
    BY <1>5, <1>12 DEF HubIInv, HubInv
  <2>3. pc[s] = "busy"
    BY <1>1, <2>2 DEF HubIInv, OneSession, Live
  <2>4. h.op # "offline"
    BY <1>3, <1>7, <2>3
  <2>5. CASE h.op = "online"
    BY <1>9, <2>5 DEF Quiet
  <2>6. CASE h.op # "online"
    BY <1>3, <1>8, <1>9, <2>1, <2>4, <2>6
  <2> QED
    BY <2>5, <2>6
<1>13. ASSUME pc[s] = "cleanup" PROVE u \notin online' \/ Do("offline") \in ToSet(q)
  <2>1. h.op \in {"srem", "offline"} /\ (u \notin online \/ Do("offline") \in ToSet(t))
    BY <1>3, <1>4, <1>7, <1>13
  <2>2. CASE h.op = "offline"
    BY <1>9, <2>2 DEF Quiet
  <2>3. CASE h.op = "srem"
    BY <1>3, <1>8, <1>9, <2>1, <2>3 DEF Quiet
  <2> QED
    BY <2>1, <2>2, <2>3
<1>14. \/ q # <<>> /\ Becomes(s, pc[s], u, q)
       \/ q = <<>> /\ pc[s] = "busy" /\ Becomes(s, "open", u, q)
       \/ q = <<>> /\ pc[s] = "cleanup" /\ Becomes(s, "none", None, q)
  BY <1>1 DEF Ran, q, t
<1>15. u # None
  OBVIOUS
<1>16. CASE Becomes(s, pc[s], u, q)
  BY <1>1, <1>11, <1>12, <1>13, <1>15, <1>16, OwnTold
<1>17. CASE pc[s] = "busy" /\ Becomes(s, "open", u, q)
  BY <1>11, <1>12, <1>15, <1>17, OwnTold
<1>18. CASE q = <<>> /\ pc[s] = "cleanup" /\ Becomes(s, "none", None, q)
  BY <1>11, <1>12, <1>13, <1>18, OwnTold
<1> QED
  BY <1>14, <1>16, <1>17, <1>18

LEMMA ServedTold ==
    ASSUME HubIInv, NEW s \in Socks, NEW u \in Users \ (crossed \cup scarred), u = user[s],
           NEW t \in Seq(Await), Served(s, t)
    PROVE  Told(u)'
<1>1. /\ todo[s] \in Seq(Await) /\ Shape(todo[s], "busy") /\ pc[s] = "busy" /\ Told(u) /\ todo[s] # <<>>
      /\ todo[s][1].op \in {"incr", "expire"}
  BY SessionFacts DEF Served, HubIInv, HubInv, Now
<1>2. \A e \in ToSet(todo[s]) : e.op \in Quiet
  <2>1. 1 \in DOMAIN todo[s] /\ \A i \in DOMAIN todo[s] : 1 <= i
    BY <1>1, Filled
  <2>2. \A i \in DOMAIN todo[s] : todo[s][i].op \in Quiet
    BY <1>1, <2>1 DEF Shape, Quiet
  <2> QED
    BY <2>2 DEF ToSet
<1>3. \A e : Pending(u, e) <=> e \in ToSet(todo[s])
  BY OwnPending
<1>4. /\ \A r \in Rooms : <<u, r>> \in rooms <=> <<u, r>> \in pres
      /\ (\E r \in Rooms : <<u, r>> \in rooms) => u \in online
  BY <1>1, <1>2, <1>3, QuietAsks DEF Told, RoomTold
<1>5. PICK p \in {"busy", "open"} : Becomes(s, p, u, t)
  BY DEF Served
<1>6. pres' = pres /\ online' = online /\ u # None
  BY DEF Served
<1>7. \A op, r : In(op, r).op = op /\ In(op, r).room = r /\ Do(op).op = op
  BY DEF In, Do
<1>8. ASSUME NEW r \in Rooms, t = <<In("sadd", r), Do("online"), Do("note")>>,
             rooms' = rooms \cup {<<u, r>>}
      PROVE  Told(u)'
  <2>1. ToSet(t) = {In("sadd", r), Do("online"), Do("note")}
    BY <1>8, Entering
  <2>2. \A z \in Rooms : (In("sadd", z) \in ToSet(t) <=> z = r) /\ In("srem", z) \notin ToSet(t)
    BY <1>7, <2>1
  <2>3. \A z \in Rooms : <<u, z>> \in rooms' <=>
               \/ In("sadd", z) \in ToSet(t)
               \/ <<u, z>> \in pres' /\ In("srem", z) \notin ToSet(t)
    BY <1>4, <1>6, <1>8, <2>2
  <2>4. Do("online") \in ToSet(t)
    BY <2>1
  <2> QED
    BY <1>5, <1>6, <2>3, <2>4, OwnTold
<1>9. ASSUME NEW r \in Rooms, t = <<In("srem", r), Do("note")>>,
             rooms' = rooms \ {<<u, r>>}
      PROVE  Told(u)'
  <2>1. ToSet(t) = {In("srem", r), Do("note")}
    BY <1>9, Leaving
  <2>2. \A z \in Rooms : (In("srem", z) \in ToSet(t) <=> z = r) /\ In("sadd", z) \notin ToSet(t)
    BY <1>7, <2>1
  <2>3. \A z \in Rooms : <<u, z>> \in rooms' <=>
               \/ In("sadd", z) \in ToSet(t)
               \/ <<u, z>> \in pres' /\ In("srem", z) \notin ToSet(t)
    BY <1>4, <1>6, <1>9, <2>2
  <2>4. (\E z \in Rooms : <<u, z>> \in rooms') => u \in online'
    BY <1>4, <1>6, <1>9
  <2> QED
    BY <1>5, <1>6, <2>3, <2>4, OwnTold
<1>10. ASSUME \A e \in ToSet(t) : e.op \in Quiet, rooms' = rooms
       PROVE  Told(u)'
  <2>1. \A z \in Rooms : In("srem", z) \notin ToSet(t) /\ In("sadd", z) \notin ToSet(t)
    BY <1>10, QuietAsks
  <2> QED
    BY <1>4, <1>5, <1>6, <1>10, <2>1, OwnTold
<1> QED
  BY <1>8, <1>9, <1>10 DEF Served

LEMMA EndsTold ==
    ASSUME HubIInv, NEW s \in Socks, NEW u \in Users \ (crossed \cup scarred'), u = user[s], Ends(s)
    PROVE  Told(u)'
<1>1. scarred' = scarred /\ \A e \in ToSet(todo[s]) : e.op \in Quiet
  BY DEF Ends
<1>2. rooms = mine /\ mine \subseteq Users \X Rooms /\ Told(u)
  BY <1>1 DEF HubIInv, HubInv, TypeOK
<1>3. \A e : Pending(u, e) <=> e \in ToSet(todo[s])
  BY <1>1, OwnPending
<1>4. \A r \in Rooms : <<u, r>> \in pres => r \in RoomsOf(u)
  BY <1>1, <1>2, <1>3, QuietAsks DEF Told, RoomTold, RoomsOf
<1>5. \A r : <<u, r>> \notin rooms'
  BY <1>2 DEF Ends, LeaveAll
<1>6. Becomes(s, "cleanup", u, Offline(u)) /\ pres' = pres /\ online' = online /\ u # None
  BY DEF Ends, shared
<1>7. \A e \in ToSet(Offline(u)) : e.op \in {"srem", "offline"}
  BY OfflineAwaits
<1>8. \A r \in Rooms : In("sadd", r) \notin ToSet(Offline(u))
  BY <1>7 DEF In
<1>9. \A r \in Rooms : <<u, r>> \in pres => In("srem", r) \in ToSet(Offline(u))
  BY <1>4, OfflineAwaits
<1>10. Do("offline") \in ToSet(Offline(u))
  BY OfflineAwaits
<1> QED
  BY <1>5, <1>6, <1>8, <1>9, <1>10, OwnTold

LEMMA ToldStep ==
    ASSUME HubIInv, NEW s \in Socks, Step(s), NEW u \in Users \ (crossed' \cup scarred')
    PROVE  Told(u)'
<1>1. crossed' = crossed /\ scarred \subseteq scarred'
  BY DEF Step, Begins, Opens, Refused, Ran, Sends, Ends, Aborts, Served, Aside
<1>2. u \in Users \ (crossed \cup scarred) /\ Told(u)
  BY <1>1 DEF HubIInv
<1>3. CASE u # user[s]
  BY <1>2, <1>3, OthersTold
<1>4. CASE u = user[s]
  <2>1. /\ todo[s] \in Seq(Await) /\ (todo[s] # <<>> <=> pc[s] \in {"busy", "cleanup"})
    BY SessionFacts
  <2>2. \A e : Pending(u, e) <=> e \in ToSet(todo[s])
    BY <1>2, <1>4, OwnPending
  <2>3. /\ \A r \in Rooms : <<u, r>> \in rooms <=>
             \/ In("sadd", r) \in ToSet(todo[s])
             \/ <<u, r>> \in pres /\ In("srem", r) \notin ToSet(todo[s])
        /\ (\E r \in Rooms : <<u, r>> \in rooms) => u \in online \/ Do("online") \in ToSet(todo[s])
        /\ pc[s] \notin {"open", "busy"} => u \notin online \/ Do("offline") \in ToSet(todo[s])
    <3>1. pc[s] \notin {"open", "busy"} => \A x \in Socks : user[x] = u => ~Live(x)
      BY <1>2, <1>4 DEF Live, HubIInv, OneSession
    <3> QED
      BY <1>2, <2>2, <3>1 DEF Told, RoomTold
  <2>4. ASSUME todo[s] = <<>> PROVE /\ \A r \in Rooms : <<u, r>> \in rooms <=> <<u, r>> \in pres
                                    /\ (\E r \in Rooms : <<u, r>> \in rooms) => u \in online
                                    /\ pc[s] \notin {"open", "busy"} => u \notin online
    BY <2>3, <2>4, NothingShaped
  <2>5. CASE Begins(s)
    <3>1. PICK op \in {"reply", "incr"} : Becomes(s, "busy", u, <<Do(op)>>)
      BY <1>4, <2>5 DEF Begins
    <3>2. \A e \in ToSet(<<Do(op)>>) : e.op \in Quiet
      BY OneAwait DEF Quiet
    <3>3. \A r : In("sadd", r) \notin ToSet(<<Do(op)>>) /\ In("srem", r) \notin ToSet(<<Do(op)>>)
      BY <3>2, QuietAsks
    <3>4. todo[s] = <<>> /\ UNCHANGED <<rooms, pres, online>>
      BY <2>1, <2>5 DEF Begins, Aside, tables, shared
    <3> QED
      BY <1>2, <1>4, <2>4, <3>1, <3>3, <3>4, OwnTold
  <2>6. CASE Opens(s)
    <3>1. todo[s] = <<>> /\ UNCHANGED <<rooms, pres, online>> /\ Becomes(s, "open", u, todo[s])
      BY <1>4, <2>1, <2>6 DEF Opens, shared
    <3> QED
      BY <1>2, <1>4, <2>3, <3>1, OwnTold
  <2>7. CASE Refused(s)
    <3>1. /\ todo[s] = <<>> /\ UNCHANGED <<rooms, pres, online>> /\ Becomes(s, "none", None, todo[s])
          /\ pc[s] = "authed"
      BY <1>4, <2>1, <2>7 DEF Refused, Aside, tables, shared
    <3> QED
      BY <1>2, <1>4, <2>3, <3>1, OwnTold
  <2>8. CASE Sends(s)
    <3>1. PICK t : t = [todo[s] EXCEPT ![1] = Do("receipt ends")]
      OBVIOUS
    <3>2. /\ \A e : e.op \notin Quiet => (e \in ToSet(t) <=> e \in ToSet(todo[s]))
          /\ pc[s] = "busy"
      BY <2>8, <3>1, SendTodo DEF Sends
    <3>3. Becomes(s, "busy", u, t) /\ UNCHANGED <<rooms, pres, online>>
      BY <1>4, <2>8, <3>1, <3>2 DEF Sends, Aside, tables, shared
    <3>4. \A r : In("sadd", r).op \notin Quiet /\ In("srem", r).op \notin Quiet /\ Do("online").op \notin Quiet
      BY DEF In, Do, Quiet
    <3>5. \A r : /\ In("sadd", r) \in ToSet(t) <=> In("sadd", r) \in ToSet(todo[s])
                 /\ In("srem", r) \in ToSet(t) <=> In("srem", r) \in ToSet(todo[s])
                 /\ Do("online") \in ToSet(t) <=> Do("online") \in ToSet(todo[s])
      BY <3>2, <3>4
    <3>6. u # None
      OBVIOUS
    <3> HIDE <3>1
    <3> QED
      BY <1>2, <1>4, <2>3, <3>3, <3>5, <3>6, OwnTold
  <2>9. CASE Ran(s)
    BY <1>2, <1>4, <2>9, RanTold
  <2>10. CASE Ends(s)
    BY <1>1, <1>2, <1>4, <2>10, EndsTold
  <2>11. CASE Aborts(s)
    BY <1>4, <2>11 DEF Aborts
  <2>12. ASSUME NEW t \in Seq(Await), Served(s, t) PROVE Told(u)'
    BY <1>2, <1>4, <2>12, ServedTold
  <2> QED
    BY <2>5, <2>6, <2>7, <2>8, <2>9, <2>10, <2>11, <2>12 DEF Step
<1> QED
  BY <1>3, <1>4

------------------------------------------------------------------------------
(* The invariant *)

LEMMA InitHub == Init => HubIInv
<1> SUFFICES ASSUME Init PROVE HubIInv
  OBVIOUS
<1>1. Cardinality(Users) \in Nat
  BY FS_CardinalityType
<1>2. 0 \in 0..Cardinality(Users) /\ 0 \in 0..MaxFaults
  BY <1>1
<1>3. TypeOK
  BY <1>2, CounterSteps DEF Init, TypeOK
<1>4. \A u \in Users : ~RL!Stuck(rate[u])
  BY CounterSteps DEF Init
<1>5. HubInv
  BY <1>3, <1>4 DEF Init, HubInv, CountersExpire
<1>6. todo \in [Socks -> Seq(Await)] /\ \A s \in Socks : todo[s] = <<>> /\ user[s] = None /\ pc[s] = "none"
  BY NothingShaped DEF Init
<1>7. \A s \in Socks : SessionOK(s)
  BY <1>6, NothingShaped DEF SessionOK
<1>8. \A u \in Users : OneSession(u) /\ \A e : ~Pending(u, e)
  BY <1>6 DEF OneSession, Pending
<1>9. \A u \in Users : Told(u)
  BY <1>8 DEF Told, RoomTold, Init
<1> QED
  BY <1>5, <1>6, <1>7, <1>8, <1>9 DEF HubIInv

LEMMA StepKeepsHub ==
    ASSUME HubIInv, NEW s \in Socks, Step(s), HubType'
    PROVE  HubIInv'
<1>1. CountersExpire'
  BY CountersStep DEF CountersExpire
<1>2. HubInv'
  BY <1>1, TablesStep, SessionsStep DEF HubInv, HubType, Live
<1>3. \A x \in Socks : SessionOK(x)'
  BY SessionsStep DEF SessionOK
<1>4. crossed' = crossed
  BY DEF Step, Begins, Opens, Refused, Ran, Sends, Ends, Aborts, Served, Aside
<1>5. \A u \in Users \ crossed' : OneSession(u)'
  BY <1>4, SessionsStep DEF HubIInv, OneSession
<1>6. \A u \in Users \ (crossed' \cup scarred') : Told(u)'
  BY ToldStep
<1> QED
  BY <1>2, <1>3, <1>5, <1>6 DEF HubIInv, HubType

\* What sessions, tables and presence do not see.
LEMMA AroundKeepsHub ==
    ASSUME HubIInv, Around, HubType'
    PROVE  HubIInv'
<1>1. /\ UNCHANGED <<pc, user, todo, conns, rooms, mine, pres, online, crossed, scarred>>
      /\ HubInv /\ TypeOK'
  BY DEF Around, HubIInv, HubType, tables
<1>2. \A u \in Users : RL!Stuck(rate'[u]) => RL!Stuck(rate[u])
  <2>1. CASE rate' = rate
    BY <2>1
  <2>2. ASSUME NEW v \in Users, rate' = [rate EXCEPT ![v] = RL!Elapse(@)]
        PROVE  \A u \in Users : RL!Stuck(rate'[u]) => RL!Stuck(rate[u])
    BY <1>1, <2>2, CounterSteps DEF HubInv, TypeOK
  <2> QED
    BY <2>1, <2>2 DEF Around
<1>3. CountersExpire'
  BY <1>1, <1>2 DEF CountersExpire, HubInv, Now
<1>4. HubInv'
  BY <1>1, <1>3 DEF HubInv, Live
<1>5. \A x \in Socks : SessionOK(x)'
  BY <1>1 DEF HubIInv, SessionOK
<1>6. \A u, e : Pending(u, e)' <=> Pending(u, e)
  BY <1>1 DEF Pending
<1>7. \A u \in Users : Told(u) => Told(u)'
  BY <1>1, <1>6 DEF Told, RoomTold, Live
<1>8. \A u \in Users : OneSession(u) => OneSession(u)'
  BY <1>1 DEF OneSession
<1> QED
  BY <1>1, <1>4, <1>5, <1>7, <1>8 DEF HubIInv, HubType

LEMMA AuthenticateKeepsHub ==
    ASSUME HubIInv, NEW s \in Socks, NEW u \in Users, Authenticate(s, u)
    PROVE  HubIInv'
<1>1. /\ TypeOK /\ HubInv /\ todo \in [Socks -> Seq(Await)] /\ u # None
      /\ user[s] = None /\ todo[s] = <<>> /\ pc[s] = "none"
  BY SessionFacts DEF HubIInv, HubInv, Authenticate
<1>2. /\ pc' = [pc EXCEPT ![s] = "authed"] /\ user' = [user EXCEPT ![s] = u]
      /\ crossed' = IF \E o \in Socks : user[o] = u THEN crossed \cup {u} ELSE crossed
      /\ UNCHANGED <<todo, size, gone, conns, rooms, mine, pres, online, rate, redis, scarred, faults>>
  BY DEF Authenticate, tables, shared
<1>3. TypeOK'
  BY <1>1, <1>2 DEF TypeOK
<1>4. \A x \in Socks : /\ pc'[x] = IF x = s THEN "authed" ELSE pc[x]
                       /\ user'[x] = IF x = s THEN u ELSE user[x]
                       /\ todo'[x] = todo[x]
  BY <1>1, <1>2 DEF TypeOK
<1>5. CountersExpire'
  BY <1>1, <1>2, <1>4 DEF CountersExpire, HubInv, Now
<1>6. HubInv'
  <2>1. \A p \in rooms' : \E x \in Socks : user'[x] = p[1] /\ Live(x)'
    BY <1>1, <1>2, <1>4 DEF HubInv, Live
  <2>2. \A v \in Users : conns'[v] # None => user'[conns'[v]] = v /\ Live(conns[v])'
    BY <1>1, <1>2, <1>4 DEF HubInv, Live, TypeOK
  <2>3. \A x \in Socks : todo'[x] # <<>> <=> pc'[x] \in {"busy", "cleanup"}
    BY <1>1, <1>4 DEF HubInv
  <2> QED
    BY <1>1, <1>2, <1>3, <1>5, <2>1, <2>2, <2>3 DEF HubInv, Live
<1>7. \A x \in Socks : SessionOK(x)'
  <2>1. Shape(<<>>, "authed")
    BY NothingShaped
  <2> QED
    BY <1>1, <1>4, <2>1 DEF HubIInv, SessionOK
<1>8. \A v \in Users \ crossed' : OneSession(v)'
  BY <1>2, <1>4 DEF HubIInv, OneSession
<1>9. \A v \in Users : \A e : Pending(v, e)' <=> Pending(v, e)
  BY <1>1, <1>4, NothingShaped DEF Pending
<1>10. ASSUME NEW v \in Users \ (crossed' \cup scarred')
       PROVE  Told(v)'
  <2>1. Told(v)
    BY <1>2 DEF HubIInv
  <2>2. (\A x \in Socks : user'[x] = v => ~Live(x)') => \A x \in Socks : user[x] = v => ~Live(x)
    BY <1>1, <1>4 DEF Live
  <2> QED
    BY <1>2, <1>9, <2>1, <2>2 DEF Told, RoomTold
<1> QED
  BY <1>1, <1>2, <1>6, <1>7, <1>8, <1>10 DEF HubIInv

\* The process starts again with nothing; whoever it was in the middle of is
\* scarred, of the others Redis already had what it should.
LEMMA CrashKeepsHub == HubIInv /\ Crash => HubIInv'
<1> SUFFICES ASSUME HubIInv, Crash PROVE HubIInv'
  OBVIOUS
<1>1. /\ TypeOK /\ HubInv
      /\ \A s \in Socks : user[s] \in Users \cup {None} /\ (pc[s] # "none" <=> user[s] \in Users)
  BY SessionFacts DEF HubIInv, HubInv
<1>2. /\ pc' = [s \in Socks |-> "none"] /\ user' = [s \in Socks |-> None] /\ gone' = {}
      /\ todo' = [s \in Socks |-> <<>>] /\ size' = [s \in Socks |-> 0]
      /\ conns' = [u \in Users |-> None] /\ rooms' = {} /\ mine' = {}
      /\ UNCHANGED <<pres, online, rate, redis, crossed>>
      /\ faults < MaxFaults /\ faults' = faults + 1
      /\ scarred' = scarred \cup {user[s] : s \in {x \in Socks : InProgress(x)}}
  BY DEF Crash, shared
<1>3. \A s \in Socks : pc[s] # "none" => user[s] \in scarred'
  BY <1>1, <1>2 DEF InProgress, TypeOK
<1>4. scarred' \subseteq Users /\ scarred \subseteq scarred'
  <2>1. \A s \in Socks : InProgress(s) => user[s] \in Users
    BY <1>1 DEF InProgress
  <2> QED
    BY <1>1, <1>2, <2>1 DEF TypeOK
<1>5. 0 \in 0..Cardinality(Users) /\ faults' \in 0..MaxFaults
  BY <1>1, <1>2, FS_CardinalityType DEF TypeOK
<1>6. TypeOK'
  BY <1>1, <1>2, <1>4, <1>5 DEF TypeOK
<1>7. CountersExpire'
  <2> SUFFICES ASSUME NEW u \in Users \ scarred' PROVE ~RL!Stuck(rate[u])
    BY <1>2 DEF CountersExpire
  <2>1. \A s \in Socks : user[s] # u
    BY <1>1, <1>3
  <2> QED
    BY <1>1, <1>4, <2>1 DEF HubInv, CountersExpire
<1>8. HubInv'
  BY <1>2, <1>6, <1>7 DEF HubInv
<1>9. todo' \in [Socks -> Seq(Await)] /\ \A s \in Socks : todo'[s] = <<>> /\ user'[s] = None /\ pc'[s] = "none"
  BY <1>2, NothingShaped
<1>10. \A s \in Socks : SessionOK(s)'
  BY <1>9, NothingShaped DEF SessionOK
<1>11. \A u \in Users : OneSession(u)' /\ \A e : ~Pending(u, e)'
  BY <1>9 DEF OneSession, Pending
<1>12. ASSUME NEW u \in Users \ (crossed' \cup scarred')
       PROVE  Told(u)'
  <2>1. \A s \in Socks : user[s] # u
    BY <1>1, <1>3
  <2>2. Told(u) /\ \A e : ~Pending(u, e)
    BY <1>2, <1>4, <2>1 DEF HubIInv, Pending
  <2>3. \A r \in Rooms : <<u, r>> \notin rooms
    <3>1. \A r : <<u, r>>[1] = u
      OBVIOUS
    <3> QED
      BY <1>1, <2>1, <3>1 DEF HubInv
  <2>4. u \notin online /\ \A r \in Rooms : <<u, r>> \notin pres
    BY <2>1, <2>2, <2>3 DEF Told, RoomTold
  <2> QED
    BY <1>2, <1>11, <2>4 DEF Told, RoomTold
<1> QED
  BY <1>8, <1>9, <1>10, <1>11, <1>12 DEF HubIInv

LEMMA AroundTypes ==
    ASSUME HubIInv, RedisDown \/ RedisUp \/ \E u \in Users : WindowElapses(u)
    PROVE  Around /\ HubType'
<1>1. TypeOK /\ todo \in [Socks -> Seq(Await)]
  BY DEF HubIInv, HubInv
<1>2. CASE RedisDown \/ RedisUp
  <2>1. /\ UNCHANGED <<session, tables, shared, crossed, scarred>> /\ redis' \in BOOLEAN
        /\ faults' = faults \/ (faults < MaxFaults /\ faults' = faults + 1)
    BY <1>2 DEF RedisDown, RedisUp, history
  <2>2. faults' \in 0..MaxFaults
    BY <1>1, <2>1 DEF TypeOK
  <2>3. Around
    BY <2>1 DEF Around, session, shared
  <2> QED
    BY <1>1, <2>1, <2>2, <2>3 DEF HubType, TypeOK, session, tables, shared
<1>3. ASSUME NEW u \in Users, WindowElapses(u)
      PROVE  Around /\ HubType'
  <2>1. RL!Elapse(rate[u]) \in [n : 0..(Limit + 1), ttl : BOOLEAN]
    BY <1>1, CounterSteps DEF TypeOK
  <2>2. rate' \in [Users -> [n : 0..(Limit + 1), ttl : BOOLEAN]]
    BY <1>1, <1>3, <2>1 DEF TypeOK, WindowElapses
  <2>3. Around
    BY <1>3 DEF WindowElapses, Around, session, history
  <2> QED
    BY <1>1, <1>3, <2>2, <2>3 DEF WindowElapses, HubType, TypeOK, session, tables, history
<1> QED
  BY <1>2, <1>3

LEMMA NextHub == HubIInv /\ [Next]_vars => HubIInv'
<1> SUFFICES ASSUME HubIInv, [Next]_vars PROVE HubIInv'
  OBVIOUS
<1>1. ASSUME NEW s \in Socks, NEW u \in Users, Authenticate(s, u) PROVE HubIInv'
  BY <1>1, AuthenticateKeepsHub
<1>2. ASSUME NEW s \in Socks, Endpoint(s) PROVE HubIInv'
  BY <1>2, EndpointStep, StepKeepsHub, AroundKeepsHub
<1>3. CASE RedisDown \/ RedisUp \/ \E u \in Users : WindowElapses(u)
  BY <1>3, AroundTypes, AroundKeepsHub
<1>4. CASE Crash
  BY <1>4, CrashKeepsHub
<1>5. CASE UNCHANGED vars
  <2>1. Around
    BY <1>5 DEF Around, vars, session, shared, history
  <2>2. TypeOK /\ todo \in [Socks -> Seq(Await)]
    BY DEF HubIInv, HubInv
  <2>3. HubType'
    BY <1>5, <2>2 DEF vars, session, tables, shared, history, HubType, TypeOK
  <2> QED
    BY <2>1, <2>3, AroundKeepsHub
<1> QED
  BY <1>1, <1>2, <1>3, <1>4, <1>5 DEF Next

LEMMA HubIInvAlways == Spec => []HubIInv
  BY InitHub, NextHub, PTL DEF Spec

\* The indexes of the rooms are each other's inverse, whoever is in a room or in
\* the table has a live session, and a counter without expiry is only ever there
\* between INCR and EXPIRE.
THEOREM Hub == Spec => []HubInv
<1>1. HubIInv => HubInv
  BY DEF HubIInv
<1> QED
  BY <1>1, HubIInvAlways, PTL

\* Presence in Redis is what the hub knows of every user at rest who never had
\* two sessions at once and none cut short.
THEOREM PresenceIsTold == Spec => []PresenceTold
<1>1. ASSUME HubIInv PROVE PresenceTold
  <2> SUFFICES ASSUME NEW u \in Users \ (crossed \cup scarred), Resting(u)
               PROVE  /\ \A r \in Rooms : <<u, r>> \in pres <=> <<u, r>> \in rooms
                      /\ (\E r \in Rooms : <<u, r>> \in rooms) => u \in online
                      /\ (\A s \in Socks : user[s] = u => ~Live(s)) => u \notin online
    BY DEF PresenceTold
  <2>1. \A s \in Socks : user[s] = u => ToSet(todo[s]) = {}
    BY <1>1, NothingShaped DEF HubIInv, HubInv, Resting
  <2>2. \A e : ~Pending(u, e)
    BY <2>1 DEF Pending
  <2> QED
    BY <1>1, <2>2 DEF HubIInv, Told, RoomTold
<1> QED
  BY <1>1, HubIInvAlways, PTL

\* The entry of a user in the table of connections goes only with the session it
\* belongs to: an old connection never takes away a newer one.
THEOREM NewerIsKept == Spec => NewerKept
<1> DEFINE Kept == \A u \in Users : conns[u] # None /\ conns'[u] = None => pc'[conns[u]] \in {"cleanup", "none"}
<1>1. ASSUME HubIInv, [Next]_vars PROVE [Kept]_vars
  <2>1. ASSUME NEW s \in Socks, Endpoint(s) PROVE Kept
    <3>1. CASE Step(s)
      BY <1>1, <3>1, TablesStep
    <3>2. CASE Around
      BY <3>2 DEF Around, tables
    <3> QED
      BY <1>1, <2>1, <3>1, <3>2, EndpointStep
  <2>2. ASSUME UNCHANGED conns PROVE Kept
    BY <2>2
  <2>3. CASE Crash
    BY <1>1, <2>3 DEF Crash, HubIInv, HubInv, TypeOK
  <2>4. CASE \/ \E s \in Socks, u \in Users : Authenticate(s, u)
             \/ RedisDown \/ RedisUp \/ \E u \in Users : WindowElapses(u)
    BY <2>2, <2>4 DEF Authenticate, RedisDown, RedisUp, WindowElapses, tables
  <2> QED
    BY <1>1, <2>1, <2>3, <2>4 DEF Next
<1> QED
  BY <1>1, HubIInvAlways, PTL DEF Spec, NewerKept

=============================================================================

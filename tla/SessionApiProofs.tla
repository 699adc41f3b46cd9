--------------------------- MODULE SessionApiProofs ---------------------------
(***************************************************************************)
(* Proofs about SessionApi and the ConnectionManager under it, for any     *)
(* sockets, sessions, runs and broadcasts.  IInv is inductive; what the    *)
(* lists and the announcements promise is part of it.                      *)
(***************************************************************************)
EXTENDS SessionApi, SequenceTheorems, WellFoundedInduction, TLAPS

-----------------------------------------------------------------------------
(* Numbers *)

LEMMA LeastNumber ==
  ASSUME NEW S, S \subseteq Nat, S # {}
  PROVE  \E x \in S : \A y \in S : x <= y
<1>1. PICK x \in S : \A y \in S : ~(<<y, x>> \in OpToRel(<, Nat))
  BY NatLessThanWellFounded, WFMin
<1>2. \A y \in S : ~(y < x)
  BY <1>1, Zenon DEF OpToRel
<1>3. \A y \in S : x <= y
  BY <1>2
<1>4. QED
  BY <1>3

\* The counterexample an induction starts from: the least number that is not in
\* Good is 0, or its predecessor is in Good.
LEMMA LeastFailure ==
  ASSUME NEW Good, NEW n \in Nat, n \notin Good
  PROVE  \E m \in Nat : /\ m \notin Good
                        /\ m = 0 \/ (m > 0 /\ m - 1 \in Nat /\ m - 1 \in Good)
<1>1. Nat \ Good \subseteq Nat /\ Nat \ Good # {}
  OBVIOUS
<1>2. PICK m \in Nat \ Good : \A y \in Nat \ Good : m <= y
  BY <1>1, LeastNumber
<1>3. CASE m = 0
  BY <1>3
<1>4. CASE m # 0
  <2>1. m - 1 \in Nat /\ ~(m <= m - 1)
    BY <1>4
  <2>2. m - 1 \in Good
    BY <1>2, <2>1
  <2>3. QED
    BY <2>1, <2>2
<1>5. QED
  BY <1>3, <1>4

-----------------------------------------------------------------------------
(* Lists of sockets *)

\* No element comes twice.
Once(q) == \A i, j \in DOMAIN q : q[i] = q[j] => i = j

LEMMA AppendOne ==
  ASSUME NEW S, NEW q \in Seq(S), NEW e \in S
  PROVE  /\ Append(q, e) \in Seq(S)
         /\ ToSet(Append(q, e)) = ToSet(q) \cup {e}
         /\ (Once(q) /\ e \notin ToSet(q)) => Once(Append(q, e))
<1> DEFINE r == Append(q, e)
<1>1. /\ Len(q) \in Nat /\ DOMAIN q = 1..Len(q)
      /\ r \in Seq(S) /\ Len(r) = Len(q) + 1 /\ DOMAIN r = 1..(Len(q) + 1)
      /\ \A i \in 1..Len(q) : r[i] = q[i]
      /\ r[Len(q) + 1] = e
  OBVIOUS
<1> HIDE DEF r
<1>2. \A i \in DOMAIN r : i \in DOMAIN q \/ i = Len(q) + 1
  BY <1>1
<1>3. DOMAIN q \subseteq DOMAIN r /\ Len(q) + 1 \in DOMAIN r /\ Len(q) + 1 \notin DOMAIN q
  BY <1>1
<1>4. ToSet(r) = ToSet(q) \cup {e}
  <2>1. ASSUME NEW x \in ToSet(r) PROVE x \in ToSet(q) \cup {e}
    <3>1. PICK i \in DOMAIN r : x = r[i]
      BY DEF ToSet
    <3>2. QED
      BY <1>1, <1>2, <3>1 DEF ToSet
  <2>2. ASSUME NEW x \in ToSet(q) PROVE x \in ToSet(r)
    <3>1. PICK i \in DOMAIN q : x = q[i]
      BY DEF ToSet
    <3>2. x = r[i] /\ i \in DOMAIN r
      BY <1>1, <1>3, <3>1
    <3>3. QED
      BY <3>2 DEF ToSet
  <2>3. e \in ToSet(r)
    BY <1>1, <1>3 DEF ToSet
  <2>4. QED
    BY <2>1, <2>2, <2>3
<1>5. ASSUME Once(q), e \notin ToSet(q) PROVE Once(r)
  <2>1. \A i \in DOMAIN q : q[i] # e
    BY <1>5 DEF ToSet
  <2>2. QED
    BY <1>1, <1>2, <1>5, <2>1 DEF Once
<1>6. QED
  BY <1>1, <1>4, <1>5 DEF r

\* What is left of the first i elements of q without those in C, given what is left
\* of fewer of them.
Left(f, q, C, i) ==
  IF i = 0 THEN <<>>
  ELSE IF q[i] \in C THEN f[i - 1] ELSE Append(f[i - 1], q[i])

Lefts(f, q, C, n) == f = [i \in 0..n |-> Left(f, q, C, i)]

LEMMA LeftsExist ==
  ASSUME NEW q, NEW C, NEW n \in Nat
  PROVE  \E f : Lefts(f, q, C, n)
<1> DEFINE Good == {m \in Nat : \E f : Lefts(f, q, C, m)}
<1> SUFFICES ASSUME n \notin Good PROVE FALSE
  OBVIOUS
<1>1. PICK m \in Nat : /\ m \notin Good
                       /\ m = 0 \/ (m > 0 /\ m - 1 \in Nat /\ m - 1 \in Good)
  <2> HIDE DEF Good
  <2>1. QED
    BY LeastFailure
<1>2. CASE m = 0
  <2> DEFINE f == [i \in 0..0 |-> <<>>]
  <2>1. Lefts(f, q, C, 0)
    BY DEF Lefts, Left
  <2>2. QED
    BY <1>1, <1>2, <2>1
<1>3. CASE m > 0 /\ m - 1 \in Nat /\ m - 1 \in Good
  <2>1. PICK g : Lefts(g, q, C, m - 1)
    BY <1>3
  <2> DEFINE f == [i \in 0..m |-> Left(g, q, C, i)]
  <2>2. \A i \in 0..(m - 1) : g[i] = Left(g, q, C, i)
    BY <2>1 DEF Lefts
  <2>3. \A i \in 0..(m - 1) : f[i] = g[i]
    BY <2>2
  <2>4. ASSUME NEW i \in 0..m
        PROVE  Left(f, q, C, i) = Left(g, q, C, i)
    <3>1. CASE i = 0
      BY <3>1 DEF Left
    <3>2. CASE i # 0
      <4>1. i - 1 \in 0..(m - 1)
        BY <3>2
      <4>2. f[i - 1] = g[i - 1]
        BY <2>3, <4>1
      <4> HIDE DEF f
      <4>3. QED
        BY <3>2, <4>2 DEF Left
    <3>3. QED
      BY <3>1, <3>2
  <2>5. f = [i \in 0..m |-> Left(f, q, C, i)]
    <3>1. [i \in 0..m |-> Left(f, q, C, i)] = [i \in 0..m |-> Left(g, q, C, i)]
      BY <2>4, Zenon
    <3>2. QED
      BY <3>1, Zenon
  <2> HIDE DEF f
  <2>6. Lefts(f, q, C, m)
    BY <2>5 DEF Lefts
  <2>7. QED
    BY <1>1, <2>6
<1>4. QED
  BY <1>1, <1>2, <1>3

LEMMA LeftFacts ==
  ASSUME NEW S, NEW q \in Seq(S), NEW C, NEW f, Lefts(f, q, C, Len(q)), NEW i \in 0..Len(q)
  PROVE  /\ f[i] \in Seq(S)
         /\ ToSet(f[i]) = {q[k] : k \in 1..i} \ C
         /\ Once(q) => Once(f[i])
<1> DEFINE Fact(k) == /\ f[k] \in Seq(S)
                      /\ ToSet(f[k]) = {q[j] : j \in 1..k} \ C
                      /\ Once(q) => Once(f[k])
           Good == {k \in Nat : k <= Len(q) => Fact(k)}
<1> SUFFICES ASSUME i \notin Good PROVE FALSE
  <2>1. i \in Nat /\ i <= Len(q)
    OBVIOUS
  <2>2. i \in Good => Fact(i)
    BY <2>1
  <2>3. QED
    BY <2>2
<1>1. PICK m \in Nat : /\ m \notin Good
                       /\ m = 0 \/ (m > 0 /\ m - 1 \in Nat /\ m - 1 \in Good)
  <2>1. i \in Nat
    OBVIOUS
  <2> HIDE DEF Good
  <2>2. QED
    BY <2>1, LeastFailure
<1>2. m <= Len(q) /\ m \in 0..Len(q) /\ ~Fact(m)
  BY <1>1
<1>3. f[m] = Left(f, q, C, m)
  BY <1>2 DEF Lefts
<1>4. CASE m = 0
  <2>1. f[m] = <<>> /\ {q[j] : j \in 1..m} = {}
    BY <1>3, <1>4 DEF Left
  <2>2. <<>> \in Seq(S) /\ DOMAIN <<>> = {}
    OBVIOUS
  <2>3. ToSet(<<>>) = {} /\ Once(<<>>)
    BY <2>2 DEF ToSet, Once
  <2>4. Fact(m)
    BY <2>1, <2>2, <2>3
  <2>5. QED
    BY <1>2, <2>4
<1>5. CASE m > 0 /\ m - 1 \in Nat /\ m - 1 \in Good
  <2>1. Fact(m - 1) /\ q[m] \in S
    BY <1>2, <1>5
  <2>2. \A j : j \in 1..m <=> j \in 1..(m - 1) \/ j = m
    BY <1>5
  <2>3. {q[j] : j \in 1..m} = {q[j] : j \in 1..(m - 1)} \cup {q[m]}
    BY <2>2
  <2>4. CASE q[m] \in C
    <3>1. f[m] = f[m - 1]
      BY <1>3, <1>5, <2>4 DEF Left
    <3>2. Fact(m)
      BY <2>1, <2>3, <2>4, <3>1
    <3>3. QED
      BY <1>2, <3>2
  <2>5. CASE q[m] \notin C
    <3>1. f[m] = Append(f[m - 1], q[m])
      BY <1>3, <1>5, <2>5 DEF Left
    <3>2. ASSUME Once(q) PROVE q[m] \notin ToSet(f[m - 1])
      <4>1. \A j \in 1..(m - 1) : j \in DOMAIN q /\ m \in DOMAIN q /\ j # m
        BY <1>2, <1>5
      <4>2. \A j \in 1..(m - 1) : q[j] # q[m]
        BY <3>2, <4>1 DEF Once
      <4>3. QED
        BY <2>1, <4>2
    <3>3. /\ f[m] \in Seq(S)
          /\ ToSet(f[m]) = ToSet(f[m - 1]) \cup {q[m]}
          /\ Once(q) => Once(f[m])
      BY <2>1, <3>1, <3>2, AppendOne
    <3>4. Fact(m)
      BY <2>1, <2>3, <2>5, <3>3
    <3>5. QED
      BY <1>2, <3>4
  <2>6. QED
    BY <2>4, <2>5
<1>6. QED
  BY <1>1, <1>4, <1>5

\* disconnect takes out the sockets it is called for and no others.
LEMMA RestFacts ==
  ASSUME NEW s, active[s] \in Seq(Sockets), NEW C
  PROVE  /\ Rest(s, C) \in Seq(Sockets)
         /\ ToSet(Rest(s, C)) = Listed(s) \ C
         /\ Once(active[s]) => Once(Rest(s, C))
<1> DEFINE q == active[s]
           n == Len(q)
           f == CHOOSE g : Lefts(g, q, C, n)
<1>1. n \in Nat /\ n \in 0..n /\ DOMAIN q = 1..n
  OBVIOUS
<1>2. Rest(s, C) = f[n]
  BY Zenon DEF Rest, Lefts, Left
<1>3. Lefts(f, q, C, n)
  <2>1. \E g : Lefts(g, q, C, n)
    BY <1>1, LeftsExist
  <2>2. QED
    BY <2>1, Zenon
<1> HIDE DEF f
<1>4. /\ f[n] \in Seq(Sockets)
      /\ ToSet(f[n]) = {q[k] : k \in 1..n} \ C
      /\ Once(q) => Once(f[n])
  BY <1>1, <1>3, LeftFacts
<1>5. Listed(s) = {q[k] : k \in 1..n}
  BY <1>1 DEF Listed, ToSet
<1>6. QED
  BY <1>2, <1>4, <1>5

-----------------------------------------------------------------------------
(* The inductive invariant *)

SendingType ==
  [pc : {"idle", "sending", "done"}, session : Sessions \cup {"none"},
   message : Messages \cup {"none"}, next : Nat \ {0}, live : BOOLEAN,
   dead : SUBSET Sockets, due : SUBSET Sockets]

ConnectionTyped ==
  /\ active \in [Sessions -> Seq(Sockets)]
  /\ endpoint \in [Sockets -> {"none", "accepting", "accepted", "serving"}]
  /\ peer \in [Sockets -> {"up", "gone"}]
  /\ sessionOf \in [Sockets -> Sessions \cup {"none"}]
  /\ inbox \in [Sockets -> Seq(Messages)]
  /\ sending \in [Broadcasts -> SendingType]

ApiTyped ==
  /\ sessions \in [Sessions -> {"absent", "fresh", "failed", "values"}]
  /\ run \in [Runs -> [pc : {"free", "running", "done", "died"},
                       session : Sessions \cup {"none"}, quiet : BOOLEAN]]
  /\ pipeline \in BOOLEAN

\* Every endpoint, broadcast and run at work has a session.
BoundInv ==
  /\ \A c \in Sockets : endpoint[c] # "none" => sessionOf[c] \in Sessions
  /\ \A b \in Broadcasts :
       /\ sending[b].pc = "sending" => sending[b].message # "none"
       /\ sending[b].message # "none" => sending[b].session \in Sessions
  /\ \A r \in Runs : run[r].pc # "free" => run[r].session \in Sessions

\* A peer without an endpoint has gone, nothing is on its way to one that has gone,
\* and a broadcast only takes for dead who has gone, so that a number it is going to
\* strike off is not used again before.
PeersInv ==
  /\ \A c \in Sockets : endpoint[c] = "none" => peer[c] = "gone"
  /\ \A c \in Sockets : peer[c] = "gone" => inbox[c] = <<>>
  /\ \A b \in Broadcasts : \A c \in sending[b].dead : peer[c] = "gone"

IInv ==
  /\ ConnectionTyped
  /\ ApiTyped
  /\ BoundInv
  /\ PeersInv
  /\ ListMatchesEndpoints
  /\ AnnouncedIsStored

\* The lists, one session at a time.
ListOf(s) ==
  /\ Once(active[s])
  /\ \A c \in Listed(s) : endpoint[c] = "serving" /\ sessionOf[c] = s
  /\ \A c \in Sockets :
       (endpoint[c] = "serving" /\ peer[c] = "up" /\ sessionOf[c] = s) => c \in Listed(s)

LEMMA ListByList == ListMatchesEndpoints <=> \A s \in Sessions : ListOf(s)
BY DEF ListMatchesEndpoints, ListOf, Once

LEMMA ListsAfter ==
  ASSUME \A s \in Sessions : ListOf(s)'
  PROVE  ListMatchesEndpoints'
BY DEF ListMatchesEndpoints, ListOf, Once

LEMMA InitInv == ApiInit => IInv
<1> SUFFICES ASSUME ApiInit PROVE IInv
  OBVIOUS
<1>1. Idle \in SendingType
  BY DEF Idle, SendingType
<1>2. <<>> \in Seq(Sockets) /\ <<>> \in Seq(Messages) /\ DOMAIN <<>> = {}
  OBVIOUS
<1>3. ToSet(<<>>) = {} /\ Once(<<>>)
  BY <1>2 DEF ToSet, Once
<1>4. ConnectionTyped
  BY <1>1, <1>2 DEF ApiInit, ConnectionInit, ConnectionTyped
<1>5. ApiTyped
  BY DEF ApiInit, ApiTyped, Unused
<1>6. BoundInv /\ PeersInv /\ AnnouncedIsStored
  BY <1>3 DEF ApiInit, ConnectionInit, BoundInv, PeersInv, AnnouncedIsStored, Idle, Unused, Runs
<1>7. \A s \in Sessions : ListOf(s)
  BY <1>3 DEF ApiInit, ConnectionInit, ListOf, Listed
<1>8. QED
  BY <1>4, <1>5, <1>6, <1>7, ListByList DEF IInv

-----------------------------------------------------------------------------
(* What the steps are made of *)

LEMMA DisconnectFacts ==
  ASSUME ConnectionTyped, NEW s \in Sessions, NEW C, Disconnect(s, C)
  PROVE  /\ active' \in [Sessions -> Seq(Sockets)]
         /\ \A u \in Sessions : Listed(u)' = IF u = s THEN Listed(u) \ C ELSE Listed(u)
         /\ \A u \in Sessions : Once(active[u]) => Once(active'[u])
<1>1. active \in [Sessions -> Seq(Sockets)] /\ active[s] \in Seq(Sockets)
  BY DEF ConnectionTyped
<1>2. /\ Rest(s, C) \in Seq(Sockets)
      /\ ToSet(Rest(s, C)) = Listed(s) \ C
      /\ Once(active[s]) => Once(Rest(s, C))
  BY <1>1, RestFacts
<1>3. /\ active' \in [Sessions -> Seq(Sockets)] /\ active'[s] = Rest(s, C)
      /\ \A u \in Sessions : u # s => active'[u] = active[u]
  BY <1>1, <1>2 DEF Disconnect
<1>4. QED
  BY <1>2, <1>3 DEF Listed

LEMMA AfterFacts ==
  ASSUME NEW x \in SendingType, NEW s, NEW C
  PROVE  LET y == AfterDisconnect(x, s, C)
         IN  /\ y \in SendingType
             /\ y.pc = x.pc /\ y.session = x.session /\ y.message = x.message /\ y.dead = x.dead
<1>1. CASE x.pc = "sending" /\ x.session = s
  BY <1>1 DEF AfterDisconnect, SendingType
<1>2. CASE ~(x.pc = "sending" /\ x.session = s)
  BY <1>2 DEF AfterDisconnect
<1>3. QED
  BY <1>1, <1>2

LEMMA ListedAreSockets ==
  ASSUME ConnectionTyped, NEW s \in Sessions
  PROVE  Listed(s) \subseteq Sockets
<1>1. active[s] \in Seq(Sockets)
  BY DEF ConnectionTyped
<1>2. QED
  BY <1>1 DEF Listed, ToSet

LEMMA BroadcastFacts ==
  ASSUME ConnectionTyped, NEW b \in Broadcasts, NEW s \in Sessions, NEW m \in Messages,
         Broadcast(b, s, m)
  PROVE  /\ sending' \in [Broadcasts -> SendingType]
         /\ \A x \in Broadcasts : x # b => sending'[x] = sending[x]
         /\ sending'[b].session = s /\ sending'[b].message = m /\ sending'[b].dead = {}
<1> DEFINE due == {c \in Listed(s) : peer[c] = "up"}
           y == IF active[s] = <<>>
                THEN [Idle EXCEPT !.pc = "done", !.session = s, !.message = m]
                ELSE [Idle EXCEPT !.pc = "sending", !.session = s, !.message = m, !.due = due]
<1>1. Listed(s) \subseteq Sockets
  BY ListedAreSockets
<1>2. due \in SUBSET Sockets
  BY <1>1
<1> HIDE DEF due
<1>3. y \in SendingType /\ y.session = s /\ y.message = m /\ y.dead = {}
  <2>1. \E state \in {"sending", "done"}, D \in SUBSET Sockets :
           y = [pc |-> state, session |-> s, message |-> m, next |-> 1, live |-> TRUE,
                dead |-> {}, due |-> D]
    BY <1>2 DEF Idle
  <2>2. 1 \in Nat \ {0} /\ {} \in SUBSET Sockets
    OBVIOUS
  <2> HIDE DEF y
  <2>3. QED
    BY <2>1, <2>2 DEF SendingType
<1>4. sending' = [sending EXCEPT ![b] = y]
  BY DEF Broadcast, due
<1> HIDE DEF y
<1>5. QED
  BY <1>3, <1>4 DEF ConnectionTyped

\* As long as the store stays as it is, so does what has been announced, if no new
\* END is on its way to anybody without a result.
LEMMA AnnouncedKept ==
  ASSUME AnnouncedIsStored, sessions' = sessions,
         \A b \in Broadcasts : /\ sending'[b].message = sending[b].message
                               /\ sending'[b].session = sending[b].session,
         \A c \in Sockets :
           \/ ToSet(inbox'[c]) = {}
           \/ /\ sessionOf'[c] = sessionOf[c]
              /\ "END" \in ToSet(inbox'[c]) =>
                   "END" \in ToSet(inbox[c]) \/ sessions[sessionOf[c]] = "values"
  PROVE  AnnouncedIsStored'
BY DEF AnnouncedIsStored

LEMMA EmptyInbox == ToSet(<<>>) = {} /\ <<>> \in Seq(Messages)
<1>1. DOMAIN <<>> = {} /\ <<>> \in Seq(Messages)
  OBVIOUS
<1>2. QED
  BY <1>1 DEF ToSet

\* An endpoint that is not serving is in no list.
LEMMA OnlyServingListed ==
  ASSUME IInv, NEW c \in Sockets, endpoint[c] # "serving", NEW s \in Sessions
  PROVE  c \notin Listed(s)
BY DEF IInv, ListMatchesEndpoints

-----------------------------------------------------------------------------
(* The endpoints *)

LEMMA AcceptInv ==
  ASSUME IInv, UNCHANGED <<sessions, run, pipeline>>, NEW c \in Sockets, Accept(c)
  PROVE  IInv'
<1>1. /\ endpoint[c] = "accepting" /\ endpoint' = [endpoint EXCEPT ![c] = "accepted"]
      /\ UNCHANGED <<active, peer, sessionOf, inbox, sending, sessions, run, pipeline>>
  BY DEF Accept
<1>2. ConnectionTyped' /\ ApiTyped'
  BY <1>1 DEF IInv, ConnectionTyped, ApiTyped
<1>3. BoundInv' /\ PeersInv'
  BY <1>1 DEF IInv, ConnectionTyped, BoundInv, PeersInv
<1>4. AnnouncedIsStored'
  BY <1>1 DEF IInv, AnnouncedIsStored
<1>5. ASSUME NEW s \in Sessions PROVE ListOf(s)'
  <2>1. ListOf(s) /\ c \notin Listed(s)
    BY <1>1, ListByList, OnlyServingListed DEF IInv
  <2>2. QED
    BY <1>1, <2>1 DEF ListOf, Listed, IInv, ConnectionTyped
<1>6. QED
  BY <1>2, <1>3, <1>4, <1>5, ListsAfter DEF IInv

LEMMA AcceptFailsInv ==
  ASSUME IInv, UNCHANGED <<sessions, run, pipeline>>, NEW c \in Sockets, AcceptFails(c)
  PROVE  IInv'
<1>1. /\ endpoint[c] = "accepting" /\ peer[c] = "gone"
      /\ endpoint' = [endpoint EXCEPT ![c] = "none"]
      /\ sessionOf' = [sessionOf EXCEPT ![c] = "none"]
      /\ UNCHANGED <<active, peer, inbox, sending, sessions, run, pipeline>>
  BY DEF AcceptFails
<1>2. ConnectionTyped' /\ ApiTyped'
  BY <1>1 DEF IInv, ConnectionTyped, ApiTyped
<1>3. BoundInv' /\ PeersInv'
  BY <1>1 DEF IInv, ConnectionTyped, BoundInv, PeersInv
<1>4. AnnouncedIsStored'
  <2>1. inbox[c] = <<>>
    BY <1>1 DEF IInv, PeersInv
  <2>2. QED
    BY <1>1, <2>1, EmptyInbox, AnnouncedKept DEF IInv, ConnectionTyped
<1>5. ASSUME NEW s \in Sessions PROVE ListOf(s)'
  <2>1. ListOf(s) /\ c \notin Listed(s)
    BY <1>1, ListByList, OnlyServingListed DEF IInv
  <2>2. QED
    BY <1>1, <2>1 DEF ListOf, Listed, IInv, ConnectionTyped
<1>6. QED
  BY <1>2, <1>3, <1>4, <1>5, ListsAfter DEF IInv

LEMMA RegisterInv ==
  ASSUME IInv, UNCHANGED <<sessions, run, pipeline>>, NEW c \in Sockets, Register(c)
  PROVE  IInv'
<1>1. /\ endpoint[c] = "accepted" /\ endpoint' = [endpoint EXCEPT ![c] = "serving"]
      /\ active' = [active EXCEPT ![sessionOf[c]] = Append(@, c)]
      /\ UNCHANGED <<peer, sessionOf, inbox, sending, sessions, run, pipeline>>
  BY DEF Register
<1>2. sessionOf[c] \in Sessions
  BY <1>1 DEF IInv, BoundInv
<1>3. ASSUME NEW s \in Sessions PROVE active[s] \in Seq(Sockets)
  BY DEF IInv, ConnectionTyped
<1>4. ConnectionTyped' /\ ApiTyped'
  <2>1. Append(active[sessionOf[c]], c) \in Seq(Sockets)
    BY <1>2, <1>3, AppendOne
  <2>2. QED
    BY <1>1, <1>2, <2>1 DEF IInv, ConnectionTyped, ApiTyped
<1>5. BoundInv' /\ PeersInv'
  BY <1>1 DEF IInv, ConnectionTyped, BoundInv, PeersInv
<1>6. AnnouncedIsStored'
  BY <1>1 DEF IInv, AnnouncedIsStored
<1>7. ASSUME NEW s \in Sessions PROVE ListOf(s)'
  <2>1. ListOf(s) /\ c \notin Listed(s)
    BY <1>1, ListByList, OnlyServingListed DEF IInv
  <2>2. CASE s = sessionOf[c]
    <3>1. active'[s] = Append(active[s], c)
      BY <1>1, <2>2 DEF IInv, ConnectionTyped
    <3>2. Listed(s)' = Listed(s) \cup {c} /\ Once(active'[s])
      BY <1>3, <2>1, <3>1, AppendOne DEF Listed, ListOf
    <3>3. QED
      BY <1>1, <2>1, <2>2, <3>2 DEF ListOf, IInv, ConnectionTyped
  <2>3. CASE s # sessionOf[c]
    <3>1. active'[s] = active[s] /\ Listed(s)' = Listed(s)
      BY <1>1, <2>3 DEF Listed, IInv, ConnectionTyped
    <3>2. QED
      BY <1>1, <2>1, <2>3, <3>1 DEF ListOf, IInv, ConnectionTyped
  <2>4. QED
    BY <2>2, <2>3
<1>8. QED
  BY <1>4, <1>5, <1>6, <1>7, ListsAfter DEF IInv

LEMMA LeaveInv ==
  ASSUME IInv, UNCHANGED <<sessions, run, pipeline>>, NEW c \in Sockets, Leave(c)
  PROVE  IInv'
<1> DEFINE u == sessionOf[c]
<1>1. /\ endpoint[c] = "serving" /\ endpoint' = [endpoint EXCEPT ![c] = "none"]
      /\ sessionOf' = [sessionOf EXCEPT ![c] = "none"]
      /\ peer' = [peer EXCEPT ![c] = "gone"]
      /\ inbox' = [inbox EXCEPT ![c] = <<>>]
      /\ Disconnect(u, {c})
      /\ sending' = [b \in Broadcasts |-> AfterDisconnect(sending[b], u, {c})]
      /\ UNCHANGED <<sessions, run, pipeline>>
  BY DEF Leave
<1>2. u \in Sessions
  BY <1>1 DEF IInv, BoundInv
<1>3. /\ active' \in [Sessions -> Seq(Sockets)]
      /\ \A s \in Sessions : Listed(s)' = IF s = u THEN Listed(s) \ {c} ELSE Listed(s)
      /\ \A s \in Sessions : Once(active[s]) => Once(active'[s])
  BY <1>1, <1>2, DisconnectFacts DEF IInv
<1>4. ASSUME NEW b \in Broadcasts
      PROVE  /\ sending'[b] \in SendingType /\ sending'[b].pc = sending[b].pc
             /\ sending'[b].session = sending[b].session
             /\ sending'[b].message = sending[b].message /\ sending'[b].dead = sending[b].dead
  <2>1. sending[b] \in SendingType
    BY DEF IInv, ConnectionTyped
  <2>2. sending'[b] = AfterDisconnect(sending[b], u, {c})
    BY <1>1
  <2> HIDE DEF u
  <2>3. QED
    BY <2>1, <2>2, AfterFacts
<1>5. sending' \in [Broadcasts -> SendingType]
  BY <1>1, <1>4
<1> HIDE DEF u
<1>6. ConnectionTyped' /\ ApiTyped'
  BY <1>1, <1>3, <1>5, EmptyInbox DEF IInv, ConnectionTyped, ApiTyped
<1>7. BoundInv' /\ PeersInv'
  <2>1. \A d \in Sockets : d # c =>
          /\ endpoint'[d] = endpoint[d] /\ sessionOf'[d] = sessionOf[d]
          /\ peer'[d] = peer[d] /\ inbox'[d] = inbox[d]
    BY <1>1 DEF IInv, ConnectionTyped
  <2>2. endpoint'[c] = "none" /\ peer'[c] = "gone" /\ inbox'[c] = <<>>
    BY <1>1 DEF IInv, ConnectionTyped
  <2>3. \A b \in Broadcasts : sending[b].dead \subseteq Sockets
    BY DEF IInv, ConnectionTyped, SendingType
  <2>4. BoundInv'
    <3>1. \A d \in Sockets : endpoint'[d] # "none" => sessionOf'[d] \in Sessions
      BY <2>1, <2>2 DEF IInv, BoundInv
    <3>2. \A b \in Broadcasts :
            /\ sending'[b].pc = "sending" => sending'[b].message # "none"
            /\ sending'[b].message # "none" => sending'[b].session \in Sessions
      BY <1>4 DEF IInv, BoundInv
    <3>3. run' = run
      BY <1>1
    <3>4. QED
      BY <3>1, <3>2, <3>3 DEF IInv, BoundInv
  <2>5. PeersInv'
    BY <1>4, <2>1, <2>2, <2>3 DEF IInv, PeersInv
  <2>6. QED
    BY <2>4, <2>5
<1>8. AnnouncedIsStored'
  BY <1>1, <1>4, EmptyInbox, AnnouncedKept DEF IInv, ConnectionTyped
<1>9. ASSUME NEW s \in Sessions PROVE ListOf(s)'
  <2>1. ListOf(s)
    BY ListByList DEF IInv
  <2>2. c \notin Listed(s)'
    BY <1>3, <2>1 DEF ListOf, u
  <2>3. \A d \in Sockets : d # c =>
          endpoint'[d] = endpoint[d] /\ sessionOf'[d] = sessionOf[d] /\ peer'[d] = peer[d]
    BY <1>1 DEF IInv, ConnectionTyped
  <2>4. endpoint'[c] = "none" /\ Listed(s) \subseteq Sockets
    BY <1>1, ListedAreSockets DEF IInv, ConnectionTyped
  <2>5. \A d \in Listed(s)' : d \in Listed(s) /\ d # c
    BY <1>3, <2>2
  <2>6. \A d \in Listed(s) : d # c => d \in Listed(s)'
    BY <1>3
  <2>7. QED
    BY <1>3, <2>1, <2>3, <2>4, <2>5, <2>6 DEF ListOf
<1>10. QED
  BY <1>6, <1>7, <1>8, <1>9, ListsAfter DEF IInv

-----------------------------------------------------------------------------
(* Clients and the network *)

LEMMA TailFacts ==
  ASSUME NEW S, NEW q \in Seq(S), q # <<>>
  PROVE  Tail(q) \in Seq(S) /\ ToSet(Tail(q)) \subseteq ToSet(q)
<1>1. /\ Len(q) \in Nat /\ Len(q) # 0 /\ DOMAIN q = 1..Len(q)
      /\ Tail(q) \in Seq(S) /\ Len(Tail(q)) = Len(q) - 1
      /\ DOMAIN Tail(q) = 1..(Len(q) - 1)
      /\ \A i \in 1..(Len(q) - 1) : Tail(q)[i] = q[i + 1]
  OBVIOUS
<1>2. ASSUME NEW i \in DOMAIN Tail(q) PROVE Tail(q)[i] \in ToSet(q)
  <2>1. Tail(q)[i] = q[i + 1] /\ i + 1 \in DOMAIN q
    BY <1>1
  <2>2. QED
    BY <2>1 DEF ToSet
<1>3. QED
  BY <1>1, <1>2 DEF ToSet

LEMMA ReceiveInv ==
  ASSUME IInv, UNCHANGED <<sessions, run, pipeline>>, NEW c \in Sockets, Receive(c)
  PROVE  IInv'
<1>1. /\ peer[c] = "up" /\ inbox[c] # <<>>
      /\ inbox' = [inbox EXCEPT ![c] = Tail(inbox[c])]
      /\ UNCHANGED <<active, endpoint, peer, sessionOf, sending, sessions, run, pipeline>>
  BY DEF Receive
<1>2. Tail(inbox[c]) \in Seq(Messages) /\ ToSet(Tail(inbox[c])) \subseteq ToSet(inbox[c])
  <2>1. inbox[c] \in Seq(Messages)
    BY DEF IInv, ConnectionTyped
  <2>2. QED
    BY <1>1, <2>1, TailFacts
<1>3. ConnectionTyped' /\ ApiTyped'
  BY <1>1, <1>2 DEF IInv, ConnectionTyped, ApiTyped
<1>4. BoundInv' /\ PeersInv'
  BY <1>1 DEF IInv, ConnectionTyped, BoundInv, PeersInv
<1>5. AnnouncedIsStored'
  BY <1>1, <1>2, AnnouncedKept DEF IInv, ConnectionTyped
<1>6. ListMatchesEndpoints'
  BY <1>1 DEF IInv, ListMatchesEndpoints, Listed
<1>7. QED
  BY <1>3, <1>4, <1>5, <1>6 DEF IInv

LEMMA DropInv ==
  ASSUME IInv, UNCHANGED <<sessions, run, pipeline>>, NEW c \in Sockets, Drop(c)
  PROVE  IInv'
<1>1. /\ peer' = [d \in Sockets |-> IF d \in {c} THEN "gone" ELSE peer[d]]
      /\ inbox' = [d \in Sockets |-> IF d \in {c} THEN <<>> ELSE inbox[d]]
      /\ sending' = [b \in Broadcasts |-> [sending[b] EXCEPT !.due = @ \ {c}]]
      /\ UNCHANGED <<active, endpoint, sessionOf, sessions, run, pipeline>>
  BY DEF Drop, Gone
<1>2. ASSUME NEW b \in Broadcasts
      PROVE  /\ sending'[b] \in SendingType /\ sending'[b].pc = sending[b].pc
             /\ sending'[b].session = sending[b].session
             /\ sending'[b].message = sending[b].message /\ sending'[b].dead = sending[b].dead
  <2>1. sending[b] \in SendingType /\ sending'[b] = [sending[b] EXCEPT !.due = @ \ {c}]
    BY <1>1 DEF IInv, ConnectionTyped
  <2>2. QED
    BY <2>1 DEF SendingType
<1>3. ConnectionTyped' /\ ApiTyped'
  <2>1. sending' \in [Broadcasts -> SendingType]
    BY <1>1, <1>2
  <2>2. QED
    BY <1>1, <2>1, EmptyInbox DEF IInv, ConnectionTyped, ApiTyped
<1>4. BoundInv' /\ PeersInv'
  <2>1. BoundInv'
    BY <1>1, <1>2 DEF IInv, BoundInv
  <2>2. \A b \in Broadcasts : sending[b].dead \subseteq Sockets
    BY DEF IInv, ConnectionTyped, SendingType
  <2>3. PeersInv'
    BY <1>1, <1>2, <2>2 DEF IInv, PeersInv
  <2>4. QED
    BY <2>1, <2>3
<1>5. AnnouncedIsStored'
  BY <1>1, <1>2, EmptyInbox, AnnouncedKept DEF IInv
<1>6. ListMatchesEndpoints'
  <2>1. \A d \in Sockets : peer'[d] = "up" => peer[d] = "up"
    BY <1>1
  <2>2. QED
    BY <1>1, <2>1 DEF IInv, ListMatchesEndpoints, Listed
<1>7. QED
  BY <1>3, <1>4, <1>5, <1>6 DEF IInv

LEMMA OpenInv ==
  ASSUME IInv, UNCHANGED <<sessions, run, pipeline>>, NEW s \in Sessions, Open(s)
  PROVE  IInv'
<1> DEFINE c == Min(FreeSockets)
<1>1. c \in Sockets /\ endpoint[c] = "none" /\ \A b \in Broadcasts : c \notin sending[b].dead
  <2>1. FreeSockets \subseteq Nat /\ FreeSockets # {}
    BY SocketsAssumption DEF FreeSockets, Open
  <2>2. \E x \in FreeSockets : \A y \in FreeSockets : x <= y
    BY <2>1, LeastNumber
  <2>3. c \in FreeSockets
    BY <2>2, Zenon DEF Min
  <2>4. QED
    BY <2>3 DEF FreeSockets
<1>2. /\ endpoint' = [endpoint EXCEPT ![c] = "accepting"]
      /\ peer' = [peer EXCEPT ![c] = "up"]
      /\ sessionOf' = [sessionOf EXCEPT ![c] = s]
      /\ inbox' = [inbox EXCEPT ![c] = <<>>]
      /\ UNCHANGED <<active, sending, sessions, run, pipeline>>
  BY DEF Open
<1> HIDE DEF c
<1>3. ConnectionTyped' /\ ApiTyped'
  BY <1>1, <1>2, EmptyInbox DEF IInv, ConnectionTyped, ApiTyped
<1>4. /\ endpoint'[c] = "accepting" /\ peer'[c] = "up" /\ sessionOf'[c] = s /\ inbox'[c] = <<>>
      /\ \A d \in Sockets : d # c =>
           /\ endpoint'[d] = endpoint[d] /\ sessionOf'[d] = sessionOf[d]
           /\ peer'[d] = peer[d] /\ inbox'[d] = inbox[d]
  BY <1>1, <1>2 DEF IInv, ConnectionTyped
<1>5. BoundInv'
  BY <1>2, <1>4 DEF IInv, BoundInv
<1>6. PeersInv'
  <2>1. \A b \in Broadcasts : sending[b].dead \subseteq Sockets \ {c}
    BY <1>1 DEF IInv, ConnectionTyped, SendingType
  <2>2. QED
    BY <1>2, <1>4, <2>1 DEF IInv, PeersInv
<1>7. AnnouncedIsStored'
  BY <1>2, <1>4, EmptyInbox, AnnouncedKept DEF IInv
<1>8. ASSUME NEW u \in Sessions PROVE ListOf(u)'
  <2>1. ListOf(u) /\ c \notin Listed(u) /\ Listed(u) \subseteq Sockets
    BY <1>1, ListByList, OnlyServingListed, ListedAreSockets DEF IInv
  <2>2. active'[u] = active[u] /\ Listed(u)' = Listed(u)
    BY <1>2 DEF Listed
  <2>3. QED
    BY <1>4, <2>1, <2>2 DEF ListOf
<1>9. QED
  BY <1>3, <1>5, <1>6, <1>7, <1>8, ListsAfter DEF IInv

-----------------------------------------------------------------------------
(* The broadcasts *)

\* As long as a broadcast has something to send, it is to a socket of its session.
LEMMA AddresseeFacts ==
  ASSUME IInv, NEW b \in Broadcasts, sending[b].pc = "sending", Remaining(b) > 0
  PROVE  /\ Addressee(b) \in Sockets
         /\ sending[b].session \in Sessions
         /\ sessionOf[Addressee(b)] = sending[b].session
<1> DEFINE s == sending[b].session
           n == sending[b].next
<1>1. s \in Sessions
  BY DEF IInv, BoundInv
<1>2. active[s] \in Seq(Sockets) /\ n \in Nat \ {0} /\ sending[b].live \in BOOLEAN
  BY <1>1 DEF IInv, ConnectionTyped, SendingType
<1>3. n \in 1..Len(active[s])
  <2>1. Len(active[s]) \in Nat
    BY <1>2
  <2>2. Remaining(b) = IF sending[b].live THEN Len(active[s]) + 1 - n ELSE 0
    BY DEF Remaining
  <2> HIDE DEF s, n
  <2>3. QED
    BY <1>2, <2>1, <2>2
<1>4. Addressee(b) = active[s][n]
  BY DEF Addressee
<1> HIDE DEF s, n
<1>5. Addressee(b) \in Sockets /\ Addressee(b) \in Listed(s)
  BY <1>2, <1>3, <1>4 DEF Listed, ToSet
<1>6. sessionOf[Addressee(b)] = s
  BY <1>1, <1>5 DEF IInv, ListMatchesEndpoints
<1>7. QED
  BY <1>1, <1>5, <1>6 DEF s

LEMMA MovesOnFacts ==
  ASSUME ConnectionTyped, NEW b \in Broadcasts, NEW c \in Sockets, NEW D \in SUBSET Sockets
  PROVE  LET y == [MovesOn(b, c) EXCEPT !.dead = D]
         IN  /\ y \in SendingType /\ y.pc = sending[b].pc /\ y.session = sending[b].session
             /\ y.message = sending[b].message /\ y.dead = D
<1>1. sending[b] \in SendingType
  BY DEF ConnectionTyped
<1>2. sending[b].next + 1 \in Nat \ {0}
  BY <1>1 DEF SendingType
<1>3. QED
  BY <1>1, <1>2 DEF MovesOn, SendingType

LEMMA SendInv ==
  ASSUME IInv, UNCHANGED <<sessions, run, pipeline>>, NEW b \in Broadcasts, Send(b)
  PROVE  IInv'
<1> DEFINE c == Addressee(b)
           message == sending[b].message
<1>1. /\ sending[b].pc = "sending" /\ Remaining(b) > 0 /\ peer[c] = "up"
      /\ inbox' = [inbox EXCEPT ![c] = Append(@, message)]
      /\ sending' = [sending EXCEPT ![b] = MovesOn(b, c)]
      /\ UNCHANGED <<active, endpoint, peer, sessionOf, sessions, run, pipeline>>
  BY DEF Send
<1>2. c \in Sockets /\ sending[b].session \in Sessions /\ sessionOf[c] = sending[b].session
  BY <1>1, AddresseeFacts
<1> HIDE DEF c
<1>3. /\ MovesOn(b, c) \in SendingType /\ MovesOn(b, c).pc = sending[b].pc
      /\ MovesOn(b, c).session = sending[b].session
      /\ MovesOn(b, c).message = message /\ MovesOn(b, c).dead = sending[b].dead
  <2>1. sending[b] \in SendingType
    BY DEF IInv, ConnectionTyped
  <2>2. sending[b].dead \in SUBSET Sockets /\ sending[b].next + 1 \in Nat \ {0}
    BY <2>1 DEF SendingType
  <2>3. QED
    BY <1>2, <2>1, <2>2 DEF MovesOn, SendingType
<1>4. \A x \in Broadcasts :
        /\ sending'[x].pc = sending[x].pc /\ sending'[x].session = sending[x].session
        /\ sending'[x].message = sending[x].message /\ sending'[x].dead = sending[x].dead
  BY <1>1, <1>3 DEF IInv, ConnectionTyped
<1>5. message \in Messages
  BY <1>1 DEF IInv, ConnectionTyped, BoundInv, SendingType
<1> HIDE DEF message
<1>6. /\ Append(inbox[c], message) \in Seq(Messages)
      /\ ToSet(Append(inbox[c], message)) = ToSet(inbox[c]) \cup {message}
  <2>1. inbox[c] \in Seq(Messages)
    BY <1>2 DEF IInv, ConnectionTyped
  <2>2. QED
    BY <1>5, <2>1, AppendOne
<1>7. ConnectionTyped' /\ ApiTyped'
  BY <1>1, <1>2, <1>3, <1>6 DEF IInv, ConnectionTyped, ApiTyped
<1>8. BoundInv' /\ PeersInv'
  <2>1. BoundInv'
    BY <1>1, <1>4 DEF IInv, BoundInv
  <2>2. \A d \in Sockets : inbox'[d] = inbox[d] \/ peer[d] = "up"
    BY <1>1 DEF IInv, ConnectionTyped
  <2>3. PeersInv'
    BY <1>1, <1>4, <2>2 DEF IInv, PeersInv
  <2>4. QED
    BY <2>1, <2>3
<1>9. AnnouncedIsStored'
  <2>1. message = "END" => sessions[sessionOf[c]] = "values"
    BY <1>2 DEF message, IInv, AnnouncedIsStored
  <2>2. /\ inbox'[c] = Append(inbox[c], message)
        /\ \A d \in Sockets : d # c => inbox'[d] = inbox[d]
    BY <1>1, <1>2 DEF IInv, ConnectionTyped
  <2>3. \A d \in Sockets : "END" \in ToSet(inbox'[d]) =>
           "END" \in ToSet(inbox[d]) \/ sessions[sessionOf[d]] = "values"
    BY <1>6, <2>1, <2>2
  <2>4. QED
    BY <1>1, <1>4, <2>3, AnnouncedKept DEF IInv
<1>10. ListMatchesEndpoints'
  BY <1>1 DEF IInv, ListMatchesEndpoints, Listed
<1>11. QED
  BY <1>7, <1>8, <1>9, <1>10 DEF IInv

LEMMA SendToNobodyInv ==
  ASSUME IInv, UNCHANGED <<sessions, run, pipeline>>, NEW b \in Broadcasts, SendToNobody(b)
  PROVE  IInv'
<1> DEFINE c == Addressee(b)
<1>1. /\ sending[b].pc = "sending" /\ Remaining(b) > 0 /\ peer[c] = "gone"
      /\ UNCHANGED <<active, endpoint, peer, sessionOf, inbox, sessions, run, pipeline>>
  BY DEF SendToNobody
<1>2. c \in Sockets
  BY <1>1, AddresseeFacts
<1>3. PICK D : /\ D = sending[b].dead \/ D = sending[b].dead \cup {c}
               /\ sending' = [sending EXCEPT ![b] = [MovesOn(b, c) EXCEPT !.dead = D]]
  <2>1. PICK raised \in BOOLEAN :
           sending' = [sending EXCEPT ![b] =
             [MovesOn(b, c) EXCEPT !.dead = IF raised THEN @ \cup {c} ELSE @]]
    BY DEF SendToNobody
  <2>2. MovesOn(b, c).dead = sending[b].dead
    BY DEF MovesOn, IInv, ConnectionTyped, SendingType
  <2>3. QED
    BY <2>1, <2>2
<1> HIDE DEF c
<1>4. D \in SUBSET Sockets /\ \A d \in D : peer[d] = "gone"
  <2>1. sending[b].dead \subseteq Sockets
    BY DEF IInv, ConnectionTyped, SendingType
  <2>2. QED
    BY <1>1, <1>2, <1>3, <2>1 DEF IInv, PeersInv
<1> DEFINE y == [MovesOn(b, c) EXCEPT !.dead = D]
<1>5. /\ y \in SendingType /\ y.pc = sending[b].pc /\ y.session = sending[b].session
      /\ y.message = sending[b].message /\ y.dead = D
  BY <1>2, <1>4, MovesOnFacts DEF IInv
<1>6. sending' = [sending EXCEPT ![b] = y]
  BY <1>3
<1> HIDE DEF y
<1>7. \A x \in Broadcasts :
        /\ sending'[x].pc = sending[x].pc /\ sending'[x].session = sending[x].session
        /\ sending'[x].message = sending[x].message
        /\ sending'[x].dead = sending[x].dead \/ sending'[x].dead = D
  BY <1>5, <1>6 DEF IInv, ConnectionTyped
<1>8. ConnectionTyped' /\ ApiTyped'
  BY <1>1, <1>5, <1>6 DEF IInv, ConnectionTyped, ApiTyped
<1>9. BoundInv' /\ PeersInv'
  <2>1. BoundInv'
    BY <1>1, <1>7 DEF IInv, BoundInv
  <2>2. PeersInv'
    BY <1>1, <1>4, <1>7 DEF IInv, PeersInv
  <2>3. QED
    BY <2>1, <2>2
<1>10. AnnouncedIsStored'
  BY <1>1, <1>7 DEF IInv, AnnouncedIsStored
<1>11. ListMatchesEndpoints'
  BY <1>1 DEF IInv, ListMatchesEndpoints, Listed
<1>12. QED
  BY <1>8, <1>9, <1>10, <1>11 DEF IInv

LEMMA SendEndsInv ==
  ASSUME IInv, UNCHANGED <<sessions, run, pipeline>>, NEW b \in Broadcasts, SendEnds(b)
  PROVE  IInv'
<1> DEFINE s == sending[b].session
           C == sending[b].dead
           y == [Idle EXCEPT !.pc = "done", !.session = s,
                             !.message = sending[b].message, !.due = sending[b].due]
<1>1. /\ sending[b].pc = "sending" /\ Disconnect(s, C)
      /\ sending' = [x \in Broadcasts |-> IF x = b THEN y ELSE AfterDisconnect(sending[x], s, C)]
      /\ UNCHANGED <<endpoint, peer, sessionOf, inbox, sessions, run, pipeline>>
  BY DEF SendEnds
<1>2. s \in Sessions
  BY <1>1 DEF IInv, BoundInv
<1>3. C \subseteq Sockets /\ \A c \in C : peer[c] = "gone"
  BY DEF IInv, ConnectionTyped, SendingType, PeersInv
<1>4. /\ y \in SendingType /\ y.pc = "done" /\ y.session = s
      /\ y.message = sending[b].message /\ y.dead = {}
  <2>1. sending[b] \in SendingType
    BY DEF IInv, ConnectionTyped
  <2>2. sending[b].message \in Messages \cup {"none"} /\ sending[b].due \in SUBSET Sockets
    BY <2>1 DEF SendingType
  <2>3. Idle \in SendingType /\ Idle.dead = {}
    BY DEF Idle, SendingType
  <2> DEFINE m == sending[b].message
             D == sending[b].due
  <2>4. y = [Idle EXCEPT !.pc = "done", !.session = s, !.message = m, !.due = D]
    OBVIOUS
  <2>5. m \in Messages \cup {"none"} /\ D \in SUBSET Sockets /\ s \in Sessions
    BY <1>2, <2>2
  <2> HIDE DEF m, D, s, y
  <2>6. /\ y \in SendingType /\ y.pc = "done" /\ y.session = s
        /\ y.message = m /\ y.dead = {}
    BY <2>3, <2>4, <2>5 DEF SendingType
  <2>7. QED
    BY <2>6 DEF m
<1> HIDE DEF y, s, C
<1>5. /\ active' \in [Sessions -> Seq(Sockets)]
      /\ \A u \in Sessions : Listed(u)' = IF u = s THEN Listed(u) \ C ELSE Listed(u)
      /\ \A u \in Sessions : Once(active[u]) => Once(active'[u])
  BY <1>1, <1>2, DisconnectFacts DEF IInv
<1>6. ASSUME NEW x \in Broadcasts
      PROVE  /\ sending'[x] \in SendingType
             /\ sending'[x].pc = sending[x].pc \/ sending'[x].pc = "done"
             /\ sending'[x].session = sending[x].session
             /\ sending'[x].message = sending[x].message
             /\ sending'[x].dead = sending[x].dead \/ sending'[x].dead = {}
  <2>1. CASE x = b
    BY <1>1, <1>4, <2>1 DEF s
  <2>2. CASE x # b
    <3>1. sending[x] \in SendingType /\ sending'[x] = AfterDisconnect(sending[x], s, C)
      BY <1>1, <2>2 DEF IInv, ConnectionTyped
    <3>2. QED
      BY <3>1, AfterFacts
  <2>3. QED
    BY <2>1, <2>2
<1>7. sending' \in [Broadcasts -> SendingType]
  BY <1>1, <1>6
<1>8. ConnectionTyped' /\ ApiTyped'
  BY <1>1, <1>5, <1>7 DEF IInv, ConnectionTyped, ApiTyped
<1>9. BoundInv' /\ PeersInv'
  <2>1. BoundInv'
    BY <1>1, <1>6 DEF IInv, BoundInv
  <2>2. PeersInv'
    BY <1>1, <1>6 DEF IInv, PeersInv
  <2>3. QED
    BY <2>1, <2>2
<1>10. AnnouncedIsStored'
  BY <1>1, <1>6 DEF IInv, AnnouncedIsStored
<1>11. ASSUME NEW u \in Sessions PROVE ListOf(u)'
  <2>1. ListOf(u)
    BY ListByList DEF IInv
  <2>2. Listed(u)' \subseteq Listed(u) /\ Listed(u) \ C \subseteq Listed(u)'
    BY <1>5
  <2>3. QED
    BY <1>1, <1>3, <1>5, <2>1, <2>2 DEF ListOf
<1>12. QED
  BY <1>8, <1>9, <1>10, <1>11, ListsAfter DEF IInv

-----------------------------------------------------------------------------
(* The handlers and the background tasks *)

\* The store never loses what has been announced: a result stays, a failure stays or
\* gives way to a result, and whoever announces anything has stored it.
LEMMA StoreAnnounced ==
  ASSUME IInv, inbox' = inbox, sessionOf' = sessionOf,
         \A s \in Sessions :
           /\ sessions[s] = "values" => sessions'[s] = "values"
           /\ sessions[s] = "failed" => sessions'[s] \in {"failed", "values"},
         \A b \in Broadcasts :
           \/ sending'[b].message = sending[b].message /\ sending'[b].session = sending[b].session
           \/ sending'[b].message = "END" /\ sessions'[sending'[b].session] = "values"
           \/ /\ sending'[b].message = "error"
              /\ sessions'[sending'[b].session] \in {"failed", "values"}
  PROVE  AnnouncedIsStored'
<1>1. ASSUME NEW b \in Broadcasts
      PROVE  /\ sending'[b].message = "END" => sessions'[sending'[b].session] = "values"
             /\ sending'[b].message = "error" =>
                  sessions'[sending'[b].session] \in {"failed", "values"}
  <2>1. CASE sending'[b].message = sending[b].message /\ sending'[b].session = sending[b].session
    <3>1. sending[b].message # "none" => sending[b].session \in Sessions
      BY DEF IInv, BoundInv
    <3>2. QED
      BY <2>1, <3>1 DEF IInv, AnnouncedIsStored
  <2>2. QED
    BY <2>1
<1>2. ASSUME NEW c \in Sockets, "END" \in ToSet(inbox[c])
      PROVE  sessions'[sessionOf[c]] = "values"
  <2>1. peer[c] = "up"
    BY <1>2, EmptyInbox DEF IInv, PeersInv, ConnectionTyped
  <2>2. sessionOf[c] \in Sessions
    BY <2>1 DEF IInv, PeersInv, BoundInv
  <2>3. QED
    BY <1>2, <2>2 DEF IInv, AnnouncedIsStored
<1>3. QED
  BY <1>1, <1>2 DEF AnnouncedIsStored

LEMMA CreateInv ==
  ASSUME IInv, NEW s \in Sessions, CreateSession(s), connectionVars' = connectionVars,
         ApiTyped', \A r \in Runs : run'[r].pc # "free" => run'[r].session \in Sessions
  PROVE  IInv'
<1>1. /\ sessions[s] = "absent" /\ sessions' = [sessions EXCEPT ![s] = "fresh"]
      /\ UNCHANGED <<active, endpoint, peer, sessionOf, inbox, sending>>
  BY DEF CreateSession, connectionVars
<1>2. ConnectionTyped' /\ PeersInv' /\ BoundInv' /\ ListMatchesEndpoints'
  BY <1>1 DEF IInv, ConnectionTyped, PeersInv, BoundInv, ListMatchesEndpoints, Listed
<1>3. AnnouncedIsStored'
  <2>1. \A u \in Sessions : sessions'[u] = sessions[u] \/ sessions[u] = "absent"
    BY <1>1 DEF IInv, ApiTyped
  <2>2. QED
    BY <1>1, <2>1, StoreAnnounced
<1>4. QED
  BY <1>2, <1>3 DEF IInv

LEMMA HandlersInv ==
  ASSUME IInv, Handlers
  PROVE  IInv'
<1>1. ASSUME NEW s \in Sessions, CreateSession(s), UNCHANGED <<connectionVars, run, pipeline>>
      PROVE  IInv'
  <2>1. ApiTyped'
    BY <1>1 DEF IInv, ApiTyped, CreateSession
  <2>2. QED
    BY <1>1, <2>1, CreateInv DEF IInv, BoundInv
<1>2. ASSUME NEW s \in Sessions, NEW r \in Runs, RunDemo(s, r)
      PROVE  IInv'
  <2> DEFINE y == [pc |-> "running", session |-> s, quiet |-> TRUE]
  <2>1. /\ CreateSession(s) /\ UNCHANGED <<connectionVars, pipeline>>
        /\ run' = run \/ run' = [run EXCEPT ![r] = y]
    BY <1>2 DEF RunDemo
  <2>2. ApiTyped'
    <3>1. y \in [pc : {"free", "running", "done", "died"},
                  session : Sessions \cup {"none"}, quiet : BOOLEAN]
      OBVIOUS
    <3> HIDE DEF y
    <3>2. sessions' = [sessions EXCEPT ![s] = "fresh"]
      BY <2>1 DEF CreateSession
    <3>3. QED
      BY <2>1, <3>1, <3>2 DEF IInv, ApiTyped
  <2>3. \A q \in Runs : run'[q].pc # "free" => run'[q].session \in Sessions
    BY <2>1 DEF IInv, ApiTyped, BoundInv
  <2>4. QED
    BY <2>1, <2>2, <2>3, CreateInv
<1>3. ASSUME NEW s \in Sessions, NEW r \in Runs, Start(s, r), UNCHANGED <<connectionVars, pipeline>>
      PROVE  IInv'
  <2>1. /\ run' = [run EXCEPT ![r] = [pc |-> "running", session |-> s, quiet |-> FALSE]]
        /\ UNCHANGED <<active, endpoint, peer, sessionOf, inbox, sending, sessions, pipeline>>
    BY <1>3 DEF Start, connectionVars
  <2>2. ConnectionTyped' /\ ApiTyped'
    BY <2>1 DEF IInv, ConnectionTyped, ApiTyped
  <2>3. BoundInv'
    BY <2>1 DEF IInv, ApiTyped, BoundInv
  <2>4. PeersInv' /\ ListMatchesEndpoints' /\ AnnouncedIsStored'
    BY <2>1 DEF IInv, PeersInv, ListMatchesEndpoints, Listed, AnnouncedIsStored
  <2>5. QED
    BY <2>2, <2>3, <2>4 DEF IInv
<1>4. QED
  BY <1>1, <1>2, <1>3 DEF Handlers

\* A run that ends stores its outcome before it announces it.
LEMMA EndsInv ==
  ASSUME IInv, NEW r \in Runs, run[r].pc = "running",
         NEW m \in Messages, NEW outcome \in {"failed", "values"},
         m = "END" => outcome = "values",
         outcome = "failed" => sessions[run[r].session] # "values",
         Announce(r, m), Settled(r, outcome)
  PROVE  IInv'
<1> DEFINE s == run[r].session
<1>1. s \in Sessions
  BY DEF IInv, BoundInv
<1>2. /\ sessions' = [sessions EXCEPT ![s] = outcome]
      /\ run' = [run EXCEPT ![r].pc = "done"]
      /\ UNCHANGED <<active, endpoint, peer, sessionOf, inbox, pipeline>>
      /\ sending' = sending \/ Broadcast(r, s, m)
  BY DEF Settled, Announce
<1>3. outcome = "failed" => sessions[s] # "values"
  OBVIOUS
<1>4. ApiTyped' /\ \A q \in Runs : run'[q].pc # "free" => run'[q].session \in Sessions
  <2>1. ApiTyped'
    BY <1>2 DEF IInv, ApiTyped
  <2>2. \A q \in Runs : run'[q].session = run[q].session /\ (q # r => run'[q].pc = run[q].pc)
    BY <1>2 DEF IInv, ApiTyped
  <2>3. QED
    BY <1>1, <2>1, <2>2 DEF IInv, BoundInv
<1> HIDE DEF s
<1>5. /\ sending' \in [Broadcasts -> SendingType]
      /\ \A b \in Broadcasts :
           \/ sending'[b] = sending[b]
           \/ sending'[b].session = s /\ sending'[b].message = m /\ sending'[b].dead = {}
  <2>1. CASE sending' = sending
    BY <2>1 DEF IInv, ConnectionTyped
  <2>2. CASE Broadcast(r, s, m)
    BY <1>1, <2>2, BroadcastFacts DEF IInv, Runs
  <2>3. QED
    BY <1>2, <2>1, <2>2
<1>6. ConnectionTyped'
  BY <1>2, <1>5 DEF IInv, ConnectionTyped
<1>7. BoundInv' /\ PeersInv'
  <2>1. m # "none"
    BY DEF Messages
  <2>2. BoundInv'
    BY <1>1, <1>2, <1>4, <1>5, <2>1 DEF IInv, BoundInv
  <2>3. PeersInv'
    BY <1>2, <1>5 DEF IInv, PeersInv
  <2>4. QED
    BY <2>2, <2>3
<1>8. AnnouncedIsStored'
  <2>1. /\ sessions'[s] = outcome
        /\ \A u \in Sessions : u # s => sessions'[u] = sessions[u]
    BY <1>1, <1>2 DEF IInv, ApiTyped
  <2>2. m = "END" \/ m = "error"
    BY DEF Messages
  <2>3. \A u \in Sessions :
           /\ sessions[u] = "values" => sessions'[u] = "values"
           /\ sessions[u] = "failed" => sessions'[u] \in {"failed", "values"}
    BY <1>3, <2>1
  <2>4. \A b \in Broadcasts :
           \/ sending'[b].message = sending[b].message /\ sending'[b].session = sending[b].session
           \/ sending'[b].message = "END" /\ sessions'[sending'[b].session] = "values"
           \/ /\ sending'[b].message = "error"
              /\ sessions'[sending'[b].session] \in {"failed", "values"}
    BY <1>5, <2>1, <2>2
  <2>5. QED
    BY <1>2, <2>3, <2>4, StoreAnnounced
<1>9. ListMatchesEndpoints'
  BY <1>2 DEF IInv, ListMatchesEndpoints, Listed
<1>10. QED
  BY <1>4, <1>6, <1>7, <1>8, <1>9 DEF IInv

LEMMA BackgroundInv ==
  ASSUME IInv, NEW r \in Runs, Background(r)
  PROVE  IInv'
<1>1. CASE Returns(r)
  <2>1. "END" \in Messages
    BY DEF Messages
  <2>2. QED
    BY <1>1, <2>1, EndsInv DEF Returns
<1>2. CASE Raises(r)
  <2>1. "error" \in Messages
    BY DEF Messages
  <2>2. sessions[run[r].session] # "values"
    BY <1>2 DEF Raises, HasAttributes
  <2>3. QED
    BY <1>2, <2>1, <2>2, EndsInv DEF Raises
<1>3. CASE RaisesUnheard(r)
  <2>1. /\ run[r].pc = "running" /\ run' = [run EXCEPT ![r].pc = "died"]
        /\ UNCHANGED <<active, endpoint, peer, sessionOf, inbox, sending, sessions, pipeline>>
    BY <1>3 DEF RaisesUnheard, connectionVars
  <2>2. ConnectionTyped' /\ ApiTyped'
    BY <2>1 DEF IInv, ConnectionTyped, ApiTyped
  <2>3. BoundInv'
    BY <2>1 DEF IInv, ApiTyped, BoundInv
  <2>4. PeersInv' /\ ListMatchesEndpoints' /\ AnnouncedIsStored'
    BY <2>1 DEF IInv, PeersInv, ListMatchesEndpoints, Listed, AnnouncedIsStored
  <2>5. QED
    BY <2>2, <2>3, <2>4 DEF IInv
<1>4. QED
  BY <1>1, <1>2, <1>3 DEF Background

-----------------------------------------------------------------------------
(* The theorems *)

LEMMA ConnectionsInv ==
  ASSUME IInv, Connections, UNCHANGED <<sessions, run, pipeline>>
  PROVE  IInv'
<1>1. ASSUME NEW c \in Sockets, Endpoint(c) \/ Leave(c) \/ Receive(c) \/ Drop(c)
      PROVE  IInv'
  BY <1>1, AcceptInv, AcceptFailsInv, RegisterInv, LeaveInv, ReceiveInv, DropInv DEF Endpoint
<1>2. ASSUME NEW b \in Broadcasts, Sender(b)
      PROVE  IInv'
  BY <1>2, SendInv, SendToNobodyInv, SendEndsInv DEF Sender
<1>3. ASSUME NEW s \in Sessions, Open(s)
      PROVE  IInv'
  BY <1>3, OpenInv
<1>4. QED
  BY <1>1, <1>2, <1>3 DEF Connections

LEMMA StepInv == IInv /\ [Next]_apiVars => IInv'
<1> SUFFICES ASSUME IInv, [Next]_apiVars PROVE IInv'
  OBVIOUS
<1>1. CASE Connections /\ UNCHANGED <<sessions, run, pipeline>>
  BY <1>1, ConnectionsInv
<1>2. CASE Handlers
  BY <1>2, HandlersInv
<1>3. CASE \E r \in Runs : Background(r)
  BY <1>3, BackgroundInv
<1>4. CASE UNCHANGED apiVars
  <2>1. UNCHANGED <<active, endpoint, peer, sessionOf, inbox, sending, sessions, run, pipeline>>
    BY <1>4 DEF apiVars, connectionVars
  <2>2. ConnectionTyped' /\ ApiTyped' /\ BoundInv' /\ PeersInv'
    BY <2>1 DEF IInv, ConnectionTyped, ApiTyped, BoundInv, PeersInv
  <2>3. ListMatchesEndpoints' /\ AnnouncedIsStored'
    BY <2>1 DEF IInv, ListMatchesEndpoints, Listed, AnnouncedIsStored
  <2>4. QED
    BY <2>2, <2>3 DEF IInv
<1>5. QED
  BY <1>1, <1>2, <1>3, <1>4 DEF Next

LEMMA Invariance == Spec => []IInv
BY InitInv, StepInv, PTL DEF Spec

\* Every variable of the session API and of its connections stays in its range,
\* whatever list a disconnect leaves behind and whatever number a socket gets.
THEOREM TypeCorrect == Spec => []TypeOK
<1>1. IInv => TypeOK
  <2> SUFFICES ASSUME IInv PROVE TypeOK
    OBVIOUS
  <2>1. \A s \in Sessions : Listed(s) \subseteq Sockets
    BY ListedAreSockets DEF IInv
  <2>2. ASSUME NEW c \in Sockets PROVE ToSet(inbox[c]) \subseteq Messages
    <3>1. inbox[c] \in Seq(Messages)
      BY DEF IInv, ConnectionTyped
    <3>2. QED
      BY <3>1 DEF ToSet
  <2>3. ASSUME NEW b \in Broadcasts
        PROVE  /\ sending[b].pc \in {"idle", "sending", "done"}
               /\ sending[b].dead \cup sending[b].due \subseteq Sockets
    BY DEF IInv, ConnectionTyped, SendingType
  <2>4. ConnectionTypeOK
    BY <2>1, <2>2, <2>3 DEF IInv, ConnectionTyped, ConnectionTypeOK
  <2>5. QED
    BY <2>4 DEF IInv, ApiTyped, TypeOK
<1>2. QED
  BY Invariance, <1>1, PTL

\* connect, disconnect and the endpoints keep the lists of active_connections in
\* step: no socket is listed twice, under a foreign session or after its endpoint has
\* returned, and a live peer is never struck off, however many broadcasts walk and
\* clean the same list at the same time.
THEOREM ListsMatchEndpoints == Spec => []ListMatchesEndpoints
<1>1. IInv => ListMatchesEndpoints
  BY DEF IInv
<1>2. QED
  BY Invariance, <1>1, PTL

\* What run_pipeline has announced remains true of the store, for any number of runs
\* of one session that end in any order: after END the result is there, after an
\* error the session is failed or has a result.
THEOREM AnnouncementsAreStored == Spec => []AnnouncedIsStored
<1>1. IInv => AnnouncedIsStored
  BY DEF IInv
<1>2. QED
  BY Invariance, <1>1, PTL
=============================================================================

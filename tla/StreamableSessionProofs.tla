---------------------- MODULE StreamableSessionProofs ----------------------
(***************************************************************************)
(* StreamableSession for any number of connections and notifications, any  *)
(* log and buffer size and every way of delivery.  A client that           *)
(* reconnects only after the server has seen its old connection end is     *)
(* always attached; every state is of its type, so that neither a log nor  *)
(* a buffer outgrows its limit; and a client of one process misses nothing *)
(* that it is not warned of.                                               *)
(***************************************************************************)
EXTENDS StreamableSession, TLAPS, FiniteSetTheorems, WellFoundedInduction, SequenceTheorems

-----------------------------------------------------------------------------
(* The client is attached *)

\* The shape of the two functions the argument is about, whatever a replay holds.
Shape ==
    /\ stream \in [Node -> Conn \cup {None}]
    /\ conn = [c \in Conn |-> conn[c]]
    /\ \A c \in Conn :
        /\ conn[c] = [pc |-> conn[c].pc, node |-> conn[c].node, from |-> conn[c].from,
                      replay |-> conn[c].replay]
        /\ conn[c].pc # "idle" => conn[c].node \in Node
        /\ conn[c].pc = "idle" => conn[c] = Idle
    /\ cur \in Conn \cup {None}

\* One connection at a time: the server has none left but the client's, or is still to
\* see one end that the client has already lost.
OneAtATime ==
    /\ \A c, d \in Conn : conn[c].pc # "idle" /\ conn[d].pc # "idle" => c = d
    /\ cur # None => conn[cur].pc # "idle"

AttachedInv == Shape /\ OneAtATime /\ ClientIsAttached

\* It holds before the client connects.
LEMMA AttachedInvInit == Init => AttachedInv
<1> SUFFICES ASSUME Init PROVE AttachedInv
  OBVIOUS
<1>1. Shape
  BY DEF Init, Shape, Idle
<1>2. OneAtATime /\ ClientIsAttached
  BY DEF Init, OneAtATime, ClientIsAttached, Idle
<1> QED
  BY <1>1, <1>2 DEF AttachedInv

\* What the update of one connection does.
LEMMA ConnUpdate ==
    ASSUME Shape, NEW c \in Conn, NEW k, conn' = [conn EXCEPT ![c] = k]
    PROVE /\ conn' = [d \in Conn |-> conn'[d]]
          /\ conn'[c] = k
          /\ \A d \in Conn : d # c => conn'[d] = conn[d]
BY DEF Shape

\* The client asks a replica for a stream.
LEMMA ConnectKeeps ==
    ASSUME AttachedInv, "oldclose" \notin Allowed, NEW c \in Conn, NEW n \in Node,
           Connect(c, n)
    PROVE AttachedInv'
<1> USE StreamAssumption
<1>1. /\ cur' = c /\ c # None
      /\ \A d \in Conn : conn[d].pc = "idle"
      /\ UNCHANGED stream
  BY DEF Connect, Idle, local
<1>2. /\ conn'[c] = [pc |-> "checked", node |-> n, from |-> last, replay |-> <<>>]
      /\ conn' = [d \in Conn |-> conn'[d]]
      /\ \A d \in Conn : d # c => conn'[d] = conn[d]
  BY ConnUpdate DEF Connect, AttachedInv
<1>3. Shape'
  BY <1>1, <1>2 DEF Shape, AttachedInv, Idle
<1>4. OneAtATime' /\ ClientIsAttached'
  BY <1>1, <1>2 DEF OneAtATime, ClientIsAttached, AttachedInv, Shape
<1> QED
  BY <1>3, <1>4 DEF AttachedInv

\* The end of attachPushStream(): what it makes of a connection that is still there it
\* has attached, or it is no stream of a session.
LEMMA ListenKeeps ==
    ASSUME AttachedInv, NEW c \in Conn, conn[c].pc # "idle",
           NEW pc \in {"open", "stray"}, Listen(c, pc), UNCHANGED cur,
           \/ stream' = [stream EXCEPT ![conn[c].node] = c]
           \/ UNCHANGED stream /\ pc = "stray"
    PROVE AttachedInv'
<1> USE StreamAssumption
<1>1. /\ conn[c].node \in Node
      /\ cur # None => cur = c
  BY DEF AttachedInv, Shape, OneAtATime
<1>2. /\ conn' = [d \in Conn |-> conn'[d]]
      /\ conn'[c] = IF c = cur THEN [pc |-> pc, node |-> conn[c].node, from |-> None,
                                     replay |-> <<>>]
                    ELSE Idle
      /\ \A d \in Conn : d # c => conn'[d] = conn[d]
  BY ConnUpdate DEF Listen, AttachedInv, Shape
<1>3. Shape'
  BY <1>1, <1>2 DEF Shape, AttachedInv, Idle
<1>4. OneAtATime'
  BY <1>1, <1>2 DEF OneAtATime, AttachedInv, Shape, Idle
<1>5. ClientIsAttached'
  BY <1>1, <1>2 DEF ClientIsAttached, AttachedInv, Shape, Idle
<1> QED
  BY <1>3, <1>4, <1>5 DEF AttachedInv

\* What it missed is read from the log.
LEMMA ResumeKeeps ==
    ASSUME AttachedInv, NEW c \in Conn, Resume(c)
    PROVE AttachedInv'
<1> DEFINE r == ReadAfter(log[conn[c].node], conn[c].from)
<1>1. /\ conn' = [conn EXCEPT ![c] = [pc |-> "replaying", node |-> conn[c].node,
                                      from |-> conn[c].from, replay |-> r]]
      /\ conn[c].pc = "checked"
      /\ UNCHANGED <<stream, cur>>
  BY DEF Resume, local, client
<1> HIDE DEF r
<1>2. /\ conn' = [d \in Conn |-> conn'[d]]
      /\ conn'[c] = [pc |-> "replaying", node |-> conn[c].node, from |-> conn[c].from,
                     replay |-> r]
      /\ \A d \in Conn : d # c => conn'[d] = conn[d]
  BY <1>1, ConnUpdate DEF AttachedInv
<1>3. Shape'
  BY <1>1, <1>2 DEF Shape, AttachedInv, Idle
<1>4. OneAtATime' /\ ClientIsAttached'
  BY <1>1, <1>2 DEF OneAtATime, ClientIsAttached, AttachedInv, Shape, Idle
<1> QED
  BY <1>3, <1>4 DEF AttachedInv

\* The stream is opened, with or without what was missed.
LEMMA OpensKeeps ==
    ASSUME AttachedInv, NEW c \in Conn, Opens(c)
    PROVE AttachedInv'
<1>1. CASE Decline(c)
  BY <1>1, ListenKeeps DEF Decline, local, client
<1>2. CASE Attach(c)
  BY <1>2, ListenKeeps DEF Attach
<1>3. CASE Resume(c)
  BY <1>3, ResumeKeeps
<1>4. CASE GoLive(c)
  BY <1>4, ListenKeeps DEF GoLive
<1>5. CASE GoAstray(c)
  BY <1>5, ListenKeeps DEF GoAstray, local
<1> QED
  BY <1>1, <1>2, <1>3, <1>4, <1>5 DEF Opens

\* A connection ends.
LEMMA CloseKeeps ==
    ASSUME AttachedInv, NEW c \in Conn, Close(c)
    PROVE AttachedInv'
<1> USE StreamAssumption
<1>1. /\ stream' = [stream EXCEPT ![conn[c].node] = None] /\ conn[c].node \in Node
      /\ UNCHANGED cur
      /\ cur = None
  BY DEF Close, AttachedInv, Shape, OneAtATime, client
<1>2. /\ conn' = [d \in Conn |-> conn'[d]]
      /\ conn'[c] = Idle
      /\ \A d \in Conn : d # c => conn'[d] = conn[d]
  BY ConnUpdate DEF Close, AttachedInv
<1>3. Shape'
  BY <1>1, <1>2 DEF Shape, AttachedInv, Idle
<1>4. OneAtATime' /\ ClientIsAttached'
  BY <1>1, <1>2 DEF OneAtATime, ClientIsAttached, AttachedInv, Shape, Idle
<1> QED
  BY <1>3, <1>4 DEF AttachedInv

\* A replica that ends its stream ends it for the client too.
LEMMA EndKeeps ==
    ASSUME AttachedInv, NEW n \in Node, End(n)
    PROVE AttachedInv'
<1>1. /\ stream' = [stream EXCEPT ![n] = None]
      /\ cur' = IF cur = stream[n] THEN None ELSE cur
      /\ conn' = [c \in Conn |->
              IF conn[c].pc = "replaying" /\ conn[c].node = n
                THEN [conn[c] EXCEPT !.pc = "orphaned"] ELSE conn[c]]
  BY DEF End
<1>2. \A c \in Conn :
        \/ conn'[c] = conn[c]
        \/ /\ conn[c].pc = "replaying"
           /\ conn'[c] = [pc |-> "orphaned", node |-> conn[c].node,
                          from |-> conn[c].from, replay |-> conn[c].replay]
  BY <1>1 DEF Shape, AttachedInv
<1>3. Shape'
  <2>1. conn' = [c \in Conn |-> conn'[c]]
    BY <1>1
  <2>2. stream' \in [Node -> Conn \cup {None}] /\ cur' \in Conn \cup {None}
    BY <1>1 DEF Shape, AttachedInv
  <2> QED
    BY <1>2, <2>1, <2>2 DEF Shape, AttachedInv
<1>4. OneAtATime'
  BY <1>1, <1>2 DEF OneAtATime, AttachedInv, Shape
<1>5. ClientIsAttached'
  BY <1>1, <1>2 DEF ClientIsAttached, AttachedInv, Shape
<1> QED
  BY <1>3, <1>4, <1>5 DEF AttachedInv

\* A replica restarts, and its streams end.
LEMMA RestartKeeps ==
    ASSUME AttachedInv, NEW n \in Node, Restart(n)
    PROVE AttachedInv'
<1>1. /\ stream' = [stream EXCEPT ![n] = None]
      /\ conn' = [c \in Conn |-> IF conn[c].node = n THEN Idle ELSE conn[c]]
      /\ cur' = IF cur # None /\ conn[cur].node = n THEN None ELSE cur
  BY DEF Restart
<1>2. Shape'
  BY <1>1, StreamAssumption DEF Shape, AttachedInv, Idle
<1>3. OneAtATime' /\ ClientIsAttached'
  BY <1>1, StreamAssumption DEF OneAtATime, ClientIsAttached, AttachedInv, Shape, Idle
<1> QED
  BY <1>2, <1>3 DEF AttachedInv

\* Every step keeps it, when the client reconnects only after the server closed the connection
\* before.
LEMMA AttachedInvKept ==
    ASSUME AttachedInv, "oldclose" \notin Allowed, [Next]_vars
    PROVE AttachedInv'
<1> USE DEF AttachedInv, Shape, OneAtATime, ClientIsAttached
<1>1. CASE Drop
  BY <1>1 DEF Drop, local
<1>2. CASE Open
  BY <1>2, ConnectKeeps DEF Open
<1>3. ASSUME NEW c \in Conn, Opens(c) \/ Close(c) PROVE AttachedInv'
  BY <1>3, OpensKeeps, CloseKeeps
<1>4. ASSUME NEW n \in Node, Serve(n) PROVE AttachedInv'
  <2>1. UNCHANGED <<stream, conn, cur>>
    BY <1>4 DEF Serve, PushBegin, PushLog, PushDeliver, BusDeliver, Reply, local, client
  <2> QED
    BY <2>1
<1>5. ASSUME NEW n \in Node, Terminate(n) \/ Reap(n) PROVE AttachedInv'
  BY <1>5, EndKeeps DEF Terminate, Reap
<1>6. ASSUME NEW n \in Node, Restart(n) PROVE AttachedInv'
  BY <1>6, RestartKeeps
<1>7. CASE TouchRead \/ TouchWrite \/ Expire
  BY <1>7 DEF TouchRead, TouchWrite, Expire, local, client
<1>8. CASE UNCHANGED vars
  BY <1>8 DEF vars, local, client
<1> QED
  BY <1>1, <1>2, <1>3, <1>4, <1>5, <1>6, <1>7, <1>8 DEF Next

\* The connection a client reads is the one its notifications are written to, through
\* replays, DELETE, expiry, restarts and late touches, if the client never reconnects
\* before the server has seen the old connection end (the close listener of
\* StreamableHttpController.stream()).
THEOREM ClientStaysAttached ==
    ASSUME "oldclose" \notin Allowed
    PROVE SessionSpec => []ClientIsAttached
<1>1. AttachedInv /\ [Next]_vars => AttachedInv'
  BY AttachedInvKept
<1>2. AttachedInv => ClientIsAttached
  BY DEF AttachedInv
<1> QED
  BY <1>1, <1>2, AttachedInvInit, PTL DEF SessionSpec

-----------------------------------------------------------------------------
(* What filter() keeps of a sequence, by the number of positions up to one *)

\* Induction over the natural numbers, from the least element of a set of them.
LEMMA SetInduction ==
    ASSUME NEW S, 0 \in S, \A n \in Nat : n \in S => n + 1 \in S
    PROVE Nat \subseteq S
<1> DEFINE T == Nat \ S
           R == OpToRel(<, Nat)
<1>1. SUFFICES ASSUME T # {} PROVE FALSE
  OBVIOUS
<1>2. \E x \in T : \A y \in T : ~(<<y, x>> \in R)
  <2>1. IsWellFoundedOn(R, Nat) /\ T \subseteq Nat
    BY NatLessThanWellFounded
  <2> HIDE DEF R, T
  <2> QED
    BY <1>1, <2>1, WFMin
<1>3. PICK x \in T : \A y \in T : ~(y < x)
  BY <1>2 DEF OpToRel
<1> QED
  BY <1>3

\* The positions up to one, one position further.
LEMMA CountStep ==
    ASSUME NEW L \in Nat, NEW P \in SUBSET (1..L), NEW m \in Nat
    PROVE /\ IsFiniteSet({j \in P : j <= m})
          /\ Cardinality({j \in P : j <= m}) \in Nat
          /\ Cardinality({j \in P : j <= m + 1}) =
                 IF m + 1 \in P THEN Cardinality({j \in P : j <= m}) + 1
                                ELSE Cardinality({j \in P : j <= m})
<1> DEFINE C(k) == {j \in P : j <= k}
<1>1. IsFiniteSet(C(m))
  <2>1. IsFiniteSet(1..L)
    BY FS_Interval
  <2>2. C(m) \subseteq 1..L
    OBVIOUS
  <2> QED
    BY <2>1, <2>2, FS_Subset
<1>2. Cardinality(C(m)) \in Nat
  BY <1>1, FS_CardinalityType
<1>3. CASE m + 1 \in P
  <2>1. (\A j \in P : j <= m + 1 <=> j <= m \/ j = m + 1) /\ m + 1 \notin C(m)
    OBVIOUS
  <2>2. C(m + 1) = C(m) \cup {m + 1}
    BY <1>3, <2>1, Zenon
  <2>3. Cardinality(C(m + 1)) = Cardinality(C(m)) + 1
    <3> HIDE DEF C
    <3> QED
      BY <1>1, <2>1, <2>2, FS_AddElement
  <2> QED
    BY <1>1, <1>2, <1>3, <2>3
<1>4. CASE m + 1 \notin P
  <2>1. \A j \in P : j <= m + 1 <=> j <= m
    BY <1>4
  <2>2. C(m + 1) = C(m)
    BY <2>1, Zenon
  <2> QED
    BY <1>1, <1>2, <1>4, <2>2
<1> QED
  BY <1>3, <1>4

\* There is a k-th position.
LEMMA NthExists ==
    ASSUME NEW L \in Nat, NEW P \in SUBSET (1..L), NEW k \in 1..Cardinality(P)
    PROVE Nth(P, k) \in P
<1> DEFINE C(m) == Cardinality({j \in P : j <= m})
           S == {m \in Nat : C(m) < k}
<1>1. SUFFICES ASSUME \A i \in P : C(i) # k PROVE FALSE
  BY DEF Nth
<1>2. IsFiniteSet(P) /\ Cardinality(P) \in Nat
  <2>1. IsFiniteSet(1..L)
    BY FS_Interval
  <2> QED
    BY <2>1, FS_Subset, FS_CardinalityType
<1>3. 0 \in S
  <2>1. \A j \in P : ~(j <= 0)
    OBVIOUS
  <2>2. {j \in P : j <= 0} = {}
    BY <2>1, Zenon
  <2>3. C(0) = 0
    BY <2>2, FS_EmptySet
  <2> QED
    BY <2>3
<1>4. ASSUME NEW m \in Nat, m \in S PROVE m + 1 \in S
  <2>1. C(m) \in Nat /\ C(m) < k /\ C(m + 1) = IF m + 1 \in P THEN C(m) + 1 ELSE C(m)
    BY <1>4, CountStep
  <2>2. m + 1 \in P => C(m + 1) # k
    BY <1>1
  <2> HIDE DEF C
  <2> QED
    BY <2>1, <2>2, <1>2
<1>5. Nat \subseteq S
  <2> HIDE DEF S
  <2> QED
    BY <1>3, <1>4, SetInduction
<1>6. {j \in P : j <= L} = P
  <2>1. \A j \in P : j <= L
    OBVIOUS
  <2> QED
    BY <2>1, Zenon
<1> QED
  BY <1>2, <1>5, <1>6

\* What a selection is made of.
LEMMA SelectedSeq ==
    ASSUME NEW T, NEW s \in Seq(T), NEW P \in SUBSET DOMAIN s
    PROVE /\ Selected(s, P) \in Seq(T)
          /\ Len(Selected(s, P)) = Cardinality(P) /\ Cardinality(P) \in Nat
          /\ \A k \in 1..Cardinality(P) : Nth(P, k) \in P /\ Selected(s, P)[k] = s[Nth(P, k)]
<1>1. Len(s) \in Nat /\ P \in SUBSET (1..Len(s))
  OBVIOUS
<1>2. Cardinality(P) \in Nat
  <2>1. IsFiniteSet(1..Len(s))
    BY <1>1, FS_Interval
  <2> QED
    BY <1>1, <2>1, FS_Subset, FS_CardinalityType
<1>3. \A k \in 1..Cardinality(P) : Nth(P, k) \in P
  BY <1>1, NthExists
<1>4. \A i \in P : s[i] \in T
  OBVIOUS
<1> QED
  BY <1>2, <1>3, <1>4 DEF Selected

\* The positions of an interval in order.
LEMMA NthOfInterval ==
    ASSUME NEW a \in Nat \ {0}, NEW b \in Nat, a <= b + 1, NEW k \in 1..(b - a + 1)
    PROVE Cardinality(a..b) = b - a + 1 /\ Nth(a..b, k) = a + k - 1
<1>1. Cardinality(a..b) = b - a + 1
  BY FS_Interval
<1>2. \A i \in a..b : Cardinality({j \in a..b : j <= i}) = i - a + 1
  <2> TAKE i \in a..b
  <2>1. \A j : j \in a..b /\ j <= i <=> j \in a..i
    OBVIOUS
  <2>2. {j \in a..b : j <= i} = a..i
    BY <2>1, Zenon
  <2>3. Cardinality(a..i) = i - a + 1
    BY FS_Interval
  <2> QED
    BY <2>2, <2>3
<1>3. a + k - 1 \in a..b /\ \A i \in a..b : Cardinality({j \in a..b : j <= i}) = k <=> i = a + k - 1
  BY <1>2
<1> QED
  BY <1>1, <1>3 DEF Nth

-----------------------------------------------------------------------------
(* Types *)

-----------------------------------------------------------------------------
(* Types *)

\* A log.
LogSet == [ring : Seq(Event), next : 0..MaxPush, oldest : 0..MaxPush]
\* What is replayed ends in an event.
Replays == {r \in Seq(Event \cup {Gap}) : r # <<>> => r[Len(r)] \in Event}

\* The types, what a replay ends in, and that the log counts no more than what was pushed.
TypeInv ==
    /\ TypeOK
    /\ \A n \in Node : log[n].next <= pushed
    /\ \A c \in Conn : conn[c].replay \in Replays /\ (conn[c].pc # "idle" => conn[c].node \in Node)

\* The least of some natural numbers.
LEMMA MinOfNaturals ==
    ASSUME NEW I \in SUBSET Nat, I # {}
    PROVE Min(I) \in I /\ \A y \in I : Min(I) <= y
<1>1. \E x \in I : \A y \in I : ~(<<y, x>> \in OpToRel(<, Nat))
  BY NatLessThanWellFounded, WFMin
<1>2. PICK x \in I : \A y \in I : ~(<<y, x>> \in OpToRel(<, Nat))
  BY <1>1
<1>3. \A y \in I : ~(y < x)
  BY <1>2 DEF OpToRel
<1>4. \A y \in I : x <= y
  BY <1>3
<1> QED
  BY <1>4 DEF Min

\* An eviction leaves a log.
LEMMA EvictedType ==
    ASSUME NEW l \in LogSet, l.ring # <<>>
    PROVE /\ Evicted(l) \in LogSet
          /\ Evicted(l).ring = Tail(l.ring) /\ Evicted(l).next = l.next
<1> DEFINE rest == Tail(l.ring)
           pushes == {i \in DOMAIN rest : IsPush(rest[i])}
           out == Head(l.ring)
           o == IF ~IsPush(out) \/ (l.oldest # 0 /\ out.seq < l.oldest) THEN l.oldest
                ELSE IF pushes = {} THEN 0 ELSE rest[Min(pushes)].seq
<1>1. l.ring \in Seq(Event) /\ l.next \in 0..MaxPush /\ l.oldest \in 0..MaxPush
      /\ l = [ring |-> l.ring, next |-> l.next, oldest |-> l.oldest]
  BY DEF LogSet
<1>2. rest \in Seq(Event) /\ Len(rest) \in Nat
  BY <1>1
<1>3. Evicted(l) = [ring |-> rest, next |-> l.next, oldest |-> o]
  <2>1. Evicted(l) = [l EXCEPT !.ring = rest, !.oldest = o]
    BY Zenon DEF Evicted
  <2> HIDE DEF o, rest
  <2> QED
    BY <1>1, <2>1
<1>4. pushes # {} => rest[Min(pushes)] \in Event
  <2>1. pushes \subseteq Nat
    BY <1>2
  <2>2. pushes # {} => Min(pushes) \in pushes
    BY <2>1, MinOfNaturals
  <2>3. \A i \in pushes : rest[i] \in Event
    BY <1>2
  <2> QED
    BY <2>2, <2>3
<1>5. o \in 0..MaxPush
  <2> HIDE DEF pushes, rest
  <2> QED
    BY <1>1, <1>4, StreamAssumption DEF Event
<1> HIDE DEF o, rest
<1> QED
  BY <1>1, <1>2, <1>3, <1>5 DEF LogSet, rest

\* What the update of a log does.
LEMMA LogUpdate ==
    ASSUME NEW l, l = [ring |-> l.ring, next |-> l.next, oldest |-> l.oldest],
           NEW r, NEW n, NEW k, k = [l EXCEPT !.ring = r, !.next = n]
    PROVE k = [ring |-> r, next |-> n, oldest |-> l.oldest]
OBVIOUS

\* append() leaves a log that ends in what was appended and retains MaxCount events.
LEMMA LoggedType ==
    ASSUME NEW l \in LogSet, Len(l.ring) <= MaxCount, NEW s \in 0..MaxReply, NEW m \in 0..MaxPush,
           s = 0 => l.next < MaxPush
    PROVE LET new == Logged(l, s, m)
          IN  /\ new \in LogSet
              /\ Len(new.ring) <= MaxCount /\ new.ring # <<>>
              /\ new.next = IF s = 0 THEN l.next + 1 ELSE l.next
<1> DEFINE e == [stream |-> s, seq |-> IF s = 0 THEN l.next ELSE 0, msg |-> m]
           ring == Append(l.ring, e)
           added == [ring |-> ring, next |-> IF s = 0 THEN l.next + 1 ELSE l.next,
                     oldest |-> l.oldest]
<1>1. l.ring \in Seq(Event) /\ l.next \in 0..MaxPush /\ l.oldest \in 0..MaxPush
      /\ l = [ring |-> l.ring, next |-> l.next, oldest |-> l.oldest]
  BY DEF LogSet
<1>2. e \in Event
  BY <1>1, StreamAssumption DEF Event
<1>3. ring \in Seq(Event) /\ Len(ring) = Len(l.ring) + 1 /\ ring # <<>> /\ Len(l.ring) \in Nat
  <2> HIDE DEF e
  <2> QED
    BY <1>1, <1>2
<1>4. Logged(l, s, m) = IF Len(ring) > MaxCount THEN Evicted(added) ELSE added
  <2> DEFINE next == IF s = 0 THEN l.next + 1 ELSE l.next
             new == [l EXCEPT !.ring = ring, !.next = next]
  <2>1. Logged(l, s, m) = IF Len(new.ring) > MaxCount THEN Evicted(new) ELSE new
    BY Zenon DEF Logged
  <2>2. new = [ring |-> ring, next |-> next, oldest |-> l.oldest]
    <3> HIDE DEF ring, next
    <3> QED
      BY <1>1, LogUpdate
  <2>3. new = added /\ new.ring = ring
    BY <2>2
  <2> QED
    BY <2>1, <2>3, Zenon
<1> HIDE DEF e, ring
<1>5. added \in LogSet
  BY <1>1, <1>3, StreamAssumption DEF LogSet
<1>6. CASE Len(ring) > MaxCount
  <2>1. /\ Evicted(added) \in LogSet
        /\ Evicted(added).ring = Tail(ring) /\ Evicted(added).next = added.next
    BY <1>3, <1>5, EvictedType
  <2>2. Len(Tail(ring)) = MaxCount
    BY <1>3, <1>6, StreamAssumption
  <2>3. Tail(ring) # <<>>
    BY <1>3, <2>2, StreamAssumption
  <2> QED
    BY <1>4, <1>6, <2>1, <2>2, <2>3, StreamAssumption
<1>7. CASE ~(Len(ring) > MaxCount)
  BY <1>3, <1>4, <1>5, <1>7, StreamAssumption
<1> QED
  BY <1>6, <1>7

\* What is read from a log can be replayed.
LEMMA ReadAfterType ==
    ASSUME NEW l \in LogSet, NEW id
    PROVE ReadAfter(l, id) \in Replays
<1>1. l.ring \in Seq(Event)
  BY DEF LogSet
<1>2. ASSUME l.ring # <<>> PROVE <<Gap>> \o l.ring \in Replays
  <2> DEFINE r == <<Gap>> \o l.ring
  <2>1. Len(l.ring) \in Nat \ {0} /\ l.ring \in Seq(Event \cup {Gap})
    BY <1>1, <1>2
  <2>2. r \in Seq(Event \cup {Gap}) /\ Len(r) = 1 + Len(l.ring)
    BY <2>1
  <2>3. r[Len(r)] = l.ring[Len(l.ring)]
    BY <2>1, <2>2
  <2>4. l.ring[Len(l.ring)] \in Event
    BY <1>1, <2>1
  <2> HIDE DEF r
  <2> QED
    BY <2>2, <2>3, <2>4 DEF Replays, r
<1>3. Selected(l.ring, Later(l, id)) \in Replays
  <2> DEFINE s == Selected(l.ring, Later(l, id))
  <2>1. Later(l, id) \in SUBSET DOMAIN l.ring
    BY DEF Later
  <2>2. s \in Seq(Event)
    BY <1>1, <2>1, SelectedSeq
  <2> HIDE DEF s
  <2>3. s \in Seq(Event \cup {Gap}) /\ (s # <<>> => s[Len(s)] \in Event)
    BY <2>2
  <2> QED
    BY <2>3 DEF Replays, s
<1> QED
  BY <1>2, <1>3 DEF ReadAfter

\* What the client has of what is written to its connection.
LEMMA WriteType ==
    ASSUME TypeOK, NEW c, NEW events \in Replays, Write(c, events)
    PROVE got' \in Seq(0..MaxPush) /\ last' \in Id \cup {None}
<1> DEFINE end == Len(events)
           P == {i \in DOMAIN events : events[i].stream <= 0}
           shown == Selected(events, P)
<1>1. got \in Seq(0..MaxPush) /\ last \in Id \cup {None}
  BY DEF TypeOK
<1>2. events \in Seq(Event \cup {Gap}) /\ (events # <<>> => events[end] \in Event)
  BY DEF Replays
<1>3. shown \in Seq(Event \cup {Gap})
  <2>1. P \in SUBSET DOMAIN events
    OBVIOUS
  <2> QED
    BY <1>2, <2>1, SelectedSeq
<1> HIDE DEF shown
<1>4. \A e \in Event \cup {Gap} : e.msg \in 0..MaxPush
  BY StreamAssumption DEF Event, Gap
<1>5. [i \in DOMAIN shown |-> shown[i].msg] \in Seq(0..MaxPush)
  <2>1. Len(shown) \in Nat /\ DOMAIN shown = 1..Len(shown)
    BY <1>3
  <2>2. \A i \in 1..Len(shown) : shown[i].msg \in 0..MaxPush
    BY <1>3, <1>4
  <2> QED
    BY <2>1, <2>2
<1>6. events # <<>> => [stream |-> events[end].stream, seq |-> events[end].seq] \in Id
  BY <1>2 DEF Event, Id
<1>7. c # cur => UNCHANGED <<got, last>>
  BY DEF Write
<1>8. c = cur => /\ got' = got \o [i \in DOMAIN shown |-> shown[i].msg]
                 /\ last' = IF events = <<>> THEN last
                            ELSE [stream |-> events[end].stream, seq |-> events[end].seq]
  BY DEF Write, shown
<1>9. got' \in Seq(0..MaxPush)
  <2> DEFINE new == [i \in DOMAIN shown |-> shown[i].msg]
  <2>1. got \o new \in Seq(0..MaxPush)
    <3> HIDE DEF new
    <3> QED
      BY <1>1, <1>5 DEF new
  <2> QED
    BY <1>1, <1>7, <1>8, <2>1
<1>10. last' \in Id \cup {None}
  BY <1>1, <1>6, <1>7, <1>8
<1> QED
  BY <1>9, <1>10

\* Events can be replayed.
LEMMA EventsReplay ==
    ASSUME NEW s \in Seq(Event)
    PROVE s \in Replays
<1>1. s \in Seq(Event \cup {Gap}) /\ (s # <<>> => s[Len(s)] \in Event)
  OBVIOUS
<1> QED
  BY <1>1 DEF Replays

\* A connection of the server.
Sides == [pc : {"idle", "checked", "replaying", "orphaned", "open", "stray"},
          node : Node \cup {None}, from : Id \cup {None}, replay : Seq(Event \cup {Gap})]
Sound(k) == k \in Sides /\ k.replay \in Replays /\ (k.pc # "idle" => k.node \in Node)

\* A connection that is not in use.
LEMMA SoundIdle == Sound(Idle)
<1>1. <<>> \in Replays
  BY EmptySeq, EventsReplay
<1> QED
  BY <1>1 DEF Sound, Sides, Idle

\* A connection without a replay.
LEMMA SoundPlain ==
    ASSUME NEW pc \in {"open", "stray", "checked"}, NEW n \in Node, NEW from \in Id \cup {None}
    PROVE Sound([pc |-> pc, node |-> n, from |-> from, replay |-> <<>>])
<1>1. <<>> \in Replays
  BY EmptySeq, EventsReplay
<1> QED
  BY <1>1 DEF Sound, Sides

\* The update of one connection.
LEMMA SoundUpdate ==
    ASSUME TypeInv, NEW c \in Conn, NEW k, Sound(k), conn' = [conn EXCEPT ![c] = k]
    PROVE conn' \in [Conn -> Sides] /\ \A d \in Conn : Sound(conn'[d])
<1>1. conn \in [Conn -> Sides] /\ \A d \in Conn : Sound(conn[d])
  BY DEF TypeInv, TypeOK, Sides, Sound
<1>2. k \in Sides
  BY DEF Sound
<1> QED
  BY <1>1, <1>2

\* listen() leaves a connection as it should be.
LEMMA ListenType ==
    ASSUME TypeInv, NEW c \in Conn, conn[c].pc # "idle", NEW pc \in {"open", "stray"}, Listen(c, pc)
    PROVE conn' \in [Conn -> Sides] /\ \A d \in Conn : Sound(conn'[d])
<1> DEFINE k == IF c = cur THEN [pc |-> pc, node |-> conn[c].node, from |-> None, replay |-> <<>>]
                ELSE Idle
<1>1. conn' = [conn EXCEPT ![c] = k]
  BY DEF Listen
<1>2. conn[c].node \in Node
  BY DEF TypeInv
<1>3. Sound(k)
  BY <1>2, SoundIdle, SoundPlain
<1> HIDE DEF k
<1> QED
  BY <1>1, <1>3, SoundUpdate

\* What of the types a step may break, by the variables it changes.
LocalOK ==
    /\ stream \in [Node -> Conn \cup {None}]
    /\ pending \in [Node -> Seq(Event)] /\ \A n \in Node : Len(pending[n]) <= BufferLimit
PushOK ==
    /\ checked \in [Node -> BOOLEAN] /\ queue \in [Node -> Seq(Event)]
    /\ bus \in [Node -> Seq(Event)] /\ pushed \in 0..MaxPush
LogOK ==
    /\ log \in [Node -> LogSet]
    /\ \A n \in Node : Len(log[n].ring) <= MaxCount /\ log[n].next <= pushed
ConnOK == conn \in [Conn -> Sides] /\ \A c \in Conn : Sound(conn[c])
ReadOK ==
    /\ cur \in Conn \cup {None}
    /\ last \in Id \cup {None} /\ got \in Seq(0..MaxPush)
PlainOK == alive \in BOOLEAN /\ touching \in BOOLEAN /\ replies \in 0..MaxReply

\* They are the type invariant.
LEMMA TypeParts ==
    TypeInv <=> LocalOK /\ PushOK /\ LogOK /\ ConnOK /\ ReadOK /\ PlainOK
BY DEF TypeInv, TypeOK, LocalOK, PushOK, LogOK, ConnOK, ReadOK, PlainOK, Sound, Sides, LogSet

\* So do they after a step.
LEMMA TypePartsNext ==
    TypeInv' <=> LocalOK' /\ PushOK' /\ LogOK' /\ ConnOK' /\ ReadOK' /\ PlainOK'
BY DEF TypeInv, TypeOK, LocalOK, PushOK, LogOK, ConnOK, ReadOK, PlainOK, Sound, Sides, LogSet

\* The initial states are of the types.
LEMMA TypeInvInit == Init => TypeInv
<1> SUFFICES ASSUME Init PROVE TypeInv
  OBVIOUS
<1> USE StreamAssumption DEF Init
<1>1. <<>> \in Seq(Event) /\ <<>> \in Seq(0..MaxPush) /\ Len(<<>>) = 0
  OBVIOUS
<1>2. LocalOK
  BY <1>1 DEF LocalOK
<1>5. PushOK
  BY <1>1 DEF PushOK
<1>6. ReadOK
  BY EmptySeq DEF ReadOK
<1>7. PlainOK
  <2>1. 0 \in 0..MaxReply
    OBVIOUS
  <2> QED
    BY <2>1, Zenon DEF PlainOK
<1>3. LogOK
  BY <1>1 DEF LogOK, LogSet, EmptyLog
<1>4. ConnOK
  BY SoundIdle DEF ConnOK, Sound
<1> QED
  BY <1>2, <1>3, <1>4, <1>5, <1>6, <1>7, TypeParts

\* The client opens a connection.
LEMMA ConnectType ==
    ASSUME TypeInv, NEW c \in Conn, NEW n \in Node, Connect(c, n)
    PROVE TypeInv'
<1> USE TypeParts DEF Connect, session, local, pushing
<1>1. ConnOK'
  <2> DEFINE k == [pc |-> "checked", node |-> n, from |-> last, replay |-> <<>>]
  <2>1. Sound(k)
    BY SoundPlain DEF ReadOK
  <2>2. conn' = [conn EXCEPT ![c] = k]
    OBVIOUS
  <2> HIDE DEF k
  <2> QED
    BY <2>1, <2>2, SoundUpdate DEF ConnOK
<1>2. LocalOK' /\ PushOK' /\ LogOK' /\ ReadOK' /\ PlainOK'
  BY DEF LocalOK, PushOK, LogOK, ReadOK, PlainOK
<1> QED
  BY <1>1, <1>2, TypePartsNext

\* GET /mcp.
LEMMA OpensType ==
    ASSUME TypeInv, NEW c \in Conn, Opens(c) \/ Close(c)
    PROVE TypeInv'
<1> USE TypeParts DEF session, local, pushing, client
<1> SUFFICES ASSUME conn[c].pc # "idle" PROVE TypeInv'
  BY DEF Opens, Decline, Attach, Resume, GoLive, GoAstray, Close
<1>1. conn[c].node \in Node /\ conn[c].replay \in Replays /\ conn[c].from \in Id \cup {None}
      /\ conn[c] \in Sides
  BY DEF ConnOK, Sound, Sides
<1>2. CASE Decline(c)
  <2>1. ConnOK'
    BY <1>2, ListenType DEF Decline, ConnOK
  <2>2. LocalOK' /\ PushOK' /\ LogOK' /\ ReadOK' /\ PlainOK'
    BY <1>2 DEF Decline, LocalOK, PushOK, LogOK, ReadOK, PlainOK
  <2> QED
    BY <2>1, <2>2, TypePartsNext
<1>3. CASE Attach(c)
  <2>1. ConnOK'
    BY <1>3, ListenType DEF Attach, ConnOK
  <2>2. pending[conn[c].node] \in Replays
    BY <1>1, EventsReplay DEF LocalOK
  <2>3. got' \in Seq(0..MaxPush) /\ last' \in Id \cup {None}
    BY <1>3, <2>2, WriteType DEF Attach, TypeInv
  <2>4. LocalOK'
    <3>1. <<>> \in Seq(Event) /\ Len(<<>>) = 0
      OBVIOUS
    <3> QED
      BY <1>1, <1>3, <3>1, StreamAssumption DEF Attach, LocalOK
  <2>5. PushOK' /\ LogOK' /\ ReadOK' /\ PlainOK'
    BY <1>3, <2>3 DEF Attach, PushOK, LogOK, ReadOK, PlainOK
  <2> QED
    BY <2>1, <2>4, <2>5, TypePartsNext
<1>4. CASE Resume(c)
  <2> DEFINE r == ReadAfter(log[conn[c].node], conn[c].from)
             k == [pc |-> "replaying", node |-> conn[c].node, from |-> conn[c].from, replay |-> r]
  <2>1. r \in Replays
    BY <1>1, ReadAfterType DEF LogOK
  <2>2. conn' = [conn EXCEPT ![c] = k]
    BY <1>4 DEF Resume
  <2> HIDE DEF r
  <2>3. Sound(k)
    BY <1>1, <2>1 DEF Sound, Sides, Replays
  <2> HIDE DEF k
  <2>4. ConnOK'
    BY <2>2, <2>3, SoundUpdate DEF ConnOK
  <2>5. LocalOK' /\ PushOK' /\ LogOK' /\ ReadOK' /\ PlainOK'
    BY <1>4 DEF Resume, LocalOK, PushOK, LogOK, ReadOK, PlainOK
  <2> QED
    BY <2>4, <2>5, TypePartsNext
<1>5. CASE GoLive(c)
  <2>1. ConnOK'
    BY <1>5, ListenType DEF GoLive, ConnOK
  <2>2. got' \in Seq(0..MaxPush) /\ last' \in Id \cup {None}
    BY <1>1, <1>5, WriteType DEF GoLive, TypeInv
  <2>3. LocalOK' /\ PushOK' /\ LogOK' /\ ReadOK' /\ PlainOK'
    BY <1>1, <1>5, <2>2 DEF GoLive, LocalOK, PushOK, LogOK, ReadOK, PlainOK
  <2> QED
    BY <2>1, <2>3, TypePartsNext
<1>6. CASE GoAstray(c)
  <2>1. ConnOK'
    BY <1>6, ListenType DEF GoAstray, ConnOK
  <2>2. got' \in Seq(0..MaxPush) /\ last' \in Id \cup {None}
    BY <1>1, <1>6, WriteType DEF GoAstray, TypeInv
  <2>3. LocalOK' /\ PushOK' /\ LogOK' /\ ReadOK' /\ PlainOK'
    BY <1>1, <1>6, <2>2 DEF GoAstray, LocalOK, PushOK, LogOK, ReadOK, PlainOK
  <2> QED
    BY <2>1, <2>3, TypePartsNext
<1>7. CASE Close(c)
  <2>1. ConnOK'
    BY <1>7, SoundIdle, SoundUpdate DEF Close, ConnOK
  <2>2. LocalOK' /\ PushOK' /\ LogOK' /\ ReadOK' /\ PlainOK'
    BY <1>1, <1>7 DEF Close, LocalOK, PushOK, LogOK, ReadOK, PlainOK
  <2> QED
    BY <2>1, <2>2, TypePartsNext
<1> QED
  BY <1>2, <1>3, <1>4, <1>5, <1>6, <1>7 DEF Opens

\* pushNotification() up to the log.
LEMMA PushLogType ==
    ASSUME TypeInv, NEW n \in Node, PushBegin(n) \/ PushLog(n)
    PROVE TypeInv'
<1> USE TypeParts DEF session, local, client
<1>1. CASE PushBegin(n)
  BY <1>1, TypePartsNext DEF PushBegin, LocalOK, PushOK, LogOK, ConnOK, ReadOK, PlainOK
<1>2. CASE PushLog(n)
  <2> DEFINE l == Logged(log[n], 0, pushed + 1)
  <2>1. /\ log[n] \in LogSet /\ Len(log[n].ring) <= MaxCount /\ log[n].next <= pushed
        /\ pushed \in 0..MaxPush /\ pushed < MaxPush
    BY <1>2 DEF PushLog, LogOK, PushOK
  <2>2. log[n].next < MaxPush /\ pushed + 1 \in 0..MaxPush /\ 0 \in 0..MaxReply
    BY <2>1, StreamAssumption DEF LogSet
  <2>3. l \in LogSet /\ Len(l.ring) <= MaxCount /\ l.ring # <<>> /\ l.next = log[n].next + 1
    BY <2>1, <2>2, LoggedType
  <2>4. /\ log' = [log EXCEPT ![n] = l]
        /\ queue' = [queue EXCEPT ![n] = Append(queue[n], l.ring[Len(l.ring)])]
        /\ checked' = [checked EXCEPT ![n] = FALSE]
        /\ pushed' = pushed + 1
    BY <1>2 DEF PushLog
  <2> HIDE DEF l
  <2>5. LogOK'
    <3>1. log' \in [Node -> LogSet]
      BY <2>3, <2>4 DEF LogOK
    <3>2. \A m \in Node : log'[m] = IF m = n THEN l ELSE log[m]
      BY <2>4 DEF LogOK
    <3>3. \A m \in Node : log[m].next \in Nat
      BY StreamAssumption DEF LogOK, LogSet
    <3> QED
      BY <2>1, <2>3, <2>4, <3>1, <3>2, <3>3 DEF LogOK
  <2>6. PushOK'
    <3>1. l.ring[Len(l.ring)] \in Event
      BY <2>3 DEF LogSet
    <3>2. Append(queue[n], l.ring[Len(l.ring)]) \in Seq(Event)
      BY <3>1 DEF PushOK
    <3> QED
      BY <1>2, <2>2, <2>4, <3>2 DEF PushLog, PushOK
  <2>7. LocalOK' /\ ConnOK' /\ ReadOK' /\ PlainOK'
    BY <1>2 DEF PushLog, LocalOK, ConnOK, ReadOK, PlainOK
  <2> QED
    BY <2>5, <2>6, <2>7, TypePartsNext
<1> QED
  BY <1>1, <1>2

\* The delivery of what is logged, and of what is published.
LEMMA DeliverType ==
    ASSUME TypeInv, NEW n \in Node, PushDeliver(n) \/ BusDeliver(n)
    PROVE TypeInv'
<1> USE TypeParts DEF session, local, client
<1>1. \A e \in Event : <<e>> \in Replays
  <2> TAKE e \in Event
  <2>1. <<e>> \in Seq(Event)
    OBVIOUS
  <2> QED
    BY <2>1, EventsReplay
<1>2. CASE PushDeliver(n)
  <2> DEFINE e == Head(queue[n])
  <2>1. e \in Event /\ Tail(queue[n]) \in Seq(Event)
    BY <1>2 DEF PushDeliver, PushOK
  <2> HIDE DEF e
  <2>2. ReadOK' /\ pending' \in [Node -> Seq(Event)] /\ bus' \in [Node -> Seq(Event)]
        /\ \A m \in Node : Len(pending'[m]) <= BufferLimit
    <3>1. CASE stream[n] # None
      <4>1. Write(stream[n], <<e>>) /\ UNCHANGED <<pending, bus, cur>>
        BY <1>2, <3>1, Zenon DEF PushDeliver, e
      <4>2. got' \in Seq(0..MaxPush) /\ last' \in Id \cup {None}
        BY <1>1, <2>1, <4>1, WriteType DEF TypeInv
      <4> QED
        BY <4>1, <4>2 DEF ReadOK, LocalOK, PushOK
    <3>2. CASE stream[n] = None /\ Delivery = "buffer"
      <4>1. pending' = [pending EXCEPT ![n] = Buffered(pending[n], e)]
            /\ UNCHANGED <<bus, got, last, cur>>
        BY <1>2, <3>2 DEF PushDeliver, e
      <4>2. Buffered(pending[n], e) \in Seq(Event) /\ Len(Buffered(pending[n], e)) <= BufferLimit
        BY <2>1, StreamAssumption DEF Buffered, LocalOK
      <4> QED
        BY <4>1, <4>2 DEF ReadOK, LocalOK, PushOK
    <3>3. CASE stream[n] = None /\ Delivery = "pubsub"
      <4>1. bus' = [m \in Node |-> Append(bus[m], e)] /\ UNCHANGED <<pending, got, last, cur>>
        BY <1>2, <3>3 DEF PushDeliver, e
      <4>2. \A m \in Node : Append(bus[m], e) \in Seq(Event)
        BY <2>1 DEF PushOK
      <4> QED
        BY <4>1, <4>2 DEF ReadOK, LocalOK
    <3>4. CASE stream[n] = None /\ Delivery = "publish"
      <4>1. UNCHANGED <<pending, bus, got, last, cur>>
        BY <1>2, <3>4 DEF PushDeliver, e
      <4> QED
        BY <4>1 DEF ReadOK, LocalOK, PushOK
    <3> QED
      BY <3>1, <3>2, <3>3, <3>4, StreamAssumption DEF Deliveries
  <2>3. queue' = [queue EXCEPT ![n] = Tail(queue[n])]
        /\ UNCHANGED <<session, log, stream, checked, pushed, replies, conn>>
    BY <1>2 DEF PushDeliver
  <2>4. LocalOK' /\ PushOK' /\ LogOK' /\ ConnOK' /\ PlainOK'
    BY <2>1, <2>2, <2>3 DEF LocalOK, PushOK, LogOK, ConnOK, PlainOK
  <2> QED
    BY <2>2, <2>4, TypePartsNext
<1>3. CASE BusDeliver(n)
  <2>1. Head(bus[n]) \in Event /\ Tail(bus[n]) \in Seq(Event)
    BY <1>3 DEF BusDeliver, PushOK
  <2>2. got' \in Seq(0..MaxPush) /\ last' \in Id \cup {None}
    BY <1>1, <1>3, <2>1, WriteType DEF BusDeliver, TypeInv, ReadOK
  <2>3. LocalOK' /\ PushOK' /\ LogOK' /\ ConnOK' /\ ReadOK' /\ PlainOK'
    BY <1>3, <2>1, <2>2 DEF BusDeliver, LocalOK, PushOK, LogOK, ConnOK, ReadOK, PlainOK
  <2> QED
    BY <2>3, TypePartsNext
<1> QED
  BY <1>2, <1>3

\* A request is answered as an event stream.
LEMMA ReplyType ==
    ASSUME TypeInv, NEW n \in Node, Reply(n)
    PROVE TypeInv'
<1> USE TypeParts DEF session, local, pushing, client
<1> DEFINE l == Logged(log[n], replies + 1, 0)
<1>1. log[n] \in LogSet /\ Len(log[n].ring) <= MaxCount /\ log[n].next <= pushed
  BY DEF LogOK
<1>2. replies + 1 \in 0..MaxReply /\ replies + 1 # 0 /\ 0 \in 0..MaxPush
  BY StreamAssumption DEF Reply, PlainOK
<1>3. l \in LogSet /\ Len(l.ring) <= MaxCount /\ l.next = log[n].next
  BY <1>1, <1>2, LoggedType
<1>4. log' = [log EXCEPT ![n] = l] /\ replies' = replies + 1 /\ UNCHANGED pushed
  BY DEF Reply
<1> HIDE DEF l
<1>5. LogOK'
  BY <1>1, <1>3, <1>4 DEF LogOK
<1>6. PlainOK'
  BY <1>2 DEF Reply, PlainOK
<1>7. LocalOK' /\ PushOK' /\ ConnOK' /\ ReadOK'
  BY DEF Reply, LocalOK, PushOK, ConnOK, ReadOK
<1> QED
  BY <1>5, <1>6, <1>7, TypePartsNext

\* The end of the local state of a replica.
LEMMA EndType ==
    ASSUME LocalOK, ConnOK, cur \in Conn \cup {None}, NEW n \in Node, End(n)
    PROVE LocalOK' /\ ConnOK' /\ cur' \in Conn \cup {None}
<1>1. LocalOK'
  <2>1. <<>> \in Seq(Event) /\ Len(<<>>) = 0
    OBVIOUS
  <2> QED
    BY <2>1, StreamAssumption DEF End, LocalOK
<1>2. ConnOK'
  <2> DEFINE k(c) == [conn[c] EXCEPT !.pc = "orphaned"]
  <2>1. ASSUME NEW c \in Conn, conn[c].pc = "replaying"
        PROVE Sound(k(c))
    BY <2>1 DEF ConnOK, Sound, Sides
  <2>2. conn' = [c \in Conn |-> IF conn[c].pc = "replaying" /\ conn[c].node = n THEN k(c) ELSE conn[c]]
    BY DEF End
  <2> HIDE DEF k
  <2>3. \A c \in Conn : Sound(conn'[c])
    BY <2>1, <2>2 DEF ConnOK
  <2> QED
    BY <2>2, <2>3 DEF ConnOK, Sound
<1>3. cur' \in Conn \cup {None}
  BY DEF End
<1> QED
  BY <1>1, <1>2, <1>3

\* The session ends, or a replica restarts.
LEMMA LifeType ==
    ASSUME TypeInv, NEW n \in Node, Terminate(n) \/ Reap(n) \/ Restart(n)
    PROVE TypeInv'
<1> USE TypeParts DEF session, local, pushing, client
<1>1. EmptyLog \in LogSet /\ Len(EmptyLog.ring) = 0 /\ EmptyLog.next = 0
  BY EmptySeq, StreamAssumption DEF EmptyLog, LogSet
<1>2. log' = [log EXCEPT ![n] = EmptyLog] /\ UNCHANGED pushed => LogOK'
  <2> SUFFICES ASSUME log' = [log EXCEPT ![n] = EmptyLog], UNCHANGED pushed PROVE LogOK'
    OBVIOUS
  <2>1. \A m \in Node : log'[m] = IF m = n THEN EmptyLog ELSE log[m]
    BY DEF LogOK
  <2>2. pushed \in Nat
    BY StreamAssumption DEF PushOK
  <2> QED
    BY <1>1, <2>1, <2>2, StreamAssumption DEF LogOK
<1>3. CASE Terminate(n)
  <2>1. LocalOK' /\ ConnOK' /\ cur' \in Conn \cup {None}
    BY <1>3, EndType DEF Terminate, ReadOK
  <2>2. alive' = FALSE /\ UNCHANGED <<touching, replies>>
    BY <1>3 DEF Terminate
  <2>3. PlainOK'
    BY <2>2, Zenon DEF PlainOK
  <2>4. PushOK' /\ LogOK' /\ ReadOK'
    BY <1>2, <1>3, <2>1 DEF Terminate, PushOK, ReadOK
  <2> QED
    BY <2>1, <2>3, <2>4, TypePartsNext
<1>4. CASE Reap(n)
  <2>1. LocalOK' /\ ConnOK' /\ cur' \in Conn \cup {None}
    BY <1>4, EndType DEF Reap, ReadOK
  <2>2. PlainOK' /\ PushOK' /\ LogOK' /\ ReadOK'
    BY <1>4, <2>1 DEF Reap, PlainOK, PushOK, LogOK, ReadOK
  <2> QED
    BY <2>1, <2>2, TypePartsNext
<1>5. CASE Restart(n)
  <2>1. <<>> \in Seq(Event) /\ Len(<<>>) = 0
    OBVIOUS
  <2>2. LocalOK' /\ PushOK' /\ LogOK'
    BY <1>2, <1>5, <2>1, StreamAssumption DEF Restart, LocalOK, PushOK
  <2>3. alive' = (alive /\ Delivery # "buffer") /\ UNCHANGED <<touching, replies>>
    BY <1>5 DEF Restart
  <2>4. PlainOK'
    BY <2>3, Zenon DEF PlainOK
  <2>5. ConnOK'
    BY <1>5, SoundIdle DEF Restart, ConnOK, Sound
  <2>6. ReadOK'
    BY <1>5 DEF Restart, ReadOK
  <2> QED
    BY <2>2, <2>4, <2>5, <2>6, TypePartsNext
<1> QED
  BY <1>3, <1>4, <1>5

\* The record in the session store.
LEMMA RecordType ==
    ASSUME TypeInv, TouchRead \/ TouchWrite \/ Expire
    PROVE TypeInv'
<1> USE TypeParts DEF session, local, pushing, client
<1>1. UNCHANGED <<log, stream, pending, checked, queue, bus, pushed, replies, conn, cur, last, got>>
  BY DEF TouchRead, TouchWrite, Expire
<1>2. alive' \in BOOLEAN /\ touching' \in BOOLEAN
  BY Zenon DEF TouchRead, TouchWrite, Expire, PlainOK
<1>3. LocalOK' /\ PushOK' /\ LogOK' /\ ConnOK' /\ ReadOK' /\ PlainOK'
  BY <1>1, <1>2 DEF LocalOK, PushOK, LogOK, ConnOK, ReadOK, PlainOK
<1> QED
  BY <1>3, TypePartsNext

\* Every step keeps the types.
LEMMA TypeInvKept == TypeInv /\ [Next]_vars => TypeInv'
<1> SUFFICES ASSUME TypeInv, [Next]_vars PROVE TypeInv'
  OBVIOUS
<1> USE TypeParts DEF session, local, pushing, client
<1>1. CASE Drop \/ UNCHANGED vars
  <2>1. UNCHANGED <<session, log, local, pushing, replies, conn, last, got>> /\ cur' \in Conn \cup {None}
    BY <1>1 DEF Drop, vars, ReadOK
  <2>2. LocalOK' /\ PushOK' /\ LogOK' /\ ConnOK' /\ ReadOK' /\ PlainOK'
    BY <2>1 DEF LocalOK, PushOK, LogOK, ConnOK, ReadOK, PlainOK
  <2> QED
    BY <2>2, TypePartsNext
<1>2. CASE Open
  BY <1>2, ConnectType DEF Open
<1>3. ASSUME NEW c \in Conn, Opens(c) \/ Close(c) PROVE TypeInv'
  BY <1>3, OpensType
<1>4. ASSUME NEW n \in Node, Serve(n) PROVE TypeInv'
  BY <1>4, PushLogType, DeliverType, ReplyType DEF Serve
<1>5. ASSUME NEW n \in Node, Terminate(n) \/ Reap(n) \/ Restart(n) PROVE TypeInv'
  BY <1>5, LifeType
<1>6. CASE TouchRead \/ TouchWrite \/ Expire
  BY <1>6, RecordType
<1> QED
  BY <1>1, <1>2, <1>3, <1>4, <1>5, <1>6 DEF Next

\* Sessions, logs, buffers, replays and what the client has are what they are said to be: the
\* log of a session never retains more than its limit (the overflow of MemoryEventStore.append())
\* and the buffer of a replica never holds more than its own (pushNotification()).
THEOREM TypeCorrect == SessionSpec => []TypeOK
<1>1. TypeInv => TypeOK
  BY DEF TypeInv
<1> QED
  BY <1>1, TypeInvInit, TypeInvKept, PTL DEF SessionSpec

-----------------------------------------------------------------------------
(* Replay *)

\* One process, whose client loses connections, is away too long, and reconnects only after
\* the server has closed the connection before; nothing is pushed while it replays, and no
\* request is answered as an event stream.
OneClientOneProcess ==
    /\ \A m, n \in Node : m = n
    /\ Allowed \subseteq {"drop", "expire"}
    /\ Delivery \in {"buffer", "publish"}
    /\ MaxReply = 0

\* The notifications from a to b, as they are logged.
PushEvent(k) == [stream |-> 0, seq |-> k - 1, msg |-> k]
Run(a, b) == [i \in 1..(b - a + 1) |-> PushEvent(a + i - 1)]

\* The newest notification that has left the queue.
Delivered(n) == pushed - Len(queue[n])

\* A log has the newest len of p notifications.
Newest(l, len, p) ==
    /\ Len(l.ring) = len /\ l.ring = Run(p - len + 1, p)
    /\ l.next = p /\ l.oldest = p - len

\* The log ends with the newest notification, knows where it begins, and the queue is its end.
LogInv ==
    \A n \in Node :
        /\ Len(log[n].ring) <= pushed /\ Newest(log[n], Len(log[n].ring), pushed)
        /\ pushed # 0 => log[n].ring # <<>>
        /\ Len(queue[n]) <= pushed /\ queue[n] = Run(Delivered(n) + 1, pushed)
        /\ bus[n] = <<>>

\* What the client has and what it would reconnect with.
Reads ==
    /\ got \in Seq(Nat) /\ ReplayIsComplete
    /\ last = None <=> got = <<>>
    /\ last # None => last.stream = 0 /\ last.seq \in Nat /\ got[Len(got)] = last.seq + 1

\* All that it has was delivered.
LastInv == last # None => \A n \in Node : last.seq < Delivered(n)

\* A client that is attached has all that was delivered.
LiveInv ==
    \A n \in Node :
        cur # None /\ stream[n] = cur =>
            conn[cur].pc = "open" /\ (last # None => last.seq + 1 = Delivered(n))

\* The notifications p are the newest of the first d.
EndsAt(p, d) == Len(p) <= d /\ p = Run(d - Len(p) + 1, d)

\* What is buffered for a client that has nothing yet is the newest, if nobody is attached.
PendingInv ==
    \A n \in Node :
        /\ Delivery = "publish" => pending[n] = <<>>
        /\ last = None /\ pending[n] # <<>> => stream[n] = None /\ EndsAt(pending[n], Delivered(n))

\* The replay r is what a client that has notification k misses up to b.
Catches(r, k, b) ==
    \/ k <= b /\ r = Run(k + 1, b)
    \/ \E a \in (k + 2)..b : r = <<Gap>> \o Run(a, b)

\* A replay under way is what the client misses, and ends with what had been delivered.
CatchInv ==
    cur # None =>
        /\ conn[cur].pc \in {"checked", "replaying", "orphaned"} => conn[cur].from = last
        /\ conn[cur].pc \in {"replaying", "orphaned"} =>
              /\ last # None
              /\ \E b \in 0..Delivered(conn[cur].node) :
                    /\ Catches(conn[cur].replay, last.seq + 1, b)
                    /\ conn[cur].pc = "replaying" =>
                          b = pushed /\ queue[conn[cur].node] = <<>>

\* No connection asks for a replay or has one before the client has something.
KnownInv ==
    last = None =>
        \A c \in Conn : conn[c].from = None /\ conn[c].pc \notin {"replaying", "orphaned"}

ReplayInv == Reads /\ LogInv /\ LastInv /\ LiveInv /\ PendingInv /\ KnownInv /\ CatchInv

\* The notifications from a to b, one by one.
LEMMA RunIs ==
    ASSUME NEW a \in Nat \ {0}, NEW b \in Nat, a <= b + 1
    PROVE /\ Run(a, b) \in Seq(Event \cup {PushEvent(k) : k \in Nat})
          /\ Len(Run(a, b)) = b - a + 1
          /\ DOMAIN Run(a, b) = 1..(b - a + 1)
          /\ \A i \in 1..(b - a + 1) : /\ Run(a, b)[i] = PushEvent(a + i - 1)
                                       /\ Run(a, b)[i].stream = 0
                                       /\ Run(a, b)[i].seq = a + i - 2
                                       /\ Run(a, b)[i].msg = a + i - 1
          /\ Run(a, b) = <<>> <=> a = b + 1
<1>1. \A i \in 1..(b - a + 1) : Run(a, b)[i] = PushEvent(a + i - 1) /\ a + i - 1 \in Nat
  BY DEF Run
<1>2. b - a + 1 \in Nat /\ DOMAIN Run(a, b) = 1..(b - a + 1)
  BY DEF Run
<1>3. Run(a, b) \in Seq(Event \cup {PushEvent(k) : k \in Nat})
  BY <1>1, <1>2 DEF Run
<1>4. Len(Run(a, b)) = b - a + 1
  BY <1>2, <1>3
<1>5. Run(a, b) = <<>> <=> a = b + 1
  BY <1>3, <1>4
<1> QED
  BY <1>1, <1>2, <1>3, <1>4, <1>5 DEF PushEvent

\* A sequence is what its length and its elements say.
LEMMA IsRun ==
    ASSUME NEW a \in Nat \ {0}, NEW b \in Nat, a <= b + 1, NEW T, NEW s \in Seq(T),
           Len(s) = b - a + 1, \A i \in 1..Len(s) : s[i] = PushEvent(a + i - 1)
    PROVE s = Run(a, b)
BY DEF Run

\* One more at the end.
LEMMA RunAppend ==
    ASSUME NEW a \in Nat \ {0}, NEW b \in Nat, a <= b + 1
    PROVE Append(Run(a, b), PushEvent(b + 1)) = Run(a, b + 1)
<1> DEFINE T == Event \cup {PushEvent(k) : k \in Nat}
           s == Append(Run(a, b), PushEvent(b + 1))
<1>1. Run(a, b) \in Seq(T) /\ Len(Run(a, b)) = b - a + 1
      /\ \A i \in 1..(b - a + 1) : Run(a, b)[i] = PushEvent(a + i - 1)
  BY RunIs
<1>2. PushEvent(b + 1) \in T
  OBVIOUS
<1> HIDE DEF T
<1>3. s \in Seq(T) /\ Len(s) = (b + 1) - a + 1 /\ s[b - a + 2] = PushEvent(b + 1)
      /\ \A i \in 1..(b - a + 1) : s[i] = Run(a, b)[i]
  BY <1>1, <1>2
<1>4. \A i \in 1..Len(s) : s[i] = PushEvent(a + i - 1)
  <2> TAKE i \in 1..Len(s)
  <2>1. CASE i = b - a + 2
    BY <1>3, <2>1
  <2>2. CASE i # b - a + 2
    BY <1>1, <1>3, <2>2
  <2> QED
    BY <2>1, <2>2
<1> HIDE DEF s
<1>5. s = Run(a, b + 1)
  BY <1>3, <1>4, IsRun
<1> QED
  BY <1>5 DEF s

\* One less at the beginning.
LEMMA RunTail ==
    ASSUME NEW a \in Nat \ {0}, NEW b \in Nat, a <= b
    PROVE Head(Run(a, b)) = PushEvent(a) /\ Tail(Run(a, b)) = Run(a + 1, b)
<1> DEFINE T == Event \cup {PushEvent(k) : k \in Nat}
           s == Tail(Run(a, b))
<1>1. Run(a, b) \in Seq(T) /\ Len(Run(a, b)) = b - a + 1
      /\ \A i \in 1..(b - a + 1) : Run(a, b)[i] = PushEvent(a + i - 1)
  <2>1. a <= b + 1
    OBVIOUS
  <2> QED
    BY <2>1, RunIs
<1> HIDE DEF T
<1>2. s \in Seq(T) /\ Len(s) = b - (a + 1) + 1
      /\ \A i \in 1..Len(s) : s[i] = Run(a, b)[i + 1]
  BY <1>1
<1>3. Head(Run(a, b)) = PushEvent(a)
  BY <1>1
<1>4. \A i \in 1..Len(s) : s[i] = PushEvent((a + 1) + i - 1)
  BY <1>1, <1>2
<1> HIDE DEF s
<1>5. s = Run(a + 1, b)
  BY <1>2, <1>4, IsRun
<1> QED
  BY <1>3, <1>5 DEF s

\* All of a sequence is selected.
LEMMA SelectedAll ==
    ASSUME NEW T, NEW s \in Seq(T)
    PROVE Selected(s, DOMAIN s) = s
<1>1. Len(s) \in Nat /\ DOMAIN s = 1..Len(s) /\ 1 <= Len(s) + 1
  OBVIOUS
<1>2. Cardinality(1..Len(s)) = Len(s)
  BY <1>1, FS_Interval
<1>3. \A k \in 1..Len(s) : Nth(1..Len(s), k) = k
  <2> TAKE k \in 1..Len(s)
  <2>1. k \in 1..(Len(s) - 1 + 1)
    BY <1>1
  <2>2. Nth(1..Len(s), k) = 1 + k - 1
    BY <1>1, <2>1, NthOfInterval
  <2> QED
    BY <2>2
<1>4. Selected(s, DOMAIN s) = [k \in 1..Len(s) |-> s[k]]
  BY <1>1, <1>2, <1>3 DEF Selected
<1> QED
  BY <1>1, <1>4

\* The end of it is selected.
LEMMA SelectedEnd ==
    ASSUME NEW a \in Nat \ {0}, NEW b \in Nat, a <= b + 1, NEW d \in Nat, a <= d, d <= b + 1
    PROVE Selected(Run(a, b), (d - a + 1)..(b - a + 1)) = Run(d, b)
<1> DEFINE x == d - a + 1
           y == b - a + 1
           s == Selected(Run(a, b), x..y)
<1>1. x \in Nat \ {0} /\ y \in Nat /\ x <= y + 1 /\ y - x + 1 = b - d + 1
  OBVIOUS
<1>2. Cardinality(x..y) = b - d + 1
  <2>1. x \in Int /\ y \in Int /\ (x > y => b - d + 1 = 0)
    BY <1>1
  <2> HIDE DEF x, y
  <2> QED
    BY <1>1, <2>1, FS_Interval
<1>3. \A k \in 1..(b - d + 1) : Nth(x..y, k) = x + k - 1
  <2> HIDE DEF x, y
  <2> QED
    BY <1>1, NthOfInterval
<1>4. s = [k \in 1..(b - d + 1) |-> Run(a, b)[x + k - 1]]
  BY <1>2, <1>3 DEF Selected
<1>5. \A k \in 1..(b - d + 1) : Run(a, b)[x + k - 1] = PushEvent(d + k - 1)
  <2> TAKE k \in 1..(b - d + 1)
  <2> DEFINE i == x + k - 1
  <2>1. i \in 1..(b - a + 1) /\ a + i - 1 = d + k - 1
    OBVIOUS
  <2> HIDE DEF i
  <2>2. Run(a, b)[i] = PushEvent(a + i - 1)
    BY <2>1, RunIs
  <2> QED
    BY <2>1, <2>2 DEF i
<1> QED
  BY <1>4, <1>5 DEF Run

\* A log of the newest notifications gives a client what it misses, or warns of what it has
\* lost.
LEMMA ReadAfterCatches ==
    ASSUME NEW l, NEW p \in Nat, NEW len \in Nat, len <= p, p # 0 => len # 0,
           l.ring = Run(p - len + 1, p), l.oldest = p - len,
           NEW id, id.stream = 0, id.seq \in Nat, id.seq < p
    PROVE Catches(ReadAfter(l, id), id.seq + 1, p)
<1> DEFINE a == p - len + 1
           d == id.seq + 2
<1>1. /\ a \in Nat \ {0} /\ a <= p /\ d \in Nat /\ d <= p + 1 /\ len # 0
      /\ p - a + 1 = len /\ a <= p + 1
  OBVIOUS
<1>2. /\ Len(l.ring) = len /\ DOMAIN l.ring = 1..len /\ l.ring # <<>>
      /\ \A i \in 1..len : l.ring[i].stream = 0 /\ l.ring[i].seq = a + i - 2
  <2>1. l.ring = Run(a, p) /\ a # p + 1
    BY <1>1
  <2> HIDE DEF a
  <2>2. /\ Len(Run(a, p)) = p - a + 1
        /\ DOMAIN Run(a, p) = 1..(p - a + 1)
        /\ \A i \in 1..(p - a + 1) : Run(a, p)[i].stream = 0 /\ Run(a, p)[i].seq = a + i - 2
        /\ Run(a, p) = <<>> <=> a = p + 1
    <3>1. a \in Nat \ {0} /\ p \in Nat /\ a <= p + 1
      BY <1>1
    <3> QED
      BY <3>1, RunIs
  <2> QED
    BY <1>1, <2>1, <2>2
<1>3. CASE l.oldest # 0 /\ id.seq < l.oldest - 1
  <2>1. ReadAfter(l, id) = <<Gap>> \o Run(a, p)
    BY <1>2, <1>3 DEF ReadAfter
  <2>2. a \in (id.seq + 1 + 2)..p
    BY <1>1, <1>3
  <2> HIDE DEF a
  <2> QED
    BY <2>1, <2>2 DEF Catches
<1>4. CASE ~(l.oldest # 0 /\ id.seq < l.oldest - 1)
  <2>1. a <= d
    BY <1>1, <1>4
  <2>2. \A i \in 1..len : l.ring[i].seq > id.seq <=> i \in (d - a + 1)..(p - a + 1)
    BY <1>1, <1>2
  <2>3. (d - a + 1)..(p - a + 1) \subseteq 1..len
    BY <1>1, <2>1
  <2>4. Later(l, id) = (d - a + 1)..(p - a + 1)
    <3> DEFINE P == (d - a + 1)..(p - a + 1)
               R == 1..len
    <3>1. \A i \in R : l.ring[i].stream = id.stream /\ (l.ring[i].seq > id.seq <=> i \in P)
      BY <1>2, <2>2
    <3>2. P \subseteq R /\ DOMAIN l.ring = R
      BY <1>2, <2>3
    <3> HIDE DEF P, R
    <3> QED
      BY <3>1, <3>2, Zenon DEF Later, P
  <2>5. ReadAfter(l, id) = Selected(l.ring, Later(l, id))
    BY <1>4 DEF ReadAfter
  <2>6. Selected(Run(a, p), (d - a + 1)..(p - a + 1)) = Run(d, p)
    <3> HIDE DEF a, d
    <3> QED
      BY <1>1, <2>1, SelectedEnd
  <2>7. ReadAfter(l, id) = Run(id.seq + 1 + 1, p) /\ id.seq + 1 <= p
    <3>1. d = id.seq + 1 + 1
      OBVIOUS
    <3> HIDE DEF a, d
    <3> QED
      BY <2>4, <2>5, <2>6, <3>1 DEF a
  <2> QED
    BY <2>7 DEF Catches
<1> QED
  BY <1>3, <1>4

\* All that is written is read, when it is notifications and warnings only.
LEMMA WriteAll ==
    ASSUME NEW T, NEW events \in Seq(T), \A i \in DOMAIN events : events[i].stream \in {0, -1},
           Write(cur, events)
    PROVE /\ got' = got \o [i \in 1..Len(events) |-> events[i].msg]
          /\ last' = IF events = <<>> THEN last
                     ELSE [stream |-> events[Len(events)].stream, seq |-> events[Len(events)].seq]
<1> DEFINE P == {i \in DOMAIN events : events[i].stream <= 0}
<1>1. P = DOMAIN events
  <2>1. \A i \in DOMAIN events : events[i].stream <= 0
    OBVIOUS
  <2> QED
    BY <2>1, Zenon
<1>2. Selected(events, P) = events
  BY <1>1, SelectedAll
<1>3. DOMAIN events = 1..Len(events)
  OBVIOUS
<1> QED
  BY <1>2, <1>3 DEF Write

\* ReplayIsComplete, of any sequence.
Ordered(g) ==
    /\ \A i \in 2..Len(g) : g[i] # 0 /\ g[i-1] # 0 => g[i] = g[i-1] + 1
    /\ \A i \in 2..Len(g) - 1 : g[i] = 0 => g[i+1] > g[i-1] + 1

\* Two parts of what is received, one after the other.
LEMMA Joined ==
    ASSUME NEW T, NEW s \in Seq(T), NEW t \in Seq(T)
    PROVE /\ s \o t \in Seq(T) /\ Len(s \o t) = Len(s) + Len(t)
          /\ \A j \in 1..Len(s) + Len(t) : (s \o t)[j] = IF j <= Len(s) THEN s[j] ELSE t[j - Len(s)]
<1>1. s \o t \in Seq(T) /\ Len(s \o t) = Len(s) + Len(t)
  OBVIOUS
<1>2. \A j \in 1..Len(s) + Len(t) : (s \o t)[j] = IF j <= Len(s) THEN s[j] ELSE t[j - Len(s)]
  OBVIOUS
<1> QED
  BY <1>1, <1>2

\* They are in order if each is, and the second follows the first.
LEMMA OrderedJoin ==
    ASSUME NEW g \in Seq(Nat), NEW n \in Seq(Nat), Ordered(g), Ordered(n),
           g # <<>> /\ n # <<>> =>
              /\ g[Len(g)] # 0
              /\ n[1] # 0 => n[1] = g[Len(g)] + 1
              /\ n[1] = 0 => Len(n) >= 2 /\ n[2] > g[Len(g)] + 1
    PROVE Ordered(g \o n)
<1> DEFINE p == Len(g)
           q == Len(n)
           h == g \o n
<1>1. /\ p \in Nat /\ q \in Nat /\ Len(h) = p + q /\ h \in Seq(Nat)
      /\ \A j \in 1..p + q : h[j] = IF j <= p THEN g[j] ELSE n[j - p]
  BY Joined
<1>2. \A j \in 1..p : g[j] \in Nat /\ h[j] = g[j]
  <2>1. \A j \in 1..p : g[j] \in Nat
    OBVIOUS
  <2> HIDE DEF p, q, h
  <2> QED
    BY <1>1, <2>1
<1>3. \A j \in (p+1)..(p+q) : h[j] = n[j - p]
  <2> HIDE DEF p, q, h
  <2> TAKE j \in (p+1)..(p+q)
  <2>1. j \in 1..p + q /\ ~(j <= p)
    BY <1>1
  <2> QED
    BY <1>1, <2>1
<1>4. /\ \A i \in 2..p : g[i] # 0 /\ g[i-1] # 0 => g[i] = g[i-1] + 1
      /\ \A i \in 2..p - 1 : g[i] = 0 => g[i+1] > g[i-1] + 1
      /\ \A i \in 2..q : n[i] # 0 /\ n[i-1] # 0 => n[i] = n[i-1] + 1
      /\ \A i \in 2..q - 1 : n[i] = 0 => n[i+1] > n[i-1] + 1
  BY DEF Ordered
<1>5. p > 0 /\ q > 0 =>
              /\ g[p] # 0
              /\ n[1] # 0 => n[1] = g[p] + 1
              /\ n[1] = 0 => q >= 2 /\ n[2] > g[p] + 1
  OBVIOUS
<1>6. (Ordered(h) <=> /\ \A i \in 2..Len(h) : h[i] # 0 /\ h[i-1] # 0 => h[i] = h[i-1] + 1
                      /\ \A i \in 2..Len(h) - 1 : h[i] = 0 => h[i+1] > h[i-1] + 1)
  BY DEF Ordered
<1> HIDE DEF p, q, h
<1>7. ASSUME NEW i \in 2..p + q, h[i] # 0, h[i-1] # 0 PROVE h[i] = h[i-1] + 1
  <2>1. CASE i <= p
    <3>1. h[i] = g[i] /\ h[i-1] = g[i-1] /\ i \in 2..p
      BY <1>1, <1>2, <2>1
    <3> QED
      BY <1>4, <1>7, <3>1
  <2>2. CASE i = p + 1
    <3>1. h[i] = n[1] /\ h[i-1] = g[p] /\ p > 0 /\ q > 0 /\ g[p] \in Nat
      BY <1>1, <1>2, <1>3, <2>2
    <3> QED
      BY <1>1, <1>5, <1>7, <3>1
  <2>3. CASE i > p + 1
    <3> DEFINE k == i - p
    <3>1. h[i] = n[k] /\ i - 1 - p = k - 1 /\ k \in 2..q
      BY <1>1, <1>3, <2>3
    <3>2. h[i-1] = n[k-1]
      BY <1>1, <1>3, <2>3, <3>1
    <3> HIDE DEF k
    <3> QED
      BY <1>4, <1>7, <3>1, <3>2
  <2> QED
    BY <1>1, <2>1, <2>2, <2>3
<1>8. ASSUME NEW i \in 2..p + q - 1, h[i] = 0 PROVE h[i+1] > h[i-1] + 1
  <2>1. CASE i < p
    <3>1. h[i] = g[i] /\ h[i-1] = g[i-1] /\ h[i+1] = g[i+1] /\ i \in 2..p - 1
      BY <1>1, <1>2, <2>1
    <3> QED
      BY <1>4, <1>8, <3>1
  <2>2. CASE i = p
    <3>1. h[i] = g[p] /\ p > 0 /\ q > 0
      BY <1>1, <1>2, <2>2
    <3> QED
      BY <1>1, <1>5, <1>8, <3>1
  <2>3. CASE i = p + 1
    <3>1. h[i] = n[1] /\ h[i-1] = g[p] /\ p > 0 /\ q > 0 /\ g[p] \in Nat
      BY <1>1, <1>2, <1>3, <2>3
    <3>2. i + 1 - p = 2 /\ i + 1 \in (p+1)..(p+q)
      BY <1>1, <2>3
    <3>3. h[i+1] = n[2]
      BY <1>1, <1>3, <3>2
    <3> QED
      BY <1>1, <1>5, <1>8, <3>1, <3>3
  <2>4. CASE i > p + 1
    <3> DEFINE k == i - p
    <3>1. h[i] = n[k] /\ i - 1 - p = k - 1 /\ i + 1 - p = k + 1 /\ k \in 2..q - 1
      BY <1>1, <1>3, <2>4
    <3>2. h[i-1] = n[k-1]
      BY <1>1, <1>3, <2>4, <3>1
    <3>3. h[i+1] = n[k+1]
      BY <1>1, <1>3, <2>4, <3>1
    <3> HIDE DEF k
    <3> QED
      BY <1>4, <1>8, <3>1, <3>2, <3>3
  <2> QED
    BY <1>1, <2>1, <2>2, <2>3, <2>4
<1>9. Ordered(h)
  BY <1>1, <1>6, <1>7, <1>8
<1> QED
  BY <1>9 DEF h

\* What is written to its connection comes after what it has.
Follows(new) ==
    /\ Ordered(new)
    /\ last # None =>
          /\ new[1] # 0 => new[1] = last.seq + 2
          /\ new[1] = 0 => Len(new) >= 2 /\ new[2] > last.seq + 2

\* It is read, and is what the client goes on from.
LEMMA WriteFollows ==
    ASSUME Reads, NEW T, NEW r \in Seq(T), r # <<>>,
           \A i \in DOMAIN r : r[i].stream \in {0, -1} /\ r[i].msg \in Nat,
           NEW b \in 1..MaxPush, r[Len(r)] = PushEvent(b),
           Follows([i \in 1..Len(r) |-> r[i].msg]), None \notin Id, Write(cur, r)
    PROVE Reads' /\ last' # None /\ last'.seq + 1 = b
<1> DEFINE new == [i \in 1..Len(r) |-> r[i].msg]
<1>1. got' = got \o new /\ last' = [stream |-> r[Len(r)].stream, seq |-> r[Len(r)].seq]
  BY WriteAll
<1>2. new \in Seq(Nat) /\ Len(new) = Len(r) /\ Len(r) \in Nat /\ Len(r) > 0 /\ new[Len(r)] = b
  <2>1. DOMAIN r = 1..Len(r) /\ Len(r) \in Nat /\ Len(r) > 0 /\ r[Len(r)].msg = b
    BY DEF PushEvent
  <2> QED
    BY <2>1
<1>3. last' = [stream |-> 0, seq |-> b - 1]
  BY <1>1 DEF PushEvent
<1>4. last' # None
  <2>1. last' \in Id
    BY <1>3, StreamAssumption DEF Id
  <2> QED
    BY <2>1
<1>5. Ordered(got) /\ got \in Seq(Nat) /\ Len(got) \in Nat
  BY DEF Reads, Ordered, ReplayIsComplete
<1>6. got # <<>> => last # None /\ got[Len(got)] = last.seq + 1 /\ last.seq \in Nat
  BY DEF Reads
<1>7. Follows(new)
  OBVIOUS
<1> HIDE DEF new
<1>8. Ordered(got')
  <2>1. got # <<>> /\ new # <<>> =>
              /\ got[Len(got)] # 0
              /\ new[1] # 0 => new[1] = got[Len(got)] + 1
              /\ new[1] = 0 => Len(new) >= 2 /\ new[2] > got[Len(got)] + 1
    BY <1>6, <1>7 DEF Follows
  <2>2. Ordered(new)
    BY <1>7 DEF Follows
  <2> QED
    BY <1>1, <1>2, <1>5, <2>1, <2>2, OrderedJoin
<1>9. got' \in Seq(Nat) /\ got' # <<>> /\ got'[Len(got')] = b
  <2>1. /\ got' \in Seq(Nat) /\ Len(got') = Len(got) + Len(new)
        /\ \A j \in 1..Len(got) + Len(new) :
              got'[j] = IF j <= Len(got) THEN got[j] ELSE new[j - Len(got)]
    BY <1>1, <1>2, <1>5, Joined
  <2> DEFINE j == Len(got) + Len(new)
  <2>2. j \in 1..Len(got) + Len(new) /\ ~(j <= Len(got)) /\ j - Len(got) = Len(new) /\ j > 0
    BY <1>2, <1>5
  <2> HIDE DEF j
  <2>3. got'[j] = b
    BY <1>2, <2>1, <2>2
  <2> QED
    BY <1>2, <1>5, <2>1, <2>3 DEF j
<1>10. last'.stream = 0 /\ last'.seq \in Nat /\ b = last'.seq + 1
  BY <1>3
<1>11. ReplayIsComplete'
  BY <1>8 DEF Ordered, ReplayIsComplete
<1> QED
  BY <1>4, <1>9, <1>10, <1>11 DEF Reads

\* Nothing is written.
LEMMA WriteNone ==
    ASSUME Write(cur, <<>>), Reads
    PROVE UNCHANGED <<got, last>>
<1> DEFINE e == <<>>
           new == [i \in 1..Len(e) |-> e[i].msg]
<1>1. e \in Seq(Nat) /\ Len(e) = 0 /\ DOMAIN e = {} /\ Write(cur, e) /\ e = <<>>
  BY EmptySeq
<1> HIDE DEF e
<1>2. got' = got \o new /\ UNCHANGED last
  BY <1>1, WriteAll
<1>3. new = <<>>
  BY <1>1
<1> HIDE DEF new
<1> QED
  BY <1>2, <1>3 DEF Reads

\* The notifications from a to b follow what it has.
LEMMA WriteRun ==
    ASSUME Reads, NEW a \in Nat \ {0}, NEW b \in 0..MaxPush, a <= b + 1,
           last # None => a = last.seq + 2, Write(cur, Run(a, b)), None \notin Id
    PROVE /\ Reads'
          /\ IF a = b + 1 THEN UNCHANGED <<got, last>> ELSE last' # None /\ last'.seq + 1 = b
<1> DEFINE r == Run(a, b)
           T == Event \cup {PushEvent(k) : k \in Nat}
           new == [i \in 1..Len(r) |-> r[i].msg]
<1>0. b \in Nat
  OBVIOUS
<1>1. /\ r \in Seq(T) /\ Len(r) = b - a + 1
      /\ DOMAIN r = 1..(b - a + 1)
      /\ \A i \in 1..(b - a + 1) : /\ r[i] = PushEvent(a + i - 1)
                                   /\ r[i].stream = 0 /\ r[i].seq = a + i - 2 /\ r[i].msg = a + i - 1
      /\ r = <<>> <=> a = b + 1
  BY <1>0, RunIs
<1>2. CASE a = b + 1
  <2>1. UNCHANGED <<got, last>>
    BY <1>1, <1>2, WriteNone
  <2> QED
    BY <1>2, <2>1 DEF Reads, ReplayIsComplete
<1>3. CASE a # b + 1
  <2> HIDE DEF r, T
  <2>1. Len(r) \in Nat /\ Len(r) > 0 /\ a + Len(r) - 1 = b /\ b \in 1..MaxPush
    BY <1>0, <1>1, <1>3
  <2>2. r[Len(r)] = PushEvent(b)
    BY <1>1, <2>1
  <2>3. \A i \in DOMAIN r : r[i].stream \in {0, -1} /\ r[i].msg \in Nat
    BY <1>0, <1>1
  <2>4. new \in Seq(Nat) /\ Len(new) = Len(r) /\ \A i \in 1..Len(r) : new[i] = a + i - 1
    BY <1>0, <1>1
  <2> HIDE DEF new
  <2>5. Ordered(new)
    <3> HIDE DEF new
    <3>1. \A i \in 2..Len(new) : new[i] = a + i - 1 /\ new[i-1] = a + (i - 1) - 1 /\ a + i - 1 # 0
      BY <2>1, <2>4
    <3> QED
      BY <2>1, <2>4, <3>1 DEF Ordered
  <2>6. new[1] = a
    BY <2>1, <2>4
  <2>7. Follows(new)
    BY <2>5, <2>6 DEF Follows
  <2> QED
    BY <1>1, <1>3, <2>1, <2>2, <2>3, <2>7, WriteFollows DEF r, new
<1> QED
  BY <1>2, <1>3

\* A warning and then the notifications from a to b follow what it has, if one is missing.
LEMMA WriteGap ==
    ASSUME Reads, last # None, NEW a \in Nat, NEW b \in 0..MaxPush, a <= b,
           a > last.seq + 2, Write(cur, <<Gap>> \o Run(a, b)), None \notin Id
    PROVE Reads' /\ last' # None /\ last'.seq + 1 = b
<1> DEFINE T == Event \cup {PushEvent(k) : k \in Nat} \cup {Gap}
           r == <<Gap>> \o Run(a, b)
           new == [i \in 1..Len(r) |-> r[i].msg]
<1>1. a \in Nat \ {0} /\ b \in Nat /\ b \in 1..MaxPush /\ a <= b + 1
  BY DEF Reads
<1>2. /\ Run(a, b) \in Seq(T) /\ Len(Run(a, b)) = b - a + 1
      /\ \A i \in 1..(b - a + 1) : Run(a, b)[i] = PushEvent(a + i - 1)
  <2>1. \A i \in 1..(b - a + 1) : PushEvent(a + i - 1) \in T
    BY <1>1
  <2> QED
    BY <1>1, <2>1 DEF Run
<1>3. <<Gap>> \in Seq(T) /\ Len(<<Gap>>) = 1 /\ <<Gap>>[1] = Gap
  OBVIOUS
<1> HIDE DEF T
<1>4. /\ r \in Seq(T) /\ Len(r) = 1 + (b - a + 1)
      /\ \A j \in 1..1 + (b - a + 1) : r[j] = IF j <= 1 THEN <<Gap>>[j] ELSE Run(a, b)[j - 1]
  <2> DEFINE g == <<Gap>>
  <2> HIDE DEF g
  <2> QED
    BY <1>2, <1>3, Joined DEF g
<1> HIDE DEF r
<1>5. r[1] = Gap /\ \A j \in 2..Len(r) : r[j] = PushEvent(a + j - 2)
  <2>1. r[1] = Gap
    BY <1>1, <1>3, <1>4
  <2>2. ASSUME NEW j \in 2..Len(r) PROVE r[j] = PushEvent(a + j - 2)
    <3>1. j \in 1..1 + (b - a + 1) /\ ~(j <= 1) /\ j - 1 \in 1..(b - a + 1) /\ a + (j - 1) - 1 = a + j - 2
      BY <1>1, <1>4, <2>2
    <3> QED
      BY <1>2, <1>4, <3>1
  <2> QED
    BY <2>1, <2>2
<1>6. Len(r) \in Nat /\ Len(r) >= 2 /\ a + Len(r) - 2 = b
  BY <1>1, <1>4
<1>7. r[Len(r)] = PushEvent(b) /\ r # <<>> /\ DOMAIN r = 1..Len(r)
  BY <1>4, <1>5, <1>6
<1>8. /\ \A j \in DOMAIN r : r[j].stream \in {0, -1} /\ r[j].msg \in Nat
      /\ r[1].msg = 0 /\ \A j \in 2..Len(r) : r[j].msg = a + j - 2
  <2>1. r[1].stream = -1 /\ r[1].msg = 0
    BY <1>5 DEF Gap
  <2>2. \A j \in 2..Len(r) : r[j].stream = 0 /\ r[j].msg = a + j - 2 /\ a + j - 2 \in Nat
    <3> TAKE j \in 2..Len(r)
    <3>1. r[j] = PushEvent(a + j - 2) /\ a + j - 2 \in Nat
      BY <1>1, <1>5, <1>6
    <3> QED
      BY <3>1 DEF PushEvent
  <2>3. \A j \in DOMAIN r : j = 1 \/ j \in 2..Len(r)
    BY <1>6, <1>7
  <2> QED
    BY <2>1, <2>2, <2>3
<1>9. new \in Seq(Nat) /\ Len(new) = Len(r) /\ \A i \in 1..Len(r) : new[i] = r[i].msg
  BY <1>7, <1>8, <1>6
<1> HIDE DEF new
<1>10. new[1] = 0 /\ \A j \in 2..Len(r) : new[j] = a + j - 2
  BY <1>6, <1>8, <1>9
<1>11. Ordered(new)
  <2>1. \A i \in 2..Len(new) : new[i] # 0
    BY <1>1, <1>6, <1>9, <1>10
  <2>2. ASSUME NEW i \in 2..Len(new), new[i-1] # 0 PROVE new[i] = new[i-1] + 1
    <3>1. i # 2
      BY <1>10, <2>2
    <3> DEFINE k == i - 1
    <3>2. k \in 2..Len(r) /\ i \in 2..Len(r) /\ i = k + 1
      BY <1>6, <1>9, <3>1
    <3>3. new[i] = a + i - 2 /\ new[k] = a + k - 2
      BY <1>10, <3>2
    <3> QED
      BY <1>1, <1>6, <1>9, <3>2, <3>3
  <2> QED
    BY <1>6, <1>9, <2>1, <2>2 DEF Ordered
<1>12. Follows(new)
  <2>1. new[2] = a
    BY <1>1, <1>6, <1>10
  <2> QED
    BY <1>6, <1>9, <1>10, <1>11, <2>1 DEF Follows
<1> QED
  BY <1>1, <1>4, <1>7, <1>8, <1>12, WriteFollows DEF r, new

\* Where nothing is logged or delivered.
LEMMA LogSame ==
    ASSUME LogInv, UNCHANGED <<log, queue, bus, pushed>>
    PROVE LogInv' /\ \A n \in Node : Delivered(n)' = Delivered(n)
BY DEF LogInv, Delivered

\* Where nothing is read.
LEMMA ReadsSame ==
    ASSUME Reads, LastInv, UNCHANGED <<got, last>>, \A n \in Node : Delivered(n)' = Delivered(n)
    PROVE Reads' /\ LastInv'
BY DEF Reads, LastInv, ReplayIsComplete

\* The client's side and the record: nothing is written, logged or delivered.
LEMMA AsideReplay ==
    ASSUME ReplayInv, AttachedInv,
           Drop \/ Open \/ TouchRead \/ TouchWrite \/ Expire \/ (\E n \in Node : PushBegin(n))
             \/ UNCHANGED vars
    PROVE ReplayInv'
<1>1. UNCHANGED <<log, queue, bus, pushed, got, last, stream, pending>>
  BY DEF Drop, Open, Connect, TouchRead, TouchWrite, Expire, PushBegin, vars, session, local, pushing,
         client
<1>2. Reads' /\ LogInv' /\ LastInv' /\ PendingInv' /\ \A n \in Node : Delivered(n)' = Delivered(n)
  <2>1. LogInv' /\ \A n \in Node : Delivered(n)' = Delivered(n)
    BY <1>1, LogSame DEF ReplayInv
  <2>2. Reads' /\ LastInv'
    BY <1>1, <2>1, ReadsSame DEF ReplayInv
  <2>3. PendingInv'
    BY <1>1, <2>1 DEF ReplayInv, PendingInv
  <2> QED
    BY <2>1, <2>2, <2>3
<1>3. CASE Drop
  <2>1. cur' = None /\ UNCHANGED conn
    BY <1>3 DEF Drop
  <2>2. LiveInv' /\ KnownInv' /\ CatchInv'
    BY <1>1, <2>1 DEF ReplayInv, LiveInv, KnownInv, CatchInv
  <2> QED
    BY <1>2, <2>2 DEF ReplayInv
<1>4. ASSUME NEW c \in Conn, NEW n \in Node, Connect(c, n) PROVE ReplayInv'
  <2>1. /\ cur' = c /\ \A m \in Node : stream[m] # c
        /\ conn' = [conn EXCEPT ![c] = [pc |-> "checked", node |-> n, from |-> last, replay |-> <<>>]]
    BY <1>4 DEF Connect
  <2>2. /\ conn'[c] = [pc |-> "checked", node |-> n, from |-> last, replay |-> <<>>]
        /\ \A d \in Conn : d # c => conn'[d] = conn[d]
    BY <2>1, ConnUpdate DEF AttachedInv
  <2>3. LiveInv' /\ KnownInv' /\ CatchInv'
    BY <1>1, <2>1, <2>2 DEF ReplayInv, LiveInv, KnownInv, CatchInv
  <2> QED
    BY <1>2, <2>3 DEF ReplayInv
<1>5. CASE UNCHANGED <<cur, conn>>
  <2>1. cur # None => cur \in Conn /\ (conn[cur].pc # "idle" => conn[cur].node \in Node)
    BY DEF AttachedInv, Shape
  <2>2. LiveInv' /\ KnownInv'
    BY <1>1, <1>2, <1>5 DEF ReplayInv, LiveInv, KnownInv
  <2>3. CatchInv'
    BY <1>1, <1>2, <1>5, <2>1 DEF ReplayInv, CatchInv
  <2> QED
    BY <1>2, <2>2, <2>3 DEF ReplayInv
<1>6. TouchRead \/ TouchWrite \/ Expire \/ (\E n \in Node : PushBegin(n)) \/ UNCHANGED vars
         => UNCHANGED <<cur, conn>>
  BY DEF TouchRead, TouchWrite, Expire, PushBegin, vars, client
<1> QED
  BY <1>3, <1>4, <1>5, <1>6 DEF Open

\* What attachPushStream() and the close listener make of the connections.
LEMMA ListenIs ==
    ASSUME AttachedInv, NEW c \in Conn, conn[c].pc # "idle", NEW pc, Listen(c, pc)
    PROVE /\ cur # None => cur = c
          /\ \A d \in Conn : d # c => conn'[d] = conn[d]
          /\ conn'[c].from = None
          /\ conn'[c].pc \in {pc, "idle"} /\ (c = cur => conn'[c].pc = pc)
<1>1. cur # None => cur = c
  BY DEF AttachedInv, OneAtATime, Shape
<1>2. /\ conn'[c] = IF c = cur THEN [pc |-> pc, node |-> conn[c].node, from |-> None, replay |-> <<>>]
                    ELSE Idle
      /\ \A d \in Conn : d # c => conn'[d] = conn[d]
  BY ConnUpdate DEF Listen, AttachedInv
<1> QED
  BY <1>1, <1>2 DEF Idle

\* What a replay gives the client.
LEMMA WriteCatches ==
    ASSUME Reads, last # None, NEW b \in 0..MaxPush, NEW r, Catches(r, last.seq + 1, b),
           Write(cur, r)
    PROVE Reads' /\ last' # None /\ last'.seq + 1 = b
<1>1. last.seq \in Nat
  BY DEF Reads
<1>2. CASE last.seq + 1 <= b /\ r = Run(last.seq + 1 + 1, b)
  <2> DEFINE a == last.seq + 2
  <2>1. a \in Nat \ {0} /\ a <= b + 1 /\ a = last.seq + 2 /\ last.seq + 1 + 1 = a
    BY <1>1, <1>2
  <2>2. Write(cur, Run(a, b))
    BY <1>2, <2>1
  <2> HIDE DEF a
  <2>3. Reads' /\ (IF a = b + 1 THEN UNCHANGED <<got, last>> ELSE last' # None /\ last'.seq + 1 = b)
    BY <2>1, <2>2, IdAssumption, WriteRun
  <2>4. a = b + 1 => last.seq + 1 = b
    BY <1>1, <2>1
  <2> QED
    BY <2>3, <2>4
<1>3. ASSUME NEW a \in (last.seq + 1 + 2)..b, r = <<Gap>> \o Run(a, b)
      PROVE Reads' /\ last' # None /\ last'.seq + 1 = b
  <2>1. a \in Nat /\ a <= b /\ a > last.seq + 2
    BY <1>1, <1>3
  <2>2. Write(cur, <<Gap>> \o Run(a, b))
    BY <1>3
  <2> QED
    BY <2>1, <2>2, IdAssumption, WriteGap
<1> QED
  BY <1>2, <1>3 DEF Catches

\* What is true of the queue and of the number of notifications.
LEMMA Counts ==
    ASSUME TypeInv, LogInv, NEW n \in Node
    PROVE /\ pushed \in Nat /\ pushed <= MaxPush /\ Len(queue[n]) \in Nat
          /\ Delivered(n) \in 0..MaxPush /\ Delivered(n) <= pushed
          /\ queue[n] = <<>> => Delivered(n) = pushed
<1>1. pushed \in 0..MaxPush /\ queue[n] \in Seq(Event) /\ Len(queue[n]) <= pushed
  BY TypeParts DEF PushOK, LogInv
<1>2. Len(queue[n]) \in Nat /\ (queue[n] = <<>> => Len(queue[n]) = 0)
  BY <1>1
<1> QED
  BY <1>1, <1>2, StreamAssumption DEF Delivered

\* Without Last-Event-ID.
LEMMA AttachReplay ==
    ASSUME OneClientOneProcess, TypeInv, AttachedInv, ReplayInv, NEW c \in Conn, Attach(c)
    PROVE ReplayInv'
<1> DEFINE n == conn[c].node
<1>1. /\ conn[c].pc = "checked" /\ conn[c].from = None /\ n \in Node
      /\ cur # None => cur = c
      /\ Listen(c, "open") /\ stream' = [stream EXCEPT ![n] = c]
      /\ pending' = [pending EXCEPT ![n] = <<>>] /\ Write(c, pending[n])
      /\ UNCHANGED <<log, queue, bus, pushed, cur>>
  BY DEF Attach, AttachedInv, Shape, OneAtATime, pushing
<1>2. \A m \in Node : m = n
  BY <1>1 DEF OneClientOneProcess
<1>3. /\ \A d \in Conn : d # c => conn'[d] = conn[d]
      /\ conn'[c].from = None
      /\ conn'[c].pc \in {"open", "idle"} /\ (c = cur => conn'[c].pc = "open")
  BY <1>1, ListenIs
<1>4. LogInv' /\ \A m \in Node : Delivered(m)' = Delivered(m)
  BY <1>1, LogSame DEF ReplayInv
<1>5. stream'[n] = c /\ pending'[n] = <<>>
  BY <1>1, TypeParts DEF LocalOK
<1> HIDE DEF n
<1>6. CASE cur = c
  <2>1. last = None /\ c # None
    BY <1>1, <1>6, StreamAssumption DEF ReplayInv, CatchInv
  <2>2. Reads' /\ (last' # None => last'.seq + 1 = Delivered(n))
    <3> DEFINE b == Delivered(n)
    <3>1. b \in 0..MaxPush /\ b \in Nat
      BY <1>1, Counts, StreamAssumption DEF ReplayInv
    <3>2. CASE pending[n] = <<>>
      <4>1. Write(cur, <<>>)
        BY <1>1, <1>6, <3>2
      <4>2. UNCHANGED <<got, last>>
        BY <4>1, WriteNone DEF ReplayInv
      <4> QED
        BY <2>1, <4>2 DEF ReplayInv, Reads, ReplayIsComplete
    <3>3. CASE pending[n] # <<>>
      <4> DEFINE a == b - Len(pending[n]) + 1
      <4>1. pending[n] = Run(a, b) /\ Len(pending[n]) <= b
        BY <1>1, <2>1, <3>3 DEF ReplayInv, PendingInv, EndsAt
      <4>2. Len(pending[n]) \in Nat
        BY <1>1, TypeParts DEF LocalOK
      <4>3. Len(pending[n]) # 0
        BY <1>1, <3>3, TypeParts DEF LocalOK
      <4>4. a \in Nat \ {0} /\ a <= b + 1 /\ a # b + 1 /\ Write(cur, Run(a, b))
        BY <1>1, <1>6, <3>1, <4>1, <4>2, <4>3
      <4> HIDE DEF a, b
      <4>5. Reads' /\ last'.seq + 1 = b
        BY <2>1, <3>1, <4>4, IdAssumption, WriteRun DEF ReplayInv
      <4> QED
        BY <4>5 DEF b
    <3> QED
      BY <3>2, <3>3
  <2>3. LastInv' /\ LiveInv'
    <3>1. last' # None => last'.seq \in Nat
      BY <2>2 DEF Reads
    <3> QED
      BY <1>1, <1>2, <1>3, <1>4, <1>5, <1>6, <2>2, <3>1 DEF LastInv, LiveInv
  <2>4. PendingInv' /\ KnownInv' /\ CatchInv'
    <3>1. PendingInv' /\ CatchInv'
      BY <1>1, <1>2, <1>3, <1>5, <1>6 DEF PendingInv, CatchInv
    <3>2. KnownInv'
      BY <1>3, <2>1 DEF ReplayInv, KnownInv
    <3> QED
      BY <3>1, <3>2
  <2> QED
    BY <1>4, <2>2, <2>3, <2>4 DEF ReplayInv
<1>7. CASE cur # c
  <2>1. cur = None /\ UNCHANGED <<got, last>>
    BY <1>1, <1>7 DEF Write
  <2>2. Reads' /\ LastInv'
    BY <1>4, <2>1, ReadsSame DEF ReplayInv
  <2>3. LiveInv' /\ PendingInv' /\ KnownInv' /\ CatchInv'
    <3>1. LiveInv' /\ PendingInv' /\ CatchInv'
      BY <1>1, <1>2, <1>5, <2>1 DEF LiveInv, PendingInv, CatchInv
    <3>2. KnownInv'
      BY <1>3, <2>1 DEF ReplayInv, KnownInv
    <3> QED
      BY <3>1, <3>2
  <2> QED
    BY <1>4, <2>2, <2>3 DEF ReplayInv
<1> QED
  BY <1>6, <1>7

\* With Last-Event-ID the log gives the client what it misses.
LEMMA ResumeReplay ==
    ASSUME OneClientOneProcess, TypeInv, AttachedInv, ReplayInv, NEW c \in Conn, Resume(c)
    PROVE ReplayInv'
<1> DEFINE n == conn[c].node
           r == ReadAfter(log[n], conn[c].from)
           k == [pc |-> "replaying", node |-> n, from |-> conn[c].from, replay |-> r]
<1>1. /\ conn[c].pc = "checked" /\ conn[c].from # None /\ n \in Node
      /\ cur # None => cur = c
      /\ queue[n] = <<>>
      /\ UNCHANGED <<log, queue, bus, pushed, cur, stream, pending, got, last>>
  BY DEF Resume, AttachedInv, Shape, OneAtATime, pushing, local, client, OneClientOneProcess
<1>2. conn' = [conn EXCEPT ![c] = k]
  BY DEF Resume
<1> HIDE DEF k
<1>3. conn'[c] = k /\ \A d \in Conn : d # c => conn'[d] = conn[d]
  BY <1>2, ConnUpdate DEF AttachedInv
<1>4. LogInv' /\ \A m \in Node : Delivered(m)' = Delivered(m)
  BY <1>1, LogSame DEF ReplayInv
<1>5. Reads' /\ LastInv'
  BY <1>1, <1>4, ReadsSame DEF ReplayInv
<1>6. PendingInv'
  BY <1>1, <1>4 DEF ReplayInv, PendingInv
<1>7. LiveInv' /\ KnownInv'
  <2>1. last # None
    BY <1>1 DEF ReplayInv, KnownInv
  <2>2. cur # None => \A m \in Node : stream[m] # cur
    BY <1>1 DEF ReplayInv, LiveInv
  <2> QED
    BY <1>1, <2>1, <2>2 DEF LiveInv, KnownInv
<1>8. CatchInv'
  <2>1. CASE cur # c
    <3>1. cur = None
      BY <1>1, <2>1
    <3> QED
      BY <1>1, <3>1 DEF CatchInv
  <2>2. CASE cur = c
    <3>1. conn[c].from = last /\ last # None
      BY <1>1, <2>2, StreamAssumption DEF ReplayInv, CatchInv
    <3>2. last.stream = 0 /\ last.seq \in Nat /\ last.seq < pushed /\ pushed \in Nat
      <4>1. Delivered(n) = pushed /\ pushed \in Nat
        BY <1>1, Counts DEF ReplayInv
      <4> QED
        BY <1>1, <3>1, <4>1 DEF ReplayInv, Reads, LastInv
    <3>3. Catches(r, last.seq + 1, pushed)
      <4> DEFINE l == log[n]
                 len == Len(l.ring)
      <4>1. l.ring \in Seq(Event)
        BY <1>1, TypeParts DEF LogOK, LogSet
      <4>2. /\ len <= pushed /\ l.ring = Run(pushed - len + 1, pushed) /\ l.oldest = pushed - len
            /\ pushed # 0 => l.ring # <<>>
        BY <1>1 DEF ReplayInv, LogInv, Newest
      <4>3. len \in Nat /\ (pushed # 0 => len # 0)
        BY <4>1, <4>2
      <4>4. r = ReadAfter(l, last)
        BY <3>1
      <4> HIDE DEF l, len, r
      <4> QED
        BY <3>2, <4>2, <4>3, <4>4, ReadAfterCatches
    <3>4. pushed \in 0..Delivered(n)
      BY <1>1, <3>2, Counts DEF ReplayInv
    <3>5. conn'[cur].node = n /\ conn'[cur].from = last /\ conn'[cur].pc = "replaying"
          /\ conn'[cur].replay = r
      BY <1>3, <2>2, <3>1 DEF k
    <3> HIDE DEF n, r
    <3> QED
      BY <1>1, <1>4, <3>1, <3>3, <3>4, <3>5 DEF CatchInv
  <2> QED
    BY <2>1, <2>2
<1> QED
  BY <1>4, <1>5, <1>6, <1>7, <1>8 DEF ReplayInv

\* The replay is written, and the client is live unless its session has ended.
LEMMA GoReplay ==
    ASSUME OneClientOneProcess, TypeInv, AttachedInv, ReplayInv, NEW c \in Conn,
           GoLive(c) \/ GoAstray(c)
    PROVE ReplayInv'
<1> DEFINE n == conn[c].node
           pc == conn[c].pc
<1>1. /\ pc \in {"replaying", "orphaned"} /\ n \in Node
      /\ cur # None => cur = c
      /\ Write(c, conn[c].replay)
      /\ pc = "replaying" => Listen(c, "open") /\ stream' = [stream EXCEPT ![n] = c]
      /\ pc = "orphaned" => Listen(c, "stray") /\ UNCHANGED stream
      /\ UNCHANGED <<log, queue, bus, pushed, cur, pending>>
  BY DEF GoLive, GoAstray, AttachedInv, Shape, OneAtATime, pushing, local
<1>2. \A m \in Node : m = n
  BY <1>1 DEF OneClientOneProcess
<1>3. /\ \A d \in Conn : d # c => conn'[d] = conn[d]
      /\ conn'[c].from = None
      /\ conn'[c].pc \in {"open", "stray", "idle"}
      /\ c = cur /\ pc = "replaying" => conn'[c].pc = "open"
  BY <1>1, ListenIs
<1>4. LogInv' /\ \A m \in Node : Delivered(m)' = Delivered(m)
  BY <1>1, LogSame DEF ReplayInv
<1>5. last # None
  BY <1>1 DEF ReplayInv, KnownInv
<1>6. CASE cur = c
  <2> DEFINE r == conn[c].replay
  <2>1. PICK b \in 0..Delivered(n) :
           /\ Catches(r, last.seq + 1, b)
           /\ pc = "replaying" => b = pushed /\ queue[n] = <<>>
    BY <1>1, <1>6, StreamAssumption DEF ReplayInv, CatchInv
  <2>2. /\ b \in 0..MaxPush /\ b <= Delivered(n) /\ Delivered(n) \in Nat
        /\ pc = "replaying" => b = Delivered(n)
    BY <1>1, <2>1, Counts, StreamAssumption DEF ReplayInv
  <2>3. Reads' /\ last' # None /\ last'.seq + 1 = b
    <3> HIDE DEF r, n
    <3>1. Catches(r, last.seq + 1, b)
      BY <2>1
    <3>2. Write(cur, r)
      BY <1>1, <1>6 DEF r
    <3> QED
      BY <1>5, <2>2, <3>1, <3>2, WriteCatches DEF ReplayInv
  <2>4. last'.seq \in Nat
    BY <2>3 DEF Reads
  <2>5. LastInv'
    BY <1>2, <1>4, <2>2, <2>3, <2>4 DEF LastInv
  <2>6. LiveInv'
    <3>1. CASE pc = "replaying"
      BY <1>1, <1>2, <1>3, <1>4, <1>6, <2>2, <2>3, <3>1 DEF LiveInv
    <3>2. CASE pc = "orphaned"
      <4>1. \A m \in Node : stream[m] # cur
        BY <1>1, <1>5, <1>6, <3>2, StreamAssumption DEF ReplayInv, LiveInv
      <4> QED
        BY <1>1, <3>2, <4>1 DEF LiveInv
    <3> QED
      BY <1>1, <3>1, <3>2
  <2>7. PendingInv' /\ KnownInv' /\ CatchInv'
    BY <1>1, <1>3, <1>6, <2>3 DEF ReplayInv, PendingInv, KnownInv, CatchInv
  <2> QED
    BY <1>4, <2>3, <2>5, <2>6, <2>7 DEF ReplayInv
<1>7. CASE cur # c
  <2>1. cur = None /\ UNCHANGED <<got, last>>
    BY <1>1, <1>7 DEF Write
  <2>2. Reads' /\ LastInv'
    BY <1>4, <2>1, ReadsSame DEF ReplayInv
  <2>3. LiveInv' /\ PendingInv' /\ KnownInv' /\ CatchInv'
    BY <1>1, <1>5, <2>1 DEF ReplayInv, LiveInv, PendingInv, KnownInv, CatchInv
  <2> QED
    BY <1>4, <2>2, <2>3 DEF ReplayInv
<1> QED
  BY <1>6, <1>7

\* A stray stream, and the end of a connection.
LEMMA EndsReplay ==
    ASSUME OneClientOneProcess, TypeInv, AttachedInv, ReplayInv, NEW c \in Conn,
           Decline(c) \/ Close(c)
    PROVE ReplayInv'
<1>1. UNCHANGED <<log, queue, bus, pushed, cur, pending, got, last>>
  BY DEF Decline, Close, pushing, local, client
<1>2. LogInv' /\ \A m \in Node : Delivered(m)' = Delivered(m)
  BY <1>1, LogSame DEF ReplayInv
<1>3. Reads' /\ LastInv'
  BY <1>1, <1>2, ReadsSame DEF ReplayInv
<1>4. CASE Decline(c)
  <2>1. /\ conn[c].pc = "checked" /\ (cur # None => cur = c)
        /\ \A d \in Conn : d # c => conn'[d] = conn[d]
        /\ conn'[c].from = None /\ conn'[c].pc \in {"stray", "idle"}
        /\ UNCHANGED stream
    BY <1>4, ListenIs DEF Decline, local
  <2>2. PendingInv' /\ KnownInv' /\ CatchInv'
    BY <1>1, <1>2, <2>1 DEF ReplayInv, PendingInv, KnownInv, CatchInv
  <2>3. LiveInv'
    <3>1. cur # None => \A m \in Node : stream[m] # cur
      BY <2>1 DEF ReplayInv, LiveInv
    <3> QED
      BY <1>1, <2>1, <3>1 DEF LiveInv
  <2> QED
    BY <1>2, <1>3, <2>2, <2>3 DEF ReplayInv
<1>5. CASE Close(c)
  <2> DEFINE n == conn[c].node
  <2>1. /\ cur = None /\ n \in Node
        /\ conn' = [conn EXCEPT ![c] = Idle] /\ stream' = [stream EXCEPT ![n] = None]
    BY <1>1, <1>5 DEF Close, AttachedInv, Shape, OneAtATime
  <2>2. conn'[c] = Idle /\ \A d \in Conn : d # c => conn'[d] = conn[d]
    BY <2>1, ConnUpdate DEF AttachedInv
  <2>3. \A m \in Node : stream'[m] = None
    BY <2>1, TypeParts DEF OneClientOneProcess, LocalOK
  <2>4. LiveInv' /\ PendingInv' /\ KnownInv' /\ CatchInv'
    BY <1>1, <1>2, <2>1, <2>2, <2>3 DEF ReplayInv, LiveInv, PendingInv, KnownInv, CatchInv, Idle
  <2> QED
    BY <1>2, <1>3, <2>4 DEF ReplayInv
<1> QED
  BY <1>4, <1>5

\* The local state of the session is deleted.
LEMMA ReapReplay ==
    ASSUME OneClientOneProcess, TypeInv, AttachedInv, ReplayInv, NEW n \in Node, Reap(n)
    PROVE ReplayInv'
<1>1. /\ UNCHANGED <<log, queue, bus, pushed, got, last>>
      /\ stream' = [stream EXCEPT ![n] = None] /\ pending' = [pending EXCEPT ![n] = <<>>]
      /\ cur' = IF cur = stream[n] THEN None ELSE cur
      /\ conn' = [c \in Conn |->
            IF conn[c].pc = "replaying" /\ conn[c].node = n
              THEN [conn[c] EXCEPT !.pc = "orphaned"] ELSE conn[c]]
  BY DEF Reap, End, pushing
<1>2. LogInv' /\ \A m \in Node : Delivered(m)' = Delivered(m)
  BY <1>1, LogSame DEF ReplayInv
<1>3. Reads' /\ LastInv'
  BY <1>1, <1>2, ReadsSame DEF ReplayInv
<1>4. \A m \in Node : m = n /\ stream'[m] = None /\ pending'[m] = <<>>
  BY <1>1, TypeParts DEF OneClientOneProcess, LocalOK
<1>5. \A c \in Conn :
        \/ conn'[c] = conn[c] /\ ~(conn[c].pc = "replaying")
        \/ /\ conn[c].pc = "replaying"
           /\ conn'[c] = [pc |-> "orphaned", node |-> conn[c].node,
                          from |-> conn[c].from, replay |-> conn[c].replay]
  BY <1>1, <1>4 DEF Shape, AttachedInv
<1>6. LiveInv' /\ PendingInv' /\ KnownInv'
  BY <1>1, <1>4, <1>5 DEF ReplayInv, LiveInv, PendingInv, KnownInv
<1>7. CatchInv'
  <2> SUFFICES ASSUME cur' # None PROVE CatchInv'
    BY DEF CatchInv
  <2>1. cur' = cur /\ cur # None /\ cur \in Conn
    BY <1>1 DEF AttachedInv, Shape
  <2>2. conn[cur].pc \in {"replaying", "orphaned"} => conn[cur].node \in Node
    BY <2>1 DEF AttachedInv, Shape
  <2> QED
    BY <1>1, <1>2, <1>5, <2>1, <2>2 DEF ReplayInv, CatchInv
<1> QED
  BY <1>2, <1>3, <1>6, <1>7 DEF ReplayInv

\* append() of the next notification.
LEMMA LoggedRun ==
    ASSUME NEW l \in LogSet, NEW p \in Nat, NEW len \in Nat, len <= p, Newest(l, len, p)
    PROVE LET new == Logged(l, 0, p + 1)
              k == Len(new.ring)
          IN  k \in 1..(p + 1) /\ Newest(new, k, p + 1) /\ new.ring[k] = PushEvent(p + 1)
<1> DEFINE a == p - len + 1
           ring == Append(l.ring, [stream |-> 0, seq |-> l.next, msg |-> p + 1])
           added == [ring |-> ring, next |-> p + 1, oldest |-> p - len]
           new == Logged(l, 0, p + 1)
<1>1. a \in Nat \ {0} /\ a <= p + 1
  OBVIOUS
<1>2. ring = Run(a, p + 1)
  <2>1. [stream |-> 0, seq |-> l.next, msg |-> p + 1] = PushEvent(p + 1)
    BY DEF PushEvent, Newest
  <2>2. l.ring = Run(a, p)
    BY DEF Newest
  <2> HIDE DEF a
  <2> QED
    BY <1>1, <2>1, <2>2, RunAppend
<1>3. new = IF Len(ring) > MaxCount THEN Evicted(added) ELSE added
  <2> DEFINE q == l.next + 1
             x == [l EXCEPT !.ring = ring, !.next = q]
  <2>1. new = IF Len(x.ring) > MaxCount THEN Evicted(x) ELSE x
    BY Zenon DEF Logged
  <2>2. x = [ring |-> ring, next |-> q, oldest |-> l.oldest]
    <3>1. l = [ring |-> l.ring, next |-> l.next, oldest |-> l.oldest]
      BY DEF LogSet
    <3> HIDE DEF ring, q
    <3> QED
      BY <3>1, LogUpdate
  <2>3. x = added /\ x.ring = ring
    BY <2>2 DEF Newest
  <2> QED
    BY <2>1, <2>3, Zenon
<1> HIDE DEF new, ring
<1>4. \A d \in Nat : d \in 1..(p + 1) =>
         /\ Len(Run(d, p + 1)) = p + 1 - d + 1
         /\ Run(d, p + 1)[p + 1 - d + 1] = PushEvent(p + 1)
         /\ DOMAIN Run(d, p + 1) = 1..(p + 1 - d + 1)
         /\ \A i \in 1..(p + 1 - d + 1) : Run(d, p + 1)[i].stream = 0
                                          /\ Run(d, p + 1)[i].seq = d + i - 2
  <2> TAKE d \in Nat
  <2> SUFFICES ASSUME d \in 1..(p + 1)
               PROVE /\ Len(Run(d, p + 1)) = p + 1 - d + 1
                     /\ Run(d, p + 1)[p + 1 - d + 1] = PushEvent(p + 1)
                     /\ DOMAIN Run(d, p + 1) = 1..(p + 1 - d + 1)
                     /\ \A i \in 1..(p + 1 - d + 1) : Run(d, p + 1)[i].stream = 0
                                                      /\ Run(d, p + 1)[i].seq = d + i - 2
    OBVIOUS
  <2> DEFINE b == p + 1
             k == b - d + 1
  <2>1. d \in Nat \ {0} /\ b \in Nat /\ d <= b + 1 /\ k \in 1..(b - d + 1) /\ d + k - 1 = b
    OBVIOUS
  <2> HIDE DEF b, k
  <2>2. /\ Len(Run(d, b)) = b - d + 1
        /\ DOMAIN Run(d, b) = 1..(b - d + 1)
        /\ \A i \in 1..(b - d + 1) : /\ Run(d, b)[i] = PushEvent(d + i - 1)
                                     /\ Run(d, b)[i].stream = 0
                                     /\ Run(d, b)[i].seq = d + i - 2
    BY <2>1, RunIs
  <2>3. Run(d, b)[k] = PushEvent(b)
    BY <2>1, <2>2
  <2>4. Run(d, p + 1)[p + 1 - d + 1] = PushEvent(p + 1)
    BY <2>3 DEF b, k
  <2> QED
    BY <2>2, <2>4 DEF b
<1>5. a \in 1..(p + 1) /\ p + 1 - a + 1 = len + 1
  OBVIOUS
<1>6. Len(ring) = len + 1
  <2> HIDE DEF a
  <2> QED
    BY <1>2, <1>4, <1>5
<1>7. CASE ~(Len(ring) > MaxCount)
  <2>1. new.ring = Run(a, p + 1) /\ new.next = p + 1 /\ new.oldest = p - len /\ Len(new.ring) = len + 1
    BY <1>2, <1>3, <1>6, <1>7
  <2>2. p + 1 - Len(new.ring) + 1 = a /\ p + 1 - Len(new.ring) = p - len /\ Len(new.ring) \in 1..(p + 1)
    BY <2>1
  <2>3. Run(a, p + 1)[len + 1] = PushEvent(p + 1)
    <3> HIDE DEF a
    <3> QED
      BY <1>4, <1>5
  <2> HIDE DEF a
  <2>4. Newest(new, Len(new.ring), p + 1) /\ new.ring[Len(new.ring)] = PushEvent(p + 1)
    BY <2>1, <2>2, <2>3 DEF Newest
  <2> QED
    BY <2>2, <2>4 DEF new
<1>8. CASE Len(ring) > MaxCount
  <2> DEFINE rest == Tail(ring)
             pushes == {i \in DOMAIN rest : IsPush(rest[i])}
             out == Head(ring)
  <2>1. len >= 1 /\ a + 1 \in 1..(p + 1) /\ p + 1 - (a + 1) + 1 = len /\ a + 1 \in Nat
    BY <1>6, <1>8, StreamAssumption
  <2>2. out = PushEvent(a) /\ rest = Run(a + 1, p + 1)
    <3>1. a <= p + 1 /\ p + 1 \in Nat
      BY <1>1
    <3> HIDE DEF a
    <3> QED
      BY <1>1, <1>2, <3>1, RunTail
  <2>3. /\ Len(rest) = len /\ rest[len] = PushEvent(p + 1)
        /\ DOMAIN rest = 1..len /\ \A i \in 1..len : rest[i].stream = 0
        /\ rest[1].seq = a + 1 + 1 - 2
    <3> HIDE DEF a, rest
    <3>1. /\ Len(rest) = len /\ rest[len] = PushEvent(p + 1)
          /\ DOMAIN rest = 1..len /\ \A i \in 1..len : rest[i].stream = 0
                                                       /\ rest[i].seq = a + 1 + i - 2
      BY <1>4, <2>1, <2>2
    <3> QED
      BY <2>1, <3>1
  <2>4. pushes = 1..len
    <3>1. \A i \in DOMAIN rest : IsPush(rest[i])
      BY <2>3 DEF IsPush
    <3> HIDE DEF rest
    <3> QED
      BY <2>3, <3>1, Zenon
  <2>5. pushes # {} /\ Min(pushes) = 1
    <3>1. 1..len \in SUBSET Nat /\ 1..len # {} /\ 1 \in 1..len
      BY <2>1
    <3>2. Min(1..len) \in 1..len /\ Min(1..len) <= 1
      BY <3>1, MinOfNaturals
    <3>3. Min(1..len) = 1
      BY <3>2
    <3> HIDE DEF pushes
    <3> QED
      BY <2>4, <3>1, <3>3
  <2>6. IsPush(out) /\ out.seq = p - len
    BY <2>2 DEF PushEvent, IsPush
  <2> DEFINE o == IF ~IsPush(out) \/ (p - len # 0 /\ out.seq < p - len) THEN p - len
                  ELSE IF pushes = {} THEN 0 ELSE rest[Min(pushes)].seq
  <2>7. o = p - len + 1
    <3>1. o = rest[1].seq
      <4> HIDE DEF pushes, rest, out
      <4> QED
        BY <2>5, <2>6
    <3>2. a + 1 + 1 - 2 = p - len + 1
      OBVIOUS
    <3> QED
      BY <2>3, <3>1, <3>2
  <2>8. Evicted(added) = [ring |-> rest, next |-> p + 1, oldest |-> o]
    <3>1. Evicted(added) = [added EXCEPT !.ring = rest, !.oldest = o]
      BY Zenon DEF Evicted
    <3> HIDE DEF o, rest
    <3> QED
      BY <3>1
  <2>9. new = [ring |-> rest, next |-> p + 1, oldest |-> p - len + 1]
    BY <1>3, <1>8, <2>7, <2>8
  <2> HIDE DEF rest
  <2>10. Len(new.ring) = len /\ p + 1 - len + 1 = a + 1 /\ p + 1 - len = p - len + 1 /\ len \in 1..(p + 1)
    BY <2>1, <2>3, <2>9
  <2> HIDE DEF a
  <2>11. new.ring = Run(a + 1, p + 1) /\ new.next = p + 1 /\ new.oldest = p + 1 - len
         /\ new.ring[len] = PushEvent(p + 1)
    BY <2>2, <2>3, <2>9, <2>10
  <2>12. Newest(new, len, p + 1)
    BY <2>10, <2>11 DEF Newest
  <2> QED
    BY <2>10, <2>11, <2>12, Zenon DEF new
<1> QED
  BY <1>7, <1>8

\* A notification enters the log and the queue.
LEMMA PushLogReplay ==
    ASSUME OneClientOneProcess, TypeInv, AttachedInv, ReplayInv, NEW n \in Node, PushLog(n)
    PROVE ReplayInv'
<1> DEFINE l == Logged(log[n], 0, pushed + 1)
           len == Len(log[n].ring)
           d == Delivered(n)
<1>1. /\ log' = [log EXCEPT ![n] = l] /\ pushed' = pushed + 1
      /\ queue' = [queue EXCEPT ![n] = Append(@, l.ring[Len(l.ring)])]
      /\ ~\E c \in Conn : conn[c].pc = "replaying" /\ conn[c].node = n
      /\ UNCHANGED <<stream, pending, bus, conn, cur, last, got>>
  BY DEF PushLog, OneClientOneProcess, local, client
<1>2. \A m \in Node : m = n
  BY DEF OneClientOneProcess
<1>3. /\ Len(l.ring) \in 1..(pushed + 1)
      /\ Newest(l, Len(l.ring), pushed + 1)
      /\ l.ring[Len(l.ring)] = PushEvent(pushed + 1)
  <2>1. log[n] \in LogSet /\ pushed \in Nat
    BY TypeParts, StreamAssumption DEF LogOK, PushOK
  <2>2. len \in Nat
    BY <2>1 DEF LogSet
  <2>3. len <= pushed /\ Newest(log[n], len, pushed)
    BY DEF ReplayInv, LogInv
  <2> HIDE DEF len
  <2> QED
    BY <2>1, <2>2, <2>3, LoggedRun
<1> HIDE DEF l
<1>4. log'[n] = l /\ queue'[n] = Append(queue[n], PushEvent(pushed + 1))
  BY <1>1, <1>3, TypeParts DEF LogOK, PushOK
<1>5. /\ pushed \in Nat /\ Len(queue[n]) \in Nat /\ d \in Nat /\ d <= pushed
      /\ queue[n] \in Seq(Event) /\ queue[n] = Run(d + 1, pushed) /\ bus[n] = <<>>
  <2>1. queue[n] \in Seq(Event) /\ queue[n] = Run(d + 1, pushed) /\ bus[n] = <<>>
    BY TypeParts DEF PushOK, ReplayInv, LogInv
  <2> QED
    BY <2>1, Counts, StreamAssumption DEF ReplayInv
<1>6. Len(queue'[n]) = Len(queue[n]) + 1 /\ queue'[n] = Run(d + 1, pushed + 1)
  <2>1. Len(queue'[n]) = Len(queue[n]) + 1
    BY <1>4, <1>5
  <2>2. d + 1 \in Nat \ {0} /\ d + 1 <= pushed + 1
    BY <1>5
  <2> HIDE DEF d
  <2>3. Append(Run(d + 1, pushed), PushEvent(pushed + 1)) = Run(d + 1, pushed + 1)
    BY <1>5, <2>2, RunAppend
  <2> QED
    BY <1>4, <1>5, <2>1, <2>3
<1>7. Delivered(n)' = d
  <2>1. pushed \in Nat /\ Len(queue[n]) \in Nat
    BY <1>5
  <2>2. Len(queue'[n]) = Len(queue[n]) + 1 /\ pushed' = pushed + 1
    BY <1>1, <1>6
  <2> QED
    BY <2>1, <2>2 DEF Delivered
<1>8. LogInv'
  <2>1. Len(queue'[n]) <= pushed'
    BY <1>1, <1>5, <1>6 DEF Delivered
  <2>2. log'[n].ring # <<>>
    BY <1>3, <1>4
  <2>3. Len(log'[n].ring) <= pushed'
    BY <1>1, <1>3, <1>4, <1>5
  <2>4. log'[n] = l /\ pushed' = pushed + 1
    BY <1>1, <1>4
  <2>5. Newest(log'[n], Len(log'[n].ring), pushed')
    BY <1>3, <2>4, Zenon
  <2>6. queue'[n] = Run(Delivered(n)' + 1, pushed')
    <3> HIDE DEF d
    <3> QED
      BY <1>1, <1>6, <1>7
  <2>7. bus'[n] = <<>>
    BY <1>1, <1>5
  <2> QED
    BY <1>2, <2>1, <2>2, <2>3, <2>5, <2>6, <2>7, Zenon DEF LogInv
<1>9. \A m \in Node : Delivered(m)' = Delivered(m)
  BY <1>2, <1>7
<1>10. Reads' /\ LastInv'
  BY <1>1, <1>9, ReadsSame DEF ReplayInv
<1>11. LiveInv' /\ PendingInv' /\ KnownInv'
  BY <1>1, <1>9 DEF ReplayInv, LiveInv, PendingInv, KnownInv
<1>12. CatchInv'
  <2> SUFFICES ASSUME cur # None PROVE CatchInv'
    BY <1>1 DEF CatchInv
  <2>1. cur \in Conn /\ (conn[cur].pc # "idle" => conn[cur].node \in Node)
    BY DEF AttachedInv, Shape
  <2>2. conn[cur].pc # "replaying"
    BY <1>1, <1>2, <2>1
  <2> QED
    BY <1>1, <1>9, <2>1, <2>2 DEF ReplayInv, CatchInv
<1> QED
  BY <1>8, <1>10, <1>11, <1>12 DEF ReplayInv

\* Nobody is subscribed, and no request is answered as an event stream.
LEMMA NoBusNoReply ==
    ASSUME OneClientOneProcess, TypeInv, ReplayInv, NEW n \in Node
    PROVE ~BusDeliver(n) /\ ~Reply(n)
<1>1. bus[n] = <<>>
  BY DEF ReplayInv, LogInv
<1>2. replies \in 0..0
  BY TypeParts DEF OneClientOneProcess, PlainOK
<1> QED
  BY <1>1, <1>2 DEF BusDeliver, Reply, OneClientOneProcess

\* The buffer of a replica without a stream, one notification later.
LEMMA BufferedRun ==
    ASSUME NEW p \in Seq(Event), NEW d \in Nat, p # <<>> => EndsAt(p, d)
    PROVE EndsAt(Buffered(p, PushEvent(d + 1)), d + 1)
<1> DEFINE w == IF Len(p) >= BufferLimit THEN Tail(p) ELSE p
           len == Len(w)
           a == d - len + 1
           q == Append(w, PushEvent(d + 1))
<1>1. w \in Seq(Event) /\ len \in Nat /\ len <= d
  <2>1. w \in Seq(Event) /\ len \in Nat /\ len <= Len(p) /\ Len(p) \in Nat
    BY StreamAssumption
  <2>2. CASE p = <<>>
    <3>1. Len(p) = 0
      BY <2>2
    <3> HIDE DEF w, len
    <3> QED
      BY <2>1, <3>1
  <2>3. CASE p # <<>>
    <3>1. Len(p) <= d
      BY <2>3 DEF EndsAt
    <3> HIDE DEF w, len
    <3> QED
      BY <2>1, <3>1
  <2> QED
    BY <2>2, <2>3
<1>2. a \in Nat \ {0} /\ a <= d + 1
  <2> HIDE DEF len
  <2> QED
    BY <1>1
<1>3. w = Run(a, d)
  <2>1. CASE w = <<>>
    <3>1. len = 0
      BY <2>1
    <3>2. a = d + 1
      <4> HIDE DEF len
      <4> QED
        BY <3>1
    <3> HIDE DEF a, w
    <3> QED
      BY <1>2, <2>1, <3>2, RunIs
  <2>2. CASE w # <<>>
    <3>1. p # <<>> /\ Len(p) \in Nat /\ p \in Seq(Event)
      BY <2>2, StreamAssumption
    <3> DEFINE b == d - Len(p) + 1
    <3>2. p = Run(b, d) /\ b \in Nat \ {0}
      <4>1. p = Run(b, d) /\ Len(p) <= d
        BY <3>1 DEF EndsAt
      <4>2. b \in Nat \ {0}
        BY <3>1, <4>1
      <4> QED
        BY <4>1, <4>2
    <3>3. CASE w = p
      BY <3>2, <3>3
    <3>4. CASE w # p
      <4>1. w = Tail(p) /\ len = Len(p) - 1
        BY <3>1, <3>4
      <4>2. a = b + 1 /\ b <= d
        <5> HIDE DEF len
        <5> QED
          BY <1>1, <3>1, <4>1
      <4> HIDE DEF a, b, w
      <4> QED
        BY <3>2, <4>1, <4>2, RunTail
    <3> QED
      BY <3>3, <3>4
  <2> QED
    BY <2>1, <2>2
<1>4. q = Run(a, d + 1)
  <2> HIDE DEF a, w
  <2> QED
    BY <1>2, <1>3, RunAppend
<1>5. Len(q) = len + 1
  <2> HIDE DEF w
  <2> QED
    BY <1>1
<1>6. Buffered(p, PushEvent(d + 1)) = q
  BY Zenon DEF Buffered
<1> HIDE DEF q
<1>7. Len(q) <= d + 1 /\ d + 1 - Len(q) + 1 = a
  <2> HIDE DEF len
  <2> QED
    BY <1>1, <1>5
<1> HIDE DEF a, len
<1> QED
  BY <1>4, <1>6, <1>7 DEF EndsAt

\* A notification leaves the queue.
LEMMA DeliverReplay ==
    ASSUME OneClientOneProcess, TypeInv, AttachedInv, ReplayInv, NEW n \in Node, PushDeliver(n)
    PROVE ReplayInv'
<1> DEFINE d == Delivered(n)
           e == Head(queue[n])
<1>1. /\ queue[n] # <<>> /\ queue' = [queue EXCEPT ![n] = Tail(queue[n])]
      /\ UNCHANGED <<log, stream, pushed, conn, cur>>
  BY DEF PushDeliver
<1>2. \A m \in Node : m = n
  BY DEF OneClientOneProcess
<1>3. /\ pushed \in Nat /\ Len(queue[n]) \in Nat /\ d \in 0..MaxPush /\ d \in Nat /\ d <= pushed
  BY Counts, StreamAssumption DEF ReplayInv
<1>4. queue[n] \in Seq(Event) /\ queue[n] = Run(d + 1, pushed) /\ bus[n] = <<>>
  BY TypeParts DEF PushOK, ReplayInv, LogInv
<1>5. Len(queue[n]) # 0 /\ d + 1 <= pushed /\ d + 1 \in 0..MaxPush
  <2>1. Len(queue[n]) # 0
    BY <1>1, <1>4
  <2>2. pushed <= MaxPush
    BY Counts DEF ReplayInv
  <2> QED
    BY <1>3, <2>1, <2>2, StreamAssumption DEF Delivered
<1>6. e = PushEvent(d + 1) /\ Tail(queue[n]) = Run(d + 2, pushed)
  <2>1. d + 1 \in Nat \ {0} /\ d + 1 + 1 = d + 2
    BY <1>3
  <2> HIDE DEF d
  <2> QED
    BY <1>3, <1>4, <1>5, <2>1, RunTail
<1>7. queue'[n] = Tail(queue[n]) /\ Len(queue'[n]) = Len(queue[n]) - 1
  BY <1>1, <1>4, TypeParts DEF PushOK
<1>8. Delivered(n)' = d + 1
  <2>1. Len(queue'[n]) = Len(queue[n]) - 1 /\ pushed' = pushed
    BY <1>1, <1>7
  <2> QED
    BY <1>3, <2>1 DEF Delivered
<1>9. LogInv'
  <2>1. Len(queue'[n]) <= pushed'
    <3>1. Len(queue'[n]) = Len(queue[n]) - 1 /\ pushed' = pushed
      BY <1>1, <1>7
    <3>2. Len(queue[n]) \in Nat /\ Len(queue[n]) <= pushed /\ pushed \in Nat
      BY <1>3 DEF ReplayInv, LogInv
    <3> QED
      BY <3>1, <3>2
  <2>2. queue'[n] = Run(Delivered(n)' + 1, pushed')
    <3>1. d + 1 + 1 = d + 2 /\ pushed' = pushed
      BY <1>1, <1>3
    <3> HIDE DEF d
    <3> QED
      BY <1>6, <1>7, <1>8, <3>1
  <2>3. bus'[n] = <<>>
    <3>1. CASE stream[n] = None /\ Delivery = "pubsub"
      BY <3>1 DEF OneClientOneProcess
    <3>2. CASE ~(stream[n] = None /\ Delivery = "pubsub")
      <4>1. UNCHANGED bus
        BY <3>2, StreamAssumption, Zenon DEF PushDeliver, OneClientOneProcess
      <4> QED
        BY <1>4, <4>1
    <3> QED
      BY <3>1, <3>2
  <2>4. log' = log /\ pushed' = pushed
    BY <1>1
  <2> QED
    BY <1>2, <2>1, <2>2, <2>3, <2>4 DEF ReplayInv, LogInv
<1> HIDE DEF d, e
<1>11. cur # None => conn[cur].pc # "replaying" /\ (conn[cur].pc = "orphaned" => conn[cur].node = n)
  <2> SUFFICES ASSUME cur # None
               PROVE conn[cur].pc # "replaying" /\ (conn[cur].pc = "orphaned" => conn[cur].node = n)
    OBVIOUS
  <2>1. conn[cur].pc # "idle" => conn[cur].node = n
    BY <1>2 DEF AttachedInv, Shape
  <2> QED
    BY <1>1, <2>1 DEF ReplayInv, CatchInv
\* Where it is not read.
<1>12. UNCHANGED <<got, last>> => Reads' /\ LastInv' /\ CatchInv'
  <2> SUFFICES ASSUME UNCHANGED <<got, last>> PROVE Reads' /\ LastInv' /\ CatchInv'
    OBVIOUS
  <2>1. Reads'
    BY DEF ReplayInv, Reads, ReplayIsComplete
  <2>2. LastInv'
    <3>1. last # None => last.seq \in Nat /\ last.seq < d
      BY DEF ReplayInv, Reads, LastInv, d
    <3> QED
      BY <1>2, <1>3, <1>8, <3>1 DEF LastInv
  <2>3. CatchInv'
    <3> SUFFICES ASSUME cur # None PROVE CatchInv'
      BY <1>1 DEF CatchInv
    <3>1. conn[cur].pc = "checked" => conn[cur].from = last
      BY DEF ReplayInv, CatchInv
    <3>2. CASE conn[cur].pc = "orphaned"
      <4>1. /\ conn[cur].from = last /\ last # None
            /\ \E b \in 0..d : Catches(conn[cur].replay, last.seq + 1, b)
        BY <1>11, <3>2 DEF ReplayInv, CatchInv, d
      <4>2. 0..d \subseteq 0..Delivered(conn[cur].node)'
        BY <1>1, <1>3, <1>8, <1>11, <3>2
      <4> QED
        BY <1>1, <3>2, <4>1, <4>2 DEF CatchInv
    <3> QED
      BY <1>1, <1>11, <3>1, <3>2 DEF CatchInv
  <2> QED
    BY <2>1, <2>2, <2>3
<1>13. CASE stream[n] # None
  <2>1. Write(stream[n], <<e>>) /\ UNCHANGED <<pending, bus>>
    BY <1>13, Zenon DEF PushDeliver, e
  <2>2. <<e>> = Run(d + 1, d + 1)
    <3>1. PushEvent(d + 1) = Run(d + 1, d + 1)[1] /\ Run(d + 1, d + 1) = <<Run(d + 1, d + 1)[1]>>
      BY <1>3 DEF Run
    <3> QED
      BY <1>6, <3>1
  <2>3. CASE stream[n] = cur
    <3>1. last # None => last.seq + 1 = d
      BY <1>13, <2>3 DEF ReplayInv, LiveInv, d
    <3>2. last # None => last.seq \in Nat
      BY DEF ReplayInv, Reads
    <3> DEFINE a == d + 1
    <3>3. a \in Nat \ {0} /\ a \in 0..MaxPush /\ a <= a + 1 /\ a # a + 1 /\ (last # None => a = last.seq + 2)
      BY <1>3, <1>5, <3>1, <3>2
    <3>4. Write(cur, Run(a, a))
      BY <2>1, <2>2, <2>3
    <3> HIDE DEF a
    <3>5. Reads' /\ last' # None /\ last'.seq + 1 = a
      BY <3>3, <3>4, IdAssumption, WriteRun DEF ReplayInv
    <3>6. last'.seq \in Nat /\ last'.seq + 1 = d + 1
      BY <3>5 DEF Reads, a
    <3>7. LastInv'
      BY <1>2, <1>3, <1>8, <3>6 DEF LastInv
    <3>8. LiveInv'
      BY <1>1, <1>2, <1>8, <1>13, <2>3, <3>6 DEF ReplayInv, LiveInv
    <3>9. PendingInv' /\ KnownInv'
      BY <2>1, <3>5 DEF ReplayInv, PendingInv, KnownInv
    <3>10. CatchInv'
      <4>1. conn[cur].pc = "open"
        BY <1>13, <2>3 DEF ReplayInv, LiveInv
      <4> QED
        BY <1>1, <4>1 DEF CatchInv
    <3> QED
      BY <1>9, <3>5, <3>7, <3>8, <3>9, <3>10 DEF ReplayInv
  <2>4. CASE stream[n] # cur
    <3>1. UNCHANGED <<got, last>>
      BY <2>1, <2>4 DEF Write
    <3>2. LiveInv'
      BY <1>1, <1>2, <2>4 DEF LiveInv
    <3>3. PendingInv' /\ KnownInv'
      BY <1>1, <1>2, <1>13, <2>1, <3>1 DEF ReplayInv, PendingInv, KnownInv
    <3> QED
      BY <1>9, <1>12, <3>1, <3>2, <3>3 DEF ReplayInv
  <2> QED
    BY <2>3, <2>4
<1>14. CASE stream[n] = None
  <2>1. UNCHANGED <<got, last>>
    BY <1>14, StreamAssumption DEF PushDeliver, Deliveries
  <2>2. LiveInv' /\ KnownInv'
    BY <1>1, <1>2, <1>14, <2>1 DEF ReplayInv, LiveInv, KnownInv
  <2>3. PendingInv'
    <3>1. CASE Delivery = "publish"
      <4>1. UNCHANGED pending
        BY <1>14, <3>1 DEF PushDeliver
      <4> QED
        BY <1>2, <3>1, <4>1 DEF ReplayInv, PendingInv
    <3>2. CASE Delivery = "buffer"
      <4>1. pending' = [pending EXCEPT ![n] = Buffered(pending[n], e)]
        BY <1>14, <3>2 DEF PushDeliver, e
      <4>2. pending'[n] = Buffered(pending[n], PushEvent(d + 1)) /\ pending[n] \in Seq(Event)
        BY <1>6, <4>1, TypeParts DEF LocalOK
      <4>3. last = None => EndsAt(pending'[n], d + 1)
        <5> SUFFICES ASSUME last = None PROVE EndsAt(pending'[n], d + 1)
          OBVIOUS
        <5>1. pending[n] # <<>> => EndsAt(pending[n], d)
          BY DEF ReplayInv, PendingInv, d
        <5> QED
          BY <1>3, <4>2, <5>1, BufferedRun
      <4>4. Delivery # "publish"
        BY <3>2
      <4>5. stream'[n] = None
        BY <1>1, <1>14
      <4> QED
        <5>1. last' = last
          BY <2>1
        <5>2. last' = None => EndsAt(pending'[n], Delivered(n)')
          BY <1>8, <4>3, <5>1, Zenon
        <5> QED
          BY <1>2, <4>4, <4>5, <5>2, Zenon DEF PendingInv, EndsAt
    <3> QED
      BY <3>1, <3>2 DEF OneClientOneProcess
  <2> QED
    BY <1>9, <1>12, <2>1, <2>2, <2>3 DEF ReplayInv
<1> QED
  BY <1>13, <1>14

\* Before the client connects.
LEMMA ReplayInvInit ==
    ASSUME Init
    PROVE ReplayInv
<1> USE DEF Init
<1>1. Run(1, 0) = <<>>
  <2>1. 1 \in Nat \ {0} /\ 0 \in Nat /\ 1 <= 0 + 1 /\ 1 = 0 + 1
    OBVIOUS
  <2> QED
    BY <2>1, RunIs
<1>2. Len(<<>>) = 0 /\ 0 - 0 + 1 = 1 /\ 0 - 0 = 0
  OBVIOUS
<1>3. \A n \in Node : log[n] = EmptyLog /\ queue[n] = <<>> /\ bus[n] = <<>> /\ pending[n] = <<>>
  OBVIOUS
<1>4. LogInv
  <2>1. \A n \in Node : Delivered(n) = 0
    BY <1>2, <1>3 DEF Delivered
  <2>2. \A n \in Node : Newest(log[n], Len(log[n].ring), pushed)
    BY <1>1, <1>2, <1>3 DEF Newest, EmptyLog
  <2> QED
    BY <1>1, <1>2, <1>3, <2>1, <2>2 DEF EmptyLog, LogInv
<1>5. Reads
  BY EmptySeq DEF Reads, ReplayIsComplete
<1>6. LastInv /\ LiveInv /\ PendingInv /\ KnownInv /\ CatchInv
  BY <1>3 DEF LastInv, LiveInv, PendingInv, KnownInv, CatchInv, Idle
<1> QED
  BY <1>4, <1>5, <1>6 DEF ReplayInv

\* Every step keeps it.
LEMMA ReplayInvKept ==
    ASSUME OneClientOneProcess, TypeInv, AttachedInv, ReplayInv, [Next]_vars
    PROVE ReplayInv'
<1>1. CASE Drop \/ Open \/ TouchRead \/ TouchWrite \/ Expire \/ UNCHANGED vars
  BY <1>1, AsideReplay
<1>2. ASSUME NEW c \in Conn, Opens(c) \/ Close(c) PROVE ReplayInv'
  BY <1>2, AttachReplay, ResumeReplay, GoReplay, EndsReplay DEF Opens
<1>3. ASSUME NEW n \in Node, Serve(n) PROVE ReplayInv'
  BY <1>3, AsideReplay, PushLogReplay, DeliverReplay, NoBusNoReply DEF Serve
<1>4. ASSUME NEW n \in Node, Terminate(n) \/ Reap(n) \/ Restart(n) PROVE ReplayInv'
  BY <1>4, ReapReplay DEF Terminate, Restart, OneClientOneProcess
<1> QED
  BY <1>1, <1>2, <1>3, <1>4 DEF Next

\* A client of one process that reconnects with Last-Event-ID (attachPushStream(), readAfter()
\* of MemoryEventStore) receives every notification after the first it received, once and in
\* order, through any number of lost connections, evictions from the log and expiries, except
\* where it is warned of a gap; and it is warned only where a notification is missing.
THEOREM ReplayIsCompleteAlways ==
    ASSUME OneClientOneProcess
    PROVE SessionSpec => []ReplayIsComplete
<1>1. "oldclose" \notin Allowed
  BY DEF OneClientOneProcess
<1>2. TypeInv /\ AttachedInv /\ ReplayInv /\ [Next]_vars => TypeInv' /\ AttachedInv' /\ ReplayInv'
  BY <1>1, TypeInvKept, AttachedInvKept, ReplayInvKept
<1>3. Init => TypeInv /\ AttachedInv /\ ReplayInv
  BY TypeInvInit, AttachedInvInit, ReplayInvInit
<1>4. ReplayInv => ReplayIsComplete
  BY DEF ReplayInv, Reads
<1> QED
  BY <1>2, <1>3, <1>4, PTL DEF SessionSpec
=============================================================================

----------------------------- MODULE Views_proofs -----------------------------
(***************************************************************************)
(* Proofs about what an audience sees: the subscription of the overlay     *)
(* page over any number of dropped connections and attempts to reconnect,  *)
(* the subscriptions of an output among any number of sockets that send    *)
(* any frame, and what the pages on those sockets show.                    *)
(***************************************************************************)
EXTENDS Views, Sequences, SequenceTheorems, TLAPS

(* What each state of the adapter says about the browser's socket, the     *)
(* timer and the heartbeat.                                                *)
SocketInv ==
  /\ attempts \in Nat
  /\ state = "connected" <=> sock = "open"
  /\ state = "connecting" <=> sock = "connecting"
  /\ state \in {"connected", "connecting"} => held
  /\ timer => state = "reconnecting"
  /\ state = "reconnecting" => sock = "none"
  /\ beats = IF sock = "open" THEN 1 ELSE 0
  /\ sock = "open" /\ tracked => subscribed
  /\ page = "mounted" => state = "disconnected" /\ sock = "none"

LEMMA SocketStarts == Init => SocketInv
  BY DEF Init, SocketInv

LEMMA SocketSteps == SocketInv /\ [Next]_(vars) => SocketInv'
<1> SUFFICES ASSUME SocketInv, [Next]_(vars) PROVE SocketInv'
  OBVIOUS
<1> USE DEF SocketInv
<1>1. CASE Mount
  BY <1>1 DEF Mount, Connects, CanConnect
<1>2. CASE OnOpen
  BY <1>2 DEF OnOpen, ResubscribeAll
<1>3. CASE SendSubscribe
  BY <1>3 DEF SendSubscribe
<1>4. CASE ConnectFails
  BY <1>4 DEF ConnectFails, OnClose, StopHeartbeat, AttemptReconnect
<1>5. CASE Drop
  BY <1>5 DEF Drop, OnClose, StopHeartbeat, AttemptReconnect
<1>6. CASE Closed
  BY <1>6 DEF Closed, OnClose, StopHeartbeat, AttemptReconnect
<1>7. CASE ReconnectTimer
  BY <1>7 DEF ReconnectTimer, Connects, CanConnect
<1>8. CASE Unmount
  BY <1>8 DEF Unmount
<1>9. CASE UNCHANGED vars
  BY <1>9 DEF vars
<1> QED  BY <1>1, <1>2, <1>3, <1>4, <1>5, <1>6, <1>7, <1>8, <1>9 DEF Next

(* SubscriptionSurvives: through any number of attempts and dropped        *)
(* connections, connected means subscribed, with one heartbeat.            *)
THEOREM ReconnectsResubscribe == Spec => []SubscriptionSurvives
<1>1. SocketInv => SubscriptionSurvives
  BY DEF SocketInv, SubscriptionSurvives, OneHeartbeat
<1> QED  BY <1>1, SocketStarts, SocketSteps, PTL DEF Spec

-----------------------------------------------------------------------------
(***************************************************************************)
(* The subscriptions of every kind of connection.                          *)
(***************************************************************************)
SubscriptionTypes ==
  /\ subs = [k \in Browser!Keys |-> subs[k]]
  /\ mine \in [Conns -> SUBSET Browser!Keys]
  /\ access \in [Conns -> Shows \cup {"pending", "studio"}]
  /\ cred \in Shows

SubscriptionInv == SubscriptionTypes /\ OutputsSeeOnlyTheirProgram

(* What a step does to the subscriptions of one connection, in both books. *)
Books(s, ks) ==
  /\ ks \subseteq Browser!Keys
  /\ mine' = [mine EXCEPT ![s] = ks]
  /\ subs' = [k \in Browser!Keys |-> IF k \in ks THEN subs[k] \cup {s} ELSE subs[k] \ {s}]

(* A connection becomes an output of a Show only with that Program, or     *)
(* with nothing.                                                           *)
Turns(s, ks, a) ==
  /\ Books(s, ks) /\ access' = [access EXCEPT ![s] = a]
  /\ a \in Shows \cup {"pending", "studio"}
  /\ a \in Shows => ks \subseteq {<<a, "program">>}
  /\ cred' \in Shows

LEMMA BooksKeep ==
  ASSUME SubscriptionInv, NEW s \in Conns, NEW ks, NEW a, Turns(s, ks, a)
  PROVE  SubscriptionInv'
<1>0. /\ Books(s, ks) /\ access' = [access EXCEPT ![s] = a] /\ cred' \in Shows
      /\ a \in Shows \cup {"pending", "studio"}
      /\ a \in Shows => ks \subseteq {<<a, "program">>}
  BY DEF Turns
<1>1. /\ mine' \in [Conns -> SUBSET Browser!Keys]
      /\ \A c \in Conns : mine'[c] = IF c = s THEN ks ELSE mine[c]
  BY <1>0 DEF SubscriptionInv, SubscriptionTypes, Books
<1>2. /\ access' \in [Conns -> Shows \cup {"pending", "studio"}]
      /\ \A c \in Conns : access'[c] = IF c = s THEN a ELSE access[c]
  BY <1>0 DEF SubscriptionInv, SubscriptionTypes
<1>3. subs' = [k \in Browser!Keys |-> subs'[k]]
  BY <1>0 DEF Books
<1>4. \A c \in Conns, k \in Browser!Keys : c \in subs'[k] <=> k \in mine'[c]
  BY <1>0, <1>1 DEF SubscriptionInv, OutputsSeeOnlyTheirProgram, Browser!OutputsSeeOnlyTheirProgram,
              Browser!SubscriptionsAgree, Books
<1>5. \A c \in Conns : access'[c] \in Shows => mine'[c] \subseteq {<<access'[c], "program">>}
  BY <1>0, <1>1, <1>2 DEF SubscriptionInv, OutputsSeeOnlyTheirProgram, Browser!OutputsSeeOnlyTheirProgram
<1> QED  BY <1>0, <1>1, <1>2, <1>3, <1>4, <1>5
         DEF SubscriptionInv, SubscriptionTypes, OutputsSeeOnlyTheirProgram,
             Browser!OutputsSeeOnlyTheirProgram, Browser!SubscriptionsAgree

\* Dropping keys of a connection is dropping them from both books.
LEMMA DropIsBooks ==
  ASSUME SubscriptionInv, NEW s \in Conns, NEW ks, Browser!Drop(s, ks)
  PROVE  Books(s, mine[s] \ ks)
<1>1. mine' = [mine EXCEPT ![s] = mine[s] \ ks] /\ mine[s] \subseteq Browser!Keys
  BY DEF Browser!Drop, SubscriptionInv, SubscriptionTypes
<1>2. subs' = [k \in Browser!Keys |-> IF k \in ks THEN subs[k] \ {s} ELSE subs[k]]
  BY DEF Browser!Drop
<1>3. ASSUME NEW k \in Browser!Keys
      PROVE  (IF k \in ks THEN subs[k] \ {s} ELSE subs[k])
               = IF k \in mine[s] \ ks THEN subs[k] \cup {s} ELSE subs[k] \ {s}
  <2>1. s \in subs[k] <=> k \in mine[s]
    BY DEF SubscriptionInv, OutputsSeeOnlyTheirProgram, Browser!OutputsSeeOnlyTheirProgram,
           Browser!SubscriptionsAgree
  <2> QED  BY <2>1
<1> QED  BY <1>1, <1>2, <1>3 DEF Books

\* The subscriptions, their keys and the credential are as they were, or a
\* connection that subscribed to nothing became something else.
LEMMA BooksUntouched ==
  ASSUME SubscriptionInv, UNCHANGED <<subs, mine>>, cred' \in Shows,
         \/ access' = access
         \/ \E s \in Conns, a \in {"pending", "studio"} : access' = [access EXCEPT ![s] = a]
  PROVE  SubscriptionInv'
<1>1. \A c \in Conns : access'[c] \in Shows => access'[c] = access[c]
  BY ViewsAssumption DEF SubscriptionInv, SubscriptionTypes, Browser!ChannelAssumption
<1>2. access' \in [Conns -> Shows \cup {"pending", "studio"}]
  BY DEF SubscriptionInv, SubscriptionTypes
<1> QED  BY <1>1, <1>2
         DEF SubscriptionInv, SubscriptionTypes, OutputsSeeOnlyTheirProgram,
             Browser!OutputsSeeOnlyTheirProgram, Browser!SubscriptionsAgree

LEMMA SubscriptionsStart == Browser!Init => SubscriptionInv
<1> SUFFICES ASSUME Browser!Init PROVE SubscriptionInv
  OBVIOUS
<1>1. /\ subs = [k \in Browser!Keys |-> {}] /\ mine = [s \in Conns |-> {}]
      /\ access = [s \in Conns |-> "pending"] /\ cred \in Shows
  BY DEF Browser!Init
<1> QED  BY <1>1 DEF SubscriptionInv, SubscriptionTypes, OutputsSeeOnlyTheirProgram,
                     Browser!OutputsSeeOnlyTheirProgram, Browser!SubscriptionsAgree

LEMMA FramesKeep ==
  ASSUME SubscriptionInv, NEW s \in Conns, Browser!Frame(s)
  PROVE  SubscriptionInv'
<1>1. cred' \in Shows
  BY DEF SubscriptionInv, SubscriptionTypes, Browser!Frame, Browser!auth
<1>2. access[s] \in Shows \cup {"pending", "studio"} /\ access = [access EXCEPT ![s] = access[s]]
  BY DEF SubscriptionInv, SubscriptionTypes
<1>3. ASSUME Browser!TearDown(s) PROVE Books(s, {})
  <2>1. Books(s, mine[s] \ mine[s])
    BY <1>3, DropIsBooks DEF Browser!TearDown
  <2> QED  BY <2>1 DEF Books
<1>4. CASE Browser!Unauthenticated(s)
  <2>1. access' = access
    BY <1>4 DEF Browser!Unauthenticated
  <2>2. CASE Browser!TearDown(s)
    <3>1. Turns(s, {}, access[s])
      BY <1>1, <1>2, <1>3, <2>1, <2>2 DEF Turns
    <3> QED  BY <3>1, BooksKeep
  <2>3. CASE UNCHANGED <<subs, ch, mine>>
    BY <1>1, <2>1, <2>3, BooksUntouched
  <2> QED  BY <1>4, <2>2, <2>3 DEF Browser!Unauthenticated
<1>5. CASE Browser!AuthenticateOutput(s)
  <2>1. CASE Browser!TearDown(s) /\ access' = [access EXCEPT ![s] = cred]
    <3>1. PICK a : a = cred
      OBVIOUS
    <3>2. a \in Shows \cup {"pending", "studio"} /\ (a \in Shows => {} \subseteq {<<a, "program">>})
      BY <3>1 DEF SubscriptionInv, SubscriptionTypes
    <3>3. Turns(s, {}, a)
      BY <1>1, <1>3, <2>1, <3>1, <3>2 DEF Turns
    <3> QED  BY <3>3, BooksKeep
  <2>2. CASE UNCHANGED <<subs, ch, mine, access, outputs>>
    BY <1>1, <2>2, BooksUntouched
  <2> QED  BY <1>5, <2>1, <2>2 DEF Browser!AuthenticateOutput
<1>6. ASSUME NEW k \in Browser!Keys, Browser!Subscribe(s, k) PROVE SubscriptionInv'
  <2>1. /\ subs' = [subs EXCEPT ![k] = subs[k] \cup {s}]
        /\ mine' = [mine EXCEPT ![s] = mine[s] \cup {k}] /\ access' = access
    BY <1>6 DEF Browser!Subscribe
  <2>2. mine[s] \subseteq Browser!Keys
    BY DEF SubscriptionInv, SubscriptionTypes
  <2>3. subs = [j \in Browser!Keys |-> subs[j]]
    BY DEF SubscriptionInv, SubscriptionTypes
  <2>4. subs' = [j \in Browser!Keys |-> IF j = k THEN subs[j] \cup {s} ELSE subs[j]]
    BY <2>1, <2>3
  <2>5. ASSUME NEW j \in Browser!Keys
        PROVE  (IF j = k THEN subs[j] \cup {s} ELSE subs[j])
                 = IF j \in mine[s] \cup {k} THEN subs[j] \cup {s} ELSE subs[j] \ {s}
    <3>1. s \in subs[j] <=> j \in mine[s]
      BY DEF SubscriptionInv, OutputsSeeOnlyTheirProgram, Browser!OutputsSeeOnlyTheirProgram,
             Browser!SubscriptionsAgree
    <3> QED  BY <3>1
  <2>6. Books(s, mine[s] \cup {k})
    BY <2>1, <2>2, <2>4, <2>5 DEF Books
  <2>7. access[s] \in Shows => mine[s] \cup {k} \subseteq {<<access[s], "program">>}
    <3>1. access[s] \in Shows => k = <<access[s], "program">>
      BY <1>6, ViewsAssumption DEF Browser!Subscribe, Browser!MaySubscribe, Browser!ChannelAssumption
    <3> QED  BY <3>1 DEF SubscriptionInv, OutputsSeeOnlyTheirProgram, Browser!OutputsSeeOnlyTheirProgram
  <2>8. Turns(s, mine[s] \cup {k}, access[s])
    BY <1>1, <1>2, <2>1, <2>6, <2>7 DEF Turns
  <2> QED  BY <2>8, BooksKeep
<1>7. ASSUME NEW k \in Browser!Keys, Browser!Unsubscribe(s, k) PROVE SubscriptionInv'
  <2>1. Books(s, mine[s] \ {k}) /\ access' = access
    BY <1>7, DropIsBooks DEF Browser!Unsubscribe
  <2>2. access[s] \in Shows => mine[s] \ {k} \subseteq {<<access[s], "program">>}
    BY DEF SubscriptionInv, OutputsSeeOnlyTheirProgram, Browser!OutputsSeeOnlyTheirProgram
  <2>3. Turns(s, mine[s] \ {k}, access[s])
    BY <1>1, <1>2, <2>1, <2>2 DEF Turns
  <2> QED  BY <2>3, BooksKeep
<1> QED  BY <1>4, <1>5, <1>6, <1>7 DEF Browser!Frame

LEMMA CloseKeeps ==
  ASSUME SubscriptionInv, NEW s \in Conns, Browser!CloseEvent(s)
  PROVE  SubscriptionInv'
<1>1. /\ Browser!Drop(s, mine[s]) /\ access' = [access EXCEPT ![s] = "pending"] /\ cred' = cred
  BY DEF Browser!CloseEvent, Browser!TearDown, Browser!auth
<1>2. Books(s, mine[s] \ mine[s])
  BY <1>1, DropIsBooks
<1>3. Books(s, {})
  BY <1>2 DEF Books
<1>4. Turns(s, {}, "pending")
  BY <1>1, <1>3 DEF Turns, SubscriptionInv, SubscriptionTypes
<1> QED  BY <1>4, BooksKeep

LEMMA OtherStepsKeep ==
  ASSUME SubscriptionInv,
         \/ UNCHANGED Browser!vars
         \/ \E c \in Channels, o \in Browser!Requests : Browser!Rest(c, o)
         \/ \E c \in Channels, a, b \in Browser!Actions : Browser!Dispatch(c, a, b)
         \/ Browser!DispatchAction \/ Browser!CollectionRead
         \/ \E k \in Shows \X Browser!Buses : Browser!PublishSnapshot(k)
         \/ \E s \in Conns : \/ \E cookie \in BOOLEAN : Browser!Connect(s, cookie)
                            \/ Browser!AuthenticationTimeout(s) \/ Browser!DeployFrame(s)
                            \/ Browser!SessionEnds(s)
         \/ \E w \in Shows : Browser!RotateCredential(w)
         \/ \E p \in Pages : Browser!Receive(p)
  PROVE  SubscriptionInv'
<1> USE DEF Browser!server, Browser!sockets, Browser!auth, Browser!pages, Browser!bounds
<1>1. UNCHANGED <<subs, mine>>
  BY DEF Browser!vars, Browser!Rest, Browser!Apply, Browser!Dispatch, Browser!DispatchAction,
         Browser!CollectionRead, Browser!PublishSnapshot, Browser!Connect, Browser!AuthenticationTimeout,
         Browser!DeployFrame, Browser!Deploy, Browser!SessionEnds, Browser!RotateCredential, Browser!Receive
<1>2. cred' \in Shows
  BY DEF SubscriptionInv, SubscriptionTypes, Browser!vars, Browser!Rest, Browser!Dispatch,
         Browser!DispatchAction, Browser!CollectionRead, Browser!PublishSnapshot, Browser!Connect,
         Browser!AuthenticationTimeout, Browser!DeployFrame, Browser!SessionEnds,
         Browser!RotateCredential, Browser!Receive
<1>3. \/ access' = access
      \/ \E s \in Conns, a \in {"pending", "studio"} : access' = [access EXCEPT ![s] = a]
  BY DEF Browser!vars, Browser!Rest, Browser!Dispatch, Browser!DispatchAction,
         Browser!CollectionRead, Browser!PublishSnapshot, Browser!Connect, Browser!AuthenticationTimeout,
         Browser!DeployFrame, Browser!Deploy, Browser!SessionEnds, Browser!RotateCredential, Browser!Receive
<1> QED  BY <1>1, <1>2, <1>3, BooksUntouched

(* An output is subscribed to the Program of the Show its credential was   *)
(* for and to nothing else, and what the handler has subscribed is what    *)
(* ChannelManager knows (Channels.OutputsSeeOnlyTheirProgram): for any     *)
(* number of sockets, whatever frames they send in whatever access they    *)
(* have, and whatever is closed, rotated or signed out meanwhile.          *)
THEOREM OutputsAreConfined == Browser!Spec => []OutputsSeeOnlyTheirProgram
<1>1. SubscriptionInv /\ [Browser!Next]_(Browser!vars) => SubscriptionInv'
  BY FramesKeep, CloseKeeps, OtherStepsKeep DEF Browser!Next
<1>2. SubscriptionInv => OutputsSeeOnlyTheirProgram
  BY DEF SubscriptionInv
<1> QED  BY <1>1, <1>2, SubscriptionsStart, PTL DEF Browser!Spec

-----------------------------------------------------------------------------
(***************************************************************************)
(* What a page shows: the messages on their way.                           *)
(***************************************************************************)

(* The views a page goes through while the messages of q arrive, from v    *)
(* on, and the one it arrives at.                                          *)
IsTrace(f, v, q) ==
  f = [n \in 0 .. Len(q) |-> IF n = 0 THEN v ELSE Browser!Shown(f[n - 1], q[n])]
Arrives(v, q, w) == \E f : IsTrace(f, v, q) /\ w = f[Len(q)]

IsQueue(q) == \E S : q \in Seq(S)

\* Seen from the end: a trace is one step after another.
LEMMA TraceIs ==
  ASSUME NEW q, IsQueue(q), NEW f, NEW v
  PROVE  IsTrace(f, v, q) <=>
           /\ f = [n \in 0 .. Len(q) |-> f[n]] /\ f[0] = v
           /\ \A n \in 1 .. Len(q) : f[n] = Browser!Shown(f[n - 1], q[n])
<1>1. Len(q) \in Nat
  BY DEF IsQueue
<1>2. ASSUME IsTrace(f, v, q)
      PROVE  /\ f = [n \in 0 .. Len(q) |-> f[n]] /\ f[0] = v
             /\ \A n \in 1 .. Len(q) : f[n] = Browser!Shown(f[n - 1], q[n])
  <2>1. \A n \in 0 .. Len(q) : f[n] = IF n = 0 THEN v ELSE Browser!Shown(f[n - 1], q[n])
    BY <1>2 DEF IsTrace
  <2>2. f = [n \in 0 .. Len(q) |-> f[n]]
    BY <1>2 DEF IsTrace
  <2> QED  BY <1>1, <2>1, <2>2
<1>3. ASSUME f = [n \in 0 .. Len(q) |-> f[n]], f[0] = v,
             \A n \in 1 .. Len(q) : f[n] = Browser!Shown(f[n - 1], q[n])
      PROVE  IsTrace(f, v, q)
  <2>1. \A n \in 0 .. Len(q) : f[n] = IF n = 0 THEN v ELSE Browser!Shown(f[n - 1], q[n])
    BY <1>1, <1>3
  <2> QED  BY <1>3, <2>1 DEF IsTrace
<1> QED  BY <1>2, <1>3

LEMMA ArrivesEmpty ==
  ASSUME NEW v, NEW w
  PROVE  Arrives(v, <<>>, w) <=> w = v
<1>1. Len(<<>>) = 0 /\ IsQueue(<<>>)
  <2>1. <<>> \in Seq({}) /\ Len(<<>>) = 0
    OBVIOUS
  <2> QED  BY <2>1 DEF IsQueue
<1>2. ASSUME NEW f, IsTrace(f, v, <<>>) PROVE f[0] = v
  BY <1>1, <1>2, TraceIs
<1>3. \E f : IsTrace(f, v, <<>>)
  <2> DEFINE f == [n \in 0 .. 0 |-> v]
  <2>1. f = [n \in 0 .. 0 |-> f[n]] /\ f[0] = v
    OBVIOUS
  <2> HIDE DEF f
  <2>2. IsTrace(f, v, <<>>)
    BY <1>1, <2>1, TraceIs
  <2> QED  BY <2>2
<1> QED  BY <1>1, <1>2, <1>3 DEF Arrives

LEMMA ArrivesAppend ==
  ASSUME NEW q, IsQueue(q), NEW m, NEW v, NEW w
  PROVE  /\ IsQueue(Append(q, m))
         /\ Arrives(v, Append(q, m), w) <=> \E u : Arrives(v, q, u) /\ w = Browser!Shown(u, m)
<1>1. PICK S : q \in Seq(S)
  BY DEF IsQueue
<1> DEFINE r == Append(q, m)
           len == Len(q)
<1>2. /\ len \in Nat /\ Len(r) = len + 1 /\ r[len + 1] = m
      /\ \A n \in 1 .. len : r[n] = q[n]
  BY <1>1
<1>3. IsQueue(r)
  <2>1. q \in Seq(S \cup {m})
    BY <1>1
  <2>2. r \in Seq(S \cup {m})
    BY <2>1
  <2> QED  BY <2>2 DEF IsQueue
<1> HIDE DEF r, len
<1>4. Len(q) = len
  BY DEF len
<1>5. ASSUME NEW f, IsTrace(f, v, r)
      PROVE  \E u : Arrives(v, q, u) /\ f[Len(r)] = Browser!Shown(u, m)
  <2>1. /\ f = [n \in 0 .. Len(r) |-> f[n]] /\ f[0] = v
        /\ \A n \in 1 .. Len(r) : f[n] = Browser!Shown(f[n - 1], r[n])
    BY <1>3, <1>5, TraceIs
  <2> DEFINE g == [n \in 0 .. len |-> f[n]]
  <2>2. /\ g = [n \in 0 .. len |-> g[n]] /\ g[0] = v
        /\ \A n \in 0 .. len : g[n] = f[n]
    BY <1>2, <2>1
  <2> HIDE DEF g
  <2>3. ASSUME NEW n \in 1 .. len
        PROVE  g[n] = Browser!Shown(g[n - 1], q[n])
    <3>1. n \in 0 .. len /\ n - 1 \in 0 .. len /\ n \in 1 .. Len(r)
      BY <1>2
    <3>2. g[n] = f[n] /\ g[n - 1] = f[n - 1] /\ r[n] = q[n]
      BY <1>2, <2>2, <3>1
    <3>3. f[n] = Browser!Shown(f[n - 1], r[n])
      BY <2>1, <3>1
    <3> QED  BY <3>2, <3>3
  <2>4. IsTrace(g, v, q)
    BY <1>4, <2>2, <2>3, TraceIs
  <2>5. f[Len(r)] = Browser!Shown(f[len], m)
    <3>1. len + 1 \in 1 .. Len(r) /\ (len + 1) - 1 = len /\ len \in 0 .. len
      BY <1>2
    <3>2. f[len + 1] = Browser!Shown(f[(len + 1) - 1], r[len + 1])
      BY <2>1, <3>1
    <3> QED  BY <1>2, <3>1, <3>2
  <2>6. g[len] = f[len]
    BY <1>2, <2>2
  <2> QED  BY <1>4, <2>4, <2>5, <2>6 DEF Arrives
<1>6. ASSUME NEW g, IsTrace(g, v, q)
      PROVE  Arrives(v, r, Browser!Shown(g[len], m))
  <2>1. /\ g = [n \in 0 .. len |-> g[n]] /\ g[0] = v
        /\ \A n \in 1 .. len : g[n] = Browser!Shown(g[n - 1], q[n])
    BY <1>4, <1>6, TraceIs
  <2> DEFINE f == [n \in 0 .. len + 1 |-> IF n = len + 1 THEN Browser!Shown(g[len], m) ELSE g[n]]
  <2>2. /\ f = [n \in 0 .. Len(r) |-> f[n]] /\ f[0] = v
        /\ f[len + 1] = Browser!Shown(g[len], m)
        /\ \A n \in 0 .. len : f[n] = g[n]
    BY <1>2, <2>1
  <2> HIDE DEF f
  <2>3. ASSUME NEW n \in 1 .. Len(r)
        PROVE  f[n] = Browser!Shown(f[n - 1], r[n])
    <3>1. CASE n = len + 1
      <4>1. (len + 1) - 1 = len /\ len \in 0 .. len
        BY <1>2
      <4> QED  BY <1>2, <2>2, <3>1, <4>1
    <3>2. CASE n # len + 1
      <4>1. n \in 1 .. len /\ n \in 0 .. len /\ n - 1 \in 0 .. len
        BY <1>2, <3>2
      <4>2. f[n] = g[n] /\ f[n - 1] = g[n - 1] /\ r[n] = q[n]
        BY <1>2, <2>2, <4>1
      <4>3. g[n] = Browser!Shown(g[n - 1], q[n])
        BY <2>1, <4>1
      <4> QED  BY <4>2, <4>3
    <3> QED  BY <3>1, <3>2
  <2>4. IsTrace(f, v, r)
    BY <1>3, <2>2, <2>3, TraceIs
  <2>5. f[Len(r)] = Browser!Shown(g[len], m)
    BY <1>2, <2>2
  <2> QED  BY <2>4, <2>5 DEF Arrives
<1> QED  BY <1>3, <1>4, <1>5, <1>6 DEF Arrives, r

LEMMA ArrivesTail ==
  ASSUME NEW q, IsQueue(q), q # <<>>, NEW v, NEW w
  PROVE  /\ IsQueue(Tail(q))
         /\ Arrives(Browser!Shown(v, Head(q)), Tail(q), w) <=> Arrives(v, q, w)
<1>0. ASSUME NEW f
      PROVE  IsTrace(f, v, q) <=>
               /\ f = [n \in 0 .. Len(q) |-> f[n]] /\ f[0] = v
               /\ \A n \in 1 .. Len(q) : f[n] = Browser!Shown(f[n - 1], q[n])
  BY TraceIs
<1>1. PICK S : q \in Seq(S)
  BY DEF IsQueue
<1> DEFINE r == Tail(q)
           len == Len(q)
           h == Browser!Shown(v, Head(q))
<1>2. /\ len \in Nat /\ len > 0 /\ Len(r) = len - 1
      /\ \A n \in 1 .. len - 1 : r[n] = q[n + 1]
      /\ r \in Seq(S)
  BY <1>1
<1>3. IsQueue(r)
  BY <1>2 DEF IsQueue
<1>4. h = Browser!Shown(v, q[1]) /\ Len(q) = len
  BY <1>1
<1> HIDE DEF r, len, h
<1>5. ASSUME NEW f, IsTrace(f, v, q)
      PROVE  Arrives(h, r, f[len])
  <2>1. /\ f[0] = v /\ \A n \in 1 .. len : f[n] = Browser!Shown(f[n - 1], q[n])
    BY <1>4, <1>5, TraceIs
  <2> DEFINE g == [n \in 0 .. len - 1 |-> f[n + 1]]
  <2>2. \A n \in 0 .. len - 1 : g[n] = f[n + 1]
    OBVIOUS
  <2>3. /\ g = [n \in 0 .. Len(r) |-> g[n]] /\ g[0] = h /\ g[len - 1] = f[len]
    BY <1>2, <1>4, <2>1
  <2> HIDE DEF g
  <2>4. ASSUME NEW n \in 1 .. Len(r)
        PROVE  g[n] = Browser!Shown(g[n - 1], r[n])
    <3>1. n \in 0 .. len - 1 /\ n - 1 \in 0 .. len - 1 /\ n + 1 \in 1 .. len /\ n \in 1 .. len - 1
          /\ (n + 1) - 1 = n /\ (n - 1) + 1 = n
      BY <1>2
    <3>2. g[n] = f[n + 1] /\ g[n - 1] = f[n] /\ r[n] = q[n + 1]
      BY <1>2, <2>2, <3>1
    <3>3. f[n + 1] = Browser!Shown(f[n], q[n + 1])
      BY <2>1, <3>1
    <3> QED  BY <3>2, <3>3
  <2>5. IsTrace(g, h, r)
    BY <1>3, <2>3, <2>4, TraceIs
  <2>6. g[Len(r)] = f[len]
    BY <1>2, <2>3
  <2> QED  BY <2>5, <2>6 DEF Arrives
<1>6. ASSUME NEW g, IsTrace(g, h, r)
      PROVE  Arrives(v, q, g[len - 1])
  <2>1. /\ g[0] = h /\ \A n \in 1 .. len - 1 : g[n] = Browser!Shown(g[n - 1], r[n])
    <3>1. /\ g[0] = h /\ \A n \in 1 .. Len(r) : g[n] = Browser!Shown(g[n - 1], r[n])
      BY <1>3, <1>6, TraceIs
    <3> QED  BY <1>2, <3>1
  <2> DEFINE f == [n \in 0 .. len |-> IF n = 0 THEN v ELSE g[n - 1]]
  <2>2. f[0] = v /\ f = [n \in 0 .. len |-> f[n]] /\ \A n \in 1 .. len : f[n] = g[n - 1]
    BY <1>2
  <2> HIDE DEF f
  <2>3. ASSUME NEW n \in 1 .. len
        PROVE  f[n] = Browser!Shown(f[n - 1], q[n])
    <3>1. CASE n = 1
      BY <1>4, <2>1, <2>2, <3>1
    <3>2. CASE n # 1
      <4>1. n - 1 \in 1 .. len - 1 /\ n - 1 \in 1 .. len /\ (n - 1) + 1 = n
        BY <1>2, <3>2
      <4>2. g[n - 1] = Browser!Shown(g[(n - 1) - 1], r[n - 1]) /\ r[n - 1] = q[n]
        BY <1>2, <2>1, <4>1
      <4>3. f[n] = g[n - 1] /\ f[n - 1] = g[(n - 1) - 1]
        BY <2>2, <4>1
      <4> QED  BY <4>2, <4>3
    <3> QED  BY <3>1, <3>2
  <2>4. IsTrace(f, v, q)
    <3>1. f = [n \in 0 .. Len(q) |-> f[n]] /\ \A n \in 1 .. Len(q) : f[n] = Browser!Shown(f[n - 1], q[n])
      BY <1>4, <2>2, <2>3
    <3>2. IsTrace(f, v, q) <=>
            /\ f = [n \in 0 .. Len(q) |-> f[n]] /\ f[0] = v
            /\ \A n \in 1 .. Len(q) : f[n] = Browser!Shown(f[n - 1], q[n])
      BY <1>0
    <3> QED  BY <2>2, <3>1, <3>2
  <2>5. f[len] = g[len - 1]
    <3>1. len \in 1 .. len
      BY <1>2
    <3> QED  BY <2>2, <3>1
  <2> QED  BY <1>4, <2>4, <2>5 DEF Arrives
<1> QED  BY <1>2, <1>3, <1>4, <1>5, <1>6 DEF Arrives, r, h

\* What the page settles on is a view it arrives at.
LEMMA SettledArrives ==
  ASSUME NEW p, \E w : Arrives(view[p], inbox[p], w)
  PROVE  Arrives(view[p], inbox[p], Browser!Settled(p))
<1> DEFINE Walk(f) == [n \in 0 .. Len(inbox[p]) |-> IF n = 0 THEN view[p] ELSE Browser!Shown(f[n - 1], inbox[p][n])]
           all == CHOOSE f : f = Walk(f)
<1>1. Browser!Settled(p) = all[Len(inbox[p])]
  BY DEF Browser!Settled
<1>2. \E f : f = Walk(f)
  BY DEF Arrives, IsTrace
<1>3. all = Walk(all)
  BY <1>2
<1>4. IsTrace(all, view[p], inbox[p])
  BY <1>3 DEF IsTrace
<1> QED  BY <1>1, <1>4 DEF Arrives

(***************************************************************************)
(* What a page shows: what a request makes of a channel and of the views   *)
(* of those who follow it.                                                 *)
(***************************************************************************)
IsView(v) == v = [els |-> v.els, vars |-> v.vars, theme |-> v.theme, orient |-> v.orient, snap |-> v.snap]
IsChannel(x) ==
  x = [els |-> x.els, vars |-> x.vars, scene |-> x.scene, theme |-> x.theme, orient |-> x.orient]

Has(vs, ws) == \A k \in DOMAIN ws : k \in DOMAIN vs /\ vs[k] = ws[k]
Matches(v, x) ==
  /\ IsView(v)
  /\ v.els = x.els /\ v.theme = x.theme /\ v.orient = x.orient /\ Has(v.vars, x.vars)

(* Who showed channel x before the messages of r shows its new state after *)
(* them; at most two are sent.                                             *)
Carries(x, r) ==
  /\ IsChannel(r.state)
  /\ \/ r.messages = <<>> /\ \A v : Matches(v, x) => Matches(v, r.state)
     \/ \E m : /\ r.messages = <<m>>
               /\ \A v : Matches(v, x) => Matches(Browser!Shown(v, m), r.state)
     \/ \E m, n : /\ r.messages = <<m, n>>
                  /\ \A v : Matches(v, x) =>
                       Matches(Browser!Shown(Browser!Shown(v, m), n), r.state)

LEMMA OverHas == ASSUME NEW vs, NEW ws PROVE Has(Browser!Over(vs, ws), ws)
  BY DEF Has, Browser!Over

LEMMA RefusedCarries == ASSUME NEW x, IsChannel(x) PROVE Carries(x, Browser!Refused(x))
  BY DEF Carries, Browser!Refused, Browser!Done

(* The parts of a result: one message, or two. *)
LEMMA OneCarries ==
  ASSUME NEW x, NEW y, NEW m, IsChannel(y),
         \A v : Matches(v, x) => Matches(Browser!Shown(v, m), y)
  PROVE  Carries(x, Browser!Done(y, <<m>>))
<1>1. Browser!Done(y, <<m>>).state = y /\ Browser!Done(y, <<m>>).messages = <<m>>
  BY DEF Browser!Done
<1> QED  BY <1>1 DEF Carries

LEMMA TwoCarries ==
  ASSUME NEW x, NEW y, NEW m, NEW n, IsChannel(y),
         \A v : Matches(v, x) => Matches(Browser!Shown(Browser!Shown(v, m), n), y)
  PROVE  Carries(x, Browser!Done(y, <<m, n>>))
<1>1. Browser!Done(y, <<m, n>>).state = y /\ Browser!Done(y, <<m, n>>).messages = <<m, n>>
  BY DEF Browser!Done
<1> QED  BY <1>1 DEF Carries

\* Messages and states that change one part alike.
LEMMA ElementsAlike ==
  ASSUME NEW x, IsChannel(x), NEW e, NEW v, Matches(v, x)
  PROVE  /\ IsChannel([x EXCEPT !.els = e])
         /\ Matches([v EXCEPT !.els = e], [x EXCEPT !.els = e])
<1>1. x = [els |-> x.els, vars |-> x.vars, scene |-> x.scene, theme |-> x.theme, orient |-> x.orient]
  BY DEF IsChannel
<1>2. v = [els |-> v.els, vars |-> v.vars, theme |-> v.theme, orient |-> v.orient, snap |-> v.snap]
  BY DEF Matches, IsView
<1>3. [x EXCEPT !.els = e] = [els |-> e, vars |-> x.vars, scene |-> x.scene, theme |-> x.theme, orient |-> x.orient]
  BY <1>1
<1>4. [v EXCEPT !.els = e] = [els |-> e, vars |-> v.vars, theme |-> v.theme, orient |-> v.orient, snap |-> v.snap]
  BY <1>2
<1> QED  BY <1>3, <1>4 DEF Matches, IsView, IsChannel

LEMMA VariablesAlike ==
  ASSUME NEW x, IsChannel(x), NEW ws, NEW v, Matches(v, x)
  PROVE  /\ IsChannel([x EXCEPT !.vars = ws])
         /\ Matches([v EXCEPT !.vars = Browser!Over(v.vars, ws)], [x EXCEPT !.vars = ws])
<1> DEFINE vs == Browser!Over(v.vars, ws)
<1>1. x = [els |-> x.els, vars |-> x.vars, scene |-> x.scene, theme |-> x.theme, orient |-> x.orient]
  BY DEF IsChannel
<1>2. v = [els |-> v.els, vars |-> v.vars, theme |-> v.theme, orient |-> v.orient, snap |-> v.snap]
  BY DEF Matches, IsView
<1>3. Has(vs, ws)
  BY OverHas
<1> HIDE DEF vs
<1>4. [x EXCEPT !.vars = ws] = [els |-> x.els, vars |-> ws, scene |-> x.scene, theme |-> x.theme, orient |-> x.orient]
  BY <1>1
<1>5. [v EXCEPT !.vars = vs] = [els |-> v.els, vars |-> vs, theme |-> v.theme, orient |-> v.orient, snap |-> v.snap]
  BY <1>2
<1> QED  BY <1>3, <1>4, <1>5 DEF Matches, IsView, IsChannel, vs

LEMMA ThemesAlike ==
  ASSUME NEW x, IsChannel(x), NEW th, NEW v, Matches(v, x)
  PROVE  /\ IsChannel([x EXCEPT !.theme = th])
         /\ Matches([v EXCEPT !.theme = th], [x EXCEPT !.theme = th])
<1>1. x = [els |-> x.els, vars |-> x.vars, scene |-> x.scene, theme |-> x.theme, orient |-> x.orient]
  BY DEF IsChannel
<1>2. v = [els |-> v.els, vars |-> v.vars, theme |-> v.theme, orient |-> v.orient, snap |-> v.snap]
  BY DEF Matches, IsView
<1>3. [x EXCEPT !.theme = th] = [els |-> x.els, vars |-> x.vars, scene |-> x.scene, theme |-> th, orient |-> x.orient]
  BY <1>1
<1>4. [v EXCEPT !.theme = th] = [els |-> v.els, vars |-> v.vars, theme |-> th, orient |-> v.orient, snap |-> v.snap]
  BY <1>2
<1> QED  BY <1>3, <1>4 DEF Matches, IsView, IsChannel

LEMMA CreateCarries ==
  ASSUME NEW x, IsChannel(x), NEW o
  PROVE  Carries(x, Browser!CreateElement(x, o))
<1> DEFINE m == Browser!Create(o.id, o.element)
<1>1. PICK add : /\ Browser!CreateElement(x, o) = Browser!Done([x EXCEPT !.els = Browser!Over(x.els, add)], <<m>>)
                 /\ \A v : Browser!Shown(v, m) = [v EXCEPT !.els = Browser!Over(v.els, add)]
  <2>1. m.type = "element.create" /\ m.id = o.id /\ m.element = o.element
    BY DEF Browser!Create
  <2>2. \A v : Browser!Shown(v, m) = [v EXCEPT !.els = Browser!Over(v.els, Browser!:>(m.id, m.element))]
    BY <2>1 DEF Browser!Shown
  <2>3. Browser!CreateElement(x, o) = Browser!Done([x EXCEPT !.els = Browser!Over(x.els, Browser!:>(o.id, o.element))], <<m>>)
    BY DEF Browser!CreateElement
  <2> HIDE DEF m
  <2> QED  BY <2>1, <2>2, <2>3
<1> DEFINE e == Browser!Over(x.els, add)
           y == [x EXCEPT !.els = e]
<1>2. Browser!CreateElement(x, o) = Browser!Done(y, <<m>>)
  BY <1>1
<1> HIDE DEF m, e
<1>3. IsChannel(y)
  BY DEF IsChannel
<1>4. ASSUME NEW v, Matches(v, x)
      PROVE  Matches(Browser!Shown(v, m), y)
  <2>1. v.els = x.els
    BY <1>4 DEF Matches
  <2>2. Browser!Shown(v, m) = [v EXCEPT !.els = e]
    BY <1>1, <2>1 DEF e
  <2> QED  BY <1>4, <2>2, ElementsAlike
<1> HIDE DEF y
<1> QED  BY <1>2, <1>3, <1>4, OneCarries

LEMMA UpdateCarries ==
  ASSUME NEW x, IsChannel(x), NEW i, NEW u
  PROVE  Carries(x, Browser!UpdateElement(x, i, u))
<1> DEFINE m == Browser!Update(i, u)
           e == [x.els EXCEPT ![i] = Browser!Over(x.els[i], u)]
           y == [x EXCEPT !.els = e]
<1>1. CASE i \notin DOMAIN x.els
  BY <1>1, RefusedCarries DEF Browser!UpdateElement
<1>2. CASE i \in DOMAIN x.els
  <2>1. Browser!UpdateElement(x, i, u) = Browser!Done(y, <<m>>)
    <3>1. [x EXCEPT !.els[i] = Browser!Over(x.els[i], u)] = y
      BY DEF IsChannel
    <3> HIDE DEF m, y
    <3> QED  BY <1>2, <3>1 DEF Browser!UpdateElement, m
  <2>2. m.type = "element.update" /\ m.id = i /\ m.updates = u
    BY DEF Browser!Update
  <2> HIDE DEF m, e
  <2>3. IsChannel(y)
    BY DEF IsChannel
  <2>4. ASSUME NEW v, Matches(v, x)
        PROVE  Matches(Browser!Shown(v, m), y)
    <3>1. v.els = x.els
      BY <2>4 DEF Matches
    <3>2. Browser!Shown(v, m) = [v EXCEPT !.els[m.id] = Browser!Over(v.els[m.id], m.updates)]
      BY <1>2, <2>2, <3>1 DEF Browser!Shown
    <3>3. Browser!Shown(v, m) = [v EXCEPT !.els = [v.els EXCEPT ![i] = Browser!Over(v.els[i], u)]]
      BY <2>2, <3>2
    <3>4. Browser!Shown(v, m) = [v EXCEPT !.els = e]
      BY <3>1, <3>3 DEF e
    <3> QED  BY <2>4, <3>4, ElementsAlike
  <2> HIDE DEF y
  <2> QED  BY <2>1, <2>3, <2>4, OneCarries
<1> QED  BY <1>1, <1>2

LEMMA DeleteCarries ==
  ASSUME NEW x, IsChannel(x), NEW o
  PROVE  Carries(x, Browser!DeleteElement(x, o))
<1> DEFINE m == Browser!Delete(o.id)
           e == Browser!Without(x.els, o.id)
           y == [x EXCEPT !.els = e]
<1>1. CASE o.id \notin DOMAIN x.els
  BY <1>1, RefusedCarries DEF Browser!DeleteElement
<1>2. CASE o.id \in DOMAIN x.els
  <2>1. Browser!DeleteElement(x, o) = Browser!Done(y, <<m>>)
    BY <1>2 DEF Browser!DeleteElement
  <2>2. m.type = "element.delete" /\ m.id = o.id
    BY DEF Browser!Delete
  <2> HIDE DEF m, e
  <2>3. IsChannel(y)
    BY DEF IsChannel
  <2>4. ASSUME NEW v, Matches(v, x)
        PROVE  Matches(Browser!Shown(v, m), y)
    <3>1. v.els = x.els
      BY <2>4 DEF Matches
    <3>2. Browser!Shown(v, m) = [v EXCEPT !.els = e]
      BY <2>2, <3>1 DEF Browser!Shown, e
    <3> QED  BY <2>4, <3>2, ElementsAlike
  <2> HIDE DEF y
  <2> QED  BY <2>1, <2>3, <2>4, OneCarries
<1> QED  BY <1>1, <1>2

LEMMA VariablesCarry ==
  ASSUME NEW x, IsChannel(x), NEW o
  PROVE  Carries(x, Browser!SetVariables(x, o))
<1> DEFINE ws == Browser!DeepMerge(x.vars, o.vars)
           y == [x EXCEPT !.vars = ws]
           m == Browser!Variables(ws)
<1>1. Browser!SetVariables(x, o) = Browser!Done(y, <<m>>)
  <2>1. y.vars = ws
    BY DEF IsChannel
  <2> QED  BY <2>1 DEF Browser!SetVariables
<1>2. m.type = "variables.update" /\ m.vars = ws
  BY DEF Browser!Variables
<1> HIDE DEF m, ws
<1>3. IsChannel(y)
  BY DEF IsChannel
<1>4. ASSUME NEW v, Matches(v, x)
      PROVE  Matches(Browser!Shown(v, m), y)
  <2>1. Browser!Shown(v, m) = [v EXCEPT !.vars = Browser!Over(v.vars, ws)]
    BY <1>2 DEF Browser!Shown
  <2> QED  BY <1>4, <2>1, VariablesAlike
<1> HIDE DEF y
<1> QED  BY <1>1, <1>3, <1>4, OneCarries

LEMMA DesignCarries ==
  ASSUME NEW x, IsChannel(x), NEW o
  PROVE  Carries(x, Browser!SetDesignSystem(x, o))
<1> DEFINE y == [x EXCEPT !.theme = o.theme]
           m == Browser!Design(o.theme)
<1>1. Browser!SetDesignSystem(x, o) = Browser!Done(y, <<m>>)
  BY DEF Browser!SetDesignSystem
<1>2. m.type = "design.system" /\ m.theme = o.theme
  BY DEF Browser!Design
<1> HIDE DEF m
<1>3. IsChannel(y)
  BY DEF IsChannel
<1>4. ASSUME NEW v, Matches(v, x)
      PROVE  Matches(Browser!Shown(v, m), y)
  <2>1. Browser!Shown(v, m) = [v EXCEPT !.theme = o.theme]
    BY <1>2 DEF Browser!Shown
  <2> QED  BY <1>4, <2>1, ThemesAlike
<1> HIDE DEF y
<1> QED  BY <1>1, <1>3, <1>4, OneCarries

LEMMA SoundCarries ==
  ASSUME NEW x, IsChannel(x)
  PROVE  Carries(x, Browser!Done(x, <<Browser!Sound>>))
<1>1. Browser!Sound.type = "sound.play"
  BY DEF Browser!Sound
<1>2. \A v : Browser!Shown(v, Browser!Sound) = v
  BY <1>1 DEF Browser!Shown
<1> QED  BY <1>2, OneCarries

\* A full list of elements, with the variables the channel now has.
LEMMA ListArrives ==
  ASSUME NEW y, IsChannel(y), NEW v, IsView(v), v.theme = y.theme
  PROVE  Matches(Browser!Shown(v, Browser!ElementsUpdated(y)), y)
<1> DEFINE m == Browser!ElementsUpdated(y)
           vs == Browser!Over(v.vars, y.vars)
<1>1. m.type = "elements.updated" /\ m.els = y.els /\ m.vars = y.vars /\ m.orient = y.orient
  BY DEF Browser!ElementsUpdated
<1> HIDE DEF m
<1>2. Browser!Shown(v, m) = [v EXCEPT !.els = y.els, !.vars = vs, !.orient = y.orient]
  BY <1>1 DEF Browser!Shown
<1>3. Has(vs, y.vars)
  BY OverHas
<1> HIDE DEF vs
<1>4. Browser!Shown(v, m) = [els |-> y.els, vars |-> vs, theme |-> v.theme, orient |-> y.orient, snap |-> v.snap]
  BY <1>2 DEF IsView
<1> QED  BY <1>3, <1>4 DEF Matches, IsView, m

\* The updates of a channel one after another.
Deployed(x, ws, e) == [x EXCEPT !.vars = ws, !.els = e]
Placed(x, ws, e, o) == [x EXCEPT !.vars = ws, !.els = e, !.orient = o]
Installed(x, ws, e, p, o, th) ==
  [x EXCEPT !.vars = ws, !.els = e, !.scene = p, !.orient = o, !.theme = th]

LEMMA ChannelWith ==
  ASSUME NEW x, IsChannel(x), NEW ws, NEW e, NEW p, NEW o, NEW th
  PROVE  /\ Deployed(x, ws, e)
              = [els |-> e, vars |-> ws, scene |-> x.scene, theme |-> x.theme, orient |-> x.orient]
         /\ Placed(x, ws, e, o)
              = [els |-> e, vars |-> ws, scene |-> x.scene, theme |-> x.theme, orient |-> o]
         /\ Installed(x, ws, e, p, o, th)
              = [els |-> e, vars |-> ws, scene |-> p, theme |-> th, orient |-> o]
<1> DEFINE y1 == [x EXCEPT !.vars = ws]
           y2 == [y1 EXCEPT !.els = e]
           y3 == [y2 EXCEPT !.scene = p]
           y4 == [y3 EXCEPT !.orient = o]
           y5 == [y4 EXCEPT !.theme = th]
           z == [y2 EXCEPT !.orient = o]
<1>1. PICK a, b, c, d, f : x = [els |-> a, vars |-> b, scene |-> c, theme |-> d, orient |-> f]
  BY DEF IsChannel
<1>2. x.scene = c /\ x.theme = d /\ x.orient = f
  BY <1>1
<1>3. y1 = [els |-> a, vars |-> ws, scene |-> c, theme |-> d, orient |-> f]
  BY <1>1
<1>4. Deployed(x, ws, e) = y2 /\ Placed(x, ws, e, o) = z /\ Installed(x, ws, e, p, o, th) = y5
  BY DEF Deployed, Placed, Installed
<1> HIDE DEF y1
<1>5. y2 = [els |-> e, vars |-> ws, scene |-> c, theme |-> d, orient |-> f]
  BY <1>3
<1> HIDE DEF y2
<1>6. /\ z = [els |-> e, vars |-> ws, scene |-> c, theme |-> d, orient |-> o]
      /\ y3 = [els |-> e, vars |-> ws, scene |-> p, theme |-> d, orient |-> f]
  BY <1>5
<1> HIDE DEF y3, z
<1>7. y4 = [els |-> e, vars |-> ws, scene |-> p, theme |-> d, orient |-> o]
  BY <1>6
<1> HIDE DEF y4
<1>8. y5 = [els |-> e, vars |-> ws, scene |-> p, theme |-> th, orient |-> o]
  BY <1>7
<1> HIDE DEF y5
<1> QED  BY <1>2, <1>4, <1>5, <1>6, <1>8

LEMMA ActivateCarries ==
  ASSUME NEW x, IsChannel(x), NEW p, NEW clear
  PROVE  Carries(x, Browser!ActivateScene(x, p, clear))
<1> DEFINE ws == IF clear THEN p.vars ELSE Browser!DeepMerge(x.vars, p.vars)
           e == IF clear THEN p.els ELSE Browser!Over(x.els, p.els)
           y == [x EXCEPT !.vars = ws, !.els = e, !.scene = p, !.orient = p.orient, !.theme = NoTheme]
           m == Browser!Design(NoTheme)
           n == Browser!ElementsUpdated(y)
<1>1. Browser!ActivateScene(x, p, clear) = Browser!Done(y, <<m, n>>)
  BY DEF Browser!ActivateScene
<1>2. m.type = "design.system" /\ m.theme = NoTheme
  BY DEF Browser!Design
<1> HIDE DEF m, e, ws
<1>3. y = [els |-> e, vars |-> ws, scene |-> p, theme |-> NoTheme, orient |-> p.orient]
  <2>1. y = Installed(x, ws, e, p, p.orient, NoTheme)
    BY DEF Installed
  <2> HIDE DEF y
  <2> QED  BY <2>1, ChannelWith
<1> HIDE DEF y
<1>4. IsChannel(y) /\ y.theme = NoTheme
  BY <1>3 DEF IsChannel
<1>5. ASSUME NEW v, Matches(v, x)
      PROVE  Matches(Browser!Shown(Browser!Shown(v, m), n), y)
  <2>1. Browser!Shown(v, m) = [v EXCEPT !.theme = NoTheme]
    BY <1>2 DEF Browser!Shown
  <2>2. IsView(Browser!Shown(v, m)) /\ Browser!Shown(v, m).theme = NoTheme
    BY <1>5, <2>1 DEF Matches, IsView
  <2> QED  BY <1>4, <2>2, ListArrives
<1> HIDE DEF n
<1> QED  BY <1>1, <1>4, <1>5, TwoCarries

\* The frames of a studio socket replace the elements.
LEMMA DeployCarries ==
  ASSUME NEW x, IsChannel(x), NEW p
  PROVE  /\ Carries(x, Browser!ComponentDeploy(x, p))
         /\ Carries(x, Browser!SceneActivate(x, p))
<1> DEFINE ws == Browser!DeepMerge(x.vars, p.vars)
<1>1. ASSUME NEW y, IsChannel(y), y.theme = x.theme
      PROVE  Carries(x, Browser!Done(y, <<Browser!ElementsUpdated(y)>>))
  <2>1. ASSUME NEW v, Matches(v, x)
        PROVE  Matches(Browser!Shown(v, Browser!ElementsUpdated(y)), y)
    BY <1>1, <2>1, ListArrives DEF Matches
  <2> QED  BY <1>1, <2>1, OneCarries
<1>2. Carries(x, Browser!ComponentDeploy(x, p))
  <2> DEFINE y == [x EXCEPT !.vars = ws, !.els = p.els]
  <2>1. Browser!ComponentDeploy(x, p) = Browser!Done(y, <<Browser!ElementsUpdated(y)>>)
    BY DEF Browser!ComponentDeploy
  <2> HIDE DEF ws
  <2>2. y = [els |-> p.els, vars |-> ws, scene |-> x.scene, theme |-> x.theme, orient |-> x.orient]
    <3>1. y = Deployed(x, ws, p.els)
      BY DEF Deployed
    <3> HIDE DEF y
    <3> QED  BY <3>1, ChannelWith
  <2>3. IsChannel(y) /\ y.theme = x.theme
    BY <2>2 DEF IsChannel
  <2> HIDE DEF y
  <2> QED  BY <1>1, <2>1, <2>3
<1>3. Carries(x, Browser!SceneActivate(x, p))
  <2> DEFINE y == [x EXCEPT !.vars = ws, !.els = p.els, !.orient = p.orient]
  <2>1. Browser!SceneActivate(x, p) = Browser!Done(y, <<Browser!ElementsUpdated(y)>>)
    BY DEF Browser!SceneActivate
  <2> HIDE DEF ws
  <2>2. y = [els |-> p.els, vars |-> ws, scene |-> x.scene, theme |-> x.theme, orient |-> p.orient]
    <3>1. y = Placed(x, ws, p.els, p.orient)
      BY DEF Placed
    <3> HIDE DEF y
    <3> QED  BY <3>1, ChannelWith
  <2>3. IsChannel(y) /\ y.theme = x.theme
    BY <2>2 DEF IsChannel
  <2> HIDE DEF y
  <2> QED  BY <1>1, <2>1, <2>3
<1> QED  BY <1>2, <1>3

LEMMA DefineCarries ==
  ASSUME NEW x, IsChannel(x), NEW o
  PROVE  Carries(x, Browser!DefineScene(x, o))
<1> DEFINE y == [x EXCEPT !.scene = o.preset]
<1>1. y = [els |-> x.els, vars |-> x.vars, scene |-> o.preset, theme |-> x.theme, orient |-> x.orient]
  BY DEF IsChannel
<1>2. Browser!DefineScene(x, o).state = y /\ Browser!DefineScene(x, o).messages = <<>>
  BY DEF Browser!DefineScene, Browser!Done
<1> HIDE DEF y
<1>3. IsChannel(y) /\ \A v : Matches(v, x) => Matches(v, y)
  BY <1>1 DEF IsChannel, Matches
<1> QED  BY <1>2, <1>3 DEF Carries

(* Every request but POST /scenes/:sceneId/activate, whose message has the *)
(* elements of the stored scene and not those of the channel.              *)
LEMMA PerformCarries ==
  ASSUME NEW x, IsChannel(x), NEW o \in Browser!Requests, o.op # "stored"
  PROVE  Carries(x, Browser!Perform(x, o))
<1>1. o.op \in {"create", "update", "show", "hide", "toggle", "delete", "variables", "sound", "design",
                "define", "activate"}
  BY DEF Browser!Requests
<1>2. CASE o.op = "create"
  BY <1>2, CreateCarries DEF Browser!Perform
<1>3. CASE o.op = "update"
  BY <1>3, UpdateCarries DEF Browser!Perform
<1>4. CASE o.op = "show"
  BY <1>4, UpdateCarries DEF Browser!Perform
<1>5. CASE o.op = "hide"
  BY <1>5, UpdateCarries DEF Browser!Perform
<1>6. CASE o.op = "toggle"
  <2>1. Carries(x, Browser!ToggleVisibility(x, o))
    BY UpdateCarries, RefusedCarries DEF Browser!ToggleVisibility
  <2> QED  BY <1>6, <2>1 DEF Browser!Perform
<1>7. CASE o.op = "delete"
  BY <1>7, DeleteCarries DEF Browser!Perform
<1>8. CASE o.op = "variables"
  BY <1>8, VariablesCarry DEF Browser!Perform
<1>9. CASE o.op = "sound"
  BY <1>9, SoundCarries DEF Browser!Perform
<1>10. CASE o.op = "design"
  BY <1>10, DesignCarries DEF Browser!Perform
<1>11. CASE o.op = "define"
  BY <1>11, DefineCarries DEF Browser!Perform
<1>12. CASE o.op = "activate"
  BY <1>12, ActivateCarries DEF Browser!Perform
<1> QED  BY <1>1, <1>2, <1>3, <1>4, <1>5, <1>6, <1>7, <1>8, <1>9, <1>10, <1>11, <1>12

\* The channel keeps its shape whatever is requested.
LEMMA PerformIsChannel ==
  ASSUME NEW x, IsChannel(x), NEW o \in Browser!Requests
  PROVE  IsChannel(Browser!Perform(x, o).state)
<1>1. CASE o.op # "stored"
  BY <1>1, PerformCarries DEF Carries
<1>2. CASE o.op = "stored"
  <2>1. IsChannel(Browser!ActivateStored(x, o).state)
    <3> DEFINE e == IF o.clear THEN x.scene.els ELSE Browser!Over(x.els, x.scene.els)
               y == [x EXCEPT !.els = e]
    <3>1. CASE x.scene = NoScene
      BY <3>1 DEF Browser!ActivateStored, Browser!Refused, Browser!Done
    <3>2. CASE x.scene # NoScene
      <4>1. Browser!ActivateStored(x, o).state = y
        BY <3>2 DEF Browser!ActivateStored, Browser!Done
      <4> HIDE DEF e
      <4>2. IsChannel(y)
        BY DEF IsChannel
      <4> QED  BY <4>1, <4>2
    <3> QED  BY <3>1, <3>2
  <2> QED  BY <1>2, <2>1 DEF Browser!Perform
<1> QED  BY <1>1, <1>2

(* Elements are kept by their ids, and the scene of a channel is one that  *)
(* was given.                                                              *)
IsMap(e) == e = [i \in DOMAIN e |-> e[i]]
HasMaps(x) == IsMap(x.els) /\ (x.scene # NoScene => x.scene \in Presets)

LEMMA SpreadsAreMaps ==
  ASSUME NEW e, NEW f, NEW i
  PROVE  IsMap(Browser!Over(e, f)) /\ IsMap(Browser!Without(e, i))
         /\ (IsMap(e) => IsMap([e EXCEPT ![i] = f]))
<1>1. IsMap(Browser!Over(e, f))
  BY DEF IsMap, Browser!Over
<1>2. IsMap(Browser!Without(e, i))
  BY DEF IsMap, Browser!Without
<1>3. ASSUME IsMap(e) PROVE IsMap([e EXCEPT ![i] = f])
  BY <1>3 DEF IsMap
<1> QED  BY <1>1, <1>2, <1>3

LEMMA PresetsAreMaps == ASSUME NEW p \in Presets PROVE IsMap(p.els)
  BY ViewsAssumption DEF Browser!ChannelAssumption, IsMap

LEMMA MapsWith ==
  ASSUME NEW x, IsChannel(x), HasMaps(x), NEW e, IsMap(e)
  PROVE  HasMaps([x EXCEPT !.els = e])
<1>1. [x EXCEPT !.els = e].els = e /\ [x EXCEPT !.els = e].scene = x.scene
  BY DEF IsChannel
<1> QED  BY <1>1 DEF HasMaps

LEMMA UpdateKeepsMaps ==
  ASSUME NEW x, IsChannel(x), HasMaps(x), NEW i, NEW u
  PROVE  HasMaps(Browser!UpdateElement(x, i, u).state)
<1> DEFINE e == [x.els EXCEPT ![i] = Browser!Over(x.els[i], u)]
<1>1. CASE i \notin DOMAIN x.els
  BY <1>1 DEF Browser!UpdateElement, Browser!Refused, Browser!Done
<1>2. CASE i \in DOMAIN x.els
  <2>1. [x EXCEPT !.els[i] = Browser!Over(x.els[i], u)] = [x EXCEPT !.els = e]
    BY DEF IsChannel
  <2>2. Browser!UpdateElement(x, i, u).state = [x EXCEPT !.els[i] = Browser!Over(x.els[i], u)]
    BY <1>2 DEF Browser!UpdateElement, Browser!Done
  <2>3. IsMap(e)
    BY SpreadsAreMaps DEF HasMaps
  <2> HIDE DEF e
  <2> QED  BY <2>1, <2>2, <2>3, MapsWith
<1> QED  BY <1>1, <1>2

LEMMA ActivateKeepsMaps ==
  ASSUME NEW x, IsChannel(x), HasMaps(x), NEW p \in Presets, NEW clear
  PROVE  HasMaps(Browser!ActivateScene(x, p, clear).state)
<1> DEFINE ws == IF clear THEN p.vars ELSE Browser!DeepMerge(x.vars, p.vars)
           e == IF clear THEN p.els ELSE Browser!Over(x.els, p.els)
           y == [x EXCEPT !.vars = ws, !.els = e, !.scene = p, !.orient = p.orient, !.theme = NoTheme]
<1>1. Browser!ActivateScene(x, p, clear).state = y
  BY DEF Browser!ActivateScene, Browser!Done
<1>2. IsMap(e)
  BY SpreadsAreMaps, PresetsAreMaps
<1> HIDE DEF e, ws
<1>3. y = Installed(x, ws, e, p, p.orient, NoTheme)
  BY DEF Installed
<1> HIDE DEF y
<1>4. y = [els |-> e, vars |-> ws, scene |-> p, theme |-> NoTheme, orient |-> p.orient]
  BY <1>3, ChannelWith
<1> QED  BY <1>1, <1>2, <1>4 DEF HasMaps

LEMMA DeployKeepsMaps ==
  ASSUME NEW x, IsChannel(x), HasMaps(x), NEW p \in Presets
  PROVE  /\ HasMaps(Browser!ComponentDeploy(x, p).state)
         /\ HasMaps(Browser!SceneActivate(x, p).state)
<1> DEFINE ws == Browser!DeepMerge(x.vars, p.vars)
           y == Deployed(x, ws, p.els)
           z == Placed(x, ws, p.els, p.orient)
<1>1. Browser!ComponentDeploy(x, p).state = y /\ Browser!SceneActivate(x, p).state = z
  BY DEF Browser!ComponentDeploy, Browser!SceneActivate, Browser!Done, Deployed, Placed
<1> HIDE DEF ws
<1>2. y.els = p.els /\ y.scene = x.scene /\ z.els = p.els /\ z.scene = x.scene
  BY ChannelWith
<1> HIDE DEF y, z
<1> QED  BY <1>1, <1>2, PresetsAreMaps DEF HasMaps

LEMMA PerformKeepsMaps ==
  ASSUME NEW x, IsChannel(x), HasMaps(x), NEW o \in Browser!Requests
  PROVE  HasMaps(Browser!Perform(x, o).state)
<1>1. o.op \in {"create", "update", "show", "hide", "toggle", "delete", "variables", "sound", "design",
                "define", "activate", "stored"}
  BY DEF Browser!Requests
<1>2. CASE o.op = "create"
  <2> DEFINE e == Browser!Over(x.els, Browser!:>(o.id, o.element))
  <2>1. Browser!Perform(x, o).state = [x EXCEPT !.els = e]
    BY <1>2 DEF Browser!Perform, Browser!CreateElement, Browser!Done
  <2>2. IsMap(e)
    BY SpreadsAreMaps
  <2> HIDE DEF e
  <2> QED  BY <2>1, <2>2, MapsWith
<1>3. CASE o.op = "update"
  BY <1>3, UpdateKeepsMaps DEF Browser!Perform
<1>4. CASE o.op = "show"
  BY <1>4, UpdateKeepsMaps DEF Browser!Perform
<1>5. CASE o.op = "hide"
  BY <1>5, UpdateKeepsMaps DEF Browser!Perform
<1>6. CASE o.op = "toggle"
  <2>1. HasMaps(Browser!ToggleVisibility(x, o).state)
    BY UpdateKeepsMaps DEF Browser!ToggleVisibility, Browser!Refused, Browser!Done
  <2> QED  BY <1>6, <2>1 DEF Browser!Perform
<1>7. CASE o.op = "delete"
  <2>1. HasMaps(Browser!DeleteElement(x, o).state)
    BY SpreadsAreMaps, MapsWith DEF Browser!DeleteElement, Browser!Refused, Browser!Done
  <2> QED  BY <1>7, <2>1 DEF Browser!Perform
<1>8. CASE o.op = "variables"
  <2>1. PICK ws : Browser!SetVariables(x, o).state = [x EXCEPT !.vars = ws]
    BY DEF Browser!SetVariables, Browser!Done
  <2>2. HasMaps([x EXCEPT !.vars = ws])
    BY DEF HasMaps, IsChannel
  <2> QED  BY <1>8, <2>1, <2>2 DEF Browser!Perform
<1>9. CASE o.op = "sound"
  BY <1>9 DEF Browser!Perform, Browser!Done
<1>10. CASE o.op = "design"
  <2>1. Browser!SetDesignSystem(x, o).state = [x EXCEPT !.theme = o.theme]
    BY DEF Browser!SetDesignSystem, Browser!Done
  <2>2. HasMaps([x EXCEPT !.theme = o.theme])
    BY DEF HasMaps, IsChannel
  <2> QED  BY <1>10, <2>1, <2>2 DEF Browser!Perform
<1>11. CASE o.op = "define"
  <2>1. o.preset \in Presets
    BY <1>11 DEF Browser!Requests
  <2>2. Browser!DefineScene(x, o).state = [x EXCEPT !.scene = o.preset]
    BY DEF Browser!DefineScene, Browser!Done
  <2>3. HasMaps([x EXCEPT !.scene = o.preset])
    BY <2>1 DEF HasMaps, IsChannel
  <2> QED  BY <1>11, <2>2, <2>3 DEF Browser!Perform
<1>12. CASE o.op = "activate"
  <2>1. o.preset \in Presets
    BY <1>12 DEF Browser!Requests
  <2> QED  BY <1>12, <2>1, ActivateKeepsMaps DEF Browser!Perform
<1>13. CASE o.op = "stored"
  <2>1. ASSUME x.scene # NoScene
        PROVE  HasMaps(Browser!ActivateStored(x, o).state)
    <3> DEFINE e == IF o.clear THEN x.scene.els ELSE Browser!Over(x.els, x.scene.els)
    <3>1. Browser!ActivateStored(x, o).state = [x EXCEPT !.els = e]
      BY <2>1 DEF Browser!ActivateStored, Browser!Done
    <3>2. IsMap(e)
      BY <2>1, SpreadsAreMaps, PresetsAreMaps DEF HasMaps
    <3> HIDE DEF e
    <3> QED  BY <3>1, <3>2, MapsWith
  <2>2. ASSUME x.scene = NoScene
        PROVE  HasMaps(Browser!ActivateStored(x, o).state)
    BY <2>2 DEF Browser!ActivateStored, Browser!Refused, Browser!Done
  <2> QED  BY <1>13, <2>1, <2>2 DEF Browser!Perform
<1> QED  BY <1>1, <1>2, <1>3, <1>4, <1>5, <1>6, <1>7, <1>8, <1>9, <1>10, <1>11, <1>12, <1>13

\* One more message follows what is on its way.
LEMMA OneMore ==
  ASSUME NEW q, IsQueue(q), NEW m, NEW v, NEW y,
         \E w : Arrives(v, q, w), \A w : Arrives(v, q, w) => Matches(Browser!Shown(w, m), y)
  PROVE  /\ IsQueue(Append(q, m))
         /\ \E w : Arrives(v, Append(q, m), w)
         /\ \A w : Arrives(v, Append(q, m), w) => Matches(w, y)
<1> DEFINE r == Append(q, m)
<1>1. IsQueue(r) /\ \A w : Arrives(v, r, w) <=> \E u : Arrives(v, q, u) /\ w = Browser!Shown(u, m)
  <2>1. IsQueue(r)
    BY ArrivesAppend
  <2>2. ASSUME NEW w PROVE Arrives(v, r, w) <=> \E u : Arrives(v, q, u) /\ w = Browser!Shown(u, m)
    BY ArrivesAppend
  <2> HIDE DEF r
  <2> QED  BY <2>1, <2>2
<1> HIDE DEF r
<1>2. ASSUME NEW w, Arrives(v, r, w) PROVE Matches(w, y)
  <2>1. PICK u : Arrives(v, q, u) /\ w = Browser!Shown(u, m)
    BY <1>1, <1>2
  <2> QED  BY <2>1
<1>3. \E w : Arrives(v, r, w)
  <2>1. PICK u : Arrives(v, q, u)
    OBVIOUS
  <2> QED  BY <1>1, <2>1
<1> QED  BY <1>1, <1>2, <1>3 DEF r

\* The messages of a result follow what is on its way.
LEMMA CarriedOn ==
  ASSUME NEW q, IsQueue(q), NEW v, NEW x, NEW r, Carries(x, r),
         \E w : Arrives(v, q, w), \A w : Arrives(v, q, w) => Matches(w, x)
  PROVE  /\ IsQueue(q \o r.messages)
         /\ \E w : Arrives(v, q \o r.messages, w)
         /\ \A w : Arrives(v, q \o r.messages, w) => Matches(w, r.state)
<1>1. PICK S : q \in Seq(S)
  BY DEF IsQueue
<1>2. CASE r.messages = <<>> /\ \A u : Matches(u, x) => Matches(u, r.state)
  <2>1. q \o r.messages = q
    BY <1>1, <1>2
  <2> QED  BY <1>2, <2>1
<1>3. ASSUME NEW m, r.messages = <<m>>,
             \A u : Matches(u, x) => Matches(Browser!Shown(u, m), r.state)
      PROVE  /\ IsQueue(q \o r.messages)
             /\ \E w : Arrives(v, q \o r.messages, w)
             /\ \A w : Arrives(v, q \o r.messages, w) => Matches(w, r.state)
  <2>1. q \o r.messages = Append(q, m)
    <3>1. q \in Seq(S \cup {m}) /\ m \in S \cup {m}
      BY <1>1
    <3> QED  BY <1>3, <3>1
  <2>2. \A w : Arrives(v, q, w) => Matches(Browser!Shown(w, m), r.state)
    BY <1>3
  <2>3. /\ IsQueue(Append(q, m))
        /\ \E w : Arrives(v, Append(q, m), w)
        /\ \A w : Arrives(v, Append(q, m), w) => Matches(w, r.state)
    BY <2>2, OneMore
  <2> QED  BY <2>1, <2>3
<1>4. ASSUME NEW m, NEW n, r.messages = <<m, n>>,
             \A u : Matches(u, x) => Matches(Browser!Shown(Browser!Shown(u, m), n), r.state)
      PROVE  /\ IsQueue(q \o r.messages)
             /\ \E w : Arrives(v, q \o r.messages, w)
             /\ \A w : Arrives(v, q \o r.messages, w) => Matches(w, r.state)
  <2> DEFINE q1 == Append(q, m)
  <2>1. q \o r.messages = Append(q1, n)
    <3>1. q \in Seq(S \cup {m, n}) /\ m \in S \cup {m, n} /\ n \in S \cup {m, n}
      BY <1>1
    <3> QED  BY <1>4, <3>1
  <2>2. IsQueue(q1)
    BY ArrivesAppend
  <2>3. ASSUME NEW w PROVE Arrives(v, q1, w) <=> \E u : Arrives(v, q, u) /\ w = Browser!Shown(u, m)
    BY ArrivesAppend
  <2> HIDE DEF q1
  <2>4. \E w : Arrives(v, q1, w)
    BY <2>3
  <2>5. ASSUME NEW w, Arrives(v, q1, w) PROVE Matches(Browser!Shown(w, n), r.state)
    <3>1. PICK u : Arrives(v, q, u) /\ w = Browser!Shown(u, m)
      BY <2>3, <2>5
    <3> QED  BY <1>4, <3>1
  <2>6. /\ IsQueue(Append(q1, n))
        /\ \E w : Arrives(v, Append(q1, n), w)
        /\ \A w : Arrives(v, Append(q1, n), w) => Matches(w, r.state)
    BY <2>2, <2>4, <2>5, OneMore
  <2> QED  BY <2>1, <2>6
<1> QED  BY <1>2, <1>3, <1>4 DEF Carries

(***************************************************************************)
(* What a page shows: the steps.                                           *)
(***************************************************************************)
Route(p) == PageKey[p]
OnChannel(p) == PageKey[p] \in Channels

(* Pages are signed in studios or outputs, keep their session and send no  *)
(* other subscription than their own.                                      *)
SocketsInv ==
  /\ conn \in [Conns -> {"none", "open", "closing"}]
  /\ Pages \subseteq live
  /\ \A s \in Conns : conn[s] = "none" => mine[s] = {}
  /\ \A p \in Pages : mine[p] \subseteq {PageKey[p]}
  /\ \A p \in Pages : OnChannel(p) =>
       /\ p \notin outputs /\ conn[p] # "closing"
       /\ access[p] = IF conn[p] = "open" THEN "studio" ELSE "pending"

JobInv ==
  job.at # "none" =>
    /\ job = [at |-> job.at, channel |-> job.channel, todo |-> job.todo]
    /\ job.channel \in Channels /\ job.todo \in Seq(Browser!Requests) /\ job.todo # <<>>

ContentInv ==
  /\ ch = [c \in Channels |-> ch[c]] /\ \A c \in Channels : IsChannel(ch[c]) /\ HasMaps(ch[c])
  /\ snap = [k \in Shows \X Browser!Buses |-> snap[k]]
  /\ view = [p \in Pages |-> view[p]] /\ inbox = [p \in Pages |-> inbox[p]]
  /\ \A p \in Pages : IsQueue(inbox[p])
  /\ first \subseteq Pages

(* Whatever view a page arrives at is that of its route; before a page on  *)
(* a channel subscribes, nothing is on its way to it.                      *)
Right(p, w) ==
  /\ IsView(w)
  /\ p \in subs[PageKey[p]] =>
       IF OnChannel(p) THEN Matches(w, ch[PageKey[p]])
       ELSE conn[p] = "open" => w.snap = snap[PageKey[p]]

(* A page on a bus is sent nothing but snapshots. *)
Snapshots(q) == \E S : q \in Seq(S) /\ \A m \in S : m.type = "production.snapshot"

PageInv(p) ==
  /\ \E w : Arrives(view[p], inbox[p], w)
  /\ \A w : Arrives(view[p], inbox[p], w) => Right(p, w)
  /\ OnChannel(p) /\ p \notin subs[PageKey[p]] => view[p] = Browser!BlankView /\ inbox[p] = <<>>
  /\ ~OnChannel(p) => IsView(view[p]) /\ Snapshots(inbox[p])

PagesInv == \A p \in Pages : ~OnChannel(p) \/ p \in first => PageInv(p)

FollowInv == SubscriptionInv /\ SocketsInv /\ JobInv /\ ContentInv /\ PagesInv

LEMMA PagesAre ==
  ASSUME NEW p \in Pages
  PROVE  /\ p \in Conns /\ PageKey[p] \in Browser!Keys
         /\ ~OnChannel(p) => PageKey[p] \in Shows \X Browser!Buses
  BY ViewsAssumption DEF Browser!ChannelAssumption, Browser!Keys, OnChannel

LEMMA PagesSubscribe ==
  ASSUME SubscriptionInv, SocketsInv, NEW p \in Pages, NEW k \in Browser!Keys, p \in subs[k]
  PROVE  k = PageKey[p] /\ conn[p] # "none" /\ (OnChannel(p) => conn[p] = "open")
<1>1. k \in mine[p]
  BY PagesAre DEF SubscriptionInv, OutputsSeeOnlyTheirProgram, Browser!OutputsSeeOnlyTheirProgram,
                  Browser!SubscriptionsAgree
<1> QED  BY <1>1, PagesAre DEF SocketsInv

LEMMA NothingArrives == IsQueue(<<>>) /\ Snapshots(<<>>)
<1>1. PICK S : S = {}
  OBVIOUS
<1>2. <<>> \in Seq(S) /\ \A m \in S : m.type = "production.snapshot"
  BY <1>1
<1> QED  BY <1>2 DEF IsQueue, Snapshots

LEMMA BlankIs == IsChannel(Browser!Blank) /\ HasMaps(Browser!Blank) /\ Browser!Blank.els = Browser!Nothing
<1>1. IsMap(Browser!Nothing)
  BY DEF IsMap, Browser!Nothing
<1> QED  BY <1>1 DEF IsChannel, HasMaps, Browser!Blank

LEMMA FollowStarts == ASSUME Browser!Init PROVE FollowInv
<1>1. /\ ch = [c \in Channels |-> Browser!Blank] /\ snap = [k \in Shows \X Browser!Buses |-> 1]
      /\ subs = [k \in Browser!Keys |-> {}] /\ conn = [s \in Conns |-> "none"]
      /\ access = [s \in Conns |-> "pending"] /\ mine = [s \in Conns |-> {}] /\ outputs = {}
      /\ live = Conns /\ job = Browser!NoJob
      /\ view = [p \in Pages |-> Browser!BlankView] /\ inbox = [p \in Pages |-> <<>>] /\ first = Pages
  BY DEF Browser!Init
<1>2. SocketsInv
  BY <1>1, PagesAre DEF SocketsInv
<1>3. JobInv
  BY <1>1 DEF JobInv, Browser!NoJob
<1>4. IsChannel(Browser!Blank) /\ HasMaps(Browser!Blank)
  BY BlankIs
<1>5. IsQueue(<<>>) /\ Snapshots(<<>>)
  BY NothingArrives
<1>6. ContentInv
  BY <1>1, <1>4, <1>5 DEF ContentInv
<1>7. IsView(Browser!BlankView)
  BY DEF IsView, Browser!BlankView
<1>8. ASSUME NEW p \in Pages PROVE PageInv(p)
  <2>1. view[p] = Browser!BlankView /\ inbox[p] = <<>> /\ p \notin subs[PageKey[p]]
    BY <1>1, PagesAre
  <2> QED  BY <1>5, <1>7, <2>1, ArrivesEmpty DEF PageInv, Right
<1> QED  BY <1>2, <1>3, <1>6, <1>8, SubscriptionsStart DEF FollowInv, PagesInv

\* POST /scenes/:sceneId/activate sends the elements of the stored scene, which
\* need not be those the channel is left with.
NoStored == "stored" \in Ops => \A p \in Pages : ~OnChannel(p)

LEMMA ArrivesLater ==
  ASSUME NEW p \in Pages, NEW v, NEW q, view'[p] = v, inbox'[p] = q
  PROVE  \A w : Arrives(view[p], inbox[p], w)' <=> Arrives(v, q, w)
  BY DEF Arrives, IsTrace

\* Nothing new is on its way to the page.
LEMMA PageRests ==
  ASSUME NEW p \in Pages, PageInv(p), view'[p] = view[p], inbox'[p] = inbox[p],
         p \in subs'[PageKey[p]] =>
           /\ p \in subs[PageKey[p]]
           /\ OnChannel(p) => ch'[PageKey[p]] = ch[PageKey[p]]
           /\ ~OnChannel(p) /\ conn'[p] = "open" =>
                conn[p] = "open" /\ snap'[PageKey[p]] = snap[PageKey[p]],
         OnChannel(p) /\ p \in subs[PageKey[p]] => p \in subs'[PageKey[p]]
  PROVE  PageInv(p)'
<1>1. /\ \E w : Arrives(view[p], inbox[p], w)
      /\ \A w : Arrives(view[p], inbox[p], w) => Right(p, w)
      /\ OnChannel(p) /\ p \notin subs[PageKey[p]] => view[p] = Browser!BlankView /\ inbox[p] = <<>>
      /\ ~OnChannel(p) => IsView(view[p]) /\ Snapshots(inbox[p])
  BY DEF PageInv
<1>2. \A w : Right(p, w) => Right(p, w)'
  BY DEF Right, OnChannel
<1>3. OnChannel(p)' = OnChannel(p)
  BY DEF OnChannel
<1>4. \A w : Arrives(view[p], inbox[p], w)' <=> Arrives(view[p], inbox[p], w)
  BY DEF Arrives, IsTrace
<1> QED  BY <1>1, <1>2, <1>3, <1>4 DEF PageInv

(***************************************************************************)
(* What a page shows: the sockets and the dispatch.                        *)
(***************************************************************************)
NobodyMoves == UNCHANGED <<conn, access, mine, outputs, live>>

LEMMA SocketsRest == ASSUME SocketsInv, NobodyMoves PROVE SocketsInv'
  BY DEF SocketsInv, NobodyMoves, OnChannel

LEMMA ConnectSockets ==
  ASSUME SubscriptionInv, SocketsInv, NEW s \in Conns, NEW cookie \in BOOLEAN, Browser!Connect(s, cookie)
  PROVE  SocketsInv'
<1>1. /\ conn[s] = "none" /\ conn' = [conn EXCEPT ![s] = "open"]
      /\ access' = [access EXCEPT ![s] = IF cookie /\ s \in live THEN "studio" ELSE "pending"]
      /\ s \in Pages => (cookie <=> PageKey[s] \in Channels)
      /\ UNCHANGED <<mine, outputs, live>>
  BY DEF Browser!Connect, Browser!auth
<1>2. /\ conn' \in [Conns -> {"none", "open", "closing"}]
      /\ \A c \in Conns : conn'[c] = IF c = s THEN "open" ELSE conn[c]
  BY <1>1 DEF SocketsInv
<1>3. \A c \in Conns : access'[c] = IF c = s THEN IF cookie /\ s \in live THEN "studio" ELSE "pending"
                                    ELSE access[c]
  BY <1>1 DEF SubscriptionInv, SubscriptionTypes
<1>4. ASSUME NEW p \in Pages, OnChannel(p)
      PROVE  /\ p \notin outputs' /\ conn'[p] # "closing"
             /\ access'[p] = IF conn'[p] = "open" THEN "studio" ELSE "pending"
  <2>1. p \in Conns
    BY PagesAre
  <2>2. p = s => cookie /\ s \in live
    BY <1>1, <1>4 DEF OnChannel, SocketsInv
  <2> QED  BY <1>1, <1>2, <1>3, <1>4, <2>1, <2>2 DEF SocketsInv
<1> QED  BY <1>1, <1>2, <1>4 DEF SocketsInv, OnChannel

\* A connection with its own subscriptions taken away, or fewer of them.
LEMMA LeavesSockets ==
  ASSUME SubscriptionInv, SocketsInv, NEW s \in Conns, NEW ks \in SUBSET Browser!Keys,
         \/ mine' = mine
         \/ mine' = [mine EXCEPT ![s] = mine[s] \ ks],
         Pages \subseteq live',
         conn' \in [Conns -> {"none", "open", "closing"}],
         \A c \in Conns : conn'[c] = "none" => mine'[c] = {},
         \A p \in Pages : OnChannel(p) =>
           \/ p \notin outputs' /\ conn'[p] = "none" /\ access'[p] = "pending"
           \/ (p \in outputs' => p \in outputs) /\ conn'[p] = conn[p] /\ access'[p] = access[p]
  PROVE  SocketsInv'
<1>1. mine \in [Conns -> SUBSET Browser!Keys]
  BY DEF SubscriptionInv, SubscriptionTypes
<1>2. \A c \in Conns : mine'[c] \subseteq mine[c]
  BY <1>1
<1>3. \A p \in Pages : mine'[p] \subseteq {PageKey[p]}
  BY <1>2, PagesAre DEF SocketsInv
<1>4. ASSUME NEW p \in Pages, OnChannel(p)
      PROVE  /\ p \notin outputs' /\ conn'[p] # "closing"
             /\ access'[p] = IF conn'[p] = "open" THEN "studio" ELSE "pending"
  BY <1>4 DEF SocketsInv
<1> QED  BY <1>3, <1>4 DEF SocketsInv, OnChannel

LEMMA ClosingIs ==
  ASSUME SocketsInv, NEW s \in Conns, Browser!Closing(s)
  PROVE  /\ conn' \in [Conns -> {"none", "open", "closing"}]
         /\ \A c \in Conns : conn'[c] = IF c = s /\ conn[c] = "open" THEN "closing" ELSE conn[c]
<1>1. conn \in [Conns -> {"none", "open", "closing"}]
  BY DEF SocketsInv
<1>2. conn' = [conn EXCEPT ![s] = IF conn[s] = "open" THEN "closing" ELSE conn[s]]
  BY DEF Browser!Closing
<1> QED  BY <1>1, <1>2

\* Nobody takes a page on a channel for an unauthenticated socket or an output.
LEMMA StudioPages ==
  ASSUME SocketsInv, NEW p \in Pages, OnChannel(p), conn[p] # "none"
  PROVE  /\ conn[p] = "open" /\ access[p] = "studio" /\ p \in live /\ p \notin outputs
<1>1. conn[p] \in {"none", "open", "closing"}
  BY PagesAre DEF SocketsInv
<1> QED  BY <1>1 DEF SocketsInv

LEMMA TimeoutSockets ==
  ASSUME SubscriptionInv, SocketsInv, NEW s \in Conns, Browser!AuthenticationTimeout(s)
  PROVE  SocketsInv'
<1>1. /\ conn[s] = "open" /\ access[s] = "pending" /\ Browser!Closing(s)
      /\ UNCHANGED <<access, mine, outputs, live>>
  BY DEF Browser!AuthenticationTimeout, Browser!auth
<1>2. /\ conn' \in [Conns -> {"none", "open", "closing"}]
      /\ \A c \in Conns : conn'[c] = IF c = s /\ conn[c] = "open" THEN "closing" ELSE conn[c]
  BY <1>1, ClosingIs
<1>3. ~(s \in Pages /\ OnChannel(s))
  BY <1>1, StudioPages
<1>4. \A p \in Pages : OnChannel(p) => conn'[p] = conn[p]
  BY <1>2, <1>3, PagesAre
<1>5. Pages \subseteq live' /\ \A c \in Conns : conn'[c] = "none" => mine'[c] = {}
  BY <1>1, <1>2 DEF SocketsInv
<1> QED  BY <1>1, <1>2, <1>4, <1>5, LeavesSockets

LEMMA FrameSockets ==
  ASSUME SubscriptionInv, SocketsInv, NEW s \in Conns, Browser!Frame(s)
  PROVE  SocketsInv'
<1>1. conn[s] # "none" /\ live' = live /\ Pages \subseteq live'
  BY DEF Browser!Frame, Browser!auth, SocketsInv
<1>2. mine \in [Conns -> SUBSET Browser!Keys]
  BY DEF SubscriptionInv, SubscriptionTypes
<1>3. CASE Browser!Unauthenticated(s)
  <2>1. UNCHANGED <<access, outputs>> /\ Browser!Closing(s)
        /\ (mine' = mine \/ mine' = [mine EXCEPT ![s] = mine[s] \ mine[s]])
    BY <1>3 DEF Browser!Unauthenticated, Browser!TearDown, Browser!Drop
  <2>2. ~(s \in Pages /\ OnChannel(s))
    BY <1>1, <1>3, StudioPages DEF Browser!Unauthenticated, Browser!SessionHolds
  <2>3. /\ conn' \in [Conns -> {"none", "open", "closing"}]
        /\ \A c \in Conns : conn'[c] = IF c = s /\ conn[c] = "open" THEN "closing" ELSE conn[c]
    BY <2>1, ClosingIs
  <2>4. \A p \in Pages : OnChannel(p) => conn'[p] = conn[p]
    BY <2>2, <2>3, PagesAre
  <2>5. \A c \in Conns : mine'[c] \subseteq mine[c]
    BY <1>2, <2>1
  <2>6. \A c \in Conns : conn'[c] = "none" => mine'[c] = {}
    BY <2>3, <2>5 DEF SocketsInv
  <2> QED  BY <1>1, <1>2, <2>1, <2>3, <2>4, <2>6, LeavesSockets
<1>4. CASE (s \in Pages => PageKey[s] \notin Channels) /\ Browser!AuthenticateOutput(s)
  <2>1. ~(s \in Pages /\ OnChannel(s))
    BY <1>4 DEF OnChannel
  <2>2. CASE Browser!TearDown(s) /\ access' = [access EXCEPT ![s] = cred] /\ outputs' = outputs \cup {s}
             /\ UNCHANGED conn
    <3>1. mine' = [mine EXCEPT ![s] = mine[s] \ mine[s]]
      BY <2>2 DEF Browser!TearDown, Browser!Drop
    <3>2. \A c \in Conns : mine'[c] \subseteq mine[c]
      BY <1>2, <3>1
    <3>3. \A c \in Conns : conn'[c] = "none" => mine'[c] = {}
      BY <2>2, <3>2 DEF SocketsInv
    <3>4. conn' \in [Conns -> {"none", "open", "closing"}]
      BY <2>2 DEF SocketsInv
    <3>5. ASSUME NEW p \in Pages, OnChannel(p)
          PROVE  (p \in outputs' => p \in outputs) /\ conn'[p] = conn[p] /\ access'[p] = access[p]
      <4>1. p # s /\ p \in Conns
        BY <2>1, <3>5, PagesAre
      <4> QED  BY <2>2, <4>1 DEF SubscriptionInv, SubscriptionTypes
    <3> QED  BY <1>1, <1>2, <3>1, <3>3, <3>4, <3>5, LeavesSockets
  <2>3. CASE Browser!Closing(s) /\ UNCHANGED <<subs, ch, mine, access, outputs>>
    <3>1. /\ conn' \in [Conns -> {"none", "open", "closing"}]
          /\ \A c \in Conns : conn'[c] = IF c = s /\ conn[c] = "open" THEN "closing" ELSE conn[c]
      BY <2>3, ClosingIs
    <3>2. \A p \in Pages : OnChannel(p) => conn'[p] = conn[p]
      BY <2>1, <3>1, PagesAre
    <3>3. \A c \in Conns : conn'[c] = "none" => mine'[c] = {}
      BY <2>3, <3>1 DEF SocketsInv
    <3> QED  BY <1>1, <2>3, <3>1, <3>2, <3>3, LeavesSockets
  <2> QED  BY <1>4, <2>2, <2>3 DEF Browser!AuthenticateOutput
<1>5. ASSUME NEW k \in Browser!Keys, s \in Pages => k = PageKey[s], Browser!Subscribe(s, k)
      PROVE  SocketsInv'
  <2>1. mine' = [mine EXCEPT ![s] = mine[s] \cup {k}] /\ UNCHANGED <<conn, access, outputs>>
    BY <1>5 DEF Browser!Subscribe
  <2>2. \A c \in Conns : mine'[c] = IF c = s THEN mine[c] \cup {k} ELSE mine[c]
    BY <1>2, <2>1
  <2>3. ASSUME NEW p \in Pages PROVE mine'[p] \subseteq {PageKey[p]}
    <3>1. mine[p] \subseteq {PageKey[p]} /\ p \in Conns
      BY PagesAre DEF SocketsInv
    <3> QED  BY <1>5, <2>2, <3>1
  <2>4. \A c \in Conns : conn'[c] = "none" => mine'[c] = {}
    BY <1>1, <2>1, <2>2 DEF SocketsInv
  <2> QED  BY <1>1, <2>1, <2>3, <2>4 DEF SocketsInv, OnChannel
<1>6. ASSUME NEW k \in Browser!Keys, Browser!Unsubscribe(s, k)
      PROVE  SocketsInv'
  <2>1. mine' = [mine EXCEPT ![s] = mine[s] \ {k}] /\ UNCHANGED <<conn, access, outputs>>
    BY <1>6 DEF Browser!Unsubscribe, Browser!Drop
  <2>2. \A c \in Conns : mine'[c] \subseteq mine[c]
    BY <1>2, <2>1
  <2>3. \A c \in Conns : conn'[c] = "none" => mine'[c] = {}
    BY <2>1, <2>2 DEF SocketsInv
  <2>4. conn' \in [Conns -> {"none", "open", "closing"}] /\ {k} \in SUBSET Browser!Keys
    BY <2>1 DEF SocketsInv
  <2> QED  BY <1>1, <2>1, <2>3, <2>4, LeavesSockets
<1> QED  BY <1>3, <1>4, <1>5, <1>6 DEF Browser!Frame

LEMMA CloseSockets ==
  ASSUME SubscriptionInv, SocketsInv, NEW s \in Conns, Browser!CloseEvent(s)
  PROVE  SocketsInv'
<1>1. /\ mine' = [mine EXCEPT ![s] = mine[s] \ mine[s]] /\ live' = live
      /\ conn' = [conn EXCEPT ![s] = "none"] /\ access' = [access EXCEPT ![s] = "pending"]
      /\ outputs' = outputs \ {s}
  BY DEF Browser!CloseEvent, Browser!TearDown, Browser!Drop, Browser!auth
<1>2. mine \in [Conns -> SUBSET Browser!Keys]
  BY DEF SubscriptionInv, SubscriptionTypes
<1>3. \A c \in Conns : mine'[c] = IF c = s THEN {} ELSE mine[c]
  BY <1>1, <1>2
<1>4. /\ conn' \in [Conns -> {"none", "open", "closing"}]
      /\ \A c \in Conns : conn'[c] = IF c = s THEN "none" ELSE conn[c]
  BY <1>1 DEF SocketsInv
<1>5. \A c \in Conns : conn'[c] = "none" => mine'[c] = {}
  BY <1>3, <1>4 DEF SocketsInv
<1>6. \A c \in Conns : access'[c] = IF c = s THEN "pending" ELSE access[c]
  BY <1>1 DEF SubscriptionInv, SubscriptionTypes
<1>7. ASSUME NEW p \in Pages, OnChannel(p)
      PROVE  \/ p \notin outputs' /\ conn'[p] = "none" /\ access'[p] = "pending"
             \/ (p \in outputs' => p \in outputs) /\ conn'[p] = conn[p] /\ access'[p] = access[p]
  BY <1>1, <1>4, <1>6, PagesAre
<1>8. Pages \subseteq live'
  BY <1>1 DEF SocketsInv
<1> QED  BY <1>1, <1>2, <1>4, <1>5, <1>7, <1>8, LeavesSockets

LEMMA RotateSockets ==
  ASSUME SubscriptionInv, SocketsInv, NEW w \in Shows, Browser!RotateCredential(w)
  PROVE  SocketsInv'
<1>1. /\ conn' = [s \in Conns |-> IF s \in outputs /\ conn[s] = "open" THEN "closing" ELSE conn[s]]
      /\ outputs' = {} /\ UNCHANGED <<access, mine, live>>
  BY DEF Browser!RotateCredential
<1>2. conn' \in [Conns -> {"none", "open", "closing"}]
  BY <1>1 DEF SocketsInv
<1>3. \A c \in Conns : conn'[c] = "none" => mine'[c] = {}
  BY <1>1 DEF SocketsInv
<1>4. \A p \in Pages : OnChannel(p) => p \notin outputs' /\ conn'[p] = conn[p] /\ access'[p] = access[p]
  BY <1>1, PagesAre DEF SocketsInv
<1> QED  BY <1>1, <1>2, <1>3, <1>4 DEF SocketsInv, OnChannel

LEMMA SocketsKeep == ASSUME SubscriptionInv, SocketsInv, Browser!Next PROVE SocketsInv'
<1> USE DEF Browser!sockets, Browser!auth, NobodyMoves
<1>1. ASSUME NEW c \in Channels, NEW o \in Browser!Requests, Browser!Rest(c, o) PROVE SocketsInv'
  BY <1>1, SocketsRest DEF Browser!Rest
<1>2. ASSUME NEW c \in Channels, NEW a \in Browser!Actions, NEW b \in Browser!Actions,
             Browser!Dispatch(c, a, b)
      PROVE  SocketsInv'
  BY <1>2, SocketsRest DEF Browser!Dispatch
<1>3. CASE Browser!DispatchAction
  BY <1>3, SocketsRest DEF Browser!DispatchAction
<1>4. CASE Browser!CollectionRead
  BY <1>4, SocketsRest DEF Browser!CollectionRead
<1>5. ASSUME NEW k \in Shows \X Browser!Buses, Browser!PublishSnapshot(k) PROVE SocketsInv'
  BY <1>5, SocketsRest DEF Browser!PublishSnapshot
<1>6. ASSUME NEW s \in Conns, Browser!DeployFrame(s) PROVE SocketsInv'
  BY <1>6, SocketsRest DEF Browser!DeployFrame, Browser!Deploy
<1>7. ASSUME NEW s \in Conns, Browser!SessionEnds(s) PROVE SocketsInv'
  <2>1. s \notin Pages /\ live' = live \ {s} /\ UNCHANGED <<conn, access, mine, outputs>>
    BY <1>7 DEF Browser!SessionEnds
  <2> QED  BY <2>1 DEF SocketsInv, OnChannel
<1>8. ASSUME NEW p \in Pages, Browser!Receive(p) PROVE SocketsInv'
  BY <1>8, SocketsRest DEF Browser!Receive
<1> QED  BY <1>1, <1>2, <1>3, <1>4, <1>5, <1>6, <1>7, <1>8, ConnectSockets, TimeoutSockets,
            FrameSockets, CloseSockets, RotateSockets DEF Browser!Next

\* The actions left of a dispatch.
LEMMA NextActionIs ==
  ASSUME JobInv, job.at # "none", NEW j, j = Browser!NextAction(job)
  PROVE  j.at # "none" =>
           /\ j = [at |-> j.at, channel |-> j.channel, todo |-> j.todo]
           /\ j.channel \in Channels /\ j.todo \in Seq(Browser!Requests) /\ j.todo # <<>>
<1>1. /\ job = [at |-> job.at, channel |-> job.channel, todo |-> job.todo]
      /\ job.channel \in Channels /\ job.todo \in Seq(Browser!Requests) /\ job.todo # <<>>
  BY DEF JobInv
<1>2. CASE Len(job.todo) = 1
  BY <1>2 DEF Browser!NextAction, Browser!NoJob
<1>3. CASE Len(job.todo) # 1
  <2>1. Tail(job.todo) \in Seq(Browser!Requests) /\ Tail(job.todo) # <<>>
    <3>1. ASSUME NEW q \in Seq(Browser!Requests), q # <<>>, Len(q) # 1
          PROVE  Tail(q) \in Seq(Browser!Requests) /\ Tail(q) # <<>>
      <4>1. Len(q) \in Nat /\ Len(q) # 0
        BY <3>1, EmptySeq
      <4>2. Tail(q) \in Seq(Browser!Requests) /\ Len(Tail(q)) = Len(q) - 1
        BY <3>1
      <4>3. Len(Tail(q)) # 0
        BY <3>1, <4>1, <4>2
      <4> QED  BY <4>2, <4>3, EmptySeq
    <3> QED  BY <1>1, <1>3, <3>1
  <2>2. PICK c, t : c = job.channel /\ t = Tail(job.todo)
    OBVIOUS
  <2>3. j = [at |-> "running", channel |-> c, todo |-> t]
    BY <1>1, <1>3, <2>2 DEF Browser!NextAction
  <2> QED  BY <1>1, <2>1, <2>2, <2>3
<1> QED  BY <1>2, <1>3

LEMMA JobKeeps == ASSUME JobInv, Browser!Next PROVE JobInv'
<1>1. ASSUME NEW c \in Channels, NEW a \in Browser!Actions, NEW b \in Browser!Actions,
             Browser!Dispatch(c, a, b)
      PROVE  JobInv'
  <2>1. PICK t : t = <<a, b>>
    OBVIOUS
  <2>2. a \in Browser!Requests /\ b \in Browser!Requests
    BY DEF Browser!Actions
  <2>3. t \in Seq(Browser!Requests) /\ t # <<>>
    BY <2>1, <2>2
  <2>4. job' = [at |-> "running", channel |-> c, todo |-> t]
    BY <1>1, <2>1 DEF Browser!Dispatch
  <2> QED  BY <2>3, <2>4 DEF JobInv
<1>2. ASSUME job.at # "none", job' = Browser!NextAction(job) PROVE JobInv'
  <2>1. PICK j : j = Browser!NextAction(job)
    OBVIOUS
  <2> QED  BY <1>2, <2>1, NextActionIs DEF JobInv
<1>3. CASE Browser!DispatchAction
  <2>1. job.at # "none" /\ (job' = [job EXCEPT !.at = "reading"] \/ job' = Browser!NextAction(job))
    BY <1>3 DEF Browser!DispatchAction
  <2>2. CASE job' = [job EXCEPT !.at = "reading"]
    BY <2>1, <2>2 DEF JobInv
  <2> QED  BY <1>2, <2>1, <2>2
<1>4. CASE Browser!CollectionRead
  BY <1>2, <1>4 DEF Browser!CollectionRead
<1>5. job' = job => JobInv'
  BY DEF JobInv
<1> QED  BY <1>1, <1>3, <1>4, <1>5
         DEF Browser!Next, Browser!Rest, Browser!PublishSnapshot, Browser!Connect,
             Browser!AuthenticationTimeout, Browser!Frame, Browser!DeployFrame, Browser!CloseEvent,
             Browser!SessionEnds, Browser!RotateCredential, Browser!Receive

(***************************************************************************)
(* What a page shows: the messages.                                        *)
(***************************************************************************)
\* A result's messages join any queue.
LEMMA CarriedQueue ==
  ASSUME NEW q, IsQueue(q), NEW x, NEW r, Carries(x, r)
  PROVE  IsQueue(q \o r.messages)
<1>1. PICK S : q \in Seq(S)
  BY DEF IsQueue
<1>2. PICK T : r.messages \in Seq(T)
  <2>1. CASE r.messages = <<>>
    BY <2>1
  <2>2. ASSUME NEW m, r.messages = <<m>> PROVE r.messages \in Seq({m})
    BY <2>2
  <2>3. ASSUME NEW m, NEW n, r.messages = <<m, n>> PROVE r.messages \in Seq({m, n})
    BY <2>3
  <2> QED  BY <2>1, <2>2, <2>3 DEF Carries
<1>3. q \in Seq(S \cup T) /\ r.messages \in Seq(S \cup T)
  BY <1>1, <1>2
<1> QED  BY <1>3 DEF IsQueue

\* What a broadcast leaves on its way to a page.
LEMMA BroadcastTo ==
  ASSUME NEW k \in Browser!Keys, NEW ms, Browser!Broadcast(k, ms)
  PROVE  /\ inbox' = [p \in Pages |-> inbox'[p]]
         /\ \A p \in Pages : inbox'[p] = IF p \in subs[k] /\ conn[p] = "open"
                                         THEN inbox[p] \o ms ELSE inbox[p]
  BY DEF Browser!Broadcast

\* A channel takes a new state, and its subscribers what carries it.
LEMMA ChannelMoves ==
  ASSUME SubscriptionInv, SocketsInv, ContentInv, PagesInv, NEW c \in Channels, NEW r, IsChannel(r.state), HasMaps(r.state),
         ch' = [ch EXCEPT ![c] = r.state], Browser!Broadcast(c, r.messages),
         \A p \in Pages : p \in subs[c] => Carries(ch[c], r),
         UNCHANGED <<snap, subs, conn, view, first>>
  PROVE  ContentInv' /\ PagesInv'
<1>1. /\ ch' = [d \in Channels |-> ch'[d]] /\ \A d \in Channels : IsChannel(ch'[d]) /\ HasMaps(ch'[d])
      /\ \A d \in Channels : ch'[d] = IF d = c THEN r.state ELSE ch[d]
  BY DEF ContentInv
<1>2. c \in Browser!Keys
  BY DEF Browser!Keys
<1>3. /\ inbox' = [p \in Pages |-> inbox'[p]]
      /\ \A p \in Pages : inbox'[p] = IF p \in subs[c] /\ conn[p] = "open"
                                      THEN inbox[p] \o r.messages ELSE inbox[p]
  BY <1>2, BroadcastTo
<1>4. \A p \in Pages : IsQueue(inbox'[p])
  <2>1. ASSUME NEW p \in Pages PROVE IsQueue(inbox'[p])
    <3>1. IsQueue(inbox[p])
      BY DEF ContentInv
    <3>2. CASE p \in subs[c]
      <4>1. IsQueue(inbox[p] \o r.messages)
        BY <3>1, <3>2, CarriedQueue
      <4> QED  BY <1>3, <3>1, <4>1
    <3>3. CASE p \notin subs[c]
      BY <1>3, <3>1, <3>3
    <3> QED  BY <3>2, <3>3
  <2> QED  BY <2>1
<1>5. ContentInv'
  BY <1>1, <1>3, <1>4 DEF ContentInv
<1>6. ASSUME NEW p \in Pages, ~OnChannel(p) \/ p \in first
      PROVE  PageInv(p)'
  <2>1. PageInv(p)
    BY <1>6 DEF PagesInv
  <2>2. CASE p \in subs[c]
    <3>1. c = PageKey[p] /\ OnChannel(p) /\ conn[p] = "open"
      BY <1>2, <2>2, PagesSubscribe DEF OnChannel
    <3>2. /\ \E w : Arrives(view[p], inbox[p], w)
          /\ \A w : Arrives(view[p], inbox[p], w) => Matches(w, ch[c])
      BY <2>1, <2>2, <3>1 DEF PageInv, Right
    <3>3. IsQueue(inbox[p]) /\ Carries(ch[c], r)
      BY <2>2 DEF ContentInv
    <3>4. /\ \E w : Arrives(view[p], inbox[p] \o r.messages, w)
          /\ \A w : Arrives(view[p], inbox[p] \o r.messages, w) => Matches(w, r.state)
      BY <3>2, <3>3, CarriedOn
    <3>5. /\ inbox'[p] = inbox[p] \o r.messages /\ view'[p] = view[p] /\ ch'[PageKey[p]] = r.state
          /\ p \in subs'[PageKey[p]]
      BY <1>1, <1>3, <2>2, <3>1
    <3> QED  BY <3>1, <3>4, <3>5, ArrivesLater DEF PageInv, Right, OnChannel, Matches
  <2>3. CASE p \notin subs[c]
    <3>1. inbox'[p] = inbox[p] /\ view'[p] = view[p]
      BY <1>3, <2>3
    <3>2. p \in subs[PageKey[p]] /\ OnChannel(p) => ch'[PageKey[p]] = ch[PageKey[p]]
      BY <1>1, <2>3 DEF OnChannel
    <3> QED  BY <2>1, <3>1, <3>2, PageRests
  <2> QED  BY <2>2, <2>3
<1>7. PagesInv'
  BY <1>6 DEF PagesInv, OnChannel
<1> QED  BY <1>5, <1>7

LEMMA RequestMoves ==
  ASSUME NoStored, SubscriptionInv, SocketsInv, ContentInv, PagesInv,
         NEW c \in Channels, NEW o \in Browser!Requests, Browser!Apply(c, o),
         UNCHANGED <<snap, subs, conn, view, first>>
  PROVE  ContentInv' /\ PagesInv'
<1>1. PICK x : x = ch[c]
  OBVIOUS
<1>2. IsChannel(x) /\ HasMaps(x)
  BY <1>1 DEF ContentInv
<1>3. PICK r : r = Browser!Perform(x, o)
  OBVIOUS
<1>4. IsChannel(r.state) /\ HasMaps(r.state)
  BY <1>2, <1>3, PerformIsChannel, PerformKeepsMaps
<1>5. ch' = [ch EXCEPT ![c] = r.state] /\ Browser!Broadcast(c, r.messages)
  BY <1>1, <1>3 DEF Browser!Apply
<1>6. ASSUME NEW p \in Pages, p \in subs[c] PROVE Carries(x, r)
  <2>1. c \in Browser!Keys
    BY DEF Browser!Keys
  <2>2. c = PageKey[p]
    BY <1>6, <2>1, PagesSubscribe
  <2>3. o.op # "stored"
    <3>1. o.op \in Ops
      BY DEF Browser!Requests
    <3> QED  BY <2>2, <3>1 DEF NoStored, OnChannel
  <2> QED  BY <1>2, <1>3, <2>3, PerformCarries
<1> QED  BY <1>1, <1>4, <1>5, <1>6, ChannelMoves

LEMMA DeployMoves ==
  ASSUME SubscriptionInv, SocketsInv, ContentInv, PagesInv, NEW s \in Conns, Browser!DeployFrame(s)
  PROVE  ContentInv' /\ PagesInv'
<1>1. PICK c \in Channels, p \in Presets :
        \/ Browser!Deploy(s, c, Browser!ComponentDeploy(ch[c], p))
        \/ Browser!Deploy(s, c, Browser!SceneActivate(ch[c], p))
  BY DEF Browser!DeployFrame
<1>2. PICK x : x = ch[c]
  OBVIOUS
<1>3. IsChannel(x) /\ HasMaps(x)
  BY <1>2 DEF ContentInv
<1>4. PICK r : /\ r = Browser!ComponentDeploy(x, p) \/ r = Browser!SceneActivate(x, p)
               /\ Browser!Deploy(s, c, r)
  BY <1>1, <1>2
<1>5. Carries(x, r)
  BY <1>3, <1>4, DeployCarries
<1>6. IsChannel(r.state) /\ HasMaps(r.state)
  BY <1>3, <1>4, <1>5, DeployKeepsMaps DEF Carries
<1>7. /\ ch' = [ch EXCEPT ![c] = r.state] /\ Browser!Broadcast(c, r.messages)
      /\ UNCHANGED <<snap, subs, conn, view, first>>
  BY <1>4 DEF Browser!Deploy, Browser!DeployFrame
<1> QED  BY <1>2, <1>5, <1>6, <1>7, ChannelMoves

\* A snapshot changes nothing else of a view.
LEMMA SnapshotShown ==
  ASSUME NEW u, IsView(u), NEW m, m.type = "production.snapshot"
  PROVE  /\ IsView(Browser!Shown(u, m)) /\ Browser!Shown(u, m).snap = m.snap
         /\ \A x : Matches(u, x) => Matches(Browser!Shown(u, m), x)
<1>1. Browser!Shown(u, m) = [u EXCEPT !.snap = m.snap]
  BY DEF Browser!Shown
<1>2. Browser!Shown(u, m) = [els |-> u.els, vars |-> u.vars, theme |-> u.theme, orient |-> u.orient,
                             snap |-> m.snap]
  BY <1>1 DEF IsView
<1> QED  BY <1>2 DEF IsView, Matches

LEMMA SnapshotJoins ==
  ASSUME NEW q, NEW m, m.type = "production.snapshot"
  PROVE  /\ IsQueue(q) => IsQueue(Append(q, m)) /\ Append(q, m) = q \o <<m>>
         /\ Snapshots(q) => Snapshots(Append(q, m))
<1>1. ASSUME IsQueue(q) PROVE IsQueue(Append(q, m)) /\ Append(q, m) = q \o <<m>>
  <2>1. PICK S : q \in Seq(S)
    BY <1>1 DEF IsQueue
  <2>2. q \in Seq(S \cup {m}) /\ m \in S \cup {m}
    BY <2>1
  <2>3. Append(q, m) \in Seq(S \cup {m}) /\ Append(q, m) = q \o <<m>>
    BY <2>2
  <2> QED  BY <2>3 DEF IsQueue
<1>2. ASSUME Snapshots(q) PROVE Snapshots(Append(q, m))
  <2>1. PICK S : q \in Seq(S) /\ \A n \in S : n.type = "production.snapshot"
    BY <1>2 DEF Snapshots
  <2>2. q \in Seq(S \cup {m}) /\ m \in S \cup {m}
    BY <2>1
  <2>3. Append(q, m) \in Seq(S \cup {m})
    BY <2>2
  <2> QED  BY <2>1, <2>3 DEF Snapshots
<1> QED  BY <1>1, <1>2

LEMMA PublishMoves ==
  ASSUME SubscriptionInv, SocketsInv, ContentInv, PagesInv,
         NEW k \in Shows \X Browser!Buses, Browser!PublishSnapshot(k)
  PROVE  ContentInv' /\ PagesInv'
<1>1. PICK m : m = Browser!Snapshot(snap'[k])
  OBVIOUS
<1>2. /\ snap' = [snap EXCEPT ![k] = snap[k] + 1] /\ Browser!Broadcast(k, <<m>>)
      /\ UNCHANGED <<ch, subs, conn, view, first>>
  BY <1>1 DEF Browser!PublishSnapshot, Browser!sockets
<1>3. m.type = "production.snapshot" /\ m.snap = snap'[k]
  BY <1>1 DEF Browser!Snapshot
<1>4. k \in Browser!Keys
  BY DEF Browser!Keys
<1>5. /\ inbox' = [p \in Pages |-> inbox'[p]]
      /\ \A p \in Pages : inbox'[p] = IF p \in subs[k] /\ conn[p] = "open"
                                      THEN inbox[p] \o <<m>> ELSE inbox[p]
  BY <1>2, <1>4, BroadcastTo
<1>6. \A p \in Pages : inbox'[p] = IF p \in subs[k] /\ conn[p] = "open" THEN Append(inbox[p], m) ELSE inbox[p]
  BY <1>3, <1>5, SnapshotJoins DEF ContentInv
<1>7. /\ snap' = [j \in Shows \X Browser!Buses |-> snap'[j]]
      /\ \A j \in Shows \X Browser!Buses : j # k => snap'[j] = snap[j]
  BY <1>2 DEF ContentInv
<1>8. ContentInv'
  <2>1. ASSUME NEW p \in Pages PROVE IsQueue(inbox'[p])
    <3>1. IsQueue(inbox[p])
      BY DEF ContentInv
    <3>2. IsQueue(Append(inbox[p], m))
      BY <1>3, <3>1, SnapshotJoins
    <3> QED  BY <1>6, <3>1, <3>2
  <2> QED  BY <1>2, <1>5, <1>7, <2>1 DEF ContentInv
<1>9. ASSUME NEW p \in Pages, ~OnChannel(p) \/ p \in first
      PROVE  PageInv(p)'
  <2>1. PageInv(p)
    BY <1>9 DEF PagesInv
  <2>2. CASE p \in subs[k] /\ conn[p] = "open"
    <3>1. k = PageKey[p]
      BY <1>4, <2>2, PagesSubscribe
    <3>2. inbox'[p] = Append(inbox[p], m) /\ view'[p] = view[p] /\ IsQueue(inbox[p])
      BY <1>2, <1>6, <2>2 DEF ContentInv
    <3>3. \A w : Arrives(view[p], inbox[p], w)' <=> Arrives(view[p], Append(inbox[p], m), w)
      BY <3>2, ArrivesLater
    <3>4. ASSUME NEW w
          PROVE  Arrives(view[p], Append(inbox[p], m), w)
                   <=> \E u : Arrives(view[p], inbox[p], u) /\ w = Browser!Shown(u, m)
      BY <3>2, ArrivesAppend
    <3>5. \E w : Arrives(view[p], inbox[p], w)'
      BY <2>1, <3>3, <3>4 DEF PageInv
    <3>6. ASSUME NEW w, Arrives(view[p], inbox[p], w)'
          PROVE  Right(p, w)'
      <4>1. PICK u : Arrives(view[p], inbox[p], u) /\ w = Browser!Shown(u, m)
        BY <3>3, <3>4, <3>6
      <4>2. Right(p, u)
        BY <2>1, <4>1 DEF PageInv
      <4>3. IsView(w) /\ w.snap = snap'[k] /\ \A x : Matches(u, x) => Matches(w, x)
        BY <1>3, <4>1, <4>2, SnapshotShown DEF Right
      <4> QED  BY <1>2, <2>2, <3>1, <4>2, <4>3 DEF Right, OnChannel
    <3>7. ~OnChannel(p) => IsView(view'[p]) /\ Snapshots(inbox'[p])
      BY <1>3, <2>1, <3>2, SnapshotJoins DEF PageInv
    <3>8. p \in subs'[PageKey[p]]
      BY <1>2, <2>2, <3>1
    <3> QED  BY <3>5, <3>6, <3>7, <3>8 DEF PageInv, OnChannel
  <2>3. CASE ~(p \in subs[k] /\ conn[p] = "open")
    <3>1. inbox'[p] = inbox[p] /\ view'[p] = view[p]
      BY <1>2, <1>6, <2>3
    <3>2. p \in subs[PageKey[p]] /\ conn[p] = "open" /\ ~OnChannel(p) => snap'[PageKey[p]] = snap[PageKey[p]]
      <4>1. p \in subs[PageKey[p]] /\ conn[p] = "open" => PageKey[p] # k
        BY <2>3
      <4> QED  BY <1>7, <4>1, PagesAre
    <3> QED  BY <1>2, <2>1, <3>1, <3>2, PageRests
  <2> QED  BY <2>2, <2>3
<1>10. PagesInv'
  BY <1>2, <1>9 DEF PagesInv, OnChannel
<1> QED  BY <1>8, <1>10

LEMMA ReceiveMoves ==
  ASSUME SubscriptionInv, SocketsInv, ContentInv, PagesInv, NEW r \in Pages, Browser!Receive(r)
  PROVE  ContentInv' /\ PagesInv'
<1>1. /\ inbox[r] # <<>>
      /\ view' = [view EXCEPT ![r] = Browser!Shown(view[r], Head(inbox[r]))]
      /\ inbox' = [inbox EXCEPT ![r] = Tail(inbox[r])]
      /\ UNCHANGED <<ch, snap, subs, conn, first>>
  BY DEF Browser!Receive, Browser!server, Browser!sockets
<1>2. /\ view' = [p \in Pages |-> view'[p]] /\ inbox' = [p \in Pages |-> inbox'[p]]
      /\ \A p \in Pages : view'[p] = IF p = r THEN Browser!Shown(view[r], Head(inbox[r])) ELSE view[p]
      /\ \A p \in Pages : inbox'[p] = IF p = r THEN Tail(inbox[r]) ELSE inbox[p]
  BY <1>1 DEF ContentInv
<1>3. IsQueue(inbox[r])
  BY DEF ContentInv
<1>4. /\ IsQueue(Tail(inbox[r]))
      /\ \A w : Arrives(Browser!Shown(view[r], Head(inbox[r])), Tail(inbox[r]), w)
                  <=> Arrives(view[r], inbox[r], w)
  <2>1. PICK v, q : v = view[r] /\ q = inbox[r]
    OBVIOUS
  <2>2. IsQueue(q) /\ q # <<>>
    BY <1>1, <1>3, <2>1
  <2>3. \A w : IsQueue(Tail(q)) /\ (Arrives(Browser!Shown(v, Head(q)), Tail(q), w) <=> Arrives(v, q, w))
    BY <2>2, ArrivesTail
  <2> QED  BY <2>1, <2>3
<1>5. ContentInv'
  BY <1>1, <1>2, <1>4 DEF ContentInv
<1>6. ASSUME NEW p \in Pages, ~OnChannel(p) \/ p \in first
      PROVE  PageInv(p)'
  <2>1. PageInv(p)
    BY <1>6 DEF PagesInv
  <2>2. CASE p # r
    <3>1. inbox'[p] = inbox[p] /\ view'[p] = view[p]
      BY <1>2, <2>2
    <3> QED  BY <1>1, <2>1, <3>1, PageRests
  <2>3. CASE p = r
    <3>1. \A w : Arrives(view[p], inbox[p], w)' <=> Arrives(view[p], inbox[p], w)
      <4>1. \A w : Arrives(view[p], inbox[p], w)'
                     <=> Arrives(Browser!Shown(view[r], Head(inbox[r])), Tail(inbox[r]), w)
        BY <1>2, <2>3, ArrivesLater
      <4> QED  BY <1>4, <2>3, <4>1
    <3>2. \A w : Right(p, w) => Right(p, w)'
      BY <1>1 DEF Right, OnChannel
    <3>3. OnChannel(p) => p \in subs'[PageKey[p]]
      BY <1>1, <2>1, <2>3 DEF PageInv
    <3>4. ASSUME ~OnChannel(p) PROVE IsView(view'[p]) /\ Snapshots(inbox'[p])
      <4>1. PICK S : inbox[p] \in Seq(S) /\ \A m \in S : m.type = "production.snapshot"
        BY <2>1, <3>4 DEF PageInv, Snapshots
      <4>2. Head(inbox[p]) \in S /\ Tail(inbox[p]) \in Seq(S)
        BY <1>1, <2>3, <4>1
      <4>3. IsView(Browser!Shown(view[p], Head(inbox[p])))
        BY <2>1, <3>4, <4>1, <4>2, SnapshotShown DEF PageInv
      <4> QED  BY <1>2, <2>3, <4>1, <4>2, <4>3 DEF Snapshots
    <3> QED  BY <2>1, <3>1, <3>2, <3>3, <3>4 DEF PageInv, OnChannel
  <2> QED  BY <2>2, <2>3
<1>7. PagesInv'
  BY <1>1, <1>6 DEF PagesInv, OnChannel
<1> QED  BY <1>5, <1>7

(***************************************************************************)
(* What a page shows: who comes and goes.                                  *)
(***************************************************************************)
\* One connection is taken off the subscribers it was among; an emptied channel
\* is dropped.
Leaves(s) ==
  /\ \A k \in Browser!Keys : subs'[k] \subseteq subs[k] /\ subs[k] \ {s} \subseteq subs'[k]
  /\ ch' = [c \in Channels |-> ch'[c]]
  /\ \A c \in Channels : ch'[c] = ch[c] \/ (subs'[c] = {} /\ ch'[c] = Browser!Blank)

LEMMA DropLeaves ==
  ASSUME ContentInv, NEW s \in Conns, NEW ks, Browser!Drop(s, ks) \/ UNCHANGED <<subs, ch>>
  PROVE  Leaves(s)
<1>1. CASE UNCHANGED <<subs, ch>>
  BY <1>1 DEF Leaves, ContentInv
<1>2. CASE Browser!Drop(s, ks)
  <2>1. \A k \in Browser!Keys : subs'[k] \subseteq subs[k] /\ subs[k] \ {s} \subseteq subs'[k]
    BY <1>2 DEF Browser!Drop
  <2>2. /\ ch' = [c \in Channels |-> ch'[c]]
        /\ \A c \in Channels : ch'[c] = ch[c] \/ (subs'[c] = {} /\ ch'[c] = Browser!Blank)
    BY <1>2 DEF Browser!Drop
  <2> QED  BY <2>1, <2>2 DEF Leaves
<1> QED  BY <1>1, <1>2

LEMMA LeavesChannels == ASSUME ContentInv, NEW s, Leaves(s)
  PROVE /\ ch' = [c \in Channels |-> ch'[c]]
        /\ \A c \in Channels : IsChannel(ch'[c]) /\ HasMaps(ch'[c])
  BY BlankIs DEF Leaves, ContentInv

\* Whoever goes, and whatever sockets close, nothing new is on its way.
LEMMA LeavesMoves ==
  ASSUME SubscriptionInv, SocketsInv, ContentInv, PagesInv, NEW s \in Conns, Leaves(s),
         \A p \in Pages : OnChannel(p) /\ p = s => UNCHANGED subs \/ p \notin first',
         \A p \in Pages : conn'[p] = "open" => conn[p] = "open" \/ mine[p] = {},
         \/ inbox' = inbox
         \/ /\ inbox' = [p \in Pages |-> IF p = s THEN <<>> ELSE inbox[p]]
            /\ \A k \in Browser!Keys : s \notin subs'[k],
         first' \subseteq first, UNCHANGED <<snap, view>>
  PROVE  ContentInv' /\ PagesInv'
<1>0. IsQueue(<<>>) /\ Snapshots(<<>>)
  BY NothingArrives
<1>1. ContentInv'
  <2>1. inbox' = [p \in Pages |-> inbox'[p]] /\ \A p \in Pages : IsQueue(inbox'[p])
    BY <1>0 DEF ContentInv
  <2> QED  BY <2>1, LeavesChannels DEF ContentInv
<1>2. ASSUME NEW p \in Pages, ~OnChannel(p) \/ p \in first'
      PROVE  PageInv(p)'
  <2>1. PageInv(p)
    BY <1>2 DEF PagesInv
  <2>2. PageKey[p] \in Browser!Keys /\ p \in Conns
    BY PagesAre
  <2>3. p \in subs'[PageKey[p]] => p \in subs[PageKey[p]]
    BY <2>2 DEF Leaves
  <2>4. OnChannel(p) /\ p \in subs'[PageKey[p]] => ch'[PageKey[p]] = ch[PageKey[p]]
    BY <2>2 DEF Leaves, OnChannel
  <2>5. OnChannel(p) /\ p \in subs[PageKey[p]] => p \in subs'[PageKey[p]]
    BY <1>2, <2>2 DEF Leaves
  <2>6. p \in subs[PageKey[p]] /\ conn'[p] = "open" => conn[p] = "open"
    <3>1. p \in subs[PageKey[p]] => mine[p] # {}
      BY <2>2 DEF SubscriptionInv, OutputsSeeOnlyTheirProgram, Browser!OutputsSeeOnlyTheirProgram,
                  Browser!SubscriptionsAgree
    <3> QED  BY <3>1
  <2>7. CASE inbox'[p] = inbox[p]
    BY <2>1, <2>3, <2>4, <2>5, <2>6, <2>7, PageRests
  <2>8. CASE inbox'[p] # inbox[p]
    <3>1. p = s /\ inbox'[p] = <<>> /\ p \notin subs'[PageKey[p]]
      BY <2>2, <2>8
    <3>2. ~OnChannel(p)
      BY <2>1, <2>5, <2>8, <3>1 DEF PageInv
    <3>3. IsView(view[p])
      BY <2>1, <3>2 DEF PageInv
    <3>4. \A w : Arrives(view[p], inbox[p], w)' <=> Arrives(view[p], <<>>, w)
      BY <3>1, ArrivesLater
    <3>5. \A w : Arrives(view[p], inbox[p], w)' <=> w = view[p]
      BY <3>4, ArrivesEmpty
    <3>6. \A w : IsView(w) => Right(p, w)'
      BY <3>1 DEF Right
    <3> QED  BY <1>0, <3>1, <3>2, <3>3, <3>5, <3>6 DEF PageInv, OnChannel
  <2> QED  BY <2>7, <2>8
<1>3. PagesInv'
  BY <1>2 DEF PagesInv, OnChannel
<1> QED  BY <1>1, <1>3

LEMMA NobodyLeaves ==
  ASSUME SubscriptionInv, SocketsInv, ContentInv, PagesInv, UNCHANGED <<subs, ch, snap, view, inbox, first>>,
         \A p \in Pages : conn'[p] = "open" => conn[p] = "open" \/ mine[p] = {}
  PROVE  ContentInv' /\ PagesInv'
<1>1. ContentInv'
  BY DEF ContentInv
<1>2. ASSUME NEW p \in Pages, ~OnChannel(p) \/ p \in first
      PROVE  PageInv(p)'
  <2>1. PageInv(p)
    BY <1>2 DEF PagesInv
  <2>2. PageKey[p] \in Browser!Keys /\ p \in Conns
    BY PagesAre
  <2>3. p \in subs[PageKey[p]] => mine[p] # {}
    BY <2>2 DEF SubscriptionInv, OutputsSeeOnlyTheirProgram, Browser!OutputsSeeOnlyTheirProgram,
                Browser!SubscriptionsAgree
  <2> QED  BY <2>1, <2>3, PageRests
<1>3. PagesInv'
  BY <1>2 DEF PagesInv, OnChannel
<1> QED  BY <1>1, <1>3

LEMMA ConfirmedShown ==
  ASSUME NEW x, IsChannel(x), HasMaps(x)
  PROVE  Matches(Browser!Shown(Browser!BlankView, Browser!Confirmed(x)), x)
<1>1. PICK m : m = Browser!Confirmed(x)
  OBVIOUS
<1>2. m.type = "subscription.confirmed" /\ m.state = x
  BY <1>1 DEF Browser!Confirmed
<1>3. PICK v : v = Browser!BlankView
  OBVIOUS
<1>4. v = [els |-> Browser!Nothing, vars |-> Browser!Nothing, theme |-> NoTheme, orient |-> "landscape", snap |-> 0]
  BY <1>3 DEF Browser!BlankView
<1> DEFINE e == Browser!Over(v.els, x.els)
           ws == Browser!Over(v.vars, x.vars)
           th == IF x.theme = NoTheme THEN v.theme ELSE x.theme
<1>5. Browser!Shown(v, m) = [v EXCEPT !.els = e, !.vars = ws, !.theme = th, !.orient = x.orient]
  BY <1>2 DEF Browser!Shown
<1>6. e = x.els
  <2>1. v.els = Browser!Nothing
    BY <1>4
  <2>2. DOMAIN Browser!Nothing = {}
    BY DEF Browser!Nothing
  <2>3. e = [i \in DOMAIN x.els |-> x.els[i]]
    BY <2>1, <2>2 DEF Browser!Over
  <2> QED  BY <2>3 DEF HasMaps, IsMap
<1>7. Has(ws, x.vars)
  BY OverHas
<1>8. th = x.theme
  BY <1>4
<1> HIDE DEF e, ws, th
<1>9. Browser!Shown(v, m) = [els |-> e, vars |-> ws, theme |-> th, orient |-> x.orient, snap |-> 0]
  BY <1>4, <1>5
<1> QED  BY <1>1, <1>3, <1>6, <1>7, <1>8, <1>9 DEF Matches, IsView

LEMMA SubscribeMoves ==
  ASSUME SubscriptionInv, SocketsInv, ContentInv, PagesInv, NEW s \in Conns, NEW k \in Browser!Keys,
         conn[s] # "none", s \in Pages => k = PageKey[s], Browser!Subscribe(s, k), snap' = snap
  PROVE  ContentInv' /\ PagesInv'
<1>1. /\ k \notin mine[s] /\ subs' = [subs EXCEPT ![k] = subs[k] \cup {s}]
      /\ UNCHANGED <<ch, snap, conn, view, first>>
  BY DEF Browser!Subscribe
<1>2. PICK m : m = Browser!Confirmation(k)
  OBVIOUS
<1>3. /\ inbox' = [p \in Pages |-> inbox'[p]]
      /\ \A p \in Pages : inbox'[p] = IF p = s /\ conn[s] = "open" THEN Append(inbox[p], m) ELSE inbox[p]
  BY <1>2 DEF Browser!Subscribe
<1>4. \A j \in Browser!Keys : subs'[j] = IF j = k THEN subs[j] \cup {s} ELSE subs[j]
  BY <1>1 DEF SubscriptionInv, SubscriptionTypes
<1>5. s \notin subs[k]
  BY <1>1 DEF SubscriptionInv, OutputsSeeOnlyTheirProgram, Browser!OutputsSeeOnlyTheirProgram,
              Browser!SubscriptionsAgree
<1>6. ContentInv'
  <2>1. ASSUME NEW p \in Pages PROVE IsQueue(inbox'[p])
    <3>1. IsQueue(inbox[p])
      BY DEF ContentInv
    <3>2. IsQueue(Append(inbox[p], m))
      BY <3>1, ArrivesAppend
    <3> QED  BY <1>3, <3>1, <3>2
  <2> QED  BY <1>1, <1>3, <2>1 DEF ContentInv
<1>7. ASSUME NEW p \in Pages, ~OnChannel(p) \/ p \in first
      PROVE  PageInv(p)'
  <2>1. PageInv(p)
    BY <1>7 DEF PagesInv
  <2>2. PageKey[p] \in Browser!Keys /\ p \in Conns
    BY PagesAre
  <2>3. CASE p # s
    <3>1. inbox'[p] = inbox[p] /\ view'[p] = view[p]
      BY <1>1, <1>3, <2>3
    <3>2. p \in subs'[PageKey[p]] <=> p \in subs[PageKey[p]]
      <4>1. subs'[PageKey[p]] = IF PageKey[p] = k THEN subs[PageKey[p]] \cup {s} ELSE subs[PageKey[p]]
        BY <1>4, <2>2
      <4> QED  BY <2>3, <4>1
    <3>3. /\ p \in subs'[PageKey[p]] =>
               /\ p \in subs[PageKey[p]]
               /\ OnChannel(p) => ch'[PageKey[p]] = ch[PageKey[p]]
               /\ ~OnChannel(p) /\ conn'[p] = "open" =>
                    conn[p] = "open" /\ snap'[PageKey[p]] = snap[PageKey[p]]
          /\ OnChannel(p) /\ p \in subs[PageKey[p]] => p \in subs'[PageKey[p]]
      BY <1>1, <3>2
    <3> QED  BY <2>1, <3>1, <3>3, PageRests
  <2>4. CASE p = s /\ OnChannel(p)
    <3>1. k = PageKey[p] /\ k \in Channels /\ conn[p] = "open"
      BY <2>4, StudioPages DEF OnChannel
    <3>2. view[p] = Browser!BlankView /\ inbox[p] = <<>>
      BY <1>5, <2>1, <2>4, <3>1 DEF PageInv
    <3>3. m = Browser!Confirmed(ch[k])
      BY <1>2, <3>1 DEF Browser!Confirmation
    <3>4. PICK x : x = ch[k]
      OBVIOUS
    <3>5. Matches(Browser!Shown(Browser!BlankView, m), x)
      BY <3>1, <3>3, <3>4, ConfirmedShown DEF ContentInv
    <3>6. view'[p] = Browser!BlankView /\ inbox'[p] = Append(<<>>, m)
      BY <1>1, <1>3, <2>4, <3>1, <3>2
    <3>7. IsQueue(<<>>)
      BY <3>2 DEF ContentInv
    <3>8. ASSUME NEW w
          PROVE  Arrives(view[p], inbox[p], w)' <=> w = Browser!Shown(Browser!BlankView, m)
      <4>1. Arrives(view[p], inbox[p], w)' <=> Arrives(Browser!BlankView, Append(<<>>, m), w)
        BY <3>6, ArrivesLater
      <4>2. Arrives(Browser!BlankView, Append(<<>>, m), w)
              <=> \E u : Arrives(Browser!BlankView, <<>>, u) /\ w = Browser!Shown(u, m)
        <5>1. PICK b, q : b = Browser!BlankView /\ q = <<>>
          OBVIOUS
        <5>2. IsQueue(q)
          BY <3>7, <5>1
        <5>3. Arrives(b, Append(q, m), w) <=> \E u : Arrives(b, q, u) /\ w = Browser!Shown(u, m)
          BY <5>2, ArrivesAppend
        <5> QED  BY <5>1, <5>3
      <4>3. \A u : Arrives(Browser!BlankView, <<>>, u) <=> u = Browser!BlankView
        BY ArrivesEmpty
      <4> QED  BY <4>1, <4>2, <4>3
    <3>9. \A w : Arrives(view[p], inbox[p], w)' => Right(p, w)'
      BY <1>1, <2>4, <3>1, <3>4, <3>5, <3>8 DEF Right, OnChannel, Matches
    <3>10. p \in subs'[PageKey[p]] /\ \E w : Arrives(view[p], inbox[p], w)'
      BY <1>4, <2>4, <3>1, <3>8
    <3> QED  BY <2>4, <3>9, <3>10 DEF PageInv, OnChannel
  <2>5. CASE p = s /\ ~OnChannel(p) /\ conn[p] = "open"
    <3>1. k = PageKey[p] /\ k \notin Channels
      BY <2>5 DEF OnChannel
    <3>2. m.type = "production.snapshot" /\ m.snap = snap[k]
      BY <1>2, <3>1 DEF Browser!Confirmation, Browser!Snapshot
    <3>3. view'[p] = view[p] /\ inbox'[p] = Append(inbox[p], m) /\ IsQueue(inbox[p])
      BY <1>1, <1>3, <2>5 DEF ContentInv
    <3>4. \A w : Arrives(view[p], inbox[p], w)' <=> Arrives(view[p], Append(inbox[p], m), w)
      BY <3>3, ArrivesLater
    <3>5. ASSUME NEW w
          PROVE  Arrives(view[p], Append(inbox[p], m), w)
                   <=> \E u : Arrives(view[p], inbox[p], u) /\ w = Browser!Shown(u, m)
      BY <3>3, ArrivesAppend
    <3>6. \E w : Arrives(view[p], inbox[p], w)'
      BY <2>1, <3>4, <3>5 DEF PageInv
    <3>7. ASSUME NEW w, Arrives(view[p], inbox[p], w)' PROVE Right(p, w)'
      <4>1. PICK u : Arrives(view[p], inbox[p], u) /\ w = Browser!Shown(u, m)
        BY <3>4, <3>5, <3>7
      <4>2. IsView(u)
        BY <2>1, <4>1 DEF PageInv, Right
      <4>3. IsView(w) /\ w.snap = snap[k]
        BY <3>2, <4>1, <4>2, SnapshotShown
      <4> QED  BY <1>1, <2>5, <3>1, <4>3 DEF Right, OnChannel
    <3>8. IsView(view'[p]) /\ Snapshots(inbox'[p])
      BY <2>1, <2>5, <3>2, <3>3, SnapshotJoins DEF PageInv
    <3> QED  BY <2>5, <3>6, <3>7, <3>8 DEF PageInv, OnChannel
  <2>6. CASE p = s /\ ~OnChannel(p) /\ conn[p] # "open"
    <3>1. view'[p] = view[p] /\ inbox'[p] = inbox[p]
      BY <1>1, <1>3, <2>6
    <3>2. \A w : Arrives(view[p], inbox[p], w)' <=> Arrives(view[p], inbox[p], w)
      BY <3>1, ArrivesLater
    <3>3. \A w : Right(p, w) => Right(p, w)'
      BY <1>1, <2>6 DEF Right, OnChannel
    <3> QED  BY <2>1, <2>6, <3>1, <3>2, <3>3 DEF PageInv, OnChannel
  <2> QED  BY <2>3, <2>4, <2>5, <2>6
<1>8. PagesInv'
  BY <1>1, <1>7 DEF PagesInv, OnChannel
<1> QED  BY <1>6, <1>8

LEMMA FrameMoves ==
  ASSUME SubscriptionInv, SocketsInv, ContentInv, PagesInv, NEW s \in Conns, Browser!Frame(s)
  PROVE  ContentInv' /\ PagesInv'
<1>1. conn[s] # "none" /\ snap' = snap
  BY DEF Browser!Frame
<1>2. CASE Browser!Unauthenticated(s)
  <2>1. (Browser!TearDown(s) \/ UNCHANGED <<subs, ch>>) /\ Browser!Closing(s) /\ UNCHANGED <<view, inbox, first>>
    BY <1>2 DEF Browser!Unauthenticated, Browser!pages
  <2>2. ~(s \in Pages /\ OnChannel(s))
    BY <1>1, <1>2, StudioPages DEF Browser!Unauthenticated, Browser!SessionHolds
  <2>3. \A c \in Conns : conn'[c] = "open" => conn[c] = "open"
    BY <2>1, ClosingIs
  <2>4. Leaves(s)
    BY <2>1, DropLeaves DEF Browser!TearDown
  <2> QED  BY <1>1, <2>1, <2>2, <2>3, <2>4, LeavesMoves, PagesAre
<1>3. CASE (s \in Pages => PageKey[s] \notin Channels) /\ Browser!AuthenticateOutput(s)
  <2>1. /\ UNCHANGED <<view, inbox, first>>
        /\ Browser!TearDown(s) \/ UNCHANGED <<subs, ch>>
        /\ conn' = conn \/ Browser!Closing(s)
    BY <1>3 DEF Browser!AuthenticateOutput, Browser!pages
  <2>2. ~(s \in Pages /\ OnChannel(s))
    BY <1>3 DEF OnChannel
  <2>3. \A c \in Conns : conn'[c] = "open" => conn[c] = "open"
    BY <2>1, ClosingIs
  <2>4. Leaves(s)
    BY <2>1, DropLeaves DEF Browser!TearDown
  <2> QED  BY <1>1, <2>1, <2>2, <2>3, <2>4, LeavesMoves, PagesAre
<1>4. ASSUME NEW k \in Browser!Keys, s \in Pages => k = PageKey[s], Browser!Subscribe(s, k)
      PROVE  ContentInv' /\ PagesInv'
  BY <1>1, <1>4, SubscribeMoves
<1>5. ASSUME s \notin Pages, NEW k \in Browser!Keys, Browser!Unsubscribe(s, k)
      PROVE  ContentInv' /\ PagesInv'
  <2>1. Browser!Drop(s, {k}) /\ UNCHANGED <<conn, view, inbox, first>>
    BY <1>5 DEF Browser!Unsubscribe, Browser!pages
  <2>2. Leaves(s)
    BY <2>1, DropLeaves
  <2> QED  BY <1>1, <1>5, <2>1, <2>2, LeavesMoves
<1> QED  BY <1>2, <1>3, <1>4, <1>5 DEF Browser!Frame

LEMMA CloseMoves ==
  ASSUME SubscriptionInv, SocketsInv, ContentInv, PagesInv, NEW s \in Conns, Browser!CloseEvent(s)
  PROVE  ContentInv' /\ PagesInv'
<1>1. /\ Browser!Drop(s, mine[s]) /\ conn' = [conn EXCEPT ![s] = "none"]
      /\ inbox' = [p \in Pages |-> IF p = s THEN <<>> ELSE inbox[p]]
      /\ first' = first \ {s} /\ UNCHANGED <<snap, view>>
  BY DEF Browser!CloseEvent, Browser!TearDown
<1>2. Leaves(s)
  BY <1>1, DropLeaves
<1>3. \A c \in Conns : conn'[c] = "open" => conn[c] = "open"
  BY <1>1 DEF SocketsInv
<1>4. ASSUME NEW k \in Browser!Keys PROVE s \notin subs'[k]
  <2>1. subs'[k] = IF k \in mine[s] THEN subs[k] \ {s} ELSE subs[k]
    BY <1>1 DEF Browser!Drop
  <2>2. s \in subs[k] <=> k \in mine[s]
    BY DEF SubscriptionInv, OutputsSeeOnlyTheirProgram, Browser!OutputsSeeOnlyTheirProgram,
           Browser!SubscriptionsAgree
  <2> QED  BY <2>1, <2>2
<1> QED  BY <1>1, <1>2, <1>3, <1>4, LeavesMoves, PagesAre

\* Sockets that come, are closed or lose their session.
LEMMA SocketMoves ==
  ASSUME SubscriptionInv, SocketsInv, ContentInv, PagesInv,
         \/ \E s \in Conns : \/ \E cookie \in BOOLEAN : Browser!Connect(s, cookie)
                             \/ Browser!AuthenticationTimeout(s) \/ Browser!SessionEnds(s)
         \/ \E w \in Shows : Browser!RotateCredential(w)
         \/ UNCHANGED Browser!vars
  PROVE  ContentInv' /\ PagesInv'
<1> USE DEF Browser!server, Browser!pages, Browser!sockets
<1>1. UNCHANGED <<subs, ch, snap, view, inbox, first>>
  BY DEF Browser!Connect, Browser!AuthenticationTimeout, Browser!SessionEnds, Browser!RotateCredential,
         Browser!vars
<1>2. \A p \in Pages : conn'[p] = "open" => conn[p] = "open" \/ mine[p] = {}
  <2>1. ASSUME NEW s \in Conns, NEW cookie \in BOOLEAN, Browser!Connect(s, cookie)
        PROVE  \A p \in Pages : conn'[p] = "open" => conn[p] = "open" \/ mine[p] = {}
    <3>1. conn[s] = "none" /\ conn' = [conn EXCEPT ![s] = "open"]
      BY <2>1 DEF Browser!Connect
    <3>2. mine[s] = {}
      BY <3>1 DEF SocketsInv
    <3> QED  BY <3>1, <3>2, PagesAre DEF SocketsInv
  <2>2. ASSUME NEW s \in Conns, Browser!AuthenticationTimeout(s)
        PROVE  \A p \in Pages : conn'[p] = "open" => conn[p] = "open"
    BY <2>2, ClosingIs, PagesAre DEF Browser!AuthenticationTimeout
  <2>3. ASSUME NEW w \in Shows, Browser!RotateCredential(w)
        PROVE  \A p \in Pages : conn'[p] = "open" => conn[p] = "open"
    BY <2>3, PagesAre DEF Browser!RotateCredential
  <2>4. ASSUME NEW s \in Conns, Browser!SessionEnds(s) PROVE conn' = conn
    BY <2>4 DEF Browser!SessionEnds
  <2>5. (UNCHANGED Browser!vars) => conn' = conn
    BY DEF Browser!vars
  <2> QED  BY <2>1, <2>2, <2>3, <2>4, <2>5
<1> QED  BY <1>1, <1>2, NobodyLeaves

\* A dispatch: each action is a request, and waiting changes nothing.
LEMMA DispatchMoves ==
  ASSUME NoStored, SubscriptionInv, SocketsInv, JobInv, ContentInv, PagesInv,
         \/ \E c \in Channels, a, b \in Browser!Actions : Browser!Dispatch(c, a, b)
         \/ Browser!DispatchAction \/ Browser!CollectionRead
  PROVE  ContentInv' /\ PagesInv'
<1> USE DEF Browser!server, Browser!pages, Browser!sockets
<1>1. UNCHANGED <<snap, subs, conn, view, first>>
  BY DEF Browser!Dispatch, Browser!DispatchAction, Browser!CollectionRead
<1>2. CASE UNCHANGED <<ch, inbox>>
  BY <1>1, <1>2, NobodyLeaves
<1>3. CASE job.at # "none" /\ Browser!Apply(job.channel, Head(job.todo))
  <2>1. PICK q : q = job.todo
    OBVIOUS
  <2>2. job.channel \in Channels /\ q \in Seq(Browser!Requests) /\ q # <<>>
    BY <1>3, <2>1 DEF JobInv
  <2>3. Head(q) \in Browser!Requests
    BY <2>2
  <2> QED  BY <1>1, <1>3, <2>1, <2>2, <2>3, RequestMoves
<1>4. UNCHANGED <<ch, inbox>> \/ (job.at # "none" /\ Browser!Apply(job.channel, Head(job.todo)))
  BY DEF Browser!Dispatch, Browser!DispatchAction, Browser!CollectionRead
<1> QED  BY <1>2, <1>3, <1>4

LEMMA PagesKeep ==
  ASSUME NoStored, SubscriptionInv, SocketsInv, JobInv, ContentInv, PagesInv,
         Browser!Next
  PROVE  ContentInv' /\ PagesInv'
<1>1. ASSUME NEW c \in Channels, NEW o \in Browser!Requests, Browser!Rest(c, o)
      PROVE  ContentInv' /\ PagesInv'
  BY <1>1, RequestMoves DEF Browser!Rest, Browser!sockets
<1> QED  BY <1>1, DispatchMoves, PublishMoves, SocketMoves, FrameMoves, DeployMoves, CloseMoves,
            ReceiveMoves DEF Browser!Next

LEMMA FollowKeeps ==
  ASSUME NoStored, FollowInv, [Browser!Next]_(Browser!vars)
  PROVE  FollowInv'
<1>1. SubscriptionInv'
  BY FramesKeep, CloseKeeps, OtherStepsKeep DEF Browser!Next, FollowInv
<1>2. CASE Browser!Next
  BY <1>1, <1>2, SocketsKeep, JobKeeps, PagesKeep DEF FollowInv
<1>3. CASE UNCHANGED Browser!vars
  <2>1. SocketsInv' /\ JobInv'
    BY <1>3, SocketsRest DEF Browser!vars, Browser!sockets, Browser!auth, FollowInv, NobodyMoves, JobInv
  <2> QED  BY <1>1, <1>3, <2>1, SocketMoves DEF FollowInv
<1> QED  BY <1>2, <1>3

LEMMA FollowersSee == FollowInv => PagesFollow
<1> SUFFICES ASSUME FollowInv PROVE PagesFollow
  OBVIOUS
<1>1. ASSUME NEW p \in Pages, ~OnChannel(p) \/ p \in first
      PROVE  Right(p, Browser!Settled(p))
  <2>1. PageInv(p)
    BY <1>1 DEF FollowInv, PagesInv
  <2> QED  BY <2>1, SettledArrives DEF PageInv
<1>2. first \subseteq Pages
  BY DEF FollowInv, ContentInv
<1>3. ASSUME NEW p \in first, Browser!Following(p)
      PROVE  Matches(Browser!Settled(p), Browser!Channel(p))
  BY <1>1, <1>2, <1>3 DEF Right, Browser!Following, Browser!Channel, OnChannel
<1>4. Browser!OverlayFollowsChannel
  BY <1>3 DEF Browser!OverlayFollowsChannel, Matches, Has
<1>5. Browser!OverlayFollowsProduction
  BY <1>1 DEF Right, Browser!OverlayFollowsProduction, OnChannel
<1> QED  BY <1>4, <1>5 DEF PagesFollow, Browser!PagesFollow

(* Whatever requests, dispatched actions, deploys, closes and reconnects   *)
(* interleave, a page on its first connection settles on the elements,     *)
(* theme and orientation of its channel and holds all its variables, and a *)
(* page on a production bus settles on its current snapshot                *)
(* (Channels.PagesFollow): for any number of pages and sockets, and any    *)
(* elements and values, where nobody activates a stored scene on the       *)
(* channel of a page.                                                      *)
THEOREM PagesFollowTheServer == NoStored => (Browser!Spec => []PagesFollow)
<1> SUFFICES ASSUME NoStored PROVE Browser!Spec => []PagesFollow
  OBVIOUS
<1>1. FollowInv /\ [Browser!Next]_(Browser!vars) => FollowInv'
  BY FollowKeeps
<1>2. Browser!Init => FollowInv
  BY FollowStarts
<1> QED  BY <1>1, <1>2, FollowersSee, PTL DEF Browser!Spec
=============================================================================

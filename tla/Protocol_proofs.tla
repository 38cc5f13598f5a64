--------------------------- MODULE Protocol_proofs ---------------------------
(***************************************************************************)
(* Proofs about what crosses the wire to a device, for every element tree, *)
(* number of revisions, keys and envelopes: what a device shows as         *)
(* current, what it holds, and what a button shows of its control.         *)
(***************************************************************************)
EXTENDS Protocol, TLAPS

(***************************************************************************)
(* What a device shows as current.                                         *)
(***************************************************************************)

(* The time a state or a frame carries is one at which production held the *)
(* revision it carries.                                                    *)
Dated(t, x, s, n) ==
  /\ x.rev \in 1 .. Len(s[t]) /\ x.at \in Int /\ x.at <= n
  /\ s[t][x.rev] <= x.at
  /\ x.rev + 1 <= Len(s[t]) => x.at <= s[t][x.rev + 1]

HistoryInv ==
  /\ now \in Int /\ offset \in Int
  /\ since = [t \in Targets |-> since[t]]
  /\ prod = [t \in Targets |-> prod[t]]
  /\ \A t \in Targets :
       /\ since[t] \in Seq(Int) /\ prod[t].rev = Len(since[t]) /\ Len(since[t]) > 0
       /\ \A i \in 1 .. Len(since[t]) : since[t][i] <= now

(* It is so of what was captured, of every frame made from it, and of what *)
(* the device holds.                                                       *)
FramesInv ==
  /\ HistoryInv
  /\ build = [t \in Targets |-> build[t]] /\ dev = [t \in Targets |-> dev[t]]
  /\ \A t \in Targets : build[t] # NoFrame =>
       build[t].in.target = t /\ Dated(t, build[t].in, since, now)
  /\ \A m \in net : m.env.audience = "me" =>
       m.env.frame.target \in Targets /\ Dated(m.env.frame.target, m.env.frame, since, now)
  /\ \A t \in Targets : dev[t] # NoFrame => Dated(t, dev[t].st, since, now)

LEMMA FramesStart ==
  ASSUME Frames!FramesAssumption, Frames!Init
  PROVE  FramesInv
<1>1. /\ since = [t \in Targets |-> <<0>>] /\ now = 0 /\ offset \in Int /\ net = {}
      /\ build = [t \in Targets |-> NoFrame] /\ dev = [t \in Targets |-> NoFrame]
  BY DEF Frames!Init, Frames!FramesAssumption
<1>2. PICK n : prod = [t \in Targets |-> [rev |-> 1, nodes |-> n]]
  BY DEF Frames!Init
<1>3. <<0>> \in Seq(Int) /\ Len(<<0>>) = 1 /\ <<0>>[1] = 0
  OBVIOUS
<1>4. HistoryInv
  BY <1>1, <1>2, <1>3 DEF HistoryInv
<1> QED  BY <1>1, <1>4 DEF FramesInv

\* What is dated stays so while time passes.
LEMMA DatesLast ==
  ASSUME HistoryInv, NEW t \in Targets, NEW x, Dated(t, x, since, now),
         since' = since, now' \in {now, now + 1}
  PROVE  Dated(t, x, since', now')
  BY DEF HistoryInv, Dated

\* Production stands still.
LEMMA FramesKeep ==
  ASSUME FramesInv, UNCHANGED <<prod, since, offset>>, now' \in {now, now + 1},
         build' = [t \in Targets |-> build'[t]], dev' = [t \in Targets |-> dev'[t]],
         \A t \in Targets : build'[t] # NoFrame =>
           \/ build'[t] = build[t]
           \/ build'[t].in.target = t /\ Dated(t, build'[t].in, since, now),
         \A m \in net' : m.env.audience = "me" =>
           \/ m \in net
           \/ m.env.frame.target \in Targets /\ Dated(m.env.frame.target, m.env.frame, since, now),
         \A t \in Targets : dev'[t] # NoFrame =>
           dev'[t] = dev[t] \/ Dated(t, dev'[t].st, since, now)
  PROVE  FramesInv'
<1>1. HistoryInv'
  BY DEF FramesInv, HistoryInv
<1>2. ASSUME NEW t \in Targets, build'[t] # NoFrame
      PROVE  build'[t].in.target = t /\ Dated(t, build'[t].in, since', now')
  BY <1>2, DatesLast DEF FramesInv
<1>3. ASSUME NEW m \in net', m.env.audience = "me"
      PROVE  m.env.frame.target \in Targets /\ Dated(m.env.frame.target, m.env.frame, since', now')
  BY <1>3, DatesLast DEF FramesInv
<1>4. ASSUME NEW t \in Targets, dev'[t] # NoFrame
      PROVE  Dated(t, dev'[t].st, since', now')
  BY <1>4, DatesLast DEF FramesInv
<1> QED  BY <1>1, <1>2, <1>3, <1>4 DEF FramesInv

LEMMA ProductionMovesOn ==
  ASSUME FramesInv, NEW t \in Targets, Frames!ProductionChanges(t)
  PROVE  FramesInv'
<1>1. /\ since' = [since EXCEPT ![t] = Append(since[t], now)]
      /\ UNCHANGED <<build, dev, net, now, offset>>
  BY DEF Frames!ProductionChanges, Frames!device
<1>2. PICK n : prod' = [prod EXCEPT ![t] = [rev |-> prod[t].rev + 1, nodes |-> n]]
  BY DEF Frames!ProductionChanges
<1>3. HistoryInv
  BY DEF FramesInv
<1>4. /\ since' = [q \in Targets |-> since'[q]]
      /\ since'[t] \in Seq(Int) /\ Len(since'[t]) = Len(since[t]) + 1
      /\ since'[t][Len(since[t]) + 1] = now
      /\ \A i \in 1 .. Len(since[t]) : since'[t][i] = since[t][i]
      /\ \A q \in Targets \ {t} : since'[q] = since[q]
  <2> DEFINE more == Append(since[t], now)
  <2>1. since[t] \in Seq(Int) /\ now \in Int /\ since = [q \in Targets |-> since[q]]
    BY <1>3 DEF HistoryInv
  <2>2. /\ more \in Seq(Int) /\ Len(more) = Len(since[t]) + 1 /\ more[Len(since[t]) + 1] = now
        /\ \A i \in 1 .. Len(since[t]) : more[i] = since[t][i]
    BY <2>1
  <2> HIDE DEF more
  <2>3. since' = [since EXCEPT ![t] = more]
    BY <1>1 DEF more
  <2> QED  BY <2>1, <2>2, <2>3
<1>5. HistoryInv'
  <2>1. /\ prod' = [q \in Targets |-> prod'[q]] /\ prod'[t].rev = prod[t].rev + 1
        /\ \A q \in Targets \ {t} : prod'[q] = prod[q]
    BY <1>2, <1>3 DEF HistoryInv
  <2>2. ASSUME NEW q \in Targets
        PROVE  /\ since'[q] \in Seq(Int) /\ prod'[q].rev = Len(since'[q]) /\ Len(since'[q]) > 0
               /\ \A i \in 1 .. Len(since'[q]) : since'[q][i] <= now
    <3>1. /\ since[q] \in Seq(Int) /\ prod[q].rev = Len(since[q]) /\ Len(since[q]) > 0 /\ now \in Int
          /\ \A i \in 1 .. Len(since[q]) : since[q][i] <= now
      BY <1>3 DEF HistoryInv
    <3>2. CASE q = t
      <4> DEFINE len == Len(since[t])
      <4>1. /\ len \in Nat /\ now \in Int /\ \A i \in 1 .. len : since[t][i] <= now
            /\ prod'[t].rev = len + 1
        BY <2>1, <3>1, <3>2
      <4>2. /\ since'[t] \in Seq(Int) /\ Len(since'[t]) = len + 1 /\ since'[t][len + 1] = now
            /\ \A i \in 1 .. len : since'[t][i] = since[t][i]
        BY <1>4
      <4> HIDE DEF len
      <4>3. ASSUME NEW i \in 1 .. (len + 1)
            PROVE  since'[t][i] <= now
        <5>1. CASE i = len + 1
          BY <4>1, <4>2, <5>1
        <5>2. CASE i # len + 1
          <6>1. i \in 1 .. len
            BY <4>1, <4>3, <5>2
          <6> QED  BY <4>1, <4>2, <6>1
        <5> QED  BY <5>1, <5>2
      <4> QED  BY <3>2, <4>1, <4>2, <4>3
    <3>3. CASE q # t
      BY <1>4, <2>1, <3>1, <3>3
    <3> QED  BY <3>2, <3>3
  <2> QED  BY <1>1, <1>3, <1>4, <2>1, <2>2 DEF HistoryInv
<1>6. ASSUME NEW q \in Targets, NEW x, Dated(q, x, since, now)
      PROVE  Dated(q, x, since', now')
  <2>1. CASE q = t
    <3>1. since[t] \in Seq(Int) /\ Len(since[t]) \in Nat /\ now' = now /\ now \in Int
      BY <1>1, <1>3 DEF HistoryInv
    <3> DEFINE len == Len(since[t])
    <3>2. x.rev \in 1 .. len /\ x.at \in Int /\ x.at <= now /\ since[t][x.rev] <= x.at
          /\ (x.rev + 1 <= len => x.at <= since[t][x.rev + 1])
      BY <1>6, <2>1 DEF Dated
    <3>3. since'[t][x.rev] = since[t][x.rev] /\ Len(since'[t]) = len + 1
      BY <1>4, <3>2
    <3>4. CASE x.rev = len
      BY <1>4, <2>1, <3>1, <3>2, <3>3, <3>4 DEF Dated
    <3>5. CASE x.rev < len
      <4>1. since'[t][x.rev + 1] = since[t][x.rev + 1]
        <5>1. x.rev + 1 \in 1 .. Len(since[t])
          BY <3>1, <3>2, <3>5
        <5> QED  BY <1>4, <5>1
      <4> QED  BY <2>1, <3>1, <3>2, <3>3, <3>5, <4>1 DEF Dated
    <3> QED  BY <3>1, <3>2, <3>4, <3>5
  <2>2. CASE q # t
    BY <1>1, <1>4, <1>6, <2>2 DEF Dated
  <2> QED  BY <2>1, <2>2
<1> QED  BY <1>1, <1>5, <1>6 DEF FramesInv

LEMMA FramesSteps ==
  ASSUME FramesInv, [Frames!Next]_(Frames!vars)
  PROVE  FramesInv'
<1>0. /\ HistoryInv /\ build = [t \in Targets |-> build[t]] /\ dev = [t \in Targets |-> dev[t]]
  BY DEF FramesInv
<1>1. CASE UNCHANGED Frames!vars
  <2>1. UNCHANGED <<prod, since, offset, now, build, dev, net>>
    BY <1>1 DEF Frames!vars, Frames!server, Frames!device
  <2> QED  BY <1>0, <2>1, FramesKeep
<1>2. ASSUME NEW t \in Targets, Frames!Capture(t)
      PROVE  FramesInv'
  <2>1. UNCHANGED <<prod, since, offset, now, dev, net>>
    BY <1>2 DEF Frames!Capture, Frames!device
  <2>2. PICK g, b : /\ build' = [build EXCEPT ![t] = b]
                    /\ b.in = Frames!FrameInput(t, g, prod, now)
    <3> DEFINE g == IF cat = Frames!FullCatalog(prod) THEN gen ELSE gen + 1
               b == [key |-> key, from |-> base[t], in |-> Frames!FrameInput(t, g, prod, now)]
    <3>1. build' = [build EXCEPT ![t] = b]
      BY <1>2 DEF Frames!Capture
    <3>2. b.in = Frames!FrameInput(t, g, prod, now)
      OBVIOUS
    <3> HIDE DEF b, g
    <3> QED  BY <3>1, <3>2
  <2>3. b.in.target = t /\ b.in.rev = prod[t].rev /\ b.in.at = now
    BY <2>2 DEF Frames!FrameInput
  <2>4. Dated(t, b.in, since, now)
    BY <1>0, <2>3 DEF Dated, HistoryInv
  <2>5. /\ build' = [q \in Targets |-> build'[q]] /\ build'[t] = b
        /\ \A q \in Targets \ {t} : build'[q] = build[q]
    BY <1>0, <2>2
  <2> QED  BY <1>0, <2>1, <2>3, <2>4, <2>5, FramesKeep
<1>3. ASSUME NEW t \in Targets, Frames!Issue(t)
      PROVE  FramesInv'
  <2> DEFINE b == build[t]
  <2>1. /\ UNCHANGED <<prod, since, offset, now, dev>> /\ b # NoFrame
        /\ build' = [build EXCEPT ![t] = NoFrame]
    BY <1>3 DEF Frames!Issue, Frames!device
  <2>2. PICK e : net' = net \cup {Frames!Message(e)} /\ e.frame = Frames!FrameOf(b)
    BY <1>3 DEF Frames!Issue, Frames!Envelope
  <2>3. /\ Frames!FrameOf(b).target = b.in.target /\ Frames!FrameOf(b).rev = b.in.rev
        /\ Frames!FrameOf(b).at = b.in.at
    BY DEF Frames!FrameOf, Frames!BootstrapFrame, Frames!DeltaFrame, Frames!Frame
  <2>4. b.in.target = t /\ Dated(t, b.in, since, now)
    BY <2>1 DEF FramesInv
  <2>5. Frames!Message(e).env.frame.target = t /\ Dated(t, Frames!Message(e).env.frame, since, now)
    BY <2>2, <2>3, <2>4 DEF Frames!Message, Dated
  <2>6. build' = [q \in Targets |-> build'[q]]
        /\ \A q \in Targets : build'[q] = NoFrame \/ build'[q] = build[q]
    BY <1>0, <2>1
  <2> QED  BY <1>0, <2>1, <2>2, <2>5, <2>6, FramesKeep
<1>4. ASSUME NEW t \in Targets, Frames!Discard(t) \/ Frames!Acknowledged(t)
      PROVE  FramesInv'
  <2>1. UNCHANGED <<prod, since, offset, now, dev, net>>
        /\ (build' = build \/ build' = [build EXCEPT ![t] = NoFrame])
    BY <1>4 DEF Frames!Discard, Frames!Acknowledged, Frames!device
  <2>2. build' = [q \in Targets |-> build'[q]]
        /\ \A q \in Targets : build'[q] = NoFrame \/ build'[q] = build[q]
    BY <1>0, <2>1
  <2> QED  BY <1>0, <2>1, <2>2, FramesKeep
<1>5. ASSUME NEW t \in Targets, Frames!Misdelivered(t)
      PROVE  FramesInv'
  <2>1. UNCHANGED <<prod, since, offset, now, dev, build>>
    BY <1>5 DEF Frames!Misdelivered, Frames!server, Frames!device
  <2>2. PICK e : net' = net \cup {Frames!Message(e)} /\ e.audience = "other"
    <3> DEFINE f == Frames!BootstrapFrame([target |-> t, rev |-> prod[t].rev, gen |-> gen + 1, at |-> now,
                      actions |-> [c \in DOMAIN prod[t].nodes |-> Frames!Action(prod[t].nodes, c)],
                      obs |-> Frames!IndexComponents(prod[t].nodes)])
               e == Frames!Envelope(key, "other", seq[key] + 1, NoFrame, f)
    <3>1. net' = net \cup {Frames!Message(e)}
      BY <1>5 DEF Frames!Misdelivered
    <3>2. e.audience = "other"
      BY DEF Frames!Envelope
    <3> HIDE DEF e
    <3> QED  BY <3>1, <3>2
  <2>3. Frames!Message(e).env.audience # "me"
    BY <2>2 DEF Frames!Message
  <2> QED  BY <1>0, <2>1, <2>2, <2>3, FramesKeep
<1>6. ASSUME NEW m \in net, Frames!Receive(m)
      PROVE  FramesInv'
  <2> DEFINE f == m.env.frame
  <2>1. /\ UNCHANGED <<prod, since, offset, now, net, build>>
        /\ m.env.audience = "me"
    BY <1>6 DEF Frames!Receive, Frames!server, Frames!Admits
  <2>2. f.target \in Targets /\ Dated(f.target, f, since, now)
    BY <2>1 DEF FramesInv
  <2>3. \/ dev' = dev
        \/ \E st : dev' = [dev EXCEPT ![f.target] = [id |-> m.id, st |-> Frames!Reduce(st, f)]]
    BY <1>6 DEF Frames!Receive
  <2>4. \A st : Dated(f.target, Frames!Reduce(st, f), since, now)
    BY <2>2 DEF Dated, Frames!Reduce
  <2>5. /\ dev' = [q \in Targets |-> dev'[q]]
        /\ \A q \in Targets : dev'[q] = dev[q] \/ Dated(q, dev'[q].st, since, now)
    <3> DEFINE t == f.target
    <3>1. CASE dev' = dev
      BY <1>0, <3>1
    <3>2. ASSUME NEW st, dev' = [dev EXCEPT ![t] = [id |-> m.id, st |-> Frames!Reduce(st, f)]]
          PROVE  /\ dev' = [q \in Targets |-> dev'[q]]
                 /\ \A q \in Targets : dev'[q] = dev[q] \/ Dated(q, dev'[q].st, since, now)
      <4> HIDE DEF t
      <4>1. /\ dev' = [q \in Targets |-> dev'[q]] /\ dev'[t].st = Frames!Reduce(st, f)
            /\ \A q \in Targets \ {t} : dev'[q] = dev[q]
        BY <1>0, <2>2, <3>2 DEF t
      <4>2. Dated(t, dev'[t].st, since, now)
        BY <2>4, <4>1 DEF t
      <4> QED  BY <4>1, <4>2
    <3> QED  BY <2>3, <3>1, <3>2
  <2> QED  BY <1>0, <2>1, <2>5, FramesKeep
<1>7. ASSUME Frames!Tick \/ Frames!RotateKey
      PROVE  FramesInv'
  <2>1. UNCHANGED <<prod, since, offset, dev, net, build>> /\ now' \in {now, now + 1}
    BY <1>7 DEF Frames!Tick, Frames!RotateKey, Frames!server, Frames!device
  <2> QED  BY <1>0, <2>1, FramesKeep
<1>8. ASSUME Frames!Reconnect \/ Frames!Repin
      PROVE  FramesInv'
  <2>1. /\ UNCHANGED <<prod, since, offset, now>> /\ dev' = [t \in Targets |-> NoFrame]
        /\ build' = [t \in Targets |-> NoFrame] \/ build' = build
        /\ net' = {} \/ net' = net
    BY <1>8 DEF Frames!Reconnect, Frames!Repin, Frames!server, Frames!device
  <2> QED  BY <1>0, <2>1, FramesKeep
<1> QED  BY <1>1, <1>2, <1>3, <1>4, <1>5, <1>6, <1>7, <1>8, ProductionMovesOn DEF Frames!Next

LEMMA CurrentIsDated ==
  ASSUME FramesInv, Frames!FramesAssumption
  PROVE  CurrentMeansRecent
<1> SUFFICES ASSUME NEW t \in Targets, NEW c \in Components, Frames!View(t, c) = "current"
             PROVE  \E time \in (now + offset - FrameTimeout + 1) .. now :
                      /\ since[t][dev[t].st.rev] <= time
                      /\ dev[t].st.rev + 1 <= Len(since[t]) => time <= since[t][dev[t].st.rev + 1]
  BY DEF CurrentMeansRecent, Frames!CurrentMeansRecent
<1>1. dev[t] # NoFrame /\ ~(now + offset - dev[t].st.at >= FrameTimeout)
  BY DEF Frames!View
<1>2. Dated(t, dev[t].st, since, now) /\ now \in Int /\ offset \in Int
  BY <1>1 DEF FramesInv, HistoryInv
<1>3. dev[t].st.at \in (now + offset - FrameTimeout + 1) .. now
  BY <1>1, <1>2 DEF Dated, Frames!FramesAssumption
<1> QED  BY <1>2, <1>3 DEF Dated

(* For every number of targets, revisions, keys and clock offsets, and     *)
(* however frames are lost, repeated and reordered: a control shown as     *)
(* current shows a revision that production held within the timeout.       *)
THEOREM CurrentWasProduction == Frames!Spec => []CurrentMeansRecent
<1>1. Frames!Init => FramesInv
  BY ProtocolAssumption, FramesStart
<1>2. FramesInv /\ [Frames!Next]_(Frames!vars) => FramesInv'
  BY FramesSteps
<1>3. FramesInv => CurrentMeansRecent
  BY ProtocolAssumption, CurrentIsDated
<1> QED  BY <1>1, <1>2, <1>3, PTL DEF Frames!Spec

(***************************************************************************)
(* What a device holds: the tree of elements.                              *)
(***************************************************************************)

(* What the elements above one are, without recursion: what every set has  *)
(* that holds it and goes up.                                              *)
GoesUp(S) == \A x \in S : Parent[x] # NoComponent => Parent[x] \in S
Reached(d) == {a \in Components : \A S \in SUBSET Components : GoesUp(S) /\ d \in S => a \in S}
Higher(d) == IF Parent[d] = NoComponent THEN {} ELSE Reached(Parent[d])

\* The element itself, and what its parent reaches.
LEMMA ReachedFromParent ==
  ASSUME Frames!FramesAssumption, NEW d \in Components
  PROVE  Reached(d) = {d} \cup Higher(d)
<1>1. /\ NoComponent \notin Components
      /\ \A x \in Components : Parent[x] \in Components \cup {NoComponent}
  BY DEF Frames!FramesAssumption
<1>2. \A x \in Components : x \in Reached(x) /\ Reached(x) \in SUBSET Components
  BY DEF Reached
<1>3. \A x \in Components : GoesUp(Reached(x))
  <2> SUFFICES ASSUME NEW x \in Components, NEW y \in Reached(x), Parent[y] # NoComponent
               PROVE  Parent[y] \in Reached(x)
    BY DEF GoesUp
  <2>1. Parent[y] \in Components
    BY <1>1, <1>2
  <2>2. ASSUME NEW S \in SUBSET Components, GoesUp(S), x \in S
        PROVE  Parent[y] \in S
    BY <2>2 DEF Reached, GoesUp
  <2> QED  BY <2>1, <2>2 DEF Reached
<1>4. {d} \cup Higher(d) \subseteq Reached(d)
  <2>1. ASSUME NEW a \in Higher(d)
        PROVE  a \in Reached(d)
    <3>1. Parent[d] # NoComponent /\ a \in Reached(Parent[d])
      BY <2>1 DEF Higher
    <3>2. ASSUME NEW S \in SUBSET Components, GoesUp(S), d \in S
          PROVE  a \in S
      BY <3>1, <3>2 DEF Reached, GoesUp
    <3>3. a \in Components
      BY <3>1 DEF Reached
    <3> QED  BY <3>2, <3>3 DEF Reached
  <2> QED  BY <1>2, <2>1
<1>5. Reached(d) \subseteq {d} \cup Higher(d)
  <2>1. {d} \cup Higher(d) \in SUBSET Components
    BY <1>1, <1>2 DEF Higher
  <2>2. GoesUp({d} \cup Higher(d))
    <3>1. ASSUME Parent[d] # NoComponent
          PROVE  Parent[d] \in Higher(d)
      BY <1>1, <1>2, <3>1 DEF Higher
    <3>2. GoesUp(Higher(d))
      BY <1>1, <1>3 DEF Higher, GoesUp
    <3> QED  BY <3>1, <3>2 DEF GoesUp
  <2> QED  BY <2>1, <2>2 DEF Reached
<1> QED  BY <1>4, <1>5

LEMMA AboveIs ==
  ASSUME Frames!FramesAssumption
  PROVE  \A d \in Components : Frames!Above(d) =
           {d} \cup IF Parent[d] = NoComponent THEN {} ELSE Frames!Above(Parent[d])
<1> DEFINE Walk(up) == [d \in Components |-> {d} \cup IF Parent[d] = NoComponent THEN {} ELSE up[Parent[d]]]
           all == CHOOSE up : up = Walk(up)
           reach == [d \in Components |-> Reached(d)]
<1>1. \A d : Frames!Above(d) = all[d]
  BY DEF Frames!Above
<1>2. reach = Walk(reach)
  <2>1. ASSUME NEW d \in Components
        PROVE  reach[d] = Walk(reach)[d]
    <3>1. reach[d] = {d} \cup Higher(d)
      BY ReachedFromParent
    <3>2. Parent[d] # NoComponent => reach[Parent[d]] = Reached(Parent[d])
      BY DEF Frames!FramesAssumption
    <3> QED  BY <3>1, <3>2 DEF Higher
  <2> QED  BY <2>1
<1>3. all = Walk(all)
  BY <1>2
<1> HIDE DEF all
<1>4. \A d \in Components : all[d] = {d} \cup IF Parent[d] = NoComponent THEN {} ELSE all[Parent[d]]
  BY <1>3
<1> QED  BY <1>1, <1>4

(* An element and everything above it is displayed. *)
Displayed(n, c) == \A a \in Frames!Above(c) : n[a].shown

LEMMA TreeIs ==
  ASSUME NEW n \in Frames!Trees, Frames!FramesAssumption
  PROVE  /\ DOMAIN n \in SUBSET Components /\ n \in [DOMAIN n -> Frames!Node]
         /\ \A c \in DOMAIN n : Parent[c] = NoComponent \/ Parent[c] \in DOMAIN n
  BY DEF Frames!Trees

\* The server's walk from the roots computes it.
LEMMA ActiveIsDisplayed ==
  ASSUME Frames!FramesAssumption, NEW n \in Frames!Trees
  PROVE  /\ DOMAIN Frames!IndexComponents(n) = DOMAIN n
         /\ \A c \in DOMAIN n : Frames!IndexComponents(n)[c] = Displayed(n, c)
<1> DEFINE Walk(f) == [c \in DOMAIN n |-> n[c].shown /\ (Parent[c] = NoComponent \/ f[Parent[c]])]
           act == CHOOSE f : f = Walk(f)
           disp == [c \in DOMAIN n |-> Displayed(n, c)]
<1>1. Frames!IndexComponents(n) = act
  BY DEF Frames!IndexComponents
<1>2. /\ DOMAIN n \in SUBSET Components /\ n \in [DOMAIN n -> Frames!Node]
      /\ \A c \in DOMAIN n : Parent[c] = NoComponent \/ Parent[c] \in DOMAIN n
  BY TreeIs
<1>3. ASSUME NEW c \in DOMAIN n
      PROVE  Displayed(n, c) = (n[c].shown /\ (Parent[c] = NoComponent \/ Displayed(n, Parent[c])))
  <2>1. n[c].shown \in BOOLEAN
    BY <1>2 DEF Frames!Node
  <2>2. Frames!Above(c) = {c} \cup IF Parent[c] = NoComponent THEN {} ELSE Frames!Above(Parent[c])
    BY <1>2, AboveIs
  <2> QED  BY <2>1, <2>2 DEF Displayed
<1>4. disp = Walk(disp)
  <2>1. ASSUME NEW c \in DOMAIN n
        PROVE  disp[c] = Walk(disp)[c]
    <3>1. CASE Parent[c] = NoComponent
      BY <1>3, <3>1
    <3>2. CASE Parent[c] \in DOMAIN n
      BY <1>3, <3>2
    <3> QED  BY <1>2, <3>1, <3>2
  <2> QED  BY <2>1
<1>5. act = Walk(act)
  BY <1>4
<1> HIDE DEF act
<1>6. \A c \in DOMAIN n : act[c] = (n[c].shown /\ (Parent[c] = NoComponent \/ act[Parent[c]]))
  BY <1>5
<1>7. \A c \in DOMAIN n : act[c] = Displayed(n, c)
  <2> DEFINE wrong == {c \in DOMAIN n : act[c] # Displayed(n, c)}
  <2>1. SUFFICES ASSUME wrong # {} PROVE FALSE
    OBVIOUS
  <2>2. wrong \in SUBSET Components
    BY <1>2
  <2>3. PICK c \in wrong : Parent[c] \notin wrong
    BY <2>1, <2>2 DEF Frames!FramesAssumption
  <2>4. c \in DOMAIN n /\ act[c] # Displayed(n, c)
    OBVIOUS
  <2>5. CASE Parent[c] = NoComponent
    BY <1>3, <1>6, <2>4, <2>5
  <2>6. CASE Parent[c] \in DOMAIN n
    <3>1. act[Parent[c]] = Displayed(n, Parent[c])
      BY <2>3, <2>6
    <3> QED  BY <1>3, <1>6, <2>4, <2>6, <3>1
  <2> QED  BY <1>2, <2>4, <2>5, <2>6
<1>8. DOMAIN act = DOMAIN n
  BY <1>5
<1> QED  BY <1>1, <1>7, <1>8

(***************************************************************************)
(* What a device holds: the frames.                                        *)
(***************************************************************************)

(* The state s is the authorized controls of the revision it names, in the *)
(* history h of its target.                                                *)
HoldsControl(d, s, c, h) ==
  /\ d.label = h[s.rev][c].label
  /\ d.value = Displayed(h[s.rev], c)
  /\ d.vrev \in 1 .. s.rev /\ c \in DOMAIN h[d.vrev]
  /\ d.value = Displayed(h[d.vrev], c)

HoldsProduction(s, h) ==
  /\ s.rev \in 1 .. Len(h)
  /\ DOMAIN s.controls = DOMAIN h[s.rev] \cap Allowed
  /\ \A c \in DOMAIN s.controls : HoldsControl(s.controls[c], s, c, h)

(* What a frame is made from: one production state.                        *)
Captured(in, h) ==
  /\ in.rev \in 1 .. Len(h)
  /\ in.actions = Frames!Catalog(h[in.rev])
  /\ in.obs = Frames!Observations(h[in.rev])

LEMMA CapturedIs ==
  ASSUME Frames!FramesAssumption, NEW h \in Seq(Frames!Trees), NEW in, Captured(in, h)
  PROVE  /\ DOMAIN in.actions = DOMAIN h[in.rev] \cap Allowed
         /\ DOMAIN in.obs = DOMAIN h[in.rev] \cap Allowed
         /\ \A c \in DOMAIN h[in.rev] \cap Allowed :
              /\ in.actions[c] = h[in.rev][c].label
              /\ in.obs[c] = Displayed(h[in.rev], c)
<1>1. h[in.rev] \in Frames!Trees
  <2>1. \A i \in 1 .. Len(h) : h[i] \in Frames!Trees
    OBVIOUS
  <2> QED  BY <2>1 DEF Captured
<1> DEFINE n == h[in.rev]
<1> HIDE DEF n
<1>2. in.actions = Frames!Catalog(n) /\ in.obs = Frames!Observations(n) /\ n \in Frames!Trees
  BY <1>1 DEF Captured, n
<1>3. /\ DOMAIN Frames!Catalog(n) = DOMAIN n \cap Allowed
      /\ \A c \in DOMAIN n \cap Allowed : Frames!Catalog(n)[c] = n[c].label
  BY DEF Frames!Catalog, Frames!Action
<1>4. /\ DOMAIN Frames!Observations(n) = DOMAIN n \cap Allowed
      /\ \A c \in DOMAIN n \cap Allowed : Frames!Observations(n)[c] = Frames!IndexComponents(n)[c]
  BY <1>3 DEF Frames!Observations
<1>5. \A c \in DOMAIN n \cap Allowed : Frames!IndexComponents(n)[c] = Displayed(n, c)
  BY <1>2, ActiveIsDisplayed
<1> QED  BY <1>2, <1>3, <1>4, <1>5 DEF n

\* A bootstrap brings all of it.
LEMMA BootstrapHolds ==
  ASSUME Frames!FramesAssumption, NEW h \in Seq(Frames!Trees), NEW in, Captured(in, h)
  PROVE  HoldsProduction(Frames!Reduce(NoFrame, Frames!BootstrapFrame(in)), h)
<1> DEFINE f == Frames!BootstrapFrame(in)
           n == h[in.rev]
           k == Frames!Controls(NoFrame, f)
<1>1. /\ DOMAIN in.actions = DOMAIN n \cap Allowed /\ DOMAIN in.obs = DOMAIN n \cap Allowed
      /\ \A c \in DOMAIN n \cap Allowed : in.actions[c] = n[c].label /\ in.obs[c] = Displayed(n, c)
  BY CapturedIs
<1>2. /\ f.rev = in.rev /\ f.added = in.actions /\ f.obs = in.obs /\ f.removed = {}
  BY DEF Frames!BootstrapFrame, Frames!Frame
<1>3. in.rev \in 1 .. Len(h) /\ Len(h) \in Nat
  BY DEF Captured
<1> HIDE DEF f, n
<1>4. /\ DOMAIN k = DOMAIN n \cap Allowed
      /\ \A c \in DOMAIN n \cap Allowed :
           k[c] = [label |-> in.actions[c], value |-> in.obs[c], vrev |-> in.rev]
  BY <1>1, <1>2 DEF Frames!Controls, Frames!Held
<1> DEFINE s == Frames!Reduce(NoFrame, f)
<1>5. s.rev = in.rev /\ s.controls = k
  BY <1>2 DEF Frames!Reduce
<1> HIDE DEF s, k
<1>6. ASSUME NEW c \in DOMAIN s.controls
      PROVE  HoldsControl(s.controls[c], s, c, h)
  <2>1. c \in DOMAIN n \cap Allowed
    BY <1>4, <1>5
  <2>2. /\ s.controls[c].label = n[c].label /\ s.controls[c].value = Displayed(n, c)
        /\ s.controls[c].vrev = in.rev
    BY <1>1, <1>4, <1>5, <2>1
  <2>3. in.rev \in 1 .. in.rev
    BY <1>3
  <2> QED  BY <1>5, <2>1, <2>2, <2>3 DEF HoldsControl, n
<1> QED  BY <1>3, <1>4, <1>5, <1>6 DEF HoldsProduction, s, n, f

\* What a delta does not send is as it was.
LEMMA DeltaHolds ==
  ASSUME Frames!FramesAssumption, NEW h \in Seq(Frames!Trees), NEW in, Captured(in, h),
         NEW old, old # NoFrame, HoldsProduction(old, h),
         Frames!Reducible(old, Frames!DeltaFrame(old, in))
  PROVE  HoldsProduction(Frames!Reduce(old, Frames!DeltaFrame(old, in)), h)
<1> DEFINE f == Frames!DeltaFrame(old, in)
           n == h[in.rev]
           k == Frames!Controls(old, f)
           same(c) == c \in DOMAIN old.controls /\ c \in DOMAIN in.actions /\ old.controls[c].label = in.actions[c]
           changed == {c \in DOMAIN in.actions : ~same(c) \/ in.obs[c] # old.controls[c].value}
<1>1. /\ DOMAIN in.actions = DOMAIN n \cap Allowed /\ DOMAIN in.obs = DOMAIN n \cap Allowed
      /\ \A c \in DOMAIN n \cap Allowed : in.actions[c] = n[c].label /\ in.obs[c] = Displayed(n, c)
  BY CapturedIs
<1>2. /\ f.rev = in.rev /\ f.hash = in.actions
      /\ f.obs = Frames!Restrict(in.obs, changed)
  BY DEF Frames!DeltaFrame, Frames!Frame
<1>3. /\ in.rev \in 1 .. Len(h) /\ old.rev \in 1 .. Len(h) /\ Len(h) \in Nat
      /\ in.rev >= old.rev
  <2>1. f.rev >= old.rev
    BY DEF Frames!Reducible
  <2> QED  BY <1>2, <2>1 DEF Captured, HoldsProduction
<1>4. DOMAIN f.obs = changed /\ \A c \in changed : f.obs[c] = in.obs[c]
  BY <1>2 DEF Frames!Restrict
<1>5. Frames!CatalogOf(k) = in.actions
  BY <1>2 DEF Frames!Reducible
<1> HIDE DEF f, n
<1>6. DOMAIN k = DOMAIN n \cap Allowed /\ \A c \in DOMAIN k : k[c].label = n[c].label
  <2>1. DOMAIN Frames!CatalogOf(k) = DOMAIN k /\ \A c \in DOMAIN k : Frames!CatalogOf(k)[c] = k[c].label
    BY DEF Frames!CatalogOf
  <2> QED  BY <1>1, <1>5, <2>1
<1>7. \A c \in DOMAIN k :
        /\ c \in changed => k[c].value = in.obs[c] /\ k[c].vrev = in.rev
        /\ c \notin changed => k[c] = old.controls[c]
  BY <1>2, <1>4 DEF Frames!Controls
<1> DEFINE s == Frames!Reduce(old, f)
<1>8. s.rev = in.rev /\ s.controls = k
  BY <1>2 DEF Frames!Reduce
<1> HIDE DEF s, k
<1>9. ASSUME NEW c \in DOMAIN s.controls
      PROVE  HoldsControl(s.controls[c], s, c, h)
  <2>1. c \in DOMAIN n \cap Allowed /\ k[c].label = n[c].label /\ s.controls[c] = k[c] /\ c \in DOMAIN k
    BY <1>6, <1>8, <1>9
  <2>2. CASE c \in changed
    <3>1. k[c].value = Displayed(n, c) /\ k[c].vrev = in.rev
      BY <1>1, <1>7, <2>1, <2>2
    <3>2. in.rev \in 1 .. in.rev
      BY <1>3
    <3> QED  BY <1>8, <2>1, <3>1, <3>2 DEF HoldsControl, n
  <2>3. CASE c \notin changed
    <3>1. c \in DOMAIN old.controls /\ in.obs[c] = old.controls[c].value /\ k[c] = old.controls[c]
      BY <1>1, <1>7, <2>1, <2>3
    <3>2. HoldsControl(k[c], old, c, h)
      BY <3>1 DEF HoldsProduction
    <3>3. k[c].value = Displayed(n, c)
      BY <1>1, <2>1, <3>1
    <3>4. k[c].vrev \in 1 .. in.rev
      BY <1>3, <3>2 DEF HoldsControl
    <3> QED  BY <1>8, <2>1, <3>2, <3>3, <3>4 DEF HoldsControl, n
  <2> QED  BY <2>2, <2>3
<1> QED  BY <1>3, <1>6, <1>8, <1>9 DEF HoldsProduction, s, n, f

(***************************************************************************)
(* What a device holds: the steps.                                         *)
(***************************************************************************)

Ids == [issuer : 1 .. MaxKey, audience : {"me"}, seq : Nat]
IsIssued(i, q) == i \in Ids /\ i.seq <= q[i.issuer]

PastInv ==
  /\ past = [t \in Targets |-> past[t]] /\ prod = [t \in Targets |-> prod[t]]
  /\ \A t \in Targets :
       /\ past[t] \in Seq(Frames!Trees) /\ Len(past[t]) > 0
       /\ prod[t] = [rev |-> Len(past[t]), nodes |-> past[t][Len(past[t])]]
  /\ key \in 1 .. MaxKey /\ seq \in [1 .. MaxKey -> Nat]

(* A frame's identity names one state of its target, whoever holds it: the *)
(* device, the server for what it sent or was acknowledged, or the next    *)
(* frame's base.  S is the states named.                                   *)
IsCell(x, t, S, q, p) ==
  IsIssued(x.id, q) /\ x.st = S[x.id] /\ HoldsProduction(x.st, p[t])

(* A message leads to the state its identity names, from that of its base. *)
IsFrame(m, S, q, p) ==
  LET f == m.env.frame IN
  /\ IsIssued(m.id, q) /\ f.target \in Targets
  /\ HoldsProduction(S[m.id], p[f.target])
  /\ f.mode = "bootstrap" => S[m.id] = Frames!Reduce(NoFrame, f)
  /\ f.mode # "bootstrap" => IsIssued(m.env.base, q) /\ S[m.id] = Frames!Reduce(S[m.env.base], f)

IsBuild(b, t, S, q, p) ==
  /\ b.key \in 1 .. MaxKey /\ b.in.target = t /\ Captured(b.in, p[t])
  /\ b.from # NoFrame => IsCell(b.from, t, S, q, p)

Names(S) ==
  /\ \A t \in Targets : dev[t] # NoFrame => IsCell(dev[t], t, S, seq, past)
  /\ \A t \in Targets : base[t] # NoFrame => IsCell(base[t], t, S, seq, past)
  /\ \A t \in Targets : pend[t] # NoFrame => IsCell(pend[t], t, S, seq, past)
  /\ \A t \in Targets : build[t] # NoFrame => IsBuild(build[t], t, S, seq, past)
  /\ \A m \in net : m.env.audience = "me" => IsFrame(m, S, seq, past)

ReplicaInv ==
  /\ PastInv
  /\ dev = [t \in Targets |-> dev[t]] /\ base = [t \in Targets |-> base[t]]
  /\ pend = [t \in Targets |-> pend[t]] /\ build = [t \in Targets |-> build[t]]
  /\ \E S : Names(S)

LEMMA ReplicaStarts ==
  ASSUME Frames!FramesAssumption, Frames!Init
  PROVE  ReplicaInv
<1>1. /\ net = {} /\ key = 1 /\ seq = [k \in 1 .. MaxKey |-> 0]
      /\ build = [t \in Targets |-> NoFrame] /\ dev = [t \in Targets |-> NoFrame]
      /\ pend = [t \in Targets |-> NoFrame] /\ base = [t \in Targets |-> NoFrame]
  BY DEF Frames!Init
<1>2. PICK n \in Scenes : prod = [t \in Targets |-> [rev |-> 1, nodes |-> n]]
  BY DEF Frames!Init
<1>3. past = [t \in Targets |-> <<prod[t].nodes>>]
  BY DEF Frames!Init
<1>4. n \in Frames!Trees
  BY DEF Frames!FramesAssumption
<1>5. <<n>> \in Seq(Frames!Trees) /\ Len(<<n>>) = 1 /\ <<n>>[1] = n
  BY <1>4
<1>6. past = [t \in Targets |-> <<n>>]
  BY <1>2, <1>3
<1>7. key \in 1 .. MaxKey /\ seq \in [1 .. MaxKey -> Nat]
  BY <1>1 DEF Frames!FramesAssumption
<1>8. PastInv
  BY <1>2, <1>5, <1>6, <1>7 DEF PastInv
<1>9. \A S : Names(S)
  BY <1>1 DEF Names
<1> QED  BY <1>1, <1>8, <1>9 DEF ReplicaInv

\* Production and the keys stand still, and so do the states named.
LEMMA ReplicaKeeps ==
  ASSUME ReplicaInv, UNCHANGED <<prod, past, seq>>, key' \in 1 .. MaxKey,
         dev' = [t \in Targets |-> dev'[t]], base' = [t \in Targets |-> base'[t]],
         pend' = [t \in Targets |-> pend'[t]], build' = [t \in Targets |-> build'[t]],
         NEW S, Names(S),
         \A t \in Targets : dev'[t] # NoFrame =>
           dev'[t] = dev[t] \/ IsCell(dev'[t], t, S, seq, past),
         \A t \in Targets : base'[t] # NoFrame => base'[t] = base[t] \/ base'[t] = pend[t],
         \A t \in Targets : pend'[t] # NoFrame => pend'[t] = pend[t],
         \A t \in Targets : build'[t] # NoFrame =>
           build'[t] = build[t] \/ IsBuild(build'[t], t, S, seq, past),
         \A m \in net' : m.env.audience = "me" => m \in net
  PROVE  ReplicaInv'
<1>1. PastInv'
  BY DEF ReplicaInv, PastInv
<1>2. Names(S)'
  BY DEF Names
<1> QED  BY <1>1, <1>2 DEF ReplicaInv

\* A revision more leaves what was.
LEMMA HistoryGrows ==
  ASSUME NEW h \in Seq(Frames!Trees), NEW n
  PROVE  /\ \A i \in 1 .. Len(h) : Append(h, n)[i] = h[i]
         /\ Len(Append(h, n)) = Len(h) + 1 /\ Append(h, n)[Len(h) + 1] = n
         /\ \A s : HoldsProduction(s, h) => HoldsProduction(s, Append(h, n))
         /\ \A in : Captured(in, h) => Captured(in, Append(h, n))
<1> DEFINE g == Append(h, n)
<1>1. /\ \A i \in 1 .. Len(h) : g[i] = h[i]
      /\ Len(g) = Len(h) + 1 /\ g[Len(h) + 1] = n /\ Len(h) \in Nat
  OBVIOUS
<1> HIDE DEF g
<1>2. ASSUME NEW s, HoldsProduction(s, h)
      PROVE  HoldsProduction(s, g)
  <2>1. s.rev \in 1 .. Len(h) /\ s.rev \in 1 .. Len(g) /\ g[s.rev] = h[s.rev]
    BY <1>1, <1>2 DEF HoldsProduction
  <2>2. ASSUME NEW c \in DOMAIN s.controls
        PROVE  HoldsControl(s.controls[c], s, c, g)
    <3>1. HoldsControl(s.controls[c], s, c, h)
      BY <1>2 DEF HoldsProduction
    <3>2. s.controls[c].vrev \in 1 .. Len(h)
      BY <1>1, <2>1, <3>1 DEF HoldsControl
    <3>3. g[s.controls[c].vrev] = h[s.controls[c].vrev]
      BY <1>1, <3>2
    <3> QED  BY <2>1, <3>1, <3>3 DEF HoldsControl
  <2> QED  BY <1>2, <2>1, <2>2 DEF HoldsProduction
<1>3. ASSUME NEW in, Captured(in, h)
      PROVE  Captured(in, g)
  <2>1. in.rev \in 1 .. Len(h) /\ in.rev \in 1 .. Len(g) /\ g[in.rev] = h[in.rev]
    BY <1>1, <1>3 DEF Captured
  <2> QED  BY <1>3, <2>1 DEF Captured
<1> QED  BY <1>1, <1>2, <1>3 DEF g

LEMMA SuccessorsAreTrees ==
  ASSUME Frames!FramesAssumption, NEW n \in Frames!Trees, NEW m \in Frames!Successors(n)
  PROVE  m \in Frames!Trees
<1>1. CASE m \in Scenes
  BY <1>1 DEF Frames!FramesAssumption
<1>2. ASSUME NEW c \in DOMAIN n, m = [n EXCEPT ![c].shown = ~n[c].shown]
      PROVE  m \in Frames!Trees
  <2>1. /\ DOMAIN n \in SUBSET Components /\ n \in [DOMAIN n -> Frames!Node]
        /\ \A d \in DOMAIN n : Parent[d] \in DOMAIN n \cup {NoComponent}
    BY DEF Frames!Trees
  <2>2. m = [n EXCEPT ![c] = [n[c] EXCEPT !.shown = ~n[c].shown]]
    BY <1>2
  <2>3. [n[c] EXCEPT !.shown = ~n[c].shown] \in Frames!Node
    <3>1. n[c] \in Frames!Node
      BY <2>1
    <3> QED  BY <3>1 DEF Frames!Node
  <2>4. m \in [DOMAIN n -> Frames!Node] /\ DOMAIN m = DOMAIN n
    BY <2>1, <2>2, <2>3
  <2> QED  BY <2>1, <2>4 DEF Frames!Trees
<1> QED  BY <1>1, <1>2 DEF Frames!Successors

\* More identities are issued or more revisions made: what was named stays.
Extends(S, q, p, S2, q2, p2) ==
  /\ \A i : IsIssued(i, q) => IsIssued(i, q2) /\ S2[i] = S[i]
  /\ \A t \in Targets : /\ \A s : HoldsProduction(s, p[t]) => HoldsProduction(s, p2[t])
                        /\ \A in : Captured(in, p[t]) => Captured(in, p2[t])

LEMMA NamedStays ==
  ASSUME NEW S, NEW q, NEW p, NEW S2, NEW q2, NEW p2, Extends(S, q, p, S2, q2, p2)
  PROVE  /\ \A x : \A t \in Targets : IsCell(x, t, S, q, p) => IsCell(x, t, S2, q2, p2)
         /\ \A b : \A t \in Targets : IsBuild(b, t, S, q, p) => IsBuild(b, t, S2, q2, p2)
         /\ \A m : IsFrame(m, S, q, p) => IsFrame(m, S2, q2, p2)
<1>1. ASSUME NEW x, NEW t \in Targets, IsCell(x, t, S, q, p)
      PROVE  IsCell(x, t, S2, q2, p2)
  BY <1>1 DEF IsCell, Extends
<1>2. ASSUME NEW b, NEW t \in Targets, IsBuild(b, t, S, q, p)
      PROVE  IsBuild(b, t, S2, q2, p2)
  <2>1. Captured(b.in, p2[t])
    BY <1>2 DEF IsBuild, Extends
  <2> QED  BY <1>1, <1>2, <2>1 DEF IsBuild
<1>3. ASSUME NEW m, IsFrame(m, S, q, p)
      PROVE  IsFrame(m, S2, q2, p2)
  BY <1>3 DEF IsFrame, Extends
<1> QED  BY <1>1, <1>2, <1>3

LEMMA ReplicaOutlivesProduction ==
  ASSUME Frames!FramesAssumption, ReplicaInv, NEW t \in Targets, Frames!ProductionChanges(t)
  PROVE  ReplicaInv'
<1>1. UNCHANGED <<key, seq, build, pend, base, dev, net>>
  BY DEF Frames!ProductionChanges, Frames!device
<1>2. PICK n \in Frames!Successors(prod[t].nodes) :
        /\ prod' = [prod EXCEPT ![t] = [rev |-> prod[t].rev + 1, nodes |-> n]]
        /\ past' = [past EXCEPT ![t] = Append(past[t], n)]
  BY DEF Frames!ProductionChanges
<1>3. /\ past = [q \in Targets |-> past[q]] /\ prod = [q \in Targets |-> prod[q]]
      /\ \A q \in Targets :
           /\ past[q] \in Seq(Frames!Trees) /\ Len(past[q]) > 0
           /\ prod[q] = [rev |-> Len(past[q]), nodes |-> past[q][Len(past[q])]]
      /\ key \in 1 .. MaxKey /\ seq \in [1 .. MaxKey -> Nat]
  BY DEF ReplicaInv, PastInv
<1> DEFINE h == past[t]
           g == Append(h, n)
<1>4. h \in Seq(Frames!Trees) /\ Len(h) > 0 /\ prod[t].rev = Len(h) /\ prod[t].nodes = h[Len(h)]
  BY <1>3
<1>5. n \in Frames!Trees
  <2>1. h[Len(h)] \in Frames!Trees
    <3>1. Len(h) \in 1 .. Len(h) /\ \A i \in 1 .. Len(h) : h[i] \in Frames!Trees
      BY <1>4
    <3> QED  BY <3>1
  <2> QED  BY <1>4, <2>1, SuccessorsAreTrees
<1>6. g \in Seq(Frames!Trees)
  BY <1>4, <1>5
<1>7. /\ Len(g) = Len(h) + 1 /\ g[Len(h) + 1] = n
      /\ \A s : HoldsProduction(s, h) => HoldsProduction(s, g)
      /\ \A in : Captured(in, h) => Captured(in, g)
  BY <1>4, HistoryGrows
<1>8. past' = [past EXCEPT ![t] = g] /\ prod' = [prod EXCEPT ![t] = [rev |-> Len(h) + 1, nodes |-> n]]
  BY <1>2, <1>4
<1>9. Len(h) \in Nat
  BY <1>4
<1>10. past[t] = h
  OBVIOUS
<1> HIDE DEF g, h
<1>11. /\ past' = [q \in Targets |-> past'[q]] /\ prod' = [q \in Targets |-> prod'[q]]
       /\ past'[t] = g /\ prod'[t] = [rev |-> Len(h) + 1, nodes |-> n]
       /\ \A q \in Targets \ {t} : past'[q] = past[q] /\ prod'[q] = prod[q]
  BY <1>3, <1>8
<1>12. PastInv'
  <2>1. ASSUME NEW q \in Targets
        PROVE  /\ past'[q] \in Seq(Frames!Trees) /\ Len(past'[q]) > 0
               /\ prod'[q] = [rev |-> Len(past'[q]), nodes |-> past'[q][Len(past'[q])]]
    <3>1. CASE q = t
      BY <1>6, <1>7, <1>9, <1>11, <3>1
    <3>2. CASE q # t
      BY <1>3, <1>11, <3>2
    <3> QED  BY <3>1, <3>2
  <2> QED  BY <1>1, <1>3, <1>11, <2>1 DEF PastInv
<1>13. ASSUME NEW S, Names(S)
       PROVE  Names(S)'
  <2>1. Extends(S, seq, past, S, seq', past')
    BY <1>1, <1>7, <1>10, <1>11 DEF Extends
  <2>2. /\ \A x : \A q \in Targets : IsCell(x, q, S, seq, past) => IsCell(x, q, S, seq', past')
        /\ \A b : \A q \in Targets : IsBuild(b, q, S, seq, past) => IsBuild(b, q, S, seq', past')
        /\ \A m : IsFrame(m, S, seq, past) => IsFrame(m, S, seq', past')
    BY <2>1, NamedStays
  <2> QED  BY <1>1, <1>13, <2>2 DEF Names
<1> QED  BY <1>1, <1>12, <1>13 DEF ReplicaInv

LEMMA ReplicaCaptured ==
  ASSUME ReplicaInv, NEW t \in Targets, Frames!Capture(t)
  PROVE  ReplicaInv'
<1> DEFINE g == IF cat = Frames!FullCatalog(prod) THEN gen ELSE gen + 1
           b == [key |-> key, from |-> base[t], in |-> Frames!FrameInput(t, g, prod, now)]
<1>1. /\ build' = [build EXCEPT ![t] = b]
      /\ UNCHANGED <<prod, past, key, seq, dev, base, pend, net>>
  BY DEF Frames!Capture, Frames!device
<1>2. b.key = key /\ b.from = base[t] /\ b.in = Frames!FrameInput(t, g, prod, now)
  OBVIOUS
<1> HIDE DEF b, g
<1>3. /\ b.in.target = t /\ b.in.rev = prod[t].rev
      /\ b.in.actions = Frames!Catalog(prod[t].nodes) /\ b.in.obs = Frames!Observations(prod[t].nodes)
  BY <1>2 DEF Frames!FrameInput
<1>4. Captured(b.in, past[t])
  <2>1. /\ prod[t] = [rev |-> Len(past[t]), nodes |-> past[t][Len(past[t])]]
        /\ past[t] \in Seq(Frames!Trees) /\ Len(past[t]) > 0
    BY DEF ReplicaInv, PastInv
  <2>2. Len(past[t]) \in 1 .. Len(past[t])
    BY <2>1
  <2>3. b.in.rev = Len(past[t]) /\ prod[t].nodes = past[t][Len(past[t])]
    BY <1>3, <2>1
  <2> QED  BY <1>3, <2>2, <2>3 DEF Captured
<1>5. PICK S : Names(S)
  BY DEF ReplicaInv
<1>6. key \in 1 .. MaxKey
  BY DEF ReplicaInv, PastInv
<1>7. IsBuild(b, t, S, seq, past)
  BY <1>2, <1>3, <1>4, <1>5, <1>6 DEF IsBuild, Names
<1>8. /\ build' = [q \in Targets |-> build'[q]] /\ build'[t] = b
      /\ \A q \in Targets \ {t} : build'[q] = build[q]
  BY <1>1 DEF ReplicaInv
<1>9. \A q \in Targets : build'[q] # NoFrame => build'[q] = build[q] \/ IsBuild(build'[q], q, S, seq, past)
  BY <1>7, <1>8
<1>10. /\ dev' = [q \in Targets |-> dev'[q]] /\ base' = [q \in Targets |-> base'[q]]
       /\ pend' = [q \in Targets |-> pend'[q]]
  BY <1>1 DEF ReplicaInv
<1> QED  BY <1>1, <1>5, <1>6, <1>8, <1>9, <1>10, ReplicaKeeps

\* The frame's identity is new, and names the state the server computes.
LEMMA ReplicaIssued ==
  ASSUME Frames!FramesAssumption, ReplicaInv, NEW t \in Targets, Frames!Issue(t)
  PROVE  ReplicaInv'
<1> DEFINE b == build[t]
           f == Frames!FrameOf(b)
           e == Frames!Envelope(b.key, "me", seq[b.key] + 1, IF b.from = NoFrame THEN NoFrame ELSE b.from.id, f)
           st == Frames!StateOf(b.from)
           new == Frames!Identity(e)
           after == Frames!Reduce(st, f)
<1>1. /\ b # NoFrame
      /\ Frames!Reducible(st, f)
      /\ seq' = [seq EXCEPT ![b.key] = seq[b.key] + 1]
      /\ net' = net \cup {Frames!Message(e)}
      /\ pend' = [pend EXCEPT ![t] = [id |-> new, st |-> after]]
      /\ build' = [build EXCEPT ![t] = NoFrame]
      /\ UNCHANGED <<prod, past, key, base, dev>>
  <2>1. e.frame = f
    BY DEF Frames!Envelope
  <2> HIDE DEF f
  <2> QED  BY <2>1 DEF Frames!Issue, Frames!device, Frames!StateAfter, f
<1>2. /\ e.issuer = b.key /\ e.audience = "me" /\ e.seq = seq[b.key] + 1 /\ e.frame = f
      /\ e.base = IF b.from = NoFrame THEN NoFrame ELSE b.from.id
  BY DEF Frames!Envelope
<1>3. new = [issuer |-> b.key, audience |-> "me", seq |-> seq[b.key] + 1]
  BY <1>2 DEF Frames!Identity
<1>4. PICK S : Names(S)
  BY DEF ReplicaInv
<1>5. IsBuild(b, t, S, seq, past)
  BY <1>1, <1>4 DEF Names
<1>6. /\ b.key \in 1 .. MaxKey /\ b.in.target = t /\ Captured(b.in, past[t])
      /\ (b.from # NoFrame => IsCell(b.from, t, S, seq, past))
  BY <1>5 DEF IsBuild
<1>7. /\ seq \in [1 .. MaxKey -> Nat] /\ seq[b.key] \in Nat /\ past[t] \in Seq(Frames!Trees)
  BY <1>6 DEF ReplicaInv, PastInv
<1>8. f.target = t /\ (f.mode = "bootstrap" <=> b.from = NoFrame)
  BY <1>6 DEF Frames!FrameOf, Frames!BootstrapFrame, Frames!DeltaFrame, Frames!Frame
<1>9. /\ HoldsProduction(after, past[t])
      /\ b.from = NoFrame => after = Frames!Reduce(NoFrame, f)
      /\ b.from # NoFrame => e.base = b.from.id /\ IsIssued(e.base, seq) /\ after = Frames!Reduce(S[e.base], f)
  <2>1. CASE b.from = NoFrame
    <3>1. st = NoFrame /\ f = Frames!BootstrapFrame(b.in)
      BY <2>1 DEF Frames!StateOf, Frames!FrameOf
    <3>2. HoldsProduction(Frames!Reduce(NoFrame, Frames!BootstrapFrame(b.in)), past[t])
      BY <1>6, <1>7, BootstrapHolds
    <3> HIDE DEF f, st
    <3> QED  BY <2>1, <3>1, <3>2
  <2>2. CASE b.from # NoFrame
    <3>1. st = b.from.st /\ f = Frames!DeltaFrame(b.from.st, b.in)
      BY <2>2 DEF Frames!StateOf, Frames!FrameOf
    <3>2. IsIssued(b.from.id, seq) /\ st = S[b.from.id] /\ HoldsProduction(st, past[t])
      BY <1>6, <2>2, <3>1 DEF IsCell
    <3>3. e.base = b.from.id
      BY <1>2, <2>2
    <3>4. st # NoFrame
      BY <1>1, <1>8, <2>2 DEF Frames!Reducible
    <3> HIDE DEF f, st, e
    <3>5. HoldsProduction(Frames!Reduce(st, Frames!DeltaFrame(st, b.in)), past[t])
      BY <1>1, <1>6, <1>7, <3>1, <3>2, <3>4, DeltaHolds
    <3> QED  BY <2>2, <3>1, <3>2, <3>3, <3>5
  <2> QED  BY <2>1, <2>2
<1> HIDE DEF after, st, f, e, new
<1>10. PICK S2 : S2 = [i \in Ids |-> IF i = new THEN after ELSE S[i]]
  OBVIOUS
<1>11. /\ new \in Ids /\ new.issuer = b.key /\ new.seq = seq[b.key] + 1 /\ S2[new] = after
  <2>1. new \in Ids
    BY <1>3, <1>6, <1>7 DEF Ids
  <2> QED  BY <1>3, <1>10, <2>1
<1>12. /\ seq' \in [1 .. MaxKey -> Nat] /\ seq'[b.key] = seq[b.key] + 1
       /\ \A k \in 1 .. MaxKey : seq[k] <= seq'[k]
  BY <1>1, <1>6, <1>7
<1>13. Extends(S, seq, past, S2, seq', past)
  <2>1. ASSUME NEW i, IsIssued(i, seq)
        PROVE  IsIssued(i, seq') /\ S2[i] = S[i]
    <3>1. i \in Ids /\ i.seq <= seq[i.issuer] /\ i.issuer \in 1 .. MaxKey /\ i.seq \in Nat
      BY <2>1 DEF IsIssued, Ids
    <3>2. i # new
      BY <1>7, <1>11, <3>1
    <3>3. i.seq <= seq'[i.issuer]
      BY <1>7, <1>12, <3>1
    <3> QED  BY <1>10, <3>1, <3>2, <3>3 DEF IsIssued
  <2> QED  BY <2>1 DEF Extends
<1>14. IsIssued(new, seq')
  BY <1>7, <1>11, <1>12 DEF IsIssued
<1>15. /\ \A x : \A q \in Targets : IsCell(x, q, S, seq, past) => IsCell(x, q, S2, seq', past)
       /\ \A b2 : \A q \in Targets : IsBuild(b2, q, S, seq, past) => IsBuild(b2, q, S2, seq', past)
       /\ \A m : IsFrame(m, S, seq, past) => IsFrame(m, S2, seq', past)
  BY <1>13, NamedStays
<1>16. IsCell([id |-> new, st |-> after], t, S2, seq', past)
  BY <1>9, <1>11, <1>14 DEF IsCell
<1>17. IsFrame(Frames!Message(e), S2, seq', past)
  <2>1. Frames!Message(e).id = new /\ Frames!Message(e).env = e
    BY DEF Frames!Message, new
  <2>2. b.from # NoFrame => IsIssued(e.base, seq') /\ S2[e.base] = S[e.base]
    BY <1>9, <1>13 DEF Extends
  <2>3. S2[new] = after /\ HoldsProduction(after, past[t]) /\ f.target = t /\ e.frame = f
    BY <1>2, <1>8, <1>9, <1>11
  <2>4. f.mode = "bootstrap" => S2[new] = Frames!Reduce(NoFrame, f)
    BY <1>8, <1>9, <2>3
  <2>5. f.mode # "bootstrap" => IsIssued(e.base, seq') /\ S2[new] = Frames!Reduce(S2[e.base], f)
    BY <1>8, <1>9, <2>2, <2>3
  <2> QED  BY <1>14, <2>1, <2>3, <2>4, <2>5 DEF IsFrame
<1>18. /\ pend = [q \in Targets |-> pend[q]] /\ build = [q \in Targets |-> build[q]]
       /\ dev = [q \in Targets |-> dev[q]] /\ base = [q \in Targets |-> base[q]] /\ PastInv
  BY DEF ReplicaInv
<1> DEFINE cell == [id |-> new, st |-> after]
<1>19. /\ pend' = [q \in Targets |-> pend'[q]] /\ build' = [q \in Targets |-> build'[q]]
       /\ pend'[t] = cell /\ \A q \in Targets \ {t} : pend'[q] = pend[q]
       /\ \A q \in Targets : build'[q] = NoFrame \/ build'[q] = build[q]
       /\ dev' = dev /\ base' = base /\ net' = net \cup {Frames!Message(e)}
  BY <1>1, <1>18
<1>20. IsCell(cell, t, S2, seq', past)
  BY <1>16
<1> HIDE DEF cell, b
<1>21. Names(S2)'
  <2>1. \A q \in Targets : dev'[q] # NoFrame => IsCell(dev'[q], q, S2, seq', past)
    BY <1>4, <1>15, <1>19 DEF Names
  <2>2. \A q \in Targets : base'[q] # NoFrame => IsCell(base'[q], q, S2, seq', past)
    BY <1>4, <1>15, <1>19 DEF Names
  <2>3. \A q \in Targets : pend'[q] # NoFrame => IsCell(pend'[q], q, S2, seq', past)
    BY <1>4, <1>15, <1>19, <1>20 DEF Names
  <2>4. \A q \in Targets : build'[q] # NoFrame => IsBuild(build'[q], q, S2, seq', past)
    BY <1>4, <1>15, <1>19 DEF Names
  <2>5. \A m \in net' : m.env.audience = "me" => IsFrame(m, S2, seq', past)
    BY <1>4, <1>15, <1>17, <1>19 DEF Names
  <2>6. past' = past
    BY <1>1
  <2> QED  BY <2>1, <2>2, <2>3, <2>4, <2>5, <2>6 DEF Names
<1>22. PastInv'
  BY <1>1, <1>12, <1>18 DEF PastInv
<1> QED  BY <1>18, <1>19, <1>21, <1>22 DEF ReplicaInv

\* A device that applies a frame holds the state its identity names.
LEMMA ReplicaReceived ==
  ASSUME ReplicaInv, NEW m \in net, Frames!Receive(m)
  PROVE  ReplicaInv'
<1> DEFINE f == m.env.frame
<1>1. /\ UNCHANGED <<prod, past, key, seq, build, pend, base, net>>
      /\ m.env.audience = "me" /\ Frames!ParsesPayload(m.env)
  BY DEF Frames!Receive, Frames!server, Frames!Admits
<1>2. PICK S : Names(S)
  BY DEF ReplicaInv
<1>3. IsFrame(m, S, seq, past)
  BY <1>1, <1>2 DEF Names
<1>4. /\ IsIssued(m.id, seq) /\ f.target \in Targets /\ HoldsProduction(S[m.id], past[f.target])
      /\ f.mode = "bootstrap" => S[m.id] = Frames!Reduce(NoFrame, f)
      /\ f.mode # "bootstrap" => IsIssued(m.env.base, seq) /\ S[m.id] = Frames!Reduce(S[m.env.base], f)
  BY <1>3 DEF IsFrame
<1>5. dev = [q \in Targets |-> dev[q]] /\ key \in 1 .. MaxKey
  BY DEF ReplicaInv, PastInv
<1> DEFINE t == f.target
           held == Frames!StateOf(dev[t])
           cell == [id |-> m.id, st |-> Frames!Reduce(held, f)]
<1>6. CASE Frames!Applies(m)
  <2>1. dev' = [dev EXCEPT ![t] = cell]
    BY <1>6 DEF Frames!Receive
  <2>2. Frames!Reduce(held, f) = S[m.id]
    <3>1. CASE dev[t] = NoFrame
      <4>1. held = NoFrame /\ m.env.base = NoFrame
        BY <1>6, <3>1 DEF Frames!Applies, Frames!StateOf
      <4>2. f.mode = "bootstrap"
        BY <1>1, <4>1 DEF Frames!ParsesPayload
      <4> QED  BY <1>4, <4>1, <4>2
    <3>2. CASE dev[t] # NoFrame
      <4>1. held = dev[t].st /\ m.env.base = dev[t].id /\ Frames!Reducible(dev[t].st, f)
        BY <1>6, <3>2 DEF Frames!Applies, Frames!StateOf
      <4>2. dev[t].st = S[dev[t].id]
        BY <1>2, <1>4, <3>2 DEF Names, IsCell
      <4>3. CASE f.mode = "bootstrap"
        BY <1>4, <4>1, <4>3 DEF Frames!Reducible
      <4>4. CASE f.mode # "bootstrap"
        BY <1>4, <4>1, <4>2, <4>4
      <4> QED  BY <4>3, <4>4
    <3> QED  BY <3>1, <3>2
  <2>3. IsCell(cell, t, S, seq, past)
    BY <1>4, <2>2 DEF IsCell
  <2> HIDE DEF cell
  <2>4. /\ dev' = [q \in Targets |-> dev'[q]] /\ dev'[t] = cell
        /\ \A q \in Targets \ {t} : dev'[q] = dev[q]
    BY <1>4, <1>5, <2>1
  <2>5. \A q \in Targets : dev'[q] = dev[q] \/ IsCell(dev'[q], q, S, seq, past)
    BY <2>3, <2>4
  <2>6. /\ build' = [q \in Targets |-> build'[q]] /\ base' = [q \in Targets |-> base'[q]]
        /\ pend' = [q \in Targets |-> pend'[q]]
    BY <1>1 DEF ReplicaInv
  <2> QED  BY <1>1, <1>2, <1>5, <2>4, <2>5, <2>6, ReplicaKeeps
<1>7. CASE ~Frames!Applies(m)
  <2>1. dev' = dev
    BY <1>7 DEF Frames!Receive
  <2>2. /\ build' = [q \in Targets |-> build'[q]] /\ base' = [q \in Targets |-> base'[q]]
        /\ pend' = [q \in Targets |-> pend'[q]] /\ dev' = [q \in Targets |-> dev'[q]]
    BY <1>1, <2>1 DEF ReplicaInv
  <2> QED  BY <1>1, <1>2, <1>5, <2>1, <2>2, ReplicaKeeps
<1> QED  BY <1>6, <1>7

LEMMA ReplicaSteps ==
  ASSUME Frames!FramesAssumption, ReplicaInv, [Frames!Next]_(Frames!vars)
  PROVE  ReplicaInv'
<1>0. /\ dev = [t \in Targets |-> dev[t]] /\ base = [t \in Targets |-> base[t]]
      /\ pend = [t \in Targets |-> pend[t]] /\ build = [t \in Targets |-> build[t]]
      /\ key \in 1 .. MaxKey
  BY DEF ReplicaInv, PastInv
<1>1. PICK S : Names(S)
  BY DEF ReplicaInv
<1>2. CASE UNCHANGED Frames!vars
  <2>1. UNCHANGED <<prod, past, seq, key, dev, base, pend, build, net>>
    BY <1>2 DEF Frames!vars, Frames!server, Frames!device
  <2> QED  BY <1>0, <1>1, <2>1, ReplicaKeeps
<1>3. ASSUME NEW t \in Targets, Frames!Discard(t)
      PROVE  ReplicaInv'
  <2>1. UNCHANGED <<prod, past, seq, key, dev, base, pend, net>> /\ build' = [build EXCEPT ![t] = NoFrame]
    BY <1>3 DEF Frames!Discard, Frames!device
  <2>2. build' = [q \in Targets |-> build'[q]] /\ \A q \in Targets : build'[q] \in {NoFrame, build[q]}
    BY <1>0, <2>1
  <2> QED  BY <1>0, <1>1, <2>1, <2>2, ReplicaKeeps
<1>4. ASSUME NEW t \in Targets, Frames!Acknowledged(t)
      PROVE  ReplicaInv'
  <2>1. /\ UNCHANGED <<prod, past, seq, key, dev, build, net>>
        /\ base' = [base EXCEPT ![t] = pend[t]] /\ pend' = [pend EXCEPT ![t] = NoFrame]
    BY <1>4 DEF Frames!Acknowledged, Frames!device
  <2>2. /\ base' = [q \in Targets |-> base'[q]] /\ \A q \in Targets : base'[q] \in {base[q], pend[q]}
        /\ pend' = [q \in Targets |-> pend'[q]] /\ \A q \in Targets : pend'[q] \in {NoFrame, pend[q]}
    BY <1>0, <2>1
  <2> QED  BY <1>0, <1>1, <2>1, <2>2, ReplicaKeeps
<1>5. ASSUME NEW t \in Targets, Frames!Misdelivered(t)
      PROVE  ReplicaInv'
  <2>1. UNCHANGED <<prod, past, seq, key, dev, base, pend, build>>
    BY <1>5 DEF Frames!Misdelivered, Frames!server, Frames!device
  <2>2. PICK e : net' = net \cup {Frames!Message(e)} /\ e.audience = "other"
    <3> DEFINE f == Frames!BootstrapFrame([target |-> t, rev |-> prod[t].rev, gen |-> gen + 1, at |-> now,
                      actions |-> [c \in DOMAIN prod[t].nodes |-> Frames!Action(prod[t].nodes, c)],
                      obs |-> Frames!IndexComponents(prod[t].nodes)])
               e == Frames!Envelope(key, "other", seq[key] + 1, NoFrame, f)
    <3>1. net' = net \cup {Frames!Message(e)}
      BY <1>5 DEF Frames!Misdelivered
    <3>2. e.audience = "other"
      BY DEF Frames!Envelope
    <3> HIDE DEF e
    <3> QED  BY <3>1, <3>2
  <2>3. Frames!Message(e).env.audience # "me"
    BY <2>2 DEF Frames!Message
  <2> QED  BY <1>0, <1>1, <2>1, <2>2, <2>3, ReplicaKeeps
<1>6. ASSUME Frames!Tick
      PROVE  ReplicaInv'
  <2>1. UNCHANGED <<prod, past, seq, key, dev, base, pend, build, net>>
    BY <1>6 DEF Frames!Tick, Frames!server, Frames!device
  <2> QED  BY <1>0, <1>1, <2>1, ReplicaKeeps
<1>7. ASSUME Frames!RotateKey
      PROVE  ReplicaInv'
  <2>1. UNCHANGED <<prod, past, seq, dev, base, pend, build, net>> /\ key < MaxKey /\ key' = key + 1
    BY <1>7 DEF Frames!RotateKey, Frames!device
  <2>2. key' \in 1 .. MaxKey
    BY <1>0, <2>1 DEF Frames!FramesAssumption
  <2> QED  BY <1>0, <1>1, <2>1, <2>2, ReplicaKeeps
<1>8. ASSUME Frames!Reconnect \/ Frames!Repin
      PROVE  ReplicaInv'
  <2>1. /\ UNCHANGED <<prod, past, seq, key>> /\ dev' = [q \in Targets |-> NoFrame]
        /\ \/ net' = {} /\ \A x \in {build', pend', base'} : x = [q \in Targets |-> NoFrame]
           \/ UNCHANGED <<build, pend, base, net>>
    BY <1>8 DEF Frames!Reconnect, Frames!Repin, Frames!server, Frames!device
  <2>2. /\ base' = [q \in Targets |-> base'[q]] /\ \A q \in Targets : base'[q] \in {NoFrame, base[q]}
        /\ pend' = [q \in Targets |-> pend'[q]] /\ \A q \in Targets : pend'[q] \in {NoFrame, pend[q]}
        /\ build' = [q \in Targets |-> build'[q]] /\ \A q \in Targets : build'[q] \in {NoFrame, build[q]}
        /\ dev' = [q \in Targets |-> dev'[q]] /\ \A q \in Targets : dev'[q] = NoFrame
        /\ net' \subseteq net
    BY <1>0, <2>1
  <2> QED  BY <1>0, <1>1, <2>1, <2>2, ReplicaKeeps
<1> QED  BY <1>2, <1>3, <1>4, <1>5, <1>6, <1>7, <1>8, ReplicaOutlivesProduction, ReplicaCaptured,
            ReplicaIssued, ReplicaReceived DEF Frames!Next

LEMMA ReplicaShows ==
  ASSUME Frames!FramesAssumption, ReplicaInv
  PROVE  ReplicaIsProduction
<1>1. PICK S : Names(S)
  BY DEF ReplicaInv
<1>2. Frames!BaseIsTheReplica
  BY <1>1 DEF Frames!BaseIsTheReplica, Names, IsCell
<1>3. ASSUME NEW t \in Targets, dev[t] # NoFrame
      PROVE  LET s == dev[t].st
                 n == past[t][s.rev]
             IN  /\ DOMAIN s.controls = DOMAIN n \cap Allowed
                 /\ \A c \in DOMAIN s.controls :
                      LET d == s.controls[c]
                          old == past[t][d.vrev]
                      IN  /\ d.label = n[c].label
                          /\ d.value = (\A a \in Frames!Above(c) : n[a].shown)
                          /\ d.vrev <= s.rev /\ c \in DOMAIN old
                          /\ d.value = (\A a \in Frames!Above(c) : old[a].shown)
  <2> DEFINE s == dev[t].st
             n == past[t][s.rev]
  <2>1. HoldsProduction(s, past[t])
    BY <1>1, <1>3 DEF Names, IsCell
  <2>2. past[t] \in Seq(Frames!Trees)
    BY DEF ReplicaInv, PastInv
  <2>3. DOMAIN s.controls = DOMAIN n \cap Allowed /\ s.rev \in 1 .. Len(past[t]) /\ Len(past[t]) \in Nat
    BY <2>1, <2>2 DEF HoldsProduction
  <2>4. ASSUME NEW c \in DOMAIN s.controls
        PROVE  LET d == s.controls[c]
                   old == past[t][d.vrev]
               IN  /\ d.label = n[c].label
                   /\ d.value = (\A a \in Frames!Above(c) : n[a].shown)
                   /\ d.vrev <= s.rev /\ c \in DOMAIN old
                   /\ d.value = (\A a \in Frames!Above(c) : old[a].shown)
    <3> DEFINE d == s.controls[c]
               old == past[t][d.vrev]
    <3>1. HoldsControl(d, s, c, past[t])
      BY <2>1 DEF HoldsProduction
    <3>2. /\ d.label = n[c].label /\ d.value = Displayed(n, c) /\ d.vrev \in 1 .. s.rev
          /\ c \in DOMAIN old /\ d.value = Displayed(old, c)
      BY <3>1 DEF HoldsControl
    <3>3. d.vrev <= s.rev
      BY <2>3, <3>2
    <3> QED  BY <3>2, <3>3, Zenon DEF Displayed
  <2> QED  BY <2>3, <2>4, Zenon
<1> QED  BY <1>2, <1>3, Zenon DEF ReplicaIsProduction, Frames!ReplicaIsProduction

(* For every element tree, set of scenes, number of targets, revisions,    *)
(* keys and frames: what the device holds for a target is the authorized   *)
(* controls of the production revision it names, and what the server takes *)
(* for that state is that state, however frames are lost, repeated,        *)
(* reordered and overtaken.                                                *)
THEOREM DeviceHoldsProduction == Frames!Spec => []ReplicaIsProduction
<1>1. Frames!Init => ReplicaInv
  BY ProtocolAssumption, ReplicaStarts
<1>2. ReplicaInv /\ [Frames!Next]_(Frames!vars) => ReplicaInv'
  BY ProtocolAssumption, ReplicaSteps
<1>3. ReplicaInv => ReplicaIsProduction
  BY ProtocolAssumption, ReplicaShows
<1> QED  BY <1>1, <1>2, <1>3, PTL DEF Frames!Spec

(***************************************************************************)
(* The feedback of one control.                                            *)
(***************************************************************************)
Observed == [kind : {"observed"}, value : Values, revision : Nat, at : Int]
Failures == [kind : {"failed"}, at : Int]
Acknowledgements == [kind : {"acknowledged"}, at : Int]
FeedbackEvents == Observed \cup Failures \cup Acknowledgements
Envelopes == [event : FeedbackEvents, flaw : Flaws \cup {"none"}]

(* An observation for this consumer is of a value at a time at which the    *)
(* control had it, after every earlier revision.                           *)
Genuine(e, tr, la) ==
  e \in Observed =>
    /\ e.revision \in 1 .. Len(tr) /\ e.value = tr[e.revision]
    /\ e.at <= la[e.revision]
    /\ \A r \in 1 .. Len(tr) : r < e.revision => la[r] <= e.at

TruthInv ==
  /\ clock \in Int /\ skew \in Int
  /\ truth \in Seq(Values) /\ lastAt \in Seq(Int) /\ Len(truth) = Len(lastAt) /\ Len(truth) > 0
  /\ \A r \in 1 .. Len(lastAt) : lastAt[r] <= clock
  /\ lastAt[Len(lastAt)] = clock

(* What was sent without a flaw is genuine; what is being verified has no   *)
(* flaw that is found before.                                              *)
SentInv ==
  /\ sent \in Seq(Envelopes)
  /\ \A n \in DOMAIN sent : sent[n].flaw = "none" => Genuine(sent[n].event, truth, lastAt)
  /\ \A c \in checking : c.sequence \in DOMAIN sent /\ sent[c.sequence].flaw \notin EarlyFlaws

(* What was admitted is what the server sent for this consumer.            *)
Own(e) == readable /\ \E n \in DOMAIN sent : sent[n] = [event |-> e, flaw |-> "none"]

AdmittedInv ==
  admitted \in Seq(FeedbackEvents) /\ \A i \in DOMAIN admitted : Own(admitted[i])

(* The state is made of what was admitted, its observation the newest, and *)
(* its failure no older than any that is not outlived by that observation. *)
HoldsFailures(s, fs) ==
  \A f \in fs : s.observation = None \/ f.at >= s.observation.at => s.failure # None /\ s.failure.at >= f.at
HoldsNewest(s, os) ==
  /\ (s.observation = None) <=> (os = {})
  /\ \A e \in os : \/ e.revision < s.observation.revision
                   \/ e.revision = s.observation.revision /\ e.at <= s.observation.at

MadeOf(s, os, fs, as) ==
  /\ s = [observation |-> s.observation, delivery |-> s.delivery, failure |-> s.failure]
  /\ s.observation \in {None} \cup os /\ s.failure \in {None} \cup fs
  /\ s.delivery \in {None} \cup as

Reduced(s, os, fs, as) == MadeOf(s, os, fs, as) /\ HoldsNewest(s, os) /\ HoldsFailures(s, fs)

(* One of the admitted observations is the one a Companion button keeps.   *)
OneIsLatest(events) ==
  Observations(events) # {} =>
    \E i \in Observations(events) : \A j \in Observations(events) : Outlives(events, i, j)

FeedbackInv ==
  /\ TruthInv /\ SentInv /\ AdmittedInv /\ OneIsLatest(admitted)
  /\ Reduced(state, Admitted("observed"), Admitted("failed"), Admitted("acknowledged"))

\* Events are told apart by their kind.
LEMMA KindsDiffer ==
  /\ \A e \in FeedbackEvents : /\ e.kind = "observed" => e \in Observed
                               /\ e.kind = "failed" => e \in Failures
                               /\ e.kind = "acknowledged" => e \in Acknowledgements
  /\ \A e \in Observed : e.kind = "observed" /\ e.at \in Int /\ e.revision \in Nat /\ e.value \in Values
  /\ \A e \in Failures : e.kind = "failed" /\ e.at \in Int
  /\ \A e \in Acknowledgements : e.kind = "acknowledged" /\ e.at \in Int
  /\ None \notin FeedbackEvents
<1>1. None.kind = "none"
  BY DEF None
<1> QED  BY <1>1 DEF FeedbackEvents, Observed, Failures, Acknowledgements

LEMMA AdmittedOnes ==
  ASSUME AdmittedInv
  PROVE  /\ Admitted("observed") \subseteq Observed /\ Admitted("failed") \subseteq Failures
         /\ \A k : Admitted(k) \subseteq FeedbackEvents
  BY KindsDiffer DEF AdmittedInv, Admitted

\* Of two genuine observations the one of the higher revision is no older.
LEMMA RevisionsAreInTime ==
  ASSUME TruthInv, NEW d \in Observed, NEW e \in Observed, Genuine(d, truth, lastAt),
         Genuine(e, truth, lastAt), d.revision < e.revision
  PROVE  d.at <= e.at
  BY KindsDiffer DEF TruthInv, Genuine

LEMMA GenuineAdmitted ==
  ASSUME SentInv, AdmittedInv
  PROVE  \A k : \A e \in Admitted(k) : Own(e) /\ Genuine(e, truth, lastAt)
<1> SUFFICES ASSUME NEW k, NEW e \in Admitted(k)
             PROVE  Own(e) /\ Genuine(e, truth, lastAt)
  OBVIOUS
<1>1. Own(e)
  BY DEF AdmittedInv, Admitted
<1>2. PICK n \in DOMAIN sent : sent[n] = [event |-> e, flaw |-> "none"]
  BY <1>1 DEF Own
<1>3. sent[n].event = e /\ sent[n].flaw = "none"
  BY <1>2
<1> QED  BY <1>1, <1>3 DEF SentInv

LEMMA FeedbackStarts == ASSUME Init PROVE FeedbackInv
<1>1. /\ clock = 0 /\ truth = <<"inactive">> /\ lastAt = <<0>> /\ sent = <<>> /\ checking = {}
      /\ admitted = <<>> /\ state = [observation |-> None, delivery |-> None, failure |-> None]
      /\ skew \in Int
  BY SkewsAssumption DEF Init, createControlFeedbackState
<1>2. TruthInv
  BY <1>1 DEF TruthInv, Values
<1>3. sent \in Seq(Envelopes) /\ admitted \in Seq(FeedbackEvents) /\ DOMAIN sent = {} /\ DOMAIN admitted = {}
  BY <1>1
<1>4. \A k : Admitted(k) = {}
  BY <1>3 DEF Admitted
<1>5. SentInv /\ AdmittedInv
  BY <1>1, <1>3 DEF SentInv, AdmittedInv
<1>6. Reduced(state, {}, {}, {})
  BY <1>1 DEF Reduced, MadeOf, HoldsNewest, HoldsFailures
<1>7. OneIsLatest(admitted)
  BY <1>3 DEF OneIsLatest, Observations
<1> QED  BY <1>2, <1>4, <1>5, <1>6, <1>7 DEF FeedbackInv

\* The server moves on: what was genuine stays so.
LEMMA ServerTicks ==
  ASSUME FeedbackInv, Tick \/ Change
  PROVE  TruthInv' /\ \A e : Genuine(e, truth, lastAt) => Genuine(e, truth', lastAt')
<1>1. TruthInv
  BY DEF FeedbackInv
<1>2. CASE Tick
  <2>1. /\ clock' = clock + 1 /\ skew' = skew /\ truth' = truth
        /\ lastAt' = [lastAt EXCEPT ![Len(truth)] = clock + 1]
    BY <1>2 DEF Tick
  <2>2. /\ lastAt' \in Seq(Int) /\ Len(lastAt') = Len(lastAt) /\ lastAt'[Len(truth)] = clock + 1
        /\ \A r \in 1 .. Len(truth) : r # Len(truth) => lastAt'[r] = lastAt[r]
    BY <1>1, <2>1 DEF TruthInv
  <2>3. TruthInv'
    BY <1>1, <2>1, <2>2 DEF TruthInv
  <2>4. ASSUME NEW e, Genuine(e, truth, lastAt)
        PROVE  Genuine(e, truth', lastAt')
    BY <1>1, <2>1, <2>2, <2>4, KindsDiffer DEF TruthInv, Genuine
  <2> QED  BY <2>3, <2>4
<1>3. CASE Change
  <2> DEFINE n == Len(truth)
  <2>0. truth \in Seq(Values) /\ lastAt \in Seq(Int) /\ clock \in Int /\ n \in Nat /\ n > 0 /\ Len(lastAt) = n
    BY <1>1 DEF TruthInv
  <2>1. PICK v \in Values : /\ truth' = Append(truth, v) /\ lastAt' = Append(lastAt, clock)
                            /\ clock' = clock /\ skew' = skew
    <3>1. (CHOOSE v \in Values : v # Last(truth)) \in Values
      BY DEF Values
    <3> QED  BY <1>3, <3>1 DEF Change
  <2>2. /\ truth' \in Seq(Values) /\ lastAt' \in Seq(Int) /\ Len(truth') = n + 1 /\ Len(lastAt') = n + 1
        /\ lastAt'[n + 1] = clock
        /\ \A r \in 1 .. n : truth'[r] = truth[r] /\ lastAt'[r] = lastAt[r]
    BY <2>0, <2>1
  <2>3. TruthInv'
    BY <1>1, <2>0, <2>1, <2>2 DEF TruthInv
  <2>4. ASSUME NEW e, Genuine(e, truth, lastAt)
        PROVE  Genuine(e, truth', lastAt')
    <3> SUFFICES ASSUME e \in Observed
                 PROVE  /\ e.revision \in 1 .. Len(truth') /\ e.value = truth'[e.revision]
                        /\ e.at <= lastAt'[e.revision]
                        /\ \A r \in 1 .. Len(truth') : r < e.revision => lastAt'[r] <= e.at
      BY DEF Genuine
    <3>1. /\ e.revision \in 1 .. n /\ e.value = truth[e.revision]
          /\ e.at <= lastAt[e.revision]
          /\ \A r \in 1 .. n : r < e.revision => lastAt[r] <= e.at
      BY <2>4 DEF Genuine
    <3>2. e.revision \in Nat /\ e.revision <= n /\ e.revision \in 1 .. Len(truth')
      BY <2>0, <2>2, <3>1
    <3>3. e.value = truth'[e.revision] /\ e.at <= lastAt'[e.revision]
      BY <2>2, <3>1
    <3>4. ASSUME NEW r \in 1 .. Len(truth'), r < e.revision
          PROVE  lastAt'[r] <= e.at
      <4>1. r \in 1 .. n
        BY <2>0, <2>2, <3>2, <3>4
      <4> QED  BY <2>2, <3>1, <3>4, <4>1
    <3> QED  BY <3>2, <3>3, <3>4
  <2> QED  BY <2>3, <2>4
<1> QED  BY <1>2, <1>3

\* Nothing is admitted.
LEMMA ConsumerRests ==
  ASSUME FeedbackInv, TruthInv', \A e : Genuine(e, truth, lastAt) => Genuine(e, truth', lastAt'),
         UNCHANGED <<state, admitted, readable>>, sent' \in Seq(Envelopes),
         \A n \in DOMAIN sent : n \in DOMAIN sent' /\ sent'[n] = sent[n],
         \A n \in DOMAIN sent' : n \notin DOMAIN sent /\ sent'[n].flaw = "none"
           => Genuine(sent'[n].event, truth', lastAt'),
         \A c \in checking' : c \in checking \/
           (c.sequence \in DOMAIN sent /\ sent[c.sequence].flaw \notin EarlyFlaws)
  PROVE  FeedbackInv'
<1>1. SentInv'
  BY DEF FeedbackInv, SentInv
<1>2. AdmittedInv'
  BY DEF FeedbackInv, AdmittedInv, Own
<1>3. \A k : Admitted(k)' = Admitted(k)
  BY DEF Admitted
<1>4. OneIsLatest(admitted)'
  BY DEF FeedbackInv, OneIsLatest, Observations, Outlives
<1>5. Reduced(state, Admitted("observed"), Admitted("failed"), Admitted("acknowledged"))'
  BY <1>3 DEF FeedbackInv, Reduced, MadeOf, HoldsNewest, HoldsFailures
<1> QED  BY <1>1, <1>2, <1>4, <1>5 DEF FeedbackInv

\* What is issued as the server's own observation is genuine.
LEMMA IssuedKeeps ==
  ASSUME FeedbackInv, NEW event \in FeedbackEvents, NEW flaw \in Flaws \cup {"none"},
         Issue(event, flaw), flaw = "none" => Genuine(event, truth, lastAt)
  PROVE  FeedbackInv'
<1>1. /\ UNCHANGED <<clock, skew, readable, truth, lastAt, checking, state, admitted>>
      /\ sent' = Append(sent, [event |-> event, flaw |-> flaw])
      /\ sent \in Seq(Envelopes) /\ [event |-> event, flaw |-> flaw] \in Envelopes
  BY DEF FeedbackInv, SentInv, Issue, Envelopes
<1>2. /\ sent' \in Seq(Envelopes)
      /\ \A n \in DOMAIN sent : n \in DOMAIN sent' /\ sent'[n] = sent[n]
      /\ \A n \in DOMAIN sent' : n \notin DOMAIN sent => sent'[n] = [event |-> event, flaw |-> flaw]
  BY <1>1
<1>3. TruthInv' /\ (\A e : Genuine(e, truth, lastAt) => Genuine(e, truth', lastAt'))
  BY <1>1 DEF FeedbackInv, TruthInv
<1> QED  BY <1>1, <1>2, <1>3, ConsumerRests

LEMMA ServerKeeps ==
  ASSUME FeedbackInv,
         Tick \/ Change \/ IssueObservation \/ IssueFailure \/ IssueAcknowledgement \/ Foreign
  PROVE  FeedbackInv'
<1> USE DEF FeedbackInv
<1>1. CASE Tick \/ Change
  <2>1. UNCHANGED <<sent, checking, state, admitted, readable>>
    BY <1>1 DEF Tick, Change
  <2>2. TruthInv' /\ \A e : Genuine(e, truth, lastAt) => Genuine(e, truth', lastAt')
    BY <1>1, ServerTicks
  <2>3. sent' \in Seq(Envelopes)
    BY <2>1 DEF SentInv
  <2> QED  BY <2>1, <2>2, <2>3, ConsumerRests
<1> DEFINE n == Len(truth)
<1>2. /\ n \in 1 .. Len(truth) /\ n \in Nat /\ Last(truth) = truth[n] /\ truth[n] \in Values
      /\ clock \in Int /\ clock <= lastAt[n] /\ \A r \in 1 .. n : lastAt[r] <= clock
  BY DEF TruthInv, Last
<1>3. CASE IssueObservation
  <2> DEFINE event == Observation(Last(truth), Len(truth), clock)
  <2>1. /\ event = [kind |-> "observed", value |-> truth[n], revision |-> n, at |-> clock]
        /\ event \in FeedbackEvents
    BY <1>2 DEF Observation, FeedbackEvents, Observed
  <2>2. Genuine(event, truth, lastAt)
    BY <1>2, <2>1 DEF Genuine
  <2> HIDE DEF event
  <2> QED  BY <1>3, <2>1, <2>2, IssuedKeeps DEF IssueObservation, event
<1>4. CASE IssueFailure
  <2>1. Failure(clock) \in FeedbackEvents /\ Failure(clock).kind = "failed"
    BY <1>2 DEF Failure, FeedbackEvents, Failures
  <2>2. Genuine(Failure(clock), truth, lastAt)
    BY <2>1, KindsDiffer DEF Genuine
  <2> QED  BY <1>4, <2>1, <2>2, IssuedKeeps DEF IssueFailure
<1>5. CASE IssueAcknowledgement
  <2>1. Acknowledgement(clock) \in FeedbackEvents /\ Acknowledgement(clock).kind = "acknowledged"
    BY <1>2 DEF Acknowledgement, FeedbackEvents, Acknowledgements
  <2>2. Genuine(Acknowledgement(clock), truth, lastAt)
    BY <2>1, KindsDiffer DEF Genuine
  <2> QED  BY <1>5, <2>1, <2>2, IssuedKeeps DEF IssueAcknowledgement
<1>6. CASE Foreign
  <2> DEFINE wrong == CHOOSE v \in Values : v # Last(truth)
  <2>1. wrong \in Values
    BY DEF Values
  <2> HIDE DEF wrong
  <2>2. Observation(wrong, Len(truth), clock) \in FeedbackEvents
    BY <1>2, <2>1 DEF Observation, FeedbackEvents, Observed
  <2>3. PICK flaw \in Flaws : Issue(Observation(wrong, Len(truth), clock), flaw)
    BY <1>6 DEF Foreign, wrong
  <2>4. flaw # "none"
    BY FlawsAssumption
  <2> QED  BY <2>2, <2>3, <2>4, IssuedKeeps
<1> QED  BY <1>1, <1>3, <1>4, <1>5, <1>6

\* One event folded into a state that is made of others.
LEMMA ReducingKeeps ==
  ASSUME NEW s, NEW e \in FeedbackEvents, NEW os \in SUBSET Observed, NEW fs \in SUBSET Failures,
         NEW as \in SUBSET Acknowledgements, Reduced(s, os, fs, as),
         e \in Observed => \A d \in os : d.revision < e.revision => d.at <= e.at
  PROVE  /\ e \in Observed => Reduced(reduceControlFeedback(s, e), os \cup {e}, fs, as)
         /\ e \in Failures => Reduced(reduceControlFeedback(s, e), os, fs \cup {e}, as)
         /\ e \in Acknowledgements => Reduced(reduceControlFeedback(s, e), os, fs, as \cup {e})
<1> DEFINE o == s.observation
           f == s.failure
           d == s.delivery
<1>1. /\ s = [observation |-> o, delivery |-> d, failure |-> f]
      /\ o \in {None} \cup os /\ f \in {None} \cup fs /\ d \in {None} \cup as
      /\ HoldsNewest(s, os) /\ HoldsFailures(s, fs)
  BY DEF Reduced, MadeOf
<1>2. /\ o = None <=> os = {}
      /\ \A x \in os : x.revision < o.revision \/ (x.revision = o.revision /\ x.at <= o.at)
      /\ \A x \in fs : (o = None \/ x.at >= o.at) => f # None /\ f.at >= x.at
  BY <1>1 DEF HoldsNewest, HoldsFailures
<1>3. /\ \A x \in os : x \in FeedbackEvents /\ x.kind = "observed" /\ x.at \in Int /\ x.revision \in Nat
      /\ \A x \in fs : x \in FeedbackEvents /\ x.kind = "failed" /\ x.at \in Int
      /\ \A x \in as : x \in FeedbackEvents /\ x.kind = "acknowledged" /\ x.at \in Int
      /\ e # None /\ e.at \in Int
  BY KindsDiffer DEF FeedbackEvents
<1> DEFINE t == reduceControlFeedback(s, e)
<1> HIDE DEF o, f, d
<1>4. ASSUME e \in Acknowledgements
      PROVE  Reduced(t, os, fs, as \cup {e})
  <2>1. t = ReduceAcknowledgement(s, e)
    BY <1>4, KindsDiffer DEF reduceControlFeedback
  <2>2. t = s \/ t = [observation |-> o, delivery |-> e, failure |-> f]
    BY <1>1, <2>1 DEF ReduceAcknowledgement
  <2> HIDE DEF t
  <2>3. PICK g \in {None} \cup as \cup {e} : t = [observation |-> o, delivery |-> g, failure |-> f]
    BY <1>1, <2>2
  <2> QED  BY <1>1, <1>2, <2>3 DEF Reduced, MadeOf, HoldsNewest, HoldsFailures
<1>5. ASSUME e \in Failures
      PROVE  Reduced(t, os, fs \cup {e}, as)
  <2>1. t = ReduceFailure(s, e)
    BY <1>5, KindsDiffer DEF reduceControlFeedback
  <2>2. \/ t = s /\ ((o # None /\ o.at > e.at) \/ (f # None /\ f.at > e.at))
        \/ /\ t = [observation |-> o, delivery |-> d, failure |-> e]
           /\ ~(f # None /\ f.at > e.at)
    BY <1>1, <2>1 DEF ReduceFailure, o, f, d
  <2> HIDE DEF t
  <2>3. PICK g \in {None} \cup fs \cup {e} :
          /\ t = [observation |-> o, delivery |-> d, failure |-> g]
          /\ \A x \in fs \cup {e} : (o = None \/ x.at >= o.at) => g # None /\ g.at >= x.at
    <3>1. CASE t = s /\ ((o # None /\ o.at > e.at) \/ (f # None /\ f.at > e.at))
      <4>1. (o = None \/ e.at >= o.at) => f # None /\ f.at >= e.at
        BY <1>1, <1>3, <3>1
      <4>2. \A x \in fs \cup {e} : (o = None \/ x.at >= o.at) => f # None /\ f.at >= x.at
        BY <1>2, <4>1
      <4> QED  BY <1>1, <3>1, <4>2
    <3>2. CASE t = [observation |-> o, delivery |-> d, failure |-> e] /\ ~(f # None /\ f.at > e.at)
      BY <1>1, <1>2, <1>3, <3>2
    <3> QED  BY <2>2, <3>1, <3>2
  <2>4. /\ t.observation = o /\ t.failure = g /\ t.delivery = d
        /\ t = [observation |-> t.observation, delivery |-> t.delivery, failure |-> t.failure]
    BY <2>3
  <2>5. MadeOf(t, os, fs \cup {e}, as)
    BY <1>1, <2>4 DEF MadeOf
  <2>6. HoldsNewest(t, os)
    BY <1>2, <2>4 DEF HoldsNewest
  <2>7. HoldsFailures(t, fs \cup {e})
    BY <2>3, <2>4 DEF HoldsFailures
  <2> QED  BY <2>5, <2>6, <2>7 DEF Reduced
<1>6. ASSUME e \in Observed
      PROVE  Reduced(t, os \cup {e}, fs, as)
  <2>0. e.revision \in Nat /\ e.kind = "observed"
    BY <1>6, KindsDiffer
  <2>1. t = ReduceObservation(s, e)
    BY <2>0 DEF reduceControlFeedback
  <2>2. CASE Superseded(o, e)
    <3>1. t = s
      BY <2>1, <2>2 DEF ReduceObservation, o
    <3>2. o \in os /\ (e.revision < o.revision \/ (e.revision = o.revision /\ e.at <= o.at))
      BY <1>1, <1>3, <2>2 DEF Superseded
    <3> HIDE DEF t
    <3> QED  BY <1>1, <1>2, <3>1, <3>2 DEF Reduced, MadeOf, HoldsNewest, HoldsFailures, o
  <2>3. CASE ~Superseded(o, e)
    <3> DEFINE g == IF f # None /\ f.at >= e.at THEN f ELSE None
    <3>1. t = [observation |-> e, delivery |-> d, failure |-> g]
      BY <1>1, <2>1, <2>3 DEF ReduceObservation, o, f, d
    <3> HIDE DEF t
    <3>2. o # None => o \in os /\ (o.revision < e.revision \/ (o.revision = e.revision /\ o.at <= e.at))
      BY <1>1, <1>3, <2>0, <2>3 DEF Superseded
    <3>3. \A x \in os \cup {e} : x.revision < e.revision \/ (x.revision = e.revision /\ x.at <= e.at)
      BY <1>2, <1>3, <2>0, <3>2
    <3>4. o # None => o.at <= e.at
      BY <1>6, <3>2
    <3>5. \A x \in fs : x.at >= e.at => f # None /\ f.at >= x.at
      BY <1>2, <1>3, <3>2, <3>4
    <3>6. \A x \in fs : x.at >= e.at => g # None /\ g.at >= x.at
      BY <1>1, <1>3, <3>5
    <3>7. g \in {None} \cup fs
      BY <1>1
    <3> HIDE DEF g
    <3> QED  BY <1>1, <1>3, <3>1, <3>3, <3>6, <3>7 DEF Reduced, MadeOf, HoldsNewest, HoldsFailures
  <2> QED  BY <2>2, <2>3
<1> QED  BY <1>4, <1>5, <1>6

LEMMA LatestStays ==
  ASSUME NEW events \in Seq(FeedbackEvents), NEW e \in FeedbackEvents, OneIsLatest(events)
  PROVE  OneIsLatest(Append(events, e))
<1> DEFINE n == Len(events)
           all == Append(events, e)
<1>1. /\ n \in Nat /\ Len(all) = n + 1 /\ all[n + 1] = e /\ DOMAIN all = 1 .. n + 1 /\ DOMAIN events = 1 .. n
      /\ \A i \in 1 .. n : all[i] = events[i] /\ events[i] \in FeedbackEvents
  OBVIOUS
<1> SUFFICES OneIsLatest(all)
  OBVIOUS
<1> HIDE DEF all
<1>2. /\ \A i \in Observations(events) : i \in 1 .. n /\ i \in Observations(all)
                                         /\ all[i] = events[i] /\ events[i].revision \in Nat
      /\ \A i \in Observations(all) : i \in Observations(events) \/ (i = n + 1 /\ e.kind = "observed")
  BY <1>1, KindsDiffer DEF Observations
<1>3. CASE e.kind # "observed"
  BY <1>2, <1>3 DEF OneIsLatest, Outlives
<1>4. CASE e.kind = "observed"
  <2>1. n + 1 \in Observations(all) /\ e.revision \in Nat
    BY <1>1, <1>4, KindsDiffer DEF Observations
  <2>2. CASE Observations(events) = {}
    BY <1>2, <2>1, <2>2 DEF OneIsLatest, Outlives
  <2>3. CASE Observations(events) # {}
    <3>1. PICK i \in Observations(events) : \A j \in Observations(events) : Outlives(events, i, j)
      BY <2>3 DEF OneIsLatest
    <3>2. CASE events[i].revision > e.revision
      <4>1. \A j \in Observations(all) : Outlives(all, i, j)
        BY <1>1, <1>2, <3>1, <3>2 DEF Outlives
      <4> QED  BY <1>2, <4>1 DEF OneIsLatest
    <3>3. CASE events[i].revision <= e.revision
      <4>1. \A j \in Observations(all) : Outlives(all, n + 1, j)
        BY <1>1, <1>2, <2>1, <3>1, <3>3 DEF Outlives
      <4> QED  BY <2>1, <4>1 DEF OneIsLatest
    <3> QED  BY <1>2, <2>1, <3>2, <3>3
  <2> QED  BY <2>2, <2>3
<1> QED  BY <1>3, <1>4

LEMMA AdmissionKeeps ==
  ASSUME FeedbackInv, NEW c, Admit(c)
  PROVE  FeedbackInv'
<1> USE DEF FeedbackInv
<1> DEFINE e == sent[c.sequence].event
<1>1. /\ c.sequence \in DOMAIN sent /\ sent[c.sequence].flaw = "none" /\ readable
      /\ e \in FeedbackEvents /\ sent[c.sequence] = [event |-> e, flaw |-> "none"]
  <2>1. c.sequence \in DOMAIN sent /\ sent[c.sequence] \in Envelopes
    BY DEF Admit, SentInv
  <2>2. sent[c.sequence].flaw \notin EarlyFlaws /\ sent[c.sequence].flaw \notin LateFlaws /\ readable
    BY DEF Admit, Admissible, SentInv
  <2>3. sent[c.sequence].flaw = "none"
    BY <2>1, <2>2, FlawsAssumption DEF Envelopes, EarlyFlaws, LateFlaws
  <2> QED  BY <2>1, <2>2, <2>3 DEF Envelopes
<1>2. Own(e) /\ Genuine(e, truth, lastAt)
  BY <1>1 DEF Own, SentInv
<1>3. /\ UNCHANGED <<clock, skew, readable, truth, lastAt, sent>> /\ checking' \subseteq checking
      /\ state' = reduceControlFeedback(state, e) /\ admitted' = Append(admitted, e)
  BY DEF Admit
<1> HIDE DEF e
<1>4. TruthInv' /\ SentInv'
  BY <1>3 DEF TruthInv, SentInv, Genuine
<1> DEFINE n == Len(admitted)
<1>5. /\ admitted \in Seq(FeedbackEvents) /\ n \in Nat /\ admitted' \in Seq(FeedbackEvents)
      /\ DOMAIN admitted = 1 .. n /\ DOMAIN admitted' = 1 .. n + 1 /\ admitted'[n + 1] = e
      /\ \A i \in 1 .. n : admitted'[i] = admitted[i]
  BY <1>1, <1>3 DEF AdmittedInv
<1>6. AdmittedInv'
  BY <1>2, <1>3, <1>5 DEF AdmittedInv, Own
<1>7. OneIsLatest(admitted)'
  <2>1. OneIsLatest(Append(admitted, e))
    BY <1>1, <1>5, LatestStays
  <2> QED  BY <1>3, <2>1 DEF OneIsLatest, Observations, Outlives
<1>8. \A k : Admitted(k)' = Admitted(k) \cup {x \in {e} : x.kind = k}
  <2> SUFFICES ASSUME NEW k PROVE Admitted(k)' = Admitted(k) \cup {x \in {e} : x.kind = k}
    OBVIOUS
  <2>1. Admitted(k)' \subseteq Admitted(k) \cup {x \in {e} : x.kind = k}
    BY <1>5 DEF Admitted
  <2>2. \A x \in Admitted(k) : x \in Admitted(k)'
    BY <1>5 DEF Admitted
  <2>3. e.kind = k => e \in Admitted(k)'
    <3>1. n + 1 \in DOMAIN admitted'
      BY <1>5
    <3> QED  BY <1>5, <3>1 DEF Admitted
  <2> QED  BY <2>1, <2>2, <2>3
<1> DEFINE os == Admitted("observed")
           fs == Admitted("failed")
           as == Admitted("acknowledged")
<1>9. os \in SUBSET Observed /\ fs \in SUBSET Failures /\ as \in SUBSET Acknowledgements
  BY KindsDiffer DEF AdmittedInv, Admitted
<1>10. e \in Observed => \A d \in os : d.revision < e.revision => d.at <= e.at
  BY <1>2, <1>9, GenuineAdmitted, RevisionsAreInTime
<1>11. /\ e \in Observed => Reduced(state', os \cup {e}, fs, as)
       /\ e \in Failures => Reduced(state', os, fs \cup {e}, as)
       /\ e \in Acknowledgements => Reduced(state', os, fs, as \cup {e})
  BY <1>1, <1>3, <1>9, <1>10, ReducingKeeps
<1> DEFINE os2 == Admitted("observed")'
           fs2 == Admitted("failed")'
           as2 == Admitted("acknowledged")'
<1>12. Reduced(state', os2, fs2, as2)
  <2>1. os2 = os \cup {x \in {e} : x.kind = "observed"}
    BY <1>8
  <2>2. fs2 = fs \cup {x \in {e} : x.kind = "failed"}
    BY <1>8
  <2>3. as2 = as \cup {x \in {e} : x.kind = "acknowledged"}
    BY <1>8
  <2> HIDE DEF os, fs, as, os2, fs2, as2
  <2>4. CASE e \in Observed
    <3>1. os2 = os \cup {e} /\ fs2 = fs /\ as2 = as
      BY <2>1, <2>2, <2>3, <2>4, KindsDiffer
    <3> QED  BY <1>11, <2>4, <3>1
  <2>5. CASE e \in Failures
    <3>1. os2 = os /\ fs2 = fs \cup {e} /\ as2 = as
      BY <2>1, <2>2, <2>3, <2>5, KindsDiffer
    <3> QED  BY <1>11, <2>5, <3>1
  <2>6. CASE e \in Acknowledgements
    <3>1. os2 = os /\ fs2 = fs /\ as2 = as \cup {e}
      BY <2>1, <2>2, <2>3, <2>6, KindsDiffer
    <3> QED  BY <1>11, <2>6, <3>1
  <2> QED  BY <1>1, <2>4, <2>5, <2>6 DEF FeedbackEvents
<1>13. Reduced(state, Admitted("observed"), Admitted("failed"), Admitted("acknowledged"))'
  BY <1>12 DEF Reduced, MadeOf, HoldsNewest, HoldsFailures
<1> QED  BY <1>4, <1>6, <1>7, <1>13

\* The inductive step.
LEMMA FeedbackSteps == ASSUME FeedbackInv, [Next]_vars PROVE FeedbackInv'
<1>1. CASE UNCHANGED vars
  <2>1. /\ UNCHANGED <<clock, skew, readable, truth, lastAt, sent, checking, state, admitted>>
        /\ sent \in Seq(Envelopes) /\ TruthInv
    BY <1>1 DEF vars, FeedbackInv, SentInv
  <2> QED  BY <2>1, ConsumerRests DEF TruthInv
<1>2. ASSUME NEW n, BeginAdmission(n)
      PROVE  FeedbackInv'
  <2>1. /\ UNCHANGED <<clock, skew, readable, truth, lastAt, sent, state, admitted>>
        /\ sent \in Seq(Envelopes) /\ TruthInv
        /\ checking' = checking \cup {Check(n, floor)} /\ n \in DOMAIN sent /\ sent[n].flaw \notin EarlyFlaws
    BY <1>2 DEF BeginAdmission, FeedbackInv, SentInv
  <2>2. Check(n, floor).sequence = n
    BY DEF Check
  <2> QED  BY <2>1, <2>2, ConsumerRests DEF TruthInv
<1>3. ASSUME NEW c, Refuse(c)
      PROVE  FeedbackInv'
  <2>1. /\ UNCHANGED <<clock, skew, readable, truth, lastAt, sent, state, admitted>>
        /\ sent \in Seq(Envelopes) /\ TruthInv /\ checking' \subseteq checking
    BY <1>3 DEF Refuse, FeedbackInv, SentInv
  <2> QED  BY <2>1, ConsumerRests DEF TruthInv
<1> QED  BY <1>1, <1>2, <1>3, ServerKeeps, AdmissionKeeps DEF Next

\* Of the values a button can show, none is "failed" or "unknown".
LEMMA FeedbackShows == ASSUME FeedbackInv PROVE FeedbackIsFaithful
<1> DEFINE o == state.observation
           f == state.failure
           os == Admitted("observed")
           fs == Admitted("failed")
           here == clock + skew
<1>1. /\ o \in {None} \cup os /\ f \in {None} \cup fs /\ state.delivery \in {None} \cup Admitted("acknowledged")
      /\ (o = None) <=> (os = {})
      /\ \A e \in os : e.revision < o.revision \/ (e.revision = o.revision /\ e.at <= o.at)
      /\ \A x \in fs : (o = None \/ x.at >= o.at) => f # None /\ f.at >= x.at
  BY DEF FeedbackInv, Reduced, MadeOf, HoldsNewest, HoldsFailures
<1>2. /\ \A e \in os : e \in Observed /\ Own(e) /\ Genuine(e, truth, lastAt) /\ e # None
                       /\ e.at \in Int /\ e.revision \in Nat /\ e.value \in Values
      /\ \A x \in fs : x # None /\ x.at \in Int
      /\ TruthInv
  BY KindsDiffer, AdmittedOnes, GenuineAdmitted DEF FeedbackInv
<1>3. OnlyOwnFeedback
  BY <1>1 DEF OnlyOwnFeedback, FeedbackInv, AdmittedInv, Own
<1>4. NewestObservationWins
  BY <1>1 DEF NewestObservationWins
<1>5. /\ clock \in Int /\ skew \in Int /\ here \in Int /\ Timeout \in Int
      /\ "failed" \notin Values /\ "unknown" \notin Values /\ "failed" # "unknown"
  BY <1>2, TimeoutAssumption DEF TruthInv, Values
<1> HIDE DEF here, os, fs
<1>6. FailureIsShown
  <2>1. projectControlFeedback(state, here) = "failed" <=> (f # None /\ (o = None \/ f.at >= o.at))
    BY <1>1, <1>2, <1>5 DEF projectControlFeedback
  <2>2. ASSUME f # None, o = None \/ f.at >= o.at
        PROVE  \E x \in fs : \A e \in os : x.at >= e.at
    <3>1. f \in fs
      BY <1>1, <2>2
    <3>2. ASSUME NEW e \in os PROVE f.at >= e.at
      <4>1. o \in os
        BY <1>1, <3>2
      <4>2. f.at >= o.at
        BY <1>2, <2>2, <4>1
      <4>3. e.at <= o.at
        BY <1>1, <1>2, <4>1, RevisionsAreInTime
      <4> QED  BY <1>2, <3>1, <4>1, <4>2, <4>3
    <3> QED  BY <3>1, <3>2
  <2>3. ASSUME NEW x \in fs, \A e \in os : x.at >= e.at
        PROVE  f # None /\ (o = None \/ f.at >= o.at)
    BY <1>1, <1>2, <2>3
  <2> QED  BY <2>1, <2>2, <2>3 DEF FailureIsShown, here, os, fs
<1> DEFINE recent(v) == \E r \in DOMAIN truth : truth[r] = v /\ clock - lastAt[r] < Timeout - skew
<1>7. ASSUME NEW e \in os, here - e.at < Timeout
      PROVE  recent(e.value)
  <2>1. e.revision \in 1 .. Len(truth) /\ e.value = truth[e.revision] /\ e.at <= lastAt[e.revision]
    BY <1>2 DEF Genuine
  <2>2. e.revision \in DOMAIN truth /\ lastAt[e.revision] \in Int
    BY <1>2, <2>1 DEF TruthInv
  <2>3. clock - lastAt[e.revision] < Timeout - skew
    BY <1>2, <1>5, <1>7, <2>1, <2>2 DEF here
  <2> QED  BY <2>1, <2>2, <2>3
<1>8. ASSUME NEW s, s.observation \in {None} \cup os, projectControlFeedback(s, here) \in Values
      PROVE  recent(projectControlFeedback(s, here))
  <2>1. /\ s.observation \in os /\ projectControlFeedback(s, here) = s.observation.value
        /\ ~(here - s.observation.at >= Timeout)
    BY <1>5, <1>8 DEF projectControlFeedback
  <2>2. here - s.observation.at < Timeout
    BY <1>2, <1>5, <2>1
  <2> HIDE DEF recent
  <2> QED  BY <1>7, <2>1, <2>2
<1>9. ASSUME projectCompanionFeedback(admitted, here) \in Values
      PROVE  recent(projectCompanionFeedback(admitted, here))
  <2> DEFINE l == CompanionLatest(admitted)
             s == IF l = None THEN createControlFeedbackState
                  ELSE reduceControlFeedback(createControlFeedbackState, l)
  <2>1. projectCompanionFeedback(admitted, here) = projectControlFeedback(s, here)
    BY DEF projectCompanionFeedback
  <2>2. l = None \/ l \in os
    <3>1. CASE Observations(admitted) = {}
      BY <3>1 DEF CompanionLatest
    <3>2. CASE Observations(admitted) # {}
      <4> DEFINE i == CHOOSE i \in Observations(admitted) :
                        \A j \in Observations(admitted) : Outlives(admitted, i, j)
      <4>1. i \in Observations(admitted)
        BY <3>2 DEF FeedbackInv, OneIsLatest
      <4>2. l = admitted[i]
        BY <3>2 DEF CompanionLatest
      <4> HIDE DEF i
      <4> QED  BY <4>1, <4>2 DEF Observations, os, Admitted
    <3> QED  BY <3>1, <3>2
  <2> HIDE DEF l
  <2>3. s.observation \in {None} \cup os
    <3>1. createControlFeedbackState = [observation |-> None, delivery |-> None, failure |-> None]
      BY DEF createControlFeedbackState
    <3>2. CASE l = None
      BY <3>1, <3>2
    <3>3. CASE l \in os /\ l # None
      <4>1. reduceControlFeedback(createControlFeedbackState, l) = ReduceObservation(createControlFeedbackState, l)
        BY <1>2, <3>3, KindsDiffer DEF reduceControlFeedback
      <4>2. ~Superseded(createControlFeedbackState.observation, l)
        BY <3>1 DEF Superseded
      <4>3. ReduceObservation(createControlFeedbackState, l)
              = [observation |-> l, delivery |-> None, failure |-> None]
        BY <3>1, <4>2 DEF ReduceObservation
      <4> QED  BY <3>3, <4>1, <4>3
    <3> QED  BY <2>2, <3>2, <3>3
  <2> HIDE DEF s, recent
  <2> QED  BY <1>8, <1>9, <2>1, <2>3
<1>10. ShownIsRecentTruth
  <2>1. projectControlFeedback(state, here) \in Values => recent(projectControlFeedback(state, here))
    BY <1>1, <1>8
  <2>2. projectCompanionFeedback(admitted, here) \in Values
          => recent(projectCompanionFeedback(admitted, here))
    BY <1>9
  <2> QED  BY <2>1, <2>2 DEF ShownIsRecentTruth, here
<1> QED  BY <1>3, <1>4, <1>6, <1>10 DEF FeedbackIsFaithful

(* What a button shows of a control is what the server observed of it, for *)
(* this consumer, last and recently, however the envelopes are lost,       *)
(* repeated, reordered or forged and however far apart the clocks are      *)
(* (admitControlFeedback, reduceControlFeedback, the two projections).     *)
THEOREM ButtonsAreFaithful == Spec => []FeedbackIsFaithful
<1>1. Spec => []FeedbackInv
  BY FeedbackStarts, FeedbackSteps, PTL DEF Spec
<1>2. FeedbackInv => FeedbackIsFaithful
  BY FeedbackShows
<1> QED  BY <1>1, <1>2, PTL
==============================================================================

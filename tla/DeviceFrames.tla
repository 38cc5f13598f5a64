---------------------------- MODULE DeviceFrames ----------------------------
(***************************************************************************)
(* The signed device control frames of the protocol package: the server    *)
(* projects production into a bootstrap frame and then into deltas against *)
(* the frame the device is known to have applied; the device admits,       *)
(* reduces and shows them.  What the device holds for a target is a        *)
(* replica of the authorized controls of one production revision.          *)
(*                                                                         *)
(* Delivery is weaker than a WebSocket: within a connection a message may  *)
(* arrive in any order, repeatedly or never.  Production may change, time  *)
(* may pass and the signing key may rotate between the capture of a state  *)
(* and the sending of the frame made from it.                              *)
(*                                                                         *)
(* A payload's SHA-256 is modelled by what it identifies: a sequence is    *)
(* reserved once per issuer and audience (module FeedbackSequences), so    *)
(* issuer, audience and sequence name the payload.                         *)
(***************************************************************************)
EXTENDS Integers, Sequences, FiniteSets, Functions

CONSTANTS
    Targets,      \* production buses
    Components,   \* element identifiers
    Parent,       \* the element tree: a component's parent, or NoComponent
    NoComponent,
    Labels,       \* component labels
    Scenes,       \* the element trees an activation or a Take may install
    Allowed,      \* the components whose controls the credential names
    None,         \* no frame, no state
    MaxRevision,  \* bound: revisions of a target
    MaxSequence,  \* bound: frames issued with one key
    MaxTime,      \* bound: clock ticks
    MaxKey,       \* bound: signing keys
    Timeout,      \* DEFAULT_CONTROL_FEEDBACK_TIMEOUT_MS, in ticks
    MaxSkew       \* the device's clock is off by at most this

Node == [shown : BOOLEAN, label : Labels]
(* A child is an element only while its parent is one. *)
Trees == {n \in UNION {[S -> Node] : S \in SUBSET Components} :
            \A c \in DOMAIN n : Parent[c] \in DOMAIN n \union {NoComponent}}

FramesAssumption ==
    /\ NoComponent \notin Components
    /\ Parent \in [Components -> Components \union {NoComponent}]
    \* Elements are nested: going up from any of them ends at a root.
    /\ \A S \in SUBSET Components : S # {} => \E c \in S : Parent[c] \notin S
    /\ Allowed \subseteq Components
    /\ Scenes \subseteq Trees
    /\ MaxSkew \in Nat /\ Timeout \in Nat \ {0} /\ MaxKey \in Nat \ {0}

VARIABLES
    prod,      \* per target: revision and element nodes
    past,      \* per target: the nodes of every revision so far
    since,     \* per target: when each revision was committed
    gen, cat,  \* the catalog generation and the catalog it names
    key, seq,  \* the signing key, and the sequences reserved per key
    build,     \* per target: the state captured for the frame being made
    pend,      \* per target: the frame sent last and the state it leads to
    base,      \* per target: the frame state the device acknowledged
    net,       \* the messages sent on this connection
    now,       \* the server's clock
    offset,    \* device clock minus server clock
    pin,       \* the issuer key the device trusts
    dev,       \* per target: the frame state the device holds
    last,      \* lastAcceptedSequence of the device
    accepted   \* acceptedFrameIdentities of the device

server == <<prod, past, since, gen, cat, key, seq, build, pend, base>>
device == <<pin, dev, last, accepted>>
vars == <<server, device, net, now, offset>>

--------------------------------------------------------------------------
(* What the server makes of a production state. *)

(* indexComponents: a component is active when it and every element above  *)
(* it is displayed, walked from the roots down.                            *)
IndexComponents(nodes) ==
    LET active[c \in DOMAIN nodes] ==
            nodes[c].shown /\ (Parent[c] = NoComponent \/ active[Parent[c]])
    IN  active

(* An action descriptor is its component and label: the identifiers of the *)
(* control and of the action are derived from the component.               *)
Action(nodes, c) == nodes[c].label

(* projectAuthorizedControlActionCatalog, for one target. *)
Catalog(nodes) == [c \in DOMAIN nodes \intersect Allowed |-> Action(nodes, c)]
FullCatalog(p) == [t \in Targets |-> Catalog(p[t].nodes)]

(* projectServerVisibilityFeedback: one observation per catalog control. *)
Observations(nodes) == [c \in DOMAIN Catalog(nodes) |-> IndexComponents(nodes)[c]]

(* The input of both frame builders, taken from one production snapshot. *)
FrameInput(t, g, p, time) ==
    [target |-> t, rev |-> p[t].rev, gen |-> g, at |-> time,
     actions |-> Catalog(p[t].nodes), obs |-> Observations(p[t].nodes)]

Frame(mode, in, added, removed, obs) ==
    [mode |-> mode, target |-> in.target, rev |-> in.rev, gen |-> in.gen, at |-> in.at,
     hash |-> in.actions, added |-> added, removed |-> removed, obs |-> obs]

BootstrapFrame(in) == Frame("bootstrap", in, in.actions, {}, in.obs)

(* buildDeviceControlDeltaFrame: a relabelled control is removed and added *)
(* again; a value is sent for an added control and for a changed one.      *)
DeltaFrame(st, in) ==
    LET old == st.controls
        same(c) == c \in DOMAIN old /\ c \in DOMAIN in.actions /\ old[c].label = in.actions[c]
        added == {c \in DOMAIN in.actions : ~same(c)}
        changed == {c \in DOMAIN in.actions : ~same(c) \/ in.obs[c] # old[c].value}
    IN  Frame("delta", in, Restrict(in.actions, added),
              {c \in DOMAIN old : ~same(c)}, Restrict(in.obs, changed))

(* A frame that changes nothing but the confirmation time. *)
IsConfirmation(f) == DOMAIN f.added = {} /\ f.removed = {} /\ DOMAIN f.obs = {}

--------------------------------------------------------------------------
(* The reducer, which the server runs too to know the device's state. *)

(* normalizedFrame *)
WellFormed(f) ==
    /\ f.gen > 0
    /\ DOMAIN f.added \subseteq DOMAIN f.obs
    /\ f.mode = "bootstrap" => f.removed = {} /\ DOMAIN f.obs = DOMAIN f.added

Held(st) == IF st = None THEN {} ELSE DOMAIN st.controls

(* The controls after the removals, the additions and the observations. *)
Controls(st, f) ==
    LET kept == Held(st) \ f.removed
    IN  [c \in kept \union DOMAIN f.added |->
            IF c \in DOMAIN f.obs
            THEN [label |-> IF c \in DOMAIN f.added THEN f.added[c] ELSE st.controls[c].label,
                  value |-> f.obs[c], vrev |-> f.rev]
            ELSE st.controls[c]]

CatalogOf(controls) == [c \in DOMAIN controls |-> controls[c].label]

(* reduceDeviceControlFrame: what it refuses, and the state it returns. *)
Reducible(st, f) ==
    /\ WellFormed(f)
    /\ (st = None) <=> (f.mode = "bootstrap")
    /\ st # None =>
         /\ f.target = st.target
         /\ f.rev >= st.rev /\ f.at >= st.at /\ f.gen >= st.gen
         /\ f.rev = st.rev => IsConfirmation(f)
    /\ f.removed \subseteq Held(st)
    /\ DOMAIN f.added \intersect (Held(st) \ f.removed) = {}
    /\ DOMAIN f.obs \subseteq (Held(st) \ f.removed) \union DOMAIN f.added
    /\ CatalogOf(Controls(st, f)) = f.hash
    /\ st # None /\ f.gen = st.gen => f.hash = CatalogOf(st.controls)

Reduce(st, f) ==
    [target |-> f.target, rev |-> f.rev, gen |-> f.gen, at |-> f.at,
     controls |-> Controls(st, f)]

--------------------------------------------------------------------------
(* Envelopes, messages and trust. *)

Identity(e) == [issuer |-> e.issuer, audience |-> e.audience, seq |-> e.seq]
Envelope(k, a, s, b, f) == [issuer |-> k, audience |-> a, seq |-> s, base |-> b, frame |-> f, signedBy |-> k]
Message(e) == [id |-> Identity(e), env |-> e]

(* parseDeviceBootstrapSnapshotMessage and parseDeviceStateDeltaMessage:   *)
(* the hash is the payload's.                                              *)
ParsesMessage(m) == m.id = Identity(m.env)

(* parseCanonicalPayload: a bootstrap has no base and a delta's base is an *)
(* earlier frame of its issuer.                                            *)
ParsesPayload(e) ==
    /\ WellFormed(e.frame)
    /\ (e.base = None) <=> (e.frame.mode = "bootstrap")
    /\ e.base # None => e.base.issuer = e.issuer /\ e.base.seq < e.seq

(* A trust bundle: the issuer identifier is the fingerprint of the key. *)
TrustBundle(k) == [issuer |-> k, publicKey |-> k]
ParsesBundle(b) == b.issuer = b.publicKey

(* createDeviceTrustSignatureVerifier, for the pinned bundle. *)
Verifies(e) == e.issuer = pin /\ e.signedBy = pin

Touched(f) == DOMAIN f.added \union f.removed \union DOMAIN f.obs
IsDuplicate(e) == Identity(e) \in accepted

(* admitDeviceControlFrame: audience, target and controls are the          *)
(* credential's; a sequence already passed is only a known duplicate.      *)
Admits(m) ==
    /\ ParsesMessage(m) /\ ParsesPayload(m.env)
    /\ Verifies(m.env)
    /\ m.env.audience = "me"
    /\ m.env.frame.target \in Targets
    /\ Touched(m.env.frame) \subseteq Allowed
    /\ m.env.seq > last \/ IsDuplicate(m.env)

(* The base of a delta is not compared with what the device holds. *)
AppliesAnyBase(m) ==
    LET cur == dev[m.env.frame.target]
    IN  IF cur = None THEN m.env.base = None /\ Reducible(None, m.env.frame)
        ELSE ~IsDuplicate(m.env) /\ m.env.base # None /\ Reducible(cur.st, m.env.frame)

(* reduceAdmittedDeviceControlFrame: a first frame is a bootstrap, a       *)
(* duplicate changes nothing, and a delta names the frame it builds on.    *)
Applies(m) ==
    LET cur == dev[m.env.frame.target]
    IN  IF cur = None THEN m.env.base = None /\ Reducible(None, m.env.frame)
        ELSE /\ ~IsDuplicate(m.env) /\ cur.id # m.id
             /\ m.env.base = cur.id
             /\ Reducible(cur.st, m.env.frame)
IsRepeat(m) == dev[m.env.frame.target] # None /\ (IsDuplicate(m.env) \/ dev[m.env.frame.target].id = m.id)

StateOf(cell) == IF cell = None THEN None ELSE cell.st

--------------------------------------------------------------------------
(* A first Scene is active. *)
Init ==
    /\ \E n \in Scenes : prod = [t \in Targets |-> [rev |-> 1, nodes |-> n]]
    /\ past = [t \in Targets |-> <<prod[t].nodes>>]
    /\ since = [t \in Targets |-> <<0>>]
    /\ gen = 0 /\ cat = None
    /\ key = 1 /\ seq = [k \in 1..MaxKey |-> 0]
    /\ build = [t \in Targets |-> None]
    /\ pend = [t \in Targets |-> None]
    /\ base = [t \in Targets |-> None]
    /\ net = {}
    /\ now = 0 /\ offset \in (-MaxSkew)..MaxSkew
    /\ pin = 1
    /\ dev = [t \in Targets |-> None]
    /\ last = 0 /\ accepted = {}

(* A committed revision: a Scene's elements are installed, or the display  *)
(* of one component is switched.                                           *)
Successors(nodes) == Scenes \union {[nodes EXCEPT ![c].shown = ~@] : c \in DOMAIN nodes}

ProductionChanges(t) ==
    /\ prod[t].rev < MaxRevision
    /\ \E n \in Successors(prod[t].nodes) :
          /\ prod' = [prod EXCEPT ![t] = [rev |-> @.rev + 1, nodes |-> n]]
          /\ past' = [past EXCEPT ![t] = Append(@, n)]
    /\ since' = [since EXCEPT ![t] = Append(@, now)]
    /\ UNCHANGED <<gen, cat, key, seq, build, pend, base, device, net, now, offset>>

Tick ==
    /\ now < MaxTime
    /\ now' = now + 1
    /\ UNCHANGED <<server, device, net, offset>>

(* createAttempt and createDeltaAttempt up to their first await: signer,   *)
(* production state and time are captured together, and the catalog given  *)
(* its generation.  A delta needs the base's signer.                       *)
Capture(t) ==
    /\ build[t] = None
    /\ base[t] # None => base[t].id.issuer = key
    /\ LET g == IF cat = FullCatalog(prod) THEN gen ELSE gen + 1
       IN  /\ gen' = g /\ cat' = FullCatalog(prod)
           /\ build' = [build EXCEPT ![t] =
                          [key |-> key, from |-> base[t], in |-> FrameInput(t, g, prod, now)]]
    /\ UNCHANGED <<prod, past, since, key, seq, pend, base, device, net, now, offset>>

FrameOf(b) == IF b.from = None THEN BootstrapFrame(b.in)
                               ELSE DeltaFrame(b.from.st, b.in)

(* isCurrent, which the coordinators ask before they send. *)
IsCurrent(t, b) ==
    /\ b.key = key /\ cat = FullCatalog(prod)
    /\ b.in.rev = prod[t].rev
    /\ now - b.in.at < Timeout

(* The server runs the reducer to know the device's state after the frame. *)
StateAfter(t, b) == Reduce(StateOf(b.from), FrameOf(b))

(* The rest of createAttempt and createDeltaAttempt, and the send. *)
Issue(t) ==
    LET b == build[t]
        e == Envelope(b.key, "me", seq[b.key] + 1,
                      IF b.from = None THEN None ELSE b.from.id, FrameOf(b))
    IN  /\ b # None /\ b.from = base[t]
        /\ IsCurrent(t, b) /\ seq[b.key] < MaxSequence
        /\ Reducible(StateOf(b.from), e.frame)
        /\ seq' = [seq EXCEPT ![b.key] = @ + 1]
        /\ net' = net \union {Message(e)}
        /\ pend' = [pend EXCEPT ![t] = [id |-> Identity(e), st |-> StateAfter(t, b)]]
        /\ build' = [build EXCEPT ![t] = None]
        /\ UNCHANGED <<prod, past, since, gen, cat, key, base, device, now, offset>>

(* A captured state that is no longer current is made again. *)
Discard(t) ==
    /\ build[t] # None
    /\ ~IsCurrent(t, build[t]) \/ build[t].from # base[t]
    /\ build' = [build EXCEPT ![t] = None]
    /\ UNCHANGED <<prod, past, since, gen, cat, key, seq, pend, base, device, net, now, offset>>

(* The applied acknowledgement of the frame sent last advances the base;   *)
(* the device acknowledges what it admitted, sooner, later or never.       *)
Acknowledged(t) ==
    /\ pend[t] # None /\ pend[t].id \in accepted
    /\ base' = [base EXCEPT ![t] = pend[t]]
    /\ pend' = [pend EXCEPT ![t] = None]
    /\ UNCHANGED <<prod, past, since, gen, cat, key, seq, build, device, net, now, offset>>

(* A frame of another credential's session reaches the device. *)
Misdelivered(t) ==
    /\ \A m \in net : m.env.audience = "me" /\ m.env.seq <= last
    /\ LET n == prod[t].nodes
           e == Envelope(key, "other", seq[key] + 1, None,
                  BootstrapFrame([target |-> t, rev |-> prod[t].rev, gen |-> gen + 1, at |-> now,
                                  actions |-> [c \in DOMAIN n |-> Action(n, c)],
                                  obs |-> IndexComponents(n)]))
       IN  net' = net \union {Message(e)}
    /\ UNCHANGED <<server, device, now, offset>>

(* The device handles a message: it applies the frame, or acknowledges a   *)
(* repeated one, or refuses it.                                            *)
Receive(m) ==
    /\ Admits(m) /\ (Applies(m) \/ IsRepeat(m))
    /\ dev' = IF Applies(m)
              THEN [dev EXCEPT ![m.env.frame.target] =
                      [id |-> m.id, st |-> Reduce(StateOf(@), m.env.frame)]]
              ELSE dev
    /\ last' = IF m.env.seq > last THEN m.env.seq ELSE last
    /\ accepted' = accepted \union {m.id}
    /\ UNCHANGED <<server, pin, net, now, offset>>

(* The connection ends and the next one starts from bootstrap. *)
Reconnect ==
    /\ net # {} \/ \E t \in Targets : build[t] # None
    /\ build' = [t \in Targets |-> None]
    /\ pend' = [t \in Targets |-> None]
    /\ base' = [t \in Targets |-> None]
    /\ dev' = [t \in Targets |-> None]
    /\ net' = {}
    /\ UNCHANGED <<prod, past, since, gen, cat, key, seq, pin, last, accepted, now, offset>>

RotateKey ==
    /\ key < MaxKey
    /\ key' = key + 1
    /\ UNCHANGED <<prod, past, since, gen, cat, seq, build, pend, base, device, net, now, offset>>

(* The operator gives the device the new trust bundle; sequences are per   *)
(* issuer, so the device starts counting again.                            *)
Repin ==
    /\ pin < key
    /\ ParsesBundle(TrustBundle(key)) /\ pin' = TrustBundle(key).issuer
    /\ last' = 0 /\ accepted' = {}
    /\ dev' = [t \in Targets |-> None]
    /\ UNCHANGED <<server, net, now, offset>>

Next ==
    \/ \E t \in Targets : ProductionChanges(t) \/ Capture(t) \/ Issue(t) \/ Discard(t)
                          \/ Acknowledged(t) \/ Misdelivered(t)
    \/ \E m \in net : Receive(m)
    \/ Tick \/ Reconnect \/ RotateKey \/ Repin

Spec == Init /\ [][Next]_vars

--------------------------------------------------------------------------
(* A control is current once it was received. *)
ViewByReceipt(t, c) ==
    IF dev[t] = None THEN "unknown"
    ELSE IF c \notin DOMAIN dev[t].st.controls THEN "unavailable" ELSE "current"

(* projectDeviceControl: the device's view of a control. *)
View(t, c) ==
    LET s == dev[t].st IN
    IF dev[t] = None THEN "unknown"
    ELSE IF c \notin DOMAIN s.controls THEN "unavailable"
    ELSE IF now + offset < s.at THEN "unknown"
    ELSE IF now + offset - s.at >= Timeout THEN "stale"
    ELSE "current"

Above(c) == LET up[d \in Components] ==
                    {d} \union IF Parent[d] = NoComponent THEN {} ELSE up[Parent[d]]
            IN  up[c]

(* The server builds a delta on the state it computed for the frame the    *)
(* device acknowledged: it is the state the device computed.               *)
BaseIsTheReplica ==
    \A t \in Targets : base[t] # None /\ dev[t] # None /\ base[t].id = dev[t].id
        => base[t].st = dev[t].st

(* However frames are lost, repeated, reordered and overtaken by new       *)
(* production states, what the device holds for a target is exactly the    *)
(* authorized controls of the revision it names: their labels, and for     *)
(* each whether it and everything above it was displayed; and each value   *)
(* was already the production's at the revision it is said to date from.   *)
(* What the server takes for the replica is the replica.                   *)
ReplicaIsProduction ==
    /\ BaseIsTheReplica
    /\ \A t \in Targets : dev[t] # None =>
        LET s == dev[t].st
            n == past[t][s.rev]
        IN  /\ DOMAIN s.controls = DOMAIN n \intersect Allowed
            /\ \A c \in DOMAIN s.controls :
                  LET d == s.controls[c]
                      old == past[t][d.vrev]
                  IN  /\ d.label = n[c].label
                      /\ d.value = (\A a \in Above(c) : n[a].shown)
                      /\ d.vrev <= s.rev /\ c \in DOMAIN old
                      /\ d.value = (\A a \in Above(c) : old[a].shown)

(* A control shown as current shows a revision that production held at     *)
(* some moment of the last Timeout ticks, give or take what its clock is   *)
(* off by: a late or repeated frame never passes for the present.          *)
CurrentMeansRecent ==
    \A t \in Targets, c \in Components : View(t, c) = "current" =>
        \E time \in (now + offset - Timeout + 1)..now :
            LET r == dev[t].st.rev
            IN  /\ since[t][r] <= time
                /\ r + 1 <= Len(since[t]) => time <= since[t][r + 1]

=============================================================================

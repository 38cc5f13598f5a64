------------------------------- MODULE Channels -------------------------------
(***************************************************************************)
(* The browser side of the server and the overlay that follows it: the     *)
(* ChannelManager with its in-memory channels, the /ws handler with what a *)
(* studio session, an output credential and nobody at all may do, the HTTP *)
(* routes and the action dispatcher that change a channel, and the overlay *)
(* page, whose view is what the messages it received made of it.  A        *)
(* handler runs to its next await; messages arrive in the order sent.      *)
(***************************************************************************)
EXTENDS Naturals, SequencesExt

CONSTANTS
    Conns,       \* WebSocket connections of /ws
    Pages,       \* the ones an overlay page holds; the others send any frame
    PageKey,     \* what each page subscribes to
    Channels, Shows,
    Elements,    \* element ids
    NewElements, \* elements and updates a request may carry
    Updates,
    Bags,        \* variables a request may carry
    Presets,     \* scenes with their variables
    NoScene,
    Themes, NoTheme,
    Ops,         \* the operations requests ask for
    MaxOps,      \* bound: requests
    MaxConnects, \* bound: connections made
    MaxRotations \* bound: output credentials retired

Buses == {"preview", "program"}
Keys == Channels \cup (Shows \X Buses)   \* routeKey and productionRouteKey

ChannelAssumption ==
    /\ Pages \subseteq Conns /\ PageKey \in [Pages -> Keys]
    /\ {"pending", "studio"} \cap Shows = {}
    /\ \A p \in Presets : p.els = [i \in DOMAIN p.els |-> p.els[i]]   \* by their ids
    /\ MaxOps \in Nat /\ MaxConnects \in Nat /\ MaxRotations \in Nat

VARIABLES
    ch,         \* per channel: elements, variables, scene, theme, orientation
    snap,       \* per production route: the revision of its snapshot
    subs,       \* per route: the subscribers ChannelManager knows
    conn,       \* per connection: none, open or closing
    access,     \* per connection: pending, studio, or the Show of an output
    mine,       \* per connection: the handler's own set of subscriptions
    outputs,    \* outputConnections
    cred,       \* the Show of the output credential in force
    live,       \* connections whose session still authenticates
    job,        \* the dispatch in progress: channel, actions left, waiting
    view,       \* per page: what it shows
    inbox,      \* per page: messages on their way
    first,      \* pages still on their first connection
    ops, connects, rotations

server == <<ch, snap, subs>>
sockets == <<conn, access, mine, outputs>>
auth == <<cred, live>>
pages == <<view, inbox, first>>
bounds == <<ops, connects, rotations>>
vars == <<server, sockets, auth, job, pages, bounds>>

NoJob == [at |-> "none"]
Nothing == [x \in {} |-> x]
Blank == [els |-> Nothing, vars |-> Nothing, scene |-> NoScene, theme |-> NoTheme,
          orient |-> "landscape"]
BlankView == [els |-> Nothing, vars |-> Nothing, theme |-> NoTheme, orient |-> "landscape", snap |-> 0]

Init ==
    /\ ch = [c \in Channels |-> Blank] /\ snap = [k \in Shows \X Buses |-> 1]
    /\ subs = [k \in Keys |-> {}]
    /\ conn = [s \in Conns |-> "none"] /\ access = [s \in Conns |-> "pending"]
    /\ mine = [s \in Conns |-> {}] /\ outputs = {}
    /\ cred \in Shows /\ live = Conns /\ job = NoJob
    /\ view = [p \in Pages |-> BlankView] /\ inbox = [p \in Pages |-> <<>>] /\ first = Pages
    /\ ops = 0 /\ connects = 0 /\ rotations = 0

-----------------------------------------------------------------------------
(* Functions written over functions: spreads, and the deep merge that      *)
(* keeps the siblings of a nested key.                                     *)
Over(t, s) == [k \in DOMAIN t \cup DOMAIN s |-> IF k \in DOMAIN s THEN s[k] ELSE t[k]]
Without(f, k) == [x \in DOMAIN f \ {k} |-> f[x]]
DeepMerge(t, s) ==
    [k \in DOMAIN t \cup DOMAIN s |->
        IF k \in DOMAIN t \cap DOMAIN s THEN Over(t[k], s[k])
        ELSE IF k \in DOMAIN s THEN s[k] ELSE t[k]]

Create(i, e) == [type |-> "element.create", id |-> i, element |-> e]
Update(i, u) == [type |-> "element.update", id |-> i, updates |-> u]
Delete(i) == [type |-> "element.delete", id |-> i]
Variables(b) == [type |-> "variables.update", vars |-> b]
Design(t) == [type |-> "design.system", theme |-> t]
Sound == [type |-> "sound.play"]
Activated(x) == [type |-> "scene.activated", scene |-> x.scene, vars |-> x.vars]
ElementsUpdated(x) == [type |-> "elements.updated", els |-> x.els, vars |-> x.vars, orient |-> x.orient]
Confirmed(x) == [type |-> "subscription.confirmed", state |-> x]
Snapshot(r) == [type |-> "production.snapshot", snap |-> r]

(* What a request makes of a channel x, and what it broadcasts.  A request *)
(* for an element that is not there is refused.                            *)
Done(x, ms) == [state |-> x, messages |-> ms]
Refused(x) == Done(x, <<>>)

CreateElement(x, o) == Done([x EXCEPT !.els = Over(@, o.id :> o.element)], <<Create(o.id, o.element)>>)

UpdateElement(x, i, u) ==
    IF i \notin DOMAIN x.els THEN Refused(x)
    ELSE Done([x EXCEPT !.els[i] = Over(@, u)], <<Update(i, u)>>)

DeleteElement(x, o) ==
    IF o.id \notin DOMAIN x.els THEN Refused(x)
    ELSE Done([x EXCEPT !.els = Without(@, o.id)], <<Delete(o.id)>>)

Display(hide) == [hidden |-> hide]
ToggleVisibility(x, o) ==
    IF o.id \notin DOMAIN x.els THEN Refused(x)
    ELSE UpdateElement(x, o.id, Display(~x.els[o.id].hidden))

SetVariablesPartially(x, o) ==
    Done([x EXCEPT !.vars = DeepMerge(@, o.vars)], <<Variables(o.vars)>>)
SetVariables(x, o) ==
    LET y == [x EXCEPT !.vars = DeepMerge(@, o.vars)] IN Done(y, <<Variables(y.vars)>>)

SetDesignSystem(x, o) == Done([x EXCEPT !.theme = o.theme], <<Design(o.theme)>>)

(* activateSceneOnChannel. *)
ActivateScene(x, p, clearPrevious) ==
    LET y == [x EXCEPT !.vars = IF clearPrevious THEN p.vars ELSE DeepMerge(@, p.vars),
                       !.els = IF clearPrevious THEN p.els ELSE Over(@, p.els),
                       !.scene = p, !.orient = p.orient, !.theme = NoTheme]
    IN  Done(y, <<Design(NoTheme), ElementsUpdated(y)>>)

(* POST /scenes and POST /scenes/:sceneId/activate. *)
DefineScene(x, o) == Done([x EXCEPT !.scene = o.preset], <<>>)
ActivateStored(x, o) ==
    IF x.scene = NoScene THEN Refused(x)
    ELSE LET y == [x EXCEPT !.els = IF o.clear THEN x.scene.els ELSE Over(@, x.scene.els)]
         IN  Done(y, <<Activated(y)>>)

(* component_deploy and scene_activate of a studio socket. *)
ComponentDeploy(x, p) ==
    LET y == [x EXCEPT !.vars = DeepMerge(@, p.vars), !.els = p.els] IN Done(y, <<ElementsUpdated(y)>>)
SceneActivate(x, p) ==
    LET y == [x EXCEPT !.vars = DeepMerge(@, p.vars), !.els = p.els, !.orient = p.orient]
    IN  Done(y, <<ElementsUpdated(y)>>)

Perform(x, o) ==
    CASE o.op = "create" -> CreateElement(x, o)
      [] o.op = "update" -> UpdateElement(x, o.id, o.updates)
      [] o.op = "show" -> UpdateElement(x, o.id, Display(FALSE))
      [] o.op = "hide" -> UpdateElement(x, o.id, Display(TRUE))
      [] o.op = "toggle" -> ToggleVisibility(x, o)
      [] o.op = "delete" -> DeleteElement(x, o)
      [] o.op = "variables" -> SetVariables(x, o)
      [] o.op = "design" -> SetDesignSystem(x, o)
      [] o.op = "sound" -> Done(x, <<Sound>>)
      [] o.op = "activate" -> ActivateScene(x, o.preset, o.clear)
      [] o.op = "define" -> DefineScene(x, o)
      [] o.op = "stored" -> ActivateStored(x, o)

Requests == {o \in
    [op : {"create"}, id : Elements, element : NewElements]
      \cup [op : {"update"}, id : Elements, updates : Updates]
      \cup [op : {"show", "hide", "toggle", "delete"}, id : Elements]
      \cup [op : {"variables"}, vars : Bags] \cup [op : {"design"}, theme : Themes]
      \cup [op : {"sound"}] \cup [op : {"define"}, preset : Presets]
      \cup [op : {"activate"}, preset : Presets, clear : BOOLEAN] \cup [op : {"stored"}, clear : BOOLEAN] :
    o.op \in Ops}
(* The kinds dispatchActions knows; it activates with clearPrevious. *)
Actions == {o \in Requests : o.op \in {"show", "hide", "update", "delete", "variables", "sound"}
                               \/ (o.op = "activate" /\ o.clear)}

-----------------------------------------------------------------------------
(* ChannelManager.broadcast: every subscriber whose socket is open. *)
Broadcast(k, ms) ==
    inbox' = [p \in Pages |-> IF p \in subs[k] /\ conn[p] = "open" THEN inbox[p] \o ms ELSE inbox[p]]

Apply(c, o) ==
    /\ ch' = [ch EXCEPT ![c] = Perform(ch[c], o).state]
    /\ Broadcast(c, Perform(ch[c], o).messages)

(* The process runs one handler at a time: a dispatch between two actions  *)
(* that wait for nothing excludes everything else.                         *)
Free == job.at # "running"
Spend == ops < MaxOps /\ ops' = ops + 1

(* An HTTP request of an authenticated studio. *)
Rest(c, o) ==
    /\ o.op \notin {"show", "hide"}
    /\ Free /\ Spend
    /\ Apply(c, o)
    /\ UNCHANGED <<snap, subs, sockets, auth, job, view, first, connects, rotations>>

(* dispatchActions: events, webhooks and saved actions.  Only reading the  *)
(* collection of a scene.activate waits.                                   *)
Dispatch(c, a, b) ==
    /\ job = NoJob /\ Spend
    /\ job' = [at |-> "running", channel |-> c, todo |-> <<a, b>>]
    /\ UNCHANGED <<server, sockets, auth, pages, connects, rotations>>

NextAction(j) == IF Len(j.todo) = 1 THEN NoJob ELSE [j EXCEPT !.at = "running", !.todo = Tail(@)]

DispatchAction ==
    /\ job.at = "running"
    /\ \/ /\ Head(job.todo).op = "activate"
          /\ job' = [job EXCEPT !.at = "reading"]
          /\ UNCHANGED <<ch, inbox>>
       \/ /\ Head(job.todo).op # "activate"
          /\ Apply(job.channel, Head(job.todo))
          /\ job' = NextAction(job)
    /\ UNCHANGED <<snap, subs, sockets, auth, view, first, bounds>>

CollectionRead ==
    /\ job.at = "reading"
    /\ \/ Apply(job.channel, Head(job.todo))
       \/ UNCHANGED <<ch, inbox>>                     \* not found
    /\ job' = NextAction(job)
    /\ UNCHANGED <<snap, subs, sockets, auth, view, first, bounds>>

(* Production publishes a new snapshot of a bus. *)
PublishSnapshot(k) ==
    /\ "publish" \in Ops
    /\ Free /\ Spend
    /\ snap' = [snap EXCEPT ![k] = @ + 1]
    /\ Broadcast(k, <<Snapshot(snap'[k])>>)
    /\ UNCHANGED <<ch, subs, sockets, auth, job, view, first, connects, rotations>>

-----------------------------------------------------------------------------
(* Upgrades: a cookie gives studio access, anyone else has until the       *)
(* timeout to authenticate.                                                *)
Connect(s, cookie) ==
    /\ Free /\ conn[s] = "none" /\ connects < MaxConnects
    /\ s \in Pages => (cookie <=> PageKey[s] \in Channels)
    /\ connects' = connects + 1
    /\ conn' = [conn EXCEPT ![s] = "open"]
    /\ access' = [access EXCEPT ![s] = IF cookie /\ s \in live THEN "studio" ELSE "pending"]
    /\ UNCHANGED <<server, mine, outputs, auth, job, pages, ops, rotations>>

Closing(s) == conn' = [conn EXCEPT ![s] = IF @ = "open" THEN "closing" ELSE @]

AuthenticationTimeout(s) ==
    /\ Free /\ conn[s] = "open" /\ access[s] = "pending"
    /\ Closing(s)
    /\ UNCHANGED <<server, access, mine, outputs, auth, job, pages, bounds>>

(* unsubscribe: an empty channel is dropped with its state. *)
Drop(s, ks) ==
    /\ subs' = [k \in Keys |-> IF k \in ks THEN subs[k] \ {s} ELSE subs[k]]
    /\ ch' = [c \in Channels |-> IF c \in ks /\ subs'[c] = {} THEN Blank ELSE ch[c]]
    /\ mine' = [mine EXCEPT ![s] = @ \ ks]

KeepSubscriptions(s) == UNCHANGED <<mine, subs, ch>>
TearDown(s) == Drop(s, mine[s])

(* authenticate.output with the credential in force, or another one. *)
AuthenticateOutput(s) ==
    /\ access[s] \notin Shows
    /\ \/ /\ TearDown(s)
          /\ access' = [access EXCEPT ![s] = cred]
          /\ outputs' = outputs \cup {s}
          /\ UNCHANGED conn
       \/ Closing(s) /\ UNCHANGED <<subs, ch, mine, access, outputs>>
    /\ UNCHANGED pages

(* A studio socket is checked against its session at every frame. *)
SessionHolds(s) == s \in live

Unauthenticated(s) ==
    /\ \/ access[s] = "pending" /\ UNCHANGED <<subs, ch, mine>>
       \/ access[s] = "studio" /\ ~SessionHolds(s) /\ TearDown(s)
    /\ Closing(s)
    /\ UNCHANGED <<access, outputs, pages>>

MaySubscribe(s, k) ==
    \/ access[s] = "studio" /\ SessionHolds(s)
    \/ access[s] \in Shows /\ k = <<access[s], "program">>

(* The confirmation carries the state of the route at this moment. *)
Confirmation(k) == IF k \in Channels THEN Confirmed(ch[k]) ELSE Snapshot(snap[k])

Subscribe(s, k) ==
    /\ MaySubscribe(s, k) /\ k \notin mine[s]
    /\ subs' = [subs EXCEPT ![k] = @ \cup {s}]
    /\ mine' = [mine EXCEPT ![s] = @ \cup {k}]
    /\ inbox' = [p \in Pages |->
           IF p = s /\ conn[s] = "open"
           THEN Append(inbox[p], Confirmation(k)) ELSE inbox[p]]
    /\ UNCHANGED <<ch, conn, access, outputs, view, first>>

Unsubscribe(s, k) ==
    /\ access[s] \in Shows \/ (access[s] = "studio" /\ SessionHolds(s))
    /\ k \in mine[s]
    /\ Drop(s, {k})
    /\ UNCHANGED <<conn, access, outputs, pages>>

Deploy(s, c, o) ==
    /\ access[s] = "studio" /\ SessionHolds(s)
    /\ ch' = [ch EXCEPT ![c] = o.state]
    /\ Broadcast(c, o.messages)
    /\ UNCHANGED <<subs, conn, access, mine, outputs, view, first>>

(* Frames still reach a socket that is closing. *)
Frame(s) ==
    /\ Free /\ conn[s] # "none"
    /\ \/ Unauthenticated(s)
       \/ (s \in Pages => PageKey[s] \notin Channels) /\ AuthenticateOutput(s)
       \/ \E k \in Keys : (s \in Pages => k = PageKey[s]) /\ Subscribe(s, k)
       \/ s \notin Pages /\ \E k \in Keys : Unsubscribe(s, k)
    /\ UNCHANGED <<snap, auth, job, bounds>>

DeployFrame(s) ==
    /\ Free /\ conn[s] # "none" /\ s \notin Pages /\ Spend
    /\ \E c \in Channels, p \in Presets :
           Deploy(s, c, ComponentDeploy(ch[c], p)) \/ Deploy(s, c, SceneActivate(ch[c], p))
    /\ UNCHANGED <<snap, auth, job, connects, rotations>>

CloseEvent(s) ==
    /\ Free /\ conn[s] # "none"
    /\ TearDown(s)
    /\ conn' = [conn EXCEPT ![s] = "none"] /\ access' = [access EXCEPT ![s] = "pending"]
    /\ outputs' = outputs \ {s}
    /\ inbox' = [p \in Pages |-> IF p = s THEN <<>> ELSE inbox[p]]
    /\ first' = first \ {s}
    /\ UNCHANGED <<snap, auth, job, view, bounds>>

(* A rotation retires every output connection. *)
RotateCredential(w) ==
    /\ Free /\ rotations < MaxRotations /\ rotations' = rotations + 1
    /\ cred' = w
    /\ conn' = [s \in Conns |-> IF s \in outputs /\ conn[s] = "open" THEN "closing" ELSE conn[s]]
    /\ outputs' = {}
    /\ UNCHANGED <<server, access, mine, live, job, pages, ops, connects>>

SessionEnds(s) ==
    /\ Free /\ s \in live /\ s \notin Pages
    /\ live' = live \ {s}
    /\ UNCHANGED <<server, sockets, cred, job, pages, bounds>>

-----------------------------------------------------------------------------
(* The overlay page: handleWebSocketMessage over the two stores.  Elements *)
(* of a full list replace the ones shown; variables are spread over the    *)
(* ones held.                                                              *)
Shown(v, m) ==
    CASE m.type = "subscription.confirmed" ->
           [v EXCEPT !.els = Over(@, m.state.els), !.vars = Over(@, m.state.vars),
                     !.theme = IF m.state.theme = NoTheme THEN @ ELSE m.state.theme, !.orient = m.state.orient]
      [] m.type = "element.create" -> [v EXCEPT !.els = Over(@, m.id :> m.element)]
      [] m.type = "element.update" ->
           IF m.id \in DOMAIN v.els THEN [v EXCEPT !.els[m.id] = Over(@, m.updates)] ELSE v
      [] m.type = "element.delete" -> [v EXCEPT !.els = Without(@, m.id)]
      [] m.type = "scene.activated" ->
           [v EXCEPT !.els = m.scene.els, !.vars = Over(@, m.vars), !.orient = m.scene.orient]
      [] m.type = "variables.update" -> [v EXCEPT !.vars = Over(@, m.vars)]
      [] m.type = "design.system" -> [v EXCEPT !.theme = m.theme]
      [] m.type = "elements.updated" ->
           [v EXCEPT !.els = m.els, !.vars = Over(@, m.vars), !.orient = m.orient]
      [] m.type = "production.snapshot" -> [v EXCEPT !.snap = m.snap]
      [] m.type = "sound.play" -> v

Receive(p) ==
    /\ inbox[p] # <<>>
    /\ view' = [view EXCEPT ![p] = Shown(@, Head(inbox[p]))]
    /\ inbox' = [inbox EXCEPT ![p] = Tail(@)]
    /\ UNCHANGED <<server, sockets, auth, job, first, bounds>>

Next ==
    \/ \E c \in Channels, o \in Requests : Rest(c, o)
    \/ \E c \in Channels, a, b \in Actions : Dispatch(c, a, b)
    \/ DispatchAction \/ CollectionRead
    \/ \E k \in Shows \X Buses : PublishSnapshot(k)
    \/ \E s \in Conns : \/ \E cookie \in BOOLEAN : Connect(s, cookie)
                        \/ AuthenticationTimeout(s) \/ Frame(s) \/ DeployFrame(s) \/ CloseEvent(s) \/ SessionEnds(s)
    \/ \E w \in Shows : RotateCredential(w)
    \/ \E p \in Pages : Receive(p)

Spec == Init /\ [][Next]_vars

-----------------------------------------------------------------------------
(* What the page will show once the messages on their way have arrived. *)
Settled(p) ==
    LET shown[n \in 0..Len(inbox[p])] ==
            IF n = 0 THEN view[p] ELSE Shown(shown[n - 1], inbox[p][n])
    IN  shown[Len(inbox[p])]
Following(p) == PageKey[p] \in Channels /\ p \in subs[PageKey[p]]
Channel(p) == ch[PageKey[p]]

(* Whatever requests, dispatched actions and deploys interleave, but for   *)
(* the activation of a stored scene, a page on its first connection shows  *)
(* exactly the elements, theme and orientation of its channel, and every   *)
(* variable the channel has, nested siblings included (the full merged bag *)
(* the variables routes broadcast).  The exception is the operation        *)
(* "stored", which instances with a page on a channel leave out: the route *)
(* adds the scene's elements to the channel's and keeps the channel's      *)
(* orientation, while the message carries the scene alone, so the page and *)
(* the channel part.                                                       *)
OverlayFollowsChannel ==
    \A p \in first : Following(p) =>
        LET v == Settled(p)  x == Channel(p)
        IN  /\ v.els = x.els /\ v.theme = x.theme /\ v.orient = x.orient
            /\ \A k \in DOMAIN x.vars : k \in DOMAIN v.vars /\ v.vars[k] = x.vars[k]

(* A page subscribed to a production bus shows its current snapshot, also  *)
(* after reconnecting (subscribe.production confirms with the snapshot in  *)
(* the turn that subscribes).                                              *)
OverlayFollowsProduction ==
    \A p \in Pages : PageKey[p] \notin Channels /\ p \in subs[PageKey[p]] /\ conn[p] = "open" =>
        Settled(p).snap = snap[PageKey[p]]

(* What a page shows is what the server holds, on either kind of route, with *)
(* the exception of OverlayFollowsChannel.                                   *)
PagesFollow == OverlayFollowsChannel /\ OverlayFollowsProduction

(* The handler's own subscriptions and ChannelManager's agree, so the      *)
(* close of a socket leaves no subscriber behind.                          *)
SubscriptionsAgree == \A s \in Conns, k \in Keys : s \in subs[k] <=> k \in mine[s]

(* A connection that declared itself an output is subscribed to the        *)
(* Program of the Show its credential was for and to nothing else, what it *)
(* subscribed to before as a studio included (de-escalation teardown), in  *)
(* the handler's books and in ChannelManager's.                            *)
OutputsSeeOnlyTheirProgram ==
    /\ SubscriptionsAgree
    /\ \A s \in Conns : access[s] \in Shows => mine[s] \subseteq {<<access[s], "program">>}
=============================================================================

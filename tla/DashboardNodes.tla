--------------------------- MODULE DashboardNodes --------------------------
(***************************************************************************)
(* The node table (static/nodes.js) and the map (static/app.js, from       *)
(* "Map (Leaflet)" on) of the dashboard: two views of the page's copy of   *)
(* the node directory, each with its filters.  The table is built anew     *)
(* when a handler says that nodes have changed and its tab is shown; the   *)
(* map is created on the first visit of its tab and then kept up to date   *)
(* marker by marker.  Every handler runs to its end before the next.       *)
(*                                                                         *)
(* The filters that only compare a field (search, battery, MQTT, hardware) *)
(* work like the ones kept: the role boxes of both views, the status of    *)
(* the map, position and "realtime" of the table.  The server is what the  *)
(* favourites need: its flags, the updates it has yet to publish and the   *)
(* stream of its events (NodeDirectory models the rest of the directory,   *)
(* and its delivery).  A stream begins with any directory, since what the  *)
(* server otherwise knows of a node is not tracked here.                   *)
(***************************************************************************)
EXTENDS Naturals, Sequences, FiniteSets

CONSTANTS
  Node,         \* node numbers
  Role,         \* roles a node may have
  Directories,  \* directories the server may have, without favourites
  ConfigFav,    \* the nodes that the node's own config marks as favourites
  MaxSteps      \* bound: events, nodes gone offline, clicks on favourites, changes of filters

NoRole == ""
Info == [role : Role \cup {NoRole}, pos : BOOLEAN, sig : BOOLEAN, seen : BOOLEAN, online : BOOLEAN]

ASSUME NodesAssumption ==
  /\ Node \subseteq Nat \ {0} /\ IsFiniteSet(Node) /\ NoRole \notin Role
  /\ ConfigFav \subseteq Node
  /\ \A d \in Directories : DOMAIN d \subseteq Node /\ d \in [DOMAIN d -> Info]
  /\ MaxSteps \in Nat

VARIABLES
  serverFav,    \* is_favorite at the server
  feed,         \* events on their way: whole directories and favourites
  requests,     \* favourite requests: [id, node, fav, by, state]
  steps,        \* counts against MaxSteps
  apart,        \* history: nodes whose favourite the page may not have right
  cures,        \* history: per event of feed, the nodes it may put right again
  base,         \* history: the nodes of the last directory handled
  dir,          \* nodeDir
  favs,         \* the nodes of nodeDir with is_favorite
  tab,          \* the tab shown
  table,        \* the rows of the table, in order
  nodesFilter,  \* its filters and its sort direction
  panelOpen,    \* nodesFiltersOpen
  nodesBoxes,   \* its role boxes: checked or not
  mapReady,     \* mapInitialized
  markers,      \* mapMarkers
  onMap,        \* those that are layers of the map
  checkedRoles, \* checkedRoles of the map: <<>> for null, or <<set>>
  boxes,        \* the role boxes of the map: checked or not
  status,       \* the status filter of the map
  heatOn,       \* heatmapMode is not "off"
  heat,         \* the points of the heatmap layer: <<>> for none, or <<set>>
  stale         \* history: nodes changed since applyMapFilters

pageDebt   == <<apart, cures, base>>
serverVars == <<serverFav, feed, requests, pageDebt>>
dirVars    == <<dir, favs>>
tableVars  == <<table, nodesBoxes>>
nodesUI    == <<nodesFilter, panelOpen>>
mapVars    == <<markers, onMap, heat, stale>>
mapUI      == <<checkedRoles, boxes, status, heatOn>>
vars == <<serverVars, steps, dirVars, tab, tableVars, nodesUI, mapReady, mapVars, mapUI>>

Step == steps < MaxSteps /\ steps' = steps + 1

NoFilter == [roles |-> {}, gps |-> FALSE, realtime |-> FALSE, desc |-> FALSE]

Init ==
  /\ serverFav = [n \in Node |-> FALSE] /\ feed = <<>> /\ requests = {}
  /\ steps = 0
  /\ dir \in Directories /\ favs = {} /\ base = DOMAIN dir /\ apart = {} /\ cures = <<>>
  /\ tab = "dashboard" /\ table = <<>> /\ nodesBoxes = <<>>
  /\ nodesFilter = NoFilter /\ panelOpen = FALSE
  /\ mapReady = FALSE /\ markers = {} /\ onMap = {} /\ heat = <<>> /\ stale = {}
  /\ checkedRoles = <<>> /\ boxes = <<>> /\ status = "all" /\ heatOn = FALSE

(***************************************************************************)
(* The table.                                                              *)
(***************************************************************************)
RolesOf(d) == {d[n].role : n \in DOMAIN d} \ {NoRole}

Listed(d, f) ==
  {n \in DOMAIN d : /\ f.realtime => d[n].seen
                    /\ f.gps => d[n].pos
                    /\ f.roles # {} => d[n].role \in f.roles}

\* The order of the rows: favourites first, whatever the direction.
Above(a, b, fs, f) ==
  IF (a \in fs) # (b \in fs) THEN a \in fs ELSE IF f.desc THEN a > b ELSE a < b

Sorted(S, fs, f) ==
  CHOOSE s \in [1 .. Cardinality(S) -> S] :
    \A i, j \in DOMAIN s : i < j => Above(s[i], s[j], fs, f)

Rows(d, fs, f) ==
  LET order == Sorted(Listed(d, f), fs, f)
  IN  [i \in DOMAIN order |-> [node |-> order[i], role |-> d[order[i]].role,
                               seen |-> d[order[i]].seen, fav |-> order[i] \in fs]]

renderNodesTable(d, fs, f) == table' = Rows(d, fs, f)

\* buildRoleCheckboxes, from the filter.
RoleBoxes(d, f) == [r \in RolesOf(d) |-> r \in f.roles]

\* The listeners of nodes.js act only while the tab is shown.
BoxesAfter(d, rolesToo) ==
  IF tab = "nodes" /\ panelOpen /\ rolesToo THEN RoleBoxes(d, nodesFilter) ELSE nodesBoxes

nodesChanged(d, fs, rolesToo) ==
  /\ IF tab = "nodes" THEN renderNodesTable(d, fs, nodesFilter) ELSE UNCHANGED table
  /\ nodesBoxes' = BoxesAfter(d, rolesToo)

(***************************************************************************)
(* The map.                                                                *)
(***************************************************************************)
Located(d) == {n \in DOMAIN d : d[n].pos}

\* rebuildCheckboxGroup: the filter decides, then the box there was.
Rebuilt(d) ==
  [r \in RolesOf(d) |->
     IF checkedRoles # <<>> THEN r \in checkedRoles[1]
     ELSE IF r \in DOMAIN boxes THEN boxes[r] ELSE TRUE]

\* nodePassesFilters: no box checked means no filter; a node without role needs
\* every box checked.
Passes(e, cr, bx, st) ==
  /\ cr # <<>> /\ cr[1] # {} =>
       IF e.role # NoRole THEN e.role \in cr[1] ELSE Cardinality(cr[1]) >= Cardinality(DOMAIN bx)
  /\ st = "online" => e.online
  /\ st = "offline" => ~e.online

\* applyMapFilters: only nodes with a position are looked at.
Visible(d, ms, cr, bx, st) ==
  {n \in ms : IF n \in Located(d) THEN Passes(d[n], cr, bx, st) ELSE n \in onMap}

applyMapFilters(d, ms, cr, bx, st) ==
  onMap' = Visible(d, ms, cr, bx, st) /\ stale' = {}

getHeatmapPoints(d) == {n \in Located(d) : d[n].sig}
updateHeatmap(d, on) == heat' = IF on THEN <<getHeatmapPoints(d)>> ELSE <<>>

\* updateMapMarkers, once there is a map, before it tells the table.
RefreshMap(d) ==
  /\ markers' = Located(d) /\ boxes' = Rebuilt(d)
  /\ applyMapFilters(d, Located(d), checkedRoles, Rebuilt(d), status)
  /\ updateHeatmap(d, heatOn)

\* Without a map it returns, and the table is not told.
updateMapMarkers(d, fs) ==
  IF mapReady THEN RefreshMap(d) /\ nodesChanged(d, fs, TRUE) ELSE UNCHANGED <<mapVars, boxes, tableVars>>

(***************************************************************************)
(* Events of the mesh.  They come over the stream, in an order of their    *)
(* own: no property compares them with the server.                         *)
(***************************************************************************)
Unknown == [role |-> NoRole, pos |-> FALSE, sig |-> FALSE, seen |-> FALSE, online |-> FALSE]

\* nodeDir with a node heard now, created if need be.
Heard(n) ==
  LET e == IF n \in DOMAIN dir THEN dir[n] ELSE Unknown
  IN  [k \in DOMAIN dir \cup {n} |-> IF k = n THEN [e EXCEPT !.seen = TRUE, !.online = TRUE] ELSE dir[k]]

MeshEvent(d) ==
  /\ Step
  /\ dir' = d
  /\ UNCHANGED <<serverVars, favs, tab, nodesUI, mapReady, mapUI>>

updateMapNode(n) ==
  LET d == [Heard(n) EXCEPT ![n].pos = TRUE]
  IN  /\ MeshEvent(d)
      /\ IF mapReady
         THEN /\ markers' = markers \cup {n}
              /\ applyMapFilters(d, markers \cup {n}, checkedRoles, boxes, status)
              /\ updateHeatmap(d, heatOn)
              /\ nodesChanged(d, favs, TRUE)
         ELSE UNCHANGED <<mapVars, tableVars>>

updateNodeTelemetry(n) ==
  LET d == Heard(n)
  IN  /\ MeshEvent(d)
      /\ IF mapReady THEN applyMapFilters(d, markers, checkedRoles, boxes, status) ELSE UNCHANGED <<onMap, stale>>
      /\ nodesChanged(d, favs, TRUE)
      /\ UNCHANGED <<markers, heat>>

SignalWithoutHeatmap(n) ==
  LET d == [Heard(n) EXCEPT ![n].sig = TRUE]
  IN  /\ MeshEvent(d)
      /\ nodesChanged(d, favs, TRUE)
      /\ stale' = stale \cup {n}
      /\ UNCHANGED <<markers, onMap, heat>>

\* The filters are not applied again, although the node is online now.
updateNodeSignal(n) ==
  LET d == [Heard(n) EXCEPT ![n].sig = TRUE]
  IN  /\ MeshEvent(d)
      /\ IF mapReady THEN updateHeatmap(d, heatOn) ELSE UNCHANGED heat
      /\ nodesChanged(d, favs, TRUE)
      /\ stale' = stale \cup {n}
      /\ UNCHANGED <<markers, onMap>>

InfoWithoutEvent(n, r) ==
  /\ MeshEvent([Heard(n) EXCEPT ![n].role = IF r = NoRole THEN @ ELSE r])
  /\ stale' = stale \cup {n}
  /\ UNCHANGED <<markers, onMap, heat, tableVars>>

\* Neither the filters nor the role boxes of the map follow a new role.
updateNodeInfo(n, r) ==
  LET d == [Heard(n) EXCEPT ![n].role = IF r = NoRole THEN @ ELSE r]
  IN  /\ MeshEvent(d)
      /\ nodesChanged(d, favs, r # NoRole)
      /\ stale' = stale \cup {n}
      /\ UNCHANGED <<markers, onMap, heat>>

\* Fifteen minutes pass.
GoesOffline(n) ==
  /\ n \in DOMAIN dir /\ dir[n].online /\ Step
  /\ dir' = [dir EXCEPT ![n].online = FALSE]
  /\ stale' = stale \cup {n}
  /\ UNCHANGED <<serverVars, favs, tab, tableVars, nodesUI, mapReady, markers, onMap, heat, mapUI>>

(***************************************************************************)
(* The stream of directories and favourites.                               *)
(***************************************************************************)
DirectoryEvent(d, flags) == [type |-> "directory", dir |-> d, favs |-> {n \in DOMAIN d : flags[n]}]
FavEvent(n, b)           == [type |-> "favorite", node |-> n, fav |-> b]

\* An event that sets the favourite of n.
About(e, n) == e.type = "directory" \/ (e.type = "favorite" /\ e.node = n)

\* Updates of a node the server has made and not yet published, and requests of
\* this page it has handled and the page has no answer to.
InHand(n)     == {r \in requests : r.node = n /\ r.state = "set"}
Unanswered(n) == {r \in requests : r.node = n /\ r.state = "done"}

\* The nodes whose flag is not what an update in hand, or an answer under way, says.
Overtaken(flags) ==
  {n \in Node : flags[n] # serverFav[n] /\ InHand(n) \cup Unanswered(n) # {}}

\* What a directory copied now puts right, with the events behind it.
Cured(away, behind) ==
  {n \in away : InHand(n) = {} /\ \A i \in DOMAIN behind : ~About(behind[i], n)}

PutApart(S) ==
  /\ apart' = apart \cup S
  /\ cures' = [i \in DOMAIN cures |-> cures[i] \ S]

\* The flags after SetNodeDirectory(d): favourites of the old directory survive,
\* those of the node's config are added.
KeptFlags(d) == [n \in Node |-> n \in DOMAIN d /\ (serverFav[n] \/ n \in ConfigFav)]

\* A new directory, published or dropped by a full channel.
ServerSendsDirectory(d) ==
  /\ Step
  /\ serverFav' = KeptFlags(d)
  /\ \/ /\ feed' = Append(feed, DirectoryEvent(d, KeptFlags(d)))
        /\ apart' = apart \cup Overtaken(KeptFlags(d))
        /\ cures' = Append([i \in DOMAIN cures |-> cures[i] \ Overtaken(KeptFlags(d))],
                           Cured(apart', <<>>))
     \/ /\ PutApart({n \in Node : KeptFlags(d)[n] # serverFav[n]})
        /\ UNCHANGED feed
  /\ UNCHANGED <<requests, base, dirVars, tab, tableVars, nodesUI, mapReady, mapVars, mapUI>>

\* handleSSE: a new stream begins with a directory; what was published between
\* Subscribe and the copy comes after it, all before is lost with the old stream.
NewStream(d) ==
  /\ Step
  /\ \E k \in 0 .. Len(feed) :
       LET behind == SubSeq(feed, k + 1, Len(feed))
       IN  /\ feed' = <<DirectoryEvent(d, serverFav)>> \o behind
           /\ cures' = <<Cured(apart, behind)>> \o SubSeq(cures, k + 1, Len(cures))
  /\ UNCHANGED <<serverFav, requests, apart, base, dirVars, tab, tableVars, nodesUI, mapReady, mapVars, mapUI>>

\* SetFavorite, up to the unlock: the flag.  Another update of the node in hand
\* may be published after this one, and an answer under way is older than it.
SetFavorite(n, b) ==
  /\ serverFav' = [serverFav EXCEPT ![n] = b]
  /\ IF InHand(n) \cup Unanswered(n) # {} THEN PutApart({n}) ELSE UNCHANGED <<apart, cures>>

\* Another user.
OtherSetsFavorite(n, b) ==
  /\ Step
  /\ SetFavorite(n, b)
  /\ requests' = requests \cup {[id |-> steps, node |-> n, fav |-> b, by |-> "other", state |-> "set"]}
  /\ UNCHANGED <<feed, base, dirVars, tab, tableVars, nodesUI, mapReady, mapVars, mapUI>>

\* The rest of SetFavorite: the event, which a full channel drops.
publish(r) ==
  /\ r.state = "set"
  /\ \/ /\ feed' = Append(feed, FavEvent(r.node, r.fav)) /\ cures' = Append(cures, {})
        /\ UNCHANGED apart
     \/ PutApart({r.node}) /\ UNCHANGED feed
  /\ requests' = (requests \ {r}) \cup (IF r.by = "page" THEN {[r EXCEPT !.state = "done"]} ELSE {})
  /\ UNCHANGED <<serverFav, base, steps, dirVars, tab, tableVars, nodesUI, mapReady, mapVars, mapUI>>

OnDirectory ==
  /\ feed # <<>> /\ Head(feed).type = "directory"
  /\ feed' = Tail(feed) /\ cures' = Tail(cures)
  /\ dir' = Head(feed).dir /\ favs' = Head(feed).favs
  /\ base' = DOMAIN dir' /\ apart' = apart \ {n \in Head(cures) : Unanswered(n) = {}}
  /\ updateMapMarkers(Head(feed).dir, Head(feed).favs)
  /\ UNCHANGED <<serverFav, requests, steps, tab, nodesUI, mapReady, checkedRoles, status, heatOn>>

SetFav(n, b) == IF b THEN favs \cup {n} ELSE favs \ {n}

\* The table is rendered in any case, then the map.
OnFavorite ==
  /\ feed # <<>> /\ Head(feed).type = "favorite"
  /\ feed' = Tail(feed) /\ cures' = Tail(cures)
  /\ LET n == Head(feed).node
         fs == SetFav(n, Head(feed).fav)
     IN  IF n \in DOMAIN dir
         THEN /\ favs' = fs
              /\ renderNodesTable(dir, fs, nodesFilter)
              /\ IF mapReady
                 THEN RefreshMap(dir) /\ nodesBoxes' = BoxesAfter(dir, TRUE)
                 ELSE UNCHANGED <<nodesBoxes, mapVars, boxes>>
         ELSE UNCHANGED <<favs, tableVars, mapVars, boxes>>
  /\ UNCHANGED <<serverFav, requests, apart, base, steps, dir, tab, nodesUI, mapReady, checkedRoles, status, heatOn>>

(***************************************************************************)
(* Favourites of this page.                                                *)
(***************************************************************************)
\* nodeAction("favorite") on a row: the opposite of what nodeDir says now.
ClickFavorite(n) ==
  /\ tab = "nodes" /\ \E i \in DOMAIN table : table[i].node = n
  /\ Step
  /\ requests' = requests \cup
       {[id |-> steps, node |-> n, fav |-> n \notin favs, by |-> "page", state |-> "sent"]}
  /\ UNCHANGED <<serverFav, feed, pageDebt, dirVars, tab, tableVars, nodesUI, mapReady, mapVars, mapUI>>

ServerSetsFavorite(r) ==
  /\ r.state = "sent"
  /\ SetFavorite(r.node, r.fav)
  /\ requests' = (requests \ {r}) \cup {[r EXCEPT !.state = "set"]}
  /\ UNCHANGED <<feed, base, steps, dirVars, tab, tableVars, nodesUI, mapReady, mapVars, mapUI>>

\* An error, or an answer that is lost: logged, nothing else.  The server goes on
\* with an update it has in hand.
FavoriteFails(r) ==
  /\ r.by = "page"
  /\ requests' = (requests \ {r}) \cup (IF r.state = "set" THEN {[r EXCEPT !.by = "other"]} ELSE {})
  /\ UNCHANGED <<serverFav, feed, pageDebt, steps, dirVars, tab, tableVars, nodesUI, mapReady, mapVars, mapUI>>

FavoriteToggled(r) ==
  /\ r.state = "done"
  /\ requests' = requests \ {r}
  /\ LET fs == IF r.node \in favs THEN favs \ {r.node} ELSE favs \cup {r.node}
     IN  IF r.node \in DOMAIN dir
         THEN favs' = fs /\ renderNodesTable(dir, fs, nodesFilter)
         ELSE UNCHANGED <<favs, table>>
  /\ UNCHANGED <<serverFav, feed, pageDebt, steps, dir, tab, nodesBoxes, nodesUI, mapReady, mapVars, mapUI>>

\* The answer: what was asked for is set on whatever entry there is now.
FavoriteAnswered(r) ==
  /\ r.state = "done"
  /\ requests' = requests \ {r}
  /\ LET fs == SetFav(r.node, r.fav)
     IN  IF r.node \in DOMAIN dir
         THEN favs' = fs /\ renderNodesTable(dir, fs, nodesFilter)
         ELSE UNCHANGED <<favs, table>>
  /\ UNCHANGED <<serverFav, feed, pageDebt, steps, dir, tab, nodesBoxes, nodesUI, mapReady, mapVars, mapUI>>

(***************************************************************************)
(* Tabs and filters.                                                       *)
(***************************************************************************)
\* switchTab, with initNodesTab and initMap.
switchTab(t) ==
  /\ tab' = t
  /\ IF t = "nodes" THEN renderNodesTable(dir, favs, nodesFilter) ELSE UNCHANGED table
  /\ mapReady' = (mapReady \/ t = "map")
  /\ IF t = "map" /\ ~mapReady THEN RefreshMap(dir) ELSE UNCHANGED <<mapVars, boxes>>
  /\ UNCHANGED <<serverVars, steps, dirVars, nodesBoxes, nodesUI, checkedRoles, status, heatOn>>

RefreshWithMap ==
  /\ tab = "nodes" /\ mapReady
  /\ renderNodesTable(dir, favs, nodesFilter)
  /\ UNCHANGED <<serverVars, steps, dirVars, tab, nodesBoxes, nodesUI, mapReady, mapVars, mapUI>>

\* Every 30 seconds.
RefreshTable ==
  /\ tab = "nodes"
  /\ renderNodesTable(dir, favs, nodesFilter)
  /\ UNCHANGED <<serverVars, steps, dirVars, tab, nodesBoxes, nodesUI, mapReady, mapVars, mapUI>>

toggleNodesFilters ==
  /\ tab = "nodes" /\ Step
  /\ panelOpen' = ~panelOpen
  /\ nodesBoxes' = IF panelOpen THEN nodesBoxes ELSE RoleBoxes(dir, nodesFilter)
  /\ UNCHANGED <<serverVars, dirVars, tab, table, nodesFilter, mapReady, mapVars, mapUI>>

\* A filter or the sort direction of the table.
SetNodesFilter(f, bx) ==
  /\ tab = "nodes" /\ Step
  /\ nodesFilter' = f /\ nodesBoxes' = bx
  /\ renderNodesTable(dir, favs, f)
  /\ UNCHANGED <<serverVars, dirVars, tab, panelOpen, mapReady, mapVars, mapUI>>

handleRoleCheckbox(r) ==
  /\ panelOpen /\ r \in DOMAIN nodesBoxes
  /\ LET on == ~nodesBoxes[r]
     IN  SetNodesFilter([nodesFilter EXCEPT !.roles = IF on THEN @ \cup {r} ELSE @ \ {r}],
                        [nodesBoxes EXCEPT ![r] = on])

ToggleNodesOption ==
  \/ SetNodesFilter([nodesFilter EXCEPT !.realtime = ~@], nodesBoxes)
  \/ panelOpen /\ SetNodesFilter([nodesFilter EXCEPT !.gps = ~@], nodesBoxes)
  \/ SetNodesFilter([nodesFilter EXCEPT !.desc = ~@], nodesBoxes)

\* The boxes are unchecked; mode and sorting stay.
resetNodesFilters ==
  /\ panelOpen
  /\ SetNodesFilter([nodesFilter EXCEPT !.roles = {}, !.gps = FALSE], [r \in DOMAIN nodesBoxes |-> FALSE])

\* A filter of the map; its panel is on the map's tab.
SetMapFilter(cr, bx, st) ==
  /\ tab = "map" /\ Step
  /\ checkedRoles' = cr /\ boxes' = bx /\ status' = st
  /\ applyMapFilters(dir, markers, cr, bx, st)
  /\ UNCHANGED <<serverVars, dirVars, tab, tableVars, nodesUI, mapReady, markers>>

\* syncCheckedState: the filter is what is checked of the boxes there are.
syncCheckedState(bx) == <<{r \in DOMAIN bx : bx[r]}>>

RoleBoxChanged(r) ==
  /\ r \in DOMAIN boxes
  /\ LET bx == [boxes EXCEPT ![r] = ~@] IN SetMapFilter(syncCheckedState(bx), bx, status)
  /\ UNCHANGED <<heatOn, heat>>

SetStatus(st) ==
  /\ st # status
  /\ SetMapFilter(checkedRoles, boxes, st)
  /\ UNCHANGED <<heatOn, heat>>

ResetMapFilters ==
  /\ SetMapFilter(<<>>, [r \in DOMAIN boxes |-> TRUE], "all")
  /\ heatOn' = FALSE /\ updateHeatmap(dir, FALSE)

SetHeatmap ==
  /\ tab = "map" /\ Step
  /\ heatOn' = ~heatOn /\ updateHeatmap(dir, ~heatOn)
  /\ UNCHANGED <<serverVars, dirVars, tab, tableVars, nodesUI, mapReady, markers, onMap, stale,
                 checkedRoles, boxes, status>>

(***************************************************************************)
(* The specification.                                                      *)
(***************************************************************************)
Next ==
  \/ \E n \in Node : \/ updateMapNode(n) \/ updateNodeTelemetry(n) \/ updateNodeSignal(n)
                      \/ \E r \in Role \cup {NoRole} : updateNodeInfo(n, r)
                      \/ GoesOffline(n)
                      \/ \E b \in BOOLEAN : OtherSetsFavorite(n, b)
                      \/ ClickFavorite(n)
  \/ \E d \in Directories : ServerSendsDirectory(d) \/ NewStream(d)
  \/ OnDirectory \/ OnFavorite
  \/ \E r \in requests : ServerSetsFavorite(r) \/ publish(r) \/ FavoriteFails(r) \/ FavoriteAnswered(r)
  \/ \E t \in {"dashboard", "map", "nodes"} : switchTab(t)
  \/ RefreshTable \/ toggleNodesFilters \/ ToggleNodesOption \/ resetNodesFilters
  \/ \E r \in Role : handleRoleCheckbox(r) \/ RoleBoxChanged(r)
  \/ \E st \in {"all", "online", "offline"} : SetStatus(st)
  \/ ResetMapFilters \/ SetHeatmap

Spec == Init /\ [][Next]_vars

(***************************************************************************)
(* Fairness: the interval of nodes.js fires again and again.               *)
(***************************************************************************)
FairSpec == Spec /\ WF_vars(RefreshTable)

(***************************************************************************)
(* Properties.                                                             *)
(***************************************************************************)
Event ==
  {e \in [type : {"directory"}, dir : Directories, favs : SUBSET Node] : e.favs \subseteq DOMAIN e.dir}
    \cup [type : {"favorite"}, node : Node, fav : BOOLEAN]

Request ==
  [id : Nat, node : Node, fav : BOOLEAN, by : {"page", "other"}, state : {"sent", "set", "done"}]

\* Type correctness.
TypeOK ==
  /\ serverFav \in [Node -> BOOLEAN] /\ apart \subseteq Node /\ steps \in 0 .. MaxSteps
  /\ requests \subseteq Request /\ base \subseteq Node
  /\ feed \in Seq(Event) /\ cures \in Seq(SUBSET Node) /\ DOMAIN dir \subseteq Node /\ dir \in [DOMAIN dir -> Info]
  /\ favs \subseteq DOMAIN dir
  /\ tab \in {"dashboard", "map", "nodes"}
  /\ table \in Seq([node : Node, role : Role \cup {NoRole}, seen : BOOLEAN, fav : BOOLEAN])
  /\ nodesFilter \in [roles : SUBSET Role, gps : BOOLEAN, realtime : BOOLEAN, desc : BOOLEAN]
  /\ panelOpen \in BOOLEAN /\ mapReady \in BOOLEAN /\ heatOn \in BOOLEAN
  /\ \A bx \in {boxes, nodesBoxes} : DOMAIN bx \subseteq Role /\ bx \in [DOMAIN bx -> BOOLEAN]
  /\ onMap \subseteq markers /\ markers \subseteq Node /\ stale \subseteq Node
  /\ checkedRoles \in Seq(SUBSET Role) /\ heat \in Seq(SUBSET Node)
  /\ status \in {"all", "online", "offline"}

\* Once there is a map it has a marker for exactly the nodes with a position,
\* and the heatmap, when on, a point for exactly those with a signal, whichever
\* handler or reset ran last (app.js:615-813, 1126-1176).
MapFollowsDirectory ==
  mapReady => /\ markers = Located(dir)
              /\ heat = IF heatOn THEN <<getHeatmapPoints(dir)>> ELSE <<>>

\* The markers shown are those that pass the filters, but for nodes whose role,
\* signal or age has changed since they were applied (app.js:1300-1342).
FiltersApplied ==
  mapReady => \A n \in markers \ stale : n \in onMap <=> Passes(dir[n], checkedRoles, boxes, status)

\* The boxes say what the filters do, those of roles that come and go included:
\* no role the user can uncheck is filtered behind his back (app.js:1220-1274,
\* nodes.js:86-140).
BoxesTell ==
  /\ \A r \in DOMAIN boxes : boxes[r] <=> (checkedRoles = <<>> \/ r \in checkedRoles[1])
  /\ \A r \in DOMAIN nodesBoxes : nodesBoxes[r] <=> r \in nodesFilter.roles

\* Types, and what the user sees of directory and filters on the map and in the
\* boxes: MapFollowsDirectory, FiltersApplied and BoxesTell.
MapInv == TypeOK /\ MapFollowsDirectory /\ FiltersApplied /\ BoxesTell

TableNow == Rows(dir, favs, nodesFilter)

\* The table shown is the directory's, filtered and with favourites on top,
\* unless there is no map yet: directories and positions then reach the table
\* late (app.js:616, 697; nodes.js:643-659).
TableTrue == tab = "nodes" /\ mapReady => table = TableNow

\* Late, and not never: the table comes to show the directory without the help
\* of any event (nodes.js:637-641).
TableCatchesUp == tab = "nodes" /\ table # TableNow ~> table = TableNow \/ tab # "nodes"

\* With no event, update or request under way the page has the favourites of the
\* server, its own optimistic changes included, whatever the order of clicks,
\* updates of others, new directories, events and answers.  The exceptions, until
\* a directory copied later has come in, are a node changed again while an update
\* of it was being published or before the page had the answer to its own, and one
\* whose event, or the directory that changed it, was dropped; and nodes the last
\* directory did not have (nodes.js:465-480, app.js:186-189, 226-236,
\* node_directory.go:14-33, 209-226).
FavoritesConverge ==
  feed = <<>> /\ requests = {} =>
    \A n \in base \ apart : n \in favs <=> serverFav[n]
=============================================================================

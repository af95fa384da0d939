----------------------- MODULE DashboardNodesProofs ------------------------
(***************************************************************************)
(* Proofs about DashboardNodes, for any nodes, roles, directories and      *)
(* number of steps: map and boxes follow directory and filters, the table  *)
(* shown is the directory's, and the favourites are the server's once all  *)
(* events and answers are in.                                              *)
(***************************************************************************)
EXTENDS DashboardNodes, SequenceTheorems, FiniteSetTheorems, TLAPS

ServerTyped ==
  /\ serverFav \in [Node -> BOOLEAN] /\ apart \subseteq Node /\ steps \in 0 .. MaxSteps
  /\ requests \subseteq Request /\ base \subseteq Node
  /\ feed \in Seq(Event) /\ cures \in Seq(SUBSET Node) /\ Len(cures) = Len(feed)

GoodDir(d) == DOMAIN d \subseteq Node /\ d \in [DOMAIN d -> Info]

DirTyped == GoodDir(dir) /\ favs \subseteq DOMAIN dir

(***************************************************************************)
(* The invariant behind FavoritesConverge.                                 *)
(***************************************************************************)
\* What an event sets is what the server has, sf.
Brings(e, n, sf) ==
  /\ e.type = "directory" => (n \in DOMAIN e.dir => (n \in e.favs <=> sf[n]))
  /\ e.type = "favorite" => e.fav = sf[n]

\* Nothing has gone wrong with a node, or a directory on its way was copied since.
Healed(n) == n \notin apart \/ \E i \in DOMAIN cures : n \in cures[i]

\* There is at most one update of such a node to publish, and it is the last.
UpdateCurrent ==
  \A n \in Node : Healed(n) => \A r, q \in InHand(n) : r = q /\ r.fav = serverFav[n]

\* With none to publish, the last event about it is right.
FeedCurrent ==
  \A i \in DOMAIN feed : \A n \in Node :
    /\ Healed(n) /\ InHand(n) = {}
    /\ About(feed[i], n) /\ (\A j \in DOMAIN feed : j > i => ~About(feed[j], n))
    => Brings(feed[i], n, serverFav)

\* With no event about it under way either, so is the page.
PageCurrent ==
  \A n \in base \ apart :
    InHand(n) = {} /\ (\A i \in DOMAIN feed : ~About(feed[i], n)) => (n \in favs <=> serverFav[n])

\* The answer to a request will set what the server has.
AnswerCurrent ==
  \A r \in requests : r.state = "done" /\ r.node \notin apart => r.fav = serverFav[r.node]

FavIInv ==
  /\ ServerTyped /\ DirTyped
  /\ UpdateCurrent /\ FeedCurrent /\ PageCurrent /\ AnswerCurrent
  /\ base \subseteq DOMAIN dir

(***************************************************************************)
(* The directory under the events of the mesh.                             *)
(***************************************************************************)
\* A node heard: created if need be, without position or signal, and otherwise
\* as it was (app.js:724-730); the others stay (updateMapNode ... GoesOffline).
LEMMA HeardRight ==
  ASSUME GoodDir(dir), NEW n \in Node
  PROVE  /\ Heard(n) \in [DOMAIN dir \cup {n} -> Info]
         /\ \A k \in DOMAIN dir : k # n => Heard(n)[k] = dir[k]
         /\ n \in DOMAIN dir => /\ Heard(n)[n].pos = dir[n].pos
                                /\ Heard(n)[n].sig = dir[n].sig
         /\ n \notin DOMAIN dir => Heard(n)[n].pos = FALSE /\ Heard(n)[n].sig = FALSE
<1> DEFINE e == IF n \in DOMAIN dir THEN dir[n] ELSE Unknown
           h == [e EXCEPT !.seen = TRUE, !.online = TRUE]
<1>1. e \in Info
  BY DEF GoodDir, Unknown, Info
<1>2. h \in Info /\ h.pos = e.pos /\ h.sig = e.sig
  BY <1>1 DEF Info
<1>3. Heard(n) = [k \in DOMAIN dir \cup {n} |-> IF k = n THEN h ELSE dir[k]]
  BY DEF Heard
<1>4. n \notin DOMAIN dir => e.pos = FALSE /\ e.sig = FALSE
  BY DEF Unknown
<1> HIDE DEF h
<1>5. Heard(n) \in [DOMAIN dir \cup {n} -> Info]
  BY <1>2, <1>3 DEF GoodDir
<1>6. Heard(n)[n] = h /\ \A k \in DOMAIN dir : k # n => Heard(n)[k] = dir[k]
  BY <1>3
<1> QED
  BY <1>2, <1>4, <1>5, <1>6

\* A directory in which a field of one entry is changed is one.
LEMMA ChangedEntry ==
  ASSUME NEW D, NEW d \in [D -> Info], NEW n \in D, NEW b \in BOOLEAN, NEW r \in Role \cup {NoRole}
  PROVE  /\ [d EXCEPT ![n].pos = b] \in [D -> Info]
         /\ [d EXCEPT ![n].sig = b] \in [D -> Info]
         /\ [d EXCEPT ![n].online = b] \in [D -> Info]
         /\ [d EXCEPT ![n].role = IF r = NoRole THEN @ ELSE r] \in [D -> Info]
<1>1. d[n] \in Info
  OBVIOUS
<1>2. /\ [d[n] EXCEPT !.pos = b] \in Info
      /\ [d[n] EXCEPT !.sig = b] \in Info
      /\ [d[n] EXCEPT !.online = b] \in Info
      /\ [d[n] EXCEPT !.role = IF r = NoRole THEN @ ELSE r] \in Info
  BY <1>1 DEF Info
<1> QED
  BY <1>2

\* A mesh event adds at most its node to the directory and leaves the favourites,
\* the stream and the requests alone (app.js:666-813).
LEMMA MeshEventRight ==
  ASSUME DirTyped, steps \in 0 .. MaxSteps, MaxSteps \in Nat,
         NEW n \in Node,
         \/ updateMapNode(n) \/ updateNodeTelemetry(n) \/ updateNodeSignal(n)
         \/ \E r \in Role \cup {NoRole} : updateNodeInfo(n, r)
         \/ GoesOffline(n)
  PROVE  /\ GoodDir(dir') /\ DOMAIN dir \subseteq DOMAIN dir'
         /\ steps' \in 0 .. MaxSteps /\ UNCHANGED <<serverVars, favs>>
<1>1. GoodDir(dir)
  BY DEF DirTyped
<1> DEFINE D == DOMAIN dir \cup {n}
<1>2. Heard(n) \in [D -> Info]
  BY <1>1, HeardRight
<1>3. D \subseteq Node
  BY <1>1 DEF GoodDir
<1>4. ASSUME NEW d, MeshEvent(d), d \in [D -> Info]
      PROVE  /\ GoodDir(dir') /\ DOMAIN dir \subseteq DOMAIN dir'
             /\ steps' \in 0 .. MaxSteps /\ UNCHANGED <<serverVars, favs>>
  <2>1. dir' = d /\ DOMAIN d = D
    BY <1>4 DEF MeshEvent
  <2>2. steps' \in 0 .. MaxSteps /\ UNCHANGED <<serverVars, favs>>
    BY <1>4 DEF MeshEvent, Step
  <2> QED
    BY <1>3, <1>4, <2>1, <2>2 DEF GoodDir
<1>5. CASE updateMapNode(n)
  <2>1. [Heard(n) EXCEPT ![n].pos = TRUE] \in [D -> Info]
    BY <1>2, ChangedEntry
  <2> QED
    BY <1>4, <1>5, <2>1 DEF updateMapNode
<1>6. CASE updateNodeTelemetry(n)
  BY <1>2, <1>4, <1>6 DEF updateNodeTelemetry
<1>7. CASE updateNodeSignal(n)
  <2>1. [Heard(n) EXCEPT ![n].sig = TRUE] \in [D -> Info]
    BY <1>2, ChangedEntry
  <2> QED
    BY <1>4, <1>7, <2>1 DEF updateNodeSignal
<1>8. ASSUME NEW r \in Role \cup {NoRole}, updateNodeInfo(n, r)
      PROVE  /\ GoodDir(dir') /\ DOMAIN dir \subseteq DOMAIN dir'
             /\ steps' \in 0 .. MaxSteps /\ UNCHANGED <<serverVars, favs>>
  <2>1. [Heard(n) EXCEPT ![n].role = IF r = NoRole THEN @ ELSE r] \in [D -> Info]
    BY <1>2, ChangedEntry
  <2> QED
    BY <1>4, <1>8, <2>1 DEF updateNodeInfo
<1>9. CASE GoesOffline(n)
  <2>1. dir \in [DOMAIN dir -> Info] /\ n \in DOMAIN dir
    BY <1>1, <1>9 DEF GoodDir, GoesOffline
  <2>2. [dir EXCEPT ![n].online = FALSE] \in [DOMAIN dir -> Info]
    BY <2>1, ChangedEntry
  <2>3. dir' = [dir EXCEPT ![n].online = FALSE] /\ UNCHANGED <<serverVars, favs>>
    BY <1>9 DEF GoesOffline
  <2>4. steps' \in 0 .. MaxSteps
    BY <1>9 DEF GoesOffline, Step
  <2> QED
    BY <1>1, <2>2, <2>3, <2>4 DEF GoodDir
<1> QED
  BY <1>5, <1>6, <1>7, <1>8, <1>9

\* What is left of a step: the tabs and filters leave all of it as it is.
LEMMA UIStep ==
  ASSUME steps \in 0 .. MaxSteps, MaxSteps \in Nat,
         \/ \E t \in {"dashboard", "map", "nodes"} : switchTab(t)
         \/ RefreshTable \/ toggleNodesFilters \/ ToggleNodesOption \/ resetNodesFilters
         \/ \E r \in Role : handleRoleCheckbox(r) \/ RoleBoxChanged(r)
         \/ \E st \in {"all", "online", "offline"} : SetStatus(st)
         \/ ResetMapFilters \/ SetHeatmap
  PROVE  UNCHANGED <<serverVars, dirVars>> /\ steps' \in 0 .. MaxSteps
<1>1. ASSUME NEW t, switchTab(t) PROVE UNCHANGED <<serverVars, dirVars, steps>>
  BY <1>1 DEF switchTab
<1>2. CASE RefreshTable
  BY <1>2 DEF RefreshTable
<1>3. CASE toggleNodesFilters
  BY <1>3 DEF toggleNodesFilters, Step
<1>4. ASSUME NEW f, NEW bx, SetNodesFilter(f, bx)
      PROVE  UNCHANGED <<serverVars, dirVars>> /\ steps' \in 0 .. MaxSteps
  BY <1>4 DEF SetNodesFilter, Step
<1>5. ASSUME NEW cr, NEW bx, NEW st, SetMapFilter(cr, bx, st)
      PROVE  UNCHANGED <<serverVars, dirVars>> /\ steps' \in 0 .. MaxSteps
  BY <1>5 DEF SetMapFilter, Step
<1>6. CASE ToggleNodesOption \/ resetNodesFilters \/ \E r \in Role : handleRoleCheckbox(r)
  BY <1>4, <1>6 DEF ToggleNodesOption, resetNodesFilters, handleRoleCheckbox
<1>7. CASE \/ \E r \in Role : RoleBoxChanged(r)
           \/ \E st \in {"all", "online", "offline"} : SetStatus(st)
           \/ ResetMapFilters
  BY <1>5, <1>7 DEF RoleBoxChanged, SetStatus, ResetMapFilters
<1>8. CASE SetHeatmap
  BY <1>8 DEF SetHeatmap, Step
<1> QED
  BY <1>1, <1>2, <1>3, <1>6, <1>7, <1>8

(***************************************************************************)
(* Favourites.                                                             *)
(***************************************************************************)
\* The page starts with the favourites of the server: none.
LEMMA InitFav == Init => FavIInv
<1> SUFFICES ASSUME Init PROVE FavIInv
  OBVIOUS
<1>1. ServerTyped
  BY NodesAssumption DEF Init, ServerTyped
<1>2. DirTyped
  BY NodesAssumption DEF Init, DirTyped, GoodDir
<1>3. UpdateCurrent /\ FeedCurrent
  BY DEF Init, UpdateCurrent, FeedCurrent, InHand
<1>4. PageCurrent /\ AnswerCurrent
  BY NodesAssumption DEF Init, PageCurrent, AnswerCurrent
<1> QED
  BY <1>1, <1>2, <1>3, <1>4 DEF Init, FavIInv

\* Nodes put apart are not healed by any directory on its way; the others are as
\* they were (SetFavorite, SetNodeDirectory, publish).
LEMMA PutApartRight ==
  ASSUME cures \in Seq(SUBSET Node), apart \subseteq Node, NEW S \in SUBSET Node, PutApart(S)
  PROVE  /\ cures' \in Seq(SUBSET Node) /\ Len(cures') = Len(cures)
         /\ apart \subseteq apart' /\ apart' \subseteq Node /\ S \subseteq apart'
         /\ \A n \in S : ~Healed(n)'
         /\ \A n : n \notin S => (Healed(n)' <=> Healed(n))
<1>1. /\ apart' = apart \cup S
      /\ cures' = [i \in DOMAIN cures |-> cures[i] \ S]
  BY DEF PutApart
<1>2. DOMAIN cures = 1 .. Len(cures) /\ Len(cures) \in Nat
  OBVIOUS
<1>3. /\ DOMAIN cures' = DOMAIN cures
      /\ \A i \in DOMAIN cures : cures'[i] = cures[i] \ S /\ cures'[i] \in SUBSET Node
  BY <1>1
<1>4. cures' \in Seq(SUBSET Node) /\ Len(cures') = Len(cures)
  BY <1>1, <1>2, <1>3
<1>5. /\ \A n \in S : ~Healed(n)'
      /\ \A n : n \notin S => (Healed(n)' <=> Healed(n))
  BY <1>1, <1>3 DEF Healed
<1> QED
  BY <1>1, <1>4, <1>5

\* The flag half of SetFavorite (node_directory.go:209-218): the update is the only
\* one of its node to publish and no answer is under way, or the node is put apart.
LEMMA SetFavoriteRight ==
  ASSUME FavIInv, NEW n \in Node, NEW b \in BOOLEAN, SetFavorite(n, b),
         UNCHANGED <<feed, base, dirVars>>, steps' \in 0 .. MaxSteps,
         NEW q \in Request, q.node = n, q.fav = b, q.state = "set",
         NEW R \in SUBSET requests, \A r \in requests : r.state # "sent" => r \in R,
         requests' = R \cup {q}
  PROVE  FavIInv'
<1>0. ServerTyped /\ UpdateCurrent /\ FeedCurrent /\ PageCurrent /\ AnswerCurrent
  BY DEF FavIInv
<1>1. /\ serverFav \in [Node -> BOOLEAN]
      /\ serverFav' = [serverFav EXCEPT ![n] = b]
      /\ serverFav'[n] = b /\ \A k \in Node : k # n => serverFav'[k] = serverFav[k]
  BY <1>0 DEF ServerTyped, SetFavorite
<1>2. InHand(n)' = InHand(n) \cup {q} /\ \A k : k # n => InHand(k)' = InHand(k)
  BY DEF InHand
<1>3. /\ apart \subseteq apart' /\ apart' \subseteq Node
      /\ cures' \in Seq(SUBSET Node) /\ Len(cures') = Len(cures)
      /\ \A k : k # n => (Healed(k)' <=> Healed(k))
      /\ Healed(n)' => InHand(n) = {} /\ Unanswered(n) = {}
  <2>1. CASE InHand(n) \cup Unanswered(n) # {}
    <3>1. PutApart({n}) /\ {n} \in SUBSET Node
      BY <2>1 DEF SetFavorite
    <3> QED
      BY <1>0, <3>1, PutApartRight DEF ServerTyped
  <2>2. CASE InHand(n) \cup Unanswered(n) = {}
    <3>1. UNCHANGED <<apart, cures>>
      BY <2>2 DEF SetFavorite
    <3> QED
      BY <1>0, <2>2, <3>1 DEF ServerTyped, Healed
  <2> QED
    BY <2>1, <2>2
<1>4. ServerTyped'
  BY <1>0, <1>1, <1>3 DEF ServerTyped
<1>5. UpdateCurrent'
  <2> SUFFICES ASSUME NEW k \in Node, Healed(k)', NEW r \in InHand(k)', NEW s \in InHand(k)'
               PROVE  r = s /\ r.fav = serverFav'[k]
    BY DEF UpdateCurrent
  <2>1. CASE k = n
    BY <1>1, <1>2, <1>3, <2>1
  <2>2. CASE k # n
    BY <1>0, <1>1, <1>2, <1>3, <2>2 DEF UpdateCurrent
  <2> QED
    BY <2>1, <2>2
<1>6. FeedCurrent'
  <2> SUFFICES ASSUME NEW i \in DOMAIN feed, NEW k \in Node, Healed(k)', InHand(k)' = {},
                      About(feed[i], k), \A j \in DOMAIN feed : j > i => ~About(feed[j], k)
               PROVE  Brings(feed[i], k, serverFav')
    BY DEF FeedCurrent, About
  <2>1. k # n
    BY <1>2
  <2>2. Brings(feed[i], k, serverFav)
    BY <1>0, <1>2, <1>3, <2>1 DEF FeedCurrent
  <2> QED
    BY <1>1, <2>1, <2>2 DEF Brings
<1>7. PageCurrent'
  <2> SUFFICES ASSUME NEW k \in base \ apart', InHand(k)' = {}, \A i \in DOMAIN feed : ~About(feed[i], k)
               PROVE  k \in favs <=> serverFav'[k]
    BY DEF PageCurrent, About, dirVars
  <2>1. k # n /\ k \in Node
    BY <1>0, <1>2 DEF ServerTyped
  <2>2. k \in favs <=> serverFav[k]
    BY <1>0, <1>2, <1>3, <2>1 DEF PageCurrent
  <2> QED
    BY <1>1, <2>1, <2>2
<1>8. AnswerCurrent'
  <2> SUFFICES ASSUME NEW r \in requests', r.state = "done", r.node \notin apart'
               PROVE  r.fav = serverFav'[r.node]
    BY DEF AnswerCurrent
  <2>1. r \in requests /\ r.node \in Node /\ r.node \notin apart
    BY <1>0, <1>3 DEF ServerTyped, Request
  <2>2. r.node # n
    BY <1>3, <2>1 DEF Healed, Unanswered
  <2> QED
    BY <1>0, <1>1, <2>1, <2>2 DEF AnswerCurrent
<1>9. DirTyped' /\ base' \subseteq DOMAIN dir'
  BY DEF FavIInv, DirTyped, dirVars
<1> QED
  BY <1>4, <1>5, <1>6, <1>7, <1>8, <1>9 DEF FavIInv

\* The event half (node_directory.go:220-224): an update that is the only one of its
\* node to publish brings what the server has; a dropped one puts its node apart.
LEMMA PublishRight ==
  ASSUME FavIInv, NEW r \in requests, publish(r)
  PROVE  FavIInv'
<1> DEFINE n == r.node
           p == [r EXCEPT !.state = "done"]
<1>0. ServerTyped /\ UpdateCurrent /\ FeedCurrent /\ PageCurrent /\ AnswerCurrent
  BY DEF FavIInv
<1>1. /\ r \in Request /\ r.state = "set" /\ n \in Node /\ r \in InHand(n)
      /\ p \in Request /\ p.node = n /\ p.fav = r.fav /\ p.state = "done"
  BY <1>0 DEF ServerTyped, Request, publish, InHand
<1>2. /\ requests' = (requests \ {r}) \cup (IF r.by = "page" THEN {p} ELSE {})
      /\ UNCHANGED <<serverFav, base, steps, dir, favs>>
  BY DEF publish, dirVars
<1> HIDE DEF p
<1>3. requests' \subseteq Request /\ requests' \subseteq requests \cup {p}
  BY <1>0, <1>1, <1>2 DEF ServerTyped
<1>4. InHand(n)' = InHand(n) \ {r} /\ \A k : k # n => InHand(k)' = InHand(k)
  BY <1>1, <1>2 DEF InHand
<1>5. Healed(n) => InHand(n) = {r} /\ r.fav = serverFav[n]
  BY <1>0, <1>1 DEF UpdateCurrent
<1>6. DirTyped' /\ base' \subseteq DOMAIN dir'
  BY <1>2 DEF FavIInv, DirTyped
<1>7. CASE /\ feed' = Append(feed, FavEvent(n, r.fav)) /\ cures' = Append(cures, {})
           /\ apart' = apart
  <2> DEFINE e == FavEvent(n, r.fav)
  <2>1. e \in Event /\ e.type = "favorite" /\ \A k : About(e, k) <=> k = n
    BY <1>1 DEF FavEvent, Event, About, Request
  <2> HIDE DEF e
  <2>2. /\ Len(feed) \in Nat /\ DOMAIN feed = 1 .. Len(feed)
        /\ DOMAIN feed' = 1 .. Len(feed) + 1 /\ feed'[Len(feed) + 1] = e
        /\ feed' \in Seq(Event) /\ \A i \in DOMAIN feed : feed'[i] = feed[i]
    BY <1>0, <1>7, <2>1 DEF ServerTyped, e
  <2>3. /\ cures' \in Seq(SUBSET Node) /\ Len(cures') = Len(feed')
        /\ DOMAIN cures = 1 .. Len(cures) /\ DOMAIN cures' = 1 .. Len(cures) + 1
        /\ cures'[Len(cures) + 1] = {} /\ \A i \in DOMAIN cures : cures'[i] = cures[i]
    BY <1>0, <1>7, <2>2 DEF ServerTyped
  <2>4. \A k : Healed(k)' <=> Healed(k)
    BY <1>0, <1>7, <2>3 DEF Healed, ServerTyped
  <2>5. ServerTyped'
    BY <1>0, <1>2, <1>3, <1>7, <2>2, <2>3 DEF ServerTyped
  <2>6. UpdateCurrent'
    BY <1>0, <1>2, <1>4, <2>4 DEF UpdateCurrent
  <2>7. FeedCurrent'
    <3> SUFFICES ASSUME NEW i \in DOMAIN feed', NEW k \in Node, Healed(k)', InHand(k)' = {},
                        About(feed'[i], k), \A j \in DOMAIN feed' : j > i => ~About(feed'[j], k)
                 PROVE  Brings(feed'[i], k, serverFav)
      BY <1>2 DEF FeedCurrent, About, Brings
    <3>1. CASE i = Len(feed) + 1
      <4>1. k = n /\ feed'[i] = e
        BY <2>1, <2>2, <3>1
      <4> QED
        BY <1>5, <2>1, <2>4, <4>1 DEF Brings, e, FavEvent
    <3>2. CASE i # Len(feed) + 1
      <4>1. i \in DOMAIN feed /\ Len(feed) + 1 > i
        BY <2>2, <3>2
      <4>2. k # n
        BY <2>1, <2>2, <4>1
      <4>3. \A j \in DOMAIN feed : j > i => ~About(feed[j], k)
        BY <2>2
      <4> QED
        BY <1>0, <1>4, <2>2, <2>4, <4>1, <4>2, <4>3 DEF FeedCurrent
    <3> QED
      BY <3>1, <3>2
  <2>8. PageCurrent'
    <3> SUFFICES ASSUME NEW k \in base \ apart, InHand(k)' = {}, \A i \in DOMAIN feed' : ~About(feed'[i], k)
                 PROVE  k \in favs <=> serverFav[k]
      BY <1>2, <1>7 DEF PageCurrent, About
    <3>1. k # n
      BY <2>1, <2>2
    <3>2. \A i \in DOMAIN feed : ~About(feed[i], k)
      BY <2>2
    <3> QED
      BY <1>0, <1>4, <3>1, <3>2 DEF PageCurrent
  <2>9. AnswerCurrent'
    <3> SUFFICES ASSUME NEW s \in requests', s.state = "done", s.node \notin apart
                 PROVE  s.fav = serverFav[s.node]
      BY <1>2, <1>7 DEF AnswerCurrent
    <3>1. CASE s = p
      BY <1>1, <1>5, <3>1 DEF Healed
    <3>2. CASE s \in requests
      BY <1>0, <3>2 DEF AnswerCurrent
    <3> QED
      BY <1>3, <3>1, <3>2
  <2> QED
    BY <1>6, <2>5, <2>6, <2>7, <2>8, <2>9 DEF FavIInv
<1>8. CASE PutApart({n}) /\ feed' = feed
  <2>1. /\ cures' \in Seq(SUBSET Node) /\ Len(cures') = Len(cures)
        /\ apart \subseteq apart' /\ apart' \subseteq Node
        /\ ~Healed(n)' /\ \A k : k # n => (Healed(k)' <=> Healed(k))
    <3>1. {n} \in SUBSET Node
      BY <1>1
    <3> QED
      BY <1>0, <1>8, <3>1, PutApartRight DEF ServerTyped
  <2>2. ServerTyped'
    BY <1>0, <1>2, <1>3, <1>8, <2>1 DEF ServerTyped
  <2>3. UpdateCurrent'
    BY <1>0, <1>2, <1>4, <2>1 DEF UpdateCurrent
  <2>4. FeedCurrent'
    <3> SUFFICES ASSUME NEW i \in DOMAIN feed, NEW k \in Node, Healed(k)', InHand(k)' = {},
                        About(feed[i], k), \A j \in DOMAIN feed : j > i => ~About(feed[j], k)
                 PROVE  Brings(feed[i], k, serverFav)
      BY <1>2, <1>8 DEF FeedCurrent, About, Brings
    <3> QED
      BY <1>0, <1>4, <2>1 DEF FeedCurrent
  <2>5. PageCurrent'
    <3> SUFFICES ASSUME NEW k \in base \ apart', InHand(k)' = {}, \A i \in DOMAIN feed : ~About(feed[i], k)
                 PROVE  k \in favs <=> serverFav[k]
      BY <1>2, <1>8 DEF PageCurrent, About
    <3>1. k # n /\ k \notin apart
      BY <2>1 DEF Healed
    <3> QED
      BY <1>0, <1>4, <3>1 DEF PageCurrent
  <2>6. AnswerCurrent'
    <3> SUFFICES ASSUME NEW s \in requests', s.state = "done", s.node \notin apart'
                 PROVE  s.fav = serverFav[s.node]
      BY <1>2 DEF AnswerCurrent
    <3>1. s.node # n
      BY <2>1 DEF Healed
    <3>2. s \in requests
      BY <1>1, <1>3, <3>1
    <3> QED
      BY <1>0, <2>1, <3>2 DEF AnswerCurrent
  <2> QED
    BY <1>6, <2>2, <2>3, <2>4, <2>5, <2>6 DEF FavIInv
<1> QED
  BY <1>7, <1>8 DEF publish

\* What is left of a sequence without its first k elements, behind a new first one
\* (NewStream).
LEMMA NewFront ==
  ASSUME NEW S, NEW s \in Seq(S), NEW k \in 0 .. Len(s), NEW x \in S
  PROVE  /\ DOMAIN SubSeq(s, k + 1, Len(s)) = 1 .. Len(s) - k
         /\ \A i \in 1 .. Len(s) - k : SubSeq(s, k + 1, Len(s))[i] = s[k + i]
         /\ <<x>> \o SubSeq(s, k + 1, Len(s)) \in Seq(S)
         /\ Len(<<x>> \o SubSeq(s, k + 1, Len(s))) = Len(s) - k + 1
         /\ DOMAIN (<<x>> \o SubSeq(s, k + 1, Len(s))) = 1 .. Len(s) - k + 1
         /\ (<<x>> \o SubSeq(s, k + 1, Len(s)))[1] = x
         /\ \A i \in 2 .. Len(s) - k + 1 : (<<x>> \o SubSeq(s, k + 1, Len(s)))[i] = s[k + i - 1]
<1>0. PICK N \in Nat : N = Len(s)
  OBVIOUS
<1> DEFINE t == SubSeq(s, k + 1, N)
           u == <<x>> \o t
           L == N - k
<1>1. k \in Nat /\ k <= N /\ L \in Nat /\ N - (k + 1) + 1 = L
  BY <1>0
<1>2. t \in Seq(S) /\ Len(t) = L /\ \A i \in 1 .. L : t[i] = s[k + i]
  <2>1. k + 1 \in Int /\ N \in Int /\ \A i \in k + 1 .. N : s[i] \in S
    BY <1>0, <1>1
  <2>2. /\ t \in Seq(S)
        /\ Len(t) = IF k + 1 <= N THEN N - (k + 1) + 1 ELSE 0
        /\ \A i \in 1 .. N - (k + 1) + 1 : t[i] = s[k + 1 + i - 1]
    BY <2>1, SubSeqProperties
  <2> HIDE DEF t
  <2>3. Len(t) = L
    BY <1>1, <2>2
  <2>4. ASSUME NEW i \in 1 .. L PROVE t[i] = s[k + i]
    <3>1. k + 1 + i - 1 = k + i
      BY <1>1
    <3> QED
      BY <1>1, <2>2, <3>1
  <2> QED
    BY <2>2, <2>3, <2>4
<1> HIDE DEF t
<1> DEFINE f == <<x>>
<1>3. f \in Seq(S) /\ Len(f) = 1 /\ f[1] = x
  OBVIOUS
<1> HIDE DEF f
<1>4. /\ u \in Seq(S) /\ Len(u) = 1 + L
      /\ \A i \in 1 .. 1 + L : u[i] = IF i <= 1 THEN f[i] ELSE t[i - 1]
  <2>1. /\ f \o t \in Seq(S) /\ Len(f \o t) = Len(f) + Len(t)
        /\ \A i \in 1 .. Len(f) + Len(t) : (f \o t)[i] = IF i <= Len(f) THEN f[i] ELSE t[i - Len(f)]
    BY <1>2, <1>3, ConcatProperties
  <2>2. u = f \o t
    BY DEF f
  <2> HIDE DEF u
  <2> QED
    BY <1>2, <1>3, <2>1, <2>2
<1> HIDE DEF u
<1>5. u[1] = x
  BY <1>1, <1>3, <1>4
<1>6. ASSUME NEW i \in 2 .. L + 1 PROVE u[i] = s[k + i - 1]
  <2>1. i \in 1 .. 1 + L /\ ~(i <= 1) /\ i - 1 \in 1 .. L /\ k + (i - 1) = k + i - 1
    BY <1>1
  <2>2. u[i] = t[i - 1]
    BY <1>4, <2>1
  <2>3. t[i - 1] = s[k + (i - 1)]
    BY <1>2, <2>1
  <2> QED
    BY <2>1, <2>2, <2>3
<1>7. DOMAIN t = 1 .. L /\ Len(u) = L + 1 /\ DOMAIN u = 1 .. L + 1
  BY <1>1, <1>2, <1>4
<1> QED
  BY <1>0, <1>2, <1>4, <1>5, <1>6, <1>7, Zenon DEF t, u

\* A directory copied now (server.go:499-501) brings what the server has of every
\* node; at the front of a new stream it does so for those it cures, and the events
\* behind it are the last of what was on its way.
LEMMA CopyRight ==
  ASSUME FavIInv, NEW d \in Directories, NEW k \in 0 .. Len(feed),
         NEW c \in SUBSET Node,
         \A n \in c : InHand(n) = {} /\ \A i \in DOMAIN feed : i > k => ~About(feed[i], n),
         feed' = <<DirectoryEvent(d, serverFav)>> \o SubSeq(feed, k + 1, Len(feed)),
         cures' = <<c>> \o SubSeq(cures, k + 1, Len(cures)),
         UNCHANGED <<serverFav, requests, apart, base, dirVars>>, steps' \in 0 .. MaxSteps
  PROVE  FavIInv'
<1> DEFINE e == DirectoryEvent(d, serverFav)
<1>0. ServerTyped /\ UpdateCurrent /\ FeedCurrent /\ PageCurrent /\ AnswerCurrent
  BY DEF FavIInv
<1>1. e \in Event /\ e.type = "directory" /\ \A n \in Node : About(e, n) /\ Brings(e, n, serverFav)
  BY NodesAssumption DEF DirectoryEvent, Event, About, Brings
<1> HIDE DEF e
<1> DEFINE L == Len(feed) - k
<1>2. /\ k \in Nat /\ Len(feed) \in Nat /\ L \in Nat /\ DOMAIN feed = 1 .. Len(feed)
      /\ feed \in Seq(Event) /\ cures \in Seq(SUBSET Node) /\ Len(cures) = Len(feed)
      /\ DOMAIN cures = 1 .. Len(feed)
  BY <1>0 DEF ServerTyped
<1>4. /\ feed' \in Seq(Event) /\ Len(feed') = L + 1 /\ DOMAIN feed' = 1 .. L + 1 /\ feed'[1] = e
      /\ \A i \in 2 .. L + 1 : feed'[i] = feed[k + i - 1]
  BY <1>1, <1>2, NewFront DEF e
<1>5. /\ cures' \in Seq(SUBSET Node) /\ Len(cures') = L + 1 /\ DOMAIN cures' = 1 .. L + 1
      /\ cures'[1] = c
      /\ \A i \in 2 .. L + 1 : cures'[i] = cures[k + i - 1]
  <2>1. k \in 0 .. Len(cures) /\ Len(cures) - k = L
    BY <1>2
  <2> DEFINE S == SUBSET Node
             u == <<c>> \o SubSeq(cures, k + 1, Len(cures))
  <2>2. c \in S /\ cures \in Seq(S)
    BY <1>2
  <2> HIDE DEF S
  <2>3. /\ u \in Seq(S) /\ Len(u) = Len(cures) - k + 1 /\ DOMAIN u = 1 .. Len(cures) - k + 1
        /\ u[1] = c
        /\ \A i \in 2 .. Len(cures) - k + 1 : u[i] = cures[k + i - 1]
    BY <2>1, <2>2, NewFront
  <2>4. cures' = u
    OBVIOUS
  <2> HIDE DEF u
  <2> QED
    BY <2>1, <2>3, <2>4 DEF S
<1>6. \A i \in 2 .. L + 1 : /\ k + i - 1 \in DOMAIN feed /\ feed'[i] = feed[k + i - 1]
                            /\ k + i - 1 \in DOMAIN cures /\ cures'[i] = cures[k + i - 1]
                            /\ k + i - 1 > k /\ k + i - 1 \in Nat
  <2> SUFFICES ASSUME NEW i \in 2 .. L + 1
               PROVE  /\ k + i - 1 \in 1 .. Len(feed) /\ k + i - 1 > k /\ k + i - 1 \in Nat
    BY <1>2, <1>4, <1>5
  <2> QED
    BY <1>2
<1>7. \A j \in DOMAIN feed : j > k => j - k + 1 \in 2 .. L + 1 /\ feed'[j - k + 1] = feed[j]
  <2> SUFFICES ASSUME NEW j \in DOMAIN feed, j > k
               PROVE  j - k + 1 \in 2 .. L + 1 /\ feed'[j - k + 1] = feed[j]
    OBVIOUS
  <2>1. j - k + 1 \in 2 .. L + 1 /\ k + (j - k + 1) - 1 = j
    BY <1>2
  <2> QED
    BY <1>6, <2>1
<1>8. \A n : InHand(n)' = InHand(n)
  BY DEF InHand
<1>9. ASSUME NEW n \in Node, Healed(n)' PROVE Healed(n) \/ n \in c
  <2>1. CASE n \notin apart
    BY <2>1 DEF Healed
  <2>2. CASE n \in apart
    <3>1. PICK i \in DOMAIN cures' : n \in cures'[i]
      BY <1>9, <2>2 DEF Healed
    <3>2. CASE i = 1
      BY <1>5, <3>1, <3>2
    <3>3. CASE i # 1
      <4>1. i \in 2 .. L + 1
        BY <1>2, <1>5, <3>1, <3>3
      <4>2. k + i - 1 \in DOMAIN cures /\ n \in cures[k + i - 1]
        BY <1>6, <3>1, <4>1
      <4> QED
        BY <4>2 DEF Healed
    <3> QED
      BY <3>2, <3>3
  <2> QED
    BY <2>1, <2>2
<1>10. ServerTyped' /\ DirTyped' /\ base' \subseteq DOMAIN dir'
  BY <1>0, <1>4, <1>5 DEF ServerTyped, FavIInv, DirTyped, dirVars
<1>11. UpdateCurrent'
  BY <1>0, <1>8, <1>9 DEF UpdateCurrent
<1>12. FeedCurrent'
  <2> SUFFICES ASSUME NEW i \in DOMAIN feed', NEW n \in Node, Healed(n)', InHand(n)' = {},
                      About(feed'[i], n), \A j \in DOMAIN feed' : j > i => ~About(feed'[j], n)
               PROVE  Brings(feed'[i], n, serverFav)
    BY DEF FeedCurrent, About, Brings
  <2>1. CASE i = 1
    BY <1>1, <1>4, <2>1
  <2>2. CASE i # 1
    <3>1. i \in 2 .. L + 1
      BY <1>2, <1>4, <2>2
    <3>2. k + i - 1 \in DOMAIN feed /\ feed'[i] = feed[k + i - 1] /\ k + i - 1 > k
      BY <1>6, <3>1
    <3>3. n \notin c
      BY <3>2
    <3>4. Healed(n)
      BY <1>9, <3>3
    <3>5. ASSUME NEW j \in DOMAIN feed, j > k + i - 1 PROVE ~About(feed[j], n)
      <4>1. j > k /\ j - k + 1 > i
        BY <1>2, <3>1, <3>5
      <4>2. j - k + 1 \in 2 .. L + 1 /\ feed'[j - k + 1] = feed[j]
        BY <1>7, <4>1
      <4>3. j - k + 1 \in DOMAIN feed'
        BY <1>2, <1>4, <4>2
      <4>4. ~About(feed'[j - k + 1], n)
        BY <4>1, <4>3
      <4> QED
        BY <4>2, <4>4
    <3> QED
      BY <1>0, <1>8, <3>2, <3>4, <3>5 DEF FeedCurrent
  <2> QED
    BY <2>1, <2>2
<1>13. PageCurrent'
  <2>1. base \subseteq Node /\ 1 \in DOMAIN feed'
    BY <1>0, <1>2, <1>4 DEF ServerTyped
  <2>2. \A n \in base : About(feed'[1], n)
    BY <1>1, <1>4, <2>1
  <2> QED
    BY <2>1, <2>2 DEF PageCurrent, About
<1>14. AnswerCurrent'
  BY <1>0 DEF AnswerCurrent
<1> QED
  BY <1>10, <1>11, <1>12, <1>13, <1>14 DEF FavIInv

\* SetNodeDirectory (node_directory.go:14-33): a directory that is published brings
\* every flag it has changed, but to nodes with an older update in hand or an older
\* answer under way; one that is dropped leaves the page without them.
LEMMA SwapRight ==
  ASSUME FavIInv, NEW d \in Directories, ServerSendsDirectory(d)
  PROVE  FavIInv'
<1> DEFINE F == KeptFlags(d)
           e == DirectoryEvent(d, F)
           O == Overtaken(F)
           C == {n \in Node : F[n] # serverFav[n]}
<1> USE NodesAssumption
<1>0. ServerTyped /\ DirTyped /\ UpdateCurrent /\ FeedCurrent /\ PageCurrent /\ AnswerCurrent
  BY DEF FavIInv
<1>1. F \in [Node -> BOOLEAN] /\ e \in Event /\ \A n \in Node : About(e, n) /\ Brings(e, n, F)
  BY <1>0 DEF KeptFlags, DirectoryEvent, Event, About, Brings, ServerTyped
<1>2. /\ O \subseteq C /\ C \subseteq Node
      /\ \A n \in C \ O : InHand(n) = {} /\ Unanswered(n) = {}
      /\ \A n \in Node \ C : F[n] = serverFav[n]
  BY DEF Overtaken
<1>3. /\ serverFav' = F /\ steps' \in 0 .. MaxSteps
      /\ UNCHANGED <<requests, base, dir, favs>>
      /\ \/ /\ feed' = Append(feed, e) /\ apart' = apart \cup O
            /\ cures' = Append([i \in DOMAIN cures |-> cures[i] \ O], Cured(apart', <<>>))
         \/ PutApart(C) /\ UNCHANGED feed
  <2>1. steps' \in 0 .. MaxSteps
    BY <1>0 DEF ServerSendsDirectory, Step, ServerTyped
  <2>2. UNCHANGED <<requests, base, dir, favs>>
    BY DEF ServerSendsDirectory, dirVars
  <2> QED
    BY <2>1, <2>2, Zenon DEF ServerSendsDirectory
<1> HIDE DEF F, e, O, C
<1>4. /\ \A n : InHand(n)' = InHand(n)
      /\ DirTyped' /\ base' \subseteq DOMAIN dir'
  BY <1>0, <1>3 DEF InHand, FavIInv, DirTyped
<1>5. CASE PutApart(C) /\ UNCHANGED feed
  <2>1. /\ cures' \in Seq(SUBSET Node) /\ Len(cures') = Len(cures)
        /\ apart \subseteq apart' /\ apart' \subseteq Node /\ C \subseteq apart'
        /\ \A n \in C : ~Healed(n)'
        /\ \A n : n \notin C => (Healed(n)' <=> Healed(n))
    BY <1>0, <1>2, <1>5, PutApartRight DEF ServerTyped
  <2>2. ServerTyped'
    BY <1>0, <1>1, <1>3, <1>5, <2>1 DEF ServerTyped
  <2>3. UpdateCurrent'
    BY <1>0, <1>2, <1>3, <1>4, <2>1 DEF UpdateCurrent
  <2>4. FeedCurrent'
    <3> SUFFICES ASSUME NEW i \in DOMAIN feed, NEW k \in Node, Healed(k)', InHand(k)' = {},
                        About(feed[i], k), \A j \in DOMAIN feed : j > i => ~About(feed[j], k)
                 PROVE  Brings(feed[i], k, F)
      BY <1>3, <1>5 DEF FeedCurrent, About, Brings
    <3>1. k \notin C /\ Brings(feed[i], k, serverFav)
      BY <1>0, <1>4, <2>1 DEF FeedCurrent
    <3> QED
      BY <1>2, <3>1 DEF Brings
  <2>5. PageCurrent'
    <3> SUFFICES ASSUME NEW k \in base \ apart', InHand(k)' = {}, \A i \in DOMAIN feed : ~About(feed[i], k)
                 PROVE  k \in favs <=> F[k]
      BY <1>3, <1>5 DEF PageCurrent, About
    <3>1. k \in Node \ C /\ k \notin apart
      BY <1>0, <2>1 DEF ServerTyped
    <3> QED
      BY <1>0, <1>2, <1>4, <3>1 DEF PageCurrent
  <2>6. AnswerCurrent'
    <3> SUFFICES ASSUME NEW r \in requests, r.state = "done", r.node \notin apart'
                 PROVE  r.fav = F[r.node]
      BY <1>3 DEF AnswerCurrent
    <3>1. r.node \in Node \ C /\ r.node \notin apart
      BY <1>0, <2>1 DEF ServerTyped, Request
    <3> QED
      BY <1>0, <1>2, <3>1 DEF AnswerCurrent
  <2> QED
    BY <1>4, <2>2, <2>3, <2>4, <2>5, <2>6 DEF FavIInv
<1>6. CASE /\ feed' = Append(feed, e) /\ apart' = apart \cup O
           /\ cures' = Append([i \in DOMAIN cures |-> cures[i] \ O], Cured(apart', <<>>))
  <2> DEFINE A == Cured(apart', <<>>)
             cs == [i \in DOMAIN cures |-> cures[i] \ O]
  <2>1. /\ A \in SUBSET Node /\ \A n \in A : InHand(n) = {}
        /\ apart \subseteq apart' /\ apart' \subseteq Node /\ O \subseteq apart'
    BY <1>0, <1>2, <1>6 DEF Cured, ServerTyped
  <2>2. /\ Len(feed) \in Nat /\ DOMAIN feed = 1 .. Len(feed) /\ feed' \in Seq(Event)
        /\ Len(feed') = Len(feed) + 1
        /\ DOMAIN feed' = 1 .. Len(feed) + 1 /\ feed'[Len(feed) + 1] = e
    BY <1>0, <1>1, <1>6 DEF ServerTyped
  <2>3. /\ cs \in Seq(SUBSET Node) /\ Len(cs) = Len(cures)
        /\ DOMAIN cures = 1 .. Len(cures) /\ Len(cures) = Len(feed)
        /\ \A i \in DOMAIN cures : cs[i] = cures[i] \ O
    BY <1>0 DEF ServerTyped
  <2> HIDE DEF cs, A
  <2>4. cures' = Append(cs, A)
    BY <1>6 DEF cs, A
  <2>5. /\ cures' \in Seq(SUBSET Node) /\ Len(cures') = Len(feed')
        /\ DOMAIN cures' = 1 .. Len(cures) + 1
        /\ cures'[Len(cures) + 1] = A /\ \A i \in DOMAIN cures : cures'[i] = cures[i] \ O
    BY <2>1, <2>2, <2>3, <2>4
  <2>6. ASSUME NEW n \in Node, Healed(n)' PROVE (Healed(n) /\ n \notin O) \/ InHand(n) = {}
    <3>1. CASE n \notin apart'
      BY <2>1, <3>1 DEF Healed
    <3>2. CASE n \in apart'
      <4>1. PICK i \in DOMAIN cures' : n \in cures'[i]
        BY <2>6, <3>2 DEF Healed
      <4>2. CASE i = Len(cures) + 1
        BY <2>1, <2>5, <4>1, <4>2
      <4>3. CASE i # Len(cures) + 1
        BY <2>2, <2>3, <2>5, <4>1, <4>3 DEF Healed
      <4> QED
        BY <4>2, <4>3
    <3> QED
      BY <3>1, <3>2
  <2>7. ServerTyped'
    BY <1>0, <1>1, <1>3, <2>1, <2>2, <2>5 DEF ServerTyped
  <2>8. UpdateCurrent'
    <3> SUFFICES ASSUME NEW k \in Node, Healed(k)', NEW r \in InHand(k), NEW q \in InHand(k)
                 PROVE  r = q /\ r.fav = F[k]
      BY <1>3, <1>4 DEF UpdateCurrent
    <3>1. Healed(k) /\ k \notin O
      BY <2>6
    <3>2. k \notin C
      BY <1>2, <3>1
    <3> QED
      BY <1>0, <1>2, <3>1, <3>2 DEF UpdateCurrent
  <2>9. FeedCurrent'
    <3> SUFFICES ASSUME NEW i \in DOMAIN feed', NEW k \in Node, About(feed'[i], k),
                        \A j \in DOMAIN feed' : j > i => ~About(feed'[j], k)
                 PROVE  Brings(feed'[i], k, F)
      BY <1>3 DEF FeedCurrent, About, Brings
    <3>1. i = Len(feed) + 1
      BY <1>1, <2>2
    <3> QED
      BY <1>1, <2>2, <3>1
  <2>10. PageCurrent'
    <3>1. \A k \in base : About(feed'[Len(feed) + 1], k) /\ Len(feed) + 1 \in DOMAIN feed'
      BY <1>0, <1>1, <2>2 DEF ServerTyped
    <3> QED
      BY <1>3, <3>1 DEF PageCurrent, About
  <2>11. AnswerCurrent'
    <3> SUFFICES ASSUME NEW r \in requests, r.state = "done", r.node \notin apart'
                 PROVE  r.fav = F[r.node]
      BY <1>3 DEF AnswerCurrent
    <3>1. r.node \in Node /\ r.node \notin apart /\ r.node \notin O /\ r \in Unanswered(r.node)
      BY <1>0, <2>1 DEF ServerTyped, Request, Unanswered
    <3>2. r.node \notin C
      BY <1>2, <3>1
    <3> QED
      BY <1>0, <1>2, <3>1, <3>2 DEF AnswerCurrent
  <2> QED
    BY <1>4, <2>7, <2>8, <2>9, <2>10, <2>11 DEF FavIInv
<1> QED
  BY <1>3, <1>5, <1>6

\* Every step of the specification keeps it.
LEMMA StepFav == FavIInv /\ [Next]_vars => FavIInv'
<1> SUFFICES ASSUME FavIInv, [Next]_vars PROVE FavIInv'
  OBVIOUS
<1> USE NodesAssumption
<1>0. /\ ServerTyped /\ DirTyped
      /\ UpdateCurrent /\ FeedCurrent /\ PageCurrent /\ AnswerCurrent
      /\ base \subseteq DOMAIN dir
  BY DEF FavIInv
<1>1. ASSUME UNCHANGED <<serverVars, favs>>, steps' \in 0 .. MaxSteps,
             GoodDir(dir'), DOMAIN dir \subseteq DOMAIN dir'
      PROVE  FavIInv'
  <2>1. UNCHANGED <<serverFav, feed, requests, apart, cures, base, favs>>
    BY <1>1 DEF serverVars, pageDebt
  <2>2. ServerTyped' /\ DirTyped' /\ base' \subseteq DOMAIN dir'
    BY <1>0, <1>1, <2>1 DEF ServerTyped, DirTyped
  <2>3. UpdateCurrent' /\ FeedCurrent'
    BY <1>0, <2>1 DEF UpdateCurrent, FeedCurrent, Healed, InHand, About, Brings
  <2>4. PageCurrent' /\ AnswerCurrent'
    BY <1>0, <2>1 DEF PageCurrent, AnswerCurrent, InHand, About
  <2> QED
    BY <2>2, <2>3, <2>4 DEF FavIInv
<1>2. ASSUME UNCHANGED <<serverVars, dirVars>>, steps' \in 0 .. MaxSteps
      PROVE  FavIInv'
  <2>1. UNCHANGED <<serverVars, favs>> /\ dir' = dir
    BY <1>2 DEF dirVars
  <2>2. GoodDir(dir') /\ DOMAIN dir \subseteq DOMAIN dir'
    BY <1>0, <2>1 DEF DirTyped
  <2> QED
    BY <1>1, <1>2, <2>1, <2>2
<1>3. ASSUME NEW n \in Node,
             \/ updateMapNode(n) \/ updateNodeTelemetry(n) \/ updateNodeSignal(n)
             \/ \E r \in Role \cup {NoRole} : updateNodeInfo(n, r)
             \/ GoesOffline(n)
      PROVE  FavIInv'
  <2>1. steps \in 0 .. MaxSteps /\ MaxSteps \in Nat
    BY <1>0 DEF ServerTyped
  <2> QED
    BY <1>0, <1>1, <1>3, <2>1, MeshEventRight
<1>4. ASSUME NEW n \in Node, NEW b \in BOOLEAN, OtherSetsFavorite(n, b)
      PROVE  FavIInv'
  <2> DEFINE q == [id |-> steps, node |-> n, fav |-> b, by |-> "other", state |-> "set"]
  <2>1. /\ SetFavorite(n, b) /\ UNCHANGED <<feed, base, dirVars>> /\ steps' \in 0 .. MaxSteps
        /\ requests' = requests \cup {q}
    BY <1>0, <1>4 DEF OtherSetsFavorite, Step, ServerTyped
  <2>2. q \in Request /\ q.node = n /\ q.fav = b /\ q.state = "set"
    BY <1>0 DEF ServerTyped, Request
  <2> HIDE DEF q
  <2> QED
    BY <2>1, <2>2, SetFavoriteRight
<1>5. ASSUME UNCHANGED <<serverFav, feed, pageDebt, dirVars>>, steps' \in 0 .. MaxSteps,
             requests' \subseteq Request,
             \A n : \A r, q \in InHand(n)' : \E s, t \in InHand(n) :
                      s.fav = r.fav /\ (s = t => r = q),
             \A n : InHand(n)' = {} => InHand(n) = {},
             \A r \in requests' : r.state = "done" => r \in requests
      PROVE  FavIInv'
  <2>1. UNCHANGED <<serverFav, feed, apart, cures, base, dir, favs>>
    BY <1>5 DEF pageDebt, dirVars
  <2>2. ServerTyped' /\ DirTyped' /\ base' \subseteq DOMAIN dir'
    BY <1>0, <1>5, <2>1 DEF ServerTyped, DirTyped
  <2>3. \A n : Healed(n)' <=> Healed(n)
    BY <2>1 DEF Healed
  <2>4. UpdateCurrent'
    <3> SUFFICES ASSUME NEW n \in Node, Healed(n)', NEW r \in InHand(n)', NEW q \in InHand(n)'
                 PROVE  r = q /\ r.fav = serverFav[n]
      BY <2>1 DEF UpdateCurrent
    <3>1. PICK s, t \in InHand(n) : s.fav = r.fav /\ (s = t => r = q)
      BY <1>5
    <3> QED
      BY <1>0, <2>3, <3>1 DEF UpdateCurrent
  <2>5. FeedCurrent'
    <3> SUFFICES ASSUME NEW i \in DOMAIN feed, NEW k \in Node, Healed(k)', InHand(k)' = {},
                        About(feed[i], k), \A j \in DOMAIN feed : j > i => ~About(feed[j], k)
                 PROVE  Brings(feed[i], k, serverFav)
      BY <2>1 DEF FeedCurrent, About, Brings
    <3> QED
      BY <1>0, <1>5, <2>3 DEF FeedCurrent
  <2>6. PageCurrent'
    <3> SUFFICES ASSUME NEW k \in base \ apart, InHand(k)' = {}, \A i \in DOMAIN feed : ~About(feed[i], k)
                 PROVE  k \in favs <=> serverFav[k]
      BY <2>1 DEF PageCurrent, About
    <3> QED
      BY <1>0, <1>5 DEF PageCurrent
  <2>7. AnswerCurrent'
    BY <1>0, <1>5, <2>1 DEF AnswerCurrent
  <2> QED
    BY <2>2, <2>4, <2>5, <2>6, <2>7 DEF FavIInv
<1>6. ASSUME NEW n \in Node, ClickFavorite(n) PROVE FavIInv'
  <2> DEFINE q == [id |-> steps, node |-> n, fav |-> n \notin favs, by |-> "page", state |-> "sent"]
  <2>1. /\ UNCHANGED <<serverFav, feed, pageDebt, dirVars>> /\ steps' \in 0 .. MaxSteps
        /\ requests' = requests \cup {q}
    BY <1>0, <1>6 DEF ClickFavorite, Step, ServerTyped
  <2>2. q \in Request /\ q.state = "sent"
    BY <1>0 DEF ServerTyped, Request
  <2> HIDE DEF q
  <2>3. requests' \subseteq Request
    BY <1>0, <2>1, <2>2 DEF ServerTyped
  <2>4. \A k : InHand(k)' = InHand(k)
    BY <2>1, <2>2 DEF InHand
  <2>5. \A r \in requests' : r.state = "done" => r \in requests
    BY <2>1, <2>2
  <2> QED
    BY <1>5, <2>1, <2>3, <2>4, <2>5
<1>7. ASSUME NEW r \in requests, FavoriteFails(r) PROVE FavIInv'
  <2> DEFINE q == [r EXCEPT !.by = "other"]
  <2>1. /\ UNCHANGED <<serverFav, feed, pageDebt, dirVars>> /\ steps' \in 0 .. MaxSteps
        /\ requests' = (requests \ {r}) \cup (IF r.state = "set" THEN {q} ELSE {})
    BY <1>0, <1>7 DEF FavoriteFails, ServerTyped
  <2>2. /\ r \in Request /\ q \in Request
        /\ q.node = r.node /\ q.fav = r.fav /\ q.state = r.state
    BY <1>0 DEF ServerTyped, Request
  <2> HIDE DEF q
  <2>3. requests' \subseteq Request
    BY <1>0, <2>1, <2>2 DEF ServerTyped
  <2>4. \A s \in requests' : s.state = "done" => s \in requests
    BY <2>1, <2>2
  <2>5. \A n : /\ InHand(n)' \subseteq InHand(n) \cup {q}
               /\ q \in InHand(n)' => q \in InHand(n) \/ (r \in InHand(n) /\ r \notin InHand(n)')
               /\ InHand(n)' = {} => InHand(n) = {}
    BY <2>1, <2>2 DEF InHand
  <2>6. ASSUME NEW n, NEW s \in InHand(n)', NEW t \in InHand(n)'
        PROVE  \E u, v \in InHand(n) : u.fav = s.fav /\ (u = v => s = t)
    <3>1. CASE s \in InHand(n) /\ t \in InHand(n)
      BY <3>1
    <3>2. CASE s \notin InHand(n) \/ t \notin InHand(n)
      <4>1. q \in InHand(n)' /\ r \in InHand(n) /\ r \notin InHand(n)'
        BY <2>5, <2>6, <3>2
      <4>2. CASE s = q /\ t = q
        BY <2>2, <4>1, <4>2
      <4>3. CASE s = q /\ t # q
        <5>1. t \in InHand(n) /\ t # r
          BY <2>5, <4>1, <4>3
        <5> QED
          BY <2>2, <4>1, <4>3, <5>1
      <4>4. CASE s # q
        <5>1. s \in InHand(n) /\ s # r
          BY <2>5, <4>1, <4>4
        <5> QED
          BY <4>1, <5>1
      <4> QED
        BY <4>2, <4>3, <4>4
    <3> QED
      BY <3>1, <3>2
  <2> QED
    BY <1>5, <2>1, <2>3, <2>4, <2>5, <2>6
<1>8. ASSUME NEW d \in Directories, ServerSendsDirectory(d) PROVE FavIInv'
  BY <1>8, SwapRight
<1>9. ASSUME NEW d \in Directories, NewStream(d) PROVE FavIInv'
  <2>1. /\ UNCHANGED <<serverFav, requests, apart, base, dirVars>> /\ steps' \in 0 .. MaxSteps
        /\ feed \in Seq(Event) /\ apart \subseteq Node
    BY <1>0, <1>9 DEF NewStream, Step, ServerTyped
  <2>2. PICK k \in 0 .. Len(feed) :
          /\ feed' = <<DirectoryEvent(d, serverFav)>> \o SubSeq(feed, k + 1, Len(feed))
          /\ cures' = <<Cured(apart, SubSeq(feed, k + 1, Len(feed)))>> \o SubSeq(cures, k + 1, Len(cures))
    BY <1>9 DEF NewStream
  <2> DEFINE fs == SubSeq(feed, k + 1, Len(feed))
  <2>3. /\ Cured(apart, fs) \subseteq Node
        /\ \A n \in Cured(apart, fs) : InHand(n) = {} /\ \A i \in DOMAIN fs : ~About(fs[i], n)
    BY <2>1 DEF Cured
  <2>4. \A i \in DOMAIN feed : i > k => i - k \in DOMAIN fs /\ fs[i - k] = feed[i]
    <3>1. DOMAIN fs = 1 .. Len(feed) - k /\ \A i \in 1 .. Len(feed) - k : fs[i] = feed[k + i]
      <4>1. DirectoryEvent(d, serverFav) \in Event
        BY DEF DirectoryEvent, Event
      <4>2. k \in 0 .. Len(feed) /\ feed \in Seq(Event)
        BY <2>1, <2>2
      <4> QED
        BY <4>1, <4>2, NewFront
    <3>2. Len(feed) \in Nat /\ k \in Nat /\ DOMAIN feed = 1 .. Len(feed)
      BY <2>1, <2>2
    <3> SUFFICES ASSUME NEW i \in DOMAIN feed, i > k PROVE i - k \in DOMAIN fs /\ fs[i - k] = feed[i]
      OBVIOUS
    <3>3. i - k \in 1 .. Len(feed) - k /\ k + (i - k) = i
      BY <3>2
    <3> HIDE DEF fs
    <3> QED
      BY <3>1, <3>3
  <2> HIDE DEF fs
  <2>5. \A n \in Cured(apart, fs) : InHand(n) = {} /\ \A i \in DOMAIN feed : i > k => ~About(feed[i], n)
    BY <2>3, <2>4
  <2>6. cures' = <<Cured(apart, fs)>> \o SubSeq(cures, k + 1, Len(cures))
    BY <2>2 DEF fs
  <2> QED
    BY <2>1, <2>2, <2>3, <2>5, <2>6, CopyRight
<1>10. ASSUME feed # <<>>, feed' = Tail(feed), cures' = Tail(cures)
       PROVE  /\ Head(feed) \in Event /\ Head(feed) = feed[1] /\ 1 \in DOMAIN feed
              /\ feed' \in Seq(Event) /\ cures' \in Seq(SUBSET Node) /\ Len(cures') = Len(feed')
              /\ Head(cures) = cures[1] /\ 1 \in DOMAIN cures
              /\ \A i \in DOMAIN feed' : i + 1 \in DOMAIN feed /\ feed'[i] = feed[i + 1]
              /\ \A i \in DOMAIN feed : i # 1 => i - 1 \in DOMAIN feed' /\ feed'[i - 1] = feed[i]
              /\ \A i \in DOMAIN cures' : i + 1 \in DOMAIN cures /\ cures'[i] = cures[i + 1]
  <2>1. /\ feed \in Seq(Event) /\ cures \in Seq(SUBSET Node) /\ Len(cures) = Len(feed)
        /\ Len(feed) \in Nat \ {0} /\ cures # <<>>
    BY <1>0, <1>10 DEF ServerTyped
  <2>2. /\ Head(feed) \in Event /\ Head(feed) = feed[1] /\ 1 \in DOMAIN feed
        /\ feed' \in Seq(Event) /\ Len(feed') = Len(feed) - 1
        /\ \A i \in DOMAIN feed' : i + 1 \in DOMAIN feed /\ feed'[i] = feed[i + 1]
        /\ \A i \in DOMAIN feed : i # 1 => i - 1 \in DOMAIN feed' /\ feed'[i - 1] = feed[i]
    BY <1>10, <2>1
  <2>3. /\ cures' \in Seq(SUBSET Node) /\ Len(cures') = Len(cures) - 1
        /\ Head(cures) = cures[1] /\ 1 \in DOMAIN cures
        /\ \A i \in DOMAIN cures' : i + 1 \in DOMAIN cures /\ cures'[i] = cures[i + 1]
    BY <1>10, <2>1
  <2> QED
    BY <2>1, <2>2, <2>3
<1>11. ASSUME feed # <<>>, feed' = Tail(feed), cures' = Tail(cures),
              UNCHANGED <<serverFav, requests>>, \A n : Healed(n)' => Healed(n)
       PROVE  FeedCurrent' /\ UpdateCurrent'
  <2>1. \A n : InHand(n)' = InHand(n)
    BY <1>11 DEF InHand
  <2>2. UpdateCurrent'
    BY <1>0, <1>11, <2>1 DEF UpdateCurrent
  <2>3. FeedCurrent'
    <3> SUFFICES ASSUME NEW i \in DOMAIN feed', NEW k \in Node, Healed(k)', InHand(k)' = {},
                        About(feed'[i], k), \A j \in DOMAIN feed' : j > i => ~About(feed'[j], k)
                 PROVE  Brings(feed'[i], k, serverFav)
      BY <1>11 DEF FeedCurrent, About, Brings
    <3>1. i + 1 \in DOMAIN feed /\ feed'[i] = feed[i + 1] /\ i \in Nat
      BY <1>10, <1>11
    <3>2. ASSUME NEW j \in DOMAIN feed, j > i + 1 PROVE ~About(feed[j], k)
      <4>1. j \in Nat /\ j # 1 /\ j - 1 > i
        BY <1>0, <3>1, <3>2 DEF ServerTyped
      <4> QED
        BY <1>10, <1>11, <4>1
    <3>3. About(feed[i + 1], k)
      BY <3>1
    <3> QED
      BY <1>0, <1>11, <2>1, <3>1, <3>2, <3>3 DEF FeedCurrent
  <2> QED
    BY <2>2, <2>3
<1>12. CASE OnDirectory
  <2> DEFINE e == Head(feed)
  <2>1. /\ feed # <<>> /\ feed' = Tail(feed) /\ cures' = Tail(cures) /\ e.type = "directory"
        /\ dir' = e.dir /\ favs' = e.favs /\ base' = DOMAIN e.dir
        /\ apart' = apart \ {n \in Head(cures) : Unanswered(n) = {}}
        /\ UNCHANGED <<serverFav, requests, steps>>
    BY <1>12 DEF OnDirectory
  <2>2. e \in Event /\ e = feed[1] /\ 1 \in DOMAIN feed /\ feed' \in Seq(Event)
    BY <1>10, <2>1
  <2>3. e.dir \in Directories /\ e.favs \subseteq DOMAIN e.dir
    BY <2>1, <2>2 DEF Event
  <2>4. DirTyped' /\ base' \subseteq DOMAIN dir' /\ base' \subseteq Node
    BY <2>1, <2>3 DEF DirTyped, GoodDir
  <2>5. ServerTyped'
    BY <1>0, <1>10, <2>1, <2>4 DEF ServerTyped
  <2>6. \A n : Healed(n)' => Healed(n)
    BY <1>10, <2>1 DEF Healed
  <2>7. FeedCurrent' /\ UpdateCurrent'
    BY <1>11, <2>1, <2>6
  <2>8. PageCurrent'
    <3> SUFFICES ASSUME NEW k \in DOMAIN e.dir, k \notin apart', InHand(k) = {},
                        \A i \in DOMAIN feed' : ~About(feed'[i], k)
                 PROVE  k \in e.favs <=> serverFav[k]
      BY <2>1 DEF PageCurrent, About, InHand
    <3>1. k \in Node /\ Healed(k)
      BY <2>1, <2>4, <2>6 DEF Healed
    <3>2. ASSUME NEW j \in DOMAIN feed, j > 1 PROVE ~About(feed[j], k)
      <4>1. j # 1
        BY <1>0, <3>2 DEF ServerTyped
      <4>2. j - 1 \in DOMAIN feed' /\ feed'[j - 1] = feed[j]
        BY <1>10, <2>1, <4>1
      <4> QED
        BY <4>2
    <3>3. About(feed[1], k)
      BY <2>1, <2>2 DEF About
    <3>4. Brings(e, k, serverFav)
      BY <1>0, <2>2, <3>1, <3>2, <3>3 DEF FeedCurrent
    <3> QED
      BY <2>1, <3>4 DEF Brings
  <2>9. AnswerCurrent'
    <3> SUFFICES ASSUME NEW r \in requests, r.state = "done", r.node \notin apart'
                 PROVE  r.fav = serverFav[r.node]
      BY <2>1 DEF AnswerCurrent
    <3>1. r \in Unanswered(r.node)
      BY DEF Unanswered
    <3>2. r.node \notin apart
      BY <2>1, <3>1
    <3> QED
      BY <1>0, <3>2 DEF AnswerCurrent
  <2> QED
    BY <2>4, <2>5, <2>7, <2>8, <2>9 DEF FavIInv
<1>13. CASE OnFavorite
  <2> DEFINE e == Head(feed)
  <2>1. /\ feed # <<>> /\ feed' = Tail(feed) /\ cures' = Tail(cures) /\ e.type = "favorite"
        /\ favs' = IF e.node \in DOMAIN dir THEN SetFav(e.node, e.fav) ELSE favs
        /\ UNCHANGED <<serverFav, requests, apart, base, steps, dir>>
    BY <1>13 DEF OnFavorite
  <2>2. e \in Event /\ e = feed[1] /\ 1 \in DOMAIN feed /\ feed' \in Seq(Event)
    BY <1>10, <2>1
  <2>3. e.node \in Node /\ e.fav \in BOOLEAN
    BY <2>1, <2>2 DEF Event
  <2>4. ServerTyped'
    BY <1>0, <1>10, <2>1 DEF ServerTyped
  <2>5. DirTyped' /\ base' \subseteq DOMAIN dir'
    BY <1>0, <2>1 DEF DirTyped, SetFav
  <2>6. \A n : Healed(n)' => Healed(n)
    BY <1>10, <2>1 DEF Healed
  <2>7. FeedCurrent' /\ UpdateCurrent'
    BY <1>11, <2>1, <2>6
  <2>8. PageCurrent'
    <3> SUFFICES ASSUME NEW k \in base \ apart, InHand(k) = {}, \A i \in DOMAIN feed' : ~About(feed'[i], k)
                 PROVE  k \in favs' <=> serverFav[k]
      BY <2>1 DEF PageCurrent, About, InHand
    <3>1. k \in Node /\ k \in DOMAIN dir /\ Healed(k)
      BY <1>0 DEF ServerTyped, Healed
    <3>2. ASSUME NEW j \in DOMAIN feed, j > 1 PROVE ~About(feed[j], k)
      <4>1. j # 1
        BY <1>0, <3>2 DEF ServerTyped
      <4>2. j - 1 \in DOMAIN feed' /\ feed'[j - 1] = feed[j]
        BY <1>10, <2>1, <4>1
      <4> QED
        BY <4>2
    <3>3. CASE k = e.node
      <4>1. About(feed[1], k)
        BY <2>1, <2>2, <3>3 DEF About
      <4>2. Brings(e, k, serverFav)
        BY <1>0, <2>2, <3>1, <3>2, <4>1 DEF FeedCurrent
      <4> QED
        BY <2>1, <2>3, <3>1, <3>3, <4>2 DEF Brings, SetFav
    <3>4. CASE k # e.node
      <4>1. ~About(feed[1], k)
        BY <2>1, <2>2, <3>4 DEF About
      <4>2. \A j \in DOMAIN feed : j = 1 \/ j > 1
        BY <1>0 DEF ServerTyped
      <4>3. k \in favs <=> serverFav[k]
        BY <1>0, <3>2, <4>1, <4>2 DEF PageCurrent
      <4> QED
        BY <2>1, <3>4, <4>3 DEF SetFav
    <3> QED
      BY <3>3, <3>4
  <2>9. AnswerCurrent'
    BY <1>0, <2>1 DEF AnswerCurrent
  <2> QED
    BY <2>4, <2>5, <2>7, <2>8, <2>9 DEF FavIInv
<1>14. ASSUME NEW r \in requests, ServerSetsFavorite(r) PROVE FavIInv'
  <2> DEFINE q == [r EXCEPT !.state = "set"]
  <2>1. r \in Request /\ r.node \in Node /\ r.fav \in BOOLEAN
    BY <1>0 DEF ServerTyped, Request
  <2>2. /\ SetFavorite(r.node, r.fav) /\ UNCHANGED <<feed, base, dirVars>> /\ steps' = steps
        /\ requests' = (requests \ {r}) \cup {q} /\ r.state = "sent"
    BY <1>14 DEF ServerSetsFavorite
  <2>3. q \in Request /\ q.node = r.node /\ q.fav = r.fav /\ q.state = "set"
    BY <2>1 DEF Request
  <2> HIDE DEF q
  <2>4. \A s \in requests : s.state # "sent" => s \in requests \ {r}
    BY <2>2
  <2>5. steps' \in 0 .. MaxSteps /\ requests \ {r} \in SUBSET requests
    BY <1>0, <2>2 DEF ServerTyped
  <2> QED
    BY <2>1, <2>2, <2>3, <2>4, <2>5, SetFavoriteRight
<1>15. ASSUME NEW r \in requests, publish(r) PROVE FavIInv'
  BY <1>15, PublishRight
<1>16. ASSUME NEW r \in requests, FavoriteAnswered(r) PROVE FavIInv'
  <2>1. r \in Request
    BY <1>0 DEF ServerTyped
  <2>2. /\ UNCHANGED <<serverFav, feed, apart, cures, base, steps, dir>> /\ requests' = requests \ {r}
        /\ r.state = "done"
        /\ favs' = IF r.node \in DOMAIN dir THEN SetFav(r.node, r.fav) ELSE favs
    BY <1>16 DEF FavoriteAnswered, pageDebt
  <2>3. \A n : InHand(n)' = InHand(n)
    BY <2>2 DEF InHand
  <2>4. ServerTyped' /\ DirTyped' /\ base' \subseteq DOMAIN dir'
    BY <1>0, <2>2 DEF ServerTyped, DirTyped, SetFav
  <2>5. UpdateCurrent'
    BY <1>0, <2>2, <2>3 DEF UpdateCurrent, Healed
  <2>6. FeedCurrent'
    <3> SUFFICES ASSUME NEW i \in DOMAIN feed, NEW k \in Node, Healed(k), InHand(k) = {},
                        About(feed[i], k), \A j \in DOMAIN feed : j > i => ~About(feed[j], k)
                 PROVE  Brings(feed[i], k, serverFav)
      BY <2>2, <2>3 DEF FeedCurrent, About, Brings, Healed
    <3> QED
      BY <1>0 DEF FeedCurrent
  <2>7. PageCurrent'
    <3> SUFFICES ASSUME NEW k \in base \ apart, InHand(k) = {}, \A i \in DOMAIN feed : ~About(feed[i], k)
                 PROVE  k \in favs' <=> serverFav[k]
      BY <2>2, <2>3 DEF PageCurrent, About
    <3>1. k \in favs <=> serverFav[k]
      BY <1>0 DEF PageCurrent
    <3>2. CASE k = r.node
      <4>1. r.fav = serverFav[k] /\ r.fav \in BOOLEAN /\ k \in DOMAIN dir
        BY <1>0, <2>1, <2>2, <3>2 DEF AnswerCurrent, Request
      <4> QED
        BY <2>2, <3>2, <4>1 DEF SetFav
    <3>3. CASE k # r.node
      BY <2>2, <3>1, <3>3 DEF SetFav
    <3> QED
      BY <3>2, <3>3
  <2>8. AnswerCurrent'
    BY <1>0, <2>2 DEF AnswerCurrent
  <2> QED
    BY <2>4, <2>5, <2>6, <2>7, <2>8 DEF FavIInv
<1>17. CASE UNCHANGED vars
  <2>1. UNCHANGED <<serverVars, dirVars>> /\ steps' \in 0 .. MaxSteps
    BY <1>0, <1>17 DEF vars, ServerTyped
  <2> QED
    BY <1>2, <2>1
<1>18. CASE \/ \E t \in {"dashboard", "map", "nodes"} : switchTab(t)
            \/ RefreshTable \/ toggleNodesFilters \/ ToggleNodesOption \/ resetNodesFilters
            \/ \E r \in Role : handleRoleCheckbox(r) \/ RoleBoxChanged(r)
            \/ \E st \in {"all", "online", "offline"} : SetStatus(st)
            \/ ResetMapFilters \/ SetHeatmap
  <2>1. steps \in 0 .. MaxSteps /\ MaxSteps \in Nat
    BY <1>0 DEF ServerTyped
  <2> QED
    BY <1>2, <1>18, <2>1, UIStep
<1> QED
  BY <1>3, <1>4, <1>6, <1>7, <1>8, <1>9, <1>12, <1>13, <1>14, <1>15, <1>16, <1>17, <1>18 DEF Next

\* With no event, update or request under way the page's favourites are the
\* server's, whatever overlapped, but for nodes put apart by an overlapping update
\* or a dropped event and not yet cured by a directory (nodes.js:465-480,
\* app.js:186-189, 226-236, node_directory.go:209-226).
THEOREM FavoritesRight == Spec => []FavoritesConverge
<1>1. FavIInv => FavoritesConverge
  <2> SUFFICES ASSUME FavIInv, feed = <<>>, requests = {}, NEW n \in base \ apart
               PROVE  n \in favs <=> serverFav[n]
    BY DEF FavoritesConverge
  <2>1. InHand(n) = {}
    BY DEF InHand
  <2> QED
    BY <2>1 DEF FavIInv, PageCurrent
<1> QED
  BY InitFav, StepFav, <1>1, PTL DEF Spec

(***************************************************************************)
(* The table.                                                              *)
(***************************************************************************)
\* The order of the rows is strict, total and transitive.
LEMMA AboveOrders ==
  ASSUME NEW a \in Nat, NEW b \in Nat, NEW c \in Nat, NEW fs, NEW f
  PROVE  /\ ~Above(a, a, fs, f)
         /\ Above(a, b, fs, f) /\ Above(b, c, fs, f) => Above(a, c, fs, f)
         /\ a # b => Above(a, b, fs, f) \/ Above(b, a, fs, f)
<1>1. CASE f.desc
  BY <1>1 DEF Above
<1>2. CASE ~f.desc
  BY <1>2 DEF Above
<1> QED
  BY <1>1, <1>2

\* A finite set of nodes has a sorted sequence: the row of a node is the number of
\* nodes above it, plus one (nodes.js:210-224).
LEMMA SortedRight ==
  ASSUME NEW S, S \subseteq Nat, IsFiniteSet(S), NEW fs, NEW f
  PROVE  /\ Sorted(S, fs, f) \in [1 .. Cardinality(S) -> S]
         /\ \A i, j \in 1 .. Cardinality(S) :
              i < j => Above(Sorted(S, fs, f)[i], Sorted(S, fs, f)[j], fs, f)
<1> DEFINE N == Cardinality(S)
           Over(x) == {y \in S : Above(y, x, fs, f)}
           rank == [x \in S |-> Cardinality(Over(x)) + 1]
<1>1. N \in Nat
  BY FS_CardinalityType
<1>2. ASSUME NEW x \in S
      PROVE  /\ IsFiniteSet(Over(x)) /\ Cardinality(Over(x)) \in Nat
             /\ Cardinality(Over(x)) < N
  <2>1. Over(x) \in SUBSET S /\ x \notin Over(x)
    BY AboveOrders
  <2>2. /\ IsFiniteSet(Over(x)) /\ Cardinality(Over(x)) <= N
        /\ (N = Cardinality(Over(x)) => S = Over(x))
    BY <2>1, FS_Subset
  <2>3. Cardinality(Over(x)) \in Nat
    BY <2>2, FS_CardinalityType
  <2> QED
    BY <1>1, <2>1, <2>2, <2>3
<1>3. rank \in [S -> 1 .. N]
  BY <1>1, <1>2
<1>4. ASSUME NEW x \in S, NEW y \in S, Above(x, y, fs, f)
      PROVE  rank[x] < rank[y]
  <2>1. Over(x) \in SUBSET Over(y) /\ x \in Over(y) /\ x \notin Over(x)
    BY <1>4, AboveOrders
  <2>2. /\ Cardinality(Over(x)) <= Cardinality(Over(y))
        /\ (Cardinality(Over(y)) = Cardinality(Over(x)) => Over(y) = Over(x))
    BY <1>2, <2>1, FS_Subset
  <2>3. Cardinality(Over(x)) < Cardinality(Over(y))
    BY <1>2, <2>1, <2>2
  <2> QED
    BY <1>2, <2>3
<1>5. rank \in Injection(S, 1 .. N)
  <2>1. ASSUME NEW x \in S, NEW y \in S, rank[x] = rank[y] PROVE x = y
    <3>1. ~Above(x, y, fs, f) /\ ~Above(y, x, fs, f)
      BY <1>1, <1>3, <1>4, <2>1
    <3> QED
      BY <3>1, AboveOrders
  <2> QED
    BY <1>3, <2>1 DEF Injection, IsInjective
<1>6. IsFiniteSet(1 .. N) /\ Cardinality(1 .. N) = N
  BY <1>1, FS_Interval
<1>7. rank \in Surjection(S, 1 .. N)
  BY <1>5, <1>6, FS_Injection
<1> HIDE DEF rank
<1>8. \A i \in 1 .. N : \E x \in S : rank[x] = i
  BY <1>7 DEF Surjection
<1> DEFINE s == [i \in 1 .. N |-> CHOOSE x \in S : rank[x] = i]
<1>9. s \in [1 .. N -> S] /\ \A i \in 1 .. N : rank[s[i]] = i
  BY <1>8
<1> HIDE DEF s
<1>10. ASSUME NEW i \in DOMAIN s, NEW j \in DOMAIN s, i < j PROVE Above(s[i], s[j], fs, f)
  <2>1. /\ i \in 1 .. N /\ j \in 1 .. N /\ s[i] \in S /\ s[j] \in S
        /\ rank[s[i]] = i /\ rank[s[j]] = j
    BY <1>9
  <2>2. s[i] # s[j]
    BY <1>1, <1>10, <2>1
  <2>3. ~Above(s[j], s[i], fs, f)
    <3>1. Above(s[j], s[i], fs, f) => rank[s[j]] < rank[s[i]]
      BY <1>4, <2>1
    <3> QED
      BY <1>1, <1>10, <2>1, <3>1
  <2> QED
    BY <2>1, <2>2, <2>3, AboveOrders
<1>11. \E t \in [1 .. N -> S] : \A i, j \in DOMAIN t : i < j => Above(t[i], t[j], fs, f)
  BY <1>9, <1>10
<1> HIDE DEF N
<1>12. /\ Sorted(S, fs, f) \in [1 .. N -> S]
       /\ \A i, j \in DOMAIN Sorted(S, fs, f) :
            i < j => Above(Sorted(S, fs, f)[i], Sorted(S, fs, f)[j], fs, f)
  BY <1>11 DEF Sorted, N
<1>13. DOMAIN Sorted(S, fs, f) = 1 .. N
  BY <1>12
<1> QED
  BY <1>12, <1>13 DEF N

Row == [node : Node, role : Role \cup {NoRole}, seen : BOOLEAN, fav : BOOLEAN]

\* The nodes a table lists are finitely many.
LEMMA ListedFinite ==
  ASSUME NEW d, GoodDir(d), NEW f
  PROVE  Listed(d, f) \subseteq DOMAIN d /\ Listed(d, f) \subseteq Nat /\ IsFiniteSet(Listed(d, f))
<1>1. Listed(d, f) \subseteq DOMAIN d /\ Listed(d, f) \in SUBSET Node
  BY DEF Listed, GoodDir
<1>2. Node \subseteq Nat /\ IsFiniteSet(Node)
  BY NodesAssumption
<1>3. IsFiniteSet(Listed(d, f))
  BY <1>1, <1>2, FS_Subset
<1> QED
  BY <1>1, <1>2, <1>3

\* The rows are one for each node listed, in order, with what the directory says
\* of it (nodes.js:248-387).
LEMMA RowsRight ==
  ASSUME NEW d, GoodDir(d), NEW fs, NEW f
  PROVE  /\ Rows(d, fs, f) \in Seq(Row)
         /\ Len(Rows(d, fs, f)) = Cardinality(Listed(d, f))
         /\ \A i, j \in DOMAIN Rows(d, fs, f) :
              i < j => Above(Rows(d, fs, f)[i].node, Rows(d, fs, f)[j].node, fs, f)
<1> DEFINE L == Listed(d, f)
           N == Cardinality(L)
           order == Sorted(L, fs, f)
           row(n) == [node |-> n, role |-> d[n].role, seen |-> d[n].seen, fav |-> n \in fs]
<1>1. L \subseteq DOMAIN d /\ L \subseteq Nat /\ IsFiniteSet(L)
  BY ListedFinite
<1>2. N \in Nat
  BY <1>1, FS_CardinalityType
<1>3. /\ order \in [1 .. N -> L]
      /\ \A i, j \in 1 .. N : i < j => Above(order[i], order[j], fs, f)
  BY <1>1, SortedRight
<1> HIDE DEF N, order, L
<1>4. Rows(d, fs, f) = [i \in 1 .. N |-> row(order[i])]
  <2>1. DOMAIN order = 1 .. N
    BY <1>3
  <2> QED
    BY <2>1 DEF Rows, order, L
<1>5. ASSUME NEW i \in 1 .. N PROVE row(order[i]) \in Row /\ row(order[i]).node = order[i]
  <2>1. order[i] \in DOMAIN d
    BY <1>1, <1>3
  <2>2. order[i] \in Node /\ d[order[i]] \in Info
    BY <2>1 DEF GoodDir
  <2> QED
    BY <2>2 DEF Row, Info
<1> HIDE DEF row
<1>6. Rows(d, fs, f) \in [1 .. N -> Row]
  BY <1>4, <1>5
<1>7. Rows(d, fs, f) \in Seq(Row) /\ Len(Rows(d, fs, f)) = N
  BY <1>2, <1>6
<1>8. DOMAIN Rows(d, fs, f) = 1 .. N /\ \A i \in 1 .. N : Rows(d, fs, f)[i].node = order[i]
  BY <1>4, <1>5
<1> QED
  BY <1>3, <1>7, <1>8 DEF N, L

\* The age of a node is not in the table (nodes.js:248-387 reads last_heard only
\* to print it), so a node that goes offline leaves the rows as they are.
LEMMA OfflineKeepsRows ==
  ASSUME GoodDir(dir), NEW n, GoesOffline(n), NEW fs, NEW f
  PROVE  Rows(dir', fs, f) = Rows(dir, fs, f)
<1>1. /\ DOMAIN dir' = DOMAIN dir
      /\ \A k \in DOMAIN dir : /\ dir'[k].role = dir[k].role /\ dir'[k].seen = dir[k].seen
                               /\ dir'[k].pos = dir[k].pos
  <2>1. n \in DOMAIN dir /\ dir' = [dir EXCEPT ![n].online = FALSE] /\ dir[n] \in Info
    BY DEF GoesOffline, GoodDir
  <2>2. DOMAIN dir' = DOMAIN dir /\ \A k \in DOMAIN dir : k # n => dir'[k] = dir[k]
    BY <2>1
  <2>3. dir'[n] = [dir[n] EXCEPT !.online = FALSE]
    BY <2>1
  <2>4. dir'[n].role = dir[n].role /\ dir'[n].seen = dir[n].seen /\ dir'[n].pos = dir[n].pos
    BY <2>1, <2>3 DEF Info
  <2> QED
    BY <2>2, <2>4
<1>2. Listed(dir', f) = Listed(dir, f)
  BY <1>1 DEF Listed
<1> DEFINE order == Sorted(Listed(dir, f), fs, f)
<1>3. \A i \in DOMAIN order : order[i] \in DOMAIN dir
  <2>1. Listed(dir, f) \subseteq DOMAIN dir /\ Listed(dir, f) \subseteq Nat /\ IsFiniteSet(Listed(dir, f))
    BY ListedFinite
  <2>2. order \in [1 .. Cardinality(Listed(dir, f)) -> Listed(dir, f)]
    BY <2>1, SortedRight
  <2> HIDE DEF order
  <2> QED
    BY <2>1, <2>2
<1> HIDE DEF order
<1>4. /\ Rows(dir', fs, f) = [i \in DOMAIN order |-> [node |-> order[i], role |-> dir'[order[i]].role,
                                    seen |-> dir'[order[i]].seen, fav |-> order[i] \in fs]]
      /\ Rows(dir, fs, f) = [i \in DOMAIN order |-> [node |-> order[i], role |-> dir[order[i]].role,
                                    seen |-> dir[order[i]].seen, fav |-> order[i] \in fs]]
  BY <1>2 DEF Rows, order
<1>5. \A i \in DOMAIN order : dir'[order[i]].role = dir[order[i]].role
                              /\ dir'[order[i]].seen = dir[order[i]].seen
  BY <1>1, <1>3
<1> QED
  BY <1>4, <1>5

(***************************************************************************)
(* The invariant of the table's tab.                                       *)
(***************************************************************************)
TabTypes ==
  /\ tab \in {"dashboard", "map", "nodes"} /\ mapReady \in BOOLEAN /\ panelOpen \in BOOLEAN
  /\ table \in Seq(Row)
  /\ nodesFilter \in [roles : SUBSET Role, gps : BOOLEAN, realtime : BOOLEAN, desc : BOOLEAN]

\* The boxes bx are those of the filter's roles.
BoxesOf(bx, roles) ==
  /\ DOMAIN bx \subseteq Role /\ bx \in [DOMAIN bx -> BOOLEAN]
  /\ \A r \in DOMAIN bx : bx[r] <=> r \in roles

TabIInv == TabTypes /\ BoxesOf(nodesBoxes, nodesFilter.roles) /\ TableTrue

\* buildRoleCheckboxes (nodes.js:117-146) makes the boxes of the filter.
LEMMA RoleBoxesRight ==
  ASSUME NEW d, GoodDir(d), NEW f
  PROVE  BoxesOf(RoleBoxes(d, f), f.roles)
<1>1. \A n \in DOMAIN d : d[n].role \in Role \cup {NoRole}
  BY DEF GoodDir, Info
<1>2. RolesOf(d) \subseteq Role
  BY <1>1 DEF RolesOf
<1>3. RoleBoxes(d, f) = [r \in RolesOf(d) |-> r \in f.roles]
  BY DEF RoleBoxes
<1>4. DOMAIN RoleBoxes(d, f) = RolesOf(d) /\ \A r \in RolesOf(d) : RoleBoxes(d, f)[r] = (r \in f.roles)
  BY <1>3
<1>5. RoleBoxes(d, f) \in [RolesOf(d) -> BOOLEAN]
  BY <1>3
<1>6. \A r \in RolesOf(d) : RoleBoxes(d, f)[r] <=> r \in f.roles
  BY <1>4
<1> QED
  BY <1>2, <1>4, <1>5, <1>6 DEF BoxesOf

\* A handler that leaves the filters alone and either renders the table or leaves
\* one that is right.
LEMMA TabKept ==
  ASSUME TabIInv, GoodDir(dir'), UNCHANGED nodesUI,
         tab' \in {"dashboard", "map", "nodes"}, mapReady' \in BOOLEAN,
         nodesBoxes' = nodesBoxes \/ nodesBoxes' = RoleBoxes(dir', nodesFilter),
         table' = Rows(dir', favs', nodesFilter) \/ (table' = table /\ TableTrue')
  PROVE  TabIInv'
<1>1. nodesFilter' = nodesFilter /\ panelOpen' = panelOpen
  BY DEF nodesUI
<1>2. BoxesOf(nodesBoxes', nodesFilter.roles)
  BY RoleBoxesRight DEF TabIInv
<1>3. table' \in Seq(Row)
  BY RowsRight DEF TabIInv, TabTypes
<1>4. TableTrue'
  BY <1>1 DEF TableTrue, TableNow
<1>5. TabTypes'
  BY <1>1, <1>3 DEF TabIInv, TabTypes
<1> QED
  BY <1>1, <1>2, <1>4, <1>5 DEF TabIInv, BoxesOf

\* nodesChanged leaves the table right if its tab is shown (nodes.js:643-659).
LEMMA NodesChangedRight ==
  ASSUME TabIInv, GoodDir(dir'), UNCHANGED <<nodesUI, tab, mapReady>>,
         NEW b, nodesChanged(dir', favs', b)
  PROVE  TabIInv'
<1>1. nodesBoxes' = nodesBoxes \/ nodesBoxes' = RoleBoxes(dir', nodesFilter)
  BY DEF nodesChanged, BoxesAfter
<1>2. table' = Rows(dir', favs', nodesFilter) \/ (table' = table /\ tab # "nodes")
  BY DEF nodesChanged, renderNodesTable
<1>3. tab' # "nodes" => TableTrue'
  BY DEF TableTrue
<1>4. tab' \in {"dashboard", "map", "nodes"} /\ mapReady' \in BOOLEAN
  BY DEF TabIInv, TabTypes
<1> QED
  BY <1>1, <1>2, <1>3, <1>4, TabKept

\* A handler that touches neither table nor filters: the rows are the same, or
\* there is no map yet.
LEMMA TabLeft ==
  ASSUME TabIInv, GoodDir(dir'), UNCHANGED <<nodesUI, tab, mapReady, tableVars>>,
         mapReady => Rows(dir', favs', nodesFilter) = Rows(dir, favs, nodesFilter)
  PROVE  TabIInv'
<1>1. TableTrue'
  BY DEF TabIInv, TableTrue, TableNow, nodesUI, tableVars
<1>2. tab' \in {"dashboard", "map", "nodes"} /\ mapReady' \in BOOLEAN
  BY DEF TabIInv, TabTypes
<1> QED
  BY <1>1, <1>2, TabKept DEF tableVars

\* A change of the table's filters renders it (nodes.js:18-115).
LEMMA FilterSet ==
  ASSUME TabIInv, GoodDir(dir), NEW f, NEW bx, SetNodesFilter(f, bx),
         f \in [roles : SUBSET Role, gps : BOOLEAN, realtime : BOOLEAN, desc : BOOLEAN],
         BoxesOf(bx, f.roles)
  PROVE  TabIInv'
<1>1. /\ nodesFilter' = f /\ nodesBoxes' = bx /\ table' = Rows(dir, favs, f)
      /\ dir' = dir /\ favs' = favs /\ UNCHANGED <<tab, panelOpen, mapReady>>
  BY DEF SetNodesFilter, renderNodesTable, dirVars
<1>2. table' \in Seq(Row)
  BY <1>1, RowsRight
<1>3. TabTypes'
  BY <1>1, <1>2 DEF TabIInv, TabTypes
<1>4. TableTrue'
  BY <1>1 DEF TableTrue, TableNow
<1>5. BoxesOf(nodesBoxes, nodesFilter.roles)'
  BY <1>1 DEF BoxesOf
<1> QED
  BY <1>3, <1>4, <1>5 DEF TabIInv

\* The page starts on another tab.
LEMMA InitTab == Init => TabIInv
<1> SUFFICES ASSUME Init PROVE TabIInv
  OBVIOUS
<1>1. TabTypes
  <2>1. NoFilter \in [roles : SUBSET Role, gps : BOOLEAN, realtime : BOOLEAN, desc : BOOLEAN]
    BY DEF NoFilter
  <2>2. <<>> \in Seq(Row)
    OBVIOUS
  <2> QED
    BY <2>1, <2>2 DEF Init, TabTypes
<1>2. BoxesOf(nodesBoxes, nodesFilter.roles)
  BY DEF Init, BoxesOf
<1>3. TableTrue
  BY DEF Init, TableTrue
<1> QED
  BY <1>1, <1>2, <1>3 DEF TabIInv

\* Every step keeps it.
LEMMA StepTab == FavIInv /\ TabIInv /\ [Next]_vars => TabIInv'
<1> SUFFICES ASSUME FavIInv, TabIInv, [Next]_vars PROVE TabIInv'
  OBVIOUS
<1>1. GoodDir(dir) /\ GoodDir(dir')
  BY StepFav DEF FavIInv, DirTyped
<1>2. TabTypes /\ BoxesOf(nodesBoxes, nodesFilter.roles)
  BY DEF TabIInv
<1>3. ASSUME UNCHANGED <<dirVars, tableVars, tab, nodesUI, mapReady>> PROVE TabIInv'
  BY <1>1, <1>3, TabLeft DEF dirVars
<1>4. ASSUME NEW d, MeshEvent(d)
      PROVE  dir' = d /\ favs' = favs /\ UNCHANGED <<nodesUI, tab, mapReady>>
  BY <1>4 DEF MeshEvent
<1>5. ASSUME NEW n \in Node, updateMapNode(n) PROVE TabIInv'
  <2> DEFINE d == [Heard(n) EXCEPT ![n].pos = TRUE]
  <2>1. /\ MeshEvent(d)
        /\ mapReady => nodesChanged(d, favs, TRUE)
        /\ ~mapReady => UNCHANGED tableVars
    BY <1>5 DEF updateMapNode
  <2> HIDE DEF d
  <2>2. dir' = d /\ favs' = favs /\ UNCHANGED <<nodesUI, tab, mapReady>>
    BY <1>4, <2>1
  <2>3. CASE mapReady
    BY <1>1, <2>1, <2>2, <2>3, NodesChangedRight
  <2>4. CASE ~mapReady
    BY <1>1, <2>1, <2>2, <2>4, TabLeft
  <2> QED
    BY <2>3, <2>4
<1>6. ASSUME NEW n \in Node, updateNodeTelemetry(n) PROVE TabIInv'
  <2>1. MeshEvent(Heard(n)) /\ nodesChanged(Heard(n), favs, TRUE)
    BY <1>6 DEF updateNodeTelemetry
  <2> QED
    BY <1>1, <1>4, <2>1, NodesChangedRight
<1>7. ASSUME NEW n \in Node, updateNodeSignal(n) PROVE TabIInv'
  <2> DEFINE d == [Heard(n) EXCEPT ![n].sig = TRUE]
  <2>1. MeshEvent(d) /\ nodesChanged(d, favs, TRUE)
    BY <1>7 DEF updateNodeSignal
  <2> HIDE DEF d
  <2> QED
    BY <1>1, <1>4, <2>1, NodesChangedRight
<1>8. ASSUME NEW n \in Node, NEW r \in Role \cup {NoRole}, updateNodeInfo(n, r) PROVE TabIInv'
  <2> DEFINE d == [Heard(n) EXCEPT ![n].role = IF r = NoRole THEN @ ELSE r]
  <2>1. MeshEvent(d) /\ nodesChanged(d, favs, r # NoRole)
    BY <1>8 DEF updateNodeInfo
  <2> HIDE DEF d
  <2> QED
    BY <1>1, <1>4, <2>1, NodesChangedRight
<1>9. ASSUME NEW n \in Node, GoesOffline(n) PROVE TabIInv'
  <2>1. UNCHANGED <<nodesUI, tab, mapReady, tableVars>> /\ favs' = favs
    BY <1>9 DEF GoesOffline
  <2>2. Rows(dir', favs, nodesFilter) = Rows(dir, favs, nodesFilter)
    BY <1>1, <1>9, OfflineKeepsRows
  <2> QED
    BY <1>1, <2>1, <2>2, TabLeft
<1>10. CASE \/ \E n \in Node, b \in BOOLEAN : OtherSetsFavorite(n, b)
            \/ \E n \in Node : ClickFavorite(n)
            \/ \E d \in Directories : ServerSendsDirectory(d) \/ NewStream(d)
            \/ \E r \in requests : ServerSetsFavorite(r) \/ publish(r) \/ FavoriteFails(r)
  BY <1>3, <1>10 DEF OtherSetsFavorite, ClickFavorite, ServerSendsDirectory, NewStream,
                     ServerSetsFavorite, publish, FavoriteFails
<1>11. CASE OnDirectory
  <2>1. /\ dir' = Head(feed).dir /\ favs' = Head(feed).favs
        /\ UNCHANGED <<nodesUI, tab, mapReady>>
        /\ mapReady => nodesChanged(Head(feed).dir, Head(feed).favs, TRUE)
        /\ ~mapReady => UNCHANGED tableVars
    BY <1>11 DEF OnDirectory, updateMapMarkers
  <2>2. CASE mapReady
    BY <1>1, <2>1, <2>2, NodesChangedRight
  <2>3. CASE ~mapReady
    BY <1>1, <2>1, <2>3, TabLeft
  <2> QED
    BY <2>2, <2>3
<1>12. ASSUME dir' = dir, UNCHANGED <<nodesUI, tab, mapReady>>,
              nodesBoxes' = nodesBoxes \/ nodesBoxes' = RoleBoxes(dir, nodesFilter),
              table' = Rows(dir, favs', nodesFilter)
       PROVE  TabIInv'
  <2>1. tab' \in {"dashboard", "map", "nodes"} /\ mapReady' \in BOOLEAN
    BY <1>2, <1>12 DEF TabTypes
  <2> QED
    BY <1>1, <1>12, <2>1, TabKept
<1>13. CASE OnFavorite
  <2> DEFINE n == Head(feed).node
             fs == SetFav(n, Head(feed).fav)
  <2>1. /\ dir' = dir /\ UNCHANGED <<nodesUI, tab, mapReady>>
        /\ n \in DOMAIN dir => /\ favs' = fs /\ table' = Rows(dir, fs, nodesFilter)
                               /\ nodesBoxes' = nodesBoxes \/ nodesBoxes' = BoxesAfter(dir, TRUE)
        /\ n \notin DOMAIN dir => UNCHANGED <<favs, tableVars>>
    BY <1>13 DEF OnFavorite, renderNodesTable
  <2>2. CASE n \in DOMAIN dir
    BY <1>12, <2>1, <2>2 DEF BoxesAfter
  <2>3. CASE n \notin DOMAIN dir
    BY <1>3, <2>1, <2>3 DEF dirVars
  <2> QED
    BY <2>2, <2>3
<1>14. ASSUME NEW r \in requests, FavoriteAnswered(r) PROVE TabIInv'
  <2>1. /\ dir' = dir /\ UNCHANGED <<nodesUI, tab, mapReady, nodesBoxes>>
        /\ r.node \in DOMAIN dir => table' = Rows(dir, favs', nodesFilter)
        /\ r.node \notin DOMAIN dir => UNCHANGED <<favs, table>>
    BY <1>14 DEF FavoriteAnswered, renderNodesTable
  <2>2. CASE r.node \in DOMAIN dir
    BY <1>12, <2>1, <2>2
  <2>3. CASE r.node \notin DOMAIN dir
    BY <1>3, <2>1, <2>3 DEF dirVars, tableVars
  <2> QED
    BY <2>2, <2>3
<1>15. ASSUME NEW t \in {"dashboard", "map", "nodes"}, switchTab(t) PROVE TabIInv'
  <2>1. /\ tab' = t /\ dir' = dir /\ favs' = favs /\ UNCHANGED <<nodesUI, nodesBoxes>>
        /\ t = "nodes" => table' = Rows(dir, favs, nodesFilter)
        /\ t # "nodes" => table' = table
        /\ mapReady' = (mapReady \/ t = "map")
    BY <1>15 DEF switchTab, renderNodesTable, dirVars
  <2>2. mapReady' \in BOOLEAN
    BY <2>1
  <2>3. t # "nodes" => TableTrue'
    BY <2>1 DEF TableTrue
  <2> QED
    BY <1>1, <2>1, <2>2, <2>3, TabKept
<1>16. CASE RefreshTable
  <2>1. /\ dir' = dir /\ favs' = favs /\ UNCHANGED <<nodesUI, tab, mapReady, nodesBoxes>>
        /\ table' = Rows(dir, favs, nodesFilter)
    BY <1>16 DEF RefreshTable, renderNodesTable, dirVars
  <2> QED
    BY <1>12, <2>1
<1>17. CASE toggleNodesFilters
  <2>1. /\ dir' = dir /\ favs' = favs /\ UNCHANGED <<nodesFilter, tab, table, mapReady>>
        /\ panelOpen' = ~panelOpen
        /\ nodesBoxes' = nodesBoxes \/ nodesBoxes' = RoleBoxes(dir, nodesFilter)
    BY <1>17 DEF toggleNodesFilters, dirVars
  <2>2. BoxesOf(nodesBoxes', nodesFilter.roles)
    BY <1>1, <1>2, <2>1, RoleBoxesRight
  <2>3. TabTypes'
    BY <1>2, <2>1 DEF TabTypes
  <2>4. TableTrue'
    BY <2>1 DEF TabIInv, TableTrue, TableNow
  <2> QED
    BY <2>1, <2>2, <2>3, <2>4 DEF TabIInv, BoxesOf
<1> DEFINE F == [roles : SUBSET Role, gps : BOOLEAN, realtime : BOOLEAN, desc : BOOLEAN]
<1>18. nodesFilter \in F
  BY <1>2 DEF TabTypes
<1>19. CASE ToggleNodesOption
  <2>1. ASSUME NEW f \in F, f.roles = nodesFilter.roles, SetNodesFilter(f, nodesBoxes)
        PROVE  TabIInv'
    BY <1>1, <1>2, <2>1, FilterSet DEF BoxesOf
  <2>2. /\ [nodesFilter EXCEPT !.realtime = ~@] \in F /\ [nodesFilter EXCEPT !.gps = ~@] \in F
        /\ [nodesFilter EXCEPT !.desc = ~@] \in F
        /\ [nodesFilter EXCEPT !.realtime = ~@].roles = nodesFilter.roles
        /\ [nodesFilter EXCEPT !.gps = ~@].roles = nodesFilter.roles
        /\ [nodesFilter EXCEPT !.desc = ~@].roles = nodesFilter.roles
    BY <1>18
  <2> HIDE DEF F
  <2> QED
    BY <1>19, <2>1, <2>2 DEF ToggleNodesOption
<1>20. CASE resetNodesFilters
  <2> DEFINE f == [nodesFilter EXCEPT !.roles = {}, !.gps = FALSE]
             bx == [r \in DOMAIN nodesBoxes |-> FALSE]
  <2>1. f \in F /\ f.roles = {}
    BY <1>18
  <2>2. BoxesOf(bx, {})
    BY <1>2 DEF BoxesOf
  <2>3. SetNodesFilter(f, bx)
    BY <1>20 DEF resetNodesFilters
  <2> HIDE DEF f, bx
  <2> QED
    BY <1>1, <2>1, <2>2, <2>3, FilterSet
<1>21. ASSUME NEW r \in Role, handleRoleCheckbox(r) PROVE TabIInv'
  <2> DEFINE on == ~nodesBoxes[r]
             f == [nodesFilter EXCEPT !.roles = IF on THEN @ \cup {r} ELSE @ \ {r}]
             bx == [nodesBoxes EXCEPT ![r] = on]
  <2>1. r \in DOMAIN nodesBoxes /\ SetNodesFilter(f, bx)
    BY <1>21 DEF handleRoleCheckbox
  <2>2. f \in F /\ f.roles = IF on THEN nodesFilter.roles \cup {r} ELSE nodesFilter.roles \ {r}
    BY <1>18
  <2>3. /\ DOMAIN bx = DOMAIN nodesBoxes /\ bx \in [DOMAIN nodesBoxes -> BOOLEAN]
        /\ bx[r] = on /\ \A q \in DOMAIN nodesBoxes : q # r => bx[q] = nodesBoxes[q]
    BY <1>2, <2>1 DEF BoxesOf
  <2> HIDE DEF f, bx
  <2>4. \A q \in DOMAIN bx : bx[q] <=> q \in f.roles
    BY <1>2, <2>2, <2>3 DEF BoxesOf
  <2>5. BoxesOf(bx, f.roles)
    BY <1>2, <2>3, <2>4 DEF BoxesOf
  <2> QED
    BY <1>1, <2>1, <2>2, <2>5, FilterSet
<1>22. ASSUME NEW cr, NEW bx, NEW st, SetMapFilter(cr, bx, st) PROVE TabIInv'
  BY <1>3, <1>22 DEF SetMapFilter
<1>23. CASE \/ \E r \in Role : RoleBoxChanged(r)
            \/ \E st \in {"all", "online", "offline"} : SetStatus(st)
            \/ ResetMapFilters
  BY <1>22, <1>23 DEF RoleBoxChanged, SetStatus, ResetMapFilters
<1>24. CASE SetHeatmap
  BY <1>3, <1>24 DEF SetHeatmap
<1>25. CASE UNCHANGED vars
  BY <1>3, <1>25 DEF vars
<1> QED
  BY <1>5, <1>6, <1>7, <1>8, <1>9, <1>10, <1>11, <1>13, <1>14, <1>15, <1>16, <1>17, <1>19, <1>20,
     <1>21, <1>23, <1>24, <1>25 DEF Next

\* The table shown is the directory's once there is a map (nodes.js:643-659).
THEOREM TableShown == Spec => []TableTrue
<1>1. TabIInv => TableTrue
  BY DEF TabIInv
<1> QED
  BY InitFav, StepFav, InitTab, StepTab, <1>1, PTL DEF Spec

\* The table shown has one row for each node that passes the filters, favourites
\* first and then in the direction chosen (nodes.js:178-224): whatever sequence
\* of rows the handlers left, none is missing or listed twice.
TableOrdered ==
  tab = "nodes" /\ mapReady =>
    /\ Len(table) = Cardinality(Listed(dir, nodesFilter))
    /\ \A i, j \in DOMAIN table :
         i < j => Above(table[i].node, table[j].node, favs, nodesFilter)

\* The sort has a result for any set of nodes, and the table shown is that.
THEOREM TableIsSorted == Spec => []TableOrdered
<1>1. FavIInv /\ TabIInv => TableOrdered
  <2> SUFFICES ASSUME FavIInv, TabIInv, tab = "nodes", mapReady
               PROVE  /\ Len(table) = Cardinality(Listed(dir, nodesFilter))
                      /\ \A i, j \in DOMAIN table :
                           i < j => Above(table[i].node, table[j].node, favs, nodesFilter)
    BY DEF TableOrdered
  <2>1. table = Rows(dir, favs, nodesFilter) /\ GoodDir(dir)
    BY DEF FavIInv, DirTyped, TabIInv, TableTrue, TableNow
  <2> QED
    BY <2>1, RowsRight
<1> QED
  BY InitFav, StepFav, InitTab, StepTab, <1>1, PTL DEF Spec

(***************************************************************************)
(* The map.                                                                *)
(***************************************************************************)
MapTypes ==
  /\ heatOn \in BOOLEAN /\ status \in {"all", "online", "offline"}
  /\ DOMAIN boxes \subseteq Role /\ boxes \in [DOMAIN boxes -> BOOLEAN]
  /\ onMap \subseteq markers /\ markers \subseteq Node /\ stale \subseteq Node
  /\ checkedRoles \in Seq(SUBSET Role) /\ heat \in Seq(SUBSET Node)

MapBoxesTell ==
  \A r \in DOMAIN boxes : boxes[r] <=> (checkedRoles = <<>> \/ r \in checkedRoles[1])

MapIInv == MapTypes /\ MapFollowsDirectory /\ FiltersApplied /\ MapBoxesTell

\* The heatmap that updateHeatmap leaves (app.js:1127-1177).
LEMMA HeatRight ==
  ASSUME NEW d, GoodDir(d), NEW on, updateHeatmap(d, on)
  PROVE  /\ heat' \in Seq(SUBSET Node)
         /\ heat' = IF on THEN <<getHeatmapPoints(d)>> ELSE <<>>
<1>1. getHeatmapPoints(d) \in SUBSET Node
  BY DEF getHeatmapPoints, Located, GoodDir
<1>2. <<getHeatmapPoints(d)>> \in Seq(SUBSET Node) /\ <<>> \in Seq(SUBSET Node)
  BY <1>1
<1>3. heat' = IF on THEN <<getHeatmapPoints(d)>> ELSE <<>>
  BY DEF updateHeatmap
<1> QED
  BY <1>2, <1>3

\* applyMapFilters, given markers with a position each (app.js:1330-1371).
LEMMA AppliedRight ==
  ASSUME NEW d, NEW ms, NEW cr, NEW bx, NEW st, applyMapFilters(d, ms, cr, bx, st)
  PROVE  /\ onMap' \subseteq ms /\ stale' = {}
         /\ \A n \in ms \cap Located(d) : n \in onMap' <=> Passes(d[n], cr, bx, st)
BY DEF applyMapFilters, Visible

\* The boxes rebuilt say what the filter does (app.js:1222-1254).
LEMMA RebuiltRight ==
  ASSUME MapTypes, MapBoxesTell, NEW d, GoodDir(d)
  PROVE  /\ DOMAIN Rebuilt(d) \subseteq Role /\ Rebuilt(d) \in [DOMAIN Rebuilt(d) -> BOOLEAN]
         /\ \A r \in DOMAIN Rebuilt(d) :
              Rebuilt(d)[r] <=> (checkedRoles = <<>> \/ r \in checkedRoles[1])
<1> DEFINE box(r) == IF checkedRoles # <<>> THEN r \in checkedRoles[1]
                     ELSE IF r \in DOMAIN boxes THEN boxes[r] ELSE TRUE
<1>1. \A n \in DOMAIN d : d[n].role \in Role \cup {NoRole}
  BY DEF GoodDir, Info
<1>2. RolesOf(d) \subseteq Role
  BY <1>1 DEF RolesOf
<1>3. Rebuilt(d) = [r \in RolesOf(d) |-> box(r)]
  BY DEF Rebuilt
<1>4. ASSUME NEW r
      PROVE  box(r) \in BOOLEAN /\ (box(r) <=> (checkedRoles = <<>> \/ r \in checkedRoles[1]))
  <2>1. CASE checkedRoles # <<>>
    BY <2>1
  <2>2. CASE checkedRoles = <<>> /\ r \in DOMAIN boxes
    <3>1. boxes[r] = TRUE
      BY <2>2 DEF MapTypes, MapBoxesTell
    <3> QED
      BY <2>2, <3>1
  <2>3. CASE checkedRoles = <<>> /\ r \notin DOMAIN boxes
    BY <2>3
  <2> QED
    BY <2>1, <2>2, <2>3
<1> HIDE DEF box
<1>5. DOMAIN Rebuilt(d) = RolesOf(d) /\ \A r \in RolesOf(d) : Rebuilt(d)[r] = box(r)
  BY <1>3
<1>6. Rebuilt(d) \in [RolesOf(d) -> BOOLEAN]
  BY <1>3, <1>4
<1> QED
  BY <1>2, <1>4, <1>5, <1>6

\* updateMapMarkers brings all of it up to date (app.js:618-662).
LEMMA RefreshRight ==
  ASSUME MapTypes, MapBoxesTell, GoodDir(dir'), RefreshMap(dir'),
         UNCHANGED <<checkedRoles, status, heatOn>>
  PROVE  MapIInv'
<1>1. /\ markers' = Located(dir') /\ boxes' = Rebuilt(dir')
      /\ applyMapFilters(dir', Located(dir'), checkedRoles, Rebuilt(dir'), status)
      /\ updateHeatmap(dir', heatOn)
  BY DEF RefreshMap
<1>2. Located(dir') \subseteq Node
  BY DEF Located, GoodDir
<1>3. /\ heat' \in Seq(SUBSET Node)
      /\ heat' = IF heatOn THEN <<getHeatmapPoints(dir')>> ELSE <<>>
  BY <1>1, HeatRight
<1>4. /\ onMap' \subseteq Located(dir') /\ stale' = {}
      /\ \A n \in Located(dir') :
           n \in onMap' <=> Passes(dir'[n], checkedRoles, Rebuilt(dir'), status)
  BY <1>1, AppliedRight
<1>5. /\ DOMAIN boxes' \subseteq Role /\ boxes' \in [DOMAIN boxes' -> BOOLEAN]
      /\ \A r \in DOMAIN boxes' : boxes'[r] <=> (checkedRoles = <<>> \/ r \in checkedRoles[1])
  BY <1>1, RebuiltRight
<1>6. MapTypes'
  BY <1>1, <1>2, <1>3, <1>4, <1>5 DEF MapTypes
<1>7. MapBoxesTell'
  BY <1>5 DEF MapBoxesTell
<1>8. MapFollowsDirectory'
  BY <1>1, <1>3 DEF MapFollowsDirectory, Located, getHeatmapPoints
<1>9. FiltersApplied'
  BY <1>1, <1>4 DEF FiltersApplied, Passes
<1> QED
  BY <1>6, <1>7, <1>8, <1>9 DEF MapIInv

\* A handler that changes an entry of the directory and neither markers nor
\* filters: the positions stay, the node is among those changed since the filters
\* were applied, and the heatmap is that of the new directory if there is one.
LEMMA EntryChanged ==
  ASSUME MapIInv, GoodDir(dir), GoodDir(dir'), NEW n \in Node,
         DOMAIN dir' = DOMAIN dir \cup {n},
         \A k \in DOMAIN dir : k # n => dir'[k] = dir[k],
         n \in Located(dir') <=> n \in Located(dir),
         UNCHANGED <<mapReady, mapUI, markers, onMap>>, stale' = stale \cup {n},
         heat' \in Seq(SUBSET Node),
         mapReady => heat' = IF heatOn THEN <<getHeatmapPoints(dir')>> ELSE <<>>
  PROVE  MapIInv'
<1>1. UNCHANGED <<checkedRoles, boxes, status, heatOn>>
  BY DEF mapUI
<1>2. Located(dir') = Located(dir)
  BY DEF Located
<1>3. MapTypes'
  BY <1>1 DEF MapIInv, MapTypes
<1>4. MapBoxesTell'
  BY <1>1 DEF MapIInv, MapBoxesTell
<1>5. MapFollowsDirectory'
  BY <1>1, <1>2 DEF MapIInv, MapFollowsDirectory, Located, getHeatmapPoints
<1>6. FiltersApplied'
  <2> SUFFICES ASSUME mapReady', NEW k \in markers' \ stale'
               PROVE  k \in onMap' <=> Passes(dir'[k], checkedRoles', boxes', status')
    BY DEF FiltersApplied, Passes
  <2>1. k \in markers \ stale /\ k # n /\ mapReady
    OBVIOUS
  <2>2. k \in DOMAIN dir
    BY <2>1 DEF MapIInv, MapFollowsDirectory, Located
  <2>3. dir'[k] = dir[k]
    BY <2>1, <2>2
  <2>4. k \in onMap <=> Passes(dir[k], checkedRoles, boxes, status)
    BY <2>1 DEF MapIInv, FiltersApplied
  <2> QED
    BY <1>1, <2>3, <2>4
<1> QED
  BY <1>3, <1>4, <1>5, <1>6 DEF MapIInv

\* A handler that applies the filters to the directory it leaves, with a marker
\* for every node that has a position.
LEMMA FiltersReapplied ==
  ASSUME MapIInv, mapReady, GoodDir(dir'), UNCHANGED <<mapReady, mapUI>>,
         markers' = Located(dir'),
         applyMapFilters(dir', markers', checkedRoles, boxes, status),
         heat' \in Seq(SUBSET Node),
         heat' = IF heatOn THEN <<getHeatmapPoints(dir')>> ELSE <<>>
  PROVE  MapIInv'
<1>1. UNCHANGED <<checkedRoles, boxes, status, heatOn>>
  BY DEF mapUI
<1>2. Located(dir') \subseteq Node
  BY DEF Located, GoodDir
<1>3. /\ onMap' \subseteq markers' /\ stale' = {}
      /\ \A n \in markers' \cap Located(dir') :
           n \in onMap' <=> Passes(dir'[n], checkedRoles, boxes, status)
  BY AppliedRight
<1>4. MapTypes'
  BY <1>1, <1>2, <1>3 DEF MapIInv, MapTypes
<1>5. MapBoxesTell'
  BY <1>1 DEF MapIInv, MapBoxesTell
<1>6. MapFollowsDirectory'
  BY <1>1 DEF MapFollowsDirectory, Located, getHeatmapPoints
<1>7. FiltersApplied'
  BY <1>1, <1>3 DEF FiltersApplied, Passes
<1> QED
  BY <1>4, <1>5, <1>6, <1>7 DEF MapIInv

\* Without a map there is nothing to keep but types and boxes.
LEMMA NoMapYet ==
  ASSUME MapIInv, ~mapReady', UNCHANGED <<mapUI, markers, heat>>,
         onMap' = onMap, stale' \subseteq Node
  PROVE  MapIInv'
<1>1. MapTypes' /\ MapBoxesTell'
  BY DEF MapIInv, MapTypes, MapBoxesTell, mapUI
<1>2. MapFollowsDirectory' /\ FiltersApplied'
  BY DEF MapFollowsDirectory, FiltersApplied
<1> QED
  BY <1>1, <1>2 DEF MapIInv

\* A change of the map's filters applies them (app.js:1373-1402).
LEMMA MapFilterSet ==
  ASSUME MapIInv, GoodDir(dir), NEW cr, NEW bx, NEW st, SetMapFilter(cr, bx, st),
         cr \in Seq(SUBSET Role), st \in {"all", "online", "offline"},
         DOMAIN bx \subseteq Role, bx \in [DOMAIN bx -> BOOLEAN],
         \A r \in DOMAIN bx : bx[r] <=> (cr = <<>> \/ r \in cr[1]),
         heatOn' \in BOOLEAN, heat' \in Seq(SUBSET Node),
         mapReady => heat' = IF heatOn' THEN <<getHeatmapPoints(dir)>> ELSE <<>>
  PROVE  MapIInv'
<1>1. /\ checkedRoles' = cr /\ boxes' = bx /\ status' = st
      /\ applyMapFilters(dir, markers, cr, bx, st)
      /\ dir' = dir /\ UNCHANGED <<mapReady, markers>>
  BY DEF SetMapFilter, dirVars
<1>2. /\ onMap' \subseteq markers /\ stale' = {}
      /\ \A n \in markers \cap Located(dir) : n \in onMap' <=> Passes(dir[n], cr, bx, st)
  BY <1>1, AppliedRight
<1>3. MapTypes'
  BY <1>1, <1>2 DEF MapIInv, MapTypes
<1>4. MapBoxesTell'
  BY <1>1 DEF MapBoxesTell
<1>5. MapFollowsDirectory'
  BY <1>1 DEF MapIInv, MapFollowsDirectory, Located, getHeatmapPoints
<1>6. FiltersApplied'
  BY <1>1, <1>2 DEF MapIInv, MapFollowsDirectory, FiltersApplied, Passes
<1> QED
  BY <1>3, <1>4, <1>5, <1>6 DEF MapIInv

\* There is no map at first.
LEMMA InitMap == Init => MapIInv
<1> SUFFICES ASSUME Init PROVE MapIInv
  OBVIOUS
<1>1. <<>> \in Seq(SUBSET Role) /\ <<>> \in Seq(SUBSET Node)
  OBVIOUS
<1>2. MapTypes
  <2>1. boxes = <<>> /\ checkedRoles = <<>> /\ heat = <<>>
    BY DEF Init
  <2>2. DOMAIN boxes = {} /\ boxes \in [DOMAIN boxes -> BOOLEAN]
    BY <2>1
  <2>3. checkedRoles \in Seq(SUBSET Role) /\ heat \in Seq(SUBSET Node)
    BY <1>1, <2>1
  <2>4. /\ heatOn \in BOOLEAN /\ status \in {"all", "online", "offline"}
        /\ onMap = {} /\ markers = {} /\ stale = {}
    BY DEF Init
  <2> QED
    BY <2>2, <2>3, <2>4 DEF MapTypes
<1>3. MapBoxesTell
  BY DEF Init, MapBoxesTell
<1>4. MapFollowsDirectory /\ FiltersApplied
  BY DEF Init, MapFollowsDirectory, FiltersApplied
<1> QED
  BY <1>2, <1>3, <1>4 DEF MapIInv

\* Every step keeps it.
LEMMA StepMap == FavIInv /\ MapIInv /\ [Next]_vars => MapIInv'
<1> SUFFICES ASSUME FavIInv, MapIInv, [Next]_vars PROVE MapIInv'
  OBVIOUS
<1>1. GoodDir(dir) /\ GoodDir(dir')
  BY StepFav DEF FavIInv, DirTyped
<1>2. MapTypes /\ MapBoxesTell
  BY DEF MapIInv
<1>3. ASSUME UNCHANGED <<dir, mapReady, mapVars, mapUI>> PROVE MapIInv'
  <2>1. MapTypes' /\ MapBoxesTell'
    BY <1>2, <1>3 DEF MapTypes, MapBoxesTell, mapVars, mapUI
  <2>2. MapFollowsDirectory'
    BY <1>3 DEF MapIInv, MapFollowsDirectory, Located, getHeatmapPoints, mapVars, mapUI
  <2>3. FiltersApplied'
    BY <1>3 DEF MapIInv, FiltersApplied, Passes, mapVars, mapUI
  <2> QED
    BY <2>1, <2>2, <2>3 DEF MapIInv
<1>4. ASSUME NEW d, MeshEvent(d) PROVE dir' = d /\ UNCHANGED <<mapReady, mapUI>>
  BY <1>4 DEF MeshEvent
<1>5. ASSUME NEW n \in Node
      PROVE  /\ Heard(n) \in [DOMAIN dir \cup {n} -> Info]
             /\ \A k \in DOMAIN dir : k # n => Heard(n)[k] = dir[k]
             /\ n \in Located(Heard(n)) <=> n \in Located(dir)
             /\ n \in getHeatmapPoints(Heard(n)) <=> n \in getHeatmapPoints(dir)
  <2>1. /\ Heard(n) \in [DOMAIN dir \cup {n} -> Info]
        /\ \A k \in DOMAIN dir : k # n => Heard(n)[k] = dir[k]
        /\ n \in DOMAIN dir => /\ Heard(n)[n].pos = dir[n].pos
                               /\ Heard(n)[n].sig = dir[n].sig
        /\ n \notin DOMAIN dir => Heard(n)[n].pos = FALSE /\ Heard(n)[n].sig = FALSE
    BY <1>1, HeardRight
  <2>2. n \in Located(Heard(n)) <=> n \in Located(dir)
    BY <2>1 DEF Located
  <2>3. n \in getHeatmapPoints(Heard(n)) <=> n \in getHeatmapPoints(dir)
    BY <2>1, <2>2 DEF getHeatmapPoints, Located
  <2> QED
    BY <2>1, <2>2, <2>3
<1>6. ASSUME NEW n \in Node, updateMapNode(n) PROVE MapIInv'
  <2> DEFINE d == [Heard(n) EXCEPT ![n].pos = TRUE]
  <2>1. /\ MeshEvent(d)
        /\ mapReady => /\ markers' = markers \cup {n}
                       /\ applyMapFilters(d, markers \cup {n}, checkedRoles, boxes, status)
                       /\ updateHeatmap(d, heatOn)
        /\ ~mapReady => UNCHANGED mapVars
    BY <1>6 DEF updateMapNode
  <2>2. /\ DOMAIN d = DOMAIN dir \cup {n}
        /\ \A k \in DOMAIN dir : k # n => d[k] = dir[k]
        /\ d[n].pos = TRUE
    BY <1>5, ChangedEntry DEF Info
  <2> HIDE DEF d
  <2>3. dir' = d /\ UNCHANGED <<mapReady, mapUI>>
    BY <1>4, <2>1
  <2>4. CASE mapReady
    <3>1. Located(d) = Located(dir) \cup {n}
      BY <2>2 DEF Located
    <3>2. markers' = Located(dir')
      BY <2>1, <2>3, <2>4, <3>1 DEF MapIInv, MapFollowsDirectory
    <3>3. heat' \in Seq(SUBSET Node) /\ heat' = IF heatOn THEN <<getHeatmapPoints(d)>> ELSE <<>>
      BY <1>1, <2>1, <2>3, <2>4, HeatRight
    <3> QED
      BY <1>1, <2>1, <2>3, <2>4, <3>2, <3>3, FiltersReapplied
  <2>5. CASE ~mapReady
    BY <1>2, <2>1, <2>3, <2>5, NoMapYet DEF mapVars, MapTypes
  <2> QED
    BY <2>4, <2>5
<1>7. ASSUME NEW n \in Node, updateNodeTelemetry(n) PROVE MapIInv'
  <2> DEFINE d == Heard(n)
  <2>1. /\ MeshEvent(d) /\ UNCHANGED <<markers, heat>>
        /\ mapReady => applyMapFilters(d, markers, checkedRoles, boxes, status)
        /\ ~mapReady => UNCHANGED <<onMap, stale>>
    BY <1>7 DEF updateNodeTelemetry
  <2>2. /\ d \in [DOMAIN dir \cup {n} -> Info]
        /\ \A k \in DOMAIN dir : k # n => d[k] = dir[k]
        /\ n \in Located(d) <=> n \in Located(dir)
        /\ n \in getHeatmapPoints(d) <=> n \in getHeatmapPoints(dir)
    BY <1>5
  <2> HIDE DEF d
  <2>3. dir' = d /\ UNCHANGED <<mapReady, mapUI>>
    BY <1>4, <2>1
  <2>4. CASE mapReady
    <3>1. Located(d) = Located(dir)
      BY <2>2 DEF Located
    <3>2. getHeatmapPoints(d) = getHeatmapPoints(dir)
      BY <2>2 DEF getHeatmapPoints, Located
    <3>3. markers' = Located(dir')
      BY <2>1, <2>3, <2>4, <3>1 DEF MapIInv, MapFollowsDirectory
    <3>4. heat' \in Seq(SUBSET Node) /\ heat' = IF heatOn THEN <<getHeatmapPoints(d)>> ELSE <<>>
      BY <1>2, <2>1, <2>4, <3>2 DEF MapIInv, MapFollowsDirectory, MapTypes
    <3>5. markers' = markers
      BY <2>1
    <3> QED
      BY <1>1, <2>1, <2>3, <2>4, <3>3, <3>4, <3>5, FiltersReapplied
  <2>5. CASE ~mapReady
    BY <1>2, <2>1, <2>3, <2>5, NoMapYet DEF MapTypes
  <2> QED
    BY <2>4, <2>5
<1>8. ASSUME NEW n \in Node, updateNodeSignal(n) PROVE MapIInv'
  <2> DEFINE d == [Heard(n) EXCEPT ![n].sig = TRUE]
  <2>1. /\ MeshEvent(d) /\ stale' = stale \cup {n} /\ UNCHANGED <<markers, onMap>>
        /\ mapReady => updateHeatmap(d, heatOn)
        /\ ~mapReady => heat' = heat
    BY <1>8 DEF updateNodeSignal
  <2>2. Heard(n)[n] \in Info
    BY <1>5
  <2>3. /\ DOMAIN d = DOMAIN dir \cup {n} /\ \A k \in DOMAIN dir : k # n => d[k] = dir[k]
        /\ d[n].pos = Heard(n)[n].pos
    BY <1>5, <2>2 DEF Info
  <2>4. n \in Located(d) <=> n \in Located(dir)
    BY <1>5, <2>3 DEF Located
  <2> HIDE DEF d
  <2>5. dir' = d /\ UNCHANGED <<mapReady, mapUI>>
    BY <1>4, <2>1
  <2>6. /\ heat' \in Seq(SUBSET Node)
        /\ mapReady => heat' = IF heatOn THEN <<getHeatmapPoints(dir')>> ELSE <<>>
    BY <1>1, <1>2, <2>1, <2>5, HeatRight DEF MapTypes
  <2> QED
    BY <1>1, <2>1, <2>3, <2>4, <2>5, <2>6, EntryChanged
<1>9. ASSUME NEW n \in Node, DOMAIN dir' = DOMAIN dir \cup {n},
             \A k \in DOMAIN dir : k # n => dir'[k] = dir[k],
             n \in Located(dir') <=> n \in Located(dir),
             n \in getHeatmapPoints(dir') <=> n \in getHeatmapPoints(dir),
             UNCHANGED <<mapReady, mapUI, markers, onMap, heat>>, stale' = stale \cup {n}
      PROVE  MapIInv'
  <2>1. getHeatmapPoints(dir') = getHeatmapPoints(dir)
    BY <1>9 DEF getHeatmapPoints, Located
  <2>2. /\ heat' \in Seq(SUBSET Node)
        /\ mapReady => heat' = IF heatOn THEN <<getHeatmapPoints(dir')>> ELSE <<>>
    BY <1>2, <1>9, <2>1 DEF MapIInv, MapTypes, MapFollowsDirectory
  <2> QED
    BY <1>1, <1>9, <2>2, EntryChanged
<1>10. ASSUME NEW n \in Node, NEW r \in Role \cup {NoRole}, updateNodeInfo(n, r) PROVE MapIInv'
  <2> DEFINE d == [Heard(n) EXCEPT ![n].role = IF r = NoRole THEN @ ELSE r]
  <2>1. MeshEvent(d) /\ stale' = stale \cup {n} /\ UNCHANGED <<markers, onMap, heat>>
    BY <1>10 DEF updateNodeInfo
  <2>2. Heard(n)[n] \in Info
    BY <1>5
  <2>3. /\ DOMAIN d = DOMAIN dir \cup {n} /\ \A k \in DOMAIN dir : k # n => d[k] = dir[k]
        /\ d[n].pos = Heard(n)[n].pos /\ d[n].sig = Heard(n)[n].sig
    BY <1>5, <2>2 DEF Info
  <2>4. n \in Located(d) <=> n \in Located(dir)
    BY <1>5, <2>3 DEF Located
  <2>5. n \in getHeatmapPoints(d) <=> n \in getHeatmapPoints(dir)
    BY <1>5, <2>3 DEF getHeatmapPoints, Located
  <2> HIDE DEF d
  <2>6. dir' = d /\ UNCHANGED <<mapReady, mapUI>>
    BY <1>4, <2>1
  <2> QED
    BY <1>9, <2>1, <2>3, <2>4, <2>5, <2>6
<1>11. ASSUME NEW n \in Node, GoesOffline(n) PROVE MapIInv'
  <2>1. /\ n \in DOMAIN dir /\ dir' = [dir EXCEPT ![n].online = FALSE]
        /\ stale' = stale \cup {n} /\ UNCHANGED <<mapReady, mapUI, markers, onMap, heat>>
    BY <1>11 DEF GoesOffline
  <2>2. dir[n] \in Info
    BY <1>1, <2>1 DEF GoodDir
  <2>3. /\ DOMAIN dir' = DOMAIN dir \cup {n} /\ \A k \in DOMAIN dir : k # n => dir'[k] = dir[k]
        /\ dir'[n].pos = dir[n].pos /\ dir'[n].sig = dir[n].sig
    BY <2>1, <2>2 DEF Info
  <2>4. n \in Located(dir') <=> n \in Located(dir)
    BY <2>1, <2>3 DEF Located
  <2>5. n \in getHeatmapPoints(dir') <=> n \in getHeatmapPoints(dir)
    BY <2>1, <2>3 DEF getHeatmapPoints, Located
  <2> QED
    BY <1>9, <2>1, <2>3, <2>4, <2>5
<1>12. CASE \/ \E n \in Node, b \in BOOLEAN : OtherSetsFavorite(n, b)
            \/ \E n \in Node : ClickFavorite(n)
            \/ \E d \in Directories : ServerSendsDirectory(d) \/ NewStream(d)
            \/ \E r \in requests : ServerSetsFavorite(r) \/ publish(r) \/ FavoriteFails(r) \/ FavoriteAnswered(r)
  BY <1>3, <1>12 DEF OtherSetsFavorite, ClickFavorite, ServerSendsDirectory, NewStream,
                     ServerSetsFavorite, publish, FavoriteFails, FavoriteAnswered, dirVars
<1>13. CASE OnDirectory
  <2>1. /\ dir' = Head(feed).dir /\ UNCHANGED <<mapReady, checkedRoles, status, heatOn>>
        /\ mapReady => RefreshMap(Head(feed).dir)
        /\ ~mapReady => UNCHANGED <<mapVars, boxes>>
    BY <1>13 DEF OnDirectory, updateMapMarkers
  <2>2. CASE mapReady
    BY <1>1, <1>2, <2>1, <2>2, RefreshRight
  <2>3. CASE ~mapReady
    BY <1>2, <2>1, <2>3, NoMapYet DEF mapVars, mapUI, MapTypes
  <2> QED
    BY <2>2, <2>3
<1>14. CASE OnFavorite
  <2>1. /\ dir' = dir /\ UNCHANGED <<mapReady, checkedRoles, status, heatOn>>
        /\ RefreshMap(dir) \/ UNCHANGED <<mapVars, boxes>>
    BY <1>14 DEF OnFavorite
  <2>2. CASE RefreshMap(dir)
    BY <1>1, <1>2, <2>1, <2>2, RefreshRight
  <2>3. CASE UNCHANGED <<mapVars, boxes>>
    BY <1>3, <2>1, <2>3 DEF mapUI
  <2> QED
    BY <2>1, <2>2, <2>3
<1>15. ASSUME NEW t \in {"dashboard", "map", "nodes"}, switchTab(t) PROVE MapIInv'
  <2>1. /\ dir' = dir /\ UNCHANGED <<checkedRoles, status, heatOn>>
        /\ mapReady' = (mapReady \/ t = "map")
        /\ t = "map" /\ ~mapReady => RefreshMap(dir)
        /\ ~(t = "map" /\ ~mapReady) => UNCHANGED <<mapVars, boxes>>
    BY <1>15 DEF switchTab, dirVars
  <2>2. CASE t = "map" /\ ~mapReady
    BY <1>1, <1>2, <2>1, <2>2, RefreshRight
  <2>3. CASE mapReady
    <3>1. mapReady' <=> mapReady
      BY <2>1, <2>3
    <3>2. UNCHANGED <<dir, mapVars, mapUI>>
      BY <2>1, <2>3 DEF mapUI
    <3>3. MapTypes' /\ MapBoxesTell'
      BY <1>2, <3>2 DEF MapTypes, MapBoxesTell, mapVars, mapUI
    <3>4. MapFollowsDirectory'
      BY <2>3, <3>2 DEF MapIInv, MapFollowsDirectory, Located, getHeatmapPoints, mapVars, mapUI
    <3>5. FiltersApplied'
      BY <2>3, <3>2 DEF MapIInv, FiltersApplied, Passes, mapVars, mapUI
    <3> QED
      BY <3>3, <3>4, <3>5 DEF MapIInv
  <2>4. CASE ~mapReady /\ t # "map"
    <3>1. ~mapReady' /\ UNCHANGED <<mapVars, mapUI>>
      BY <2>1, <2>4 DEF mapUI
    <3> QED
      BY <1>2, <3>1, NoMapYet DEF mapVars, MapTypes
  <2> QED
    BY <2>2, <2>3, <2>4
<1>16. ASSUME NEW f, NEW bx, SetNodesFilter(f, bx) PROVE MapIInv'
  BY <1>3, <1>16 DEF SetNodesFilter, dirVars
<1>17. CASE \/ RefreshTable \/ toggleNodesFilters \/ ToggleNodesOption \/ resetNodesFilters
            \/ \E r \in Role : handleRoleCheckbox(r)
  BY <1>3, <1>16, <1>17 DEF RefreshTable, toggleNodesFilters, ToggleNodesOption, resetNodesFilters,
                            handleRoleCheckbox, dirVars
<1>18. ASSUME NEW r \in Role, RoleBoxChanged(r) PROVE MapIInv'
  <2> DEFINE bx == [boxes EXCEPT ![r] = ~@]
             cr == syncCheckedState(bx)
  <2>1. r \in DOMAIN boxes /\ SetMapFilter(cr, bx, status) /\ UNCHANGED <<heatOn, heat>>
    BY <1>18 DEF RoleBoxChanged
  <2>2. DOMAIN bx = DOMAIN boxes /\ bx \in [DOMAIN boxes -> BOOLEAN] /\ DOMAIN boxes \subseteq Role
    BY <1>2, <2>1 DEF MapTypes
  <2> HIDE DEF bx
  <2>3. cr = <<{q \in DOMAIN bx : bx[q]}>>
    BY DEF syncCheckedState
  <2>4. {q \in DOMAIN bx : bx[q]} \in SUBSET Role
    BY <2>2
  <2>5. cr \in Seq(SUBSET Role) /\ cr # <<>> /\ cr[1] = {q \in DOMAIN bx : bx[q]}
    BY <2>3, <2>4
  <2> HIDE DEF cr
  <2>6. \A q \in DOMAIN bx : bx[q] <=> (cr = <<>> \/ q \in cr[1])
    BY <2>5
  <2>7. /\ heatOn' \in BOOLEAN /\ heat' \in Seq(SUBSET Node) /\ status \in {"all", "online", "offline"}
        /\ mapReady => heat' = IF heatOn' THEN <<getHeatmapPoints(dir)>> ELSE <<>>
    BY <1>2, <2>1 DEF MapIInv, MapTypes, MapFollowsDirectory
  <2> QED
    BY <1>1, <2>1, <2>2, <2>5, <2>6, <2>7, MapFilterSet
<1>19. ASSUME NEW st \in {"all", "online", "offline"}, SetStatus(st) PROVE MapIInv'
  <2>1. SetMapFilter(checkedRoles, boxes, st) /\ UNCHANGED <<heatOn, heat>>
    BY <1>19 DEF SetStatus
  <2>2. /\ heatOn' \in BOOLEAN /\ heat' \in Seq(SUBSET Node)
        /\ mapReady => heat' = IF heatOn' THEN <<getHeatmapPoints(dir)>> ELSE <<>>
    BY <1>2, <2>1 DEF MapIInv, MapTypes, MapFollowsDirectory
  <2>3. /\ checkedRoles \in Seq(SUBSET Role)
        /\ DOMAIN boxes \subseteq Role /\ boxes \in [DOMAIN boxes -> BOOLEAN]
        /\ \A r \in DOMAIN boxes : boxes[r] <=> (checkedRoles = <<>> \/ r \in checkedRoles[1])
    BY <1>2 DEF MapTypes, MapBoxesTell
  <2> QED
    BY <1>1, <2>1, <2>2, <2>3, MapFilterSet
<1>20. CASE ResetMapFilters
  <2> DEFINE bx == [r \in DOMAIN boxes |-> TRUE]
  <2>1. SetMapFilter(<<>>, bx, "all") /\ heatOn' = FALSE /\ updateHeatmap(dir, FALSE)
    BY <1>20 DEF ResetMapFilters
  <2>2. heat' \in Seq(SUBSET Node) /\ heat' = <<>>
    BY <1>1, <2>1, HeatRight
  <2>3. /\ DOMAIN bx \subseteq Role /\ bx \in [DOMAIN bx -> BOOLEAN]
        /\ \A r \in DOMAIN bx : bx[r] = TRUE
    BY <1>2 DEF MapTypes
  <2> HIDE DEF bx
  <2>4. <<>> \in Seq(SUBSET Role) /\ "all" \in {"all", "online", "offline"}
    OBVIOUS
  <2>5. \A r \in DOMAIN bx : bx[r] <=> (<<>> = <<>> \/ r \in <<>>[1])
    BY <2>3
  <2>6. heatOn' \in BOOLEAN /\ (mapReady => heat' = IF heatOn' THEN <<getHeatmapPoints(dir)>> ELSE <<>>)
    BY <2>1, <2>2
  <2> QED
    BY <1>1, <2>1, <2>2, <2>3, <2>4, <2>5, <2>6, MapFilterSet
<1>21. CASE SetHeatmap
  <2>1. /\ heatOn' = ~heatOn /\ updateHeatmap(dir, ~heatOn) /\ dir' = dir
        /\ UNCHANGED <<mapReady, markers, onMap, stale, checkedRoles, boxes, status>>
    BY <1>21 DEF SetHeatmap, dirVars
  <2>2. /\ heat' \in Seq(SUBSET Node)
        /\ heat' = IF ~heatOn THEN <<getHeatmapPoints(dir)>> ELSE <<>>
    BY <1>1, <2>1, HeatRight
  <2>3. MapTypes' /\ MapBoxesTell'
    BY <1>2, <2>1, <2>2 DEF MapTypes, MapBoxesTell
  <2>4. MapFollowsDirectory'
    BY <2>1, <2>2 DEF MapIInv, MapFollowsDirectory, Located, getHeatmapPoints
  <2>5. FiltersApplied'
    BY <2>1 DEF MapIInv, FiltersApplied, Passes
  <2> QED
    BY <2>3, <2>4, <2>5 DEF MapIInv
<1>22. CASE UNCHANGED vars
  BY <1>3, <1>22 DEF vars, dirVars
<1> QED
  BY <1>6, <1>7, <1>8, <1>10, <1>11, <1>12, <1>13, <1>14, <1>15, <1>17, <1>18, <1>19, <1>20, <1>21,
     <1>22 DEF Next

\* Types hold, and map and boxes say what directory and filters do, whichever of
\* the handlers ran (app.js:615-813, 1126-1402; nodes.js:18-146).
THEOREM MapSound == Spec => []MapInv
<1>1. FavIInv /\ TabIInv /\ MapIInv => MapInv
  <2> SUFFICES ASSUME FavIInv, TabIInv, MapIInv PROVE MapInv
    OBVIOUS
  <2>1. TypeOK
    BY DEF FavIInv, ServerTyped, DirTyped, GoodDir, TabIInv, TabTypes, BoxesOf, MapIInv, MapTypes,
           Row, TypeOK
  <2>2. BoxesTell
    BY DEF TabIInv, BoxesOf, MapIInv, MapBoxesTell, BoxesTell
  <2> QED
    BY <2>1, <2>2 DEF MapIInv, MapInv
<1> QED
  BY InitFav, StepFav, InitTab, StepTab, InitMap, StepMap, <1>1, PTL DEF Spec
=============================================================================

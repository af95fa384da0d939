------------------------ MODULE NodeDirectoryProofs ------------------------
(***************************************************************************)
(* Proofs about NodeDirectory, for any nodes, packets, config sequences,   *)
(* buffer and number of requests: the relay index repeats no node, the     *)
(* runtime fields of a node survive the replacement of the directory, and  *)
(* a browser that missed no event shows the directory, with its            *)
(* favourites, in the end.                                                 *)
(***************************************************************************)
EXTENDS NodeDirectory, SequenceTheorems, FiniteSetTheorems, WellFoundedInduction, TLAPS

UpdateType ==
  [op : {"directory", "position", "metric", "node"}, node : Node \cup {0},
   name : Name, val : Amount, frames : Seq(NodeInfoType)]

Directory == UNION {[D -> Entry] : D \in SUBSET Node}

\* An event names a node, or one of the map objects installed so far.
NamesNode(e) == e.node \in Node /\ e.type # "node_directory"
NamesMap(e)  == e.type = "node_directory" /\ e.map \in 1 .. Len(maps)
Sound(e)     == e \in EventType /\ (NamesNode(e) \/ NamesMap(e))

\* What the read loop has in hand: a directory comes alone.
ReaderTyped ==
  /\ todo \in Seq(UpdateType) /\ Len(todo) <= 2
  /\ \A i \in 1 .. Len(todo) : IF todo[i].op = "directory" THEN Len(todo) = 1
                                                           ELSE todo[i].node \in Node
  /\ evt \in Seq(EventType) /\ Len(evt) <= 1
  /\ evt # <<>> => todo # <<>> /\ Sound(evt[1])

\* While a directory waits for its swap, one more config sequence has ended
\* than maps were installed.
MapsTyped ==
  /\ maps \in Seq(Directory) /\ Len(maps) >= 1
  /\ Len(maps) <= configs + 1
  /\ todo # <<>> /\ todo[1].op = "directory" /\ evt = <<>> => Len(maps) <= configs

FavTyped ==
  /\ fav \in [Handler -> Seq(EventType)]
  /\ \A h \in Handler : \A i \in 1 .. Len(fav[h]) : NamesNode(fav[h][i])

StreamTyped ==
  /\ queue \in Seq(EventType) /\ Len(queue) <= Buffer
  /\ \A i \in 1 .. Len(queue) : Sound(queue[i])
  /\ stream \in {"off", "subscribed", "loop", "encoding"}
  /\ stream = "encoding" => hand.map \in 1 .. Len(maps) /\ hand.was \in Directory
  /\ view \in Directory

CountsTyped ==
  /\ crashed \in BOOLEAN /\ missed \in BOOLEAN /\ raced \subseteq Node
  /\ reads \in 0 .. MaxPackets /\ configs \in 0 .. MaxConfigs
  /\ favorites \in 0 .. MaxFavorites /\ connects \in 0 .. MaxConnects

\* A relay index of nodes of D: byte keys, and RelayIndexSound with the bags
\* as functions.
GoodIndex(r, D) ==
  /\ DOMAIN r \subseteq 0 .. 255
  /\ \A b \in DOMAIN r : \A n \in DOMAIN r[b] :
       n \in Node /\ n \in D /\ n % 256 = b /\ r[b][n] = 1

IndexRight == GoodIndex(relayDir, DOMAIN nodeDir)

DirIInv == ReaderTyped /\ MapsTyped /\ FavTyped /\ StreamTyped /\ CountsTyped /\ IndexRight

(***************************************************************************)
(* Lemmas about naturals, directories and updates.                         *)
(***************************************************************************)
\* A set of naturals has a least one: the intervals up to its members are finite
\* sets, and strict inclusion is well founded on those.
LEMMA LeastNatural ==
  ASSUME NEW T, T \subseteq Nat, T # {}
  PROVE  \E x \in T : \A y \in T : x <= y
<1> DEFINE P == {1 .. n : n \in T}
           R == StrictSubsetOrdering(Nat)
           F == FiniteSubsetsOf(Nat)
<1>1. IsWellFoundedOn(R, F)
  BY FS_StrictSubsetOrderingWellFounded
<1>2. P \subseteq F /\ P # {}
  <2>1. ASSUME NEW n \in T PROVE 1 .. n \in F
    <3>1. IsFiniteSet(1 .. n)
      BY FS_Interval
    <3> QED
      BY <3>1 DEF FiniteSubsetsOf
  <2> QED
    BY <2>1
<1> HIDE DEF R, F, P
<1>3. \E p \in P : \A q \in P : ~ (<<q, p>> \in R)
  BY <1>1, <1>2, WFMin
<1>4. PICK x \in T : \A y \in T : ~ (<<1 .. y, 1 .. x>> \in R)
  BY <1>3 DEF P
<1>5. ASSUME NEW y \in T PROVE x <= y
  <2>1. ~ (<<1 .. y, 1 .. x>> \in R) /\ x \in Nat /\ y \in Nat
    BY <1>4
  <2>2. CASE y < x
    <3>1. 1 .. y \subseteq 1 .. x /\ x \in 1 .. x /\ x \notin 1 .. y
      BY <2>1, <2>2
    <3>2. 1 .. y \in SUBSET Nat /\ 1 .. x \in SUBSET Nat /\ 1 .. y # 1 .. x
      BY <2>1, <3>1
    <3> QED
      BY <2>1, <3>1, <3>2 DEF R, StrictSubsetOrdering
  <2> QED
    BY <2>1, <2>2
<1> QED
  BY <1>5

\* A node that has a frame has a last one: the CHOOSE of ExtractNodeDirectory is
\* that of an index.
LEMMA LastFrame ==
  ASSUME NEW frames \in Seq(NodeInfoType), NEW n, \E i \in DOMAIN frames : frames[i].num = n
  PROVE  \E i \in DOMAIN frames :
           frames[i].num = n /\ \A j \in DOMAIN frames : frames[j].num = n => j <= i
<1>1. Len(frames) \in Nat /\ DOMAIN frames = 1 .. Len(frames)
  OBVIOUS
<1> DEFINE T == {Len(frames) - i : i \in {j \in DOMAIN frames : frames[j].num = n}}
<1>2. T \subseteq Nat /\ T # {}
  BY <1>1
<1>3. PICK x \in T : \A y \in T : x <= y
  BY <1>2, LeastNatural
<1>4. PICK i \in DOMAIN frames : frames[i].num = n /\ x = Len(frames) - i
  BY <1>3
<1>5. ASSUME NEW j \in DOMAIN frames, frames[j].num = n PROVE j <= i
  <2>1. Len(frames) - j \in T
    BY <1>5
  <2>2. Len(frames) - i <= Len(frames) - j
    BY <1>3, <1>4, <2>1
  <2> QED
    BY <1>1, <2>2
<1> QED
  BY <1>4, <1>5

\* The directory of a config sequence is one (extract.go, ExtractNodeDirectory).
LEMMA ExtractedIsDirectory ==
  ASSUME NEW frames \in Seq(NodeInfoType)
  PROVE  ExtractNodeDirectory(frames) \in Directory
<1> DEFINE D == {f.num : f \in ToSet(frames)} \ {0}
           LastOf(n) == CHOOSE i \in DOMAIN frames :
                        frames[i].num = n /\ \A j \in DOMAIN frames : frames[j].num = n => j <= i
           E(n) == [name |-> frames[LastOf(n)].name, pos |-> frames[LastOf(n)].pos,
                    metric |-> frames[LastOf(n)].metric, fav |-> frames[LastOf(n)].fav,
                    seen |-> FALSE]
<1>1. \A i \in DOMAIN frames : frames[i] \in NodeInfoType
  OBVIOUS
<1>2. D \subseteq Node
  BY <1>1 DEF ToSet, NodeInfoType
<1>3. ASSUME NEW n \in D PROVE E(n) \in Entry
  <2>1. \E i \in DOMAIN frames : frames[i].num = n
    BY DEF ToSet
  <2>2. LastOf(n) \in DOMAIN frames
    BY <2>1, LastFrame
  <2>3. frames[LastOf(n)] \in NodeInfoType
    BY <1>1, <2>2
  <2> QED
    BY <2>3 DEF NodeInfoType, Entry
<1>4. ExtractNodeDirectory(frames) = [n \in D |-> E(n)]
  BY DEF ExtractNodeDirectory
<1> HIDE DEF D, E
<1>5. [n \in D |-> E(n)] \in [D -> Entry]
  BY <1>3
<1> QED
  BY <1>2, <1>4, <1>5 DEF Directory

\* The empty sequence is a sequence of anything, and the empty directory.
LEMMA EmptyIsSeq == \A S : <<>> \in Seq(S)
  OBVIOUS

\* A map without entries is a directory (metrics.go, New).
LEMMA EmptyIsDirectory == <<>> \in Directory
<1>1. <<>> \in Seq(Entry)
  BY EmptyIsSeq
<1>2. <<>> \in [1 .. 0 -> Entry]
  BY <1>1
<1>3. 1 .. 0 = {}
  OBVIOUS
<1>4. <<>> \in [{} -> Entry]
  BY <1>2, <1>3
<1> QED
  BY <1>4 DEF Directory

\* One element is a sequence of length one, none is one of length zero.
LEMMA ShortSequences ==
  ASSUME NEW S
  PROVE  /\ \A u \in S : <<u>> \in Seq(S) /\ Len(<<u>>) = 1
         /\ <<>> \in Seq(S) /\ Len(<<>>) = 0
  BY EmptyIsSeq

NodeUpdate == {u \in UpdateType : u.op # "directory" /\ u.node \in Node}

\* The read loop makes at most two updates of a packet, each of a node: one for
\* its port and one for its signal (connection.go, readLoop).
LEMMA UpdatesTyped ==
  ASSUME NEW p \in PacketType
  PROVE  UpdatesOf(p) \in Seq(NodeUpdate) /\ Len(UpdatesOf(p)) <= 2
<1>0. /\ p.node \in Node /\ p.name \in Name /\ p.val \in Amount /\ p.rssi \in Amount
      /\ p.port \in {"position", "telemetry", "nodeinfo", "other"}
  BY DEF PacketType
<1>1. /\ "" \in Name /\ 0 \in Amount
  BY DEF Name, Amount
<1>2. ASSUME NEW op \in {"position", "metric", "node"}, NEW nm \in Name, NEW v \in Amount
      PROVE  UpdateOf(op, p.node, nm, v) \in NodeUpdate
  <2>1. <<>> \in Seq(NodeInfoType)
    BY EmptyIsSeq
  <2> QED
    BY <1>0, <2>1 DEF UpdateOf, NodeUpdate, UpdateType
<1>3. /\ UpdateOf("position", p.node, "", p.val) \in NodeUpdate
      /\ UpdateOf("metric", p.node, "", p.val) \in NodeUpdate
      /\ UpdateOf("metric", p.node, "", p.rssi) \in NodeUpdate
      /\ UpdateOf("node", p.node, p.name, 0) \in NodeUpdate
  BY <1>0, <1>1, <1>2
<1>4. PICK a : /\ a = ExtractPosition(p) /\ a \in Seq(NodeUpdate)
               /\ Len(a) = 0 \/ (Len(a) = 1 /\ p.port = "position")
  BY <1>3, ShortSequences DEF When, ExtractPosition
<1>5. PICK b : /\ b = ExtractTelemetry(p) /\ b \in Seq(NodeUpdate)
               /\ Len(b) = 0 \/ (Len(b) = 1 /\ p.port = "telemetry")
  BY <1>3, ShortSequences DEF When, ExtractTelemetry
<1>6. PICK c : c = ExtractSignal(p) /\ c \in Seq(NodeUpdate) /\ Len(c) \in {0, 1}
  BY <1>3, ShortSequences DEF When, ExtractSignal
<1>7. PICK d : /\ d = ExtractNodeInfo(p) /\ d \in Seq(NodeUpdate)
               /\ Len(d) = 0 \/ (Len(d) = 1 /\ p.port = "nodeinfo")
  BY <1>3, ShortSequences DEF When, ExtractNodeInfo
<1>8. PICK ab : ab = a \o b /\ ab \in Seq(NodeUpdate) /\ Len(ab) = Len(a) + Len(b)
  BY <1>4, <1>5, ConcatProperties
<1>9. PICK abc : abc = ab \o c /\ abc \in Seq(NodeUpdate) /\ Len(abc) = Len(ab) + Len(c)
  BY <1>6, <1>8, ConcatProperties
<1>10. PICK all : all = abc \o d /\ all \in Seq(NodeUpdate) /\ Len(all) = Len(abc) + Len(d)
  BY <1>7, <1>9, ConcatProperties
<1>11. all = UpdatesOf(p)
  BY <1>4, <1>5, <1>6, <1>7, <1>8, <1>9, <1>10 DEF UpdatesOf
<1>12. /\ Len(a) = 0 \/ (Len(a) = 1 /\ p.port = "position")
       /\ Len(b) = 0 \/ (Len(b) = 1 /\ p.port = "telemetry")
       /\ Len(d) = 0 \/ (Len(d) = 1 /\ p.port = "nodeinfo")
       /\ Len(c) \in {0, 1} /\ Len(all) = Len(a) + Len(b) + Len(c) + Len(d)
  BY <1>4, <1>5, <1>6, <1>7, <1>8, <1>9, <1>10
<1>13. Len(all) <= 2
  <2>1. /\ ~(p.port = "position" /\ p.port = "telemetry")
        /\ ~(p.port = "position" /\ p.port = "nodeinfo")
        /\ ~(p.port = "telemetry" /\ p.port = "nodeinfo")
    OBVIOUS
  <2>2. \/ Len(b) = 0 /\ Len(d) = 0
        \/ Len(a) = 0 /\ Len(d) = 0
        \/ Len(a) = 0 /\ Len(b) = 0
    BY <1>12, <2>1, Zenon
  <2>3. Len(a) \in {0, 1} /\ Len(b) \in {0, 1} /\ Len(d) \in {0, 1}
    BY <1>12, Zenon
  <2>4. Len(c) \in {0, 1} /\ Len(all) = Len(a) + Len(b) + Len(c) + Len(d)
    BY <1>12
  <2>5. \A i, j, k, l \in {0, 1} :
          (j = 0 /\ l = 0) \/ (i = 0 /\ l = 0) \/ (i = 0 /\ j = 0) => i + j + k + l <= 2
    OBVIOUS
  <2> QED
    BY <2>2, <2>3, <2>4, <2>5, Zenon
<1> QED
  BY <1>10, <1>11, <1>13

\* An entry stored under a node leaves a directory.
LEMMA StoreTyped ==
  ASSUME NEW d \in Directory, NEW n \in Node, NEW e \in Entry
  PROVE  /\ Store(d, n, e) \in Directory
         /\ DOMAIN Store(d, n, e) = DOMAIN d \cup {n}
         /\ \A m \in DOMAIN d \cup {n} : Store(d, n, e)[m] = IF m = n THEN e ELSE d[m]
<1>1. PICK D \in SUBSET Node : d \in [D -> Entry]
  BY DEF Directory
<1>2. Store(d, n, e) \in [D \cup {n} -> Entry]
  BY <1>1 DEF Store
<1>3. D \cup {n} \in SUBSET Node
  BY <1>1
<1>4. Store(d, n, e) \in Directory
  BY <1>2, <1>3 DEF Directory
<1> QED
  BY <1>4 DEF Store

\* The entry of a node, Go's zero value included, is an entry.
LEMMA LookupTyped ==
  ASSUME NEW d \in Directory, NEW n
  PROVE  Lookup(d, n) \in Entry
<1>1. Blank \in Entry
  BY DEF Blank, Entry, Name, Amount
<1> QED
  BY <1>1 DEF Lookup, Directory

\* A directory has entries of nodes.
LEMMA DirectoryIsOne ==
  ASSUME NEW d \in Directory
  PROVE  IsDirectory(d) /\ DOMAIN d \subseteq Node /\ \A n \in DOMAIN d : d[n] \in Entry
  BY DEF Directory, IsDirectory

\* IndexOf lists each node of the directory once (node_directory.go,
\* SetNodeDirectory).
LEMMA IndexOfGood ==
  ASSUME NEW d \in Directory
  PROVE  GoodIndex(IndexOf(d), DOMAIN d)
<1>1. DOMAIN d \subseteq Node /\ Node \subseteq Nat
  BY DirectoryIsOne, DirectoryAssumption
<1>2. DOMAIN IndexOf(d) = {n % 256 : n \in DOMAIN d}
  BY DEF IndexOf, RelayKey
<1>3. DOMAIN IndexOf(d) \subseteq 0 .. 255
  <2>1. \A n \in Nat : n % 256 \in 0 .. 255
    OBVIOUS
  <2> QED
    BY <1>1, <1>2, <2>1
<1>4. ASSUME NEW b \in DOMAIN IndexOf(d)
      PROVE  IndexOf(d)[b] = [n \in {m \in DOMAIN d : m % 256 = b} |-> 1]
  BY DEF IndexOf, RelayKey, SetToBag
<1>5. ASSUME NEW b \in DOMAIN IndexOf(d), NEW n \in DOMAIN IndexOf(d)[b]
      PROVE  n \in Node /\ n \in DOMAIN d /\ n % 256 = b /\ IndexOf(d)[b][n] = 1
  <2>0. PICK B : B = {m \in DOMAIN d : m % 256 = b}
    OBVIOUS
  <2>1. IndexOf(d)[b] = [m \in B |-> 1]
    BY <1>4, <2>0
  <2>2. n \in B /\ IndexOf(d)[b][n] = 1
    BY <2>1
  <2> QED
    BY <1>1, <2>0, <2>2
<1> QED
  BY <1>3, <1>5 DEF GoodIndex

\* Adding a node that is not listed lists it once (node_directory.go,
\* UpsertNode).
LEMMA IndexAddGood ==
  ASSUME NEW r, NEW D, GoodIndex(r, D), NEW n \in Node, n \notin D
  PROVE  GoodIndex(IndexAdd(r, n), D \cup {n})
<1> DEFINE k == n % 256
           old(b) == IF b \in DOMAIN r THEN r[b] ELSE EmptyBag
           add(b) == IF b = k THEN SetToBag({n}) ELSE EmptyBag
<1>1. k \in 0 .. 255
  BY DirectoryAssumption
<1>2. DOMAIN IndexAdd(r, n) = DOMAIN r \cup {k}
  BY DEF IndexAdd, RelayKey
<1>3. ASSUME NEW b \in DOMAIN r \cup {k}, NEW m \in DOMAIN IndexAdd(r, n)[b]
      PROVE  m \in Node /\ m \in D \cup {n} /\ m % 256 = b /\ IndexAdd(r, n)[b][m] = 1
  <2>1. IndexAdd(r, n)[b] = old(b) (+) add(b)
    BY DEF IndexAdd, RelayKey
  <2>2. IndexAdd(r, n)[b] = [e \in DOMAIN old(b) \cup DOMAIN add(b) |->
                               (IF e \in DOMAIN old(b) THEN old(b)[e] ELSE 0)
                             + (IF e \in DOMAIN add(b) THEN add(b)[e] ELSE 0)]
    BY <2>1 DEF (+)
  <2>3. DOMAIN EmptyBag = {} /\ DOMAIN SetToBag({n}) = {n} /\ SetToBag({n})[n] = 1
    BY DEF EmptyBag, SetToBag
  <2>4. ASSUME NEW e \in DOMAIN old(b)
        PROVE  e \in Node /\ e \in D /\ e % 256 = b /\ old(b)[e] = 1
    BY <2>3 DEF GoodIndex
  <2>5. ASSUME NEW e \in DOMAIN add(b) PROVE e = n /\ b = k /\ add(b)[e] = 1
    BY <2>3
  <2>6. n \notin DOMAIN old(b)
    BY <2>4
  <2> HIDE DEF old, add
  <2>7. m \in DOMAIN old(b) \cup DOMAIN add(b)
    BY <2>2
  <2>8. CASE m \in DOMAIN old(b)
    <3>1. m \notin DOMAIN add(b)
      BY <2>5, <2>6, <2>8
    <3>2. IndexAdd(r, n)[b][m] = old(b)[m] + 0
      BY <2>2, <2>7, <2>8, <3>1
    <3> QED
      BY <2>4, <2>8, <3>2
  <2>9. CASE m \notin DOMAIN old(b)
    <3>1. m \in DOMAIN add(b)
      BY <2>7, <2>9
    <3>2. IndexAdd(r, n)[b][m] = 0 + add(b)[m]
      BY <2>2, <2>7, <2>9, <3>1
    <3> QED
      BY <2>5, <3>1, <3>2
  <2> QED
    BY <2>8, <2>9
<1>4. DOMAIN r \cup {k} \subseteq 0 .. 255
  BY <1>1 DEF GoodIndex
<1> HIDE DEF k
<1> QED
  BY <1>2, <1>3, <1>4 DEF GoodIndex

\* A write to the current map replaces it and no other.
LEMMA WriteMap ==
  ASSUME NEW ms \in Seq(Directory), Len(ms) >= 1, NEW d \in Directory
  PROVE  /\ [ms EXCEPT ![Len(ms)] = d] \in Seq(Directory)
         /\ Len([ms EXCEPT ![Len(ms)] = d]) = Len(ms)
         /\ [ms EXCEPT ![Len(ms)] = d][Len(ms)] = d
<1>1. Len(ms) \in 1 .. Len(ms)
  OBVIOUS
<1> QED
  BY <1>1, ExceptSeq

\* An event stays sound: maps are never uninstalled.
LEMMA StaysSound ==
  ASSUME NEW CONSTANT e, Sound(e), Len(maps) \in Nat, Len(maps') \in Nat, Len(maps) <= Len(maps')
  PROVE  Sound(e)'
  BY DEF Sound, NamesNode, NamesMap

\* New has no node, no event and no stream (metrics.go, New).
LEMMA InitDir == Init => DirIInv
<1> SUFFICES ASSUME Init PROVE DirIInv
  OBVIOUS
<1>1. ReaderTyped
  BY ShortSequences DEF Init, ReaderTyped
<1>2. MapsTyped
  <2>1. <<<<>>>> \in Seq(Directory) /\ Len(<<<<>>>>) = 1
    BY EmptyIsDirectory, ShortSequences
  <2> QED
    BY <2>1 DEF Init, MapsTyped
<1>3. FavTyped
  BY ShortSequences DEF Init, FavTyped
<1>4. StreamTyped
  BY ShortSequences, EmptyIsDirectory, DirectoryAssumption DEF Init, StreamTyped
<1>5. CountsTyped
  <2>1. \A m \in Nat : 0 \in 0 .. m
    OBVIOUS
  <2>2. /\ MaxPackets \in Nat /\ MaxConfigs \in Nat
        /\ MaxFavorites \in Nat /\ MaxConnects \in Nat
    BY DirectoryAssumption
  <2> QED
    BY <2>1, <2>2 DEF Init, CountsTyped
<1>6. IndexRight
  <2>1. DOMAIN relayDir = {}
    BY DEF Init
  <2> QED
    BY <2>1 DEF IndexRight, GoodIndex
<1> QED
  BY <1>1, <1>2, <1>3, <1>4, <1>5, <1>6 DEF DirIInv

(***************************************************************************)
(* What a step leaves alone stays as it was.                               *)
(***************************************************************************)
MapsGrow == Len(maps) \in Nat /\ Len(maps') \in Nat /\ Len(maps) <= Len(maps')

\* The reader's part, while only maps are installed.
LEMMA KeepReader ==
  ASSUME ReaderTyped, MapsGrow, UNCHANGED readerVars
  PROVE  ReaderTyped'
<1>1. todo' = todo /\ evt' = evt
  BY DEF readerVars
<1>2. evt # <<>> => Sound(evt[1])'
  <2> SUFFICES ASSUME evt # <<>> PROVE Sound(evt[1])'
    OBVIOUS
  <2>1. PICK e : e = evt[1]
    OBVIOUS
  <2>2. Sound(e)
    BY <2>1 DEF ReaderTyped
  <2>3. Sound(e)'
    BY <2>2, StaysSound DEF MapsGrow
  <2> QED
    BY <1>1, <2>1, <2>3
<1> QED
  BY <1>1, <1>2 DEF ReaderTyped

\* The requests' part.
LEMMA KeepFav ==
  ASSUME FavTyped, UNCHANGED fav
  PROVE  FavTyped'
  BY DEF FavTyped, NamesNode

\* The queue's part of the stream.
LEMMA KeepQueue ==
  ASSUME StreamTyped, MapsGrow, UNCHANGED queue
  PROVE  \A i \in 1 .. Len(queue') : Sound(queue[i])'
<1>1. ASSUME NEW i \in 1 .. Len(queue) PROVE Sound(queue[i])'
  <2>1. PICK e : e = queue[i]
    OBVIOUS
  <2>2. Sound(e)
    BY <2>1 DEF StreamTyped
  <2>3. Sound(e)'
    BY <2>2, StaysSound DEF MapsGrow
  <2> QED
    BY <2>1, <2>3
<1> QED
  BY <1>1

\* The stream's part.
LEMMA KeepStream ==
  ASSUME StreamTyped, MapsGrow, UNCHANGED streamVars
  PROVE  StreamTyped'
<1>1. queue' = queue /\ stream' = stream /\ hand' = hand /\ view' = view
  BY DEF streamVars
<1>2. \A i \in 1 .. Len(queue') : Sound(queue[i])'
  BY <1>1, KeepQueue
<1>3. stream = "encoding" => hand.map \in 1 .. Len(maps')
  BY DEF StreamTyped, MapsGrow
<1> QED
  BY <1>1, <1>2, <1>3 DEF StreamTyped

\* The maps stay when neither they nor the reader change.
LEMMA KeepMaps ==
  ASSUME MapsTyped, UNCHANGED <<maps, todo, evt, configs>>
  PROVE  MapsTyped' /\ MapsGrow
<1>1. Len(maps) \in Nat
  BY DEF MapsTyped
<1> QED
  BY <1>1 DEF MapsTyped, MapsGrow

(***************************************************************************)
(* Every step keeps the invariant.                                         *)
(***************************************************************************)
\* A packet becomes at most two updates of nodes (connection.go, readLoop).
LEMMA ReadPacketStep ==
  ASSUME DirIInv, NEW p \in Packet, ReadPacket(p)
  PROVE  DirIInv'
<1> USE DEF DirIInv
<1>0. /\ maps' = maps /\ relayDir' = relayDir /\ evt' = evt /\ evt = <<>> /\ fav' = fav
      /\ UNCHANGED streamVars /\ configs' = configs /\ todo' = UpdatesOf(p)
  BY DEF ReadPacket, Idle, dirVars
<1>1. Len(maps) \in Nat
  BY DEF MapsTyped
<1>2. MapsGrow
  BY <1>0, <1>1 DEF MapsGrow
<1>3. PICK t : t = UpdatesOf(p) /\ t \in Seq(NodeUpdate) /\ Len(t) <= 2
  <2>1. p \in PacketType
    BY DirectoryAssumption
  <2> QED
    BY <2>1, UpdatesTyped
<1>4. /\ t \in Seq(UpdateType) /\ Len(t) \in Nat
      /\ \A i \in 1 .. Len(t) : t[i].op # "directory" /\ t[i].node \in Node
  <2>1. NodeUpdate \subseteq UpdateType
    BY DEF NodeUpdate
  <2>2. t \in Seq(UpdateType)
    BY <1>3, <2>1, SeqMonotonic
  <2>3. \A i \in 1 .. Len(t) : t[i] \in NodeUpdate
    BY <1>3
  <2> QED
    BY <2>2, <2>3 DEF NodeUpdate
<1>5. ReaderTyped'
  BY <1>0, <1>3, <1>4 DEF ReaderTyped
<1>6. MapsTyped'
  <2>1. t # <<>> => t[1].op # "directory"
    BY <1>4
  <2> QED
    BY <1>0, <1>3, <2>1 DEF MapsTyped
<1>7. FavTyped' /\ StreamTyped'
  BY <1>0, <1>2, KeepFav, KeepStream
<1>8. CountsTyped'
  BY DirectoryAssumption DEF ReadPacket, CountsTyped
<1>9. IndexRight'
  BY <1>0 DEF IndexRight, GoodIndex, nodeDir
<1> QED
  BY <1>5, <1>6, <1>7, <1>8, <1>9

\* The end of a config sequence becomes one update, of the directory
\* (connection.go, readLoop).
LEMMA ReadConfigStep ==
  ASSUME DirIInv, NEW c \in Config, ReadConfig(c)
  PROVE  DirIInv'
<1> USE DEF DirIInv
<1>1. PICK u : u = [UpdateOf("directory", 0, "", 0) EXCEPT !.frames = c]
  OBVIOUS
<1>0. /\ maps' = maps /\ relayDir' = relayDir /\ evt' = evt /\ evt = <<>> /\ fav' = fav
      /\ UNCHANGED streamVars /\ configs' = configs + 1 /\ todo' = <<u>>
  BY <1>1 DEF ReadConfig, Idle, dirVars
<1>2. u \in UpdateType /\ u.op = "directory"
  <2>1. c \in Seq(NodeInfoType)
    BY DirectoryAssumption
  <2>2. u = [op |-> "directory", node |-> 0, name |-> "", val |-> 0, frames |-> c]
    BY <1>1 DEF UpdateOf
  <2>3. "" \in Name /\ 0 \in Amount
    BY DEF Name, Amount
  <2>4. u \in [op : {"directory"}, node : {0}, name : Name, val : Amount,
               frames : Seq(NodeInfoType)]
    BY <2>1, <2>2, <2>3
  <2> QED
    BY <2>4 DEF UpdateType
<1>3. Len(maps) \in Nat /\ configs \in Nat
  <2>1. maps \in Seq(Directory) /\ configs \in 0 .. MaxConfigs
    BY DEF MapsTyped, CountsTyped
  <2> QED
    BY <2>1
<1>4. MapsGrow
  BY <1>0, <1>3 DEF MapsGrow
<1>5. PICK t : t = <<u>> /\ t \in Seq(UpdateType) /\ Len(t) = 1 /\ t[1] = u
  <2>1. <<u>> \in Seq(UpdateType) /\ Len(<<u>>) = 1
    BY <1>2, ShortSequences
  <2>2. <<u>>[1] = u
    OBVIOUS
  <2> QED
    BY <2>1, <2>2
<1>6. ReaderTyped'
  BY <1>0, <1>2, <1>5 DEF ReaderTyped
<1>7. MapsTyped'
  BY <1>0, <1>3, <1>5 DEF MapsTyped
<1>8. FavTyped' /\ StreamTyped'
  BY <1>0, <1>4, KeepFav, KeepStream
<1>9. CountsTyped'
  <2>1. /\ configs < MaxConfigs /\ configs' = configs + 1 /\ configs \in 0 .. MaxConfigs
        /\ UNCHANGED <<crashed, missed, raced, reads, favorites, connects>>
    BY DEF ReadConfig, CountsTyped
  <2>2. configs' \in 0 .. MaxConfigs
    BY <2>1, DirectoryAssumption
  <2> QED
    BY <2>1, <2>2 DEF CountsTyped
<1>10. IndexRight'
  BY <1>0 DEF IndexRight, GoodIndex, nodeDir
<1> QED
  BY <1>6, <1>7, <1>8, <1>9, <1>10

\* The update in hand: of the directory, or of a node.
LEMMA HeadUpdate ==
  ASSUME ReaderTyped, NEW op, Doing(op)
  PROVE  /\ todo \in Seq(UpdateType) /\ todo # <<>> /\ evt = <<>> /\ ~crashed
         /\ Head(todo) = todo[1] /\ Head(todo) \in UpdateType /\ Head(todo).op = op
         /\ op # "directory" => Head(todo).node \in Node
<1>1. todo \in Seq(UpdateType) /\ todo # <<>> /\ evt = <<>> /\ ~crashed /\ Head(todo).op = op
  BY DEF ReaderTyped, Doing
<1>2. Head(todo) = todo[1] /\ 1 \in 1 .. Len(todo)
  BY <1>1
<1>3. Head(todo) \in UpdateType
  BY <1>1, <1>2
<1> QED
  BY <1>1, <1>2, <1>3 DEF ReaderTyped

\* m.nodeDir is one of the maps.
LEMMA CurrentMap ==
  ASSUME MapsTyped
  PROVE  maps \in Seq(Directory) /\ Len(maps) \in Nat \ {0} /\ nodeDir \in Directory
<1>1. maps \in Seq(Directory) /\ Len(maps) \in Nat \ {0}
  BY DEF MapsTyped
<1>2. Len(maps) \in 1 .. Len(maps)
  BY <1>1
<1>3. maps[Len(maps)] \in Directory
  BY <1>1, <1>2, ElementOfSeq
<1> QED
  BY <1>1, <1>3 DEF nodeDir

\* A write under nodeDirMu.
LEMMA WriteStep ==
  ASSUME MapsTyped, NEW d \in Directory, WriteNodeDir(d)
  PROVE  /\ maps' \in Seq(Directory) /\ Len(maps') = Len(maps) /\ nodeDir' = d
         /\ MapsGrow /\ crashed' \in BOOLEAN
<1>1. maps \in Seq(Directory) /\ Len(maps) \in Nat \ {0}
  BY CurrentMap
<1>2. maps' = [maps EXCEPT ![Len(maps)] = d] /\ crashed' \in BOOLEAN
  BY DEF WriteNodeDir
<1>3. maps' \in Seq(Directory) /\ Len(maps') = Len(maps) /\ maps'[Len(maps)] = d
  BY <1>1, <1>2, WriteMap
<1> QED
  BY <1>1, <1>2, <1>3 DEF MapsGrow, nodeDir

\* The event of an update waits for its publish.
LEMMA EventWaits ==
  ASSUME ReaderTyped, todo # <<>>, UNCHANGED todo, NEW e, evt' = <<e>>, Sound(e)'
  PROVE  ReaderTyped'
<1>1. e \in EventType
  BY DEF Sound, EventType
<1>2. PICK v : v = <<e>> /\ v \in Seq(EventType) /\ Len(v) = 1 /\ v[1] = e
  <2>1. <<e>> \in Seq(EventType) /\ Len(<<e>>) = 1
    BY <1>1, ShortSequences
  <2>2. <<e>>[1] = e
    OBVIOUS
  <2> QED
    BY <2>1, <2>2
<1>3. Sound(v[1])'
  BY <1>2
<1> QED
  BY <1>2, <1>3 DEF ReaderTyped

\* Counters and histories stay, whatever a write does to crashed.
LEMMA KeepCounts ==
  ASSUME CountsTyped, crashed' \in BOOLEAN, missed' \in BOOLEAN, raced' \subseteq Node,
         UNCHANGED counters
  PROVE  CountsTyped'
  BY DEF CountsTyped, counters

\* SetNodeDirectory installs a directory, its index and names its map
\* (node_directory.go, SetNodeDirectory).
LEMMA SetDirectoryStep ==
  ASSUME DirIInv, SetNodeDirectory
  PROVE  DirIInv'
<1> USE DEF DirIInv
<1> DEFINE new == ExtractNodeDirectory(Head(todo).frames)
           dir == [n \in DOMAIN new |->
                     IF n \in DOMAIN nodeDir THEN KeepRuntime(nodeDir[n], new[n]) ELSE new[n]]
<1>0. /\ maps' = Append(maps, dir) /\ relayDir' = IndexOf(dir)
      /\ evt' = <<EventOf("node_directory", 0, "", 0, FALSE, Len(maps) + 1)>>
      /\ raced' = raced \cup {fav[h][1].node : h \in {g \in Handler : fav[g] # <<>>}}
      /\ todo' = todo /\ fav' = fav /\ UNCHANGED streamVars /\ UNCHANGED counters
      /\ crashed' = crashed /\ missed' = missed /\ Doing("directory")
  BY DEF SetNodeDirectory
<1>1. /\ todo # <<>> /\ evt = <<>> /\ Head(todo) = todo[1] /\ Head(todo) \in UpdateType
      /\ Head(todo).op = "directory"
  BY <1>0, HeadUpdate
<1>2. maps \in Seq(Directory) /\ Len(maps) \in Nat \ {0} /\ nodeDir \in Directory
  BY CurrentMap
<1>3. new \in Directory
  <2>1. Head(todo).frames \in Seq(NodeInfoType)
    BY <1>1 DEF UpdateType
  <2> QED
    BY <2>1, ExtractedIsDirectory
<1>4. dir \in Directory
  <2>1. PICK D \in SUBSET Node : new \in [D -> Entry]
    BY <1>3 DEF Directory
  <2>2. ASSUME NEW old \in Entry, NEW e \in Entry PROVE KeepRuntime(old, e) \in Entry
    BY DEF KeepRuntime, Entry
  <2>3. \A n \in DOMAIN nodeDir : nodeDir[n] \in Entry
    BY <1>2, DirectoryIsOne
  <2> HIDE DEF new
  <2>4. dir \in [D -> Entry]
    BY <2>1, <2>2, <2>3
  <2> QED
    BY <2>4 DEF Directory
<1> HIDE DEF dir, new
<1>5. /\ maps' \in Seq(Directory) /\ Len(maps') = Len(maps) + 1 /\ nodeDir' = dir
  <2>1. /\ Append(maps, dir) \in Seq(Directory) /\ Len(Append(maps, dir)) = Len(maps) + 1
        /\ Append(maps, dir)[Len(maps) + 1] = dir
    BY <1>2, <1>4, AppendProperties
  <2> QED
    BY <1>0, <2>1 DEF nodeDir
<1>6. MapsGrow
  BY <1>2, <1>5 DEF MapsGrow
<1>7. Len(maps) <= configs /\ configs \in 0 .. MaxConfigs
  BY <1>1 DEF MapsTyped, CountsTyped
<1>8. ReaderTyped'
  <2>1. PICK e : e = EventOf("node_directory", 0, "", 0, FALSE, Len(maps) + 1)
    OBVIOUS
  <2>2. e.type = "node_directory" /\ e.map = Len(maps) + 1
    BY <2>1 DEF EventOf
  <2>3. e \in EventType
    <3>1. Len(maps) + 1 \in 0 .. MaxConfigs + 1
      BY <1>2, <1>7, DirectoryAssumption
    <3>2. "" \in Name /\ 0 \in Amount
      BY DEF Name, Amount
    <3>3. e \in [type : {"node_directory"}, node : {0}, name : Name, val : Amount,
                 fav : BOOLEAN, map : 0 .. MaxConfigs + 1]
      BY <2>1, <3>1, <3>2 DEF EventOf
    <3> QED
      BY <3>3 DEF EventType
  <2>4. e.map \in 1 .. Len(maps')
    BY <1>2, <1>5, <2>2
  <2>5. Sound(e)'
    BY <2>2, <2>3, <2>4 DEF Sound, NamesMap, EventType
  <2> QED
    BY <1>0, <1>1, <2>1, <2>5, EventWaits
<1>9. MapsTyped'
  <2>1. evt' # <<>>
    BY <1>0
  <2>2. Len(maps') <= configs + 1
    BY <1>2, <1>5, <1>7
  <2>3. configs' = configs
    BY <1>0 DEF counters
  <2> QED
    BY <1>2, <1>5, <2>1, <2>2, <2>3 DEF MapsTyped
<1>10. FavTyped' /\ StreamTyped'
  BY <1>0, <1>6, KeepFav, KeepStream
<1>11. CountsTyped'
  <2>1. ASSUME NEW h \in Handler, fav[h] # <<>> PROVE fav[h][1].node \in Node
    <3>1. fav[h] \in Seq(EventType) /\ 1 \in 1 .. Len(fav[h])
      BY <2>1 DEF FavTyped
    <3> QED
      BY <3>1 DEF FavTyped, NamesNode
  <2>2. raced' \subseteq Node /\ crashed' \in BOOLEAN /\ missed' \in BOOLEAN
    BY <1>0, <2>1 DEF CountsTyped
  <2> QED
    BY <1>0, <2>2, KeepCounts
<1>12. IndexRight'
  BY <1>0, <1>4, <1>5, IndexOfGood DEF IndexRight
<1> QED
  BY <1>8, <1>9, <1>10, <1>11, <1>12

\* The parts that a write of one node's entry and its event leave to show once
\* the index is right.
LEMMA WriteOneStep ==
  ASSUME DirIInv, NEW op, Doing(op), op # "directory", NEW d \in Directory, WriteNodeDir(d),
         NEW e \in EventType, NamesNode(e), evt' = <<e>>,
         UNCHANGED <<todo, fav, streamVars, missed, raced, counters>>
  PROVE  ReaderTyped' /\ MapsTyped' /\ FavTyped' /\ StreamTyped' /\ CountsTyped'
<1> USE DEF DirIInv
<1>1. /\ maps' \in Seq(Directory) /\ Len(maps') = Len(maps) /\ nodeDir' = d
      /\ MapsGrow /\ crashed' \in BOOLEAN
  BY WriteStep
<1>2. todo # <<>> /\ Head(todo) = todo[1] /\ Head(todo).op = op
  BY HeadUpdate
<1>3. Sound(e)'
  BY DEF Sound, NamesNode, EventType
<1>4. ReaderTyped'
  BY <1>2, <1>3, EventWaits
<1>5. MapsTyped'
  <2>1. configs' = configs /\ evt' # <<>>
    BY DEF counters
  <2> QED
    BY <1>1, <2>1 DEF MapsTyped
<1>6. FavTyped' /\ StreamTyped'
  BY <1>1, KeepFav, KeepStream
<1>7. CountsTyped'
  <2>1. missed' \in BOOLEAN /\ raced' \subseteq Node
    BY DEF CountsTyped
  <2> QED
    BY <1>1, <2>1, KeepCounts
<1> QED
  BY <1>4, <1>5, <1>6, <1>7

\* An event about a node is one of EventType.
LEMMA EventTyped ==
  ASSUME NEW type \in {"position", "metric", "node_update", "node_favorite"}, NEW n \in Node,
         NEW name \in Name, NEW val \in Amount, NEW f \in BOOLEAN
  PROVE  EventOf(type, n, name, val, f, 0) \in EventType /\ NamesNode(EventOf(type, n, name, val, f, 0))
<1>1. PICK e : e = EventOf(type, n, name, val, f, 0)
  OBVIOUS
<1>2. e = [type |-> type, node |-> n, name |-> name, val |-> val, fav |-> f, map |-> 0]
  BY <1>1 DEF EventOf
<1>3. 0 \in 0 .. MaxConfigs + 1
  BY DirectoryAssumption
<1>4. e \in EventType
  BY <1>2, <1>3 DEF EventType
<1>5. e.node = n /\ e.type = type
  BY <1>2
<1> QED
  BY <1>1, <1>4, <1>5 DEF NamesNode

\* updateNodeEntry stores an entry of the packet's node and leaves the index
\* alone (node_directory.go, updateNodeEntry).
LEMMA UpdateEntryStep ==
  ASSUME DirIInv, NEW op \in {"position", "metric"}, Doing(op), NEW new \in Entry,
         UpdateNodeEntry(op, new)
  PROVE  DirIInv'
<1> USE DEF DirIInv
<1> DEFINE n == Head(todo).node
           ent == [new EXCEPT !.seen = TRUE]
           d == Store(nodeDir, n, ent)
           e == EventOf(op, n, new.name, Head(todo).val, FALSE, 0)
<1>1. n \in Node /\ Head(todo) \in UpdateType
  BY HeadUpdate
<1>2. nodeDir \in Directory
  BY CurrentMap
<1>3. ent \in Entry /\ new.name \in Name
  BY DEF Entry
<1>4. Head(todo).val \in Amount
  BY <1>1 DEF UpdateType
<1> HIDE DEF n, ent
<1>5. d \in Directory /\ DOMAIN d = DOMAIN nodeDir \cup {n}
  BY <1>1, <1>2, <1>3, StoreTyped
<1>6. e \in EventType /\ NamesNode(e)
  BY <1>1, <1>3, <1>4, EventTyped
<1>7. /\ WriteNodeDir(d) /\ evt' = <<e>> /\ relayDir' = relayDir
      /\ UNCHANGED <<todo, fav, streamVars, missed, raced, counters>>
  BY DEF UpdateNodeEntry, n, ent
<1> HIDE DEF d, e
<1>8. ReaderTyped' /\ MapsTyped' /\ FavTyped' /\ StreamTyped' /\ CountsTyped'
  BY <1>5, <1>6, <1>7, WriteOneStep
<1>9. nodeDir' = d
  BY <1>5, <1>7, WriteStep
<1>10. IndexRight'
  BY <1>5, <1>7, <1>9 DEF IndexRight, GoodIndex
<1> QED
  BY <1>8, <1>10

\* A position of a node (node_directory.go, UpdateNodePosition).
LEMMA PositionStep == DirIInv /\ UpdateNodePosition => DirIInv'
<1> SUFFICES ASSUME DirIInv, UpdateNodePosition PROVE DirIInv'
  OBVIOUS
<1>1. PICK new : new = [HeadEntry EXCEPT !.pos = Head(todo).val]
  OBVIOUS
<1>2. Doing("position") /\ UpdateNodeEntry("position", new)
  BY <1>1 DEF UpdateNodePosition, UpdateNodeEntry
<1>3. nodeDir \in Directory /\ Head(todo) \in UpdateType
  BY <1>2, CurrentMap, HeadUpdate DEF DirIInv
<1>4. HeadEntry \in Entry /\ Head(todo).val \in Amount
  BY <1>3, LookupTyped DEF HeadEntry, UpdateType
<1>5. new \in Entry
  BY <1>1, <1>4 DEF Entry
<1> QED
  BY <1>2, <1>5, UpdateEntryStep

\* Telemetry or signal of a node (node_directory.go, UpdateNodeTelemetry,
\* UpdateNodeSignal).
LEMMA MetricStep == DirIInv /\ UpdateNodeMetric => DirIInv'
<1> SUFFICES ASSUME DirIInv, UpdateNodeMetric PROVE DirIInv'
  OBVIOUS
<1>1. PICK new : new = [HeadEntry EXCEPT !.metric =
                          IF Head(todo).val = 0 THEN @ ELSE Head(todo).val]
  OBVIOUS
<1>2. Doing("metric") /\ UpdateNodeEntry("metric", new)
  BY <1>1 DEF UpdateNodeMetric, UpdateNodeEntry
<1>3. nodeDir \in Directory /\ Head(todo) \in UpdateType
  BY <1>2, CurrentMap, HeadUpdate DEF DirIInv
<1>4. HeadEntry \in Entry /\ Head(todo).val \in Amount
  BY <1>3, LookupTyped DEF HeadEntry, UpdateType
<1>5. new \in Entry
  BY <1>1, <1>4 DEF Entry
<1> QED
  BY <1>2, <1>5, UpdateEntryStep

\* A new node enters the index once, a known one not again
\* (node_directory.go, UpsertNode).
LEMMA UpsertStep == DirIInv /\ UpsertNode => DirIInv'
<1> SUFFICES ASSUME DirIInv, UpsertNode PROVE DirIInv'
  OBVIOUS
<1> USE DEF DirIInv
<1> DEFINE u == Head(todo)
           n == u.node
           ent == [HeadEntry EXCEPT !.seen = TRUE, !.name = IF u.name = "" THEN @ ELSE u.name]
           d == Store(nodeDir, n, ent)
           e == EventOf("node_update", n, u.name, 0, FALSE, 0)
<1>0. Doing("node")
  BY DEF UpsertNode
<1>1. n \in Node /\ u \in UpdateType
  BY <1>0, HeadUpdate
<1>2. nodeDir \in Directory
  BY CurrentMap
<1>3. u.name \in Name /\ 0 \in Amount
  BY <1>1 DEF UpdateType, Amount
<1>4. ent \in Entry
  <2>1. HeadEntry \in Entry
    BY <1>2, LookupTyped DEF HeadEntry
  <2> HIDE DEF u
  <2> QED
    BY <1>3, <2>1 DEF Entry
<1>5. /\ WriteNodeDir(d) /\ evt' = <<e>> /\ relayDir' = IndexedIfNew(n)
      /\ UNCHANGED <<todo, fav, streamVars, missed, raced, counters>>
  BY DEF UpsertNode
<1> HIDE DEF u, n, ent
<1>6. d \in Directory /\ DOMAIN d = DOMAIN nodeDir \cup {n}
  BY <1>1, <1>2, <1>4, StoreTyped
<1>7. e \in EventType /\ NamesNode(e)
  BY <1>1, <1>3, EventTyped
<1> HIDE DEF d, e
<1>8. ReaderTyped' /\ MapsTyped' /\ FavTyped' /\ StreamTyped' /\ CountsTyped'
  BY <1>0, <1>5, <1>6, <1>7, WriteOneStep
<1>9. nodeDir' = d
  BY <1>5, <1>6, WriteStep
<1>10. GoodIndex(relayDir', DOMAIN d)
  <2>1. CASE n \in DOMAIN nodeDir
    <3>1. relayDir' = relayDir /\ DOMAIN d = DOMAIN nodeDir
      BY <1>5, <1>6, <2>1 DEF IndexedIfNew
    <3> QED
      BY <3>1 DEF IndexRight
  <2>2. CASE n \notin DOMAIN nodeDir
    <3>1. relayDir' = IndexAdd(relayDir, n)
      BY <1>5, <2>2 DEF IndexedIfNew
    <3> QED
      BY <1>1, <1>6, <2>2, <3>1, IndexAddGood DEF IndexRight
  <2> QED
    BY <2>1, <2>2
<1>11. IndexRight'
  BY <1>9, <1>10 DEF IndexRight
<1> QED
  BY <1>8, <1>11

\* publish puts an event into the channel or drops it (pubsub.go, publish).
LEMMA DeliverStep ==
  ASSUME StreamTyped, CountsTyped, NEW e, Sound(e), Deliver(e),
         UNCHANGED <<maps, stream, hand, view>>
  PROVE  StreamTyped' /\ missed' \in BOOLEAN
<1>1. missed' \in BOOLEAN
  BY DEF Deliver, CountsTyped
<1>2. queue \in Seq(EventType) /\ Len(queue) \in Nat /\ Len(queue) <= Buffer
  BY DEF StreamTyped
<1>3. CASE queue' = queue
  BY <1>1, <1>3 DEF StreamTyped, Sound, NamesNode, NamesMap, EventType
<1>4. CASE queue' = Append(queue, e) /\ Len(queue) < Buffer
  <2>1. e \in EventType
    BY DEF Sound
  <2>2. PICK q : /\ q = Append(queue, e) /\ q \in Seq(EventType) /\ Len(q) = Len(queue) + 1
                 /\ \A i \in 1 .. Len(queue) : q[i] = queue[i]
                 /\ q[Len(queue) + 1] = e
    BY <1>2, <2>1, AppendProperties
  <2>3. ASSUME NEW i \in 1 .. Len(q) PROVE Sound(q[i])
    <3>1. i \in 1 .. Len(queue) \/ i = Len(queue) + 1
      BY <1>2, <2>2
    <3> QED
      BY <2>2, <3>1 DEF StreamTyped
  <2>4. Len(q) <= Buffer
    BY <1>2, <1>4, <2>2, DirectoryAssumption
  <2>5. queue' = q
    BY <1>4, <2>2
  <2>6. \A i \in 1 .. Len(q) : Sound(q[i])'
    BY <2>3 DEF Sound, NamesNode, NamesMap, EventType
  <2> QED
    BY <1>1, <2>2, <2>4, <2>5, <2>6 DEF StreamTyped
<1> QED
  BY <1>3, <1>4 DEF Deliver

\* Publishing ends an update; no directory follows another one.
LEMMA PublishUpdateStep == DirIInv /\ PublishUpdate => DirIInv'
<1> SUFFICES ASSUME DirIInv, PublishUpdate PROVE DirIInv'
  OBVIOUS
<1> USE DEF DirIInv
<1>0. /\ evt # <<>> /\ evt' = <<>> /\ todo' = Tail(todo) /\ Deliver(evt[1])
      /\ UNCHANGED <<maps, stream, hand, view>> /\ relayDir' = relayDir /\ fav' = fav
      /\ crashed' = crashed /\ raced' = raced /\ UNCHANGED counters
  BY DEF PublishUpdate, dirVars
<1>1. todo # <<>> /\ Sound(evt[1]) /\ todo \in Seq(UpdateType)
  BY <1>0 DEF ReaderTyped
<1>2. PICK t : /\ t = Tail(todo) /\ t \in Seq(UpdateType) /\ Len(t) = Len(todo) - 1
               /\ \A i \in 1 .. Len(t) : t[i] = todo[i + 1]
  BY <1>1, HeadTailProperties
<1>3. Len(todo) \in Nat \ {0} /\ Len(todo) <= 2 /\ Len(t) \in Nat
  BY <1>1, <1>2 DEF ReaderTyped
<1>4. ASSUME NEW i \in 1 .. Len(t) PROVE t[i].op # "directory" /\ t[i].node \in Node
  <2>1. i + 1 \in 1 .. Len(todo) /\ Len(todo) # 1
    BY <1>2, <1>3
  <2> QED
    BY <1>2, <2>1 DEF ReaderTyped
<1>5. ReaderTyped'
  <2>1. Len(t) <= 2
    BY <1>2, <1>3
  <2>2. evt' = <<>> /\ evt' \in Seq(EventType) /\ Len(evt') = 0
    BY <1>0, ShortSequences
  <2>3. todo' = t
    BY <1>0, <1>2
  <2> QED
    BY <1>2, <1>4, <2>1, <2>2, <2>3 DEF ReaderTyped
<1>6. MapsTyped'
  <2>1. todo' = t /\ configs' = configs
    BY <1>0, <1>2 DEF counters
  <2>2. t # <<>> => 1 \in 1 .. Len(t)
    BY <1>2
  <2>3. t # <<>> => t[1].op # "directory"
    BY <1>4, <2>2
  <2> QED
    BY <1>0, <2>1, <2>3 DEF MapsTyped
<1>7. StreamTyped' /\ missed' \in BOOLEAN
  <2>1. PICK e : e = evt[1]
    OBVIOUS
  <2>2. Sound(e) /\ Deliver(e)
    BY <1>0, <1>1, <2>1
  <2> QED
    BY <1>0, <2>2, DeliverStep
<1>8. FavTyped'
  BY <1>0, KeepFav
<1>9. CountsTyped'
  <2>1. crashed' \in BOOLEAN /\ raced' \subseteq Node
    BY <1>0 DEF CountsTyped
  <2> QED
    BY <1>0, <1>7, <2>1, KeepCounts
<1>10. IndexRight'
  BY <1>0 DEF IndexRight, GoodIndex, nodeDir
<1> QED
  BY <1>5, <1>6, <1>7, <1>8, <1>9, <1>10

\* A favourite changes the entry of a known node (node_directory.go,
\* SetFavorite).
LEMMA FavoriteStep ==
  ASSUME DirIInv, NEW h \in Handler, NEW n \in Node, NEW f \in BOOLEAN, handleAPIFavorite(h, n, f)
  PROVE  DirIInv'
<1> USE DEF DirIInv
<1> DEFINE ent == [nodeDir[n] EXCEPT !.fav = f]
           d == Store(nodeDir, n, ent)
           e == EventOf("node_favorite", n, "", 0, f, 0)
<1>0. /\ n \in DOMAIN nodeDir /\ WriteNodeDir(d) /\ fav' = [fav EXCEPT ![h] = <<e>>]
      /\ favorites < MaxFavorites /\ favorites' = favorites + 1
      /\ relayDir' = relayDir /\ UNCHANGED readerVars /\ UNCHANGED streamVars /\ missed' = missed
      /\ reads' = reads /\ configs' = configs /\ connects' = connects
      /\ raced' \subseteq raced \cup {n}
  BY DEF handleAPIFavorite, SetFavorite
<1>1. nodeDir \in Directory
  BY CurrentMap
<1>2. ent \in Entry
  <2>1. nodeDir[n] \in Entry
    BY <1>0, <1>1, DirectoryIsOne
  <2> QED
    BY <2>1 DEF Entry
<1> HIDE DEF ent
<1>3. d \in Directory /\ DOMAIN d = DOMAIN nodeDir
  <2>1. d \in Directory /\ DOMAIN d = DOMAIN nodeDir \cup {n}
    BY <1>1, <1>2, StoreTyped
  <2> QED
    BY <1>0, <2>1
<1>4. e \in EventType /\ NamesNode(e)
  <2>1. "" \in Name /\ 0 \in Amount
    BY DEF Name, Amount
  <2> QED
    BY <2>1, EventTyped
<1> HIDE DEF d, e
<1>5. /\ maps' \in Seq(Directory) /\ Len(maps') = Len(maps) /\ nodeDir' = d
      /\ MapsGrow /\ crashed' \in BOOLEAN
  BY <1>0, <1>3, WriteStep
<1>6. ReaderTyped' /\ StreamTyped'
  BY <1>0, <1>5, KeepReader, KeepStream
<1>7. MapsTyped'
  BY <1>0, <1>5 DEF MapsTyped, readerVars
<1>8. FavTyped'
  <2>1. PICK v : v = <<e>> /\ v \in Seq(EventType) /\ Len(v) = 1 /\ v[1] = e
    <3>1. <<e>> \in Seq(EventType) /\ Len(<<e>>) = 1
      BY <1>4, ShortSequences
    <3>2. <<e>>[1] = e
      OBVIOUS
    <3> QED
      BY <3>1, <3>2
  <2>2. \A i \in 1 .. Len(v) : NamesNode(v[i])
    BY <1>4, <2>1
  <2>3. fav' = [fav EXCEPT ![h] = v] /\ fav \in [Handler -> Seq(EventType)]
    BY <1>0, <2>1 DEF FavTyped
  <2>4. fav' \in [Handler -> Seq(EventType)]
    BY <2>1, <2>3
  <2>5. ASSUME NEW g \in Handler, NEW i \in 1 .. Len(fav'[g]) PROVE NamesNode(fav'[g][i])
    BY <2>2, <2>3, <2>5 DEF FavTyped
  <2> QED
    BY <2>4, <2>5 DEF FavTyped, NamesNode
<1>9. CountsTyped'
  <2>1. favorites' \in 0 .. MaxFavorites
    BY <1>0, DirectoryAssumption DEF CountsTyped
  <2>2. raced' \subseteq Node
    BY <1>0 DEF CountsTyped
  <2> QED
    BY <1>0, <1>5, <2>1, <2>2 DEF CountsTyped
<1>10. IndexRight'
  BY <1>0, <1>3, <1>5 DEF IndexRight
<1> QED
  BY <1>6, <1>7, <1>8, <1>9, <1>10

\* The publish of a favourite.
LEMMA PublishFavoriteStep ==
  ASSUME DirIInv, NEW h \in Handler, PublishFavorite(h)
  PROVE  DirIInv'
<1> USE DEF DirIInv
<1>0. /\ fav[h] # <<>> /\ fav' = [fav EXCEPT ![h] = <<>>] /\ Deliver(fav[h][1])
      /\ UNCHANGED <<maps, stream, hand, view>> /\ relayDir' = relayDir /\ UNCHANGED readerVars
      /\ crashed' = crashed /\ raced' = raced /\ UNCHANGED counters
  BY DEF PublishFavorite, PublishFavoriteEvent, dirVars
<1>1. PICK e : e = fav[h][1]
  OBVIOUS
<1>2. Sound(e) /\ Deliver(e)
  <2>1. fav[h] \in Seq(EventType) /\ 1 \in 1 .. Len(fav[h])
    BY <1>0 DEF FavTyped
  <2>2. e \in EventType /\ NamesNode(e)
    BY <1>1, <2>1 DEF FavTyped
  <2> QED
    BY <1>0, <1>1, <2>2 DEF Sound
<1>3. StreamTyped' /\ missed' \in BOOLEAN
  BY <1>0, <1>2, DeliverStep
<1>4. MapsTyped' /\ MapsGrow
  BY <1>0, KeepMaps DEF readerVars, counters
<1>5. ReaderTyped'
  BY <1>0, <1>4, KeepReader
<1>6. FavTyped'
  <2>1. <<>> \in Seq(EventType) /\ Len(<<>>) = 0
    BY ShortSequences
  <2>2. fav \in [Handler -> Seq(EventType)]
    BY DEF FavTyped
  <2>3. fav' \in [Handler -> Seq(EventType)]
    BY <1>0, <2>1, <2>2
  <2>4. ASSUME NEW g \in Handler, NEW i \in 1 .. Len(fav'[g]) PROVE NamesNode(fav'[g][i])
    BY <1>0, <2>1, <2>2, <2>4 DEF FavTyped
  <2> QED
    BY <2>3, <2>4 DEF FavTyped, NamesNode
<1>7. CountsTyped'
  <2>1. crashed' \in BOOLEAN /\ raced' \subseteq Node
    BY <1>0 DEF CountsTyped
  <2> QED
    BY <1>0, <1>3, <2>1, KeepCounts
<1>8. IndexRight'
  BY <1>0 DEF IndexRight, GoodIndex, nodeDir
<1> QED
  BY <1>3, <1>4, <1>5, <1>6, <1>7, <1>8

\* A step of the stream or the browser changes nothing else.
LEMMA StreamOnly ==
  ASSUME DirIInv, UNCHANGED <<dirVars, readerVars, fav, crashed, raced, reads, configs, favorites>>,
         StreamTyped', missed' \in BOOLEAN, connects' \in 0 .. MaxConnects
  PROVE  DirIInv'
<1> USE DEF DirIInv
<1>1. maps' = maps /\ relayDir' = relayDir /\ todo' = todo /\ evt' = evt
  BY DEF dirVars, readerVars
<1>2. MapsTyped' /\ MapsGrow
  BY <1>1, KeepMaps
<1>3. ReaderTyped' /\ FavTyped'
  BY <1>1, <1>2, KeepReader, KeepFav DEF readerVars
<1>4. CountsTyped'
  BY DEF CountsTyped
<1>5. IndexRight'
  BY <1>1 DEF IndexRight, GoodIndex, nodeDir
<1> QED
  BY <1>2, <1>3, <1>4, <1>5

\* A sound event stays so while no map changes.
LEMMA SameSound == ASSUME maps' = maps PROVE \A e : Sound(e) => Sound(e)'
  BY DEF Sound, NamesNode, NamesMap, EventType

\* The stream opens, sends its copy, or ends (server.go, handleSSE).
LEMMA OpenCloseStep == DirIInv /\ (Connect \/ SendInitial \/ Disconnect) => DirIInv'
<1> SUFFICES ASSUME DirIInv, Connect \/ SendInitial \/ Disconnect PROVE DirIInv'
  OBVIOUS
<1>1. StreamTyped /\ CountsTyped /\ nodeDir \in Directory
  BY CurrentMap DEF DirIInv
<1>2. maps' = maps /\ UNCHANGED <<dirVars, readerVars, fav, crashed, raced, reads, configs, favorites>>
  BY DEF Connect, SendInitial, Disconnect, dirVars, counters
<1>3. \A e : Sound(e) => Sound(e)'
  BY <1>2, SameSound
<1>4. CASE Connect
  <2>1. /\ stream' = "subscribed" /\ queue' = queue /\ view' = view /\ missed' = missed
        /\ connects' = connects + 1 /\ connects < MaxConnects
    BY <1>4 DEF Connect
  <2>2. StreamTyped'
    BY <1>1, <1>3, <2>1 DEF StreamTyped
  <2>3. connects' \in 0 .. MaxConnects /\ missed' \in BOOLEAN
    BY <1>1, <2>1, DirectoryAssumption DEF CountsTyped
  <2> QED
    BY <1>2, <2>2, <2>3, StreamOnly
<1>5. CASE SendInitial
  <2>1. /\ stream' = "loop" /\ queue' = queue /\ view' = nodeDir /\ missed' = missed
        /\ connects' = connects
    BY <1>5 DEF SendInitial, NodeDirectoryCopy, counters
  <2>2. StreamTyped'
    BY <1>1, <1>3, <2>1 DEF StreamTyped
  <2>3. connects' \in 0 .. MaxConnects /\ missed' \in BOOLEAN
    BY <1>1, <2>1 DEF CountsTyped
  <2> QED
    BY <1>2, <2>2, <2>3, StreamOnly
<1>6. CASE Disconnect
  <2>1. /\ stream' = "off" /\ queue' = <<>> /\ view' = view /\ missed' = FALSE
        /\ connects' = connects
    BY <1>6 DEF Disconnect, counters
  <2>2. <<>> \in Seq(EventType) /\ Len(<<>>) = 0
    BY ShortSequences
  <2>3. StreamTyped'
    BY <1>1, <2>1, <2>2, DirectoryAssumption DEF StreamTyped
  <2>4. connects' \in 0 .. MaxConnects /\ missed' \in BOOLEAN
    BY <1>1, <2>1 DEF CountsTyped
  <2> QED
    BY <1>2, <2>3, <2>4, StreamOnly
<1> QED
  BY <1>4, <1>5, <1>6

\* The event the stream receives is sound, and so are the ones behind it.
LEMMA HeadEvent ==
  ASSUME StreamTyped, NEW types, Received(types)
  PROVE  /\ queue # <<>> /\ stream = "loop" /\ Sound(Head(queue)) /\ Head(queue).type \in types
         /\ Tail(queue) \in Seq(EventType) /\ Len(Tail(queue)) <= Buffer
         /\ \A i \in 1 .. Len(Tail(queue)) : Sound(Tail(queue)[i])
<1>1. /\ queue \in Seq(EventType) /\ queue # <<>> /\ Len(queue) \in Nat \ {0}
      /\ stream = "loop" /\ Head(queue).type \in types /\ Len(queue) <= Buffer
  BY DEF StreamTyped, Received
<1>2. Head(queue) = queue[1] /\ 1 \in 1 .. Len(queue)
  BY <1>1
<1>3. Sound(Head(queue))
  BY <1>2 DEF StreamTyped
<1>4. PICK t : /\ t = Tail(queue) /\ t \in Seq(EventType) /\ Len(t) = Len(queue) - 1
               /\ \A i \in 1 .. Len(t) : t[i] = queue[i + 1]
  BY <1>1, HeadTailProperties
<1>5. ASSUME NEW i \in 1 .. Len(t) PROVE Sound(t[i])
  <2>1. i + 1 \in 1 .. Len(queue)
    BY <1>1, <1>4
  <2> QED
    BY <1>4, <2>1 DEF StreamTyped
<1>6. Len(t) <= Buffer
  BY <1>1, <1>4, DirectoryAssumption
<1> QED
  BY <1>1, <1>3, <1>4, <1>5, <1>6

\* What a handler of the browser makes of an entry is one (app.js).
LEMMA PatchedTyped ==
  ASSUME NEW ent \in Entry, NEW e \in EventType, e.type # "node_directory"
  PROVE  Patched(ent, e) \in Entry
<1>1. /\ e.type \in {"position", "metric", "node_update", "node_favorite"}
      /\ e.name \in Name /\ e.val \in Amount /\ e.fav \in BOOLEAN
  BY DEF EventType
<1>2. PICK seen : seen = [ent EXCEPT !.seen = TRUE]
  OBVIOUS
<1>3. seen \in Entry
  BY <1>2 DEF Entry
<1>4. CASE e.type = "position"
  <2>1. Patched(ent, e) = [seen EXCEPT !.pos = e.val]
    BY <1>2, <1>4 DEF Patched
  <2> QED
    BY <1>1, <1>3, <2>1 DEF Entry
<1>5. CASE e.type = "metric"
  <2>1. Patched(ent, e) = [seen EXCEPT !.metric = IF e.val = 0 THEN @ ELSE e.val]
    BY <1>2, <1>5 DEF Patched
  <2> QED
    BY <1>1, <1>3, <2>1 DEF Entry
<1>6. CASE e.type = "node_update"
  <2>1. Patched(ent, e) = [seen EXCEPT !.name = IF e.name = "" THEN @ ELSE e.name]
    BY <1>2, <1>6 DEF Patched
  <2> QED
    BY <1>1, <1>3, <2>1 DEF Entry
<1>7. CASE e.type = "node_favorite"
  <2>1. Patched(ent, e) = [ent EXCEPT !.fav = e.fav]
    BY <1>7 DEF Patched
  <2> QED
    BY <1>1, <2>1 DEF Entry
<1> QED
  BY <1>1, <1>4, <1>5, <1>6, <1>7

\* The browser's directory after an event about a node.
LEMMA AppliedTyped ==
  ASSUME NEW v \in Directory, NEW e \in EventType, NamesNode(e)
  PROVE  Applied(v, e) \in Directory
<1> DEFINE ent == IF e.node \in DOMAIN v THEN v[e.node] ELSE [Blank EXCEPT !.name = e.name]
<1>1. ent \in Entry
  <2>1. e.node \in DOMAIN v => v[e.node] \in Entry
    BY DirectoryIsOne
  <2>2. e.name \in Name
    BY DEF EventType
  <2>3. Blank \in Entry
    BY DEF Blank, Entry, Name, Amount
  <2>4. [Blank EXCEPT !.name = e.name] \in Entry
    BY <2>2, <2>3 DEF Entry
  <2> QED
    BY <2>1, <2>4
<1>2. Patched(ent, e) \in Entry
  BY <1>1, PatchedTyped DEF NamesNode
<1>3. Applied(v, e) = v \/ Applied(v, e) = Store(v, e.node, Patched(ent, e))
  BY DEF Applied
<1> HIDE DEF ent
<1>4. PICK p : p = Patched(ent, e)
  OBVIOUS
<1>5. PICK n : n = e.node /\ n \in Node
  BY DEF NamesNode
<1>6. Store(v, n, p) \in Directory
  BY <1>2, <1>4, <1>5, StoreTyped
<1> QED
  BY <1>3, <1>4, <1>5, <1>6

\* The browser applies or, while paused, ignores an event about a node.
LEMMA SendEventStep == DirIInv /\ SendEvent => DirIInv'
<1> SUFFICES ASSUME DirIInv, SendEvent PROVE DirIInv'
  OBVIOUS
<1>1. StreamTyped /\ CountsTyped
  BY DEF DirIInv
<1> DEFINE e == Head(queue)
<1>2. /\ Received({"position", "metric", "node_update", "node_favorite"})
      /\ queue' = Tail(queue) /\ stream' = stream /\ view' \in {view, Applied(view, e)}
      /\ missed' \in BOOLEAN /\ connects' = connects /\ maps' = maps
      /\ UNCHANGED <<dirVars, readerVars, fav, crashed, raced, reads, configs, favorites>>
  <2>1. PICK ignored \in Ignored(e) : view' = (IF ignored THEN view ELSE Applied(view, e))
                                      /\ missed' = (missed \/ ignored)
    BY DEF SendEvent
  <2>2. missed' \in BOOLEAN /\ view' \in {view, Applied(view, e)}
    BY <1>1, <2>1 DEF CountsTyped
  <2> QED
    BY <2>2 DEF SendEvent, dirVars, counters
<1>3. /\ queue # <<>> /\ stream = "loop" /\ Sound(e)
      /\ e.type \in {"position", "metric", "node_update", "node_favorite"}
      /\ Tail(queue) \in Seq(EventType) /\ Len(Tail(queue)) <= Buffer
      /\ \A i \in 1 .. Len(Tail(queue)) : Sound(Tail(queue)[i])
  BY <1>1, <1>2, HeadEvent
<1>4. e \in EventType /\ NamesNode(e)
  BY <1>3 DEF Sound, NamesMap
<1> HIDE DEF e
<1>5. view' \in Directory
  BY <1>1, <1>2, <1>4, AppliedTyped DEF StreamTyped
<1>6. \A x : Sound(x) => Sound(x)'
  BY <1>2, SameSound
<1>7. PICK q : /\ q = Tail(queue) /\ q \in Seq(EventType) /\ Len(q) <= Buffer
               /\ \A i \in 1 .. Len(q) : Sound(q[i])'
  BY <1>3, <1>6
<1>8. StreamTyped'
  BY <1>2, <1>3, <1>5, <1>7 DEF StreamTyped
<1>9. connects' \in 0 .. MaxConnects
  BY <1>1, <1>2 DEF CountsTyped
<1> QED
  BY <1>2, <1>8, <1>9, StreamOnly

\* The stream starts to encode the map an event names.
LEMMA EncodeStep == DirIInv /\ EncodeDirectory => DirIInv'
<1> SUFFICES ASSUME DirIInv, EncodeDirectory PROVE DirIInv'
  OBVIOUS
<1>1. StreamTyped /\ CountsTyped /\ maps \in Seq(Directory)
  BY DEF DirIInv, MapsTyped
<1> DEFINE i == Head(queue).map
<1>2. /\ Received({"node_directory"})
      /\ queue' = Tail(queue) /\ stream' = "encoding" /\ view' = view
      /\ hand' = [map |-> i, was |-> maps[i]]
      /\ missed' \in BOOLEAN /\ connects' = connects /\ maps' = maps
      /\ UNCHANGED <<dirVars, readerVars, fav, crashed, raced, reads, configs, favorites>>
  <2>1. missed' \in BOOLEAN
    BY <1>1 DEF CountsTyped, EncodeDirectory
  <2> QED
    BY <2>1 DEF EncodeDirectory, dirVars, counters
<1>3. /\ queue # <<>> /\ Sound(Head(queue)) /\ Head(queue).type = "node_directory"
      /\ Tail(queue) \in Seq(EventType) /\ Len(Tail(queue)) <= Buffer
      /\ \A j \in 1 .. Len(Tail(queue)) : Sound(Tail(queue)[j])
  BY <1>1, <1>2, HeadEvent
<1>4. i \in 1 .. Len(maps)
  BY <1>3 DEF Sound, NamesNode, NamesMap
<1> HIDE DEF i
<1>5. maps[i] \in Directory
  BY <1>1, <1>4
<1>6. hand'.map \in 1 .. Len(maps) /\ hand'.was \in Directory
  BY <1>2, <1>4, <1>5
<1>7. \A x : Sound(x) => Sound(x)'
  BY <1>2, SameSound
<1>8. PICK q : /\ q = Tail(queue) /\ q \in Seq(EventType) /\ Len(q) <= Buffer
               /\ \A j \in 1 .. Len(q) : Sound(q[j])'
  BY <1>3, <1>7
<1>9. StreamTyped'
  BY <1>1, <1>2, <1>6, <1>8 DEF StreamTyped
<1>10. connects' \in 0 .. MaxConnects
  BY <1>1, <1>2 DEF CountsTyped
<1> QED
  BY <1>2, <1>9, <1>10, StreamOnly

\* What the encoder read of a map, before and after writes to it, is a directory.
LEMMA SendDirectoryStep == DirIInv /\ SendDirectory => DirIInv'
<1> SUFFICES ASSUME DirIInv, SendDirectory PROVE DirIInv'
  OBVIOUS
<1>1. StreamTyped /\ CountsTyped /\ maps \in Seq(Directory)
  BY DEF DirIInv, MapsTyped
<1>2. /\ stream = "encoding" /\ stream' = "loop" /\ queue' = queue
      /\ missed' = missed /\ connects' = connects /\ maps' = maps
      /\ UNCHANGED <<dirVars, readerVars, fav, crashed, raced, reads, configs, favorites>>
  BY DEF SendDirectory, dirVars, counters
<1>3. PICK now : now = maps[hand.map] /\ now \in Directory
  BY <1>1, <1>2 DEF StreamTyped
<1>4. PICK was : was = hand.was /\ was \in Directory
  BY <1>1, <1>2 DEF StreamTyped
<1>5. PICK old : view' = [n \in {m \in DOMAIN now : m \in old => m \in DOMAIN was} |->
                            IF n \in old THEN was[n] ELSE now[n]]
  BY <1>3, <1>4 DEF SendDirectory
<1>6. view' \in Directory
  <2>1. PICK D : D = {m \in DOMAIN now : m \in old => m \in DOMAIN was}
    OBVIOUS
  <2>2. DOMAIN now \subseteq Node /\ (\A n \in DOMAIN now : now[n] \in Entry)
        /\ (\A n \in DOMAIN was : was[n] \in Entry)
    BY <1>3, <1>4, DirectoryIsOne
  <2>3. D \in SUBSET Node
    BY <2>1, <2>2
  <2>4. view' = [n \in D |-> IF n \in old THEN was[n] ELSE now[n]]
    BY <1>5, <2>1
  <2>5. \A n \in D : (IF n \in old THEN was[n] ELSE now[n]) \in Entry
    BY <2>1, <2>2
  <2>6. view' \in [D -> Entry]
    BY <2>4, <2>5
  <2> QED
    BY <2>3, <2>6 DEF Directory
<1>7. \A x : Sound(x) => Sound(x)'
  BY <1>2, SameSound
<1>8. StreamTyped'
  BY <1>1, <1>2, <1>6, <1>7 DEF StreamTyped
<1>9. connects' \in 0 .. MaxConnects /\ missed' \in BOOLEAN
  BY <1>1, <1>2 DEF CountsTyped
<1> QED
  BY <1>2, <1>8, <1>9, StreamOnly

\* A step that changes nothing.
LEMMA DirStutter == DirIInv /\ UNCHANGED vars => DirIInv'
<1> SUFFICES ASSUME DirIInv, UNCHANGED vars PROVE DirIInv'
  OBVIOUS
<1>1. /\ UNCHANGED <<dirVars, readerVars, fav, crashed, raced, reads, configs, favorites>>
      /\ UNCHANGED streamVars /\ missed' = missed /\ connects' = connects /\ maps' = maps
  BY DEF vars, dirVars, readerVars, streamVars
<1>2. Len(maps) \in Nat /\ StreamTyped /\ CountsTyped
  BY DEF DirIInv, MapsTyped
<1>3. MapsGrow
  BY <1>1, <1>2 DEF MapsGrow
<1>4. StreamTyped'
  BY <1>1, <1>2, <1>3, KeepStream
<1>5. connects' \in 0 .. MaxConnects /\ missed' \in BOOLEAN
  BY <1>1, <1>2 DEF CountsTyped
<1> QED
  BY <1>1, <1>4, <1>5, StreamOnly

\* One step of the program keeps the invariant.
LEMMA DirStep == DirIInv /\ [Next]_vars => DirIInv'
<1> SUFFICES ASSUME DirIInv, [Next]_vars PROVE DirIInv'
  OBVIOUS
<1>1. CASE \E p \in Packet : ReadPacket(p)
  BY <1>1, ReadPacketStep
<1>2. CASE \E c \in Config : ReadConfig(c)
  BY <1>2, ReadConfigStep
<1>3. CASE SetNodeDirectory
  BY <1>3, SetDirectoryStep
<1>4. CASE UpdateNodePosition \/ UpdateNodeMetric \/ UpsertNode
  BY <1>4, PositionStep, MetricStep, UpsertStep
<1>5. CASE PublishUpdate
  BY <1>5, PublishUpdateStep
<1>6. CASE \E h \in Handler, n \in Node, f \in BOOLEAN : handleAPIFavorite(h, n, f)
  BY <1>6, FavoriteStep
<1>7. CASE \E h \in Handler : PublishFavorite(h)
  BY <1>7, PublishFavoriteStep
<1>8. CASE Connect \/ SendInitial \/ Disconnect
  BY <1>8, OpenCloseStep
<1>9. CASE SendEvent \/ EncodeDirectory \/ SendDirectory
  BY <1>9, SendEventStep, EncodeStep, SendDirectoryStep
<1>10. CASE UNCHANGED vars
  BY <1>10, DirStutter
<1> QED
  BY <1>1, <1>2, <1>3, <1>4, <1>5, <1>6, <1>7, <1>8, <1>9, <1>10 DEF Next

\* What the invariant is for.
LEMMA DirImplies == DirIInv => DirectoryInv
<1> SUFFICES ASSUME DirIInv PROVE DirectoryInv
  OBVIOUS
<1> USE DEF DirIInv
<1>1. maps # <<>> /\ \A i \in DOMAIN maps : IsDirectory(maps[i])
  <2>1. maps \in Seq(Directory) /\ Len(maps) \in Nat \ {0}
    BY CurrentMap
  <2>2. \A i \in DOMAIN maps : maps[i] \in Directory
    BY <2>1
  <2> QED
    BY <2>1, <2>2, DirectoryIsOne
<1>2. /\ DOMAIN relayDir \subseteq 0 .. 255
      /\ \A b \in DOMAIN relayDir : BagToSet(relayDir[b]) \subseteq Node
  BY DEF IndexRight, GoodIndex, BagToSet
<1>3. /\ \A i \in DOMAIN queue : queue[i] \in EventType
      /\ \A i \in DOMAIN evt : evt[i] \in EventType
  BY DEF StreamTyped, ReaderTyped
<1>4. \A h \in Handler : \A i \in DOMAIN fav[h] : fav[h][i] \in EventType
  BY DEF FavTyped
<1>5. /\ Len(queue) <= Buffer /\ Len(evt) <= 1 /\ Len(todo) <= 2
      /\ stream \in {"off", "subscribed", "loop", "encoding"} /\ view \in Directory
  BY DEF StreamTyped, ReaderTyped
<1>6. IsDirectory(view)
  BY <1>5, DirectoryIsOne
<1>7. TypeOK
  BY <1>1, <1>2, <1>3, <1>4, <1>5, <1>6 DEF TypeOK, CountsTyped
<1>8. RelayIndexSound
  BY DEF RelayIndexSound, IndexRight, GoodIndex, BagToSet
<1> QED
  BY <1>7, <1>8 DEF DirectoryInv

\* The directory is well formed and the relay index names each node at most
\* once, under its last byte, and only nodes of the current directory, through
\* every interleaving of swaps, upserts, favourites and streams
\* (node_directory.go:7-12, 197-201).
THEOREM DirectorySound == Spec => []DirectoryInv
  BY InitDir, DirStep, DirImplies, PTL DEF Spec

(***************************************************************************)
(* The runtime fields.                                                     *)
(***************************************************************************)
\* The body of RuntimeFieldsSurvive, with the two directories as arguments.
Survives(old, new, asked) ==
  \A n \in DOMAIN old \cap DOMAIN new :
    /\ old[n].seen => new[n].seen
    /\ old[n].fav /\ ~new[n].fav => asked

\* A write of one entry keeps what every other entry says.
LEMMA StoreSurvives ==
  ASSUME NEW d \in Directory, NEW n \in Node, NEW e \in Entry, NEW asked \in BOOLEAN,
         e.seen, n \in DOMAIN d => d[n].fav = e.fav
  PROVE  Survives(d, Store(d, n, e), asked)
<1>1. \A m \in DOMAIN d \cup {n} : Store(d, n, e)[m] = IF m = n THEN e ELSE d[m]
  BY StoreTyped
<1>2. ASSUME NEW m \in DOMAIN d
      PROVE  /\ d[m].seen => Store(d, n, e)[m].seen
             /\ d[m].fav /\ ~Store(d, n, e)[m].fav => asked
  <2>1. CASE m = n
    <3>1. Store(d, n, e)[m] = e
      BY <1>1, <2>1
    <3> QED
      BY <2>1, <3>1
  <2>2. CASE m # n
    <3>1. Store(d, n, e)[m] = d[m]
      BY <1>1, <2>2
    <3> QED
      BY <3>1
  <2> QED
    BY <2>1, <2>2
<1> QED
  BY <1>2 DEF Survives

\* SetNodeDirectory carries the fields over (node_directory.go:15-17).
LEMMA SwapSurvives ==
  ASSUME DirIInv, SetNodeDirectory
  PROVE  Survives(nodeDir, nodeDir', favorites' # favorites)
<1> DEFINE new == ExtractNodeDirectory(Head(todo).frames)
           dir == [n \in DOMAIN new |->
                     IF n \in DOMAIN nodeDir THEN KeepRuntime(nodeDir[n], new[n]) ELSE new[n]]
<1>1. maps' = Append(maps, dir) /\ Doing("directory")
  BY DEF SetNodeDirectory
<1>2. maps \in Seq(Directory) /\ Len(maps) \in Nat \ {0} /\ nodeDir \in Directory
  BY CurrentMap DEF DirIInv
<1>3. new \in Directory
  <2>1. Head(todo) \in UpdateType
    BY <1>1, HeadUpdate DEF DirIInv
  <2>2. Head(todo).frames \in Seq(NodeInfoType)
    BY <2>1 DEF UpdateType
  <2> QED
    BY <2>2, ExtractedIsDirectory
<1> HIDE DEF new
<1>4. ASSUME NEW n \in DOMAIN nodeDir \cap DOMAIN new
      PROVE  /\ dir[n] = KeepRuntime(nodeDir[n], new[n])
             /\ nodeDir[n] \in Entry /\ new[n] \in Entry
  BY <1>2, <1>3, DirectoryIsOne
<1>5. DOMAIN dir = DOMAIN new
  OBVIOUS
<1> HIDE DEF dir
<1>6. nodeDir' = dir
  <2>1. /\ Len(Append(maps, dir)) = Len(maps) + 1 /\ Append(maps, dir)[Len(maps) + 1] = dir
    BY <1>2
  <2> QED
    BY <1>1, <2>1 DEF nodeDir
<1>7. ASSUME NEW old \in Entry, NEW e \in Entry
      PROVE  /\ old.seen => KeepRuntime(old, e).seen
             /\ old.fav => KeepRuntime(old, e).fav
  BY DEF KeepRuntime, Entry
<1> QED
  BY <1>4, <1>5, <1>6, <1>7 DEF Survives

\* The updates of an entry mark it as seen and keep its favourite
\* (node_directory.go, updateNodeEntry, UpsertNode).
LEMMA UpdateStores ==
  ASSUME DirIInv, UpdateNodePosition \/ UpdateNodeMetric \/ UpsertNode
  PROVE  \E n \in Node, e \in Entry :
           /\ e.seen /\ e.fav = Lookup(nodeDir, n).fav /\ WriteNodeDir(Store(nodeDir, n, e))
           /\ evt = <<>>
<1>1. \E op \in {"position", "metric", "node"} : Doing(op)
  BY Zenon DEF UpdateNodePosition, UpdateNodeMetric, UpsertNode
<1>2. PICK n : n = Head(todo).node /\ n \in Node /\ Head(todo) \in UpdateType /\ evt = <<>>
  BY <1>1, HeadUpdate DEF DirIInv
<1>3. nodeDir \in Directory
  BY CurrentMap DEF DirIInv
<1>4. HeadEntry \in Entry /\ HeadEntry = Lookup(nodeDir, n)
  BY <1>2, <1>3, LookupTyped DEF HeadEntry
<1>5. PICK old \in Entry : old = HeadEntry
  BY <1>4
<1>6. /\ Head(todo).val \in Amount /\ Head(todo).name \in Name
  BY <1>2 DEF UpdateType
<1>7. \E e \in Entry : e.seen /\ e.fav = old.fav /\ WriteNodeDir(Store(nodeDir, n, e))
  <2>1. CASE UpdateNodePosition
    <3>1. PICK v : v = Head(todo).val /\ v \in Amount
      BY <1>6
    <3>2. PICK e : e = [[old EXCEPT !.pos = v] EXCEPT !.seen = TRUE]
      OBVIOUS
    <3>3. WriteNodeDir(Store(nodeDir, n, e))
      BY <1>2, <1>5, <2>1, <3>1, <3>2 DEF UpdateNodePosition, UpdateNodeEntry
    <3>4. e \in Entry /\ e.seen /\ e.fav = old.fav
      BY <3>1, <3>2 DEF Entry
    <3> QED
      BY <3>3, <3>4
  <2>2. CASE UpdateNodeMetric
    <3>1. PICK v : v = (IF Head(todo).val = 0 THEN old.metric ELSE Head(todo).val) /\ v \in Amount
      BY <1>6 DEF Entry
    <3>2. PICK e : e = [[old EXCEPT !.metric = v] EXCEPT !.seen = TRUE]
      OBVIOUS
    <3>3. WriteNodeDir(Store(nodeDir, n, e))
      <4>1. [old EXCEPT !.metric = IF Head(todo).val = 0 THEN @ ELSE Head(todo).val]
              = [old EXCEPT !.metric = v]
        BY <3>1
      <4> QED
        BY <1>2, <1>5, <2>2, <3>2, <4>1 DEF UpdateNodeMetric, UpdateNodeEntry
    <3>4. e \in Entry /\ e.seen /\ e.fav = old.fav
      BY <3>1, <3>2 DEF Entry
    <3> QED
      BY <3>3, <3>4
  <2>3. CASE UpsertNode
    <3>1. PICK nm : nm = Head(todo).name /\ nm \in Name
      BY <1>6
    <3>2. PICK e : e = [old EXCEPT !.seen = TRUE, !.name = IF nm = "" THEN @ ELSE nm]
      OBVIOUS
    <3>3. WriteNodeDir(Store(nodeDir, n, e))
      BY <1>2, <1>5, <2>3, <3>1, <3>2 DEF UpsertNode
    <3>4. e \in Entry /\ e.seen /\ e.fav = old.fav
      BY <3>1, <3>2 DEF Entry
    <3> QED
      BY <3>3, <3>4
  <2> QED
    BY <2>1, <2>2, <2>3
<1> QED
  BY <1>2, <1>4, <1>5, <1>7

\* ... so nothing is lost.
LEMMA UpdateSurvives ==
  ASSUME DirIInv, UpdateNodePosition \/ UpdateNodeMetric \/ UpsertNode
  PROVE  Survives(nodeDir, nodeDir', favorites' # favorites)
<1>1. PICK n \in Node, e \in Entry :
        e.seen /\ e.fav = Lookup(nodeDir, n).fav /\ WriteNodeDir(Store(nodeDir, n, e))
  BY UpdateStores
<1>2. nodeDir \in Directory
  BY CurrentMap DEF DirIInv
<1>3. Store(nodeDir, n, e) \in Directory
  BY <1>2, StoreTyped
<1>4. nodeDir' = Store(nodeDir, n, e)
  BY <1>1, <1>3, WriteStep DEF DirIInv
<1>5. PICK asked \in BOOLEAN : asked = (favorites' # favorites)
  OBVIOUS
<1>6. n \in DOMAIN nodeDir => nodeDir[n].fav = e.fav
  BY <1>1 DEF Lookup
<1>7. Survives(nodeDir, Store(nodeDir, n, e), asked)
  BY <1>1, <1>2, <1>6, StoreSurvives
<1> QED
  BY <1>4, <1>5, <1>7

\* Only a request clears a favourite, and nothing clears seen.
LEMMA StepSurvives ==
  ASSUME DirIInv, [Next]_vars
  PROVE  Survives(nodeDir, nodeDir', favorites' # favorites)
<1>1. CASE maps' = maps
  BY <1>1 DEF Survives, nodeDir
<1>2. CASE SetNodeDirectory
  BY <1>2, SwapSurvives
<1>3. CASE UpdateNodePosition \/ UpdateNodeMetric \/ UpsertNode
  BY <1>3, UpdateSurvives
<1>4. ASSUME NEW h \in Handler, NEW n \in Node, NEW f \in BOOLEAN, handleAPIFavorite(h, n, f)
      PROVE  Survives(nodeDir, nodeDir', favorites' # favorites)
  <2>1. favorites' # favorites
    <3>1. favorites' = favorites + 1 /\ favorites \in 0 .. MaxFavorites
      BY <1>4 DEF handleAPIFavorite, DirIInv, CountsTyped
    <3> QED
      BY <3>1, DirectoryAssumption
  <2>2. PICK ent : ent = [nodeDir[n] EXCEPT !.fav = f]
    OBVIOUS
  <2>3. nodeDir \in Directory /\ n \in DOMAIN nodeDir /\ WriteNodeDir(Store(nodeDir, n, ent))
    BY <1>4, <2>2, CurrentMap DEF handleAPIFavorite, SetFavorite, DirIInv
  <2>4. nodeDir[n] \in Entry
    BY <2>3, DirectoryIsOne
  <2>5. ent \in Entry /\ ent.seen = nodeDir[n].seen
    BY <2>2, <2>4 DEF Entry
  <2>6. /\ Store(nodeDir, n, ent) \in Directory
        /\ \A m \in DOMAIN nodeDir \cup {n} :
             Store(nodeDir, n, ent)[m] = IF m = n THEN ent ELSE nodeDir[m]
    BY <2>3, <2>5, StoreTyped
  <2>7. nodeDir' = Store(nodeDir, n, ent)
    BY <2>3, <2>6, WriteStep DEF DirIInv
  <2>8. PICK new : new = Store(nodeDir, n, ent)
    OBVIOUS
  <2>9. \A m \in DOMAIN nodeDir : new[m].seen = nodeDir[m].seen
    BY <2>5, <2>6, <2>8
  <2> QED
    BY <2>1, <2>7, <2>8, <2>9 DEF Survives
<1>5. ASSUME \/ \E p \in Packet : ReadPacket(p)
             \/ \E c \in Config : ReadConfig(c)
             \/ PublishUpdate
             \/ \E h \in Handler : PublishFavorite(h)
             \/ Connect \/ SendInitial \/ SendEvent \/ EncodeDirectory \/ SendDirectory
             \/ Disconnect \/ UNCHANGED vars
      PROVE  maps' = maps
  BY <1>5 DEF ReadPacket, ReadConfig, PublishUpdate, PublishFavorite, Connect, SendInitial,
     SendEvent, EncodeDirectory, SendDirectory, Disconnect, dirVars, vars
<1> QED
  BY <1>1, <1>2, <1>3, <1>4, <1>5 DEF Next

\* "Runtime-only fields ... must survive a full directory replacement": a node
\* stays seen, and a favourite until a request clears it, through every swap and
\* every update (node_directory.go:15-17).
THEOREM RuntimeFields == Spec => RuntimeFieldsSurvive
<1>1. ASSUME DirIInv, [Next]_vars
      PROVE  [LET old == nodeDir
                  new == nodeDir'
              IN  \A n \in DOMAIN old \cap DOMAIN new :
                    /\ old[n].seen => new[n].seen
                    /\ old[n].fav /\ ~new[n].fav => favorites' # favorites]_vars
  BY <1>1, StepSurvives DEF Survives
<1> QED
  BY InitDir, DirStep, <1>1, PTL DEF Spec, RuntimeFieldsSurvive

(***************************************************************************)
(* The browser catches up.                                                 *)
(*                                                                         *)
(* What is under way to the view is the channel q and the event v that the *)
(* read loop is about to publish.  An event writes some fields of a node;  *)
(* a node_directory writes them all.  After the last directory under way,  *)
(* every write is overtaken by a later one or leaves what the directory d  *)
(* holds; and when no directory is under way, every field of the base b    *)
(* (the view, or the map as the encoder found it) is overwritten or right. *)
(***************************************************************************)
Field    == {"pos", "metric", "name", "seen"}
Updating == {"position", "metric", "node_update"}

Writes(e, n, x) ==
  /\ e.node = n
  /\ \/ x = "pos"    /\ e.type = "position"
     \/ x = "metric" /\ e.type = "metric" /\ e.val # 0
     \/ x = "name"   /\ e.type = "node_update" /\ e.name # ""
     \/ x = "seen"   /\ e.type \in Updating
Touches(e, n) == Writes(e, n, "seen")

Written(e, x) == CASE x = "name" -> e.name
                   [] x = "seen" -> TRUE
                   [] OTHER      -> e.val
Get(ent, x)   == CASE x = "pos"    -> ent.pos
                   [] x = "metric" -> ent.metric
                   [] x = "name"   -> ent.name
                   [] OTHER        -> ent.seen

\* Behind position j of the channel something writes the field.
Later(q, v, j, n, x) ==
  \/ \E l \in 1 .. Len(q) : l > j /\ Writes(q[l], n, x)
  \/ v # <<>> /\ Writes(v[1], n, x)

NoDirAfter(q, v, j) ==
  /\ \A l \in 1 .. Len(q) : l > j => q[l].type # "node_directory"
  /\ v # <<>> => v[1].type # "node_directory"

\* An event that says what the directory says; cur is the number of the map.
Current(e, d, cur) ==
  /\ e.type = "node_directory" => e.map = cur
  /\ \A n \in Node, x \in Field :
       Writes(e, n, x) => n \in DOMAIN d /\ Written(e, x) = Get(d[n], x)

QueueCurrent(q, v, d, cur) ==
  \A j \in 1 .. Len(q) : NoDirAfter(q, v, j) =>
    /\ q[j].type = "node_directory" => q[j].map = cur
    /\ \A n \in Node, x \in Field : Writes(q[j], n, x) =>
         n \in DOMAIN d /\ (Written(q[j], x) = Get(d[n], x) \/ Later(q, v, j, n, x))

TouchBefore(q, j, n) == \E i \in 1 .. Len(q) : i < j /\ Touches(q[i], n)

\* The browser creates an unknown node with the name in the event: the first
\* event of it brings the right one, or a later one does.
CreatorNames(q, v, d, n) ==
  /\ \A j \in 1 .. Len(q) : Touches(q[j], n) =>
       TouchBefore(q, j, n) \/ q[j].name = d[n].name \/ Later(q, v, j, n, "name")
  /\ v # <<>> /\ Touches(v[1], n) => TouchBefore(q, Len(q) + 1, n) \/ v[1].name = d[n].name

BaseCurrent(q, v, d, b) ==
  /\ DOMAIN b \subseteq DOMAIN d
  /\ \A n \in DOMAIN d : \A x \in Field :
       \/ Get(Lookup(b, n), x) = Get(d[n], x)
       \/ Later(q, v, 0, n, x)
       \/ x = "name" /\ n \notin DOMAIN b
  /\ \A n \in DOMAIN d \ DOMAIN b : Later(q, v, 0, n, "seen") /\ CreatorNames(q, v, d, n)

ViewIInv ==
  /\ stream = "off" => queue = <<>>
  /\ evt # <<>> => Current(evt[1], nodeDir, Len(maps))
  /\ stream # "off" /\ ~missed =>
       /\ QueueCurrent(queue, evt, nodeDir, Len(maps))
       /\ NoDirAfter(queue, evt, 0) =>
            /\ stream = "loop" => BaseCurrent(queue, evt, nodeDir, view)
            /\ stream = "encoding" =>
                 hand.map = Len(maps) /\ BaseCurrent(queue, evt, nodeDir, hand.was)

\* What a favourite request is about to publish.
FavEvents == \A h \in Handler : fav[h] # <<>> => fav[h][1].type = "node_favorite"

\* A channel that grew by e: what the read loop had in hand, or a favourite.
Grown(q, v, q2, v2, e) ==
  /\ Len(q) \in Nat /\ Len(q2) = Len(q) + 1
  /\ \A i \in 1 .. Len(q) : q2[i] = q[i]
  /\ q2[Len(q) + 1] = e
  /\ (v2 = v /\ e.type = "node_favorite") \/ (v # <<>> /\ e = v[1] /\ v2 = <<>>)

\* A favourite writes none of the four fields.
LEMMA FavoriteWritesNot ==
  ASSUME NEW e, e.type = "node_favorite", NEW n, NEW x
  PROVE  ~Writes(e, n, x)
  BY DEF Writes, Updating

\* What was to be overtaken still is.
LEMMA GrownLater ==
  ASSUME NEW q, NEW v, NEW q2, NEW v2, NEW e, Grown(q, v, q2, v2, e)
  PROVE  /\ \A n, x : \A j \in 0 .. Len(q) : Later(q, v, j, n, x) => Later(q2, v2, j, n, x)
         /\ \A j \in 0 .. Len(q) : NoDirAfter(q2, v2, j) => NoDirAfter(q, v, j)
         /\ \A n : \A j \in 1 .. Len(q) : TouchBefore(q, j, n) => TouchBefore(q2, j, n)
         /\ \A n : TouchBefore(q, Len(q) + 1, n) => TouchBefore(q2, Len(q) + 1, n)
<1>1. /\ Len(q) \in Nat /\ Len(q2) = Len(q) + 1 /\ Len(q) + 1 \in 1 .. Len(q2)
      /\ \A i \in 1 .. Len(q) : i \in 1 .. Len(q2) /\ q2[i] = q[i]
      /\ q2[Len(q) + 1] = e
  BY DEF Grown
<1>2. ASSUME NEW j \in 0 .. Len(q), NEW n, NEW x, Later(q, v, j, n, x)
      PROVE  Later(q2, v2, j, n, x)
  <2>1. CASE \E l \in 1 .. Len(q) : l > j /\ Writes(q[l], n, x)
    BY <1>1, <2>1 DEF Later
  <2>2. CASE v # <<>> /\ Writes(v[1], n, x)
    <3>1. CASE v2 = v
      BY <2>2, <3>1 DEF Later
    <3>2. CASE e = v[1]
      <4>1. Len(q) + 1 > j /\ Writes(q2[Len(q) + 1], n, x)
        BY <1>1, <2>2, <3>2
      <4> QED
        BY <1>1, <4>1 DEF Later
    <3> QED
      BY <3>1, <3>2 DEF Grown
  <2> QED
    BY <1>2, <2>1, <2>2 DEF Later
<1>3. ASSUME NEW j \in 0 .. Len(q), NoDirAfter(q2, v2, j) PROVE NoDirAfter(q, v, j)
  <2>1. \A l \in 1 .. Len(q) : l > j => q[l].type # "node_directory"
    BY <1>1, <1>3 DEF NoDirAfter
  <2>2. v # <<>> => v[1].type # "node_directory"
    <3>1. CASE v2 = v
      BY <1>3, <3>1 DEF NoDirAfter
    <3>2. CASE e = v[1]
      <4>1. Len(q) + 1 > j
        BY <1>1
      <4> QED
        BY <1>1, <1>3, <3>2, <4>1 DEF NoDirAfter
    <3> QED
      BY <3>1, <3>2 DEF Grown
  <2> QED
    BY <2>1, <2>2 DEF NoDirAfter
<1>4. /\ \A n : \A j \in 1 .. Len(q) : TouchBefore(q, j, n) => TouchBefore(q2, j, n)
      /\ \A n : TouchBefore(q, Len(q) + 1, n) => TouchBefore(q2, Len(q) + 1, n)
  BY <1>1 DEF TouchBefore
<1> QED
  BY <1>2, <1>3, <1>4

\* Publishing a current event keeps the channel current.
LEMMA GrownQueue ==
  ASSUME NEW q, NEW v, NEW q2, NEW v2, NEW e, NEW d, NEW cur,
         Grown(q, v, q2, v2, e), Current(e, d, cur), QueueCurrent(q, v, d, cur)
  PROVE  QueueCurrent(q2, v2, d, cur)
<1>1. /\ Len(q) \in Nat /\ Len(q2) = Len(q) + 1
      /\ \A i \in 1 .. Len(q) : q2[i] = q[i]
      /\ q2[Len(q) + 1] = e
  BY DEF Grown
<1>2. ASSUME NEW j \in 1 .. Len(q2), NoDirAfter(q2, v2, j)
      PROVE  /\ q2[j].type = "node_directory" => q2[j].map = cur
             /\ \A n \in Node, x \in Field : Writes(q2[j], n, x) =>
                  n \in DOMAIN d /\ (Written(q2[j], x) = Get(d[n], x) \/ Later(q2, v2, j, n, x))
  <2>1. CASE j = Len(q) + 1
    BY <1>1, <2>1 DEF Current
  <2>2. CASE j \in 1 .. Len(q)
    <3>1. q2[j] = q[j] /\ NoDirAfter(q, v, j) /\ j \in 0 .. Len(q)
      BY <1>1, <1>2, <2>2, GrownLater
    <3>2. \A n, x : Later(q, v, j, n, x) => Later(q2, v2, j, n, x)
      BY <3>1, GrownLater
    <3> QED
      BY <2>2, <3>1, <3>2 DEF QueueCurrent
  <2> QED
    BY <1>1, <2>1, <2>2
<1> QED
  BY <1>2 DEF QueueCurrent

\* ... and the base, too.
LEMMA GrownBase ==
  ASSUME NEW q, NEW v, NEW q2, NEW v2, NEW e, NEW d, NEW b,
         Grown(q, v, q2, v2, e), BaseCurrent(q, v, d, b)
  PROVE  BaseCurrent(q2, v2, d, b)
<1>1. /\ Len(q) \in Nat /\ Len(q2) = Len(q) + 1
      /\ \A i \in 1 .. Len(q) : q2[i] = q[i]
      /\ q2[Len(q) + 1] = e
  BY DEF Grown
<1>2. \A n, x : Later(q, v, 0, n, x) => Later(q2, v2, 0, n, x)
  <2>1. 0 \in 0 .. Len(q)
    BY <1>1
  <2> QED
    BY <2>1, GrownLater
<1>3. ASSUME NEW n \in DOMAIN d \ DOMAIN b PROVE CreatorNames(q2, v2, d, n)
  <2>1. CreatorNames(q, v, d, n)
    BY DEF BaseCurrent
  <2>2. ASSUME NEW j \in 1 .. Len(q2), Touches(q2[j], n)
        PROVE  TouchBefore(q2, j, n) \/ q2[j].name = d[n].name \/ Later(q2, v2, j, n, "name")
    <3>1. CASE j = Len(q) + 1
      <4>1. Touches(e, n) /\ q2[j] = e
        BY <1>1, <2>2, <3>1
      <4>2. v # <<>> /\ e = v[1]
        BY <4>1, FavoriteWritesNot DEF Grown, Touches
      <4>3. TouchBefore(q, Len(q) + 1, n) \/ e.name = d[n].name
        BY <2>1, <4>1, <4>2 DEF CreatorNames
      <4> QED
        BY <3>1, <4>1, <4>3, GrownLater
    <3>2. CASE j \in 1 .. Len(q)
      <4>1. q2[j] = q[j] /\ j \in 0 .. Len(q)
        BY <1>1, <3>2
      <4>2. TouchBefore(q, j, n) \/ q[j].name = d[n].name \/ Later(q, v, j, n, "name")
        BY <2>1, <2>2, <3>2, <4>1 DEF CreatorNames
      <4> QED
        BY <3>2, <4>1, <4>2, GrownLater
    <3> QED
      BY <1>1, <3>1, <3>2
  <2>3. v2 # <<>> /\ Touches(v2[1], n) => TouchBefore(q2, Len(q2) + 1, n) \/ v2[1].name = d[n].name
    <3>1. ASSUME v2 # <<>>, Touches(v2[1], n)
          PROVE  TouchBefore(q2, Len(q2) + 1, n) \/ v2[1].name = d[n].name
      <4>1. v2 = v
        BY <3>1 DEF Grown
      <4>2. TouchBefore(q, Len(q) + 1, n) \/ v[1].name = d[n].name
        BY <2>1, <3>1, <4>1 DEF CreatorNames
      <4>3. TouchBefore(q, Len(q) + 1, n) => TouchBefore(q2, Len(q2) + 1, n)
        BY <1>1 DEF TouchBefore
      <4> QED
        BY <4>1, <4>2, <4>3
    <3> QED
      BY <3>1
  <2> QED
    BY <2>2, <2>3 DEF CreatorNames
<1> QED
  BY <1>2, <1>3 DEF BaseCurrent

\* A channel without its head.
Shifted(q, q2) ==
  /\ Len(q) \in Nat \ {0} /\ Len(q2) = Len(q) - 1
  /\ \A i \in 1 .. Len(q2) : q2[i] = q[i + 1]

\* Positions move by one when the stream receives.
LEMMA ShiftedLater ==
  ASSUME NEW q, NEW q2, NEW v, Shifted(q, q2)
  PROVE  /\ \A n, x : \A j \in 0 .. Len(q2) : Later(q, v, j + 1, n, x) <=> Later(q2, v, j, n, x)
         /\ \A j \in 0 .. Len(q2) : NoDirAfter(q2, v, j) => NoDirAfter(q, v, j + 1)
         /\ \A n : ~Touches(q[1], n) =>
              \A j \in 1 .. Len(q2) + 1 : TouchBefore(q, j + 1, n) => TouchBefore(q2, j, n)
<1>1. /\ Len(q) \in Nat \ {0} /\ Len(q2) = Len(q) - 1 /\ Len(q2) \in Nat
      /\ \A i \in 1 .. Len(q2) : i + 1 \in 1 .. Len(q) /\ q2[i] = q[i + 1]
  BY DEF Shifted
<1>2. \A l \in 1 .. Len(q) : l > 1 => l - 1 \in 1 .. Len(q2) /\ q[l] = q2[l - 1]
  <2>1. ASSUME NEW l \in 1 .. Len(q), l > 1 PROVE l - 1 \in 1 .. Len(q2) /\ q[l] = q2[l - 1]
    <3>1. l - 1 \in 1 .. Len(q2) /\ (l - 1) + 1 = l
      BY <1>1, <2>1
    <3>2. q2[l - 1] = q[(l - 1) + 1]
      BY <1>1, <3>1
    <3> QED
      BY <3>1, <3>2
  <2> QED
    BY <2>1
<1>3. ASSUME NEW n, NEW x, NEW j \in 0 .. Len(q2)
      PROVE  Later(q, v, j + 1, n, x) <=> Later(q2, v, j, n, x)
  <2>1. ASSUME NEW l \in 1 .. Len(q), l > j + 1, Writes(q[l], n, x)
        PROVE  \E k \in 1 .. Len(q2) : k > j /\ Writes(q2[k], n, x)
    <3>1. l > 1 /\ l - 1 > j
      BY <1>1, <2>1
    <3>2. l - 1 \in 1 .. Len(q2) /\ Writes(q2[l - 1], n, x)
      BY <1>2, <2>1, <3>1
    <3> QED
      BY <3>1, <3>2
  <2>2. ASSUME NEW k \in 1 .. Len(q2), k > j, Writes(q2[k], n, x)
        PROVE  \E l \in 1 .. Len(q) : l > j + 1 /\ Writes(q[l], n, x)
    <3>1. k + 1 \in 1 .. Len(q) /\ Writes(q[k + 1], n, x)
      BY <1>1, <2>2
    <3>2. k + 1 > j + 1
      BY <1>1, <2>2
    <3> QED
      BY <3>1, <3>2
  <2> QED
    BY <2>1, <2>2 DEF Later
<1>4. ASSUME NEW j \in 0 .. Len(q2), NoDirAfter(q2, v, j) PROVE NoDirAfter(q, v, j + 1)
  <2>1. ASSUME NEW l \in 1 .. Len(q), l > j + 1 PROVE q[l].type # "node_directory"
    <3>1. l > 1 /\ l - 1 > j
      BY <1>1, <2>1
    <3>2. l - 1 \in 1 .. Len(q2) /\ q[l] = q2[l - 1]
      BY <1>2, <3>1
    <3> QED
      BY <1>4, <3>1, <3>2 DEF NoDirAfter
  <2> QED
    BY <1>4, <2>1 DEF NoDirAfter
<1>5. ASSUME NEW n, ~Touches(q[1], n), NEW j \in 1 .. Len(q2) + 1, TouchBefore(q, j + 1, n)
      PROVE  TouchBefore(q2, j, n)
  <2>1. PICK i \in 1 .. Len(q) : i < j + 1 /\ Touches(q[i], n)
    BY <1>5 DEF TouchBefore
  <2>2. i # 1
    BY <1>5, <2>1
  <2>3. i > 1 /\ i - 1 < j
    BY <1>1, <2>1, <2>2
  <2>4. i - 1 \in 1 .. Len(q2) /\ Touches(q2[i - 1], n)
    BY <1>2, <2>1, <2>3
  <2> QED
    BY <2>3, <2>4 DEF TouchBefore
<1> QED
  BY <1>3, <1>4, <1>5

\* The channel stays current when its head is received.
LEMMA ShiftedQueue ==
  ASSUME NEW q, NEW q2, NEW v, NEW d, NEW cur, Shifted(q, q2), QueueCurrent(q, v, d, cur)
  PROVE  QueueCurrent(q2, v, d, cur)
<1>1. /\ Len(q) \in Nat \ {0} /\ Len(q2) \in Nat
      /\ \A i \in 1 .. Len(q2) : i + 1 \in 1 .. Len(q) /\ q2[i] = q[i + 1]
  BY DEF Shifted
<1>2. ASSUME NEW j \in 1 .. Len(q2), NoDirAfter(q2, v, j)
      PROVE  /\ q2[j].type = "node_directory" => q2[j].map = cur
             /\ \A n \in Node, x \in Field : Writes(q2[j], n, x) =>
                  n \in DOMAIN d /\ (Written(q2[j], x) = Get(d[n], x) \/ Later(q2, v, j, n, x))
  <2>1. j \in 0 .. Len(q2) /\ j + 1 \in 1 .. Len(q) /\ q2[j] = q[j + 1]
    BY <1>1
  <2>2. NoDirAfter(q, v, j + 1)
    BY <1>2, <2>1, ShiftedLater
  <2>3. \A n, x : Later(q, v, j + 1, n, x) => Later(q2, v, j, n, x)
    BY <2>1, ShiftedLater
  <2> QED
    BY <2>1, <2>2, <2>3 DEF QueueCurrent
<1> QED
  BY <1>2 DEF QueueCurrent

\* What a handler of the browser does to the fields (app.js).
LEMMA PatchedGet ==
  ASSUME NEW ent \in Entry, NEW e \in EventType, e.type # "node_directory", NEW x \in Field
  PROVE  Get(Patched(ent, e), x) = IF Writes(e, e.node, x) THEN Written(e, x) ELSE Get(ent, x)
<1>0. e.type \in {"position", "metric", "node_update", "node_favorite"}
  BY DEF EventType
<1>1. PICK seen : seen = [ent EXCEPT !.seen = TRUE]
  OBVIOUS
<1>2. /\ seen \in Entry /\ seen.name = ent.name /\ seen.pos = ent.pos
      /\ seen.metric = ent.metric /\ seen.seen = TRUE
  BY <1>1 DEF Entry
<1>3. CASE e.type = "position"
  <2>1. PICK p : p = [seen EXCEPT !.pos = e.val]
    OBVIOUS
  <2>2. Patched(ent, e) = p
    BY <1>1, <1>3, <2>1 DEF Patched
  <2>3. p.pos = e.val /\ p.name = ent.name /\ p.metric = ent.metric /\ p.seen = TRUE
    BY <1>2, <2>1 DEF Entry
  <2> QED
    BY <1>3, <2>2, <2>3 DEF Get, Written, Writes, Field, Updating
<1>4. CASE e.type = "metric"
  <2>1. PICK p : p = [seen EXCEPT !.metric = IF e.val = 0 THEN @ ELSE e.val]
    OBVIOUS
  <2>2. Patched(ent, e) = p
    BY <1>1, <1>4, <2>1 DEF Patched
  <2>3. /\ p.metric = (IF e.val = 0 THEN ent.metric ELSE e.val)
        /\ p.name = ent.name /\ p.pos = ent.pos /\ p.seen = TRUE
    BY <1>2, <2>1 DEF Entry
  <2> QED
    BY <1>4, <2>2, <2>3 DEF Get, Written, Writes, Field, Updating
<1>5. CASE e.type = "node_update"
  <2>1. PICK p : p = [seen EXCEPT !.name = IF e.name = "" THEN @ ELSE e.name]
    OBVIOUS
  <2>2. Patched(ent, e) = p
    BY <1>1, <1>5, <2>1 DEF Patched
  <2>3. /\ p.name = (IF e.name = "" THEN ent.name ELSE e.name)
        /\ p.metric = ent.metric /\ p.pos = ent.pos /\ p.seen = TRUE
    BY <1>2, <2>1 DEF Entry
  <2> QED
    BY <1>5, <2>2, <2>3 DEF Get, Written, Writes, Field, Updating
<1>6. CASE e.type = "node_favorite"
  <2>1. PICK p : p = [ent EXCEPT !.fav = e.fav]
    OBVIOUS
  <2>2. Patched(ent, e) = p
    BY <1>6, <2>1 DEF Patched
  <2>3. p.name = ent.name /\ p.metric = ent.metric /\ p.pos = ent.pos /\ p.seen = ent.seen
    BY <2>1 DEF Entry
  <2>4. ~Writes(e, e.node, x)
    BY <1>6, FavoriteWritesNot
  <2> QED
    BY <2>2, <2>3, <2>4 DEF Get, Field
<1> QED
  BY <1>0, <1>3, <1>4, <1>5, <1>6

\* What an event about a node does to the browser's directory.
LEMMA AppliedGet ==
  ASSUME NEW b \in Directory, NEW e \in EventType, NamesNode(e)
  PROVE  /\ DOMAIN Applied(b, e) = IF Touches(e, e.node) THEN DOMAIN b \cup {e.node} ELSE DOMAIN b
         /\ \A n \in DOMAIN b \ {e.node} : Applied(b, e)[n] = b[n]
         /\ e.node \in DOMAIN b => \A x \in Field :
              Get(Applied(b, e)[e.node], x)
                = IF Writes(e, e.node, x) THEN Written(e, x) ELSE Get(b[e.node], x)
         /\ e.node \notin DOMAIN b /\ Touches(e, e.node) =>
              /\ \A x \in Field \ {"name"} :
                   Get(Applied(b, e)[e.node], x)
                     = IF Writes(e, e.node, x) THEN Written(e, x) ELSE Get(Blank, x)
              /\ Applied(b, e)[e.node].name = e.name
<1>0. PICK m : m = e.node /\ m \in Node
  BY DEF NamesNode
<1>1. e.type \in Updating \/ e.type = "node_favorite"
  BY DEF NamesNode, EventType, Updating
<1>2. e.type # "node_directory" /\ (Touches(e, m) <=> e.type \in Updating)
  BY <1>0, <1>1 DEF Touches, Writes, NamesNode
<1>3. CASE m \in DOMAIN b
  <2>1. PICK p : p = Patched(b[m], e)
    OBVIOUS
  <2>2. b[m] \in Entry
    BY <1>3, DirectoryIsOne
  <2>3. p \in Entry /\ \A x \in Field :
          Get(p, x) = IF Writes(e, m, x) THEN Written(e, x) ELSE Get(b[m], x)
    BY <1>0, <1>2, <2>1, <2>2, PatchedTyped, PatchedGet
  <2>4. Applied(b, e) = Store(b, m, p)
    BY <1>0, <1>3, <2>1 DEF Applied
  <2>5. /\ DOMAIN Applied(b, e) = DOMAIN b
        /\ \A n \in DOMAIN b : Applied(b, e)[n] = IF n = m THEN p ELSE b[n]
    BY <1>3, <2>4 DEF Store
  <2>6. Applied(b, e)[m] = p
    BY <1>3, <2>5
  <2>7. DOMAIN Applied(b, e) = IF Touches(e, m) THEN DOMAIN b \cup {m} ELSE DOMAIN b
    BY <1>3, <2>5
  <2> QED
    BY <1>0, <1>3, <2>3, <2>5, <2>6, <2>7
<1>4. CASE m \notin DOMAIN b /\ e.type \in Updating
  <2>1. PICK c : c = [Blank EXCEPT !.name = e.name]
    OBVIOUS
  <2>2. /\ c \in Entry /\ c.name = e.name
        /\ c.pos = Blank.pos /\ c.metric = Blank.metric /\ c.seen = Blank.seen
    <3>1. Blank \in Entry
      BY DEF Blank, Entry, Name, Amount
    <3>2. e.name \in Name
      BY DEF EventType
    <3> QED
      BY <2>1, <3>1, <3>2 DEF Entry
  <2>3. PICK p : p = Patched(c, e)
    OBVIOUS
  <2>4. p \in Entry /\ \A x \in Field :
          Get(p, x) = IF Writes(e, m, x) THEN Written(e, x) ELSE Get(c, x)
    BY <1>0, <1>2, <2>2, <2>3, PatchedTyped, PatchedGet
  <2>5. Applied(b, e) = Store(b, m, p)
    BY <1>0, <1>4, <2>1, <2>3 DEF Applied, Updating
  <2>6. /\ DOMAIN Applied(b, e) = DOMAIN b \cup {m}
        /\ \A n \in DOMAIN b \cup {m} : Applied(b, e)[n] = IF n = m THEN p ELSE b[n]
    BY <2>5 DEF Store
  <2>7. Applied(b, e)[m] = p
    BY <2>6
  <2>8. \A x \in Field \ {"name"} : Get(c, x) = Get(Blank, x)
    BY <2>2 DEF Get, Field
  <2>9. Get(p, "name") = e.name /\ Get(p, "name") = p.name
    <3>1. "name" \in Field /\ Get(c, "name") = c.name /\ Written(e, "name") = e.name
      BY DEF Field, Get, Written
    <3>2. Get(p, "name") = e.name
      BY <2>2, <2>4, <3>1
    <3> QED
      BY <3>2 DEF Get
  <2>10. \A n \in DOMAIN b \ {m} : Applied(b, e)[n] = b[n]
    BY <2>6
  <2> QED
    BY <1>0, <1>2, <1>4, <2>4, <2>6, <2>7, <2>8, <2>9, <2>10
<1>5. CASE m \notin DOMAIN b /\ e.type = "node_favorite"
  <2>1. Applied(b, e) = b
    BY <1>0, <1>5 DEF Applied
  <2>2. ~Touches(e, m)
    BY <1>2, <1>5 DEF Updating
  <2> QED
    BY <1>0, <1>5, <2>1, <2>2
<1> QED
  BY <1>1, <1>3, <1>4, <1>5

\* The browser that applies the head of the channel is as far as before.
LEMMA AppliedBase ==
  ASSUME NEW q, NEW q2, NEW v, NEW d, NEW cur, NEW b \in Directory,
         Shifted(q, q2), q[1] \in EventType, NamesNode(q[1]), NoDirAfter(q, v, 0),
         DOMAIN d \subseteq Node, QueueCurrent(q, v, d, cur), BaseCurrent(q, v, d, b)
  PROVE  BaseCurrent(q2, v, d, Applied(b, q[1]))
<1>1. PICK h : h = q[1]
  OBVIOUS
<1>2. PICK b2 : b2 = Applied(b, h)
  OBVIOUS
<1>3. PICK m \in Node : m = h.node
  BY <1>1 DEF NamesNode
<1>4. /\ DOMAIN b2 = IF Touches(h, m) THEN DOMAIN b \cup {m} ELSE DOMAIN b
      /\ \A n \in DOMAIN b \ {m} : b2[n] = b[n]
      /\ m \in DOMAIN b => \A x \in Field :
           Get(b2[m], x) = IF Writes(h, m, x) THEN Written(h, x) ELSE Get(b[m], x)
      /\ m \notin DOMAIN b /\ Touches(h, m) =>
           /\ \A x \in Field \ {"name"} :
                Get(b2[m], x) = IF Writes(h, m, x) THEN Written(h, x) ELSE Get(Blank, x)
           /\ b2[m].name = h.name
  BY <1>1, <1>2, <1>3, AppliedGet
<1>5. ASSUME NEW n, NEW x, ~Writes(h, n, x), Later(q, v, 0, n, x) PROVE Later(q2, v, 0, n, x)
  <2>1. Later(q, v, 1, n, x)
    <3>1. ASSUME NEW l \in 1 .. Len(q), Writes(q[l], n, x) PROVE l > 1
      <4>1. l # 1
        BY <1>1, <1>5, <3>1
      <4> QED
        BY <4>1 DEF Shifted
    <3> QED
      BY <1>5, <3>1 DEF Later
  <2>2. 0 \in 0 .. Len(q2) /\ 0 + 1 = 1
    BY DEF Shifted
  <2> QED
    BY <2>1, <2>2, ShiftedLater
<1>6. ASSUME NEW n \in Node, NEW x \in Field, Writes(h, n, x)
      PROVE  n \in DOMAIN d /\ (Written(h, x) = Get(d[n], x) \/ Later(q2, v, 0, n, x))
  <2>1. 1 \in 1 .. Len(q) /\ NoDirAfter(q, v, 1) /\ 0 \in 0 .. Len(q2) /\ 0 + 1 = 1
    BY DEF Shifted, NoDirAfter
  <2>2. n \in DOMAIN d /\ (Written(h, x) = Get(d[n], x) \/ Later(q, v, 1, n, x))
    BY <1>1, <1>6, <2>1 DEF QueueCurrent
  <2> QED
    BY <2>1, <2>2, ShiftedLater
<1>7. DOMAIN b2 \subseteq DOMAIN d
  <2>1. Touches(h, m) => m \in DOMAIN d
    BY <1>6 DEF Touches, Field
  <2> QED
    BY <1>4, <2>1 DEF BaseCurrent
<1>8. ASSUME NEW n \in DOMAIN d \ DOMAIN b, Touches(h, n)
      PROVE  h.name = d[n].name \/ Later(q2, v, 0, n, "name")
  <2>1. CreatorNames(q, v, d, n)
    BY DEF BaseCurrent
  <2>2. 1 \in 1 .. Len(q) /\ ~TouchBefore(q, 1, n) /\ 0 \in 0 .. Len(q2) /\ 0 + 1 = 1
    BY DEF Shifted, TouchBefore
  <2>3. h.name = d[n].name \/ Later(q, v, 1, n, "name")
    BY <1>1, <1>8, <2>1, <2>2 DEF CreatorNames
  <2> QED
    BY <2>2, <2>3, ShiftedLater
<1>9. ASSUME NEW n \in DOMAIN d, NEW x \in Field
      PROVE  \/ Get(Lookup(b2, n), x) = Get(d[n], x)
             \/ Later(q2, v, 0, n, x)
             \/ x = "name" /\ n \notin DOMAIN b2
  <2>0. \/ Get(Lookup(b, n), x) = Get(d[n], x)
        \/ Later(q, v, 0, n, x)
        \/ x = "name" /\ n \notin DOMAIN b
    BY DEF BaseCurrent
  <2>1. CASE n # m
    <3>1. ~Writes(h, n, x)
      BY <1>3, <2>1 DEF Writes
    <3>2. n \in DOMAIN b2 <=> n \in DOMAIN b
      BY <1>4, <2>1
    <3>3. Lookup(b2, n) = Lookup(b, n)
      BY <1>4, <2>1, <3>2 DEF Lookup
    <3> QED
      BY <1>5, <2>0, <3>1, <3>2, <3>3
  <2>2. CASE n = m /\ Writes(h, n, x)
    <3>1. n \in Node /\ (Written(h, x) = Get(d[n], x) \/ Later(q2, v, 0, n, x))
      BY <1>6, <2>2
    <3>2. n \in DOMAIN b2 \/ ~Touches(h, m)
      BY <1>4, <2>2
    <3>3. Touches(h, m)
      BY <2>2 DEF Touches, Writes, Updating
    <3>4. Lookup(b2, n) = b2[m]
      BY <2>2, <3>2, <3>3 DEF Lookup
    <3>5. CASE n \in DOMAIN b
      BY <1>4, <2>2, <3>1, <3>4, <3>5
    <3>6. CASE n \notin DOMAIN b /\ x # "name"
      BY <1>4, <2>2, <3>1, <3>3, <3>4, <3>6
    <3>7. CASE n \notin DOMAIN b /\ x = "name"
      <4>1. Get(b2[m], x) = h.name /\ Get(d[n], x) = d[n].name
        BY <1>4, <2>2, <3>3, <3>7 DEF Get
      <4> QED
        BY <1>8, <2>2, <3>3, <3>4, <3>7, <4>1
    <3> QED
      BY <3>5, <3>6, <3>7
  <2>3. CASE n = m /\ ~Writes(h, n, x) /\ n \in DOMAIN b
    <3>1. Lookup(b2, n) = b2[m] /\ Lookup(b, n) = b[m] /\ n \in DOMAIN b2
      BY <1>4, <2>3 DEF Lookup
    <3>2. Get(b2[m], x) = Get(b[m], x)
      BY <1>4, <2>3
    <3> QED
      BY <1>5, <2>0, <2>3, <3>1, <3>2
  <2>4. CASE n = m /\ ~Writes(h, n, x) /\ n \notin DOMAIN b /\ Touches(h, m)
    <3>1. Lookup(b2, n) = b2[m] /\ Lookup(b, n) = Blank /\ n \in DOMAIN b2
      BY <1>4, <2>4 DEF Lookup
    <3>2. CASE x # "name"
      <4>1. Get(b2[m], x) = Get(Blank, x)
        BY <1>4, <2>4, <3>2
      <4> QED
        BY <1>5, <2>0, <2>4, <3>1, <3>2, <4>1
    <3>3. CASE x = "name"
      <4>1. Get(b2[m], x) = h.name /\ Get(d[n], x) = d[n].name
        BY <1>4, <2>4, <3>3 DEF Get
      <4> QED
        BY <1>8, <2>4, <3>1, <3>3, <4>1
    <3> QED
      BY <3>2, <3>3
  <2>5. CASE n = m /\ ~Writes(h, n, x) /\ n \notin DOMAIN b /\ ~Touches(h, m)
    <3>1. Lookup(b2, n) = Lookup(b, n) /\ n \notin DOMAIN b2
      BY <1>4, <2>5 DEF Lookup
    <3> QED
      BY <1>5, <2>0, <2>5, <3>1
  <2> QED
    BY <2>1, <2>2, <2>3, <2>4, <2>5
<1>10. ASSUME NEW n \in DOMAIN d \ DOMAIN b2
       PROVE  Later(q2, v, 0, n, "seen") /\ CreatorNames(q2, v, d, n)
  <2>1. n \notin DOMAIN b /\ ~Touches(h, n)
    <3>1. Touches(h, n) => n = m
      BY <1>3 DEF Touches, Writes
    <3> QED
      BY <1>4, <3>1
  <2>2. Later(q, v, 0, n, "seen") /\ CreatorNames(q, v, d, n)
    BY <2>1 DEF BaseCurrent
  <2>3. Later(q2, v, 0, n, "seen")
    BY <1>5, <2>1, <2>2 DEF Touches
  <2>4. ~Touches(q[1], n) /\ Len(q2) \in Nat /\ Len(q) = Len(q2) + 1
    BY <1>1, <2>1 DEF Shifted
  <2>5. ASSUME NEW j \in 1 .. Len(q2), Touches(q2[j], n)
        PROVE  TouchBefore(q2, j, n) \/ q2[j].name = d[n].name \/ Later(q2, v, j, n, "name")
    <3>1. j + 1 \in 1 .. Len(q) /\ q2[j] = q[j + 1] /\ j \in 0 .. Len(q2) /\ j \in 1 .. Len(q2) + 1
      BY DEF Shifted
    <3>2. TouchBefore(q, j + 1, n) \/ q2[j].name = d[n].name \/ Later(q, v, j + 1, n, "name")
      BY <2>2, <2>5, <3>1 DEF CreatorNames
    <3> QED
      BY <2>4, <3>1, <3>2, ShiftedLater
  <2>6. ASSUME v # <<>>, Touches(v[1], n)
        PROVE  TouchBefore(q2, Len(q2) + 1, n) \/ v[1].name = d[n].name
    <3>1. TouchBefore(q, (Len(q2) + 1) + 1, n) \/ v[1].name = d[n].name
      BY <2>2, <2>4, <2>6 DEF CreatorNames
    <3>2. Len(q2) + 1 \in 1 .. Len(q2) + 1
      BY <2>4
    <3> QED
      BY <2>4, <3>1, <3>2, ShiftedLater
  <2> QED
    BY <2>3, <2>5, <2>6 DEF CreatorNames
<1> QED
  BY <1>1, <1>2, <1>7, <1>9, <1>10 DEF BaseCurrent

\* A base that is the directory needs nothing.
LEMMA SelfBase == ASSUME NEW q, NEW v, NEW d PROVE BaseCurrent(q, v, d, d)
  BY DEF BaseCurrent, Lookup

\* A map read partly before and partly after the writes of others is as good a
\* base as the map at the start (server.go, handleSSE: json.Marshal).
LEMMA MixedBase ==
  ASSUME NEW q, NEW v, NEW d, NEW was, NEW old, BaseCurrent(q, v, d, was)
  PROVE  BaseCurrent(q, v, d, [n \in {m \in DOMAIN d : m \in old => m \in DOMAIN was} |->
                                 IF n \in old THEN was[n] ELSE d[n]])
<1>1. PICK b : b = [n \in {m \in DOMAIN d : m \in old => m \in DOMAIN was} |->
                      IF n \in old THEN was[n] ELSE d[n]]
  OBVIOUS
<1>2. /\ DOMAIN b \subseteq DOMAIN d
      /\ \A n \in DOMAIN d : n \in DOMAIN b <=> (n \in old => n \in DOMAIN was)
      /\ \A n \in DOMAIN b : b[n] = IF n \in old THEN was[n] ELSE d[n]
  BY <1>1
<1>3. ASSUME NEW n \in DOMAIN d, NEW x \in Field
      PROVE  \/ Get(Lookup(b, n), x) = Get(d[n], x)
             \/ Later(q, v, 0, n, x)
             \/ x = "name" /\ n \notin DOMAIN b
  <2>1. CASE n \in DOMAIN b /\ n \notin old
    <3>1. Lookup(b, n) = d[n]
      BY <1>2, <2>1 DEF Lookup
    <3> QED
      BY <3>1
  <2>2. CASE n \in DOMAIN b /\ n \in old
    <3>1. n \in DOMAIN was /\ Lookup(b, n) = Lookup(was, n)
      BY <1>2, <2>2 DEF Lookup
    <3> QED
      BY <3>1 DEF BaseCurrent
  <2>3. CASE n \notin DOMAIN b
    <3>1. n \notin DOMAIN was /\ Lookup(b, n) = Lookup(was, n)
      BY <1>2, <2>3 DEF Lookup
    <3> QED
      BY <2>3, <3>1 DEF BaseCurrent
  <2> QED
    BY <2>1, <2>2, <2>3
<1>4. ASSUME NEW n \in DOMAIN d \ DOMAIN b
      PROVE  Later(q, v, 0, n, "seen") /\ CreatorNames(q, v, d, n)
  BY <1>2 DEF BaseCurrent
<1> QED
  BY <1>1, <1>2, <1>3, <1>4 DEF BaseCurrent

\* The write of an entry and its event: the event e of node m writes what
\* changes, and says the name of a node that is new.
Written1(d, d2, e, m) ==
  /\ DOMAIN d2 = DOMAIN d \cup {m}
  /\ \A n \in DOMAIN d \ {m} : d2[n] = d[n]
  /\ e.type # "node_directory" /\ Touches(e, m) /\ m \in Node
  /\ \A x \in Field : Writes(e, m, x) => Written(e, x) = Get(d2[m], x)
  /\ \A x \in Field : ~Writes(e, m, x) => Get(d2[m], x) = Get(Lookup(d, m), x)
  /\ m \notin DOMAIN d => e.name = d2[m].name

\* The event in hand.
LEMMA OneEvent == ASSUME NEW e PROVE <<e>> # <<>> /\ <<e>>[1] = e
<1>1. Len(<<e>>) = 1 /\ Len(<<>>) = 0
  OBVIOUS
<1>2. <<e>>[1] = e
  OBVIOUS
<1> QED
  BY <1>1, <1>2

\* The event of a write is current, and so is the channel.
LEMMA WriteQueue ==
  ASSUME NEW q, NEW d, NEW d2, NEW cur, NEW e, NEW m, Written1(d, d2, e, m),
         DOMAIN d \subseteq Node, QueueCurrent(q, <<>>, d, cur)
  PROVE  QueueCurrent(q, <<e>>, d2, cur)
<1>0. PICK v : v = <<e>> /\ v # <<>> /\ v[1] = e
  BY OneEvent
<1>1. \A n, x, j : Later(q, <<>>, j, n, x) => Later(q, v, j, n, x)
  BY DEF Later
<1>2. \A n, x, j : Writes(e, n, x) => Later(q, v, j, n, x)
  BY <1>0 DEF Later
<1>3. \A j : NoDirAfter(q, v, j) => NoDirAfter(q, <<>>, j)
  BY DEF NoDirAfter
<1>4. ASSUME NEW j \in 1 .. Len(q), NoDirAfter(q, v, j), NEW n \in Node, NEW x \in Field,
             Writes(q[j], n, x)
      PROVE  n \in DOMAIN d2 /\ (Written(q[j], x) = Get(d2[n], x) \/ Later(q, v, j, n, x))
  <2>1. n \in DOMAIN d /\ (Written(q[j], x) = Get(d[n], x) \/ Later(q, <<>>, j, n, x))
    BY <1>3, <1>4 DEF QueueCurrent
  <2>2. CASE n = m
    <3>1. CASE Writes(e, m, x)
      BY <1>2, <2>1, <2>2, <3>1 DEF Written1
    <3>2. CASE ~Writes(e, m, x)
      <4>1. Get(d2[n], x) = Get(d[n], x)
        BY <2>1, <2>2, <3>2 DEF Written1, Lookup
      <4> QED
        BY <1>1, <2>1, <4>1 DEF Written1
    <3> QED
      BY <3>1, <3>2
  <2>3. CASE n # m
    <3>1. d2[n] = d[n] /\ n \in DOMAIN d2
      BY <2>1, <2>3 DEF Written1
    <3> QED
      BY <1>1, <2>1, <3>1
  <2> QED
    BY <2>2, <2>3
<1>5. ASSUME NEW j \in 1 .. Len(q), NoDirAfter(q, v, j), q[j].type = "node_directory"
      PROVE  q[j].map = cur
  BY <1>3, <1>5 DEF QueueCurrent
<1> QED
  BY <1>0, <1>4, <1>5 DEF QueueCurrent

\* What overwrites a field of the base is still under way after a write.
LEMMA WriteBase ==
  ASSUME NEW q, NEW d, NEW d2, NEW cur, NEW e, NEW m, Written1(d, d2, e, m), NEW b,
         DOMAIN d \subseteq Node, QueueCurrent(q, <<>>, d, cur), NoDirAfter(q, <<>>, 0),
         Len(q) \in Nat, BaseCurrent(q, <<>>, d, b)
  PROVE  BaseCurrent(q, <<e>>, d2, b)
<1>0. PICK v : v = <<e>> /\ v # <<>> /\ v[1] = e
  BY OneEvent
<1>1. \A n, x, j : Later(q, <<>>, j, n, x) => Later(q, v, j, n, x)
  BY DEF Later
<1>2. \A n, x, j : Writes(e, n, x) => Later(q, v, j, n, x)
  BY <1>0 DEF Later
<1>3. DOMAIN b \subseteq DOMAIN d /\ DOMAIN d2 = DOMAIN d \cup {m} /\ m \in Node /\ Touches(e, m)
  BY DEF BaseCurrent, Written1
<1>4. ASSUME NEW n \in DOMAIN d2, NEW x \in Field
      PROVE  \/ Get(Lookup(b, n), x) = Get(d2[n], x)
             \/ Later(q, v, 0, n, x)
             \/ x = "name" /\ n \notin DOMAIN b
  <2>1. CASE n = m /\ Writes(e, m, x)
    BY <1>2, <2>1
  <2>2. CASE n = m /\ ~Writes(e, m, x) /\ m \in DOMAIN d
    <3>1. Get(d2[n], x) = Get(d[n], x)
      BY <2>2 DEF Written1, Lookup
    <3>2. \/ Get(Lookup(b, n), x) = Get(d[n], x)
          \/ Later(q, <<>>, 0, n, x)
          \/ x = "name" /\ n \notin DOMAIN b
      BY <2>2 DEF BaseCurrent
    <3> QED
      BY <1>1, <3>1, <3>2
  <2>3. CASE n = m /\ ~Writes(e, m, x) /\ m \notin DOMAIN d
    <3>1. n \notin DOMAIN b /\ Lookup(b, n) = Blank /\ Lookup(d, n) = Blank
      BY <1>3, <2>3 DEF Lookup
    <3>2. Get(d2[n], x) = Get(Blank, x)
      BY <2>3, <3>1 DEF Written1
    <3> QED
      BY <3>1, <3>2
  <2>4. CASE n # m
    <3>1. n \in DOMAIN d /\ d2[n] = d[n]
      BY <1>3, <2>4 DEF Written1
    <3>2. \/ Get(Lookup(b, n), x) = Get(d[n], x)
          \/ Later(q, <<>>, 0, n, x)
          \/ x = "name" /\ n \notin DOMAIN b
      BY <3>1 DEF BaseCurrent
    <3> QED
      BY <1>1, <3>1, <3>2
  <2> QED
    BY <2>1, <2>2, <2>3, <2>4
<1>5. ASSUME NEW n \in DOMAIN d2 \ DOMAIN b
      PROVE  Later(q, v, 0, n, "seen") /\ CreatorNames(q, v, d2, n)
  <2>1. CASE n \in DOMAIN d
    <3>1. Later(q, <<>>, 0, n, "seen") /\ CreatorNames(q, <<>>, d, n)
      BY <1>5, <2>1 DEF BaseCurrent
    <3>2. d2[n].name = d[n].name \/ (n = m /\ Writes(e, m, "name"))
      <4>1. CASE n = m /\ ~Writes(e, m, "name")
        <5>1. Get(d2[m], "name") = Get(Lookup(d, m), "name") /\ Lookup(d, m) = d[m]
          BY <2>1, <4>1 DEF Written1, Field, Lookup
        <5> QED
          BY <4>1, <5>1 DEF Get
      <4>2. CASE n # m
        BY <2>1, <4>2 DEF Written1
      <4> QED
        BY <4>1, <4>2
    <3>3. \E l \in 1 .. Len(q) : Touches(q[l], n)
      BY <3>1 DEF Later, Touches
    <3>4. TouchBefore(q, Len(q) + 1, n)
      <4>1. \A l \in 1 .. Len(q) : l < Len(q) + 1
        OBVIOUS
      <4> QED
        BY <3>3, <4>1 DEF TouchBefore
    <3>5. ASSUME NEW j \in 1 .. Len(q), Touches(q[j], n)
          PROVE  TouchBefore(q, j, n) \/ q[j].name = d2[n].name \/ Later(q, v, j, n, "name")
      <4>1. TouchBefore(q, j, n) \/ q[j].name = d[n].name \/ Later(q, <<>>, j, n, "name")
        BY <3>1, <3>5 DEF CreatorNames
      <4> QED
        BY <1>1, <1>2, <3>2, <4>1
    <3>6. CreatorNames(q, v, d2, n)
      BY <3>4, <3>5 DEF CreatorNames
    <3> QED
      BY <1>1, <3>1, <3>6
  <2>2. CASE n \notin DOMAIN d
    <3>1. n = m /\ e.name = d2[n].name
      BY <1>3, <2>2 DEF Written1
    <3>2. ASSUME NEW j \in 1 .. Len(q) PROVE ~Touches(q[j], n)
      <4>1. NoDirAfter(q, <<>>, j)
        BY DEF NoDirAfter
      <4>2. "seen" \in Field /\ n \in Node
        BY <1>3, <3>1 DEF Field
      <4> QED
        BY <2>2, <4>1, <4>2 DEF QueueCurrent, Touches
    <3>3. CreatorNames(q, v, d2, n)
      BY <1>0, <3>1, <3>2 DEF CreatorNames
    <3>4. Later(q, v, 0, n, "seen")
      BY <1>2, <1>3, <3>1 DEF Touches
    <3> QED
      BY <3>3, <3>4
  <2> QED
    BY <2>1, <2>2
<1>6. DOMAIN b \subseteq DOMAIN d2
  BY <1>3
<1> QED
  BY <1>0, <1>4, <1>5, <1>6 DEF BaseCurrent

\* Directories that differ in favourites only.
SameFields(d, d2) ==
  /\ DOMAIN d2 = DOMAIN d
  /\ \A n \in DOMAIN d : d2[n].name = d[n].name /\ \A x \in Field : Get(d2[n], x) = Get(d[n], x)

\* A favourite changes nothing of the above.
LEMMA SameFieldsKeep ==
  ASSUME NEW d, NEW d2, SameFields(d, d2), NEW q, NEW v, NEW cur
  PROVE  /\ \A e : Current(e, d, cur) => Current(e, d2, cur)
         /\ QueueCurrent(q, v, d, cur) => QueueCurrent(q, v, d2, cur)
         /\ \A b : BaseCurrent(q, v, d, b) => BaseCurrent(q, v, d2, b)
<1>1. \A e : Current(e, d, cur) => Current(e, d2, cur)
  BY DEF Current, SameFields
<1>2. QueueCurrent(q, v, d, cur) => QueueCurrent(q, v, d2, cur)
  BY DEF QueueCurrent, SameFields
<1>3. \A n \in DOMAIN d : CreatorNames(q, v, d, n) => CreatorNames(q, v, d2, n)
  BY DEF CreatorNames, SameFields
<1>4. \A b : BaseCurrent(q, v, d, b) => BaseCurrent(q, v, d2, b)
  BY <1>3 DEF BaseCurrent, SameFields
<1> QED
  BY <1>1, <1>2, <1>4

\* Nothing is under way when the process starts.
LEMMA InitView == Init => ViewIInv
  BY DEF Init, ViewIInv

\* The read loop takes a packet or the end of a config sequence, or nothing
\* happens.
LEMMA ReadView ==
  ASSUME ViewIInv, UNCHANGED <<maps, evt, streamVars, missed>>
  PROVE  ViewIInv'
<1>1. /\ maps' = maps /\ evt' = evt /\ queue' = queue /\ stream' = stream
      /\ hand' = hand /\ view' = view /\ missed' = missed
  BY DEF streamVars
<1>2. nodeDir' = nodeDir
  BY <1>1 DEF nodeDir
<1> QED
  BY <1>1, <1>2 DEF ViewIInv

\* A swap: its directory is under way behind everything else.
LEMMA SwapView ==
  ASSUME DirIInv, ViewIInv, SetNodeDirectory
  PROVE  ViewIInv'
<1>1. PICK e : e = EventOf("node_directory", 0, "", 0, FALSE, Len(maps) + 1)
  OBVIOUS
<1>2. e.type = "node_directory" /\ e.map = Len(maps) + 1
  BY <1>1 DEF EventOf
<1>3. evt' = <<e>> /\ queue' = queue /\ stream' = stream /\ hand' = hand /\ missed' = missed
  BY <1>1 DEF SetNodeDirectory, streamVars
<1>4. evt' # <<>> /\ evt'[1] = e
  BY <1>3, OneEvent
<1>5. Len(maps') = Len(maps) + 1
  <2>1. maps \in Seq(Directory)
    BY CurrentMap DEF DirIInv
  <2>2. PICK d : maps' = Append(maps, d)
    BY DEF SetNodeDirectory
  <2> QED
    BY <2>1, <2>2
<1>6. \A n, x : ~Writes(e, n, x)
  BY <1>2 DEF Writes, Updating
<1>7. Current(evt'[1], nodeDir', Len(maps'))
  BY <1>2, <1>4, <1>5, <1>6 DEF Current
<1>8. \A j : ~NoDirAfter(queue', evt', j)
  BY <1>2, <1>4 DEF NoDirAfter
<1>9. QueueCurrent(queue', evt', nodeDir', Len(maps'))
  BY <1>8 DEF QueueCurrent
<1> QED
  BY <1>3, <1>7, <1>8, <1>9 DEF ViewIInv

\* The write of an entry brings its event.
LEMMA WriteView ==
  ASSUME DirIInv, ViewIInv, NEW e, NEW m, NEW d2, Written1(nodeDir, d2, e, m), nodeDir' = d2,
         evt = <<>>, evt' = <<e>>, Len(maps') = Len(maps), UNCHANGED streamVars, missed' = missed
  PROVE  ViewIInv'
<1>1. queue' = queue /\ stream' = stream /\ hand' = hand /\ view' = view
  BY DEF streamVars
<1>2. evt' # <<>> /\ evt'[1] = e
  BY OneEvent
<1>3. DOMAIN nodeDir \subseteq Node /\ Len(queue) \in Nat
  BY CurrentMap, DirectoryIsOne DEF DirIInv, StreamTyped
<1>4. Current(e, d2, Len(maps))
  <2>1. \A n, x : Writes(e, n, x) => n = m
    <3>1. Writes(e, m, "seen")
      BY DEF Written1, Touches
    <3> QED
      BY <3>1 DEF Writes
  <2> QED
    BY <2>1 DEF Written1, Current
<1>5. ASSUME stream # "off", ~missed
      PROVE  /\ QueueCurrent(queue, <<e>>, d2, Len(maps))
             /\ NoDirAfter(queue, <<e>>, 0) =>
                  /\ stream = "loop" => BaseCurrent(queue, <<e>>, d2, view)
                  /\ stream = "encoding" =>
                       hand.map = Len(maps) /\ BaseCurrent(queue, <<e>>, d2, hand.was)
  <2>1. QueueCurrent(queue, <<>>, nodeDir, Len(maps))
    BY <1>5 DEF ViewIInv
  <2>2. QueueCurrent(queue, <<e>>, d2, Len(maps))
    BY <1>3, <2>1, WriteQueue
  <2>3. ASSUME NoDirAfter(queue, <<e>>, 0)
        PROVE  /\ stream = "loop" => BaseCurrent(queue, <<e>>, d2, view)
               /\ stream = "encoding" =>
                    hand.map = Len(maps) /\ BaseCurrent(queue, <<e>>, d2, hand.was)
    <3>1. NoDirAfter(queue, <<>>, 0)
      BY <2>3 DEF NoDirAfter
    <3>2. \A b : BaseCurrent(queue, <<>>, nodeDir, b) => BaseCurrent(queue, <<e>>, d2, b)
      BY <1>3, <2>1, <3>1, WriteBase
    <3>3. /\ stream = "loop" => BaseCurrent(queue, <<>>, nodeDir, view)
          /\ stream = "encoding" =>
               hand.map = Len(maps) /\ BaseCurrent(queue, <<>>, nodeDir, hand.was)
      BY <1>5, <3>1 DEF ViewIInv
    <3> QED
      BY <3>2, <3>3
  <2> QED
    BY <2>2, <2>3
<1>6. stream' = "off" => queue' = <<>>
  BY <1>1 DEF ViewIInv
<1> QED
  BY <1>1, <1>2, <1>4, <1>5, <1>6 DEF ViewIInv

\* updateNodeEntry and UpsertNode say in their event what they write
\* (node_directory.go).
LEMMA UpdateWrites ==
  ASSUME DirIInv, UpdateNodePosition \/ UpdateNodeMetric \/ UpsertNode
  PROVE  \E d2, e, m : /\ Written1(nodeDir, d2, e, m) /\ nodeDir' = d2 /\ evt' = <<e>>
                       /\ evt = <<>> /\ Len(maps') = Len(maps)
                       /\ UNCHANGED streamVars /\ missed' = missed
<1>1. \E op \in {"position", "metric", "node"} : Doing(op)
  BY Zenon DEF UpdateNodePosition, UpdateNodeMetric, UpsertNode
<1>2. PICK m : m = Head(todo).node /\ m \in Node /\ Head(todo) \in UpdateType /\ evt = <<>>
  BY <1>1, HeadUpdate DEF DirIInv
<1>3. nodeDir \in Directory /\ MapsTyped
  BY CurrentMap DEF DirIInv
<1>4. PICK old \in Entry : old = HeadEntry /\ old = Lookup(nodeDir, m)
  BY <1>2, <1>3, LookupTyped DEF HeadEntry
<1>5. PICK val \in Amount : val = Head(todo).val
  BY <1>2 DEF UpdateType
<1>6. PICK name \in Name : name = Head(todo).name
  BY <1>2 DEF UpdateType
<1>7. UNCHANGED streamVars /\ missed' = missed
  BY DEF UpdateNodePosition, UpdateNodeMetric, UpsertNode, UpdateNodeEntry
<1>8. ASSUME NEW ent \in Entry, WriteNodeDir(Store(nodeDir, m, ent)), NEW e, evt' = <<e>>,
             e.type # "node_directory", Touches(e, m),
             \A x \in Field : Writes(e, m, x) => Written(e, x) = Get(ent, x),
             \A x \in Field : ~Writes(e, m, x) => Get(ent, x) = Get(old, x),
             m \notin DOMAIN nodeDir => e.name = ent.name
      PROVE  \E d2, f, k : /\ Written1(nodeDir, d2, f, k) /\ nodeDir' = d2 /\ evt' = <<f>>
                           /\ evt = <<>> /\ Len(maps') = Len(maps)
                           /\ UNCHANGED streamVars /\ missed' = missed
  <2>1. PICK d2 : d2 = Store(nodeDir, m, ent)
    OBVIOUS
  <2>2. /\ d2 \in Directory /\ DOMAIN d2 = DOMAIN nodeDir \cup {m}
        /\ \A n \in DOMAIN nodeDir \cup {m} : d2[n] = IF n = m THEN ent ELSE nodeDir[n]
    <3>1. PICK d \in Directory : d = nodeDir
      BY <1>3
    <3>2. m \in Node
      BY <1>2
    <3>3. Store(d, m, ent) \in Directory
      BY <3>2, StoreTyped
    <3>4. DOMAIN Store(d, m, ent) = DOMAIN d \cup {m}
      BY <3>2, StoreTyped
    <3>5. \A n \in DOMAIN d \cup {m} : Store(d, m, ent)[n] = IF n = m THEN ent ELSE d[n]
      BY DEF Store
    <3> QED
      BY <2>1, <3>1, <3>3, <3>4, <3>5
  <2>3. nodeDir' = d2 /\ Len(maps') = Len(maps)
    BY <1>3, <1>8, <2>1, <2>2, WriteStep
  <2>4. d2[m] = ent
    BY <2>2
  <2>5. Written1(nodeDir, d2, e, m)
    BY <1>2, <1>4, <1>8, <2>2, <2>4 DEF Written1
  <2> QED
    BY <1>2, <1>7, <1>8, <2>3, <2>5
<1>9. m \notin DOMAIN nodeDir => old = Blank
  BY <1>4 DEF Lookup
<1>10. CASE UpdateNodePosition
  <2>1. PICK new : new = [old EXCEPT !.pos = val]
    OBVIOUS
  <2>2. PICK ent : ent = [new EXCEPT !.seen = TRUE]
    OBVIOUS
  <2>3. PICK e : e = EventOf("position", m, new.name, val, FALSE, 0)
    OBVIOUS
  <2>4. WriteNodeDir(Store(nodeDir, m, ent)) /\ evt' = <<e>>
    BY <1>2, <1>4, <1>5, <1>10, <2>1, <2>2, <2>3 DEF UpdateNodePosition, UpdateNodeEntry
  <2>5. /\ ent \in Entry /\ ent.pos = val /\ ent.metric = old.metric /\ ent.name = old.name
        /\ ent.seen = TRUE /\ new.name = old.name
    BY <2>1, <2>2 DEF Entry
  <2>6. e.type = "position" /\ e.node = m /\ e.name = ent.name /\ e.val = val
    BY <2>3, <2>5 DEF EventOf
  <2>7. Touches(e, m) /\ e.type # "node_directory"
    BY <2>6 DEF Touches, Writes, Updating
  <2>8. /\ \A x \in Field : Writes(e, m, x) => Written(e, x) = Get(ent, x)
        /\ \A x \in Field : ~Writes(e, m, x) => Get(ent, x) = Get(old, x)
    BY <2>5, <2>6 DEF Writes, Written, Get, Field, Updating
  <2> QED
    BY <1>8, <2>4, <2>5, <2>6, <2>7, <2>8
<1>11. CASE UpdateNodeMetric
  <2>0. PICK mv \in Amount : mv = IF val = 0 THEN old.metric ELSE val
    BY DEF Entry
  <2>1. PICK new : new = [old EXCEPT !.metric = mv]
    OBVIOUS
  <2>2. PICK ent : ent = [new EXCEPT !.seen = TRUE]
    OBVIOUS
  <2>3. PICK e : e = EventOf("metric", m, new.name, val, FALSE, 0)
    OBVIOUS
  <2>4. WriteNodeDir(Store(nodeDir, m, ent)) /\ evt' = <<e>>
    <3>1. [old EXCEPT !.metric = IF val = 0 THEN @ ELSE val] = new
      BY <2>0, <2>1
    <3> QED
      BY <1>2, <1>4, <1>5, <1>11, <2>2, <2>3, <3>1 DEF UpdateNodeMetric, UpdateNodeEntry
  <2>5. /\ ent \in Entry /\ ent.pos = old.pos /\ ent.metric = mv /\ ent.name = old.name
        /\ ent.seen = TRUE /\ new.name = old.name
    BY <2>1, <2>2 DEF Entry
  <2>6. e.type = "metric" /\ e.node = m /\ e.name = ent.name /\ e.val = val
    BY <2>3, <2>5 DEF EventOf
  <2>7. Touches(e, m) /\ e.type # "node_directory"
    BY <2>6 DEF Touches, Writes, Updating
  <2>8. /\ \A x \in Field : Writes(e, m, x) => Written(e, x) = Get(ent, x)
        /\ \A x \in Field : ~Writes(e, m, x) => Get(ent, x) = Get(old, x)
    BY <2>0, <2>5, <2>6 DEF Writes, Written, Get, Field, Updating
  <2> QED
    BY <1>8, <2>4, <2>5, <2>6, <2>7, <2>8
<1>12. CASE UpsertNode
  <2>1. PICK nn \in Name : nn = IF name = "" THEN old.name ELSE name
    BY DEF Entry
  <2>2. PICK ent : ent = [old EXCEPT !.seen = TRUE, !.name = nn]
    OBVIOUS
  <2>3. PICK e : e = EventOf("node_update", m, name, 0, FALSE, 0)
    OBVIOUS
  <2>4. WriteNodeDir(Store(nodeDir, m, ent)) /\ evt' = <<e>>
    <3>1. [old EXCEPT !.seen = TRUE, !.name = IF name = "" THEN @ ELSE name] = ent
      BY <2>1, <2>2 DEF Entry
    <3> QED
      BY <1>2, <1>4, <1>6, <1>12, <2>3, <3>1 DEF UpsertNode
  <2>5. /\ ent \in Entry /\ ent.pos = old.pos /\ ent.metric = old.metric /\ ent.name = nn
        /\ ent.seen = TRUE
    BY <2>2 DEF Entry
  <2>6. e.type = "node_update" /\ e.node = m /\ e.name = name
    BY <2>3 DEF EventOf
  <2>7. Touches(e, m) /\ e.type # "node_directory"
    BY <2>6 DEF Touches, Writes, Updating
  <2>8. /\ \A x \in Field : Writes(e, m, x) => Written(e, x) = Get(ent, x)
        /\ \A x \in Field : ~Writes(e, m, x) => Get(ent, x) = Get(old, x)
    BY <2>1, <2>5, <2>6 DEF Writes, Written, Get, Field, Updating
  <2>9. m \notin DOMAIN nodeDir => e.name = ent.name
    <3>1. Blank.name = ""
      BY DEF Blank
    <3> QED
      BY <1>9, <2>1, <2>5, <2>6, <3>1, Zenon
  <2> QED
    BY <1>8, <2>4, <2>5, <2>7, <2>8, <2>9
<1> QED
  BY <1>10, <1>11, <1>12

\* A channel that takes an event.
LEMMA AppendGrows ==
  ASSUME NEW q \in Seq(EventType), NEW e
  PROVE  /\ Len(Append(q, e)) = Len(q) + 1
         /\ \A i \in 1 .. Len(q) : Append(q, e)[i] = q[i]
         /\ Append(q, e)[Len(q) + 1] = e
<1>1. PICK S : S = EventType \cup {e}
  OBVIOUS
<1>2. e \in S /\ q \in Seq(S)
  BY <1>1
<1> QED
  BY <1>2, AppendProperties

\* publish to a channel with room (pubsub.go, publish).
LEMMA DeliverGrows ==
  ASSUME DirIInv, NEW e, Deliver(e), stream # "off", Len(queue) < Buffer,
         (evt' = evt /\ e.type = "node_favorite") \/ (evt # <<>> /\ e = evt[1] /\ evt' = <<>>)
  PROVE  \E q : queue' = q /\ Grown(queue, evt, q, evt', e) /\ (missed' <=> missed)
<1>1. queue \in Seq(EventType) /\ Len(queue) \in Nat
  BY DEF DirIInv, StreamTyped
<1>2. queue' = Append(queue, e) /\ (missed' <=> missed)
  BY DEF Deliver, Subscribed
<1>3. PICK q : /\ q = Append(queue, e) /\ Len(q) = Len(queue) + 1
               /\ \A i \in 1 .. Len(queue) : q[i] = queue[i]
               /\ q[Len(queue) + 1] = e
  BY <1>1, AppendGrows, Zenon
<1>4. Grown(queue, evt, q, evt', e)
  BY <1>1, <1>3 DEF Grown
<1> QED
  BY <1>2, <1>3, <1>4

\* publish: a channel with room grows by the event, and a full one misses it.
LEMMA PublishView ==
  ASSUME DirIInv, ViewIInv, NEW e, Deliver(e), Current(e, nodeDir, Len(maps)),
         maps' = maps, stream' = stream, hand' = hand, view' = view,
         (evt' = evt /\ e.type = "node_favorite") \/ (evt # <<>> /\ e = evt[1] /\ evt' = <<>>)
  PROVE  ViewIInv'
<1>1. nodeDir' = nodeDir
  BY DEF nodeDir
<1>2. evt' # <<>> => Current(evt'[1], nodeDir, Len(maps))
  BY DEF ViewIInv
<1>3. queue \in Seq(EventType) /\ Len(queue) \in Nat
  BY DEF DirIInv, StreamTyped
<1>4. CASE stream = "off"
  <2>1. queue' = queue /\ queue = <<>>
    BY <1>4 DEF Deliver, Subscribed, ViewIInv
  <2> QED
    BY <1>1, <1>2, <1>4, <2>1 DEF ViewIInv
<1>5. CASE stream # "off" /\ ~(Len(queue) < Buffer)
  <2>1. missed' = TRUE
    BY <1>5 DEF Deliver, Subscribed
  <2> QED
    BY <1>1, <1>2, <1>5, <2>1 DEF ViewIInv
<1>6. CASE stream # "off" /\ Len(queue) < Buffer
  <2>1. PICK q : queue' = q /\ Grown(queue, evt, q, evt', e) /\ (missed' <=> missed)
    BY <1>6, DeliverGrows
  <2>3. queue' = q
    BY <2>1
  <2>4. Grown(queue, evt, q, evt', e)
    BY <2>1
  <2>5. ASSUME ~missed
        PROVE  /\ QueueCurrent(q, evt', nodeDir, Len(maps))
               /\ NoDirAfter(q, evt', 0) =>
                    /\ stream = "loop" => BaseCurrent(q, evt', nodeDir, view)
                    /\ stream = "encoding" =>
                         hand.map = Len(maps) /\ BaseCurrent(q, evt', nodeDir, hand.was)
    <3>1. QueueCurrent(queue, evt, nodeDir, Len(maps))
      BY <1>6, <2>5 DEF ViewIInv
    <3>2. QueueCurrent(q, evt', nodeDir, Len(maps))
      BY <2>4, <3>1, GrownQueue
    <3>3. \A b : BaseCurrent(queue, evt, nodeDir, b) => BaseCurrent(q, evt', nodeDir, b)
      BY <2>4, GrownBase
    <3>4. 0 \in 0 .. Len(queue)
      BY <1>3
    <3>5. NoDirAfter(q, evt', 0) => NoDirAfter(queue, evt, 0)
      BY <2>4, <3>4, GrownLater
    <3>6. NoDirAfter(queue, evt, 0) =>
            /\ stream = "loop" => BaseCurrent(queue, evt, nodeDir, view)
            /\ stream = "encoding" =>
                 hand.map = Len(maps) /\ BaseCurrent(queue, evt, nodeDir, hand.was)
      BY <1>6, <2>5 DEF ViewIInv
    <3> QED
      BY <3>2, <3>3, <3>5, <3>6, Zenon
  <2> QED
    BY <1>1, <1>2, <1>6, <2>1, <2>3, <2>5 DEF ViewIInv
<1> QED
  BY <1>4, <1>5, <1>6

\* The event of an update leaves the read loop's hands.
LEMMA PublishUpdateView ==
  ASSUME DirIInv, ViewIInv, PublishUpdate
  PROVE  ViewIInv'
<1>1. /\ evt # <<>> /\ Deliver(evt[1]) /\ evt' = <<>>
      /\ maps' = maps /\ stream' = stream /\ hand' = hand /\ view' = view
  BY DEF PublishUpdate, dirVars
<1>2. PICK e : e = evt[1]
  OBVIOUS
<1>3. Current(e, nodeDir, Len(maps)) /\ Deliver(e)
  BY <1>1, <1>2 DEF ViewIInv
<1> QED
  BY <1>1, <1>2, <1>3, PublishView

\* A favourite of the view's kind writes no field of the four.
LEMMA FavoriteCurrent ==
  ASSUME NEW e, e.type = "node_favorite", NEW d, NEW cur
  PROVE  Current(e, d, cur)
  BY FavoriteWritesNot DEF Current

\* ... and neither does its event.
LEMMA PublishFavoriteView ==
  ASSUME DirIInv, ViewIInv, FavEvents, NEW h \in Handler, PublishFavorite(h)
  PROVE  ViewIInv'
<1>1. /\ fav[h] # <<>> /\ Deliver(fav[h][1]) /\ evt' = evt
      /\ maps' = maps /\ stream' = stream /\ hand' = hand /\ view' = view
  BY DEF PublishFavorite, PublishFavoriteEvent, dirVars, readerVars
<1>2. PICK e : e = fav[h][1]
  OBVIOUS
<1>3. e.type = "node_favorite"
  BY <1>1, <1>2 DEF FavEvents
<1>4. Current(e, nodeDir, Len(maps)) /\ Deliver(e)
  BY <1>1, <1>2, <1>3, FavoriteCurrent
<1> QED
  BY <1>1, <1>3, <1>4, PublishView

\* A favourite leaves the four fields of every node.
LEMMA FavoriteView ==
  ASSUME DirIInv, ViewIInv, NEW h \in Handler, NEW n \in Node, NEW f \in BOOLEAN,
         handleAPIFavorite(h, n, f)
  PROVE  ViewIInv'
<1>1. PICK ent : ent = [nodeDir[n] EXCEPT !.fav = f]
  OBVIOUS
<1>2. /\ n \in DOMAIN nodeDir /\ WriteNodeDir(Store(nodeDir, n, ent))
      /\ evt' = evt /\ UNCHANGED streamVars /\ missed' = missed
  BY <1>1 DEF handleAPIFavorite, SetFavorite, readerVars
<1>3. MapsTyped /\ nodeDir \in Directory
  BY CurrentMap DEF DirIInv
<1>4. nodeDir[n] \in Entry
  BY <1>2, <1>3, DirectoryIsOne
<1>5. /\ ent \in Entry /\ ent.pos = nodeDir[n].pos /\ ent.metric = nodeDir[n].metric
      /\ ent.name = nodeDir[n].name /\ ent.seen = nodeDir[n].seen
  BY <1>1, <1>4 DEF Entry
<1>6. PICK d : d = Store(nodeDir, n, ent)
  OBVIOUS
<1>7. d \in Directory
  BY <1>3, <1>5, <1>6, StoreTyped
<1>8. /\ DOMAIN d = DOMAIN nodeDir
      /\ \A k \in DOMAIN nodeDir : d[k] = IF k = n THEN ent ELSE nodeDir[k]
  BY <1>2, <1>6 DEF Store
<1>9. SameFields(nodeDir, d)
  BY <1>5, <1>8 DEF SameFields, Get, Field
<1>10. nodeDir' = d /\ Len(maps') = Len(maps)
  BY <1>2, <1>3, <1>6, <1>7, WriteStep
<1>11. /\ \A e : Current(e, nodeDir, Len(maps)) => Current(e, d, Len(maps))
       /\ QueueCurrent(queue, evt, nodeDir, Len(maps)) => QueueCurrent(queue, evt, d, Len(maps))
       /\ \A b : BaseCurrent(queue, evt, nodeDir, b) => BaseCurrent(queue, evt, d, b)
  BY <1>9, SameFieldsKeep
<1>12. stream' = stream /\ queue' = queue /\ hand' = hand /\ view' = view
  BY <1>2 DEF streamVars
<1> QED
  BY <1>2, <1>10, <1>11, <1>12 DEF ViewIInv

\* The stream opens, sends its copy of the directory, or closes.
LEMMA OpenCloseView ==
  ASSUME ViewIInv, Connect \/ SendInitial \/ Disconnect
  PROVE  ViewIInv'
<1>1. maps' = maps /\ evt' = evt
  BY DEF Connect, SendInitial, Disconnect, dirVars, readerVars
<1>2. nodeDir' = nodeDir
  BY <1>1 DEF nodeDir
<1>3. CASE Connect
  <2>1. queue' = <<>> /\ stream' = "subscribed"
    BY <1>3 DEF Connect, ViewIInv
  <2>2. QueueCurrent(<<>>, evt, nodeDir, Len(maps))
    BY DEF QueueCurrent
  <2> QED
    BY <1>1, <1>2, <2>1, <2>2 DEF ViewIInv
<1>4. CASE SendInitial
  <2>1. /\ queue' = queue /\ stream = "subscribed" /\ stream' = "loop" /\ view' = nodeDir
        /\ missed' = missed
    BY <1>4 DEF SendInitial, NodeDirectoryCopy
  <2>2. BaseCurrent(queue, evt, nodeDir, nodeDir)
    BY SelfBase
  <2> QED
    BY <1>1, <1>2, <2>1, <2>2 DEF ViewIInv
<1>5. CASE Disconnect
  <2>1. queue' = <<>> /\ stream' = "off"
    BY <1>5 DEF Disconnect
  <2> QED
    BY <1>1, <1>2, <2>1 DEF ViewIInv
<1> QED
  BY <1>3, <1>4, <1>5

\* The stream takes the head of its channel.
LEMMA TailShifts ==
  ASSUME StreamTyped, queue # <<>>
  PROVE  Shifted(queue, Tail(queue)) /\ Head(queue) = queue[1] /\ 1 \in 1 .. Len(queue)
<1>1. queue \in Seq(EventType) /\ Len(queue) \in Nat \ {0}
  BY DEF StreamTyped
<1>2. /\ Head(queue) = queue[1] /\ Len(Tail(queue)) = Len(queue) - 1
      /\ \A i \in 1 .. Len(Tail(queue)) : Tail(queue)[i] = queue[i + 1]
  BY <1>1, HeadTailProperties
<1> QED
  BY <1>1, <1>2 DEF Shifted

\* The browser applies an event, or ignores it while paused.
LEMMA SendEventView ==
  ASSUME DirIInv, ViewIInv, SendEvent
  PROVE  ViewIInv'
<1>1. /\ Received({"position", "metric", "node_update", "node_favorite"})
      /\ maps' = maps /\ evt' = evt /\ stream' = stream /\ hand' = hand /\ queue' = Tail(queue)
  BY DEF SendEvent, dirVars, readerVars
<1>2. nodeDir' = nodeDir
  BY <1>1 DEF nodeDir
<1>3. PICK e : e = Head(queue)
  OBVIOUS
<1>4. StreamTyped /\ queue # <<>> /\ stream = "loop"
  BY <1>1 DEF DirIInv, Received
<1>5. Sound(e) /\ e.type \in {"position", "metric", "node_update", "node_favorite"}
  BY <1>1, <1>3, <1>4, HeadEvent
<1>6. e \in EventType /\ NamesNode(e) /\ e.type # "node_directory"
  BY <1>5 DEF Sound, NamesMap
<1>7. PICK q2 : q2 = Tail(queue)
  OBVIOUS
<1>8. Shifted(queue, q2) /\ queue[1] = e
  BY <1>3, <1>4, <1>7, TailShifts
<1>9. queue' = q2
  BY <1>1, <1>7
<1>10. PICK ignored \in Ignored(e) : /\ view' = (IF ignored THEN view ELSE Applied(view, e))
                                     /\ missed' = (missed \/ ignored)
  BY <1>3 DEF SendEvent
<1>11. ASSUME ~missed'
       PROVE  /\ QueueCurrent(q2, evt, nodeDir, Len(maps))
              /\ NoDirAfter(q2, evt, 0) => BaseCurrent(q2, evt, nodeDir, view')
  <2>1. ~missed /\ view' = Applied(view, e)
    BY <1>10, <1>11
  <2>2. QueueCurrent(queue, evt, nodeDir, Len(maps))
    BY <1>4, <2>1 DEF ViewIInv
  <2>3. QueueCurrent(q2, evt, nodeDir, Len(maps))
    BY <1>8, <2>2, ShiftedQueue
  <2>4. ASSUME NoDirAfter(q2, evt, 0) PROVE BaseCurrent(q2, evt, nodeDir, view')
    <3>1. NoDirAfter(queue, evt, 1)
      <4>1. 0 \in 0 .. Len(q2)
        BY <1>8 DEF Shifted
      <4>2. NoDirAfter(queue, evt, 0 + 1)
        BY <1>8, <2>4, <4>1, ShiftedLater
      <4> QED
        BY <4>2
    <3>2. NoDirAfter(queue, evt, 0)
      BY <1>6, <1>8, <3>1 DEF NoDirAfter, Shifted
    <3>3. BaseCurrent(queue, evt, nodeDir, view)
      BY <1>4, <2>1, <3>2 DEF ViewIInv
    <3>4. DOMAIN nodeDir \subseteq Node /\ view \in Directory
      BY <1>4, CurrentMap, DirectoryIsOne DEF DirIInv, StreamTyped
    <3>5. BaseCurrent(q2, evt, nodeDir, Applied(view, queue[1]))
      BY <1>6, <1>8, <2>2, <3>2, <3>3, <3>4, AppliedBase
    <3> QED
      BY <1>8, <2>1, <3>5
  <2> QED
    BY <2>3, <2>4
<1> QED
  BY <1>1, <1>2, <1>4, <1>9, <1>11 DEF ViewIInv

\* A directory that is the last one under way is the current map.
LEMMA EncodeView ==
  ASSUME DirIInv, ViewIInv, EncodeDirectory
  PROVE  ViewIInv'
<1>1. PICK i : i = Head(queue).map
  OBVIOUS
<1>2. /\ Received({"node_directory"}) /\ maps' = maps /\ evt' = evt /\ stream' = "encoding"
      /\ queue' = Tail(queue) /\ hand' = [map |-> i, was |-> maps[i]]
      /\ missed' = (missed /\ ~(i = Len(maps) /\ Len(queue) = 1))
  BY <1>1 DEF EncodeDirectory, dirVars, readerVars
<1>3. nodeDir' = nodeDir
  BY <1>2 DEF nodeDir
<1>4. StreamTyped /\ queue # <<>> /\ stream = "loop" /\ Head(queue).type = "node_directory"
  BY <1>2 DEF DirIInv, Received
<1>5. PICK q2 : q2 = Tail(queue)
  OBVIOUS
<1>6. /\ Shifted(queue, q2) /\ queue[1].type = "node_directory" /\ queue[1].map = i
      /\ 1 \in 1 .. Len(queue)
  BY <1>1, <1>4, <1>5, TailShifts
<1>7. ASSUME ~missed
      PROVE  /\ QueueCurrent(q2, evt, nodeDir, Len(maps))
             /\ NoDirAfter(q2, evt, 0) => i = Len(maps)
  <2>1. QueueCurrent(queue, evt, nodeDir, Len(maps))
    BY <1>4, <1>7 DEF ViewIInv
  <2>2. 0 \in 0 .. Len(q2)
    BY <1>6 DEF Shifted
  <2>3. NoDirAfter(q2, evt, 0) => NoDirAfter(queue, evt, 0 + 1)
    BY <1>6, <2>2, ShiftedLater
  <2>4. NoDirAfter(queue, evt, 1) => i = Len(maps)
    BY <1>6, <2>1 DEF QueueCurrent
  <2> QED
    BY <1>6, <2>1, <2>3, <2>4, ShiftedQueue
<1>8. ASSUME i = Len(maps), Len(queue) = 1
      PROVE  QueueCurrent(q2, evt, nodeDir, Len(maps))
  <2>1. Len(q2) = 0
    BY <1>6, <1>8 DEF Shifted
  <2> QED
    BY <2>1 DEF QueueCurrent
<1>9. i = Len(maps) => hand'.map = Len(maps) /\ hand'.was = nodeDir
  BY <1>2 DEF nodeDir
<1>10. BaseCurrent(q2, evt, nodeDir, nodeDir)
  BY SelfBase
<1>11. ~missed' => /\ QueueCurrent(q2, evt, nodeDir, Len(maps))
                   /\ NoDirAfter(q2, evt, 0) => i = Len(maps)
  BY <1>2, <1>7, <1>8
<1>12. queue' = q2
  BY <1>2, <1>5
<1>13. /\ stream' # "off" /\ stream' # "loop"
       /\ evt' # <<>> => Current(evt'[1], nodeDir', Len(maps'))
  BY <1>2, <1>3 DEF ViewIInv
<1>14. NoDirAfter(q2, evt, 0) /\ ~missed' =>
         hand'.map = Len(maps) /\ BaseCurrent(q2, evt, nodeDir, hand'.was)
  BY <1>9, <1>10, <1>11
<1> QED
  BY <1>2, <1>3, <1>11, <1>12, <1>13, <1>14 DEF ViewIInv

\* What the encoder read of the current map is as good as the map.
LEMMA SendDirectoryView ==
  ASSUME DirIInv, ViewIInv, SendDirectory
  PROVE  ViewIInv'
<1>1. /\ stream = "encoding" /\ maps' = maps /\ evt' = evt /\ queue' = queue
      /\ missed' = missed /\ stream' = "loop"
  BY DEF SendDirectory, dirVars, readerVars
<1>2. nodeDir' = nodeDir
  BY <1>1 DEF nodeDir
<1>3. PICK now : now = maps[hand.map]
  OBVIOUS
<1>4. PICK old : view' = [n \in {m \in DOMAIN now : m \in old => m \in DOMAIN hand.was} |->
                            IF n \in old THEN hand.was[n] ELSE now[n]]
  BY <1>3 DEF SendDirectory
<1>5. ASSUME ~missed, NoDirAfter(queue, evt, 0)
      PROVE  BaseCurrent(queue, evt, nodeDir, view')
  <2>1. hand.map = Len(maps) /\ BaseCurrent(queue, evt, nodeDir, hand.was)
    BY <1>1, <1>5 DEF ViewIInv
  <2>2. now = nodeDir
    BY <1>3, <2>1 DEF nodeDir
  <2>3. PICK was : was = hand.was
    OBVIOUS
  <2>4. BaseCurrent(queue, evt, now, was)
    BY <2>1, <2>2, <2>3
  <2>5. BaseCurrent(queue, evt, now,
          [n \in {m \in DOMAIN now : m \in old => m \in DOMAIN was} |->
             IF n \in old THEN was[n] ELSE now[n]])
    BY <2>4, MixedBase
  <2> QED
    BY <1>4, <2>2, <2>3, <2>5
<1> QED
  BY <1>1, <1>2, <1>5 DEF ViewIInv

\* A request's event is a favourite, whoever publishes what in between.
LEMMA FavEventsStep ==
  ASSUME DirIInv, FavEvents, [Next]_vars
  PROVE  FavEvents'
<1>1. fav \in [Handler -> Seq(EventType)]
  BY DEF DirIInv, FavTyped
<1>2. CASE UNCHANGED fav
  BY <1>2 DEF FavEvents
<1>3. ASSUME NEW h \in Handler, NEW n \in Node, NEW f \in BOOLEAN, handleAPIFavorite(h, n, f)
      PROVE  FavEvents'
  <2>1. PICK e : e = EventOf("node_favorite", n, "", 0, f, 0)
    OBVIOUS
  <2>2. e.type = "node_favorite"
    BY <2>1 DEF EventOf
  <2>3. PICK s : s = <<e>> /\ s[1] = e
    BY OneEvent
  <2>4. fav' = [fav EXCEPT ![h] = s]
    BY <1>3, <2>1, <2>3 DEF handleAPIFavorite, SetFavorite
  <2> QED
    BY <1>1, <2>2, <2>3, <2>4 DEF FavEvents
<1>4. ASSUME NEW h \in Handler, PublishFavorite(h)
      PROVE  FavEvents'
  <2>1. fav' = [fav EXCEPT ![h] = <<>>]
    BY <1>4 DEF PublishFavorite
  <2> QED
    BY <1>1, <2>1 DEF FavEvents
<1>5. ASSUME [Next]_vars, ~UNCHANGED fav
      PROVE  \/ \E h \in Handler, n \in Node, f \in BOOLEAN : handleAPIFavorite(h, n, f)
             \/ \E h \in Handler : PublishFavorite(h)
  BY <1>5 DEF Next, vars, ReadPacket, ReadConfig, SetNodeDirectory, UpdateNodePosition,
     UpdateNodeMetric, UpdateNodeEntry, UpsertNode, PublishUpdate, Connect, SendInitial,
     SendEvent, EncodeDirectory, SendDirectory, Disconnect
<1> QED
  BY <1>2, <1>3, <1>4, <1>5

\* Every step keeps the view's way to the directory.
LEMMA ViewStep == DirIInv /\ FavEvents /\ ViewIInv /\ [Next]_vars => ViewIInv'
<1> SUFFICES ASSUME DirIInv, FavEvents, ViewIInv, [Next]_vars PROVE ViewIInv'
  OBVIOUS
<1>1. CASE (\E p \in Packet : ReadPacket(p)) \/ (\E c \in Config : ReadConfig(c))
           \/ UNCHANGED vars
  <2>1. UNCHANGED <<maps, evt, streamVars, missed>>
    BY <1>1 DEF ReadPacket, ReadConfig, vars, dirVars, streamVars
  <2> QED
    BY <2>1, ReadView
<1>2. CASE SetNodeDirectory
  BY <1>2, SwapView
<1>3. CASE UpdateNodePosition \/ UpdateNodeMetric \/ UpsertNode
  BY <1>3, UpdateWrites, WriteView
<1>4. CASE PublishUpdate
  BY <1>4, PublishUpdateView
<1>5. CASE \E h \in Handler, n \in Node, f \in BOOLEAN : handleAPIFavorite(h, n, f)
  BY <1>5, FavoriteView
<1>6. CASE \E h \in Handler : PublishFavorite(h)
  BY <1>6, PublishFavoriteView
<1>7. CASE Connect \/ SendInitial \/ Disconnect
  BY <1>7, OpenCloseView
<1>8. CASE SendEvent
  BY <1>8, SendEventView
<1>9. CASE EncodeDirectory
  BY <1>9, EncodeView
<1>10. CASE SendDirectory
  BY <1>10, SendDirectoryView
<1> QED
  BY <1>1, <1>2, <1>3, <1>4, <1>5, <1>6, <1>7, <1>8, <1>9, <1>10 DEF Next

\* Once nothing is under way, no field is left to be overwritten.
LEMMA ViewImplies == DirIInv /\ ViewIInv => ViewCatchesUp
<1> SUFFICES ASSUME DirIInv, ViewIInv, Settled, ~missed
             PROVE  /\ DOMAIN view = DOMAIN nodeDir
                    /\ \A n \in DOMAIN view :
                         [view[n] EXCEPT !.fav = FALSE] = [nodeDir[n] EXCEPT !.fav = FALSE]
  BY DEF ViewCatchesUp
<1>1. evt = <<>> /\ queue = <<>> /\ stream = "loop" /\ Len(queue) = 0
  BY DEF Settled, Idle
<1>2. NoDirAfter(queue, evt, 0)
  BY <1>1 DEF NoDirAfter
<1>3. BaseCurrent(queue, evt, nodeDir, view)
  BY <1>1, <1>2 DEF ViewIInv
<1>4. \A n, x : ~Later(queue, evt, 0, n, x)
  BY <1>1 DEF Later
<1>5. DOMAIN view = DOMAIN nodeDir
  BY <1>3, <1>4 DEF BaseCurrent
<1>6. ASSUME NEW n \in DOMAIN view
      PROVE  [view[n] EXCEPT !.fav = FALSE] = [nodeDir[n] EXCEPT !.fav = FALSE]
  <2>1. view \in Directory /\ nodeDir \in Directory
    BY CurrentMap DEF DirIInv, StreamTyped
  <2>2. PICK a \in Entry : a = view[n]
    BY <2>1, DirectoryIsOne
  <2>3. PICK b \in Entry : b = nodeDir[n]
    BY <1>5, <2>1, DirectoryIsOne
  <2>4. \A x \in Field : Get(a, x) = Get(b, x)
    <3>1. n \in DOMAIN nodeDir /\ Lookup(view, n) = a
      BY <1>5, <2>2 DEF Lookup
    <3>2. \A x \in Field : Get(Lookup(view, n), x) = Get(nodeDir[n], x)
      BY <1>3, <1>4, <3>1, Zenon DEF BaseCurrent
    <3> QED
      BY <2>3, <3>1, <3>2
  <2>5. a.pos = b.pos /\ a.metric = b.metric /\ a.name = b.name /\ a.seen = b.seen
    <3>1. "pos" \in Field /\ "metric" \in Field /\ "name" \in Field /\ "seen" \in Field
      BY DEF Field
    <3> QED
      BY <2>4, <3>1 DEF Get
  <2>6. [a EXCEPT !.fav = FALSE] = [b EXCEPT !.fav = FALSE]
    BY <2>5 DEF Entry
  <2> QED
    BY <2>2, <2>3, <2>6
<1> QED
  BY <1>5, <1>6

\* A browser that missed no event shows the directory once everything is
\* delivered, for any number of nodes, requests, reconnects and swaps
\* (server.go:485-527, app.js:186-213).
THEOREM CatchesUp == Spec => []ViewCatchesUp
<1>1. Init => FavEvents
  BY DEF Init, FavEvents
<1>2. DirIInv /\ FavEvents /\ [Next]_vars => FavEvents'
  BY FavEventsStep
<1> QED
  BY <1>1, <1>2, InitDir, DirStep, InitView, ViewStep, ViewImplies, PTL DEF Spec

(***************************************************************************)
(* Favourites.                                                             *)
(*                                                                         *)
(* Here the events under way are those in the channel q and those that the *)
(* requests in progress are about to publish; P are the nodes of the       *)
(* latter.  Nodes of r, whose favourite was changed while another update   *)
(* was under way, are left out.                                            *)
(***************************************************************************)
FavAt(e, n) == e.type = "node_favorite" /\ e.node = n

PendNodes == {n \in Node : \E h \in Handler : fav[h] # <<>> /\ fav[h][1].node = n}

LaterFav(q, P, j, n) == (\E l \in 1 .. Len(q) : l > j /\ FavAt(q[l], n)) \/ n \in P

\* What a request is about to publish is what it wrote.
PendCurrent ==
  \A h \in Handler : \A n \in Node \ raced : fav[h] # <<>> /\ fav[h][1].node = n =>
    n \in DOMAIN nodeDir /\ fav[h][1].fav = nodeDir[n].fav

QueueFav(q, v, P, d, r) ==
  \A j \in 1 .. Len(q) : NoDirAfter(q, v, j) =>
    \A n \in Node \ r : FavAt(q[j], n) =>
      n \in DOMAIN d /\ (q[j].fav = d[n].fav \/ LaterFav(q, P, j, n))

\* The browser ignores the favourite of a node it does not know: the event that
\* creates the node comes first.
FavFollows(q, P, n) ==
  /\ \A j \in 1 .. Len(q) : FavAt(q[j], n) => TouchBefore(q, j, n)
  /\ n \in P => TouchBefore(q, Len(q) + 1, n)

BaseFav(q, P, d, r, b) ==
  \A n \in DOMAIN d \ r :
    /\ Lookup(b, n).fav = d[n].fav \/ LaterFav(q, P, 0, n)
    /\ n \notin DOMAIN b => FavFollows(q, P, n)

FavIInv ==
  /\ PendCurrent
  /\ evt # <<>> => evt[1].type # "node_favorite"
  /\ stream # "off" /\ ~missed =>
       /\ QueueFav(queue, evt, PendNodes, nodeDir, raced)
       /\ NoDirAfter(queue, evt, 0) =>
            /\ stream = "loop" => BaseFav(queue, PendNodes, nodeDir, raced, view)
            /\ stream = "encoding" => BaseFav(queue, PendNodes, nodeDir, raced, hand.was)

\* Publishing e, the favourite of a node of P or an event that is none: what was
\* to be overtaken still is.
LEMMA GrownFav ==
  ASSUME NEW q, NEW v, NEW q2, NEW v2, NEW e, Grown(q, v, q2, v2, e), NEW P, NEW P2,
         \A n \in P : n \in P2 \/ FavAt(e, n)
  PROVE  \A n : \A j \in 0 .. Len(q) : LaterFav(q, P, j, n) => LaterFav(q2, P2, j, n)
<1>1. /\ Len(q) \in Nat /\ Len(q2) = Len(q) + 1 /\ Len(q) + 1 \in 1 .. Len(q2)
      /\ \A i \in 1 .. Len(q) : i \in 1 .. Len(q2) /\ q2[i] = q[i]
      /\ q2[Len(q) + 1] = e
  BY DEF Grown
<1>2. ASSUME NEW n, NEW j \in 0 .. Len(q), LaterFav(q, P, j, n)
      PROVE  LaterFav(q2, P2, j, n)
  <2>1. CASE \E l \in 1 .. Len(q) : l > j /\ FavAt(q[l], n)
    BY <1>1, <2>1 DEF LaterFav
  <2>2. CASE n \in P
    <3>1. n \in P2 \/ FavAt(e, n)
      BY <2>2
    <3>2. Len(q) + 1 > j
      BY <1>1
    <3> QED
      BY <1>1, <3>1, <3>2 DEF LaterFav
  <2> QED
    BY <1>2, <2>1, <2>2 DEF LaterFav
<1> QED
  BY <1>2

\* ... and the channel and the base stay right.
LEMMA GrownFavKeeps ==
  ASSUME NEW q, NEW v, NEW q2, NEW v2, NEW e, Grown(q, v, q2, v2, e), NEW P, NEW P2,
         NEW d, NEW r, P2 \subseteq P, \A n \in P : n \in P2 \/ FavAt(e, n),
         \A n : FavAt(e, n) => n \in P,
         \A n \in Node \ r : FavAt(e, n) => n \in DOMAIN d /\ e.fav = d[n].fav
  PROVE  /\ QueueFav(q, v, P, d, r) => QueueFav(q2, v2, P2, d, r)
         /\ \A b : BaseFav(q, P, d, r, b) => BaseFav(q2, P2, d, r, b)
<1>1. /\ Len(q) \in Nat /\ Len(q2) = Len(q) + 1
      /\ \A i \in 1 .. Len(q) : q2[i] = q[i]
      /\ q2[Len(q) + 1] = e
      /\ 0 \in 0 .. Len(q) /\ \A j \in 1 .. Len(q) : j \in 0 .. Len(q)
      /\ \A j \in 1 .. Len(q2) : j \in 1 .. Len(q) \/ j = Len(q) + 1
  BY DEF Grown
<1>2. \A n : \A j \in 0 .. Len(q) : LaterFav(q, P, j, n) => LaterFav(q2, P2, j, n)
  BY GrownFav
<1>3. \A j \in 0 .. Len(q) : NoDirAfter(q2, v2, j) => NoDirAfter(q, v, j)
  BY GrownLater
<1>4. ASSUME QueueFav(q, v, P, d, r), NEW j \in 1 .. Len(q2), NoDirAfter(q2, v2, j),
             NEW n \in Node \ r, FavAt(q2[j], n)
      PROVE  n \in DOMAIN d /\ (q2[j].fav = d[n].fav \/ LaterFav(q2, P2, j, n))
  <2>1. CASE j \in 1 .. Len(q)
    <3>1. NoDirAfter(q, v, j) /\ q2[j] = q[j] /\ j \in 0 .. Len(q)
      BY <1>1, <1>3, <1>4, <2>1
    <3>2. n \in DOMAIN d /\ (q[j].fav = d[n].fav \/ LaterFav(q, P, j, n))
      BY <1>4, <2>1, <3>1 DEF QueueFav
    <3> QED
      BY <1>2, <3>1, <3>2
  <2>2. CASE j = Len(q) + 1
    BY <1>1, <1>4, <2>2
  <2> QED
    BY <1>1, <2>1, <2>2
<1>5. \A n : /\ \A j \in 1 .. Len(q) : TouchBefore(q, j, n) => TouchBefore(q2, j, n)
             /\ TouchBefore(q, Len(q) + 1, n) => TouchBefore(q2, Len(q) + 1, n)
             /\ TouchBefore(q2, Len(q) + 1, n) => TouchBefore(q2, Len(q2) + 1, n)
  <2>1. \A n : TouchBefore(q2, Len(q) + 1, n) => TouchBefore(q2, Len(q2) + 1, n)
    BY <1>1 DEF TouchBefore
  <2> QED
    BY <2>1, GrownLater
<1>6. ASSUME NEW n, FavFollows(q, P, n)
      PROVE  FavFollows(q2, P2, n)
  <2>1. ASSUME NEW j \in 1 .. Len(q2), FavAt(q2[j], n) PROVE TouchBefore(q2, j, n)
    <3>1. CASE j \in 1 .. Len(q)
      BY <1>1, <1>5, <1>6, <2>1, <3>1 DEF FavFollows
    <3>2. CASE j = Len(q) + 1
      <4>1. n \in P
        BY <1>1, <2>1, <3>2
      <4> QED
        BY <1>5, <1>6, <3>2, <4>1 DEF FavFollows
    <3> QED
      BY <1>1, <3>1, <3>2
  <2>2. n \in P2 => TouchBefore(q2, Len(q2) + 1, n)
    BY <1>5, <1>6 DEF FavFollows
  <2> QED
    BY <2>1, <2>2 DEF FavFollows
<1>7. ASSUME NEW b, BaseFav(q, P, d, r, b) PROVE BaseFav(q2, P2, d, r, b)
  BY <1>1, <1>2, <1>6, <1>7 DEF BaseFav
<1>8. QueueFav(q, v, P, d, r) => QueueFav(q2, v2, P2, d, r)
  BY <1>4 DEF QueueFav
<1> QED
  BY <1>7, <1>8

\* Positions move by one when the stream receives.
LEMMA ShiftedFav ==
  ASSUME NEW q, NEW q2, Shifted(q, q2), NEW P
  PROVE  /\ \A n : \A j \in 0 .. Len(q2) : LaterFav(q, P, j + 1, n) => LaterFav(q2, P, j, n)
         /\ \A n : ~FavAt(q[1], n) /\ LaterFav(q, P, 0, n) => LaterFav(q2, P, 0, n)
<1>1. /\ Len(q) \in Nat \ {0} /\ Len(q2) = Len(q) - 1
      /\ \A i \in 1 .. Len(q2) : q2[i] = q[i + 1]
  BY DEF Shifted
<1>2. ASSUME NEW n, NEW j \in 0 .. Len(q2), LaterFav(q, P, j + 1, n) PROVE LaterFav(q2, P, j, n)
  <2>1. CASE n \in P
    BY <2>1 DEF LaterFav
  <2>2. ASSUME NEW l \in 1 .. Len(q), l > j + 1, FavAt(q[l], n) PROVE LaterFav(q2, P, j, n)
    <3>1. l - 1 \in 1 .. Len(q2) /\ l - 1 > j /\ (l - 1) + 1 = l
      BY <1>1, <2>2
    <3>2. q2[l - 1] = q[l]
      BY <1>1, <3>1
    <3> QED
      BY <2>2, <3>1, <3>2 DEF LaterFav
  <2> QED
    BY <1>2, <2>1, <2>2 DEF LaterFav
<1>3. ASSUME NEW n, ~FavAt(q[1], n), LaterFav(q, P, 0, n) PROVE LaterFav(q2, P, 0, n)
  <2>1. CASE n \in P
    BY <2>1 DEF LaterFav
  <2>2. ASSUME NEW l \in 1 .. Len(q), FavAt(q[l], n) PROVE LaterFav(q2, P, 0, n)
    <3>1. l > 0 + 1
      <4>1. l # 1
        BY <1>3, <2>2
      <4> QED
        BY <4>1
    <3>2. LaterFav(q, P, 0 + 1, n)
      BY <2>2, <3>1 DEF LaterFav
    <3>3. 0 \in 0 .. Len(q2)
      BY <1>1
    <3> QED
      BY <1>2, <3>2, <3>3
  <2> QED
    BY <1>3, <2>1, <2>2 DEF LaterFav
<1> QED
  BY <1>2, <1>3

\* The channel stays right when its head is received.
LEMMA ShiftedQueueFav ==
  ASSUME NEW q, NEW q2, NEW v, Shifted(q, q2), NEW P, NEW d, NEW r, QueueFav(q, v, P, d, r)
  PROVE  QueueFav(q2, v, P, d, r)
<1>1. /\ Len(q2) \in Nat
      /\ \A i \in 1 .. Len(q2) : i + 1 \in 1 .. Len(q) /\ i \in 0 .. Len(q2) /\ q2[i] = q[i + 1]
  BY DEF Shifted
<1>2. ASSUME NEW j \in 1 .. Len(q2), NoDirAfter(q2, v, j), NEW n \in Node \ r, FavAt(q2[j], n)
      PROVE  n \in DOMAIN d /\ (q2[j].fav = d[n].fav \/ LaterFav(q2, P, j, n))
  <2>1. PICK k : k = j + 1
    OBVIOUS
  <2>2. k \in 1 .. Len(q) /\ q2[j] = q[k] /\ j \in 0 .. Len(q2)
    BY <1>1, <2>1
  <2>3. NoDirAfter(q, v, k)
    BY <1>2, <2>1, <2>2, ShiftedLater
  <2>4. n \in DOMAIN d /\ (q[k].fav = d[n].fav \/ LaterFav(q, P, k, n))
    BY <1>2, <2>2, <2>3 DEF QueueFav
  <2>5. LaterFav(q, P, k, n) => LaterFav(q2, P, j, n)
    BY <2>1, <2>2, ShiftedFav
  <2> QED
    BY <2>2, <2>4, <2>5
<1> QED
  BY <1>2 DEF QueueFav

\* Only a favourite event writes the favourite of an entry (app.js).
LEMMA PatchedFav ==
  ASSUME NEW ent \in Entry, NEW e \in EventType, e.type # "node_directory"
  PROVE  Patched(ent, e).fav = IF e.type = "node_favorite" THEN e.fav ELSE ent.fav
<1>0. e.type \in {"position", "metric", "node_update", "node_favorite"}
  BY DEF EventType
<1>1. PICK seen : seen = [ent EXCEPT !.seen = TRUE]
  OBVIOUS
<1>2. seen \in Entry /\ seen.fav = ent.fav
  BY <1>1 DEF Entry
<1>3. CASE e.type = "position"
  <2>1. Patched(ent, e) = [seen EXCEPT !.pos = e.val]
    BY <1>1, <1>3 DEF Patched
  <2> QED
    BY <1>2, <1>3, <2>1 DEF Entry
<1>4. CASE e.type = "metric"
  <2>1. Patched(ent, e) = [seen EXCEPT !.metric = IF e.val = 0 THEN @ ELSE e.val]
    BY <1>1, <1>4 DEF Patched
  <2> QED
    BY <1>2, <1>4, <2>1 DEF Entry
<1>5. CASE e.type = "node_update"
  <2>1. Patched(ent, e) = [seen EXCEPT !.name = IF e.name = "" THEN @ ELSE e.name]
    BY <1>1, <1>5 DEF Patched
  <2> QED
    BY <1>2, <1>5, <2>1 DEF Entry
<1>6. CASE e.type = "node_favorite"
  <2>1. Patched(ent, e) = [ent EXCEPT !.fav = e.fav]
    BY <1>6 DEF Patched
  <2> QED
    BY <1>6, <2>1 DEF Entry
<1> QED
  BY <1>0, <1>3, <1>4, <1>5, <1>6

\* What an event about a node does to the favourites of the browser.
LEMMA AppliedFav ==
  ASSUME NEW b \in Directory, NEW e \in EventType, NamesNode(e)
  PROVE  /\ \A n : ~FavAt(e, n) => Lookup(Applied(b, e), n).fav = Lookup(b, n).fav
         /\ \A n \in DOMAIN b : FavAt(e, n) => Lookup(Applied(b, e), n).fav = e.fav
<1>0. PICK m : m = e.node /\ m \in Node
  BY DEF NamesNode
<1>1. e.type # "node_directory" /\ \A n : FavAt(e, n) <=> (n = m /\ e.type = "node_favorite")
  BY <1>0 DEF NamesNode, FavAt
<1>2. CASE m \in DOMAIN b
  <2>1. PICK p : p = Patched(b[m], e)
    OBVIOUS
  <2>2. b[m] \in Entry
    BY <1>2, DirectoryIsOne
  <2>3. p.fav = IF e.type = "node_favorite" THEN e.fav ELSE b[m].fav
    BY <1>1, <2>1, <2>2, PatchedFav
  <2>4. Applied(b, e) = Store(b, m, p)
    BY <1>0, <1>2, <2>1 DEF Applied
  <2>5. PICK b2 : b2 = Applied(b, e)
    OBVIOUS
  <2>6. /\ DOMAIN b2 = DOMAIN b
        /\ \A n \in DOMAIN b : b2[n] = IF n = m THEN p ELSE b[n]
    BY <1>2, <2>4, <2>5 DEF Store
  <2>7. \A n : Lookup(b2, n) = IF n = m THEN p ELSE Lookup(b, n)
    BY <1>2, <2>6 DEF Lookup
  <2>8. Lookup(b, m) = b[m]
    BY <1>2 DEF Lookup
  <2> QED
    BY <1>1, <2>3, <2>5, <2>7, <2>8
<1>3. CASE m \notin DOMAIN b /\ e.type # "node_favorite"
  <2>1. PICK c : c = [Blank EXCEPT !.name = e.name]
    OBVIOUS
  <2>2. c \in Entry /\ c.fav = Blank.fav
    <3>1. Blank \in Entry
      BY DEF Blank, Entry, Name, Amount
    <3>2. e.name \in Name
      BY DEF EventType
    <3> QED
      BY <2>1, <3>1, <3>2 DEF Entry
  <2>3. PICK p : p = Patched(c, e)
    OBVIOUS
  <2>4. p.fav = Blank.fav
    BY <1>1, <1>3, <2>2, <2>3, PatchedFav
  <2>5. Applied(b, e) = Store(b, m, p)
    BY <1>0, <1>3, <2>1, <2>3 DEF Applied
  <2>6. PICK b2 : b2 = Applied(b, e)
    OBVIOUS
  <2>7. /\ DOMAIN b2 = DOMAIN b \cup {m}
        /\ \A n \in DOMAIN b \cup {m} : b2[n] = IF n = m THEN p ELSE b[n]
    BY <2>5, <2>6 DEF Store
  <2>8. \A n : Lookup(b2, n) = IF n = m THEN p ELSE Lookup(b, n)
    BY <2>7 DEF Lookup
  <2>9. Lookup(b, m) = Blank
    BY <1>3 DEF Lookup
  <2> QED
    BY <1>1, <1>3, <2>4, <2>6, <2>8, <2>9
<1>4. CASE m \notin DOMAIN b /\ e.type = "node_favorite"
  <2>1. Applied(b, e) = b
    BY <1>0, <1>4 DEF Applied
  <2> QED
    BY <1>1, <1>4, <2>1
<1> QED
  BY <1>2, <1>3, <1>4

\* The browser that applies the head of the channel is as far as before.
LEMMA AppliedBaseFav ==
  ASSUME NEW q, NEW q2, NEW v, NEW P, NEW d, NEW r, NEW b \in Directory,
         Shifted(q, q2), q[1] \in EventType, NamesNode(q[1]), NoDirAfter(q, v, 0),
         DOMAIN d \subseteq Node, QueueFav(q, v, P, d, r), BaseFav(q, P, d, r, b)
  PROVE  BaseFav(q2, P, d, r, Applied(b, q[1]))
<1>1. PICK h \in EventType : h = q[1] /\ NamesNode(h)
  OBVIOUS
<1>2. PICK b2 : b2 = Applied(b, h)
  OBVIOUS
<1>3. /\ \A n : ~FavAt(h, n) => Lookup(b2, n).fav = Lookup(b, n).fav
      /\ \A n \in DOMAIN b : FavAt(h, n) => Lookup(b2, n).fav = h.fav
  BY <1>1, <1>2, AppliedFav
<1>4. /\ Len(q) \in Nat \ {0} /\ Len(q2) = Len(q) - 1 /\ 1 \in 1 .. Len(q) /\ 0 \in 0 .. Len(q2)
      /\ \A i \in 1 .. Len(q2) : i + 1 \in 1 .. Len(q) /\ i \in 1 .. Len(q2) + 1 /\ q2[i] = q[i + 1]
      /\ Len(q2) + 1 \in 1 .. Len(q2) + 1 /\ (Len(q2) + 1) + 1 = Len(q) + 1
  BY DEF Shifted
<1>5. NoDirAfter(q, v, 1)
  BY DEF NoDirAfter
<1>6. \A n : ~TouchBefore(q, 1, n)
  BY <1>4 DEF TouchBefore
<1>7. ASSUME NEW n \in DOMAIN d \ r, FavAt(h, n)
      PROVE  n \in DOMAIN b /\ (h.fav = d[n].fav \/ LaterFav(q2, P, 0, n))
  <2>1. n \in DOMAIN b
    BY <1>1, <1>4, <1>6, <1>7 DEF BaseFav, FavFollows
  <2>2. h.fav = d[n].fav \/ LaterFav(q, P, 1, n)
    BY <1>1, <1>4, <1>5, <1>7 DEF QueueFav
  <2>3. LaterFav(q, P, 0 + 1, n) => LaterFav(q2, P, 0, n)
    BY <1>4, ShiftedFav
  <2> QED
    BY <2>1, <2>2, <2>3
<1>8. ASSUME NEW n \in DOMAIN d \ r
      PROVE  Lookup(b2, n).fav = d[n].fav \/ LaterFav(q2, P, 0, n)
  <2>1. CASE FavAt(h, n)
    BY <1>3, <1>7, <2>1
  <2>2. CASE ~FavAt(h, n)
    <3>1. Lookup(b, n).fav = d[n].fav \/ LaterFav(q, P, 0, n)
      BY DEF BaseFav
    <3>2. LaterFav(q, P, 0, n) => LaterFav(q2, P, 0, n)
      BY <1>1, <2>2, ShiftedFav
    <3> QED
      BY <1>3, <2>2, <3>1, <3>2
  <2> QED
    BY <2>1, <2>2
<1>9. ASSUME NEW n \in DOMAIN d \ r, n \notin DOMAIN b2
      PROVE  FavFollows(q2, P, n)
  <2>1. DOMAIN b2 = IF Touches(h, h.node) THEN DOMAIN b \cup {h.node} ELSE DOMAIN b
    BY <1>1, <1>2, AppliedGet
  <2>2. Touches(h, n) => n = h.node
    BY DEF Touches, Writes
  <2>3. n \notin DOMAIN b /\ ~Touches(q[1], n)
    BY <1>1, <1>9, <2>1, <2>2
  <2>4. FavFollows(q, P, n)
    BY <2>3 DEF BaseFav
  <2>5. \A j \in 1 .. Len(q2) + 1 : TouchBefore(q, j + 1, n) => TouchBefore(q2, j, n)
    BY <2>3, ShiftedLater
  <2>6. ASSUME NEW j \in 1 .. Len(q2), FavAt(q2[j], n) PROVE TouchBefore(q2, j, n)
    <3>1. TouchBefore(q, j + 1, n)
      BY <1>4, <2>4, <2>6 DEF FavFollows
    <3> QED
      BY <1>4, <2>5, <3>1
  <2>7. n \in P => TouchBefore(q2, Len(q2) + 1, n)
    <3>1. n \in P => TouchBefore(q, (Len(q2) + 1) + 1, n)
      BY <1>4, <2>4 DEF FavFollows
    <3> QED
      BY <1>4, <2>5, <3>1
  <2> QED
    BY <2>6, <2>7 DEF FavFollows
<1>10. BaseFav(q2, P, d, r, b2)
  BY <1>8, <1>9 DEF BaseFav
<1> QED
  BY <1>1, <1>2, <1>10

\* A base that is the directory needs no favourite.
LEMMA SelfFav == ASSUME NEW q, NEW P, NEW d, NEW r PROVE BaseFav(q, P, d, r, d)
  BY DEF BaseFav, Lookup

\* Neither does what an encoder read of it, beyond what the map at the start did.
LEMMA MixedFav ==
  ASSUME NEW q, NEW P, NEW d, NEW r, NEW was, NEW old, BaseFav(q, P, d, r, was)
  PROVE  BaseFav(q, P, d, r, [n \in {m \in DOMAIN d : m \in old => m \in DOMAIN was} |->
                                IF n \in old THEN was[n] ELSE d[n]])
<1>1. PICK b : b = [n \in {m \in DOMAIN d : m \in old => m \in DOMAIN was} |->
                      IF n \in old THEN was[n] ELSE d[n]]
  OBVIOUS
<1>2. /\ \A n \in DOMAIN d : n \in DOMAIN b <=> (n \in old => n \in DOMAIN was)
      /\ \A n \in DOMAIN b : b[n] = IF n \in old THEN was[n] ELSE d[n]
  BY <1>1
<1>3. ASSUME NEW n \in DOMAIN d \ r
      PROVE  /\ Lookup(b, n).fav = d[n].fav \/ LaterFav(q, P, 0, n)
             /\ n \notin DOMAIN b => FavFollows(q, P, n)
  <2>1. /\ Lookup(was, n).fav = d[n].fav \/ LaterFav(q, P, 0, n)
        /\ n \notin DOMAIN was => FavFollows(q, P, n)
    BY DEF BaseFav
  <2>2. CASE n \in old
    <3>1. n \in DOMAIN b <=> n \in DOMAIN was
      BY <1>2, <2>2
    <3>2. Lookup(b, n) = Lookup(was, n)
      BY <1>2, <2>2, <3>1 DEF Lookup
    <3> QED
      BY <2>1, <3>1, <3>2
  <2>3. CASE n \notin old
    <3>1. n \in DOMAIN b /\ b[n] = d[n]
      BY <1>2, <2>3
    <3> QED
      BY <3>1 DEF Lookup
  <2> QED
    BY <2>2, <2>3
<1>4. BaseFav(q, P, d, r, b)
  BY <1>3 DEF BaseFav
<1> QED
  BY <1>1, <1>4

\* The read loop takes a packet or the end of a config sequence, or nothing
\* happens.
LEMMA ReadFav ==
  ASSUME FavIInv, UNCHANGED <<maps, evt, fav, streamVars, missed, raced>>
  PROVE  FavIInv'
<1>1. /\ maps' = maps /\ evt' = evt /\ queue' = queue /\ stream' = stream /\ fav' = fav
      /\ hand' = hand /\ view' = view /\ missed' = missed /\ raced' = raced
  BY DEF streamVars
<1>2. nodeDir' = nodeDir /\ PendNodes' = PendNodes
  BY <1>1 DEF nodeDir, PendNodes
<1>3. PendCurrent'
  BY <1>1, <1>2 DEF FavIInv, PendCurrent
<1> QED
  BY <1>1, <1>2, <1>3 DEF FavIInv

\* A swap: all that requests are about to publish is marked as raced, and all
\* that is in the channel is behind by a directory.
LEMMA SwapFav ==
  ASSUME DirIInv, FavIInv, SetNodeDirectory
  PROVE  FavIInv'
<1>1. PICK e : e = EventOf("node_directory", 0, "", 0, FALSE, Len(maps) + 1)
  OBVIOUS
<1>2. e.type = "node_directory"
  BY <1>1 DEF EventOf
<1>3. evt' = <<e>> /\ fav' = fav
  BY <1>1 DEF SetNodeDirectory
<1>4. evt' # <<>> /\ evt'[1] = e
  BY <1>3, OneEvent
<1>5. \A h \in Handler : fav[h] # <<>> => fav[h][1].node \in raced'
  BY DEF SetNodeDirectory
<1>6. PendCurrent'
  BY <1>3, <1>5 DEF PendCurrent
<1>7. \A j : ~NoDirAfter(queue', evt', j)
  BY <1>2, <1>4 DEF NoDirAfter
<1>8. QueueFav(queue', evt', PendNodes', nodeDir', raced')
  BY <1>7 DEF QueueFav
<1> QED
  BY <1>2, <1>4, <1>6, <1>7, <1>8 DEF FavIInv

\* An update of m keeps the favourites, and a new node has none.
LEMMA UpdateKeepsFav ==
  ASSUME NEW q, NEW v, NEW v2, NEW P, NEW d, NEW d2, NEW r, NEW m,
         DOMAIN d \subseteq Node, m \in Node,
         DOMAIN d2 = DOMAIN d \cup {m}, \A n \in DOMAIN d2 : d2[n].fav = Lookup(d, n).fav,
         Len(q) \in Nat, \A j : NoDirAfter(q, v2, j) => NoDirAfter(q, v, j),
         \A n \in P \ r : n \in DOMAIN d
  PROVE  /\ QueueFav(q, v, P, d, r) => QueueFav(q, v2, P, d2, r)
         /\ \A b : /\ QueueFav(q, v, P, d, r) /\ NoDirAfter(q, v, 0)
                   /\ DOMAIN b \subseteq DOMAIN d /\ BaseFav(q, P, d, r, b)
                   => BaseFav(q, P, d2, r, b)
<1>1. \A n \in DOMAIN d : n \in DOMAIN d2 /\ d2[n].fav = d[n].fav
  BY DEF Lookup
<1>2. QueueFav(q, v, P, d, r) => QueueFav(q, v2, P, d2, r)
  BY <1>1 DEF QueueFav
<1>3. ASSUME NEW b, QueueFav(q, v, P, d, r), NoDirAfter(q, v, 0), DOMAIN b \subseteq DOMAIN d,
             BaseFav(q, P, d, r, b), NEW n \in DOMAIN d2 \ r
      PROVE  /\ Lookup(b, n).fav = d2[n].fav \/ LaterFav(q, P, 0, n)
             /\ n \notin DOMAIN b => FavFollows(q, P, n)
  <2>1. CASE n \in DOMAIN d
    BY <1>1, <1>3, <2>1 DEF BaseFav
  <2>2. CASE n \notin DOMAIN d
    <3>1. n \in Node \ r /\ n \notin DOMAIN b /\ n \notin P
      BY <1>3, <2>2
    <3>2. Lookup(b, n) = Lookup(d, n)
      BY <2>2, <3>1 DEF Lookup
    <3>3. \A j \in 1 .. Len(q) : NoDirAfter(q, v, j)
      BY <1>3 DEF NoDirAfter
    <3>4. \A j \in 1 .. Len(q) : ~FavAt(q[j], n)
      BY <1>3, <2>2, <3>1, <3>3 DEF QueueFav
    <3> QED
      BY <1>3, <3>1, <3>2, <3>4 DEF FavFollows
  <2> QED
    BY <2>1, <2>2
<1>4. \A b : /\ QueueFav(q, v, P, d, r) /\ NoDirAfter(q, v, 0)
             /\ DOMAIN b \subseteq DOMAIN d /\ BaseFav(q, P, d, r, b)
             => BaseFav(q, P, d2, r, b)
  BY <1>3 DEF BaseFav
<1> QED
  BY <1>2, <1>4

\* The updates of an entry (node_directory.go, updateNodeEntry, UpsertNode).
LEMMA UpdateFav ==
  ASSUME DirIInv, ViewIInv, FavIInv, UpdateNodePosition \/ UpdateNodeMetric \/ UpsertNode
  PROVE  FavIInv'
<1>1. PICK m \in Node, ent \in Entry :
        /\ ent.fav = Lookup(nodeDir, m).fav /\ WriteNodeDir(Store(nodeDir, m, ent))
        /\ evt = <<>>
  BY UpdateStores
<1>2. nodeDir \in Directory /\ MapsTyped /\ DOMAIN nodeDir \subseteq Node
  BY CurrentMap, DirectoryIsOne DEF DirIInv
<1>3. PICK d2 : d2 = Store(nodeDir, m, ent)
  OBVIOUS
<1>4. d2 \in Directory
  BY <1>2, <1>3, StoreTyped
<1>5. /\ DOMAIN d2 = DOMAIN nodeDir \cup {m}
      /\ \A n \in DOMAIN d2 : d2[n].fav = Lookup(nodeDir, n).fav
  <2>1. /\ DOMAIN d2 = DOMAIN nodeDir \cup {m}
        /\ \A n \in DOMAIN d2 : d2[n] = IF n = m THEN ent ELSE nodeDir[n]
    BY <1>3 DEF Store
  <2>2. \A n \in DOMAIN d2 : n = m \/ (n \in DOMAIN nodeDir /\ d2[n] = nodeDir[n])
    BY <2>1
  <2>3. d2[m].fav = Lookup(nodeDir, m).fav
    BY <1>1, <2>1
  <2> QED
    BY <2>1, <2>2, <2>3 DEF Lookup
<1>6. nodeDir' = d2 /\ Len(maps') = Len(maps)
  BY <1>1, <1>2, <1>3, <1>4, WriteStep
<1>7. /\ fav' = fav /\ raced' = raced /\ missed' = missed
      /\ queue' = queue /\ stream' = stream /\ hand' = hand /\ view' = view
  BY DEF UpdateNodePosition, UpdateNodeMetric, UpsertNode, UpdateNodeEntry, streamVars
<1>8. PICK e : evt' = <<e>> /\ e.type \in Updating
  <2>1. \A n, name, val : /\ EventOf("position", n, name, val, FALSE, 0).type = "position"
                          /\ EventOf("metric", n, name, val, FALSE, 0).type = "metric"
                          /\ EventOf("node_update", n, name, val, FALSE, 0).type = "node_update"
    BY DEF EventOf
  <2> QED
    BY <2>1 DEF UpdateNodePosition, UpdateNodeMetric, UpsertNode, UpdateNodeEntry, Updating
<1>9. evt' # <<>> /\ evt'[1] = e /\ e.type # "node_favorite"
  BY <1>8, OneEvent DEF Updating
<1>10. PendNodes' = PendNodes
  BY <1>7 DEF PendNodes
<1>11. PendCurrent'
  <2>1. \A n \in DOMAIN nodeDir : n \in DOMAIN d2 /\ d2[n].fav = nodeDir[n].fav
    BY <1>5 DEF Lookup
  <2> QED
    BY <1>6, <1>7, <2>1 DEF PendCurrent, FavIInv
<1>12. \A n \in PendNodes \ raced : n \in DOMAIN nodeDir
  BY DEF PendNodes, PendCurrent, FavIInv
<1>13. \A j : NoDirAfter(queue, evt', j) => NoDirAfter(queue, evt, j)
  BY <1>1 DEF NoDirAfter
<1>14. Len(queue) \in Nat
  BY DEF DirIInv, StreamTyped
<1>15. /\ QueueFav(queue, evt, PendNodes, nodeDir, raced)
            => QueueFav(queue, evt', PendNodes, d2, raced)
       /\ \A b : /\ QueueFav(queue, evt, PendNodes, nodeDir, raced) /\ NoDirAfter(queue, evt, 0)
                 /\ DOMAIN b \subseteq DOMAIN nodeDir
                 /\ BaseFav(queue, PendNodes, nodeDir, raced, b)
                 => BaseFav(queue, PendNodes, d2, raced, b)
  BY <1>2, <1>5, <1>12, <1>13, <1>14, UpdateKeepsFav
<1>16. ASSUME stream # "off", ~missed
       PROVE  /\ QueueFav(queue, evt', PendNodes, d2, raced)
              /\ NoDirAfter(queue, evt', 0) =>
                   /\ stream = "loop" => BaseFav(queue, PendNodes, d2, raced, view)
                   /\ stream = "encoding" => BaseFav(queue, PendNodes, d2, raced, hand.was)
  <2>1. /\ QueueFav(queue, evt, PendNodes, nodeDir, raced)
        /\ NoDirAfter(queue, evt, 0) =>
             /\ stream = "loop" => BaseFav(queue, PendNodes, nodeDir, raced, view)
             /\ stream = "encoding" => BaseFav(queue, PendNodes, nodeDir, raced, hand.was)
    BY <1>16 DEF FavIInv
  <2>2. NoDirAfter(queue, evt, 0) =>
          /\ stream = "loop" => DOMAIN view \subseteq DOMAIN nodeDir
          /\ stream = "encoding" => DOMAIN hand.was \subseteq DOMAIN nodeDir
    BY <1>16 DEF ViewIInv, BaseCurrent
  <2> QED
    BY <1>13, <1>15, <2>1, <2>2
<1> QED
  BY <1>6, <1>7, <1>9, <1>10, <1>11, <1>16 DEF FavIInv

\* publish of an update or of a favourite (pubsub.go, publish).
LEMMA PublishFav ==
  ASSUME DirIInv, FavIInv, NEW e, Deliver(e), PendCurrent',
         maps' = maps, stream' = stream, hand' = hand, view' = view, raced' = raced,
         (evt' = evt /\ e.type = "node_favorite") \/ (evt # <<>> /\ e = evt[1] /\ evt' = <<>>),
         NEW P2, P2 = PendNodes', P2 \subseteq PendNodes,
         \A n \in PendNodes : n \in P2 \/ FavAt(e, n),
         \A n : FavAt(e, n) => n \in PendNodes,
         \A n \in Node \ raced : FavAt(e, n) => n \in DOMAIN nodeDir /\ e.fav = nodeDir[n].fav
  PROVE  FavIInv'
<1>1. nodeDir' = nodeDir
  BY DEF nodeDir
<1>2. evt' # <<>> => evt'[1].type # "node_favorite"
  BY DEF FavIInv
<1>3. queue \in Seq(EventType) /\ Len(queue) \in Nat
  BY DEF DirIInv, StreamTyped
<1>4. CASE stream = "off"
  BY <1>2, <1>4 DEF FavIInv
<1>5. CASE stream # "off" /\ ~(Len(queue) < Buffer)
  <2>1. missed' = TRUE
    BY <1>5 DEF Deliver, Subscribed
  <2> QED
    BY <1>2, <2>1 DEF FavIInv
<1>6. CASE stream # "off" /\ Len(queue) < Buffer
  <2>1. PICK q : queue' = q /\ Grown(queue, evt, q, evt', e) /\ (missed' <=> missed)
    BY <1>6, DeliverGrows
  <2>3. queue' = q
    BY <2>1
  <2>4. Grown(queue, evt, q, evt', e)
    BY <2>1
  <2>5. /\ QueueFav(queue, evt, PendNodes, nodeDir, raced)
             => QueueFav(q, evt', P2, nodeDir, raced)
        /\ \A b : BaseFav(queue, PendNodes, nodeDir, raced, b)
             => BaseFav(q, P2, nodeDir, raced, b)
    <3>1. PICK P : P = PendNodes
      OBVIOUS
    <3>2. PICK d : d = nodeDir
      OBVIOUS
    <3>3. PICK v2 : v2 = evt'
      OBVIOUS
    <3>4. /\ P2 \subseteq P /\ (\A n \in P : n \in P2 \/ FavAt(e, n))
          /\ \A n : FavAt(e, n) => n \in P
          /\ \A n \in Node \ raced : FavAt(e, n) => n \in DOMAIN d /\ e.fav = d[n].fav
          /\ Grown(queue, evt, q, v2, e)
      BY <2>4, <3>1, <3>2, <3>3
    <3>5. /\ QueueFav(queue, evt, P, d, raced) => QueueFav(q, v2, P2, d, raced)
          /\ \A b : BaseFav(queue, P, d, raced, b) => BaseFav(q, P2, d, raced, b)
      BY <3>4, GrownFavKeeps
    <3> QED
      BY <3>1, <3>2, <3>3, <3>5
  <2>6. 0 \in 0 .. Len(queue)
    BY <1>3
  <2>7. NoDirAfter(q, evt', 0) => NoDirAfter(queue, evt, 0)
    BY <2>4, <2>6, GrownLater
  <2>8. ASSUME ~missed
        PROVE  /\ QueueFav(q, evt', P2, nodeDir, raced)
               /\ NoDirAfter(q, evt', 0) =>
                    /\ stream = "loop" => BaseFav(q, P2, nodeDir, raced, view)
                    /\ stream = "encoding" => BaseFav(q, P2, nodeDir, raced, hand.was)
    <3>1. /\ QueueFav(queue, evt, PendNodes, nodeDir, raced)
          /\ NoDirAfter(queue, evt, 0) =>
               /\ stream = "loop" => BaseFav(queue, PendNodes, nodeDir, raced, view)
               /\ stream = "encoding" => BaseFav(queue, PendNodes, nodeDir, raced, hand.was)
      BY <1>6, <2>8 DEF FavIInv
    <3> QED
      BY <2>5, <2>7, <3>1, Zenon
  <2> QED
    BY <1>1, <1>2, <2>1, <2>3, <2>8 DEF FavIInv
<1> QED
  BY <1>4, <1>5, <1>6

\* The event of an update is no favourite.
LEMMA PublishUpdateFav ==
  ASSUME DirIInv, FavIInv, PublishUpdate
  PROVE  FavIInv'
<1>1. /\ evt # <<>> /\ Deliver(evt[1]) /\ evt' = <<>> /\ fav' = fav /\ raced' = raced
      /\ maps' = maps /\ stream' = stream /\ hand' = hand /\ view' = view
  BY DEF PublishUpdate, dirVars
<1>2. PICK e : e = evt[1]
  OBVIOUS
<1>3. Deliver(e) /\ \A n : ~FavAt(e, n)
  BY <1>1, <1>2 DEF FavIInv, FavAt
<1>4. PICK P2 : P2 = PendNodes' /\ P2 = PendNodes
  BY <1>1 DEF PendNodes
<1>5. PendCurrent'
  BY <1>1 DEF FavIInv, PendCurrent, nodeDir
<1> QED
  BY <1>1, <1>2, <1>3, <1>4, <1>5, PublishFav

\* The favourite of a request says what the directory says, unless it was raced.
LEMMA PublishFavoriteFav ==
  ASSUME DirIInv, FavEvents, FavIInv, NEW h \in Handler, PublishFavorite(h)
  PROVE  FavIInv'
<1>1. /\ fav[h] # <<>> /\ Deliver(fav[h][1]) /\ evt' = evt /\ raced' = raced
      /\ maps' = maps /\ stream' = stream /\ hand' = hand /\ view' = view
      /\ fav' = [fav EXCEPT ![h] = <<>>]
  BY DEF PublishFavorite, PublishFavoriteEvent, dirVars, readerVars
<1>2. PICK e : e = fav[h][1]
  OBVIOUS
<1>3. fav \in [Handler -> Seq(EventType)]
  BY DEF DirIInv, FavTyped
<1>4. e.node \in Node
  <2>1. 1 \in 1 .. Len(fav[h])
    BY <1>1, <1>3
  <2> QED
    BY <1>2, <2>1 DEF DirIInv, FavTyped, NamesNode
<1>5. /\ fav'[h] = <<>> /\ \A g \in Handler \ {h} : fav'[g] = fav[g]
  BY <1>1, <1>3
<1>6. e.type = "node_favorite" /\ Deliver(e)
  BY <1>1, <1>2 DEF FavEvents
<1>7. PICK P2 : P2 = PendNodes'
  OBVIOUS
<1>8. P2 \subseteq PendNodes
  BY <1>5, <1>7 DEF PendNodes
<1>9. ASSUME NEW n \in PendNodes PROVE n \in P2 \/ FavAt(e, n)
  <2>1. PICK g \in Handler : n \in Node /\ fav[g] # <<>> /\ fav[g][1].node = n
    BY DEF PendNodes
  <2>2. CASE g = h
    BY <1>2, <1>6, <2>1, <2>2 DEF FavAt
  <2>3. CASE g # h
    BY <1>5, <1>7, <2>1, <2>3 DEF PendNodes
  <2> QED
    BY <2>2, <2>3
<1>10. \A n : FavAt(e, n) => n \in PendNodes
  BY <1>1, <1>2, <1>4 DEF FavAt, PendNodes
<1>11. \A n \in Node \ raced : FavAt(e, n) => n \in DOMAIN nodeDir /\ e.fav = nodeDir[n].fav
  BY <1>1, <1>2 DEF FavAt, FavIInv, PendCurrent
<1>12. PendCurrent'
  <2>1. nodeDir' = nodeDir
    BY <1>1 DEF nodeDir
  <2>2. \A g \in Handler : fav'[g] # <<>> => fav'[g] = fav[g]
    BY <1>5
  <2> QED
    BY <1>1, <2>1, <2>2 DEF FavIInv, PendCurrent
<1> QED
  BY <1>1, <1>6, <1>7, <1>8, <1>9, <1>10, <1>11, <1>12, PublishFav

\* A request for node n: its event is still to come, and follows the event that
\* creates n, unless it is raced.
LEMMA RequestKeepsFav ==
  ASSUME NEW q, NEW v, NEW P, NEW P2, NEW d, NEW d2, NEW r, NEW r2, NEW n,
         DOMAIN d2 = DOMAIN d, \A k \in DOMAIN d \ {n} : d2[k].fav = d[k].fav,
         r \subseteq r2, P2 = P \cup {n}
  PROVE  /\ QueueFav(q, v, P, d, r) => QueueFav(q, v, P2, d2, r2)
         /\ \A b : /\ BaseFav(q, P, d, r, b)
                   /\ n \notin DOMAIN b /\ n \notin r2 => TouchBefore(q, Len(q) + 1, n)
                   => BaseFav(q, P2, d2, r2, b)
<1>1. \A j : LaterFav(q, P2, j, n)
  BY DEF LaterFav
<1>2. \A j, k : LaterFav(q, P, j, k) => LaterFav(q, P2, j, k)
  BY DEF LaterFav
<1>3. ASSUME QueueFav(q, v, P, d, r), NEW j \in 1 .. Len(q), NoDirAfter(q, v, j),
             NEW k \in Node \ r2, FavAt(q[j], k)
      PROVE  k \in DOMAIN d2 /\ (q[j].fav = d2[k].fav \/ LaterFav(q, P2, j, k))
  <2>1. k \in DOMAIN d /\ (q[j].fav = d[k].fav \/ LaterFav(q, P, j, k))
    BY <1>3 DEF QueueFav
  <2> QED
    BY <1>1, <1>2, <2>1
<1>4. ASSUME NEW b, BaseFav(q, P, d, r, b),
             n \notin DOMAIN b /\ n \notin r2 => TouchBefore(q, Len(q) + 1, n),
             NEW k \in DOMAIN d2 \ r2
      PROVE  /\ Lookup(b, k).fav = d2[k].fav \/ LaterFav(q, P2, 0, k)
             /\ k \notin DOMAIN b => FavFollows(q, P2, k)
  <2>1. /\ Lookup(b, k).fav = d[k].fav \/ LaterFav(q, P, 0, k)
        /\ k \notin DOMAIN b => FavFollows(q, P, k)
    BY <1>4 DEF BaseFav
  <2>2. Lookup(b, k).fav = d2[k].fav \/ LaterFav(q, P2, 0, k)
    BY <1>1, <1>2, <2>1
  <2>3. k \notin DOMAIN b => FavFollows(q, P2, k)
    BY <1>4, <2>1 DEF FavFollows
  <2> QED
    BY <2>2, <2>3
<1>5. QueueFav(q, v, P, d, r) => QueueFav(q, v, P2, d2, r2)
  BY <1>3 DEF QueueFav
<1>6. \A b : /\ BaseFav(q, P, d, r, b)
             /\ n \notin DOMAIN b /\ n \notin r2 => TouchBefore(q, Len(q) + 1, n)
             => BaseFav(q, P2, d2, r2, b)
  BY <1>4 DEF BaseFav
<1> QED
  BY <1>5, <1>6

\* POST /api/favorite (node_directory.go, SetFavorite).
LEMMA FavoriteFav ==
  ASSUME DirIInv, ViewIInv, FavIInv, NEW h \in Handler, NEW n \in Node, NEW f \in BOOLEAN,
         handleAPIFavorite(h, n, f)
  PROVE  FavIInv'
<1>1. PICK ent : ent = [nodeDir[n] EXCEPT !.fav = f]
  OBVIOUS
<1>2. PICK e : e = EventOf("node_favorite", n, "", 0, f, 0)
  OBVIOUS
<1>3. e.node = n /\ e.fav = f
  BY <1>2 DEF EventOf
<1>4. PICK s : s = <<e>> /\ s # <<>> /\ s[1] = e
  BY OneEvent
<1>5. /\ n \in DOMAIN nodeDir /\ WriteNodeDir(Store(nodeDir, n, ent)) /\ fav[h] = <<>>
      /\ fav' = [fav EXCEPT ![h] = s]
      /\ evt' = evt /\ missed' = missed
      /\ stream' = stream /\ queue' = queue /\ hand' = hand /\ view' = view
  BY <1>1, <1>2, <1>4 DEF handleAPIFavorite, SetFavorite, readerVars, streamVars
<1>6. raced \subseteq raced' /\ (Overlapping(n) => n \in raced')
  BY DEF handleAPIFavorite
<1>7. MapsTyped /\ nodeDir \in Directory
  BY CurrentMap DEF DirIInv
<1>8. nodeDir[n] \in Entry
  BY <1>5, <1>7, DirectoryIsOne
<1>9. ent \in Entry /\ ent.fav = f
  BY <1>1, <1>8 DEF Entry
<1>10. PICK d2 : d2 = Store(nodeDir, n, ent)
  OBVIOUS
<1>11. d2 \in Directory
  BY <1>7, <1>9, <1>10, StoreTyped
<1>12. /\ DOMAIN d2 = DOMAIN nodeDir /\ d2[n] = ent
       /\ \A k \in DOMAIN nodeDir \ {n} : d2[k] = nodeDir[k]
  BY <1>5, <1>10 DEF Store
<1>13. nodeDir' = d2
  BY <1>5, <1>7, <1>10, <1>11, WriteStep
<1>14. fav'[h] = s /\ \A g \in Handler \ {h} : fav'[g] = fav[g]
  <2>1. fav \in [Handler -> Seq(EventType)]
    BY DEF DirIInv, FavTyped
  <2> QED
    BY <1>5, <2>1
<1>15. PICK P2 : P2 = PendNodes'
  OBVIOUS
<1>16. P2 = PendNodes \cup {n}
  <2>1. ASSUME NEW k, k \in P2 PROVE k \in PendNodes \cup {n}
    <3>1. PICK g \in Handler : k \in Node /\ fav'[g] # <<>> /\ fav'[g][1].node = k
      BY <1>15, <2>1 DEF PendNodes
    <3>2. CASE g = h
      BY <1>3, <1>4, <1>14, <3>1, <3>2
    <3>3. CASE g # h
      BY <1>14, <3>1, <3>3 DEF PendNodes
    <3> QED
      BY <3>2, <3>3
  <2>2. ASSUME NEW k \in PendNodes PROVE k \in P2
    <3>1. PICK g \in Handler : k \in Node /\ fav[g] # <<>> /\ fav[g][1].node = k
      BY <2>2 DEF PendNodes
    <3>2. g # h
      BY <1>5, <3>1
    <3> QED
      BY <1>14, <1>15, <3>1, <3>2 DEF PendNodes
  <2>3. n \in P2
    BY <1>3, <1>4, <1>14, <1>15 DEF PendNodes
  <2> QED
    BY <2>1, <2>2, <2>3
<1>17. PendCurrent'
  <2>1. ASSUME NEW g \in Handler, NEW k \in Node, k \notin raced',
               fav'[g] # <<>>, fav'[g][1].node = k
        PROVE  k \in DOMAIN d2 /\ fav'[g][1].fav = d2[k].fav
    <3>1. CASE g = h
      BY <1>3, <1>4, <1>5, <1>9, <1>12, <1>14, <2>1, <3>1
    <3>2. CASE g # h
      <4>1. fav[g] # <<>> /\ fav[g][1].node = k /\ fav'[g] = fav[g]
        BY <1>14, <2>1, <3>2
      <4>2. k # n
        BY <1>6, <2>1, <4>1 DEF Overlapping
      <4>3. k \in DOMAIN nodeDir /\ fav[g][1].fav = nodeDir[k].fav
        BY <1>6, <2>1, <4>1 DEF FavIInv, PendCurrent
      <4> QED
        BY <1>12, <4>1, <4>2, <4>3
    <3> QED
      BY <3>1, <3>2
  <2> QED
    BY <1>13, <2>1 DEF PendCurrent
<1>18. PICK r2 : r2 = raced'
  OBVIOUS
<1>19. /\ QueueFav(queue, evt, PendNodes, nodeDir, raced) => QueueFav(queue, evt, P2, d2, r2)
       /\ \A b : /\ BaseFav(queue, PendNodes, nodeDir, raced, b)
                 /\ n \notin DOMAIN b /\ n \notin r2 => TouchBefore(queue, Len(queue) + 1, n)
                 => BaseFav(queue, P2, d2, r2, b)
  BY <1>6, <1>12, <1>16, <1>18, RequestKeepsFav
<1>20. ASSUME NEW b, BaseCurrent(queue, evt, nodeDir, b), n \notin DOMAIN b, n \notin r2
       PROVE  TouchBefore(queue, Len(queue) + 1, n)
  <2>1. Later(queue, evt, 0, n, "seen")
    BY <1>5, <1>20 DEF BaseCurrent
  <2>2. ~(evt # <<>> /\ Writes(evt[1], n, "seen"))
    BY <1>6, <1>18, <1>20 DEF Overlapping, Writes
  <2>3. PICK l \in 1 .. Len(queue) : Writes(queue[l], n, "seen")
    BY <2>1, <2>2 DEF Later
  <2>4. l < Len(queue) + 1
    BY DEF DirIInv, StreamTyped
  <2> QED
    BY <2>3, <2>4 DEF TouchBefore, Touches
<1>21. ASSUME stream # "off", ~missed
       PROVE  /\ QueueFav(queue, evt, P2, d2, r2)
              /\ NoDirAfter(queue, evt, 0) =>
                   /\ stream = "loop" => BaseFav(queue, P2, d2, r2, view)
                   /\ stream = "encoding" => BaseFav(queue, P2, d2, r2, hand.was)
  <2>1. /\ QueueFav(queue, evt, PendNodes, nodeDir, raced)
        /\ NoDirAfter(queue, evt, 0) =>
             /\ stream = "loop" => BaseFav(queue, PendNodes, nodeDir, raced, view)
             /\ stream = "encoding" => BaseFav(queue, PendNodes, nodeDir, raced, hand.was)
    BY <1>21 DEF FavIInv
  <2>2. NoDirAfter(queue, evt, 0) =>
          /\ stream = "loop" => BaseCurrent(queue, evt, nodeDir, view)
          /\ stream = "encoding" => BaseCurrent(queue, evt, nodeDir, hand.was)
    BY <1>21 DEF ViewIInv
  <2> QED
    BY <1>19, <1>20, <2>1, <2>2
<1> QED
  BY <1>5, <1>13, <1>15, <1>17, <1>18, <1>21 DEF FavIInv

\* The steps of the stream leave the requests and the directory alone.
LEMMA StreamKeepsPending ==
  ASSUME FavIInv, maps' = maps, evt' = evt, fav' = fav, raced' = raced
  PROVE  /\ nodeDir' = nodeDir /\ PendNodes' = PendNodes /\ PendCurrent'
         /\ evt' # <<>> => evt'[1].type # "node_favorite"
<1>1. nodeDir' = nodeDir /\ PendNodes' = PendNodes
  BY DEF nodeDir, PendNodes
<1>2. PendCurrent'
  BY <1>1 DEF FavIInv, PendCurrent
<1> QED
  BY <1>1, <1>2 DEF FavIInv

\* The stream opens, sends its copy of the directory, or closes.
LEMMA OpenCloseFav ==
  ASSUME ViewIInv, FavIInv, Connect \/ SendInitial \/ Disconnect
  PROVE  FavIInv'
<1>1. maps' = maps /\ evt' = evt /\ fav' = fav /\ raced' = raced
  BY DEF Connect, SendInitial, Disconnect, dirVars, readerVars
<1>2. /\ nodeDir' = nodeDir /\ PendNodes' = PendNodes /\ PendCurrent'
      /\ evt' # <<>> => evt'[1].type # "node_favorite"
  BY <1>1, StreamKeepsPending
<1>3. CASE Connect
  <2>1. queue' = <<>> /\ stream' = "subscribed"
    BY <1>3 DEF Connect, ViewIInv
  <2>2. QueueFav(<<>>, evt, PendNodes, nodeDir, raced)
    BY DEF QueueFav
  <2> QED
    BY <1>1, <1>2, <2>1, <2>2 DEF FavIInv
<1>4. CASE SendInitial
  <2>1. /\ queue' = queue /\ stream = "subscribed" /\ stream' = "loop" /\ view' = nodeDir
        /\ missed' = missed
    BY <1>4 DEF SendInitial, NodeDirectoryCopy
  <2>2. BaseFav(queue, PendNodes, nodeDir, raced, nodeDir)
    BY SelfFav
  <2> QED
    BY <1>1, <1>2, <2>1, <2>2 DEF FavIInv
<1>5. CASE Disconnect
  <2>1. stream' = "off"
    BY <1>5 DEF Disconnect
  <2> QED
    BY <1>2, <2>1 DEF FavIInv
<1> QED
  BY <1>3, <1>4, <1>5

\* The browser applies an event, or ignores it while paused.
LEMMA SendEventFav ==
  ASSUME DirIInv, FavIInv, SendEvent
  PROVE  FavIInv'
<1>1. /\ Received({"position", "metric", "node_update", "node_favorite"})
      /\ maps' = maps /\ evt' = evt /\ stream' = stream /\ hand' = hand /\ queue' = Tail(queue)
      /\ fav' = fav /\ raced' = raced
  BY DEF SendEvent, dirVars, readerVars
<1>2. /\ nodeDir' = nodeDir /\ PendNodes' = PendNodes /\ PendCurrent'
      /\ evt' # <<>> => evt'[1].type # "node_favorite"
  BY <1>1, StreamKeepsPending
<1>3. PICK e : e = Head(queue)
  OBVIOUS
<1>4. StreamTyped /\ queue # <<>> /\ stream = "loop"
  BY <1>1 DEF DirIInv, Received
<1>5. Sound(e) /\ e.type \in {"position", "metric", "node_update", "node_favorite"}
  BY <1>1, <1>3, <1>4, HeadEvent
<1>6. e \in EventType /\ NamesNode(e) /\ e.type # "node_directory"
  BY <1>5 DEF Sound, NamesMap
<1>7. PICK q2 : q2 = Tail(queue)
  OBVIOUS
<1>8. Shifted(queue, q2) /\ queue[1] = e
  BY <1>3, <1>4, <1>7, TailShifts
<1>9. queue' = q2
  BY <1>1, <1>7
<1>10. PICK ignored \in Ignored(e) : /\ view' = (IF ignored THEN view ELSE Applied(view, e))
                                     /\ missed' = (missed \/ ignored)
  BY <1>3 DEF SendEvent
<1>11. ASSUME ~missed'
       PROVE  /\ QueueFav(q2, evt, PendNodes, nodeDir, raced)
              /\ NoDirAfter(q2, evt, 0) => BaseFav(q2, PendNodes, nodeDir, raced, view')
  <2>1. ~missed /\ view' = Applied(view, e)
    BY <1>10, <1>11
  <2>2. QueueFav(queue, evt, PendNodes, nodeDir, raced)
    BY <1>4, <2>1 DEF FavIInv
  <2>3. QueueFav(q2, evt, PendNodes, nodeDir, raced)
    BY <1>8, <2>2, ShiftedQueueFav
  <2>4. ASSUME NoDirAfter(q2, evt, 0) PROVE BaseFav(q2, PendNodes, nodeDir, raced, view')
    <3>1. NoDirAfter(queue, evt, 1)
      <4>1. 0 \in 0 .. Len(q2)
        BY <1>8 DEF Shifted
      <4>2. NoDirAfter(queue, evt, 0 + 1)
        BY <1>8, <2>4, <4>1, ShiftedLater
      <4> QED
        BY <4>2
    <3>2. NoDirAfter(queue, evt, 0)
      BY <1>6, <1>8, <3>1 DEF NoDirAfter, Shifted
    <3>3. BaseFav(queue, PendNodes, nodeDir, raced, view)
      BY <1>4, <2>1, <3>2 DEF FavIInv
    <3>4. DOMAIN nodeDir \subseteq Node /\ view \in Directory
      BY <1>4, CurrentMap, DirectoryIsOne DEF DirIInv, StreamTyped
    <3>5. BaseFav(q2, PendNodes, nodeDir, raced, Applied(view, queue[1]))
      BY <1>6, <1>8, <2>2, <3>2, <3>3, <3>4, AppliedBaseFav
    <3> QED
      BY <1>8, <2>1, <3>5
  <2> QED
    BY <2>3, <2>4
<1> QED
  BY <1>1, <1>2, <1>4, <1>9, <1>11 DEF FavIInv

\* A directory that is the last one under way is the current map.
LEMMA EncodeFav ==
  ASSUME DirIInv, ViewIInv', FavIInv, EncodeDirectory
  PROVE  FavIInv'
<1>1. PICK i : i = Head(queue).map
  OBVIOUS
<1>2. /\ Received({"node_directory"}) /\ maps' = maps /\ evt' = evt /\ stream' = "encoding"
      /\ queue' = Tail(queue) /\ hand' = [map |-> i, was |-> maps[i]]
      /\ missed' = (missed /\ ~(i = Len(maps) /\ Len(queue) = 1))
      /\ fav' = fav /\ raced' = raced
  BY <1>1 DEF EncodeDirectory, dirVars, readerVars
<1>3. /\ nodeDir' = nodeDir /\ PendNodes' = PendNodes /\ PendCurrent'
      /\ evt' # <<>> => evt'[1].type # "node_favorite"
  BY <1>2, StreamKeepsPending
<1>4. StreamTyped /\ queue # <<>> /\ stream = "loop"
  BY <1>2 DEF DirIInv, Received
<1>5. PICK q2 : q2 = Tail(queue)
  OBVIOUS
<1>6. queue' = q2 /\ Shifted(queue, q2)
  BY <1>2, <1>4, <1>5, TailShifts
<1>7. ASSUME ~missed' PROVE QueueFav(q2, evt, PendNodes, nodeDir, raced)
  <2>1. CASE ~missed
    <3>1. QueueFav(queue, evt, PendNodes, nodeDir, raced)
      BY <1>4, <2>1 DEF FavIInv
    <3> QED
      BY <1>6, <3>1, ShiftedQueueFav
  <2>2. CASE Len(queue) = 1
    <3>1. Len(q2) = 0
      BY <1>6, <2>2 DEF Shifted
    <3> QED
      BY <3>1 DEF QueueFav
  <2> QED
    BY <1>2, <1>7, <2>1, <2>2
<1>8. ASSUME ~missed', NoDirAfter(q2, evt, 0)
      PROVE  BaseFav(q2, PendNodes, nodeDir, raced, hand'.was)
  <2>1. hand'.map = Len(maps)
    BY <1>2, <1>6, <1>8 DEF ViewIInv
  <2>2. hand'.map = i /\ hand'.was = maps[i]
    BY <1>2
  <2>3. hand'.was = nodeDir
    BY <2>1, <2>2 DEF nodeDir
  <2>4. BaseFav(q2, PendNodes, nodeDir, raced, nodeDir)
    BY SelfFav
  <2> QED
    BY <2>3, <2>4
<1> QED
  BY <1>2, <1>3, <1>6, <1>7, <1>8 DEF FavIInv

\* What the encoder read of the current map is as good as the map.
LEMMA SendDirectoryFav ==
  ASSUME DirIInv, ViewIInv, FavIInv, SendDirectory
  PROVE  FavIInv'
<1>1. /\ stream = "encoding" /\ maps' = maps /\ evt' = evt /\ queue' = queue
      /\ missed' = missed /\ stream' = "loop" /\ fav' = fav /\ raced' = raced
  BY DEF SendDirectory, dirVars, readerVars
<1>2. /\ nodeDir' = nodeDir /\ PendNodes' = PendNodes /\ PendCurrent'
      /\ evt' # <<>> => evt'[1].type # "node_favorite"
  BY <1>1, StreamKeepsPending
<1>3. PICK now : now = maps[hand.map]
  OBVIOUS
<1>4. PICK old : view' = [n \in {m \in DOMAIN now : m \in old => m \in DOMAIN hand.was} |->
                            IF n \in old THEN hand.was[n] ELSE now[n]]
  BY <1>3 DEF SendDirectory
<1>5. ASSUME ~missed, NoDirAfter(queue, evt, 0)
      PROVE  BaseFav(queue, PendNodes, nodeDir, raced, view')
  <2>1. hand.map = Len(maps) /\ BaseFav(queue, PendNodes, nodeDir, raced, hand.was)
    BY <1>1, <1>5 DEF ViewIInv, FavIInv
  <2>2. now = nodeDir
    BY <1>3, <2>1 DEF nodeDir
  <2>3. PICK was : was = hand.was
    OBVIOUS
  <2>4. BaseFav(queue, PendNodes, now, raced, was)
    BY <2>1, <2>2, <2>3
  <2>5. BaseFav(queue, PendNodes, now, raced,
          [n \in {m \in DOMAIN now : m \in old => m \in DOMAIN was} |->
             IF n \in old THEN was[n] ELSE now[n]])
    BY <2>4, MixedFav
  <2> QED
    BY <1>4, <2>2, <2>3, <2>5
<1> QED
  BY <1>1, <1>2, <1>5 DEF FavIInv

\* Every step keeps the favourites' way to the browser.
LEMMA FavStep == DirIInv /\ FavEvents /\ ViewIInv /\ FavIInv /\ [Next]_vars => FavIInv'
<1> SUFFICES ASSUME DirIInv, FavEvents, ViewIInv, FavIInv, [Next]_vars PROVE FavIInv'
  OBVIOUS
<1>1. CASE (\E p \in Packet : ReadPacket(p)) \/ (\E c \in Config : ReadConfig(c))
           \/ UNCHANGED vars
  <2>1. UNCHANGED <<maps, evt, fav, streamVars, missed, raced>>
    BY <1>1 DEF ReadPacket, ReadConfig, vars, dirVars, streamVars
  <2> QED
    BY <2>1, ReadFav
<1>2. CASE SetNodeDirectory
  BY <1>2, SwapFav
<1>3. CASE UpdateNodePosition \/ UpdateNodeMetric \/ UpsertNode
  BY <1>3, UpdateFav
<1>4. CASE PublishUpdate
  BY <1>4, PublishUpdateFav
<1>5. CASE \E h \in Handler, n \in Node, f \in BOOLEAN : handleAPIFavorite(h, n, f)
  BY <1>5, FavoriteFav
<1>6. CASE \E h \in Handler : PublishFavorite(h)
  BY <1>6, PublishFavoriteFav
<1>7. CASE Connect \/ SendInitial \/ Disconnect
  BY <1>7, OpenCloseFav
<1>8. CASE SendEvent
  BY <1>8, SendEventFav
<1>9. CASE EncodeDirectory
  <2>1. ViewIInv'
    BY <1>9, EncodeView
  <2> QED
    BY <1>9, <2>1, EncodeFav
<1>10. CASE SendDirectory
  BY <1>10, SendDirectoryFav
<1> QED
  BY <1>1, <1>2, <1>3, <1>4, <1>5, <1>6, <1>7, <1>8, <1>9, <1>10 DEF Next

\* The favourites that are not raced are right for a browser that missed no
\* event, once everything is delivered (node_directory.go:220).
THEOREM FavoritesShown == Spec => []FavoriteIsShown
<1>1. Init => FavEvents /\ FavIInv
  BY DEF Init, FavEvents, FavIInv, PendCurrent
<1>2. DirIInv /\ FavEvents /\ [Next]_vars => FavEvents'
  BY FavEventsStep
<1>3. ViewIInv /\ FavIInv => FavoriteIsShown
  <2> SUFFICES ASSUME ViewIInv, FavIInv, Settled, ~missed,
                      NEW n \in (DOMAIN view \cap DOMAIN nodeDir) \ raced
               PROVE  view[n].fav = nodeDir[n].fav
    BY DEF FavoriteIsShown
  <2>1. evt = <<>> /\ queue = <<>> /\ stream = "loop" /\ Len(queue) = 0 /\ PendNodes = {}
    BY DEF Settled, Idle, PendNodes
  <2>2. NoDirAfter(queue, evt, 0)
    BY <2>1 DEF NoDirAfter
  <2>3. BaseFav(queue, PendNodes, nodeDir, raced, view)
    BY <2>1, <2>2 DEF FavIInv
  <2>4. ~LaterFav(queue, PendNodes, 0, n)
    BY <2>1 DEF LaterFav
  <2>5. Lookup(view, n).fav = nodeDir[n].fav
    BY <2>3, <2>4 DEF BaseFav
  <2> QED
    BY <2>5 DEF Lookup
<1> QED
  BY <1>1, <1>2, <1>3, InitDir, DirStep, InitView, ViewStep, FavStep, PTL DEF Spec
=============================================================================

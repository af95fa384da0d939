-------------------------- MODULE ClientHubProofs ---------------------------
(***************************************************************************)
(* Proofs about ClientHub, for any clients, limits, buffers, frames and    *)
(* messages: what the lock p.mu protects, the shutdown, the chat cache's   *)
(* ACKs, the replays of config and history, and the texts that arrive.     *)
(***************************************************************************)
EXTENDS ClientHub, SequenceTheorems, FiniteSetTheorems, WellFoundedInduction, TLAPS

\* The part of the type invariant that the registry depends on.
RegistryTypes ==
  /\ clients \subseteq Client
  /\ rlocked \subseteq Thread
  /\ pc \in [Thread -> Labels]
  /\ target \in [Thread -> Client \cup {NoClient}]
  /\ todo \in [Thread -> SUBSET Client]
  /\ conn \in [Client -> {"none", "open", "closed"}]
  /\ once \in [Client -> {"new", "running", "done"}]

Closing(t) == pc[t] \in {"close", "unregister", "store"}

\* The acceptor has not put c in the registry yet.
NotRegisteredYet(c) ==
  conn[c] = "none" \/ (pc[Acceptor] = "register" /\ target[Acceptor] = c)

\* Of such a client nobody knows: it has no goroutine, and nobody sends to it
\* or closes it.
Unknown(c) ==
  /\ once[c] = "new"
  /\ c \notin clients
  /\ \A t \in Thread : /\ Owner(t) = c => pc[t] = "off"
                       /\ Closing(t) => target[t] # c
                       /\ c \notin todo[t]

\* A thread that registers or closes a client has one; at "store" it has
\* unregistered it.
TargetsMakeSense ==
  /\ pc[Acceptor] \in {"register", "start"} =>
       target[Acceptor] \in Client /\ conn[target[Acceptor]] # "none"
  /\ \A t \in Thread : Closing(t) => target[t] \in Client
  /\ \A t \in Thread : pc[t] = "store" => target[t] \notin clients

NewIsUnknown == \A c \in Client : NotRegisteredYet(c) => Unknown(c)

RegistryInv ==
  /\ RegistryTypes
  /\ TargetsMakeSense
  /\ NewIsUnknown
  /\ RegistryFrozenWhileRead
  /\ ClosedIsUnregistered

-----------------------------------------------------------------------------
(* Threads.                                                                *)

\* The threads of a client are told apart by their owner and their role.
LEMMA ThreadFacts ==
  /\ Acceptor \in Thread /\ Broadcaster \in Thread /\ Acceptor # Broadcaster
  /\ Owner(Acceptor) \notin Client /\ Owner(Broadcaster) \notin Client
  /\ \A c \in Client : /\ Reader(c) \in Thread /\ Waiter(c) \in Thread
                       /\ Owner(Reader(c)) = c /\ Owner(Waiter(c)) = c
                       /\ Reader(c) # Waiter(c)
  /\ \A c \in Client, k \in 1 .. MaxWants :
       /\ Replayer(c, k) \in Thread /\ Owner(Replayer(c, k)) = c
       /\ Replayer(c, k) # Reader(c)
  /\ \A t \in Replayers : t \in Thread /\ Owner(t) \in Client
<1>1. NoClient \notin Client
  BY HubAssumption
<1> QED
  BY <1>1
    DEF Acceptor, Broadcaster, Reader, Waiter, Replayer, Readers, Waiters, Replayers,
        Thread, Owner

\* Close returns to a place where its caller goes on, never to the start of one.
LEMMA AfterCloseLabel ==
  ASSUME NEW t
  PROVE  AfterClose(t) \in {"closeall", "done", "iterate", "top"}
BY DEF AfterClose

\* The same for the end of a range over the registry.
LEMMA AfterRangeLabel ==
  ASSUME NEW t
  PROVE  AfterRange(t) \in {"recv", "cache", "forward"}
BY DEF AfterRange

-----------------------------------------------------------------------------
\* Nobody is known, nobody closes and no range is under way at the start.
LEMMA InitRegistry == Init => RegistryInv
<1> SUFFICES ASSUME Init PROVE RegistryInv
  OBVIOUS
<1>1. /\ pc \in [Thread -> Labels]
      /\ pc[Acceptor] = "accept"
      /\ \A t \in Thread : ~Closing(t) /\ (Owner(t) \in Client => pc[t] = "off")
  <2>1. pc \in [Thread -> {"accept", "recv", "off"}]
    BY DEF Init
  <2>2. pc[Acceptor] = "accept"
    BY ThreadFacts DEF Init
  <2>3. \A t \in Thread : Owner(t) \in Client => pc[t] = "off"
    BY ThreadFacts DEF Init
  <2> QED
    BY <2>1, <2>2, <2>3 DEF Labels, Closing
<1>2. RegistryTypes
  BY <1>1 DEF Init, RegistryTypes
<1>3. TargetsMakeSense
  BY <1>1 DEF TargetsMakeSense, Closing
<1>4. NewIsUnknown
  BY <1>1 DEF Init, NewIsUnknown, Unknown
<1> QED
  BY <1>2, <1>3, <1>4 DEF Init, RegistryInv, RegistryFrozenWhileRead, ClosedIsUnregistered

-----------------------------------------------------------------------------
(* The actions that change neither the registry nor who closes whom: the   *)
(* thread they move is one that runs already.                              *)

regVars == <<clients, rlocked, target, todo, conn, once>>

\* A step that only moves a running thread from one quiet place to another.
LEMMA MoveKeepsRegistry ==
  ASSUME RegistryInv, NEW t \in Thread, NEW label \in Labels,
         pc[t] # "off", label \notin {"register", "start", "close", "unregister", "store"},
         Goto(t, label), UNCHANGED regVars
  PROVE  RegistryInv'
<1>1. RegistryTypes'
  BY DEF RegistryInv, RegistryTypes, Goto, regVars
<1>2. TargetsMakeSense'
  BY ThreadFacts DEF RegistryInv, RegistryTypes, TargetsMakeSense, Closing, Goto, regVars
<1>3. NewIsUnknown'
  BY ThreadFacts
    DEF RegistryInv, RegistryTypes, NewIsUnknown, NotRegisteredYet, Unknown, Closing,
        Goto, regVars
<1> QED
  BY <1>1, <1>2, <1>3
    DEF RegistryInv, RegistryFrozenWhileRead, ClosedIsUnregistered, regVars

\* A step that leaves threads and registry alone.
LEMMA QuietKeepsRegistry ==
  ASSUME RegistryInv, UNCHANGED pc, UNCHANGED regVars
  PROVE  RegistryInv'
BY
  DEF RegistryInv, RegistryTypes, TargetsMakeSense, NewIsUnknown, NotRegisteredYet,
      Unknown, Closing, RegistryFrozenWhileRead, ClosedIsUnregistered, regVars

\* A running thread begins to close a client somebody knows of.
LEMMA BeginCloseKeepsRegistry ==
  ASSUME RegistryInv, NEW t \in Thread, NEW c \in Client,
         pc[t] # "off", ~NotRegisteredYet(c),
         Goto(t, "close"), target' = [target EXCEPT ![t] = c],
         t = Acceptor => pc[t] \notin {"register", "start"},
         todo' \in [Thread -> SUBSET Client], \A u \in Thread : todo'[u] \subseteq todo[u],
         UNCHANGED <<clients, rlocked, conn, once>>
  PROVE  RegistryInv'
<1>1. RegistryTypes'
  BY DEF RegistryInv, RegistryTypes, Goto, Labels
<1>2. TargetsMakeSense'
  BY ThreadFacts DEF RegistryInv, RegistryTypes, TargetsMakeSense, Closing, Goto
<1>3. NewIsUnknown'
  BY ThreadFacts
    DEF RegistryInv, RegistryTypes, NewIsUnknown, NotRegisteredYet, Unknown, Closing,
        Goto
<1>4. RegistryFrozenWhileRead'
  BY DEF RegistryInv, RegistryTypes, RegistryFrozenWhileRead
<1> QED
  BY <1>1, <1>2, <1>3, <1>4 DEF RegistryInv, ClosedIsUnregistered

-----------------------------------------------------------------------------
(* The actions that change what the invariant speaks of.                   *)

\* Close: the first caller closes the connection, a later one returns.
LEMMA CloseBeginStep ==
  ASSUME RegistryInv, NEW t \in Thread, CloseBegin(t)
  PROVE  RegistryInv'
<1>1. RegistryTypes'
  BY ThreadFacts, AfterCloseLabel
    DEF RegistryInv, RegistryTypes, TargetsMakeSense, Closing, Labels, CloseBegin,
        CloseReturns, ConnClosed, Goto, registryVars, lockVars
<1>2. TargetsMakeSense'
  BY ThreadFacts, AfterCloseLabel
    DEF RegistryInv, RegistryTypes, TargetsMakeSense, Closing, NewIsUnknown,
        NotRegisteredYet, Unknown, CloseBegin, CloseReturns, ConnClosed, Goto,
        registryVars, lockVars
<1>3. NewIsUnknown'
  BY ThreadFacts, AfterCloseLabel
    DEF RegistryInv, RegistryTypes, TargetsMakeSense, NewIsUnknown, NotRegisteredYet,
        Unknown, Closing, CloseBegin, CloseReturns, ConnClosed, Goto, registryVars,
        lockVars
<1>4. RegistryFrozenWhileRead'
  BY ThreadFacts, AfterCloseLabel
    DEF RegistryInv, RegistryTypes, RegistryFrozenWhileRead, CloseBegin, CloseReturns,
        ConnClosed, Goto, registryVars, lockVars
<1>5. ClosedIsUnregistered'
  BY ThreadFacts, AfterCloseLabel
    DEF RegistryInv, RegistryTypes, ClosedIsUnregistered, TargetsMakeSense,
        NewIsUnknown, NotRegisteredYet, Unknown, Closing, CloseBegin, CloseReturns,
        ConnClosed, Goto, registryVars, lockVars
<1> QED
  BY <1>1, <1>2, <1>3, <1>4, <1>5 DEF RegistryInv

\* The removal from the registry excludes every range over it.
LEMMA UnregisterStep ==
  ASSUME RegistryInv, NEW t \in Thread, Unregister(t)
  PROVE  RegistryInv'
<1>1. RegistryTypes'
  BY ThreadFacts
    DEF RegistryInv, RegistryTypes, TargetsMakeSense, Closing, Labels, Unregister,
        Remaining, CanLock, Goto, connVars
<1>2. TargetsMakeSense'
  BY ThreadFacts
    DEF RegistryInv, RegistryTypes, TargetsMakeSense, Closing, NewIsUnknown,
        NotRegisteredYet, Unknown, Unregister, Remaining, CanLock, Goto, connVars
<1>3. NewIsUnknown'
  BY ThreadFacts
    DEF RegistryInv, RegistryTypes, TargetsMakeSense, NewIsUnknown, NotRegisteredYet,
        Unknown, Closing, Unregister, Remaining, CanLock, Goto, connVars
<1>4. RegistryFrozenWhileRead'
  BY ThreadFacts
    DEF RegistryInv, RegistryTypes, RegistryFrozenWhileRead, Unregister, Remaining,
        CanLock, Goto, connVars
<1>5. ClosedIsUnregistered'
  BY ThreadFacts
    DEF RegistryInv, RegistryTypes, ClosedIsUnregistered, TargetsMakeSense,
        NewIsUnknown, NotRegisteredYet, Unknown, Closing, Unregister, Remaining,
        CanLock, Goto, connVars
<1> QED
  BY <1>1, <1>2, <1>3, <1>4, <1>5 DEF RegistryInv

\* Only now closeOnce is done, and the client is out already.
LEMMA StoreCountStep ==
  ASSUME RegistryInv, NEW t \in Thread, StoreCount(t)
  PROVE  RegistryInv'
<1>1. RegistryTypes'
  BY ThreadFacts, AfterCloseLabel
    DEF RegistryInv, RegistryTypes, TargetsMakeSense, Closing, Labels, StoreCount,
        CloseReturns, Goto, lockVars
<1>2. TargetsMakeSense'
  BY ThreadFacts, AfterCloseLabel
    DEF RegistryInv, RegistryTypes, TargetsMakeSense, Closing, NewIsUnknown,
        NotRegisteredYet, Unknown, StoreCount, CloseReturns, Goto, lockVars
<1>3. NewIsUnknown'
  BY ThreadFacts, AfterCloseLabel
    DEF RegistryInv, RegistryTypes, TargetsMakeSense, NewIsUnknown, NotRegisteredYet,
        Unknown, Closing, StoreCount, CloseReturns, Goto, lockVars
<1>4. RegistryFrozenWhileRead'
  BY ThreadFacts, AfterCloseLabel
    DEF RegistryInv, RegistryTypes, RegistryFrozenWhileRead, StoreCount, CloseReturns,
        Goto, lockVars
<1>5. ClosedIsUnregistered'
  BY ThreadFacts, AfterCloseLabel
    DEF RegistryInv, RegistryTypes, ClosedIsUnregistered, TargetsMakeSense,
        NewIsUnknown, NotRegisteredYet, Unknown, Closing, StoreCount, CloseReturns,
        Goto, lockVars
<1> QED
  BY <1>1, <1>2, <1>3, <1>4, <1>5 DEF RegistryInv

\* A new connection is known to the acceptor alone.
LEMMA AcceptStep ==
  ASSUME RegistryInv, NEW c \in Client, AcceptConn(c)
  PROVE  RegistryInv'
<1>1. RegistryTypes'
  BY ThreadFacts
    DEF RegistryInv, RegistryTypes, TargetsMakeSense, Closing, Labels, AcceptConn, Goto,
        registryVars, lockVars
<1>2. TargetsMakeSense'
  BY ThreadFacts
    DEF RegistryInv, RegistryTypes, TargetsMakeSense, Closing, NewIsUnknown,
        NotRegisteredYet, Unknown, AcceptConn, Goto, registryVars, lockVars
<1>3. NewIsUnknown'
  BY ThreadFacts
    DEF RegistryInv, RegistryTypes, TargetsMakeSense, NewIsUnknown, NotRegisteredYet,
        Unknown, Closing, AcceptConn, Goto, registryVars, lockVars
<1>4. RegistryFrozenWhileRead'
  BY ThreadFacts
    DEF RegistryInv, RegistryTypes, RegistryFrozenWhileRead, AcceptConn, Goto,
        registryVars, lockVars
<1>5. ClosedIsUnregistered'
  BY ThreadFacts
    DEF RegistryInv, RegistryTypes, ClosedIsUnregistered, TargetsMakeSense,
        NewIsUnknown, NotRegisteredYet, Unknown, Closing, AcceptConn, Goto,
        registryVars, lockVars
<1> QED
  BY <1>1, <1>2, <1>3, <1>4, <1>5 DEF RegistryInv

\* A rejected connection is never heard of again.
LEMMA RejectStep ==
  ASSUME RegistryInv, RejectConn
  PROVE  RegistryInv'
<1>1. RegistryTypes'
  BY ThreadFacts
    DEF RegistryInv, RegistryTypes, TargetsMakeSense, Closing, Labels, RejectConn,
        ConnClosed, Goto, registryVars
<1>2. TargetsMakeSense'
  BY ThreadFacts
    DEF RegistryInv, RegistryTypes, TargetsMakeSense, Closing, NewIsUnknown,
        NotRegisteredYet, Unknown, RejectConn, ConnClosed, Goto, registryVars
<1>3. NewIsUnknown'
  BY ThreadFacts
    DEF RegistryInv, RegistryTypes, TargetsMakeSense, NewIsUnknown, NotRegisteredYet,
        Unknown, Closing, RejectConn, ConnClosed, Goto, registryVars
<1>4. RegistryFrozenWhileRead'
  BY ThreadFacts
    DEF RegistryInv, RegistryTypes, RegistryFrozenWhileRead, RejectConn, ConnClosed,
        Goto, registryVars
<1>5. ClosedIsUnregistered'
  BY ThreadFacts
    DEF RegistryInv, RegistryTypes, ClosedIsUnregistered, TargetsMakeSense,
        NewIsUnknown, NotRegisteredYet, Unknown, Closing, RejectConn, ConnClosed, Goto,
        registryVars
<1> QED
  BY <1>1, <1>2, <1>3, <1>4, <1>5 DEF RegistryInv

\* The client that enters the registry was unknown: nobody has closed it.
LEMMA RegisterStep ==
  ASSUME RegistryInv, RegisterClient
  PROVE  RegistryInv'
<1>1. RegistryTypes'
  BY ThreadFacts
    DEF RegistryInv, RegistryTypes, TargetsMakeSense, Closing, Labels, RegisterClient,
        CanLock, Goto, connVars
<1>2. TargetsMakeSense'
  BY ThreadFacts
    DEF RegistryInv, RegistryTypes, TargetsMakeSense, Closing, NewIsUnknown,
        NotRegisteredYet, Unknown, RegisterClient, CanLock, Goto, connVars
<1>3. NewIsUnknown'
  BY ThreadFacts
    DEF RegistryInv, RegistryTypes, TargetsMakeSense, NewIsUnknown, NotRegisteredYet,
        Unknown, Closing, RegisterClient, CanLock, Goto, connVars
<1>4. RegistryFrozenWhileRead'
  BY ThreadFacts
    DEF RegistryInv, RegistryTypes, RegistryFrozenWhileRead, RegisterClient, CanLock,
        Goto, connVars
<1>5. ClosedIsUnregistered'
  BY ThreadFacts
    DEF RegistryInv, RegistryTypes, ClosedIsUnregistered, TargetsMakeSense,
        NewIsUnknown, NotRegisteredYet, Unknown, Closing, RegisterClient, CanLock, Goto,
        connVars
<1> QED
  BY <1>1, <1>2, <1>3, <1>4, <1>5 DEF RegistryInv

\* The goroutines of the client start after its registration.
LEMMA StartStep ==
  ASSUME RegistryInv, StartClient
  PROVE  RegistryInv'
<1>1. RegistryTypes'
  BY ThreadFacts
    DEF RegistryInv, RegistryTypes, TargetsMakeSense, Closing, Labels, StartClient,
        lockVars
<1>2. TargetsMakeSense'
  BY ThreadFacts
    DEF RegistryInv, RegistryTypes, TargetsMakeSense, Closing, NewIsUnknown,
        NotRegisteredYet, Unknown, StartClient, lockVars
<1>3. NewIsUnknown'
  BY ThreadFacts
    DEF RegistryInv, RegistryTypes, TargetsMakeSense, NewIsUnknown, NotRegisteredYet,
        Unknown, Closing, StartClient, lockVars
<1>4. RegistryFrozenWhileRead'
  BY ThreadFacts
    DEF RegistryInv, RegistryTypes, RegistryFrozenWhileRead, StartClient, lockVars
<1>5. ClosedIsUnregistered'
  BY ThreadFacts
    DEF RegistryInv, RegistryTypes, ClosedIsUnregistered, TargetsMakeSense,
        NewIsUnknown, NotRegisteredYet, Unknown, Closing, StartClient, lockVars
<1> QED
  BY <1>1, <1>2, <1>3, <1>4, <1>5 DEF RegistryInv

\* closeAllClients copies the registry.
LEMMA BeginShutdownStep ==
  ASSUME RegistryInv, BeginShutdown
  PROVE  RegistryInv'
<1>1. RegistryTypes'
  BY ThreadFacts
    DEF RegistryInv, RegistryTypes, TargetsMakeSense, Closing, Labels, BeginShutdown,
        Goto, registryVars, lockVars, connVars
<1>2. TargetsMakeSense'
  BY ThreadFacts
    DEF RegistryInv, RegistryTypes, TargetsMakeSense, Closing, NewIsUnknown,
        NotRegisteredYet, Unknown, BeginShutdown, Goto, registryVars, lockVars, connVars
<1>3. NewIsUnknown'
  BY ThreadFacts
    DEF RegistryInv, RegistryTypes, TargetsMakeSense, NewIsUnknown, NotRegisteredYet,
        Unknown, Closing, BeginShutdown, Goto, registryVars, lockVars, connVars
<1>4. RegistryFrozenWhileRead'
  BY ThreadFacts
    DEF RegistryInv, RegistryTypes, RegistryFrozenWhileRead, BeginShutdown, Goto,
        registryVars, lockVars, connVars
<1>5. ClosedIsUnregistered'
  BY ThreadFacts
    DEF RegistryInv, RegistryTypes, ClosedIsUnregistered, TargetsMakeSense,
        NewIsUnknown, NotRegisteredYet, Unknown, Closing, BeginShutdown, Goto,
        registryVars, lockVars, connVars
<1> QED
  BY <1>1, <1>2, <1>3, <1>4, <1>5 DEF RegistryInv

\* A range over the registry begins.
LEMMA RLockStep ==
  ASSUME RegistryInv, NEW t \in Thread, RLock(t)
  PROVE  RegistryInv'
<1>1. RegistryTypes'
  BY ThreadFacts
    DEF RegistryInv, RegistryTypes, TargetsMakeSense, Closing, Labels, RLock,
        Recipients, Goto, registryVars, connVars
<1>2. TargetsMakeSense'
  BY ThreadFacts
    DEF RegistryInv, RegistryTypes, TargetsMakeSense, Closing, NewIsUnknown,
        NotRegisteredYet, Unknown, RLock, Recipients, Goto, registryVars, connVars
<1>3. NewIsUnknown'
  BY ThreadFacts
    DEF RegistryInv, RegistryTypes, TargetsMakeSense, NewIsUnknown, NotRegisteredYet,
        Unknown, Closing, RLock, Recipients, Goto, registryVars, connVars
<1>4. RegistryFrozenWhileRead'
  BY ThreadFacts
    DEF RegistryInv, RegistryTypes, RegistryFrozenWhileRead, RLock, Recipients, Goto,
        registryVars, connVars
<1>5. ClosedIsUnregistered'
  BY ThreadFacts
    DEF RegistryInv, RegistryTypes, ClosedIsUnregistered, TargetsMakeSense,
        NewIsUnknown, NotRegisteredYet, Unknown, Closing, RLock, Recipients, Goto,
        registryVars, connVars
<1> QED
  BY <1>1, <1>2, <1>3, <1>4, <1>5 DEF RegistryInv

\* It ends.
LEMMA RUnlockStep ==
  ASSUME RegistryInv, NEW t \in Thread, RUnlock(t)
  PROVE  RegistryInv'
<1>1. RegistryTypes'
  BY ThreadFacts, AfterRangeLabel
    DEF RegistryInv, RegistryTypes, TargetsMakeSense, Closing, Labels, RUnlock, Goto,
        registryVars, connVars
<1>2. TargetsMakeSense'
  BY ThreadFacts, AfterRangeLabel
    DEF RegistryInv, RegistryTypes, TargetsMakeSense, Closing, NewIsUnknown,
        NotRegisteredYet, Unknown, RUnlock, Goto, registryVars, connVars
<1>3. NewIsUnknown'
  BY ThreadFacts, AfterRangeLabel
    DEF RegistryInv, RegistryTypes, TargetsMakeSense, NewIsUnknown, NotRegisteredYet,
        Unknown, Closing, RUnlock, Goto, registryVars, connVars
<1>4. RegistryFrozenWhileRead'
  BY ThreadFacts, AfterRangeLabel
    DEF RegistryInv, RegistryTypes, RegistryFrozenWhileRead, RUnlock, Goto,
        registryVars, connVars
<1>5. ClosedIsUnregistered'
  BY ThreadFacts, AfterRangeLabel
    DEF RegistryInv, RegistryTypes, ClosedIsUnregistered, TargetsMakeSense,
        NewIsUnknown, NotRegisteredYet, Unknown, Closing, RUnlock, Goto, registryVars,
        connVars
<1> QED
  BY <1>1, <1>2, <1>3, <1>4, <1>5 DEF RegistryInv

\* A request starts a replay goroutine of a client that has a reader.
LEMMA ReadWantStep ==
  ASSUME RegistryInv, NEW c \in Client, NEW m \in ToRadio, ReadWant(c, m)
  PROVE  RegistryInv'
<1>1. RegistryTypes'
  BY ThreadFacts
    DEF RegistryInv, RegistryTypes, TargetsMakeSense, Closing, Labels, ReadWant,
        ReadsMessage, registryVars, lockVars, connVars
<1>2. TargetsMakeSense'
  BY ThreadFacts
    DEF RegistryInv, RegistryTypes, TargetsMakeSense, Closing, NewIsUnknown,
        NotRegisteredYet, Unknown, ReadWant, ReadsMessage, registryVars, lockVars,
        connVars
<1>3. NewIsUnknown'
  BY ThreadFacts
    DEF RegistryInv, RegistryTypes, TargetsMakeSense, NewIsUnknown, NotRegisteredYet,
        Unknown, Closing, ReadWant, ReadsMessage, registryVars, lockVars, connVars
<1>4. RegistryFrozenWhileRead'
  BY ThreadFacts
    DEF RegistryInv, RegistryTypes, RegistryFrozenWhileRead, ReadWant, ReadsMessage,
        registryVars, lockVars, connVars
<1>5. ClosedIsUnregistered'
  BY ThreadFacts
    DEF RegistryInv, RegistryTypes, ClosedIsUnregistered, TargetsMakeSense,
        NewIsUnknown, NotRegisteredYet, Unknown, Closing, ReadWant, ReadsMessage,
        registryVars, lockVars, connVars
<1> QED
  BY <1>1, <1>2, <1>3, <1>4, <1>5 DEF RegistryInv

\* The next client of a range is sent the frame or, its buffer being full, closed.
LEMMA SendNextStep ==
  ASSUME RegistryInv, NEW t \in Thread, SendNext(t)
  PROVE  RegistryInv'
<1>1. PICK c \in todo[t] : /\ todo' = [todo EXCEPT ![t] = @ \ {c}]
                           /\ Queue(t, c, "iterate") \/ Overflow(t, c)
  BY DEF SendNext
<1>2. /\ pc[t] = "iterate" /\ c \in Client /\ ~NotRegisteredYet(c)
      /\ todo' \in [Thread -> SUBSET Client] /\ \A u \in Thread : todo'[u] \subseteq todo[u]
      /\ UNCHANGED <<clients, rlocked, conn, once>>
  BY <1>1
    DEF SendNext, RegistryInv, RegistryTypes, NewIsUnknown, Unknown, registryVars,
        lockVars
<1>3. CASE Queue(t, c, "iterate")
  <2>1. pc' = pc /\ target' = target
    BY <1>2, <1>3 DEF Queue, Goto, RegistryInv, RegistryTypes
  <2> QED
    BY <1>2, <2>1
      DEF RegistryInv, RegistryTypes, TargetsMakeSense, NewIsUnknown, NotRegisteredYet,
          Unknown, Closing, RegistryFrozenWhileRead, ClosedIsUnregistered
<1>4. CASE Overflow(t, c)
  <2>1. Goto(t, "close") /\ target' = [target EXCEPT ![t] = c]
    BY <1>4 DEF Overflow
  <2> QED
    BY <1>2, <2>1, BeginCloseKeepsRegistry
<1> QED
  BY <1>1, <1>3, <1>4

\* closeAllClients goes on to the next client of its copy, or to wg.Wait.
LEMMA CloseNextStep ==
  ASSUME RegistryInv, CloseNext
  PROVE  RegistryInv'
<1>1. /\ pc[Acceptor] = "closeall" /\ Acceptor \in Thread
      /\ UNCHANGED <<clients, rlocked, conn, once>>
  BY ThreadFacts DEF CloseNext, registryVars, lockVars, connVars
<1>2. CASE todo[Acceptor] = {} /\ Goto(Acceptor, "wait") /\ UNCHANGED <<todo, target>>
  <2>1. UNCHANGED regVars /\ "wait" \in Labels
    BY <1>1, <1>2 DEF regVars, Labels
  <2> QED
    BY <1>1, <1>2, <2>1, MoveKeepsRegistry
<1>3. ASSUME NEW c \in todo[Acceptor],
             todo' = [todo EXCEPT ![Acceptor] = @ \ {c}],
             target' = [target EXCEPT ![Acceptor] = c],
             Goto(Acceptor, "close")
      PROVE  RegistryInv'
  <2>1. c \in Client /\ ~NotRegisteredYet(c)
    BY <1>1 DEF RegistryInv, RegistryTypes, NewIsUnknown, Unknown
  <2>2. todo' \in [Thread -> SUBSET Client] /\ \A u \in Thread : todo'[u] \subseteq todo[u]
    BY <1>1, <1>3 DEF RegistryInv, RegistryTypes
  <2> QED
    BY <1>1, <1>3, <2>1, <2>2, BeginCloseKeepsRegistry
<1> QED
  BY <1>2, <1>3 DEF CloseNext

\* A client's own goroutines close it: on disconnect, and when its loops end.
LEMMA OwnCloseStep ==
  ASSUME RegistryInv, NEW c \in Client,
         (\E m \in ToRadio : ReadDisconnect(c, m)) \/ WaiterCloses(c)
  PROVE  RegistryInv'
<1>1. PICK t \in {Reader(c), Waiter(c)} :
        /\ pc[t] # "off" /\ Goto(t, "close")
        /\ target' = [target EXCEPT ![t] = c]
        /\ UNCHANGED <<clients, rlocked, todo, conn, once>>
  BY DEF ReadDisconnect, ReadsMessage, WaiterCloses, registryVars, lockVars, connVars
<1>2. t \in Thread /\ Owner(t) = c /\ t # Acceptor
  BY ThreadFacts
<1>3. ~NotRegisteredYet(c)
  BY <1>1, <1>2 DEF RegistryInv, NewIsUnknown, Unknown
<1>4. todo' \in [Thread -> SUBSET Client]
  BY <1>1 DEF RegistryInv, RegistryTypes
<1> QED
  BY <1>1, <1>2, <1>3, <1>4, BeginCloseKeepsRegistry

\* A replay goroutine moves on, or closes the client it answers.
LEMMA ReplayStepKeeps ==
  ASSUME RegistryInv, NEW t \in Replayers, ReplayStep(t)
  PROVE  RegistryInv'
<1> DEFINE c == Owner(t)
<1>1. t \in Thread /\ c \in Client /\ t # Acceptor
  BY ThreadFacts
<1>2. ASSUME NEW label \in {"empty", "config", "chat", "done", "chatted"},
             Goto(t, label), pc[t] # "off", UNCHANGED regVars
      PROVE  RegistryInv'
  BY <1>1, <1>2, MoveKeepsRegistry DEF Labels
<1>3. CASE ReplayBegin(t)
  BY <1>2, <1>3 DEF ReplayBegin, regVars, registryVars, lockVars, connVars
<1>4. CASE ReplayChatBegin(t)
  BY <1>2, <1>4 DEF ReplayChatBegin, regVars, registryVars, lockVars, connVars
<1>5. CASE ReplayEnds(t)
  BY <1>2, <1>5 DEF ReplayEnds, regVars, registryVars, lockVars, connVars
<1>6. CASE ReplaySend(t)
  <2>1. /\ pc[t] \in {"config", "chat"}
        /\ Queue(t, c, pc[t]) \/ Overflow(t, c)
        /\ UNCHANGED <<clients, rlocked, todo, conn, once>>
    BY <1>6 DEF ReplaySend, registryVars, lockVars
  <2>2. CASE Queue(t, c, pc[t])
    BY <1>2, <2>1, <2>2 DEF Queue, regVars
  <2>3. CASE Overflow(t, c)
    <3>1. Goto(t, "close") /\ target' = [target EXCEPT ![t] = c]
      BY <2>3 DEF Overflow
    <3>2. ~NotRegisteredYet(c)
      BY <1>1, <2>1 DEF RegistryInv, NewIsUnknown, Unknown
    <3>3. todo' \in [Thread -> SUBSET Client]
      BY <2>1 DEF RegistryInv, RegistryTypes
    <3> QED
      BY <1>1, <2>1, <3>1, <3>2, <3>3, BeginCloseKeepsRegistry
  <2> QED
    BY <2>1, <2>2, <2>3
<1> QED
  BY <1>3, <1>4, <1>5, <1>6 DEF ReplayStep

\* The steps of a client's read loop that close nobody.
LEMMA ReaderStepKeeps ==
  ASSUME RegistryInv, NEW c \in Client,
         \/ ReaderStep(c) \/ ReadFails(c)
         \/ \E m \in ToRadio : ReadPacket(c, m) \/ ReadHeartbeat(c, m)
  PROVE  RegistryInv'
<1>1. Reader(c) \in Thread
  BY ThreadFacts
<1>2. PICK label \in {"done", "read", "rlock", "forward", "top"} : Goto(Reader(c), label)
  BY
    DEF ReaderStep, ReaderLoop, CacheOutgoing, ForwardToNode, ReadFails, ReadPacket,
        ReadHeartbeat, ReaderExits
<1>3. pc[Reader(c)] # "off"
  BY
    DEF ReaderStep, ReaderLoop, CacheOutgoing, ForwardToNode, ReadFails, ReadPacket,
        ReadHeartbeat, ReadsMessage
<1>4. UNCHANGED regVars
  BY
    DEF ReaderStep, ReaderLoop, CacheOutgoing, ForwardToNode, ReadFails, ReadPacket,
        ReadHeartbeat, regVars, registryVars, lockVars, connVars
<1> QED
  BY <1>1, <1>2, <1>3, <1>4, MoveKeepsRegistry DEF Labels

\* The steps of the write loop and of the environment.
LEMMA OtherStepKeeps ==
  ASSUME RegistryInv,
         \/ \E t \in Thread : LockWaits(t)
         \/ \E f \in NodeFrame : SuppressConfigFrame(f)
         \/ \E c \in Client : WriterStops(c) \/ WriteFrame(c) \/ WriteBlocks(c) \/ WriteUnblocks(c)
         \/ LearnNodeNum
         \/ \E cache \in Caches : ReplaceConfigCache(cache)
         \/ Cancel \/ Finished \/ UNCHANGED vars
  PROVE  RegistryInv'
<1>1. UNCHANGED pc /\ UNCHANGED regVars
  BY
    DEF LockWaits, SuppressConfigFrame, WriterStops, WriteFrame, WriteBlocks,
        WriteUnblocks, LearnNodeNum, ReplaceConfigCache, Cancel, Finished, vars,
        regVars, registryVars, lockVars, threadVars, connVars
<1> QED
  BY <1>1, QuietKeepsRegistry

-----------------------------------------------------------------------------
\* Every step keeps the invariant.
LEMMA StepRegistry == RegistryInv /\ [Next]_vars => RegistryInv'
<1> SUFFICES ASSUME RegistryInv, [Next]_vars PROVE RegistryInv'
  OBVIOUS
<1>1. ASSUME NEW t \in Thread, ThreadStep(t) PROVE RegistryInv'
  BY <1>1, CloseBeginStep, OtherStepKeeps, UnregisterStep, StoreCountStep, RLockStep,
     SendNextStep, RUnlockStep
    DEF ThreadStep
<1>2. CASE AcceptorStep
  <2>1. CASE RunReturns
    <3>1. /\ pc[Acceptor] # "off" /\ Goto(Acceptor, "returned") /\ UNCHANGED regVars
          /\ "returned" \in Labels
      BY <2>1 DEF RunReturns, regVars, registryVars, lockVars, connVars, Labels
    <3> QED
      BY <3>1, ThreadFacts, MoveKeepsRegistry
  <2> QED
    BY <1>2, <2>1, RejectStep, RegisterStep, StartStep, BeginShutdownStep, CloseNextStep
       DEF AcceptorStep
<1>3. ASSUME (\E f \in NodeFrame : ReceiveFrame(f)) \/ StopBroadcast PROVE RegistryInv'
  <2>1. PICK label \in {"rlock", "done"} : Goto(Broadcaster, label)
    BY <1>3 DEF ReceiveFrame, StopBroadcast
  <2>2. pc[Broadcaster] # "off" /\ UNCHANGED regVars
    BY <1>3 DEF ReceiveFrame, StopBroadcast, regVars, registryVars, lockVars, connVars
  <2> QED
    BY <2>1, <2>2, ThreadFacts, MoveKeepsRegistry DEF Labels
<1> QED
  BY <1>1, <1>2, <1>3, ReplayStepKeeps, AcceptStep, ReaderStepKeeps, ReadWantStep,
     OwnCloseStep, OtherStepKeeps
    DEF Next

\* The invariant of the registry.
THEOREM RegistryInvariance == Spec => []RegistryInv
BY InitRegistry, StepRegistry, PTL DEF Spec

\* Whatever clients, buffers and frames there are, no client is added to or
\* removed from p.clients while broadcast or broadcastToOthers ranges over it.
THEOREM RegistryFrozen == Spec => []RegistryFrozenWhileRead
<1>1. RegistryInv => RegistryFrozenWhileRead
  BY DEF RegistryInv
<1> QED
  BY <1>1, RegistryInvariance, PTL

\* However many threads race to close a client, it is out of p.clients for good
\* once closeOnce is done, and it is never registered after it was closed.
THEOREM ClosedStaysOut == Spec => []ClosedIsUnregistered
<1>1. RegistryInv => ClosedIsUnregistered
  BY DEF RegistryInv
<1> QED
  BY <1>1, RegistryInvariance, PTL

-----------------------------------------------------------------------------
(* Shutdown: what holds of the loops of a client when its waiter is done.  *)

\* handleNewConnection has the client, but has not started its goroutines.
Starting(c) == pc[Acceptor] \in {"register", "start"} /\ target[Acceptor] = c

\* The waiter of a client lives as long as its loops do, then closes it.
WaiterOutlivesLoops(c) ==
  /\ pc[Waiter(c)] \in {"off", "wait", "close", "unregister", "store", "done"}
  /\ pc[Waiter(c)] = "off" => pc[Reader(c)] = "off" /\ writer[c] = "off"
  /\ pc[Waiter(c)] \notin {"off", "wait"} => pc[Reader(c)] = "done" /\ writer[c] = "done"
  /\ Closing(Waiter(c)) => target[Waiter(c)] = c
  /\ pc[Waiter(c)] = "done" => once[c] = "done"

\* A client that is connected or registered has a waiter, or will have one.
WaiterExists(c) ==
  /\ Starting(c) => pc[Waiter(c)] = "off"
  /\ conn[c] = "open" \/ c \in clients => pc[Waiter(c)] # "off" \/ Starting(c)

\* Close closes the connection before anything else.
CloseClosesConn ==
  /\ \A c \in Client : once[c] # "new" => conn[c] = "closed"
  /\ \A t \in Thread : pc[t] \in {"unregister", "store"} => once[target[t]] # "new"

ShutdownInv ==
  /\ writer \in [Client -> {"off", "run", "blocked", "done"}]
  /\ \A c \in Client : WaiterOutlivesLoops(c)
  /\ \A c \in Client : WaiterExists(c)
  /\ CloseClosesConn
  /\ pc[Acceptor] = "returned" => AllClientsDone

\* The waiters are threads of their own, one per client.
LEMMA WaiterFacts ==
  /\ \A c, d \in Client : /\ Waiter(c) \in Waiters /\ Waiter(c) # Reader(d)
                          /\ Reader(c) \notin Waiters
                          /\ Waiter(c) = Waiter(d) => c = d
                          /\ Reader(c) = Reader(d) => c = d
                          /\ Role(Waiter(c)) = "waiter"
  /\ \A c \in Client : Waiter(c) # Acceptor /\ Reader(c) # Acceptor /\ Reader(c) # Broadcaster
  /\ \A t \in Waiters : t \in Thread /\ Owner(t) \in Client /\ t = Waiter(Owner(t))
  /\ Acceptor \notin Waiters /\ Broadcaster \notin Waiters
  /\ \A t \in Replayers : t \notin Waiters /\ t # Acceptor /\ \A c \in Client : t # Reader(c)
<1>1. NoClient \notin Client
  BY HubAssumption
<1> QED
  BY <1>1
    DEF Acceptor, Broadcaster, Reader, Waiter, Readers, Waiters, Replayers, Thread, Owner, Role

\* Nobody waits for anybody at the start.
LEMMA InitShutdown == Init => ShutdownInv
<1> SUFFICES ASSUME Init PROVE ShutdownInv
  OBVIOUS
<1>1. /\ pc[Acceptor] = "accept"
      /\ \A t \in Thread : pc[t] \in {"accept", "recv", "off"}
      /\ \A c \in Client : pc[Waiter(c)] = "off" /\ pc[Reader(c)] = "off"
  BY ThreadFacts, WaiterFacts DEF Init
<1> QED
  BY <1>1
    DEF Init, ShutdownInv, WaiterOutlivesLoops, WaiterExists, Starting, Closing, CloseClosesConn

\* What the step of a thread leaves alone of the others.
OthersStay(t) ==
  /\ pc' \in [Thread -> Labels] /\ \A u \in Thread \ {t} : pc'[u] = pc[u]
  /\ \A u \in Thread \ {t} : target'[u] = target[u]

\* A thread that is no waiter, and neither starts a client nor is inside Close,
\* moves on; it may begin to close a client.
LEMMA MoveKeepsShutdown ==
  ASSUME ShutdownInv, NEW t \in Thread \ Waiters, OthersStay(t),
         pc[t] \notin {"off", "done", "returned", "register", "start"},
         pc'[t] \notin {"register", "start", "returned", "unregister", "store"},
         clients' \subseteq clients, UNCHANGED <<conn, once, writer>>
  PROVE  ShutdownInv'
<1>1. \A c \in Client : WaiterOutlivesLoops(c)'
  <2> SUFFICES ASSUME NEW c \in Client PROVE WaiterOutlivesLoops(c)'
    OBVIOUS
  <2>1. pc'[Waiter(c)] = pc[Waiter(c)] /\ target'[Waiter(c)] = target[Waiter(c)]
    BY WaiterFacts DEF OthersStay
  <2>2. Reader(c) # t => pc'[Reader(c)] = pc[Reader(c)]
    BY ThreadFacts DEF OthersStay
  <2> QED
    BY <2>1, <2>2 DEF ShutdownInv, WaiterOutlivesLoops, Closing
<1>2. \A c \in Client : Starting(c)' <=> Starting(c)
  BY ThreadFacts DEF OthersStay, Starting
<1>3. \A c \in Client : WaiterExists(c)'
  BY <1>2, WaiterFacts DEF ShutdownInv, WaiterExists, OthersStay
<1>4. CloseClosesConn'
  BY DEF ShutdownInv, CloseClosesConn, OthersStay
<1>5. pc'[Acceptor] = "returned" => pc[Acceptor] = "returned"
  BY ThreadFacts DEF OthersStay
<1>6. AllClientsDone => AllClientsDone'
  BY WaiterFacts DEF AllClientsDone, OthersStay
<1> QED
  BY <1>1, <1>3, <1>4, <1>5, <1>6 DEF ShutdownInv

\* A step that leaves the threads alone; a write loop it ends was running.
LEMMA QuietKeepsShutdown ==
  ASSUME ShutdownInv, UNCHANGED <<pc, target, clients, conn, once>>,
         writer' \in [Client -> {"off", "run", "blocked", "done"}],
         \A c \in Client : writer'[c] = writer[c] \/ writer[c] \in {"run", "blocked"}
  PROVE  ShutdownInv'
<1>1. \A c \in Client : WaiterOutlivesLoops(c)'
  BY DEF ShutdownInv, WaiterOutlivesLoops, Closing
<1> QED
  BY <1>1
    DEF ShutdownInv, WaiterExists, Starting, CloseClosesConn, AllClientsDone

\* A thread at Close: it becomes the one that closes, or it returns.
LEMMA CloseBeginShutdown ==
  ASSUME RegistryInv, ShutdownInv, NEW t \in Thread, CloseBegin(t)
  PROVE  ShutdownInv'
<1> DEFINE d == target[t]
<1>0. pc[t] = "close" /\ d \in Client /\ UNCHANGED <<clients, writer>>
  BY DEF CloseBegin, RegistryInv, TargetsMakeSense, Closing, registryVars
<1>1. CASE /\ once[d] = "new" /\ once' = [once EXCEPT ![d] = "running"]
           /\ conn' = ConnClosed(d) /\ Goto(t, "unregister") /\ UNCHANGED target
  <2>1. OthersStay(t) /\ pc'[t] = "unregister"
    BY <1>1 DEF OthersStay, Goto, RegistryInv, RegistryTypes, Labels
  <2>2. once'[d] = "running" /\ conn'[d] = "closed"
        /\ \A c \in Client \ {d} : once'[c] = once[c] /\ conn'[c] = conn[c]
    BY <1>0, <1>1 DEF ConnClosed, RegistryInv, RegistryTypes
  <2>3. \A c \in Client : WaiterOutlivesLoops(c)'
    <3> SUFFICES ASSUME NEW c \in Client PROVE WaiterOutlivesLoops(c)'
      OBVIOUS
    <3>1. pc'[Reader(c)] = pc[Reader(c)] \/ (Reader(c) = t /\ pc[Reader(c)] = "close")
      BY <1>0, <2>1, ThreadFacts DEF OthersStay
    <3>2. \/ pc'[Waiter(c)] = pc[Waiter(c)]
          \/ pc[Waiter(c)] = "close" /\ pc'[Waiter(c)] = "unregister"
      BY <1>0, <2>1, WaiterFacts DEF OthersStay
    <3>3. once[c] = "done" => once'[c] = "done"
      BY <1>1, <2>2
    <3> QED
      BY <1>0, <1>1, <3>1, <3>2, <3>3 DEF ShutdownInv, WaiterOutlivesLoops, Closing
  <2>4. \A c \in Client : WaiterExists(c)'
    <3> SUFFICES ASSUME NEW c \in Client PROVE WaiterExists(c)'
      OBVIOUS
    <3>1. Starting(c)' <=> Starting(c)
      BY <1>0, <1>1, <2>1, ThreadFacts DEF OthersStay, Starting
    <3>2. pc'[Waiter(c)] = "off" <=> pc[Waiter(c)] = "off"
      BY <1>0, <2>1, WaiterFacts DEF OthersStay
    <3>3. conn'[c] = "open" => conn[c] = "open"
      BY <2>2
    <3> QED
      BY <1>0, <3>1, <3>2, <3>3 DEF ShutdownInv, WaiterExists
  <2>5. CloseClosesConn'
    <3>1. \A u \in Thread : pc[u] \in {"unregister", "store"} => target[u] \in Client
      BY DEF RegistryInv, TargetsMakeSense, Closing
    <3> QED
      BY <1>0, <1>1, <2>1, <2>2, <3>1 DEF ShutdownInv, CloseClosesConn, OthersStay
  <2>6. pc'[Acceptor] = "returned" => AllClientsDone'
    BY <1>0, <2>1, ThreadFacts, WaiterFacts DEF ShutdownInv, AllClientsDone, OthersStay
  <2> QED
    BY <1>0, <2>3, <2>4, <2>5, <2>6 DEF ShutdownInv
<1>2. CASE once[d] = "done" /\ CloseReturns(t) /\ UNCHANGED <<once, conn>>
  <2>1. OthersStay(t) /\ pc'[t] = AfterClose(t)
    BY <1>2, AfterCloseLabel DEF CloseReturns, OthersStay, Goto, RegistryInv, RegistryTypes, Labels
  <2>2. CASE t \notin Waiters
    BY <1>0, <1>2, <2>1, <2>2, AfterCloseLabel, MoveKeepsShutdown
  <2>3. CASE t \in Waiters
    <3> DEFINE c == Owner(t)
    <3>1. c \in Client /\ t = Waiter(c) /\ AfterClose(t) = "done"
      BY <2>3, WaiterFacts DEF AfterClose
    <3>2. d = c
      BY <1>0, <3>1 DEF ShutdownInv, WaiterOutlivesLoops, Closing
    <3> HIDE DEF c
    <3>3. \A b \in Client : pc'[Reader(b)] = pc[Reader(b)] /\ (b # c => pc'[Waiter(b)] = pc[Waiter(b)])
      BY <2>1, <3>1, ThreadFacts, WaiterFacts DEF OthersStay
    <3>4. \A b \in Client \ {c} : target'[Waiter(b)] = target[Waiter(b)]
      BY <2>1, <3>1, WaiterFacts DEF OthersStay
    <3>5. \A b \in Client : WaiterOutlivesLoops(b)'
      BY <1>0, <1>2, <2>1, <3>1, <3>2, <3>3, <3>4 DEF ShutdownInv, WaiterOutlivesLoops, Closing
    <3>6. pc'[Acceptor] = pc[Acceptor] /\ target'[Acceptor] = target[Acceptor]
      BY <2>1, <3>1, ThreadFacts, WaiterFacts DEF OthersStay
    <3>7. \A b \in Client : WaiterExists(b)'
      BY <1>0, <1>2, <2>1, <3>1, <3>3, <3>6 DEF ShutdownInv, WaiterExists, Starting
    <3>8. CloseClosesConn'
      BY <1>2, <2>1, <3>1 DEF ShutdownInv, CloseClosesConn, OthersStay
    <3>9. AllClientsDone => AllClientsDone'
      BY <2>1, <3>1, <3>3 DEF AllClientsDone
    <3> QED
      BY <1>0, <3>5, <3>6, <3>7, <3>8, <3>9 DEF ShutdownInv
  <2> QED
    BY <2>2, <2>3
<1> QED
  BY <1>1, <1>2 DEF CloseBegin

\* The thread that closes a client takes it out of the registry.
LEMMA UnregisterShutdown ==
  ASSUME RegistryInv, ShutdownInv, NEW t \in Thread, Unregister(t)
  PROVE  ShutdownInv'
<1>1. /\ pc[t] = "unregister" /\ Goto(t, "store") /\ clients' \subseteq clients
      /\ UNCHANGED <<target, conn, once, writer>>
  BY DEF Unregister, Remaining, connVars
<1>2. OthersStay(t) /\ pc'[t] = "store"
  BY <1>1 DEF OthersStay, Goto, RegistryInv, RegistryTypes, Labels
<1>3. \A c \in Client : /\ pc'[Reader(c)] = pc[Reader(c)]
                           \/ (pc[Reader(c)] = "unregister" /\ pc'[Reader(c)] = "store")
                        /\ pc'[Waiter(c)] = pc[Waiter(c)]
                           \/ (pc[Waiter(c)] = "unregister" /\ pc'[Waiter(c)] = "store")
  BY <1>1, <1>2, ThreadFacts, WaiterFacts DEF OthersStay
<1>4. pc'[Acceptor] = pc[Acceptor]
      \/ (pc[Acceptor] = "unregister" /\ pc'[Acceptor] = "store")
  BY <1>1, <1>2, ThreadFacts DEF OthersStay
<1>5. \A c \in Client : WaiterOutlivesLoops(c)'
  BY <1>1, <1>3 DEF ShutdownInv, WaiterOutlivesLoops, Closing
<1>6. \A c \in Client : WaiterExists(c)'
  BY <1>1, <1>3, <1>4 DEF ShutdownInv, WaiterExists, Starting
<1>7. CloseClosesConn'
  BY <1>1, <1>2 DEF ShutdownInv, CloseClosesConn, OthersStay
<1>8. pc'[Acceptor] = "returned" => AllClientsDone'
  BY <1>3, <1>4 DEF ShutdownInv, AllClientsDone
<1> QED
  BY <1>1, <1>5, <1>6, <1>7, <1>8 DEF ShutdownInv

\* It returns from Close: closeOnce is done.
LEMMA StoreCountShutdown ==
  ASSUME RegistryInv, ShutdownInv, NEW t \in Thread, StoreCount(t)
  PROVE  ShutdownInv'
<1> DEFINE d == target[t]
<1>0. /\ pc[t] = "store" /\ d \in Client /\ once' = [once EXCEPT ![d] = "done"]
      /\ CloseReturns(t) /\ UNCHANGED <<clients, writer, conn>>
  BY DEF StoreCount, RegistryInv, TargetsMakeSense, Closing
<1>1. once'[d] = "done" /\ \A c \in Client \ {d} : once'[c] = once[c]
  BY <1>0 DEF RegistryInv, RegistryTypes
<1>2. OthersStay(t) /\ pc'[t] = AfterClose(t)
  BY <1>0, AfterCloseLabel DEF CloseReturns, OthersStay, Goto, RegistryInv, RegistryTypes, Labels
<1>3. \A c \in Client : \/ pc'[Reader(c)] = pc[Reader(c)]
                        \/ pc[Reader(c)] = "store" /\ pc'[Reader(c)] # "off"
  BY <1>0, <1>2, AfterCloseLabel, ThreadFacts DEF OthersStay
<1>4. \A c \in Client : \/ /\ pc'[Waiter(c)] = pc[Waiter(c)]
                           /\ target'[Waiter(c)] = target[Waiter(c)]
                        \/ pc[Waiter(c)] = "store" /\ pc'[Waiter(c)] = "done" /\ d = c
  <2> SUFFICES ASSUME NEW c \in Client, Waiter(c) = t
               PROVE  pc[Waiter(c)] = "store" /\ pc'[Waiter(c)] = "done" /\ d = c
    BY <1>2, WaiterFacts DEF OthersStay
  <2>1. AfterClose(t) = "done"
    BY WaiterFacts DEF AfterClose
  <2>2. d = c
    BY <1>0 DEF ShutdownInv, WaiterOutlivesLoops, Closing
  <2> QED
    BY <1>0, <1>2, <2>1, <2>2
<1>5. \/ pc'[Acceptor] = pc[Acceptor] /\ target'[Acceptor] = target[Acceptor]
      \/ pc[Acceptor] = "store" /\ pc'[Acceptor] \notin {"register", "start", "returned"}
  BY <1>0, <1>2, AfterCloseLabel, ThreadFacts DEF OthersStay
<1>6. once[d] # "new"
  BY <1>0 DEF ShutdownInv, CloseClosesConn
<1> HIDE DEF d
<1>7. \A c \in Client : WaiterOutlivesLoops(c)'
  BY <1>0, <1>1, <1>3, <1>4 DEF ShutdownInv, WaiterOutlivesLoops, Closing
<1>8. \A c \in Client : WaiterExists(c)'
  BY <1>0, <1>4, <1>5 DEF ShutdownInv, WaiterExists, Starting
<1>9. CloseClosesConn'
  <2>1. \A c \in Client : once'[c] # "new" => once[c] # "new"
    BY <1>1, <1>6
  <2>2. \A u \in Thread : pc'[u] \in {"unregister", "store"} =>
           u # t /\ pc[u] \in {"unregister", "store"} /\ target[u] \in Client
    BY <1>2, AfterCloseLabel DEF OthersStay, RegistryInv, TargetsMakeSense, Closing
  <2>3. \A c \in Client : once[c] # "new" => once'[c] # "new"
    BY <1>1
  <2>4. \A u \in Thread : pc'[u] \in {"unregister", "store"} => once'[target'[u]] # "new"
    BY <1>2, <2>2, <2>3 DEF ShutdownInv, CloseClosesConn, OthersStay
  <2> QED
    BY <1>0, <2>1, <2>4 DEF ShutdownInv, CloseClosesConn
<1>10. pc'[Acceptor] = "returned" => AllClientsDone'
  BY <1>4, <1>5 DEF ShutdownInv, AllClientsDone
<1> QED
  BY <1>0, <1>7, <1>8, <1>9, <1>10 DEF ShutdownInv

\* The accept loop takes, rejects or registers a client, and returns from Run.
LEMMA AcceptorShutdown ==
  ASSUME RegistryInv, ShutdownInv,
         (\E c \in Client : AcceptConn(c)) \/ RejectConn \/ RegisterClient \/ RunReturns
  PROVE  ShutdownInv'
<1>1. /\ pc' \in [Thread -> Labels]
      /\ \A u \in Thread \ {Acceptor} : pc'[u] = pc[u] /\ target'[u] = target[u]
      /\ UNCHANGED <<once, writer>>
      /\ pc'[Acceptor] \in {"register", "accept", "start", "returned"}
  BY ThreadFacts
    DEF AcceptConn, RejectConn, RegisterClient, RunReturns, Goto, RegistryInv,
        RegistryTypes, Labels, connVars
<1>2. \A c \in Client : /\ pc'[Reader(c)] = pc[Reader(c)] /\ pc'[Waiter(c)] = pc[Waiter(c)]
                        /\ target'[Waiter(c)] = target[Waiter(c)]
  BY <1>1, ThreadFacts, WaiterFacts
<1>3. \A c \in Client : WaiterOutlivesLoops(c)'
  BY <1>1, <1>2 DEF ShutdownInv, WaiterOutlivesLoops, Closing
<1>4. \A c \in Client : WaiterExists(c)'
  <2>1. ASSUME NEW d \in Client, AcceptConn(d) PROVE \A c \in Client : WaiterExists(c)'
    <3>1. /\ conn[d] = "none" /\ target'[Acceptor] = d /\ pc'[Acceptor] = "register"
          /\ \A c \in Client \ {d} : conn'[c] = conn[c]
          /\ pc[Acceptor] = "accept" /\ clients' = clients
      BY <2>1, ThreadFacts DEF AcceptConn, Goto, RegistryInv, RegistryTypes, registryVars
    <3>2. pc[Waiter(d)] = "off" /\ d \notin clients
      BY <3>1, ThreadFacts DEF RegistryInv, NewIsUnknown, NotRegisteredYet, Unknown
    <3> QED
      BY <1>2, <3>1, <3>2 DEF ShutdownInv, WaiterExists, Starting
  <2>2. ASSUME RejectConn PROVE \A c \in Client : WaiterExists(c)'
    <3> DEFINE d == target[Acceptor]
    <3>1. /\ d \in Client /\ pc[Acceptor] = "register" /\ pc'[Acceptor] = "accept"
          /\ conn'[d] = "closed" /\ \A c \in Client \ {d} : conn'[c] = conn[c]
          /\ clients' = clients
      BY <2>2, ThreadFacts
        DEF RejectConn, Goto, ConnClosed, RegistryInv, RegistryTypes, TargetsMakeSense, registryVars
    <3>2. d \notin clients
      BY <3>1 DEF RegistryInv, NewIsUnknown, NotRegisteredYet, Unknown
    <3> QED
      BY <1>2, <3>1, <3>2 DEF ShutdownInv, WaiterExists, Starting
  <2>3. ASSUME RegisterClient PROVE \A c \in Client : WaiterExists(c)'
    <3>1. /\ pc[Acceptor] = "register" /\ pc'[Acceptor] = "start"
          /\ clients' = clients \cup {target[Acceptor]}
          /\ UNCHANGED <<target, conn>>
      BY <2>3, ThreadFacts DEF RegisterClient, Goto, RegistryInv, RegistryTypes, connVars
    <3> QED
      BY <1>2, <3>1 DEF ShutdownInv, WaiterExists, Starting
  <2>4. ASSUME RunReturns PROVE \A c \in Client : WaiterExists(c)'
    <3>1. /\ pc[Acceptor] = "wait" /\ pc'[Acceptor] = "returned"
          /\ UNCHANGED <<clients, conn>>
      BY <2>4, ThreadFacts DEF RunReturns, Goto, RegistryInv, RegistryTypes, registryVars, connVars
    <3> QED
      BY <1>2, <3>1 DEF ShutdownInv, WaiterExists, Starting
  <2> QED
    BY <2>1, <2>2, <2>3, <2>4
<1>5. CloseClosesConn'
  <2>1. \A c \in Client : once[c] # "new" => conn'[c] = "closed"
    <3>1. \A c \in Client : conn'[c] = "closed" \/ conn'[c] = conn[c] \/ conn[c] = "none"
      BY ThreadFacts
        DEF AcceptConn, RejectConn, RegisterClient, RunReturns, ConnClosed, RegistryInv,
            RegistryTypes, connVars
    <3> QED
      BY <3>1 DEF ShutdownInv, CloseClosesConn
  <2> QED
    BY <1>1, <2>1 DEF ShutdownInv, CloseClosesConn
<1>6. pc'[Acceptor] = "returned" => AllClientsDone'
  <2>1. pc'[Acceptor] = "returned" => AllClientsDone
    BY ThreadFacts DEF AcceptConn, RejectConn, RegisterClient, RunReturns, Goto, RegistryInv, RegistryTypes
  <2> QED
    BY <1>2, <2>1 DEF AllClientsDone
<1> QED
  BY <1>1, <1>3, <1>4, <1>5, <1>6 DEF ShutdownInv

\* The loops of a registered client and their waiter are started together.
LEMMA StartShutdown ==
  ASSUME RegistryInv, ShutdownInv, StartClient
  PROVE  ShutdownInv'
<1>1. PICK d \in Client :
        /\ target[Acceptor] = d /\ pc[Acceptor] = "start"
        /\ pc' = [pc EXCEPT ![Acceptor] = "accept", ![Reader(d)] = "top", ![Waiter(d)] = "wait"]
        /\ writer' = [writer EXCEPT ![d] = "run"]
        /\ target' = [target EXCEPT ![Acceptor] = NoClient]
        /\ UNCHANGED <<clients, conn, once>>
  BY DEF StartClient, RegistryInv, TargetsMakeSense
<1>2. /\ pc'[Acceptor] = "accept" /\ pc'[Reader(d)] = "top" /\ pc'[Waiter(d)] = "wait"
      /\ \A u \in Thread \ {Acceptor, Reader(d), Waiter(d)} : pc'[u] = pc[u]
  BY <1>1, ThreadFacts, WaiterFacts DEF RegistryInv, RegistryTypes
<1>3. /\ writer'[d] = "run" /\ \A c \in Client \ {d} : writer'[c] = writer[c]
      /\ writer' \in [Client -> {"off", "run", "blocked", "done"}]
  BY <1>1 DEF ShutdownInv
<1>4. \A u \in Thread \ {Acceptor} : target'[u] = target[u]
  BY <1>1 DEF RegistryInv, RegistryTypes
<1>5. target[Acceptor] = d /\ pc[Acceptor] = "start" /\ UNCHANGED <<clients, conn, once>>
  BY <1>1
<1>6. \A c \in Client \ {d} : /\ pc'[Reader(c)] = pc[Reader(c)] /\ pc'[Waiter(c)] = pc[Waiter(c)]
                              /\ target'[Waiter(c)] = target[Waiter(c)]
  BY <1>2, <1>4, ThreadFacts, WaiterFacts
<1>7. \A c \in Client : WaiterOutlivesLoops(c)'
  BY <1>2, <1>3, <1>5, <1>6 DEF ShutdownInv, WaiterOutlivesLoops, Closing
<1>8. \A c \in Client : WaiterExists(c)'
  BY <1>2, <1>5, <1>6 DEF ShutdownInv, WaiterExists, Starting
<1>9. CloseClosesConn'
  BY <1>2, <1>4, <1>5 DEF ShutdownInv, CloseClosesConn
<1> QED
  BY <1>2, <1>3, <1>7, <1>8, <1>9 DEF ShutdownInv

\* The waiter of a client closes it when both loops have ended.
LEMMA WaiterShutdown ==
  ASSUME RegistryInv, ShutdownInv, NEW c \in Client, WaiterCloses(c)
  PROVE  ShutdownInv'
<1>1. /\ pc[Waiter(c)] = "wait" /\ pc[Reader(c)] = "done" /\ writer[c] = "done"
      /\ pc'[Waiter(c)] = "close" /\ target'[Waiter(c)] = c /\ OthersStay(Waiter(c))
      /\ UNCHANGED <<clients, conn, once, writer>>
  BY ThreadFacts
    DEF WaiterCloses, LoopsFinished, Goto, OthersStay, RegistryInv, RegistryTypes, Labels,
        registryVars, connVars
<1>2. \A b \in Client : /\ pc'[Reader(b)] = pc[Reader(b)]
                        /\ b # c => pc'[Waiter(b)] = pc[Waiter(b)] /\ target'[Waiter(b)] = target[Waiter(b)]
  BY <1>1, ThreadFacts, WaiterFacts DEF OthersStay
<1>3. pc'[Acceptor] = pc[Acceptor] /\ target'[Acceptor] = target[Acceptor]
  BY <1>1, ThreadFacts, WaiterFacts DEF OthersStay
<1>4. \A b \in Client : WaiterOutlivesLoops(b)'
  BY <1>1, <1>2 DEF ShutdownInv, WaiterOutlivesLoops, Closing
<1>5. \A b \in Client : WaiterExists(b)'
  BY <1>1, <1>2, <1>3 DEF ShutdownInv, WaiterExists, Starting
<1>6. CloseClosesConn'
  BY <1>1 DEF ShutdownInv, CloseClosesConn, OthersStay
<1>7. pc[Acceptor] # "returned"
  BY <1>1 DEF ShutdownInv, AllClientsDone
<1> QED
  BY <1>1, <1>3, <1>4, <1>5, <1>6, <1>7 DEF ShutdownInv

\* A range over the registry, and the steps of the broadcast loop.
LEMMA RangeShutdown ==
  ASSUME RegistryInv, ShutdownInv, NEW t \in Thread, RLock(t) \/ SendNext(t) \/ RUnlock(t)
  PROVE  ShutdownInv'
<1>1. pc[t] \in {"rlock", "iterate"} /\ UNCHANGED <<clients, conn, once, writer>>
  BY DEF RLock, SendNext, RUnlock, registryVars, connVars
<1>2. t \notin Waiters
  BY <1>1, WaiterFacts DEF ShutdownInv, WaiterOutlivesLoops
<1>3. PICK label \in {"iterate", "close", "recv", "cache", "forward"} : Goto(t, label)
  BY AfterRangeLabel DEF RLock, SendNext, RUnlock, Queue, Overflow
<1>4. \A u \in Thread \ {t} : target'[u] = target[u]
  BY DEF RLock, SendNext, RUnlock, Queue, Overflow, RegistryInv, RegistryTypes
<1>5. OthersStay(t) /\ pc'[t] = label
  BY <1>3, <1>4 DEF OthersStay, Goto, RegistryInv, RegistryTypes, Labels
<1> QED
  BY <1>1, <1>2, <1>5, MoveKeepsShutdown

\* A replay goroutine moves on or begins to close its client.
LEMMA ReplayShutdown ==
  ASSUME RegistryInv, ShutdownInv, NEW t \in Replayers, ReplayStep(t)
  PROVE  ShutdownInv'
<1>1. pc[t] \in {"wait", "config", "chat"} /\ UNCHANGED <<clients, conn, once, writer>>
  BY DEF ReplayStep, ReplayBegin, ReplaySend, ReplayChatBegin, ReplayEnds, registryVars, connVars
<1>2. PICK label \in {"empty", "config", "chat", "done", "chatted", "close"} : Goto(t, label)
  BY <1>1
    DEF ReplayStep, ReplayBegin, ReplaySend, ReplayChatBegin, ReplayEnds, Queue, Overflow
<1>3. t \in Thread /\ t \notin Waiters
  BY ThreadFacts, WaiterFacts
<1>4. \A u \in Thread \ {t} : target'[u] = target[u]
  BY <1>3
    DEF ReplayStep, ReplayBegin, ReplaySend, ReplayChatBegin, ReplayEnds, Queue, Overflow,
        RegistryInv, RegistryTypes
<1>5. OthersStay(t) /\ pc'[t] = label
  BY <1>2, <1>3, <1>4 DEF OthersStay, Goto, RegistryInv, RegistryTypes, Labels
<1> QED
  BY <1>1, <1>3, <1>5, MoveKeepsShutdown

\* The broadcast loop receives a frame or stops; the accept loop closes the
\* clients one by one.
LEMMA LoopShutdown ==
  ASSUME RegistryInv, ShutdownInv,
         (\E f \in NodeFrame : ReceiveFrame(f)) \/ StopBroadcast \/ BeginShutdown \/ CloseNext
  PROVE  ShutdownInv'
<1>1. PICK t \in {Acceptor, Broadcaster}, label \in {"rlock", "done", "closeall", "close", "wait"} :
        /\ pc[t] \in {"recv", "accept", "closeall"} /\ Goto(t, label)
        /\ \A u \in Thread \ {t} : target'[u] = target[u]
  BY DEF ReceiveFrame, StopBroadcast, BeginShutdown, CloseNext, RegistryInv, RegistryTypes
<1>2. UNCHANGED <<clients, conn, once, writer>>
  BY DEF ReceiveFrame, StopBroadcast, BeginShutdown, CloseNext, registryVars, connVars
<1>3. t \in Thread /\ t \notin Waiters
  BY ThreadFacts, WaiterFacts
<1>4. OthersStay(t) /\ pc'[t] = label
  BY <1>1, <1>3 DEF OthersStay, Goto, RegistryInv, RegistryTypes, Labels
<1> QED
  BY <1>1, <1>2, <1>3, <1>4, MoveKeepsShutdown

\* The read loop of a client.
LEMMA ReaderShutdown ==
  ASSUME RegistryInv, ShutdownInv, NEW c \in Client,
         \/ ReaderStep(c) \/ ReadFails(c)
         \/ \E m \in ToRadio : ReadDisconnect(c, m) \/ ReadPacket(c, m) \/ ReadHeartbeat(c, m)
  PROVE  ShutdownInv'
<1>1. PICK label \in {"done", "read", "rlock", "forward", "top", "close"} : Goto(Reader(c), label)
  BY
    DEF ReaderStep, ReaderLoop, CacheOutgoing, ForwardToNode, ReadFails, ReadDisconnect,
        ReadPacket, ReadHeartbeat, ReaderExits
<1>2. pc[Reader(c)] \in {"top", "read", "cache", "forward"}
  BY
    DEF ReaderStep, ReaderLoop, CacheOutgoing, ForwardToNode, ReadFails, ReadDisconnect,
        ReadPacket, ReadHeartbeat, ReadsMessage
<1>3. UNCHANGED <<clients, conn, once, writer>>
  BY
    DEF ReaderStep, ReaderLoop, CacheOutgoing, ForwardToNode, ReadFails, ReadDisconnect,
        ReadPacket, ReadHeartbeat, registryVars, connVars
<1>4. \A u \in Thread \ {Reader(c)} : target'[u] = target[u]
  BY ThreadFacts
    DEF ReaderStep, ReaderLoop, CacheOutgoing, ForwardToNode, ReadFails, ReadDisconnect,
        ReadPacket, ReadHeartbeat, RegistryInv, RegistryTypes
<1>5. Reader(c) \in Thread \ Waiters
  BY ThreadFacts, WaiterFacts
<1>6. OthersStay(Reader(c)) /\ pc'[Reader(c)] = label
  BY <1>1, <1>4, <1>5 DEF OthersStay, Goto, RegistryInv, RegistryTypes, Labels
<1> QED
  BY <1>2, <1>3, <1>5, <1>6, MoveKeepsShutdown

\* It starts a replay goroutine.
LEMMA WantShutdown ==
  ASSUME RegistryInv, ShutdownInv, NEW c \in Client, NEW m \in ToRadio, ReadWant(c, m)
  PROVE  ShutdownInv'
<1>1. PICK k \in 1 .. MaxWants :
        pc' = [pc EXCEPT ![Reader(c)] = "top", ![Replayer(c, k)] = "wait"]
  BY DEF ReadWant
<1>2. pc[Reader(c)] = "read" /\ UNCHANGED <<target, clients, conn, once, writer>>
  BY DEF ReadWant, ReadsMessage, registryVars, connVars
<1>3. Replayer(c, k) \in Replayers
  BY DEF Replayer, Replayers
<1>4. pc' \in [Thread -> Labels]
  BY <1>1 DEF RegistryInv, RegistryTypes, Labels
<1>5. pc'[Reader(c)] = "top" /\ pc'[Replayer(c, k)] = "wait"
      /\ \A u \in Thread \ {Reader(c), Replayer(c, k)} : pc'[u] = pc[u]
  BY <1>1, <1>3, ThreadFacts DEF RegistryInv, RegistryTypes
<1>6. \A b \in Client : /\ pc'[Waiter(b)] = pc[Waiter(b)]
                        /\ b # c => pc'[Reader(b)] = pc[Reader(b)]
  BY <1>3, <1>5, ThreadFacts, WaiterFacts
<1>7. pc'[Acceptor] = pc[Acceptor]
  BY <1>3, <1>5, ThreadFacts, WaiterFacts
<1>8. \A b \in Client : WaiterOutlivesLoops(b)'
  BY <1>2, <1>5, <1>6 DEF ShutdownInv, WaiterOutlivesLoops, Closing
<1>9. \A b \in Client : WaiterExists(b)'
  BY <1>2, <1>6, <1>7 DEF ShutdownInv, WaiterExists, Starting
<1>10. CloseClosesConn'
  BY <1>2, <1>5 DEF ShutdownInv, CloseClosesConn
<1> QED
  BY <1>2, <1>6, <1>7, <1>8, <1>9, <1>10 DEF ShutdownInv, AllClientsDone

\* The write loop and the environment.
LEMMA OtherShutdown ==
  ASSUME ShutdownInv,
         \/ \E t \in Thread : LockWaits(t)
         \/ \E f \in NodeFrame : SuppressConfigFrame(f)
         \/ \E c \in Client : WriterStops(c) \/ WriteFrame(c) \/ WriteBlocks(c) \/ WriteUnblocks(c)
         \/ LearnNodeNum
         \/ \E cache \in Caches : ReplaceConfigCache(cache)
         \/ Cancel \/ Finished \/ UNCHANGED vars
  PROVE  ShutdownInv'
<1>1. UNCHANGED <<pc, target, clients, conn, once>>
  BY
    DEF LockWaits, SuppressConfigFrame, WriterStops, WriteFrame, WriteBlocks,
        WriteUnblocks, LearnNodeNum, ReplaceConfigCache, Cancel, Finished, vars,
        registryVars, threadVars, connVars
<1>2. /\ writer' \in [Client -> {"off", "run", "blocked", "done"}]
      /\ \A c \in Client : writer'[c] = writer[c] \/ writer[c] \in {"run", "blocked"}
  BY
    DEF LockWaits, SuppressConfigFrame, WriterStops, WriteFrame, WriteBlocks, WriterExits,
        WriteUnblocks, LearnNodeNum, ReplaceConfigCache, Cancel, Finished, vars,
        connVars, ShutdownInv
<1> QED
  BY <1>1, <1>2, QuietKeepsShutdown

\* Every step keeps the invariant of shutdown.
LEMMA StepShutdown == RegistryInv /\ ShutdownInv /\ [Next]_vars => ShutdownInv'
<1> SUFFICES ASSUME RegistryInv, ShutdownInv, [Next]_vars PROVE ShutdownInv'
  OBVIOUS
<1>1. ASSUME NEW t \in Thread, ThreadStep(t) PROVE ShutdownInv'
  BY <1>1, CloseBeginShutdown, OtherShutdown, UnregisterShutdown, StoreCountShutdown,
     RangeShutdown
    DEF ThreadStep
<1>2. CASE AcceptorStep
  BY <1>2, AcceptorShutdown, StartShutdown, LoopShutdown DEF AcceptorStep
<1>3. ASSUME NEW c \in Client, NEW m \in ToRadio,
             ReadWant(c, m) \/ ReadDisconnect(c, m) \/ ReadPacket(c, m) \/ ReadHeartbeat(c, m)
      PROVE  ShutdownInv'
  BY <1>3, WantShutdown, ReaderShutdown
<1> QED
  BY <1>1, <1>2, <1>3, ReplayShutdown, AcceptorShutdown, LoopShutdown, ReaderShutdown,
     WaiterShutdown, OtherShutdown
    DEF Next

\* When Proxy.Run returns nothing of any client is left: closeAllClients and
\* wg.Wait together reach every client that was ever accepted, also one that
\* was registered, rejected or closed by somebody else while they ran.
THEOREM ShutdownIsGraceful == Spec => []GracefulShutdown
<1>1. RegistryInv /\ ShutdownInv => GracefulShutdown
  <2> SUFFICES ASSUME RegistryInv, ShutdownInv, pc[Acceptor] = "returned"
               PROVE  /\ clients = {}
                      /\ \A c \in Client : /\ conn[c] # "open"
                                           /\ pc[Reader(c)] \in {"off", "done"}
                                           /\ writer[c] \in {"off", "done"}
    BY DEF GracefulShutdown
  <2>1. \A c \in Client : pc[Waiter(c)] \in {"off", "done"} /\ ~Starting(c)
    BY DEF ShutdownInv, AllClientsDone, Starting
  <2>2. \A c \in Client : /\ pc[Reader(c)] \in {"off", "done"} /\ writer[c] \in {"off", "done"}
                          /\ pc[Waiter(c)] = "done" => once[c] = "done"
    BY <2>1 DEF ShutdownInv, WaiterOutlivesLoops
  <2>3. \A c \in Client : conn[c] = "open" \/ c \in clients => once[c] = "done"
    BY <2>1, <2>2 DEF ShutdownInv, WaiterExists
  <2>4. \A c \in Client : once[c] = "done" => conn[c] = "closed" /\ c \notin clients
    BY DEF ShutdownInv, CloseClosesConn, RegistryInv, ClosedIsUnregistered
  <2> QED
    BY <2>2, <2>3, <2>4 DEF RegistryInv, RegistryTypes
<1> QED
  BY <1>1, InitShutdown, StepShutdown, RegistryInvariance, PTL DEF Spec

-----------------------------------------------------------------------------
(* ACKs: the text of a client is cached before the node can acknowledge it. *)

\* What a reader echoes is what it has read, and a reader inside broadcastToOthers
\* holds p.mu for reading.
EchoesInput(c) ==
  /\ Reader(c) \in rlocked => pc[Reader(c)] \in {"iterate", "close", "unregister", "store"}
  /\ pc[Reader(c)] \in {"rlock", "iterate"} \/ Reader(c) \in rlocked =>
       input[c] # <<>> /\ Head(out[Reader(c)]).kind = Head(input[c]).kind
  /\ pc[Reader(c)] = "cache" => input[c] # <<>> /\ Head(input[c]).kind = "text"
  /\ pc[Reader(c)] = "forward" => input[c] # <<>>

\* The text a client's reader is handling, if any.
HoldsText(c, m) == input[c] = <<m>> /\ m.kind = "text"

FromNode(id) == \E f \in NodeFrame : f.kind = "text" /\ f.id = id

ChatTypes ==
  /\ out = [t \in Thread |-> out[t]]
  /\ input \in [Client -> {<<>>} \cup {<<m>> : m \in Forwarded}]
  /\ texts \in [Client -> SUBSET Nat]
  /\ toNode \subseteq Forwarded /\ seen \subseteq NodeFrame
  /\ chatCache \in Seq(ChatEntry) /\ myNodeNum \in Nat
  /\ MaxChatCache = 0 => chatCache = <<>>

\* A text a reader handles is no other reader's and was not forwarded yet.
TextIsOwn(c, m) ==
  /\ m.id \in texts[c]
  /\ \A n \in toNode : n.kind = "text" => n.id # m.id
  /\ \A d \in Client \ {c}, n \in Forwarded : HoldsText(d, n) => n.id # m.id

\* Before its reader is past caching it, it is not cached.
NotCachedYet(c, m) ==
  pc[Reader(c)] # "forward" /\ m.id # 0 =>
    \A i \in DOMAIN chatCache : chatCache[i].message.id # m.id

TextsOnce ==
  /\ \A c \in Client, m \in Forwarded : HoldsText(c, m) => TextIsOwn(c, m) /\ NotCachedYet(c, m)
  /\ \A n \in toNode : n.kind = "text" => \E d \in Client : n.id \in texts[d]
  /\ \A i \in DOMAIN chatCache :
       LET id == chatCache[i].message.id IN FromNode(id) \/ \E d \in Client : id \in texts[d]
  /\ \A i, j \in DOMAIN chatCache :
       chatCache[i].message.id = chatCache[j].message.id /\ chatCache[i].message.id # 0 =>
         i = j \/ FromNode(chatCache[i].message.id)

\* The node acknowledges only what it was sent.
AckAfterForward == \A f \in seen : isRoutingACKFrame(f) => \E m \in toNode : m.id = f.id

ChatInv ==
  /\ ChatTypes
  /\ \A c \in Client : EchoesInput(c)
  /\ TextsOnce
  /\ AckAfterForward
  /\ AckFindsMessage

\* What cacheTextMessage leaves: the newest entries, the last of them the text.
LEMMA CachedText ==
  ASSUME NEW s \in Seq(ChatEntry), NEW f \in Frame, MaxChatCache = 0 => s = <<>>
  PROVE  LET r == cacheTextMessage(s, f)
             e == [message |-> f, ack |-> <<>>]
         IN  /\ r \in Seq(ChatEntry) /\ (MaxChatCache = 0 => r = <<>>)
             /\ \E k \in Nat : \A i \in DOMAIN r :
                  /\ i \in Nat /\ i + k \in 1 .. Len(s) + 1
                  /\ r[i] = IF i + k <= Len(s) THEN s[i + k] ELSE e
<1> DEFINE r == cacheTextMessage(s, f)
           e == [message |-> f, ack |-> <<>>]
           grown == Append(s, e)
           n == Len(grown)
<1>1. MaxChatCache \in Nat /\ Len(s) \in Nat
  BY HubAssumption, LenProperties
<1>2. e \in ChatEntry
  BY DEF ChatEntry
<1>3. /\ grown \in Seq(ChatEntry) /\ n = Len(s) + 1
      /\ \A i \in 1 .. n : grown[i] = IF i <= Len(s) THEN s[i] ELSE e
  <2> HIDE DEF e
  <2> QED
    BY <1>1, <1>2, AppendProperties
<1>4. r = IF MaxChatCache = 0 THEN s
          ELSE IF n > MaxChatCache THEN SubSeq(grown, n - MaxChatCache + 1, n) ELSE grown
  BY DEF cacheTextMessage
<1> HIDE DEF r, grown, n, e
<1>5. CASE MaxChatCache = 0
  <2>1. r = <<>> /\ r \in Seq(ChatEntry) /\ DOMAIN r = {} /\ 0 \in Nat
    BY <1>4, <1>5
  <2> QED
    BY <2>1 DEF r, e
<1>6. CASE MaxChatCache # 0 /\ ~(n > MaxChatCache)
  <2>1. r = grown
    BY <1>4, <1>6
  <2>2. DOMAIN r = 1 .. n /\ n \in Nat
    BY <1>1, <1>3, <2>1, LenProperties DEF n
  <2>3. \A i \in DOMAIN r : /\ i \in Nat /\ i + 0 \in 1 .. Len(s) + 1
                            /\ r[i] = IF i + 0 <= Len(s) THEN s[i + 0] ELSE e
    BY <1>1, <1>3, <2>1, <2>2
  <2> QED
    BY <1>3, <1>6, <2>1, <2>3 DEF r, e
<1>7. CASE MaxChatCache # 0 /\ n > MaxChatCache
  <2> DEFINE k == n - MaxChatCache
  <2>1. k \in Nat /\ n \in Nat /\ n = Len(s) + 1
    BY <1>1, <1>3, <1>7
  <2>2. r = SubSeq(grown, k + 1, n)
    BY <1>4, <1>7
  <2> HIDE DEF k
  <2>3. /\ r \in Seq(ChatEntry) /\ Len(r) = MaxChatCache
        /\ \A i \in 1 .. MaxChatCache : r[i] = grown[k + i]
    <3>1. k + 1 \in 1 .. n + 1 /\ n - (k + 1) + 1 = MaxChatCache /\ k + 1 \in Int
      BY <1>1, <1>7, <2>1 DEF k
    <3>2. k + 1 >= 1 /\ n <= Len(grown)
      BY <2>1 DEF n
    <3> QED
      BY <1>1, <1>3, <1>7, <2>1, <2>2, <3>1, <3>2, SubSeqProperties
  <2>4. DOMAIN r = 1 .. MaxChatCache
    BY <2>3, LenProperties
  <2>5. \A i \in DOMAIN r : /\ i \in Nat /\ i + k \in 1 .. Len(s) + 1
                            /\ r[i] = IF i + k <= Len(s) THEN s[i + k] ELSE e
    <3> SUFFICES ASSUME NEW i \in 1 .. MaxChatCache
                 PROVE  /\ i \in Nat /\ i + k \in 1 .. Len(s) + 1
                        /\ r[i] = IF i + k <= Len(s) THEN s[i + k] ELSE e
      BY <2>4
    <3>1. i \in Nat /\ i + k \in 1 .. n /\ k + i = i + k
      BY <1>1, <2>1 DEF k
    <3> QED
      BY <1>3, <2>1, <2>3, <3>1
  <2> QED
    BY <1>7, <2>1, <2>3, <2>5 DEF r, e
<1> QED
  BY <1>5, <1>6, <1>7

\* Caching a text that no ACK was received for, and whose id is new to the
\* cache or comes from the mesh, keeps the cache right.
LEMMA CacheTextKeeps ==
  ASSUME ChatTypes, TextsOnce, AckFindsMessage, NEW f \in Frame,
         chatCache' = cacheTextMessage(chatCache, f),
         f.id # 0 => FromNode(f.id) \/ \A i \in DOMAIN chatCache : chatCache[i].message.id # f.id,
         FromNode(f.id) \/ \E d \in Client : f.id \in texts'[d],
         \A d \in Client : texts[d] \subseteq texts'[d],
         \A g \in seen' : isRoutingACKFrame(g) => g \in seen /\ g.id # f.id
  PROVE  /\ chatCache' \in Seq(ChatEntry) /\ (MaxChatCache = 0 => chatCache' = <<>>)
         /\ \A i \in DOMAIN chatCache' :
              \/ chatCache'[i].message.id = f.id
              \/ \E j \in DOMAIN chatCache : chatCache'[i].message.id = chatCache[j].message.id
         /\ \A i \in DOMAIN chatCache' :
              LET id == chatCache'[i].message.id IN FromNode(id) \/ \E d \in Client : id \in texts'[d]
         /\ \A i, j \in DOMAIN chatCache' :
              chatCache'[i].message.id = chatCache'[j].message.id /\ chatCache'[i].message.id # 0 =>
                i = j \/ FromNode(chatCache'[i].message.id)
         /\ AckFindsMessage'
<1> DEFINE n == Len(chatCache)
           e == [message |-> f, ack |-> <<>>]
<1>1. /\ chatCache' \in Seq(ChatEntry) /\ (MaxChatCache = 0 => chatCache' = <<>>)
      /\ \E k \in Nat : \A i \in DOMAIN chatCache' :
           /\ i \in Nat /\ i + k \in 1 .. n + 1
           /\ chatCache'[i] = IF i + k <= n THEN chatCache[i + k] ELSE e
  BY CachedText DEF ChatTypes
<1>2. PICK k \in Nat : \A i \in DOMAIN chatCache' :
           /\ i \in Nat /\ i + k \in 1 .. n + 1
           /\ chatCache'[i] = IF i + k <= n THEN chatCache[i + k] ELSE e
  BY <1>1
<1>3. n \in Nat /\ DOMAIN chatCache = 1 .. n
  BY LenProperties DEF ChatTypes
<1> HIDE DEF n
<1>4. \A i \in DOMAIN chatCache' :
        /\ i \in Nat
        /\ \/ i + k \in DOMAIN chatCache /\ chatCache'[i] = chatCache[i + k]
           \/ i + k = n + 1 /\ chatCache'[i] = e
  BY <1>2, <1>3
<1>5. e.message = f
  OBVIOUS
<1> HIDE DEF e
<1>6. \A i \in DOMAIN chatCache' :
        LET id == chatCache'[i].message.id IN FromNode(id) \/ \E d \in Client : id \in texts'[d]
  BY <1>4, <1>5 DEF TextsOnce
<1>7. ASSUME NEW i \in DOMAIN chatCache', NEW j \in DOMAIN chatCache',
             chatCache'[i].message.id = chatCache'[j].message.id, chatCache'[i].message.id # 0
      PROVE  i = j \/ FromNode(chatCache'[i].message.id)
  <2>1. CASE i + k = n + 1 /\ j + k = n + 1
    BY <1>3, <1>4, <2>1
  <2>2. CASE i + k = n + 1 /\ chatCache'[i] = e /\ j + k \in DOMAIN chatCache /\ chatCache'[j] = chatCache[j + k]
    BY <1>5, <1>7, <2>2
  <2>3. CASE j + k = n + 1 /\ chatCache'[j] = e /\ i + k \in DOMAIN chatCache /\ chatCache'[i] = chatCache[i + k]
    BY <1>5, <1>7, <2>3
  <2>4. CASE /\ i + k \in DOMAIN chatCache /\ chatCache'[i] = chatCache[i + k]
             /\ j + k \in DOMAIN chatCache /\ chatCache'[j] = chatCache[j + k]
    <3>1. i + k = j + k \/ FromNode(chatCache'[i].message.id)
      BY <1>7, <2>4 DEF TextsOnce
    <3> QED
      BY <1>4, <3>1
  <2> QED
    BY <1>4, <2>1, <2>2, <2>3, <2>4
<1>8. AckFindsMessage'
  <2> SUFFICES ASSUME NEW i \in DOMAIN chatCache', NEW g \in seen',
                      isRoutingACKFrame(g), g.id = chatCache'[i].message.id
               PROVE  chatCache'[i].ack # <<>>
    BY DEF AckFindsMessage
  <2>1. g \in seen /\ g.id # f.id
    OBVIOUS
  <2>2. i + k \in DOMAIN chatCache /\ chatCache'[i] = chatCache[i + k]
    BY <1>4, <1>5, <2>1
  <2> QED
    BY <2>1, <2>2 DEF AckFindsMessage
<1>9. \A i \in DOMAIN chatCache' :
        \/ chatCache'[i].message.id = f.id
        \/ \E j \in DOMAIN chatCache : chatCache'[i].message.id = chatCache[j].message.id
  BY <1>4, <1>5
<1> QED
  BY <1>1, <1>6, <1>7, <1>8, <1>9

\* An ACK of what the node was sent finds the one entry it is for, or that
\* entry is acknowledged or gone.
LEMMA CacheAckKeeps ==
  ASSUME ChatTypes, TextsOnce, AckFindsMessage, NEW f \in NodeFrame, isRoutingACKFrame(f),
         \E m \in toNode : m.id = f.id,
         chatCache' = cacheACK(chatCache, f), seen' = seen \cup {f}
  PROVE  /\ chatCache' \in Seq(ChatEntry) /\ (MaxChatCache = 0 => chatCache' = <<>>)
         /\ DOMAIN chatCache' = DOMAIN chatCache
         /\ \A i \in DOMAIN chatCache : chatCache'[i].message = chatCache[i].message
         /\ AckFindsMessage'
<1> DEFINE n == Len(chatCache)
           open == {i \in DOMAIN chatCache : chatCache[i].message.id = f.id /\ chatCache[i].ack = <<>>}
<1>1. n \in Nat /\ DOMAIN chatCache = 1 .. n /\ \A i \in 1 .. n : chatCache[i] \in ChatEntry
  BY LenProperties, ElementOfSeq DEF ChatTypes
<1>2. ~FromNode(f.id) /\ f.id # 0
  <2>1. PICK m \in toNode : m.id = f.id
    OBVIOUS
  <2> QED
    BY <2>1, PacketIdAssumption DEF FromNode, ChatTypes, isRoutingACKFrame
<1>3. \A i, j \in open : i = j
  BY <1>2 DEF TextsOnce
<1>4. chatCache' = IF MaxChatCache = 0 \/ open = {} THEN chatCache
                   ELSE [chatCache EXCEPT ![CHOOSE i \in open : \A j \in open : j <= i].ack = <<f>>]
  BY DEF cacheACK
<1>5. CASE MaxChatCache = 0
  <2>1. chatCache' = <<>> /\ chatCache = <<>>
    BY <1>4, <1>5 DEF ChatTypes
  <2> QED
    BY <2>1 DEF AckFindsMessage
<1>6. CASE MaxChatCache # 0 /\ open = {}
  <2>1. chatCache' = chatCache
    BY <1>4, <1>6
  <2>2. \A i \in DOMAIN chatCache : chatCache[i].message.id = f.id => chatCache[i].ack # <<>>
    BY <1>6
  <2> QED
    BY <1>6, <2>1, <2>2 DEF AckFindsMessage, ChatTypes
<1>7. CASE MaxChatCache # 0 /\ open # {}
  <2>1. PICK k \in open : open = {k}
    BY <1>3, <1>7
  <2> HIDE DEF open
  <2>2. (CHOOSE i \in open : \A j \in open : j <= i) = k
    <3>1. k <= k /\ k \in 1 .. n
      BY <1>1 DEF open
    <3> QED
      BY <2>1, <3>1
  <2>3. chatCache' = [chatCache EXCEPT ![k] = [chatCache[k] EXCEPT !.ack = <<f>>]]
    BY <1>4, <1>7, <2>2
  <2> DEFINE e == [chatCache[k] EXCEPT !.ack = <<f>>]
  <2>4. k \in 1 .. n /\ chatCache[k] \in ChatEntry
    BY <1>1 DEF open
  <2>5. f \in Frame /\ <<f>> \in Seq(Frame) /\ <<f>> # <<>>
    BY FrameAssumption
  <2>6. e \in ChatEntry /\ e.message = chatCache[k].message /\ e.ack = <<f>>
    BY <2>4, <2>5 DEF ChatEntry
  <2> HIDE DEF e
  <2>7. /\ chatCache' \in [1 .. n -> ChatEntry] /\ chatCache'[k] = e
        /\ \A i \in 1 .. n : i # k => chatCache'[i] = chatCache[i]
    <3>1. chatCache \in [1 .. n -> ChatEntry]
      BY LenProperties DEF ChatTypes, n
    <3> QED
      BY <2>3, <2>4, <2>6, <3>1 DEF e
  <2>8. chatCache' \in Seq(ChatEntry) /\ DOMAIN chatCache' = DOMAIN chatCache
    BY <1>1, <2>7, IsASeq
  <2>9. \A i \in DOMAIN chatCache : chatCache'[i].message = chatCache[i].message
    BY <1>1, <2>6, <2>7
  <2>10. AckFindsMessage'
    <3> SUFFICES ASSUME NEW i \in DOMAIN chatCache, NEW g \in seen',
                        isRoutingACKFrame(g), g.id = chatCache'[i].message.id
                 PROVE  chatCache'[i].ack # <<>>
      BY <2>8 DEF AckFindsMessage
    <3>1. CASE i = k
      BY <2>5, <2>6, <2>7, <3>1
    <3>2. CASE i # k /\ g \in seen
      BY <1>1, <2>7, <3>2 DEF AckFindsMessage
    <3>3. CASE i # k /\ g = f
      BY <1>1, <2>1, <2>7, <3>3 DEF open
    <3> QED
      BY <3>1, <3>2, <3>3
  <2> QED
    BY <1>7, <2>8, <2>9, <2>10
<1> QED
  BY <1>5, <1>6, <1>7

\* Nothing is read, cached, forwarded or received at the start.
LEMMA InitChat == Init => ChatInv
<1> SUFFICES ASSUME Init PROVE ChatInv
  OBVIOUS
<1>1. \A c \in Client : pc[Reader(c)] = "off" /\ Reader(c) \notin rlocked
  BY ThreadFacts, WaiterFacts DEF Init
<1>2. /\ out = [t \in Thread |-> <<>>] /\ input = [c \in Client |-> <<>>]
      /\ chatCache = <<>> /\ myNodeNum = 0 /\ toNode = {} /\ seen = {}
      /\ texts = [c \in Client |-> {}]
  BY DEF Init
<1>3. ChatTypes
  <2>1. out = [t \in Thread |-> out[t]]
    BY <1>2
  <2>2. input \in [Client -> {<<>>} \cup {<<m>> : m \in Forwarded}]
    <3> DEFINE S == {<<m>> : m \in Forwarded}
    <3> HIDE DEF S
    <3>1. input \in [Client -> {<<>>} \cup S]
      BY <1>2
    <3> QED
      BY <3>1 DEF S
  <2>3. texts \in [Client -> SUBSET Nat]
    BY <1>2
  <2>4. chatCache \in Seq(ChatEntry)
    BY <1>2
  <2> QED
    BY <1>2, <2>1, <2>2, <2>3, <2>4 DEF ChatTypes
<1>4. \A c \in Client : EchoesInput(c)
  BY <1>1 DEF EchoesInput
<1>5. TextsOnce /\ AckAfterForward /\ AckFindsMessage
  <2>1. \A c \in Client, m \in Forwarded : ~HoldsText(c, m)
    BY <1>2 DEF HoldsText
  <2>2. DOMAIN chatCache = {}
    BY <1>2
  <2> QED
    BY <1>2, <2>1, <2>2 DEF TextsOnce, AckAfterForward, AckFindsMessage
<1> QED
  BY <1>3, <1>4, <1>5 DEF ChatInv

chatVars == <<input, texts, toNode, chatCache>>

\* A step of some threads that touches neither messages nor chat cache: only
\* the echo of a reader among them can be disturbed.
LEMMA ThreadsKeepChat ==
  ASSUME ChatInv, NEW T \in SUBSET Thread,
         \A u \in Thread \ T : pc'[u] = pc[u] /\ out'[u] = out[u] /\ (u \in rlocked' <=> u \in rlocked),
         out' = [u \in Thread |-> out'[u]],
         UNCHANGED chatVars, myNodeNum' \in Nat,
         seen' \subseteq NodeFrame, \A g \in seen' : isRoutingACKFrame(g) => g \in seen,
         \A c \in Client : Reader(c) \in T => EchoesInput(c)' /\ pc[Reader(c)] # "forward"
  PROVE  ChatInv'
<1>1. ChatTypes'
  BY DEF ChatInv, ChatTypes, chatVars
<1>2. ASSUME NEW c \in Client PROVE EchoesInput(c)'
  <2>1. CASE Reader(c) \in T
    BY <2>1
  <2>2. CASE Reader(c) \notin T
    <3>1. /\ pc'[Reader(c)] = pc[Reader(c)] /\ out'[Reader(c)] = out[Reader(c)]
          /\ Reader(c) \in rlocked' <=> Reader(c) \in rlocked
      BY <2>2, ThreadFacts
    <3> QED
      BY <3>1 DEF ChatInv, EchoesInput, chatVars
  <2> QED
    BY <2>1, <2>2
<1>3. \A c \in Client : pc[Reader(c)] = "forward" => pc'[Reader(c)] = "forward"
  BY ThreadFacts
<1>4. TextsOnce'
  <2>1. ASSUME NEW c \in Client, NEW m \in Forwarded, HoldsText(c, m)'
        PROVE  TextIsOwn(c, m)' /\ NotCachedYet(c, m)'
    <3>1. TextIsOwn(c, m) /\ NotCachedYet(c, m)
      BY <2>1 DEF ChatInv, TextsOnce, HoldsText, chatVars
    <3> QED
      BY <1>3, <3>1 DEF TextIsOwn, NotCachedYet, HoldsText, chatVars
  <2> QED
    BY <2>1 DEF ChatInv, TextsOnce, FromNode, chatVars
<1>5. AckAfterForward' /\ AckFindsMessage'
  BY DEF ChatInv, AckAfterForward, AckFindsMessage, chatVars
<1> QED
  BY <1>1, <1>2, <1>4, <1>5 DEF ChatInv

\* The same for a step of one thread that leaves the node alone.
LEMMA ThreadKeepsChat ==
  ASSUME RegistryInv, ChatInv, NEW t \in Thread, NEW label,
         Goto(t, label), out' = out \/ \E s : out' = [out EXCEPT ![t] = s],
         \A u \in Thread \ {t} : u \in rlocked' <=> u \in rlocked,
         UNCHANGED <<chatVars, myNodeNum, seen>>,
         \A c \in Client : Reader(c) = t => EchoesInput(c)' /\ pc[t] # "forward"
  PROVE  ChatInv'
<1>1. \A u \in Thread \ {t} : pc'[u] = pc[u]
  BY DEF Goto, RegistryInv, RegistryTypes
<1>2. out = [u \in Thread |-> out[u]]
  BY DEF ChatInv, ChatTypes
<1>3. out' = [u \in Thread |-> out'[u]] /\ \A u \in Thread \ {t} : out'[u] = out[u]
  <2>1. CASE out' = out
    BY <1>2, <2>1
  <2>2. ASSUME NEW s, out' = [out EXCEPT ![t] = s]
        PROVE  out' = [u \in Thread |-> out'[u]] /\ \A u \in Thread \ {t} : out'[u] = out[u]
    BY <1>2, <2>2
  <2> QED
    BY <2>1, <2>2
<1>4. seen' \subseteq NodeFrame /\ myNodeNum' \in Nat /\ UNCHANGED chatVars /\ seen' = seen
  BY DEF ChatInv, ChatTypes
<1>5. \A c \in Client : Reader(c) \in {t} => EchoesInput(c)' /\ pc[Reader(c)] # "forward"
  OBVIOUS
<1>6. \A u \in Thread \ {t} : pc'[u] = pc[u] /\ out'[u] = out[u] /\ (u \in rlocked' <=> u \in rlocked)
  BY <1>1, <1>3
<1>7. {t} \in SUBSET Thread /\ \A g \in seen' : isRoutingACKFrame(g) => g \in seen
  BY <1>4
<1> QED
  BY <1>3, <1>4, <1>5, <1>6, <1>7, ThreadsKeepChat

\* The steps of Close.
LEMMA CloseKeepsChat ==
  ASSUME RegistryInv, ChatInv, NEW t \in Thread, CloseBegin(t) \/ Unregister(t) \/ StoreCount(t)
  PROVE  ChatInv'
<1>1. PICK label \in {"unregister", "store", AfterClose(t)} : Goto(t, label)
  BY DEF CloseBegin, Unregister, StoreCount, CloseReturns
<1>2. /\ pc[t] \in {"close", "unregister", "store"}
      /\ UNCHANGED <<chatVars, myNodeNum, seen, rlocked, out>>
  BY DEF CloseBegin, Unregister, StoreCount, CloseReturns, chatVars, lockVars, nodeVars, inputVars
<1>3. ASSUME NEW c \in Client, Reader(c) = t PROVE EchoesInput(c)'
  <2>1. AfterClose(t) = IF t \in rlocked THEN "iterate" ELSE "top"
    BY <1>3 DEF AfterClose, Role, Reader
  <2>2. pc'[t] = label
    BY <1>1 DEF Goto, RegistryInv, RegistryTypes
  <2>3. EchoesInput(c)
    BY DEF ChatInv
  <2> QED
    BY <1>2, <1>3, <2>1, <2>2, <2>3 DEF EchoesInput, chatVars
<1> QED
  BY <1>1, <1>2, <1>3, ThreadKeepsChat

\* The steps of a range over the registry.
LEMMA RangeKeepsChat ==
  ASSUME RegistryInv, ChatInv, NEW t \in Thread, RLock(t) \/ SendNext(t) \/ RUnlock(t)
  PROVE  ChatInv'
<1>1. CASE RLock(t)
  <2>1. /\ pc[t] = "rlock" /\ Goto(t, "iterate") /\ rlocked' = rlocked \cup {t}
        /\ UNCHANGED <<chatVars, myNodeNum, seen, out>>
    BY <1>1 DEF RLock, chatVars, nodeVars, inputVars
  <2>2. pc'[t] = "iterate"
    BY <2>1 DEF Goto, RegistryInv, RegistryTypes
  <2>3. ASSUME NEW c \in Client, Reader(c) = t PROVE EchoesInput(c)'
    <3>1. EchoesInput(c)
      BY DEF ChatInv
    <3> QED
      BY <2>1, <2>2, <2>3, <3>1 DEF EchoesInput, chatVars
  <2> QED
    BY <2>1, <2>3, ThreadKeepsChat
<1>2. CASE SendNext(t)
  <2>1. PICK label \in {"iterate", "close"} : Goto(t, label)
    BY <1>2 DEF SendNext, Queue, Overflow
  <2>2. pc[t] = "iterate" /\ UNCHANGED <<chatVars, myNodeNum, seen, out, rlocked>>
    BY <1>2 DEF SendNext, chatVars, lockVars, nodeVars, inputVars
  <2>3. pc'[t] = label
    BY <2>1 DEF Goto, RegistryInv, RegistryTypes
  <2>4. ASSUME NEW c \in Client, Reader(c) = t PROVE EchoesInput(c)'
    <3>1. EchoesInput(c)
      BY DEF ChatInv
    <3> QED
      BY <2>2, <2>3, <2>4, <3>1 DEF EchoesInput, chatVars
  <2> QED
    BY <2>1, <2>2, <2>4, ThreadKeepsChat
<1>3. CASE RUnlock(t)
  <2>1. /\ pc[t] = "iterate" /\ Goto(t, AfterRange(t)) /\ rlocked' = rlocked \ {t}
        /\ out' = [out EXCEPT ![t] = <<>>]
        /\ UNCHANGED <<chatVars, myNodeNum, seen>>
    BY <1>3 DEF RUnlock, chatVars, nodeVars, inputVars
  <2>2. pc'[t] = AfterRange(t)
    BY <2>1 DEF Goto, RegistryInv, RegistryTypes
  <2>3. ASSUME NEW c \in Client, Reader(c) = t PROVE EchoesInput(c)'
    <3>1. input[c] # <<>> /\ Head(out[t]).kind = Head(input[c]).kind
      BY <2>1, <2>3 DEF ChatInv, EchoesInput
    <3>2. AfterRange(t) = IF Head(out[t]).kind = "text" THEN "cache" ELSE "forward"
      BY <2>3 DEF AfterRange, Role, Reader, isTextMessageFrame
    <3> QED
      BY <2>1, <2>2, <2>3, <3>1, <3>2 DEF EchoesInput, chatVars
  <2> QED
    BY <2>1, <2>3, ThreadKeepsChat
<1> QED
  BY <1>1, <1>2, <1>3

\* The threads that are no readers: the accept loop, the waiters, the replay
\* goroutines and the end of the broadcast loop.
LEMMA OtherThreadKeepsChat ==
  ASSUME RegistryInv, ChatInv,
         \/ \E c \in Client : AcceptConn(c) \/ WaiterCloses(c)
         \/ RejectConn \/ RegisterClient \/ BeginShutdown \/ CloseNext \/ RunReturns
         \/ StopBroadcast
         \/ \E t \in Replayers : ReplayStep(t)
  PROVE  ChatInv'
<1>1. UNCHANGED <<chatVars, myNodeNum, seen, rlocked>>
  BY
    DEF AcceptConn, WaiterCloses, RejectConn, RegisterClient, BeginShutdown, CloseNext,
        RunReturns, StopBroadcast, ReplayStep, ReplayBegin, ReplaySend, ReplayChatBegin,
        ReplayEnds, chatVars, lockVars, nodeVars, inputVars
<1>2. ASSUME NEW t \in Thread, NEW label, Goto(t, label), \A c \in Client : Reader(c) # t,
             out' = out \/ \E s : out' = [out EXCEPT ![t] = s]
      PROVE  ChatInv'
  BY <1>1, <1>2, ThreadKeepsChat
<1>3. CASE \/ \E c \in Client : AcceptConn(c)
           \/ RejectConn \/ RegisterClient \/ BeginShutdown \/ CloseNext \/ RunReturns
  <2>1. PICK label : Goto(Acceptor, label)
    BY <1>3 DEF AcceptConn, RejectConn, RegisterClient, BeginShutdown, CloseNext, RunReturns
  <2>2. out' = out
    BY <1>3 DEF AcceptConn, RejectConn, RegisterClient, BeginShutdown, CloseNext, RunReturns
  <2> QED
    BY <1>2, <2>1, <2>2, ThreadFacts, WaiterFacts
<1>4. ASSUME NEW c \in Client, WaiterCloses(c) PROVE ChatInv'
  <2>1. Goto(Waiter(c), "close") /\ out' = out
    BY <1>4 DEF WaiterCloses
  <2> QED
    BY <1>2, <2>1, ThreadFacts, WaiterFacts
<1>5. CASE StopBroadcast
  <2>1. Goto(Broadcaster, "done") /\ out' = out
    BY <1>5 DEF StopBroadcast
  <2> QED
    BY <1>2, <2>1, ThreadFacts, WaiterFacts
<1>6. ASSUME NEW t \in Replayers, ReplayStep(t) PROVE ChatInv'
  <2>1. PICK label : Goto(t, label)
    BY <1>6
      DEF ReplayStep, ReplayBegin, ReplaySend, ReplayChatBegin, ReplayEnds, Queue, Overflow
  <2>2. out' = out \/ \E s : out' = [out EXCEPT ![t] = s]
    BY <1>6 DEF ReplayStep, ReplayBegin, ReplaySend, ReplayChatBegin, ReplayEnds
  <2> QED
    BY <1>2, <2>1, <2>2, ThreadFacts, WaiterFacts
<1> QED
  BY <1>3, <1>4, <1>5, <1>6

\* Two or three threads move at once: a client is started, or a want_config_id
\* starts a replay goroutine.
LEMMA StartKeepsChat ==
  ASSUME RegistryInv, ShutdownInv, ChatInv,
         StartClient \/ \E c \in Client, m \in ToRadio : ReadWant(c, m)
  PROVE  ChatInv'
<1>1. UNCHANGED <<chatVars, myNodeNum, seen, rlocked, out>>
  BY DEF StartClient, ReadWant, chatVars, lockVars, nodeVars, inputVars
<1>2. PICK c \in Client, T \in SUBSET Thread :
        /\ pc[Reader(c)] \in {"off", "read"} /\ pc'[Reader(c)] = "top"
        /\ \A u \in Thread \ T : pc'[u] = pc[u]
        /\ \A d \in Client \ {c} : Reader(d) \notin T
  <2>1. CASE StartClient
    <3>1. PICK c \in Client :
            /\ target[Acceptor] = c /\ pc[Acceptor] = "start"
            /\ pc' = [pc EXCEPT ![Acceptor] = "accept", ![Reader(c)] = "top", ![Waiter(c)] = "wait"]
      BY <2>1 DEF StartClient, RegistryInv, TargetsMakeSense
    <3>2. pc[Reader(c)] = "off"
      BY <3>1 DEF ShutdownInv, WaiterExists, WaiterOutlivesLoops, Starting
    <3>3. {Acceptor, Reader(c), Waiter(c)} \in SUBSET Thread
      BY ThreadFacts
    <3>4. \A d \in Client \ {c} : Reader(d) \notin {Acceptor, Reader(c), Waiter(c)}
      BY ThreadFacts, WaiterFacts
    <3>5. pc'[Reader(c)] = "top" /\ \A u \in Thread \ {Acceptor, Reader(c), Waiter(c)} : pc'[u] = pc[u]
      BY <3>1, ThreadFacts, WaiterFacts DEF RegistryInv, RegistryTypes
    <3> QED
      BY <3>2, <3>3, <3>4, <3>5
  <2>2. ASSUME NEW c \in Client, NEW m \in ToRadio, ReadWant(c, m)
        PROVE  \E T \in SUBSET Thread :
                 /\ pc[Reader(c)] \in {"off", "read"} /\ pc'[Reader(c)] = "top"
                 /\ \A u \in Thread \ T : pc'[u] = pc[u]
                 /\ \A d \in Client \ {c} : Reader(d) \notin T
    <3>1. PICK k \in 1 .. MaxWants :
            pc' = [pc EXCEPT ![Reader(c)] = "top", ![Replayer(c, k)] = "wait"]
      BY <2>2 DEF ReadWant
    <3>2. pc[Reader(c)] = "read"
      BY <2>2 DEF ReadWant, ReadsMessage
    <3>3. Replayer(c, k) \in Replayers
      BY DEF Replayer, Replayers
    <3>4. {Reader(c), Replayer(c, k)} \in SUBSET Thread
      BY ThreadFacts
    <3>5. \A d \in Client \ {c} : Reader(d) \notin {Reader(c), Replayer(c, k)}
      BY <3>3, WaiterFacts
    <3>6. pc'[Reader(c)] = "top" /\ \A u \in Thread \ {Reader(c), Replayer(c, k)} : pc'[u] = pc[u]
      BY <3>1, ThreadFacts DEF RegistryInv, RegistryTypes
    <3> QED
      BY <3>2, <3>4, <3>5, <3>6
  <2> QED
    BY <2>1, <2>2
<1>3. EchoesInput(c)'
  <2>1. Reader(c) \notin rlocked
    BY <1>2 DEF ChatInv, EchoesInput
  <2> QED
    BY <1>1, <1>2, <2>1 DEF EchoesInput
<1>4. \A d \in Client : Reader(d) \in T => EchoesInput(d)' /\ pc[Reader(d)] # "forward"
  BY <1>2, <1>3
<1>5. /\ out' = [u \in Thread |-> out'[u]] /\ myNodeNum' \in Nat /\ seen' \subseteq NodeFrame
      /\ \A g \in seen' : isRoutingACKFrame(g) => g \in seen
      /\ UNCHANGED chatVars
  BY <1>1 DEF ChatInv, ChatTypes
<1>6. \A u \in Thread \ T : pc'[u] = pc[u] /\ out'[u] = out[u] /\ (u \in rlocked' <=> u \in rlocked)
  BY <1>1, <1>2
<1> QED
  BY <1>4, <1>5, <1>6, ThreadsKeepChat

\* The write loop and the environment; a suppressed config frame is no ACK.
LEMMA QuietKeepsChat ==
  ASSUME ChatInv,
         \/ \E t \in Thread : LockWaits(t)
         \/ \E f \in NodeFrame : SuppressConfigFrame(f)
         \/ \E c \in Client : WriterStops(c) \/ WriteFrame(c) \/ WriteBlocks(c) \/ WriteUnblocks(c)
         \/ LearnNodeNum
         \/ \E cache \in Caches : ReplaceConfigCache(cache)
         \/ Cancel \/ Finished \/ UNCHANGED vars
  PROVE  ChatInv'
<1>1. UNCHANGED <<chatVars, pc, out, rlocked>>
  BY
    DEF LockWaits, SuppressConfigFrame, WriterStops, WriteFrame, WriteBlocks,
        WriteUnblocks, LearnNodeNum, ReplaceConfigCache, Cancel, Finished, vars,
        chatVars, lockVars, threadVars, nodeVars, inputVars
<1>2. myNodeNum' \in Nat
  BY HubAssumption
    DEF LockWaits, SuppressConfigFrame, WriterStops, WriteFrame, WriteBlocks,
        WriteUnblocks, LearnNodeNum, ReplaceConfigCache, Cancel, Finished, vars,
        nodeVars, ChatInv, ChatTypes
<1>3. seen' = seen \/ \E f \in NodeFrame : isConfigFrame(f) /\ seen' = seen \cup {f}
  BY
    DEF LockWaits, SuppressConfigFrame, WriterStops, WriteFrame, WriteBlocks,
        WriteUnblocks, LearnNodeNum, ReplaceConfigCache, Cancel, Finished, vars, nodeVars
<1>4. seen' \subseteq NodeFrame /\ \A g \in seen' : isRoutingACKFrame(g) => g \in seen
  BY <1>3 DEF ChatInv, ChatTypes, isConfigFrame, ConfigKinds, isRoutingACKFrame
<1>5. out' = [u \in Thread |-> out'[u]] /\ UNCHANGED chatVars
  BY <1>1 DEF ChatInv, ChatTypes
<1>6. {} \in SUBSET Thread
      /\ \A u \in Thread \ {} : pc'[u] = pc[u] /\ out'[u] = out[u] /\ (u \in rlocked' <=> u \in rlocked)
      /\ \A c \in Client : Reader(c) \in {} => EchoesInput(c)' /\ pc[Reader(c)] # "forward"
  BY <1>1
<1> QED
  BY <1>2, <1>4, <1>5, <1>6, ThreadsKeepChat

\* The read loop of a client ends, goes round, or begins to close the client.
LEMMA ReaderKeepsChat ==
  ASSUME RegistryInv, ChatInv, NEW c \in Client,
         ReaderLoop(c) \/ ReadFails(c) \/ \E m \in ToRadio : ReadDisconnect(c, m)
  PROVE  ChatInv'
<1>1. PICK label \in {"done", "read", "close"} : Goto(Reader(c), label)
  BY DEF ReaderLoop, ReadFails, ReadDisconnect, ReaderExits
<1>2. /\ pc[Reader(c)] \in {"top", "read"}
      /\ UNCHANGED <<chatVars, myNodeNum, seen, rlocked, out>>
  BY
    DEF ReaderLoop, ReadFails, ReadDisconnect, ReadsMessage, chatVars, lockVars, nodeVars, inputVars
<1>3. Reader(c) \in Thread /\ pc'[Reader(c)] = label
  BY <1>1, ThreadFacts DEF Goto, RegistryInv, RegistryTypes
<1>4. EchoesInput(c)
  BY DEF ChatInv
<1>5. \A d \in Client : Reader(d) = Reader(c) => EchoesInput(d)' /\ pc[Reader(c)] # "forward"
  <2>1. EchoesInput(c)'
    BY <1>2, <1>3, <1>4 DEF EchoesInput
  <2> QED
    BY <1>2, <2>1, WaiterFacts
<1> QED
  BY <1>1, <1>2, <1>3, <1>5, ThreadKeepsChat

\* What a reader holds is nothing or one message that is forwarded.
LEMMA InputFacts ==
  ASSUME ChatTypes, NEW c \in Client
  PROVE  /\ input[c] # <<>> => \E m \in Forwarded : input[c] = <<m>>
         /\ \A m, n \in Forwarded : input[c] = <<m>> /\ input[c] = <<n>> => m = n
         /\ \A m \in Forwarded : input[c] = <<m>> => Head(input[c]) = m /\ input[c] # <<>>
<1>1. input[c] \in {<<>>} \cup {<<m>> : m \in Forwarded}
  BY DEF ChatTypes
<1>2. \A m, n : <<m>> = <<n>> => m = n
  OBVIOUS
<1>3. \A m : Head(<<m>>) = m /\ <<m>> # <<>>
  OBVIOUS
<1> QED
  BY <1>1, <1>2, <1>3

\* A reader takes the message it read.
LEMMA InputTaken ==
  ASSUME ChatTypes, NEW c \in Client, NEW x \in {<<>>} \cup {<<m>> : m \in Forwarded},
         input' = [input EXCEPT ![c] = x]
  PROVE  /\ input' \in [Client -> {<<>>} \cup {<<m>> : m \in Forwarded}]
         /\ input'[c] = x /\ \A d \in Client \ {c} : input'[d] = input[d]
<1> DEFINE S == {<<>>} \cup {<<m>> : m \in Forwarded}
<1>1. input \in [Client -> S] /\ x \in S
  BY DEF ChatTypes
<1> HIDE DEF S
<1>2. input' \in [Client -> S] /\ input'[c] = x /\ \A d \in Client \ {c} : input'[d] = input[d]
  BY <1>1
<1> QED
  BY <1>2 DEF S

\* A text, another packet or a heartbeat is read: a text with an id nobody used.
LEMMA ReadKeepsChat ==
  ASSUME RegistryInv, ChatInv, NEW c \in Client, NEW m \in ToRadio,
         ReadPacket(c, m) \/ ReadHeartbeat(c, m)
  PROVE  ChatInv'
<1>1. /\ pc[Reader(c)] = "read" /\ input' = [input EXCEPT ![c] = <<m>>] /\ m \in Forwarded
      /\ UNCHANGED <<toNode, seen, chatCache, myNodeNum, rlocked>>
  BY DEF ReadPacket, ReadHeartbeat, ReadsMessage, Forwarded, lockVars, nodeVars
<1>2. /\ texts' \in [Client -> SUBSET Nat] /\ \A d \in Client : texts[d] \subseteq texts'[d]
      /\ m.kind = "text" => m.id \in texts'[c] /\ \A d \in Client : m.id \notin texts[d]
  <2>1. m.id \in Nat
    BY FrameAssumption DEF ToRadioMsg
  <2>2. texts \in [Client -> SUBSET Nat]
    BY DEF ChatInv, ChatTypes
  <2>3. CASE ReadHeartbeat(c, m)
    BY <2>2, <2>3 DEF ReadHeartbeat
  <2>4. CASE ReadPacket(c, m)
    BY <2>1, <2>2, <2>4 DEF ReadPacket
  <2> QED
    BY <2>3, <2>4
<1>3. /\ input' \in [Client -> {<<>>} \cup {<<n>> : n \in Forwarded}]
      /\ input'[c] = <<m>> /\ \A d \in Client \ {c} : input'[d] = input[d]
  <2>1. <<m>> \in {<<>>} \cup {<<n>> : n \in Forwarded}
    BY <1>1
  <2> QED
    BY <1>1, <2>1, InputTaken DEF ChatInv
<1>4. /\ out' = [u \in Thread |-> out'[u]] /\ \A u \in Thread \ {Reader(c)} : out'[u] = out[u] /\ pc'[u] = pc[u]
      /\ \/ pc'[Reader(c)] = "forward"
         \/ pc'[Reader(c)] = "rlock" /\ out'[Reader(c)] = <<toRadioToFromRadio(m, myNodeNum)>>
  <2>1. out = [u \in Thread |-> out[u]] /\ Reader(c) \in Thread
    BY ThreadFacts DEF ChatInv, ChatTypes
  <2>2. CASE ReadHeartbeat(c, m)
    BY <2>1, <2>2 DEF ReadHeartbeat, Goto, RegistryInv, RegistryTypes
  <2>3. CASE ReadPacket(c, m)
    BY <2>1, <2>3 DEF ReadPacket, Goto, RegistryInv, RegistryTypes
  <2> QED
    BY <2>2, <2>3
<1>5. ChatTypes'
  BY <1>1, <1>2, <1>3, <1>4 DEF ChatInv, ChatTypes
<1>6. ASSUME NEW d \in Client PROVE EchoesInput(d)'
  <2>1. CASE d = c
    <3>1. Reader(c) \notin rlocked
      BY <1>1 DEF ChatInv, EchoesInput
    <3>2. <<m>> # <<>> /\ Head(<<m>>) = m
      OBVIOUS
    <3>3. Head(<<toRadioToFromRadio(m, myNodeNum)>>).kind = m.kind
      BY DEF toRadioToFromRadio, FrameOf
    <3> QED
      BY <1>1, <1>3, <1>4, <2>1, <3>1, <3>2, <3>3 DEF EchoesInput
  <2>2. CASE d # c
    <3>1. Reader(d) # Reader(c) /\ Reader(d) \in Thread
      BY <2>2, ThreadFacts, WaiterFacts
    <3> QED
      BY <1>1, <1>3, <1>4, <2>2, <3>1 DEF ChatInv, EchoesInput
  <2> QED
    BY <2>1, <2>2
<1>7. ASSUME NEW d \in Client, NEW n \in Forwarded, HoldsText(d, n)'
      PROVE  TextIsOwn(d, n)' /\ NotCachedYet(d, n)'
  <2>1. CASE d = c
    <3>1. n = m /\ m.kind = "text"
      <4>1. \A a, b : <<a>> = <<b>> => a = b
        OBVIOUS
      <4> QED
        BY <1>3, <1>7, <2>1, <4>1 DEF HoldsText
    <3>2. \A k \in toNode : k.kind = "text" => k.id # m.id
      BY <1>2, <3>1 DEF ChatInv, TextsOnce
    <3>3. \A b \in Client \ {c}, k \in Forwarded : HoldsText(b, k)' => k.id # m.id
      <4> SUFFICES ASSUME NEW b \in Client \ {c}, NEW k \in Forwarded, HoldsText(b, k)'
                   PROVE  k.id # m.id
        OBVIOUS
      <4>1. HoldsText(b, k)
        BY <1>3 DEF HoldsText
      <4>2. k.id \in texts[b]
        BY <4>1 DEF ChatInv, TextsOnce, TextIsOwn
      <4> QED
        BY <1>2, <3>1, <4>2
    <3>4. TextIsOwn(d, n)'
      BY <1>1, <1>2, <2>1, <3>1, <3>2, <3>3 DEF TextIsOwn
    <3>5. m.id # 0 => \A i \in DOMAIN chatCache : chatCache[i].message.id # m.id
      <4>1. m.id # 0 => ~FromNode(m.id)
        BY <1>1, PacketIdAssumption DEF FromNode
      <4> QED
        BY <1>2, <3>1, <4>1 DEF ChatInv, TextsOnce
    <3> QED
      BY <1>1, <3>1, <3>4, <3>5 DEF NotCachedYet
  <2>2. CASE d # c
    <3>1. HoldsText(d, n)
      BY <1>3, <1>7, <2>2 DEF HoldsText
    <3>2. TextIsOwn(d, n) /\ NotCachedYet(d, n)
      BY <3>1 DEF ChatInv, TextsOnce
    <3>3. \A b \in Client \ {d}, k \in Forwarded : HoldsText(b, k)' => k.id # n.id
      <4> SUFFICES ASSUME NEW b \in Client \ {d}, NEW k \in Forwarded, HoldsText(b, k)'
                   PROVE  k.id # n.id
        OBVIOUS
      <4>1. CASE b = c
        <5>1. k = m /\ m.kind = "text"
          <6>1. \A x, y : <<x>> = <<y>> => x = y
            OBVIOUS
          <6> QED
            BY <1>3, <4>1, <6>1 DEF HoldsText
        <5> QED
          BY <1>2, <3>2, <5>1 DEF TextIsOwn
      <4>2. CASE b # c
        <5>1. HoldsText(b, k)
          BY <1>3, <4>2 DEF HoldsText
        <5> QED
          BY <3>2, <5>1 DEF TextIsOwn
      <4> QED
        BY <4>1, <4>2
    <3>4. pc'[Reader(d)] = pc[Reader(d)]
      BY <1>4, <2>2, ThreadFacts, WaiterFacts
    <3>5. TextIsOwn(d, n)'
      BY <1>1, <1>2, <3>2, <3>3 DEF TextIsOwn
    <3>6. NotCachedYet(d, n)'
      BY <1>1, <3>2, <3>4 DEF NotCachedYet
    <3> QED
      BY <3>5, <3>6
  <2> QED
    BY <2>1, <2>2
<1>8. TextsOnce'
  BY <1>1, <1>2, <1>7 DEF ChatInv, TextsOnce
<1>9. AckAfterForward' /\ AckFindsMessage'
  BY <1>1 DEF ChatInv, AckAfterForward, AckFindsMessage
<1> QED
  BY <1>5, <1>6, <1>8, <1>9 DEF ChatInv

\* The echoed text is cached: nobody has acknowledged it, for it has not been
\* forwarded yet.
LEMMA CacheOutgoingKeepsChat ==
  ASSUME RegistryInv, ChatInv, NEW c \in Client, CacheOutgoing(c)
  PROVE  ChatInv'
<1>1. pc[Reader(c)] = "cache" /\ input[c] # <<>> /\ Head(input[c]).kind = "text"
  BY DEF CacheOutgoing, ChatInv, EchoesInput
<1>2. PICK m \in Forwarded : input[c] = <<m>> /\ Head(input[c]) = m /\ m.kind = "text"
  BY <1>1, InputFacts DEF ChatInv
<1> DEFINE f == toRadioToFromRadio(m, myNodeNum)
<1>3. f.id = m.id /\ f \in Frame
  <2>1. m \in ToRadioMsg /\ myNodeNum \in Nat
    BY FrameAssumption DEF Forwarded, ChatInv, ChatTypes
  <2> QED
    BY <1>2, <2>1 DEF toRadioToFromRadio, FrameOf, Frame, ToRadioMsg, RuntimeKinds
<1>4. /\ chatCache' = cacheTextMessage(chatCache, f)
      /\ UNCHANGED <<input, texts, toNode, seen, myNodeNum, rlocked, out>>
  BY <1>2 DEF CacheOutgoing, lockVars, nodeVars, inputVars
<1>5. Reader(c) \in Thread /\ pc'[Reader(c)] = "forward" /\ \A u \in Thread \ {Reader(c)} : pc'[u] = pc[u]
  BY ThreadFacts DEF CacheOutgoing, Goto, RegistryInv, RegistryTypes
<1> HIDE DEF f
<1>6. TextIsOwn(c, m) /\ NotCachedYet(c, m)
  BY <1>2 DEF ChatInv, TextsOnce, HoldsText
<1>7. \A g \in seen' : isRoutingACKFrame(g) => g \in seen /\ g.id # f.id
  <2> SUFFICES ASSUME NEW g \in seen, isRoutingACKFrame(g) PROVE g.id # m.id
    BY <1>3, <1>4
  <2>1. PICK n \in toNode : n.id = g.id
    BY DEF ChatInv, AckAfterForward
  <2>2. n \in Forwarded /\ g.id # 0
    BY DEF ChatInv, ChatTypes, isRoutingACKFrame
  <2> QED
    BY <1>2, <1>6, <2>1, <2>2, PacketIdAssumption DEF TextIsOwn
<1>8. /\ chatCache' \in Seq(ChatEntry) /\ (MaxChatCache = 0 => chatCache' = <<>>)
      /\ \A i \in DOMAIN chatCache' :
           \/ chatCache'[i].message.id = f.id
           \/ \E j \in DOMAIN chatCache : chatCache'[i].message.id = chatCache[j].message.id
      /\ \A i \in DOMAIN chatCache' :
           LET id == chatCache'[i].message.id IN FromNode(id) \/ \E d \in Client : id \in texts'[d]
      /\ \A i, j \in DOMAIN chatCache' :
           chatCache'[i].message.id = chatCache'[j].message.id /\ chatCache'[i].message.id # 0 =>
             i = j \/ FromNode(chatCache'[i].message.id)
      /\ AckFindsMessage'
  <2>1. f.id # 0 => \A i \in DOMAIN chatCache : chatCache[i].message.id # f.id
    BY <1>1, <1>3, <1>6 DEF NotCachedYet
  <2>2. \E d \in Client : f.id \in texts'[d]
    BY <1>3, <1>4, <1>6 DEF TextIsOwn
  <2>3. \A d \in Client : texts[d] \subseteq texts'[d]
    BY <1>4
  <2>4. ChatTypes /\ TextsOnce /\ AckFindsMessage
    BY DEF ChatInv
  <2> QED
    BY <1>3, <1>4, <1>7, <2>1, <2>2, <2>3, <2>4, CacheTextKeeps
<1>9. ChatTypes'
  BY <1>4, <1>8 DEF ChatInv, ChatTypes
<1>10. ASSUME NEW d \in Client PROVE EchoesInput(d)'
  <2>1. EchoesInput(d)
    BY DEF ChatInv
  <2>2. d # c => pc'[Reader(d)] = pc[Reader(d)]
    BY <1>5, ThreadFacts, WaiterFacts
  <2> QED
    BY <1>1, <1>4, <1>5, <2>1, <2>2 DEF EchoesInput
<1>11. ASSUME NEW d \in Client, NEW n \in Forwarded, HoldsText(d, n)'
       PROVE  TextIsOwn(d, n)' /\ NotCachedYet(d, n)'
  <2>1. HoldsText(d, n)
    BY <1>4, <1>11 DEF HoldsText
  <2>2. TextIsOwn(d, n) /\ NotCachedYet(d, n)
    BY <2>1 DEF ChatInv, TextsOnce
  <2>3. TextIsOwn(d, n)'
    BY <1>4, <2>2 DEF TextIsOwn, HoldsText
  <2>4. CASE d = c
    BY <1>5, <2>3, <2>4 DEF NotCachedYet
  <2>5. CASE d # c
    <3>1. pc'[Reader(d)] = pc[Reader(d)]
      BY <1>5, <2>5, ThreadFacts, WaiterFacts
    <3>2. n.id # m.id
      <4>1. HoldsText(c, m) /\ c \in Client \ {d}
        BY <1>2, <2>5 DEF HoldsText
      <4> QED
        BY <2>2, <4>1 DEF TextIsOwn
    <3>3. NotCachedYet(d, n)'
      BY <1>3, <1>8, <2>2, <3>1, <3>2 DEF NotCachedYet
    <3> QED
      BY <2>3, <3>3
  <2> QED
    BY <2>4, <2>5
<1>12. TextsOnce'
  BY <1>4, <1>8, <1>11 DEF ChatInv, TextsOnce
<1>13. AckAfterForward'
  BY <1>4 DEF ChatInv, AckAfterForward
<1> QED
  BY <1>8, <1>9, <1>10, <1>12, <1>13 DEF ChatInv

\* The message is handed to the node connection, or dropped there.
LEMMA ForwardKeepsChat ==
  ASSUME RegistryInv, ChatInv, NEW c \in Client, ForwardToNode(c)
  PROVE  ChatInv'
<1>1. pc[Reader(c)] = "forward" /\ input[c] # <<>>
  BY DEF ForwardToNode, ChatInv, EchoesInput
<1>2. PICK m \in Forwarded : input[c] = <<m>> /\ Head(input[c]) = m
  BY <1>1, InputFacts DEF ChatInv
<1>3. /\ toNode' \in {toNode, toNode \cup {m}} /\ input' = [input EXCEPT ![c] = <<>>]
      /\ UNCHANGED <<texts, seen, chatCache, myNodeNum, rlocked, out>>
  BY <1>2 DEF ForwardToNode, lockVars, inputVars
<1>4. Reader(c) \in Thread /\ pc'[Reader(c)] = "top" /\ \A u \in Thread \ {Reader(c)} : pc'[u] = pc[u]
  BY ThreadFacts DEF ForwardToNode, Goto, RegistryInv, RegistryTypes
<1>5. /\ input' \in [Client -> {<<>>} \cup {<<n>> : n \in Forwarded}]
      /\ input'[c] = <<>> /\ \A d \in Client \ {c} : input'[d] = input[d]
  BY <1>3, InputTaken DEF ChatInv
<1>6. ChatTypes'
  BY <1>3, <1>5 DEF ChatInv, ChatTypes
<1>7. ASSUME NEW d \in Client PROVE EchoesInput(d)'
  <2>1. EchoesInput(d)
    BY DEF ChatInv
  <2>2. d # c => pc'[Reader(d)] = pc[Reader(d)]
    BY <1>4, ThreadFacts, WaiterFacts
  <2> QED
    BY <1>1, <1>3, <1>4, <1>5, <2>1, <2>2 DEF EchoesInput
<1>8. ASSUME NEW d \in Client, NEW n \in Forwarded, HoldsText(d, n)'
      PROVE  TextIsOwn(d, n)' /\ NotCachedYet(d, n)'
  <2>0. \A x : <<x>> # <<>>
    OBVIOUS
  <2>1. d # c /\ HoldsText(d, n)
    BY <1>5, <1>8, <2>0 DEF HoldsText
  <2>2. TextIsOwn(d, n) /\ NotCachedYet(d, n)
    BY <2>1 DEF ChatInv, TextsOnce
  <2>3. \A k \in toNode' : k.kind = "text" => k.id # n.id
    <3>1. m.kind = "text" => m.id # n.id
      <4>1. m.kind = "text" => HoldsText(c, m) /\ c \in Client \ {d}
        BY <1>2, <2>1 DEF HoldsText
      <4> QED
        BY <2>2, <4>1 DEF TextIsOwn
    <3> QED
      BY <1>3, <2>2, <3>1 DEF TextIsOwn
  <2>4. \A b \in Client \ {d}, k \in Forwarded : HoldsText(b, k)' => HoldsText(b, k)
    BY <1>5, <2>0 DEF HoldsText
  <2>5. TextIsOwn(d, n)'
    BY <1>3, <2>2, <2>3, <2>4 DEF TextIsOwn
  <2>6. NotCachedYet(d, n)'
    <3>1. pc'[Reader(d)] = pc[Reader(d)]
      BY <1>4, <2>1, ThreadFacts, WaiterFacts
    <3> QED
      BY <1>3, <2>2, <3>1 DEF NotCachedYet
  <2> QED
    BY <2>5, <2>6
<1>9. \A n \in toNode' : n.kind = "text" => \E d \in Client : n.id \in texts'[d]
  <2>1. m.kind = "text" => m.id \in texts[c]
    BY <1>2 DEF ChatInv, TextsOnce, TextIsOwn, HoldsText
  <2> QED
    BY <1>3, <2>1 DEF ChatInv, TextsOnce
<1>10. TextsOnce'
  BY <1>3, <1>8, <1>9 DEF ChatInv, TextsOnce
<1>11. AckAfterForward' /\ AckFindsMessage'
  BY <1>3 DEF ChatInv, AckAfterForward, AckFindsMessage
<1> QED
  BY <1>6, <1>7, <1>10, <1>11 DEF ChatInv

\* The broadcast loop receives a text, an ACK or another frame.
LEMMA ReceiveKeepsChat ==
  ASSUME RegistryInv, ChatInv, NEW f \in NodeFrame, ReceiveFrame(f)
  PROVE  ChatInv'
<1>1. /\ Deliverable(f) /\ chatCache' = CacheIncoming(f) /\ seen' = seen \cup {f}
      /\ Goto(Broadcaster, "rlock") /\ out' = [out EXCEPT ![Broadcaster] = <<f>>]
      /\ UNCHANGED <<input, texts, toNode, myNodeNum, rlocked>>
  BY DEF ReceiveFrame, lockVars, inputVars
<1>2. \A u \in Thread \ {Broadcaster} : pc'[u] = pc[u]
  BY <1>1, ThreadFacts DEF Goto, RegistryInv, RegistryTypes
<1>3. out' = [u \in Thread |-> out'[u]] /\ \A u \in Thread \ {Broadcaster} : out'[u] = out[u]
  <2>1. out = [u \in Thread |-> out[u]]
    BY DEF ChatInv, ChatTypes
  <2> QED
    BY <1>1, <2>1
<1>4. f \in Frame
  BY FrameAssumption
<1>5. \A c \in Client : pc'[Reader(c)] = pc[Reader(c)] /\ out'[Reader(c)] = out[Reader(c)]
  BY <1>2, <1>3, ThreadFacts, WaiterFacts
<1>6. \A c \in Client : EchoesInput(c)'
  BY <1>1, <1>5 DEF ChatInv, EchoesInput
<1>7. AckAfterForward'
  BY <1>1 DEF ChatInv, AckAfterForward, Deliverable, isRoutingACKFrame
<1>8. /\ chatCache' \in Seq(ChatEntry) /\ (MaxChatCache = 0 => chatCache' = <<>>)
      /\ \A i \in DOMAIN chatCache' :
           \/ FromNode(chatCache'[i].message.id)
           \/ \E j \in DOMAIN chatCache : chatCache'[i].message.id = chatCache[j].message.id
      /\ \A i \in DOMAIN chatCache' :
           LET id == chatCache'[i].message.id IN FromNode(id) \/ \E d \in Client : id \in texts'[d]
      /\ \A i, j \in DOMAIN chatCache' :
           chatCache'[i].message.id = chatCache'[j].message.id /\ chatCache'[i].message.id # 0 =>
             i = j \/ FromNode(chatCache'[i].message.id)
      /\ AckFindsMessage'
  <2>0. ChatTypes /\ TextsOnce /\ AckFindsMessage
    BY DEF ChatInv
  <2>1. CASE f.kind = "text"
    <3>1. chatCache' = cacheTextMessage(chatCache, f) /\ FromNode(f.id)
      BY <1>1, <2>1 DEF CacheIncoming, isTextMessageFrame, FromNode
    <3>2. \A g \in seen' : isRoutingACKFrame(g) => g \in seen /\ g.id # f.id
      <4> SUFFICES ASSUME NEW g \in seen, isRoutingACKFrame(g) PROVE g.id # f.id
        BY <1>1, <2>1 DEF isRoutingACKFrame
      <4>1. PICK n \in toNode : n.id = g.id
        BY DEF ChatInv, AckAfterForward
      <4>2. n \in Forwarded /\ g.id # 0
        BY DEF ChatInv, ChatTypes, isRoutingACKFrame
      <4> QED
        BY <2>1, <4>1, <4>2, PacketIdAssumption
    <3>3. \A d \in Client : texts[d] \subseteq texts'[d]
      BY <1>1
    <3> QED
      BY <1>4, <2>0, <3>1, <3>2, <3>3, CacheTextKeeps
  <2>2. CASE isRoutingACKFrame(f)
    <3>1. chatCache' = cacheACK(chatCache, f)
      BY <1>1, <2>2 DEF CacheIncoming, isTextMessageFrame, isRoutingACKFrame
    <3>2. \E m \in toNode : m.id = f.id
      BY <1>1, <2>2 DEF Deliverable, isRoutingACKFrame
    <3>3. /\ chatCache' \in Seq(ChatEntry) /\ (MaxChatCache = 0 => chatCache' = <<>>)
          /\ DOMAIN chatCache' = DOMAIN chatCache
          /\ \A i \in DOMAIN chatCache : chatCache'[i].message = chatCache[i].message
          /\ AckFindsMessage'
      BY <1>1, <2>0, <2>2, <3>1, <3>2, CacheAckKeeps
    <3> QED
      BY <1>1, <2>0, <3>3 DEF TextsOnce
  <2>3. CASE f.kind # "text" /\ ~isRoutingACKFrame(f)
    <3>1. chatCache' = chatCache
      BY <1>1, <2>3 DEF CacheIncoming, isTextMessageFrame
    <3>2. \A g \in seen' : isRoutingACKFrame(g) => g \in seen
      BY <1>1, <2>3
    <3> QED
      BY <1>1, <2>0, <3>1, <3>2 DEF TextsOnce, AckFindsMessage, ChatTypes
  <2> QED
    BY <2>1, <2>2, <2>3
<1>9. ChatTypes'
  BY <1>1, <1>3, <1>8 DEF ChatInv, ChatTypes
<1>10. ASSUME NEW c \in Client, NEW m \in Forwarded, HoldsText(c, m)'
       PROVE  TextIsOwn(c, m)' /\ NotCachedYet(c, m)'
  <2>1. HoldsText(c, m)
    BY <1>1, <1>10 DEF HoldsText
  <2>2. TextIsOwn(c, m) /\ NotCachedYet(c, m)
    BY <2>1 DEF ChatInv, TextsOnce
  <2>3. TextIsOwn(c, m)'
    BY <1>1, <2>2 DEF TextIsOwn, HoldsText
  <2>4. m.id # 0 => ~FromNode(m.id)
    BY PacketIdAssumption DEF FromNode
  <2>5. NotCachedYet(c, m)'
    BY <1>5, <1>8, <2>2, <2>4 DEF NotCachedYet
  <2> QED
    BY <2>3, <2>5
<1>11. TextsOnce'
  BY <1>1, <1>8, <1>10 DEF ChatInv, TextsOnce
<1> QED
  BY <1>6, <1>7, <1>8, <1>9, <1>11 DEF ChatInv

\* Every step keeps the chat right.
LEMMA StepChat == RegistryInv /\ ShutdownInv /\ ChatInv /\ [Next]_vars => ChatInv'
<1> SUFFICES ASSUME RegistryInv, ShutdownInv, ChatInv, [Next]_vars PROVE ChatInv'
  OBVIOUS
<1>1. ASSUME NEW t \in Thread, ThreadStep(t) PROVE ChatInv'
  BY <1>1, CloseKeepsChat, QuietKeepsChat, RangeKeepsChat DEF ThreadStep
<1>2. CASE AcceptorStep
  BY <1>2, OtherThreadKeepsChat, StartKeepsChat DEF AcceptorStep
<1>3. ASSUME NEW c \in Client, NEW m \in ToRadio,
             ReadWant(c, m) \/ ReadDisconnect(c, m) \/ ReadPacket(c, m) \/ ReadHeartbeat(c, m)
      PROVE  ChatInv'
  BY <1>3, StartKeepsChat, ReaderKeepsChat, ReadKeepsChat
<1>4. ASSUME NEW c \in Client, ReaderStep(c) \/ ReadFails(c) PROVE ChatInv'
  BY <1>4, ReaderKeepsChat, CacheOutgoingKeepsChat, ForwardKeepsChat DEF ReaderStep
<1> QED
  BY <1>1, <1>2, <1>3, <1>4, OtherThreadKeepsChat, QuietKeepsChat, ReceiveKeepsChat
    DEF Next

\* No ACK comes too early to find its message: proxy.go caches an outgoing
\* text before nodeConn.Send, so what the node acknowledged is replayed as
\* acknowledged, whatever the other clients and the mesh say in between.
THEOREM AcksFound == Spec => []AckFindsMessage
<1>1. ChatInv => AckFindsMessage
  BY DEF ChatInv
<1> QED
  BY <1>1, InitChat, StepChat, InitShutdown, StepShutdown, RegistryInvariance, PTL DEF Spec

-----------------------------------------------------------------------------
\* Sequences picked by a loop: induction by the least counterexample.

\* A set of naturals has a least one: the intervals up to its members are finite
\* sets, and strict inclusion is well founded on those.
LEMMA LeastNatural ==
  ASSUME NEW T, T \subseteq Nat, T # {}
  PROVE  \E x \in T : \A y \in T : x <= y
<1> DEFINE P == {1 .. n : n \in T}
           R == StrictSubsetOrdering(Nat)
           F == FiniteSubsetsOf(Nat)
<1>1. IsWellFoundedOn(R, F)
  BY FS_StrictSubsetOrderingWellFounded
<1>2. P \subseteq F /\ P # {}
  <2>1. ASSUME NEW n \in T PROVE 1 .. n \in F
    <3>1. IsFiniteSet(1 .. n)
      BY FS_Interval
    <3> QED
      BY <3>1 DEF FiniteSubsetsOf
  <2> QED
    BY <2>1
<1> HIDE DEF R, F, P
<1>3. \E p \in P : \A q \in P : ~ (<<q, p>> \in R)
  BY <1>1, <1>2, WFMin
<1>4. PICK x \in T : \A y \in T : ~ (<<1 .. y, 1 .. x>> \in R)
  BY <1>3 DEF P
<1>5. ASSUME NEW y \in T PROVE x <= y
  <2>1. ~ (<<1 .. y, 1 .. x>> \in R) /\ x \in Nat /\ y \in Nat
    BY <1>4
  <2>2. CASE y < x
    <3>1. 1 .. y \subseteq 1 .. x /\ x \in 1 .. x /\ x \notin 1 .. y
      BY <2>1, <2>2
    <3>2. 1 .. y \in SUBSET Nat /\ 1 .. x \in SUBSET Nat /\ 1 .. y # 1 .. x
      BY <2>1, <3>1
    <3> QED
      BY <2>1, <3>1, <3>2 DEF R, StrictSubsetOrdering
  <2> QED
    BY <2>1, <2>2
<1> QED
  BY <1>5

\* Hence a set that holds 0 and with a number the next holds all of 0 .. n.
LEMMA UpTo ==
  ASSUME NEW n \in Nat, NEW G, 0 \in G, \A i \in 1 .. n : i - 1 \in G => i \in G
  PROVE  \A i \in 0 .. n : i \in G
<1> DEFINE B == {i \in 0 .. n : i \notin G}
<1> SUFFICES ASSUME B # {} PROVE FALSE
  OBVIOUS
<1>0. B \subseteq Nat
  OBVIOUS
<1>1. PICK m \in B : \A y \in B : m <= y
  BY <1>0, LeastNatural
<1>2. m \in 1 .. n /\ m - 1 \in 0 .. n /\ ~(m <= m - 1)
  BY <1>1
<1>3. m - 1 \in G
  BY <1>1, <1>2
<1> QED
  BY <1>1, <1>2, <1>3

\* u is what the loop of filterConfigCache has appended after each frame of s.
LoopOf(u, T, s, S) ==
  /\ u \in [0 .. Len(s) -> Seq(T)] /\ u[0] = <<>> /\ Picked(s, S) = u[Len(s)]
  /\ \A i \in 1 .. Len(s) : u[i] = IF i \in S THEN Append(u[i - 1], s[i]) ELSE u[i - 1]

\* The recursive function in Picked is that loop.
LEMMA PickedUpto ==
  ASSUME NEW T, NEW s \in Seq(T), NEW S
  PROVE  \E u : LoopOf(u, T, s, S)
<1> DEFINE N == Len(s)
           Upto(n, u) == /\ u \in [0 .. n -> Seq(T)] /\ u[0] = <<>>
                         /\ \A i \in 1 .. n : u[i] = IF i \in S THEN Append(u[i - 1], s[i]) ELSE u[i - 1]
           G == {n \in 0 .. N : \E u : Upto(n, u)}
<1>0. N \in Nat /\ \A i \in 1 .. N : s[i] \in T
  OBVIOUS
<1>1. 0 \in G
  <2> DEFINE v == [i \in 0 .. 0 |-> <<>>]
  <2>1. v \in [0 .. 0 -> Seq(T)] /\ v[0] = <<>>
    OBVIOUS
  <2> HIDE DEF v
  <2>2. Upto(0, v)
    BY <2>1
  <2> HIDE DEF Upto
  <2> QED
    BY <1>0, <2>2
<1>2. ASSUME NEW n \in 1 .. N, n - 1 \in G PROVE n \in G
  <2>1. PICK u : Upto(n - 1, u)
    BY <1>2
  <2> DEFINE x == IF n \in S THEN Append(u[n - 1], s[n]) ELSE u[n - 1]
             v == [i \in 0 .. n |-> IF i = n THEN x ELSE u[i]]
  <2>2. n \in Nat /\ n - 1 \in 0 .. n - 1
    BY <1>0
  <2>3. x \in Seq(T)
    BY <1>0, <2>1, <2>2
  <2> HIDE DEF x
  <2>4. v \in [0 .. n -> Seq(T)]
    BY <2>1, <2>2, <2>3
  <2>5. v[0] = <<>>
    BY <2>1, <2>2
  <2>6. ASSUME NEW i \in 1 .. n
        PROVE  v[i] = IF i \in S THEN Append(v[i - 1], s[i]) ELSE v[i - 1]
    <3>1. i - 1 \in 0 .. n /\ i - 1 # n /\ v[i - 1] = u[i - 1]
      BY <2>2
    <3>2. CASE i = n
      BY <3>1, <3>2 DEF x
    <3>3. CASE i # n
      <4>1. i \in 1 .. n - 1 /\ v[i] = u[i]
        BY <2>2, <3>3
      <4> QED
        BY <2>1, <3>1, <4>1
    <3> QED
      BY <3>2, <3>3
  <2> HIDE DEF v
  <2>7. Upto(n, v)
    BY <2>4, <2>5, <2>6
  <2>8. n \in 0 .. N
    BY <1>0
  <2> HIDE DEF Upto
  <2> QED
    BY <2>7, <2>8
<1> HIDE DEF N, G
<1>3. N \in G
  <2>1. \A i \in 1 .. N : i - 1 \in G => i \in G
    BY <1>2
  <2>2. \A i \in 0 .. N : i \in G
    BY <1>0, <1>1, <2>1, UpTo
  <2> QED
    BY <1>0, <2>2
<1>4. PICK w : Upto(N, w)
  <2> HIDE DEF Upto
  <2> QED
    BY <1>3 DEF G
<1> DEFINE F(u) == [i \in 0 .. Len(s) |->
                      IF i = 0 THEN <<>>
                      ELSE IF i \in S THEN Append(u[i - 1], s[i])
                      ELSE u[i - 1]]
           c == CHOOSE u : u = F(u)
<1>5. w = F(w)
  <2>1. DOMAIN w = 0 .. N /\ w \in [0 .. N -> Seq(T)] /\ w[0] = <<>>
    BY <1>4
  <2>2. ASSUME NEW i \in 0 .. N
        PROVE  w[i] = IF i = 0 THEN <<>>
                      ELSE IF i \in S THEN Append(w[i - 1], s[i])
                      ELSE w[i - 1]
    <3>1. i = 0 \/ i \in 1 .. N
      BY <1>0
    <3> QED
      BY <1>4, <3>1
  <2> QED
    BY <2>1, <2>2 DEF N
<1> HIDE DEF F
<1>6. c = F(c)
  BY <1>5
<1>7. Picked(s, S) = c[Len(s)]
  BY DEF Picked, F
<1> HIDE DEF c
<1>8. DOMAIN F(c) = 0 .. N /\ F(c)[0] = <<>>
  BY <1>0 DEF F, N
<1>9. ASSUME NEW i \in 1 .. N
      PROVE  c[i] = IF i \in S THEN Append(c[i - 1], s[i]) ELSE c[i - 1]
  <2>1. i \in 0 .. N /\ i # 0
    BY <1>0
  <2>2. F(c)[i] = IF i \in S THEN Append(c[i - 1], s[i]) ELSE c[i - 1]
    BY <2>1 DEF F, N
  <2> QED
    BY <1>6, <2>2
<1> DEFINE H == {i \in 0 .. N : c[i] \in Seq(T)}
<1>10. 0 \in H
  <2>1. c[0] = <<>>
    BY <1>6, <1>8, Zenon
  <2>2. <<>> \in Seq(T)
    OBVIOUS
  <2>3. c[0] \in Seq(T)
    BY <2>1, <2>2, Zenon
  <2>4. 0 \in 0 .. N
    BY <1>0
  <2> QED
    BY <2>3, <2>4, Zenon
<1>11. ASSUME NEW i \in 1 .. N, i - 1 \in H PROVE i \in H
  <2>1. c[i - 1] \in Seq(T) /\ s[i] \in T /\ i \in 0 .. N
    BY <1>0, <1>11
  <2>2. \A q \in Seq(T) : Append(q, s[i]) \in Seq(T)
    BY <2>1
  <2>3. c[i] = IF i \in S THEN Append(c[i - 1], s[i]) ELSE c[i - 1]
    BY <1>9
  <2>4. c[i] \in Seq(T)
    BY <2>1, <2>2, <2>3, Zenon
  <2> QED
    BY <2>1, <2>4, Zenon
<1> HIDE DEF H
<1>12. \A i \in 0 .. N : i \in H
  <2>1. \A i \in 1 .. N : i - 1 \in H => i \in H
    BY <1>11
  <2> QED
    BY <1>0, <1>10, <2>1, UpTo
<1>13. c \in [0 .. N -> Seq(T)]
  <2>1. \A i \in 0 .. N : c[i] \in Seq(T)
    BY <1>12 DEF H
  <2>2. c = [i \in 0 .. N |-> c[i]]
    <3>1. F(c) = [i \in 0 .. N |-> F(c)[i]]
      BY DEF F, N
    <3> QED
      BY <1>6, <3>1
  <2> QED
    BY <2>1, <2>2
<1>14. c[0] = <<>> /\ Picked(s, S) = c[N]
  BY <1>6, <1>7, <1>8 DEF N
<1>15. LoopOf(c, T, s, S)
  BY <1>9, <1>13, <1>14 DEF N, LoopOf
<1> QED
  BY <1>15

\* One frame more is one turn of the loop more.
LEMMA PickedAppend ==
  ASSUME NEW T, NEW s \in Seq(T), NEW e \in T, NEW R, NEW S,
         \A i \in 1 .. Len(s) : i \in R <=> i \in S
  PROVE  Picked(Append(s, e), R) = IF Len(s) + 1 \in R THEN Append(Picked(s, S), e) ELSE Picked(s, S)
<1> DEFINE t == Append(s, e)
           N == Len(s)
<1>1. /\ t \in Seq(T) /\ N \in Nat /\ Len(t) = N + 1 /\ t[N + 1] = e
      /\ \A i \in 1 .. N : t[i] = s[i]
  OBVIOUS
<1> HIDE DEF t, N
<1>a. PICK u : LoopOf(u, T, t, R)
  BY <1>1, PickedUpto
<1>b. PICK w : LoopOf(w, T, s, S)
  BY PickedUpto
<1>2. /\ u \in [0 .. Len(t) -> Seq(T)] /\ u[0] = <<>> /\ Picked(t, R) = u[Len(t)]
      /\ \A i \in 1 .. Len(t) : u[i] = IF i \in R THEN Append(u[i - 1], t[i]) ELSE u[i - 1]
  BY <1>a DEF LoopOf
<1>3. /\ w \in [0 .. N -> Seq(T)] /\ w[0] = <<>> /\ Picked(s, S) = w[N]
      /\ \A i \in 1 .. N : w[i] = IF i \in S THEN Append(w[i - 1], s[i]) ELSE w[i - 1]
  BY <1>b DEF LoopOf, N
<1> DEFINE G == {i \in 0 .. N : u[i] = w[i]}
<1>4. 0 \in G
  <2>1. u[0] = w[0]
    BY <1>2, <1>3
  <2> QED
    BY <1>1, <2>1
<1>5. ASSUME NEW i \in 1 .. N, i - 1 \in G PROVE i \in G
  <2>1. u[i - 1] = w[i - 1] /\ i \in 1 .. Len(t) /\ i \in 0 .. N
    BY <1>1, <1>5
  <2>2. u[i] = IF i \in R THEN Append(u[i - 1], t[i]) ELSE u[i - 1]
    BY <1>2, <2>1
  <2>3. w[i] = IF i \in S THEN Append(w[i - 1], s[i]) ELSE w[i - 1]
    BY <1>3
  <2>4. t[i] = s[i] /\ (i \in R <=> i \in S)
    BY <1>1 DEF N
  <2>5. u[i] = w[i]
    BY <2>1, <2>2, <2>3, <2>4
  <2> QED
    BY <2>1, <2>5
<1> HIDE DEF G
<1>6. N \in G
  <2>1. \A i \in 1 .. N : i - 1 \in G => i \in G
    BY <1>5
  <2>2. \A i \in 0 .. N : i \in G
    BY <1>1, <1>4, <2>1, UpTo
  <2> QED
    BY <1>1, <2>2
<1>7. u[N] = w[N]
  BY <1>6 DEF G
<1>8. u[N + 1] = IF N + 1 \in R THEN Append(u[N], t[N + 1]) ELSE u[N]
  <2>1. N + 1 \in 1 .. Len(t) /\ (N + 1) - 1 = N
    BY <1>1
  <2> QED
    BY <1>2, <2>1
<1> QED
  BY <1>1, <1>2, <1>3, <1>7, <1>8 DEF t, N

\* What is picked is what is at the indexes.
LEMMA PickedElements ==
  ASSUME NEW T, NEW s \in Seq(T), NEW S
  PROVE  /\ Picked(s, S) \in Seq(T)
         /\ \A k \in DOMAIN Picked(s, S) : \E j \in 1 .. Len(s) : j \in S /\ Picked(s, S)[k] = s[j]
         /\ \A j \in 1 .. Len(s) : j \in S => \E k \in DOMAIN Picked(s, S) : Picked(s, S)[k] = s[j]
<1> DEFINE N == Len(s)
<1>1. N \in Nat /\ \A i \in 1 .. N : s[i] \in T
  OBVIOUS
<1> HIDE DEF N
<1>a. PICK u : LoopOf(u, T, s, S)
  BY PickedUpto
<1>2. /\ u \in [0 .. N -> Seq(T)] /\ u[0] = <<>> /\ Picked(s, S) = u[N]
      /\ \A i \in 1 .. N : u[i] = IF i \in S THEN Append(u[i - 1], s[i]) ELSE u[i - 1]
  BY <1>a DEF LoopOf, N
<1> DEFINE Good(n) == /\ \A k \in DOMAIN u[n] : \E j \in 1 .. n : j \in S /\ u[n][k] = s[j]
                      /\ \A j \in 1 .. n : j \in S => \E k \in DOMAIN u[n] : u[n][k] = s[j]
           G == {n \in 0 .. N : Good(n)}
<1>3. 0 \in G
  <2>1. DOMAIN u[0] = {} /\ 1 .. 0 = {} /\ 0 \in 0 .. N
    BY <1>1, <1>2
  <2>2. Good(0)
    BY <2>1
  <2> HIDE DEF Good
  <2> QED
    BY <2>1, <2>2
<1>4. ASSUME NEW n \in 1 .. N, n - 1 \in G PROVE n \in G
  <2>1. /\ n - 1 \in 0 .. N /\ n \in 0 .. N /\ n \in Nat /\ s[n] \in T
        /\ u[n - 1] \in Seq(T) /\ Good(n - 1)
    BY <1>1, <1>2, <1>4
  <2>2. u[n] = IF n \in S THEN Append(u[n - 1], s[n]) ELSE u[n - 1]
    BY <1>2
  <2>3. CASE n \notin S
    <3>1. u[n] = u[n - 1]
      BY <2>2, <2>3
    <3>2. \A k \in DOMAIN u[n] : \E j \in 1 .. n : j \in S /\ u[n][k] = s[j]
      BY <2>1, <3>1
    <3>3. \A j \in 1 .. n : j \in S => j \in 1 .. n - 1
      BY <2>1, <2>3
    <3>4. \A j \in 1 .. n : j \in S => \E k \in DOMAIN u[n] : u[n][k] = s[j]
      BY <2>1, <3>1, <3>3
    <3> QED
      BY <2>1, <3>2, <3>4
  <2>4. CASE n \in S
    <3> DEFINE q == u[n - 1]
    <3>1. u[n] = Append(q, s[n]) /\ q \in Seq(T)
      BY <2>1, <2>2, <2>4
    <3> HIDE DEF q
    <3>2. /\ Len(q) \in Nat /\ DOMAIN q = 1 .. Len(q) /\ DOMAIN u[n] = 1 .. Len(q) + 1
          /\ u[n][Len(q) + 1] = s[n] /\ \A k \in DOMAIN q : u[n][k] = q[k]
      BY <2>1, <3>1
    <3>3. ASSUME NEW k \in DOMAIN u[n] PROVE \E j \in 1 .. n : j \in S /\ u[n][k] = s[j]
      <4>1. CASE k = Len(q) + 1
        BY <2>1, <2>4, <3>2, <4>1
      <4>2. CASE k # Len(q) + 1
        <5>1. k \in DOMAIN q
          BY <3>2, <4>2
        <5>2. PICK j \in 1 .. n - 1 : j \in S /\ q[k] = s[j]
          BY <2>1, <5>1 DEF q
        <5>3. j \in 1 .. n
          BY <2>1
        <5> QED
          BY <3>2, <5>1, <5>2, <5>3
      <4> QED
        BY <4>1, <4>2
    <3>4. ASSUME NEW j \in 1 .. n, j \in S PROVE \E k \in DOMAIN u[n] : u[n][k] = s[j]
      <4>1. CASE j = n
        <5>1. Len(q) + 1 \in DOMAIN u[n]
          BY <3>2
        <5> QED
          BY <3>2, <4>1, <5>1
      <4>2. CASE j # n
        <5>1. j \in 1 .. n - 1
          BY <2>1, <4>2
        <5>2. PICK k \in DOMAIN q : q[k] = s[j]
          BY <2>1, <3>4, <5>1 DEF q
        <5>3. k \in DOMAIN u[n]
          BY <3>2
        <5> QED
          BY <3>2, <5>2, <5>3
      <4> QED
        BY <4>1, <4>2
    <3> QED
      BY <2>1, <3>3, <3>4
  <2> QED
    BY <2>3, <2>4
<1> HIDE DEF G
<1>5. N \in G
  <2>1. \A i \in 1 .. N : i - 1 \in G => i \in G
    BY <1>4
  <2>2. \A i \in 0 .. N : i \in G
    BY <1>1, <1>3, <2>1, UpTo
  <2> QED
    BY <1>1, <2>2
<1>6. Good(N) /\ u[N] \in Seq(T)
  BY <1>1, <1>2, <1>5 DEF G
<1> QED
  BY <1>2, <1>6 DEF N

-----------------------------------------------------------------------------
\* The replays: what is in a queue is whole answers, and the part under way.

\* A replay goroutine of a client that holds its replayMu.
Replaying(t) == pc[t] \notin {"off", "wait", "done", "chatted", "empty"}

\* A thread on its way through broadcast or broadcastToOthers.
Carries(t) ==
  \/ pc[t] \in {"rlock", "iterate"}
  \/ t \in rlocked
  \/ t = Broadcaster /\ Closing(t)

NoConfig(s) == \A i \in DOMAIN s : ~isConfigFrame(s[i])

QueueTypes ==
  /\ out \in [Thread -> Seq(Frame)]
  /\ send \in [Client -> Seq(Frame)]
  /\ nonce \in [Replayers -> Nat]
  /\ configPhase \in [Client -> SUBSET {"config", "nodes"}]
  /\ configCache \in Caches \cup {<<>>}

\* What is cached and replayed as chat is no config frame.
ChatIsNoConfig ==
  \A i \in DOMAIN chatCache : ~isConfigFrame(chatCache[i].message) /\ NoConfig(chatCache[i].ack)

\* A thread that broadcasts has a frame, and only a replay sends config frames.
OutRight ==
  \A t \in Thread :
    /\ Carries(t) => t \notin Replayers /\ out[t] # <<>>
    /\ t \notin Replayers \/ pc[t] # "config" => NoConfig(out[t])

\* A replay goroutine sends to its client only, and closes only that.
ReplayerRight(t) ==
  /\ pc[t] \in {"off", "wait", "empty", "config", "chat", "chatted", "close", "unregister",
                "store", "done"}
  /\ pc[t] \notin {"config", "chat"} => out[t] = <<>>
  /\ Closing(t) => target[t] = Owner(t)
  /\ pc[t] = "config" /\ nonce[t] = nonceOnlyConfig => "config" \in configPhase[Owner(t)]

\* One replay at a time: what replayMu is for.
OneReplay ==
  \A c \in Client, j, k \in 1 .. MaxWants :
    Replaying(Replayer(c, j)) /\ Replaying(Replayer(c, k)) => j = k

\* Where the answers in a sequence of config frames end; p is the last such
\* place, or 0.
EndsOf(view) == {i \in DOMAIN view : view[i].kind = "config_complete"}

LastEnd(view, p) == p \in EndsOf(view) \cup {0} /\ \A i \in EndsOf(view) : i <= p

\* Every piece of view from one end to the next is in A.
Pieces(view, A) ==
  \A i \in EndsOf(view), q \in EndsOf(view) \cup {0} :
    q < i /\ (\A j \in EndsOf(view) : j <= q \/ i <= j) => SubSeq(view, q + 1, i) \in A

AnswersTo(N) == {ConfigView(ReplayFrames(cache, n)) : cache \in Caches, n \in N}

\* rest is what a replay for nonce n has still to send, and what it has sent is
\* behind the last end.
Progress(view, rest, n) ==
  \E cache \in Caches :
    LET a == ReplayFrames(cache, n) IN
    \E p \in 0 .. Len(a) - 1, q \in 0 .. Len(view) :
      /\ rest = SubSeq(a, p + 1, Len(a))
      /\ LastEnd(view, q)
      /\ SubSeq(view, q + 1, Len(view)) = ConfigView(SubSeq(a, 1, p))

\* The queue of a client: whole answers, and the part of the one under way.
QueueWhole(c) ==
  LET view == ConfigView(send[c]) IN
  /\ Pieces(view, AnswersTo(Asked(c)))
  /\ \A k \in 1 .. MaxWants : LET t == Replayer(c, k) IN
       pc[t] = "config" => \/ out[t] = <<>> /\ LastEnd(view, Len(view))
                           \/ Progress(view, out[t], nonce[t])
  /\ (\A k \in 1 .. MaxWants : pc[Replayer(c, k)] \notin {"config", "close"}) => LastEnd(view, Len(view))

\* The phases of a client: its config is complete only after it was counted, a
\* replay that has sent everything has completed, and nodes that came without
\* the chat came before any config.
PhasesRight(c) ==
  /\ Completed(c, nonceOnlyConfig) # {} => "config" \in configPhase[c]
  /\ \A k \in 1 .. MaxWants : LET t == Replayer(c, k) IN
       /\ pc[t] = "config" /\ out[t] = <<>> => Completed(c, nonce[t]) # {}
       /\ ReplayChat /\ MaxChatCache > 0 /\ nonce[t] = nonceOnlyNodes /\ pc[t] = "done"
          => \E j \in Completed(c, nonceOnlyNodes) : \A i \in Completed(c, nonceOnlyConfig) : j < i

ReplayIInv ==
  /\ QueueTypes /\ ChatIsNoConfig /\ OutRight /\ OneReplay
  /\ \A t \in Replayers : ReplayerRight(t)
  /\ \A c \in Client : conn[c] = "none" => send[c] = <<>>
  /\ \A c \in Client : conn[c] = "open" => QueueWhole(c) /\ PhasesRight(c)

-----------------------------------------------------------------------------
\* One frame more in a queue is one more in its view, if it is a config frame.
LEMMA ViewAppend ==
  ASSUME NEW s \in Seq(Frame), NEW f \in Frame
  PROVE  ConfigView(Append(s, f)) = IF isConfigFrame(f) THEN Append(ConfigView(s), f) ELSE ConfigView(s)
<1> DEFINE t == Append(s, f)
           S == {i \in DOMAIN s : isConfigFrame(s[i])}
           R == {i \in DOMAIN t : isConfigFrame(t[i])}
<1>1. /\ t \in Seq(Frame) /\ DOMAIN s = 1 .. Len(s) /\ DOMAIN t = 1 .. Len(s) + 1
      /\ Len(s) \in Nat /\ t[Len(s) + 1] = f /\ \A i \in 1 .. Len(s) : t[i] = s[i]
  OBVIOUS
<1>2. \A i \in 1 .. Len(s) : i \in R <=> i \in S
  <2>1. \A i \in 1 .. Len(s) : i \in 1 .. Len(s) + 1
    BY <1>1
  <2> HIDE DEF t
  <2> QED
    BY <1>1, <2>1
<1>3. Len(s) + 1 \in R <=> isConfigFrame(f)
  <2> HIDE DEF t
  <2> QED
    BY <1>1
<1> HIDE DEF R, S, t
<1>4. Picked(Append(s, f), R) = IF Len(s) + 1 \in R THEN Append(Picked(s, S), f) ELSE Picked(s, S)
  <2>1. \A e \in Frame : Picked(Append(s, e), R) =
          IF Len(s) + 1 \in R THEN Append(Picked(s, S), e) ELSE Picked(s, S)
    BY <1>2, PickedAppend
  <2> QED
    BY <2>1
<1> QED
  BY <1>3, <1>4 DEF ConfigView, R, S, t

\* A view is a sequence of frames, that of nothing is empty.
LEMMA ViewType ==
  ASSUME NEW s \in Seq(Frame)
  PROVE  ConfigView(s) \in Seq(Frame) /\ ConfigView(<<>>) = <<>>
<1> DEFINE S == {i \in DOMAIN s : isConfigFrame(s[i])}
<1> HIDE DEF S
<1>1. Picked(s, S) \in Seq(Frame)
  BY PickedElements
<1>2. Picked(<<>>, {}) = <<>>
  <2>1. <<>> \in Seq(Frame) /\ Len(<<>>) = 0
    OBVIOUS
  <2>2. PICK u : LoopOf(u, Frame, <<>>, {})
    BY <2>1, PickedUpto
  <2> QED
    BY <2>1, <2>2 DEF LoopOf
<1>3. {i \in DOMAIN <<>> : isConfigFrame(<<>>[i])} = {}
  OBVIOUS
<1> QED
  BY <1>1, <1>2, <1>3 DEF ConfigView, S

\* The frames of a piece of a sequence.
LEMMA PieceFacts ==
  ASSUME NEW s \in Seq(Frame), NEW m \in Nat \ {0}, NEW n \in Nat, n <= Len(s), m <= n + 1
  PROVE  /\ SubSeq(s, m, n) \in Seq(Frame)
         /\ Len(SubSeq(s, m, n)) = n - m + 1
         /\ \A i \in 1 .. n - m + 1 : SubSeq(s, m, n)[i] = s[m + i - 1]
<1>1. Len(s) \in Nat /\ \A i \in 1 .. Len(s) : s[i] \in Frame
  OBVIOUS
<1>2. m \in Int /\ n \in Int /\ \A i \in m .. n : s[i] \in Frame
  BY <1>1
<1>3. /\ SubSeq(s, m, n) \in Seq(Frame)
      /\ Len(SubSeq(s, m, n)) = IF m <= n THEN n - m + 1 ELSE 0
      /\ \A i \in 1 .. n - m + 1 : SubSeq(s, m, n)[i] = s[m + i - 1]
  BY <1>2, SubSeqProperties
<1> QED
  BY <1>2, <1>3

\* What is behind the last end grows with every frame that is no end.
LEMMA LastEndAppend ==
  ASSUME NEW view \in Seq(Frame), NEW f \in Frame
  PROVE  LET more == Append(view, f) IN
         /\ f.kind = "config_complete" => LastEnd(more, Len(more))
         /\ f.kind # "config_complete" =>
              \A q \in 0 .. Len(view) : LastEnd(view, q) =>
                /\ LastEnd(more, q)
                /\ SubSeq(more, q + 1, Len(more)) = Append(SubSeq(view, q + 1, Len(view)), f)
<1> DEFINE more == Append(view, f)
<1>1. /\ Len(view) \in Nat /\ DOMAIN view = 1 .. Len(view) /\ DOMAIN more = 1 .. Len(view) + 1
      /\ Len(more) = Len(view) + 1 /\ more[Len(view) + 1] = f
      /\ \A i \in 1 .. Len(view) : more[i] = view[i]
      /\ more \in Seq(Frame)
  OBVIOUS
<1>2. ASSUME NEW q \in 0 .. Len(view)
      PROVE  SubSeq(more, q + 1, Len(more)) = Append(SubSeq(view, q + 1, Len(view)), f)
  <2> DEFINE a == SubSeq(more, q + 1, Len(more))
             b == SubSeq(view, q + 1, Len(view))
             n == Len(view) - q
  <2>0. n \in Nat /\ q \in Nat
    BY <1>1
  <2>1. a \in Seq(Frame) /\ Len(a) = n + 1 /\ \A i \in 1 .. n + 1 : a[i] = more[q + i]
    <3> HIDE DEF more
    <3>1. q + 1 \in Nat \ {0} /\ Len(more) \in Nat /\ q + 1 <= Len(more) + 1
      BY <1>1, <2>0
    <3>2. /\ a \in Seq(Frame) /\ Len(a) = Len(more) - (q + 1) + 1
          /\ \A i \in 1 .. Len(more) - (q + 1) + 1 : a[i] = more[(q + 1) + i - 1]
      BY <1>1, <3>1, PieceFacts
    <3> HIDE DEF a
    <3> QED
      BY <1>1, <2>0, <3>2
  <2>2. b \in Seq(Frame) /\ Len(b) = n /\ \A i \in 1 .. n : b[i] = view[q + i]
    <3>1. q + 1 \in Nat \ {0} /\ Len(view) \in Nat /\ q + 1 <= Len(view) + 1
      BY <1>1, <2>0
    <3>2. /\ b \in Seq(Frame) /\ Len(b) = Len(view) - (q + 1) + 1
          /\ \A i \in 1 .. Len(view) - (q + 1) + 1 : b[i] = view[(q + 1) + i - 1]
      BY <3>1, PieceFacts
    <3> HIDE DEF b
    <3> QED
      BY <1>1, <2>0, <3>2
  <2>3. \A i \in 1 .. n : q + i \in 1 .. Len(view) /\ a[i] = b[i]
    <3> HIDE DEF more, a, b
    <3> QED
      BY <1>1, <2>0, <2>1, <2>2
  <2>4. a[n + 1] = f
    <3> HIDE DEF more, a
    <3> QED
      BY <1>1, <2>0, <2>1
  <2> HIDE DEF a, b, more, n
  <2>5. Append(b, f) \in Seq(Frame) /\ Len(Append(b, f)) = n + 1
    BY <2>0, <2>2
  <2>6. ASSUME NEW i \in 1 .. n + 1 PROVE a[i] = Append(b, f)[i]
    BY <2>0, <2>2, <2>3, <2>4
  <2>7. a = Append(b, f)
    BY <2>0, <2>1, <2>5, <2>6, SeqEqual
  <2> QED
    BY <2>7 DEF a, b
<1> HIDE DEF more
<1>3. ASSUME f.kind = "config_complete" PROVE LastEnd(more, Len(more))
  BY <1>1, <1>3 DEF LastEnd, EndsOf
<1>4. ASSUME f.kind # "config_complete" PROVE EndsOf(more) = EndsOf(view)
  <2>1. \A i \in 1 .. Len(view) + 1 : i \in 1 .. Len(view) \/ i = Len(view) + 1
    BY <1>1
  <2>2. \A i \in 1 .. Len(view) : i \in 1 .. Len(view) + 1
    BY <1>1
  <2> QED
    BY <1>1, <1>4, <2>1, <2>2 DEF EndsOf
<1>5. ASSUME f.kind # "config_complete", NEW q, LastEnd(view, q) PROVE LastEnd(more, q)
  BY <1>4, <1>5 DEF LastEnd
<1> QED
  BY <1>2, <1>3, <1>5 DEF more

\* A frame more: a new piece if it is an end, and otherwise the same pieces.
LEMMA PiecesAppend ==
  ASSUME NEW view \in Seq(Frame), NEW f \in Frame, NEW A, Pieces(view, A),
         f.kind = "config_complete" =>
           \A q \in 0 .. Len(view) :
             LastEnd(view, q) => Append(SubSeq(view, q + 1, Len(view)), f) \in A
  PROVE  Pieces(Append(view, f), A)
<1> DEFINE more == Append(view, f)
           N == Len(view)
<1>1. /\ N \in Nat /\ DOMAIN view = 1 .. N /\ DOMAIN more = 1 .. N + 1
      /\ Len(more) = N + 1 /\ more[N + 1] = f
      /\ \A i \in 1 .. N : more[i] = view[i]
      /\ more \in Seq(Frame)
  OBVIOUS
<1> HIDE DEF more
<1>2. EndsOf(view) \subseteq 1 .. N /\ EndsOf(more) \subseteq 1 .. N + 1
  BY <1>1 DEF EndsOf
<1>3. \A i \in 1 .. N : i \in EndsOf(more) <=> i \in EndsOf(view)
  BY <1>1 DEF EndsOf
<1>4. N + 1 \in EndsOf(more) <=> f.kind = "config_complete"
  BY <1>1 DEF EndsOf
<1>5. ASSUME NEW q \in 0 .. N, NEW i \in 0 .. N, q <= i
      PROVE  SubSeq(more, q + 1, i) = SubSeq(view, q + 1, i)
  <2> DEFINE a == SubSeq(more, q + 1, i)
             b == SubSeq(view, q + 1, i)
  <2>1. /\ q + 1 \in Nat \ {0} /\ i \in Nat /\ q + 1 <= i + 1 /\ i <= Len(view) /\ i <= Len(more)
        /\ q \in Nat
    BY <1>1, <1>5
  <2>2. /\ a \in Seq(Frame) /\ Len(a) = i - (q + 1) + 1
        /\ \A l \in 1 .. i - (q + 1) + 1 : a[l] = more[(q + 1) + l - 1]
    BY <1>1, <2>1, PieceFacts
  <2>3. /\ b \in Seq(Frame) /\ Len(b) = i - (q + 1) + 1
        /\ \A l \in 1 .. i - (q + 1) + 1 : b[l] = view[(q + 1) + l - 1]
    BY <2>1, PieceFacts
  <2> HIDE DEF a, b
  <2>4. ASSUME NEW l \in 1 .. Len(a) PROVE a[l] = b[l]
    <3>1. l \in 1 .. i - (q + 1) + 1 /\ (q + 1) + l - 1 \in 1 .. N
      BY <1>1, <2>1, <2>2
    <3> QED
      BY <1>1, <2>2, <2>3, <3>1
  <2>5. a = b
    BY <2>2, <2>3, <2>4, SeqEqual
  <2> QED
    BY <2>5 DEF a, b
<1>6. SUFFICES ASSUME NEW i \in EndsOf(more), NEW q \in EndsOf(more) \cup {0}, q < i,
                      \A j \in EndsOf(more) : j <= q \/ i <= j
               PROVE  SubSeq(more, q + 1, i) \in A
  BY DEF Pieces, more
<1>7. /\ i \in 1 .. N + 1 /\ q \in 0 .. N /\ q \in EndsOf(view) \cup {0}
      /\ \A j \in EndsOf(view) : j <= q \/ i <= j
  BY <1>1, <1>2, <1>3, <1>6
<1>8. CASE i \in 1 .. N
  <2>1. i \in EndsOf(view) /\ SubSeq(view, q + 1, i) \in A
    BY <1>3, <1>6, <1>7, <1>8 DEF Pieces
  <2>2. q \in 0 .. N /\ i \in 0 .. N /\ q <= i
    BY <1>1, <1>6, <1>7, <1>8
  <2> QED
    BY <1>5, <2>1, <2>2
<1>9. CASE i = N + 1
  <2>1. f.kind = "config_complete"
    BY <1>4, <1>9
  <2>2. LastEnd(view, q)
    BY <1>1, <1>2, <1>7, <1>9 DEF LastEnd
  <2>3. Append(SubSeq(view, q + 1, N), f) \in A
    BY <1>7, <2>1, <2>2
  <2>4. SubSeq(more, q + 1, N + 1) = Append(SubSeq(view, q + 1, N), f)
    <3>1. q + 1 \in 1 .. Len(more) /\ N + 1 \in q + 1 .. Len(more) /\ (N + 1) - 1 = N
      BY <1>1, <1>7
    <3>2. SubSeq(more, q + 1, N + 1) = SubSeq(more, q + 1, (N + 1) - 1) \o <<more[N + 1]>>
      BY <1>1, <3>1, SubSeqRecursiveSecond
    <3>3. SubSeq(more, q + 1, N) = SubSeq(view, q + 1, N)
      BY <1>1, <1>5, <1>7
    <3>4. SubSeq(view, q + 1, N) \in Seq(Frame)
      BY <1>1, <1>7, PieceFacts
    <3> DEFINE b == SubSeq(view, q + 1, N)
    <3> HIDE DEF b
    <3>5. SubSeq(more, q + 1, N + 1) = b \o <<f>> /\ b \in Seq(Frame)
      BY <1>1, <3>1, <3>2, <3>3, <3>4 DEF b
    <3>6. b \o <<f>> = Append(b, f)
      BY <3>5
    <3> QED
      BY <3>5, <3>6 DEF b
  <2> QED
    BY <1>9, <2>3, <2>4
<1> QED
  BY <1>7, <1>8, <1>9

\* An answer ends with its one config_complete, which has the client's nonce.
LEMMA AnswerFacts ==
  ASSUME NEW cache \in Caches, NEW n \in Nat
  PROVE  LET a == ReplayFrames(cache, n) IN
         /\ a \in Seq(Frame) /\ Len(a) \in Nat \ {0}
         /\ \A i \in 1 .. Len(a) : a[i].kind = "config_complete" <=> i = Len(a)
         /\ a[Len(a)].id = n
<1> DEFINE N     == Len(cache)
           mine  == CacheNodeNum(cache)
           S     == {i \in DOMAIN cache : KeptByFilter(cache[i], n, mine)}
           front == SubSeq(cache, 1, N - 1)
           mid   == Picked(front, S)
           kept  == Append(mid, cache[N])
           a     == ReplayFrames(cache, n)
<1>1. /\ cache \in Seq(Frame) /\ N \in Nat \ {0} /\ DOMAIN cache = 1 .. N
      /\ \A i \in 1 .. N : cache[i] \in Frame
      /\ cache[N].kind = "config_complete"
      /\ \A i \in 1 .. N - 1 : cache[i].kind # "config_complete"
  <2>1. cache \in Seq(Frame) /\ cache # <<>>
    BY FrameAssumption, CachesAssumption
  <2>2. N \in Nat \ {0} /\ DOMAIN cache = 1 .. N /\ \A i \in 1 .. N : cache[i] \in Frame
    BY <2>1
  <2>3. \A i \in 1 .. N : cache[i].kind = "config_complete" <=> i = N
    BY <2>2, CachesAssumption
  <2> HIDE DEF N
  <2>4. N \in 1 .. N /\ \A i \in 1 .. N - 1 : i \in 1 .. N /\ i # N
    BY <2>2
  <2> QED
    BY <2>1, <2>2, <2>3, <2>4
<1>2. /\ front \in Seq(Frame) /\ Len(front) = N - 1
      /\ \A i \in 1 .. N - 1 : front[i] = cache[i]
      /\ cache = Append(front, cache[N])
  BY <1>1
<1> HIDE DEF N, mine, S, front, mid, kept, a
<1>3. N \in S
  <2>1. KeptByFilter(cache[N], n, mine)
    BY <1>1 DEF KeptByFilter
  <2> QED
    BY <1>1, <2>1 DEF S
<1>4. filterConfigCache(cache, n) = kept
  <2>1. filterConfigCache(cache, n) = Picked(cache, S)
    BY DEF filterConfigCache, S, mine
  <2>2. Len(front) + 1 = N /\ cache[N] \in Frame
    BY <1>1, <1>2
  <2>3. \A e \in Frame : Picked(Append(front, e), S) =
          IF Len(front) + 1 \in S THEN Append(Picked(front, S), e) ELSE Picked(front, S)
    BY <1>2, PickedAppend
  <2> QED
    BY <1>2, <1>3, <2>1, <2>2, <2>3 DEF kept, mid
<1>5. mid \in Seq(Frame) /\ \A k \in DOMAIN mid : \E j \in 1 .. N - 1 : mid[k] = cache[j]
  <2>1. /\ Picked(front, S) \in Seq(Frame)
        /\ \A k \in DOMAIN Picked(front, S) :
             \E j \in 1 .. Len(front) : j \in S /\ Picked(front, S)[k] = front[j]
    BY <1>2, PickedElements
  <2> QED
    BY <1>2, <2>1 DEF mid
<1>6. /\ Len(mid) \in Nat /\ DOMAIN mid = 1 .. Len(mid)
      /\ DOMAIN kept = 1 .. Len(mid) + 1
      /\ kept[Len(mid) + 1] = cache[N]
      /\ \A k \in 1 .. Len(mid) : kept[k] = mid[k] /\ mid[k] \in Frame
  BY <1>1, <1>5 DEF kept
<1>7. a = [i \in DOMAIN kept |-> IF kept[i].kind = "config_complete"
                                 THEN [kept[i] EXCEPT !.id = n] ELSE kept[i]]
  BY <1>4 DEF a, ReplayFrames
<1>8. ASSUME NEW k \in 1 .. Len(mid)
      PROVE  a[k] = mid[k] /\ mid[k].kind # "config_complete"
  <2>1. PICK j \in 1 .. N - 1 : mid[k] = cache[j]
    BY <1>5, <1>6
  <2>2. k \in DOMAIN kept /\ kept[k] = mid[k]
    BY <1>6
  <2> QED
    BY <1>1, <1>7, <2>1, <2>2
<1>9. /\ a[Len(mid) + 1] \in Frame
      /\ a[Len(mid) + 1].kind = "config_complete" /\ a[Len(mid) + 1].id = n
  <2>1. Len(mid) + 1 \in DOMAIN kept
    BY <1>6
  <2>2. a[Len(mid) + 1] = [cache[N] EXCEPT !.id = n]
    BY <1>1, <1>6, <1>7, <2>1
  <2>3. cache[N] \in Frame
    BY <1>1
  <2> QED
    BY <1>1, <2>2, <2>3 DEF Frame
<1>10. a \in Seq(Frame) /\ Len(a) = Len(mid) + 1
  <2>1. DOMAIN a = 1 .. Len(mid) + 1 /\ a = [i \in 1 .. Len(mid) + 1 |-> a[i]]
    BY <1>6, <1>7
  <2>2. \A i \in 1 .. Len(mid) + 1 : a[i] \in Frame
    <3>1. \A i \in 1 .. Len(mid) + 1 : i \in 1 .. Len(mid) \/ i = Len(mid) + 1
      BY <1>6
    <3> QED
      BY <1>6, <1>8, <1>9, <3>1
  <2>3. a \in [1 .. Len(mid) + 1 -> Frame] /\ Len(mid) + 1 \in Nat
    BY <1>6, <2>1, <2>2
  <2> QED
    BY <2>3
<1>11. \A i \in 1 .. Len(a) : a[i].kind = "config_complete" <=> i = Len(a)
  <2>1. \A i \in 1 .. Len(mid) + 1 : i \in 1 .. Len(mid) \/ i = Len(mid) + 1
    BY <1>6
  <2> QED
    BY <1>6, <1>8, <1>9, <1>10, <2>1
<1> QED
  BY <1>6, <1>9, <1>10, <1>11 DEF a

\* Sending one frame of a replay: what is left is less, and the last frame
\* completes an answer.
LEMMA ProgressStep ==
  ASSUME NEW view \in Seq(Frame), NEW n \in Nat, NEW rest, Progress(view, rest, n)
  PROVE  LET f == Head(rest)
             more == IF isConfigFrame(f) THEN Append(view, f) ELSE view
         IN  /\ rest # <<>> /\ f \in Frame
             /\ Tail(rest) # <<>> => f.kind # "config_complete" /\ Progress(more, Tail(rest), n)
             /\ Tail(rest) = <<>> =>
                  /\ f.kind = "config_complete" /\ f.id = n
                  /\ \E cache \in Caches : \A q \in 0 .. Len(view) : LastEnd(view, q) =>
                       Append(SubSeq(view, q + 1, Len(view)), f) = ConfigView(ReplayFrames(cache, n))
<1>1. PICK cache \in Caches :
        \E p \in 0 .. Len(ReplayFrames(cache, n)) - 1, q \in 0 .. Len(view) :
          /\ rest = SubSeq(ReplayFrames(cache, n), p + 1, Len(ReplayFrames(cache, n)))
          /\ LastEnd(view, q)
          /\ SubSeq(view, q + 1, Len(view)) = ConfigView(SubSeq(ReplayFrames(cache, n), 1, p))
  BY DEF Progress
<1> DEFINE a == ReplayFrames(cache, n)
<1>2. /\ a \in Seq(Frame) /\ Len(a) \in Nat \ {0}
      /\ \A i \in 1 .. Len(a) : a[i].kind = "config_complete" <=> i = Len(a)
      /\ a[Len(a)].id = n
  BY AnswerFacts
<1> HIDE DEF a
<1>3. PICK p \in 0 .. Len(a) - 1, q \in 0 .. Len(view) :
        /\ rest = SubSeq(a, p + 1, Len(a)) /\ LastEnd(view, q)
        /\ SubSeq(view, q + 1, Len(view)) = ConfigView(SubSeq(a, 1, p))
  BY <1>1 DEF a
<1> DEFINE f == Head(rest)
           more == IF isConfigFrame(f) THEN Append(view, f) ELSE view
           sent == SubSeq(a, 1, p)
<1>4. /\ p \in Nat /\ p + 1 \in 1 .. Len(a) /\ Len(a) \in p + 1 .. Len(a)
      /\ p + 1 \in Nat \ {0} /\ p < Len(a)
  BY <1>2
<1>5. f = a[p + 1] /\ Tail(rest) = SubSeq(a, p + 2, Len(a))
  <2>1. Head(SubSeq(a, p + 1, Len(a))) = a[p + 1] /\ Tail(SubSeq(a, p + 1, Len(a))) = SubSeq(a, (p + 1) + 1, Len(a))
    BY <1>2, <1>4, HeadTailOfSubSeq
  <2>2. (p + 1) + 1 = p + 2
    BY <1>4
  <2> QED
    BY <1>3, <2>1, <2>2
<1>6. rest \in Seq(Frame) /\ Len(rest) = Len(a) - p /\ rest # <<>>
  <2>1. p + 1 <= Len(a) + 1 /\ Len(a) <= Len(a)
    BY <1>4
  <2>2. rest \in Seq(Frame) /\ Len(rest) = Len(a) - (p + 1) + 1
    BY <1>2, <1>3, <1>4, <2>1, PieceFacts
  <2>3. Len(rest) = Len(a) - p /\ Len(rest) # 0
    BY <1>2, <1>4, <2>2
  <2> QED
    BY <2>2, <2>3
<1>7. f \in Frame /\ sent \in Seq(Frame)
  <2>1. sent \in Seq(Frame)
    BY <1>2, <1>4, PieceFacts
  <2> QED
    BY <1>2, <1>4, <1>5, <2>1
<1>8. SubSeq(a, 1, p + 1) = Append(sent, f)
  <2>1. 1 \in 1 .. Len(a) /\ p + 1 \in 1 .. Len(a) /\ (p + 1) - 1 = p
    BY <1>4
  <2>2. SubSeq(a, 1, p + 1) = SubSeq(a, 1, (p + 1) - 1) \o <<a[p + 1]>>
    BY <1>2, <2>1, SubSeqRecursiveSecond
  <2> HIDE DEF sent, f
  <2>3. SubSeq(a, 1, p + 1) = sent \o <<f>>
    BY <1>5, <2>1, <2>2 DEF sent
  <2> QED
    BY <1>7, <2>3
<1> HIDE DEF sent, f
<1>9. ConfigView(SubSeq(a, 1, p + 1)) =
        IF isConfigFrame(f) THEN Append(ConfigView(sent), f) ELSE ConfigView(sent)
  BY <1>7, <1>8, ViewAppend
<1>10. CASE p + 1 = Len(a)
  <2>1. f.kind = "config_complete" /\ f.id = n
    BY <1>2, <1>4, <1>5, <1>10
  <2>2. Tail(rest) = <<>>
    BY <1>2, <1>4, <1>6, <1>10
  <2>3. SubSeq(a, 1, p + 1) = a
    BY <1>2, <1>10, SubSeqFull
  <2>4. ConfigView(a) = Append(ConfigView(sent), f)
    BY <1>9, <2>1, <2>3 DEF isConfigFrame, ConfigKinds
  <2>5. ASSUME NEW r \in 0 .. Len(view), LastEnd(view, r)
        PROVE  Append(SubSeq(view, r + 1, Len(view)), f) = ConfigView(a)
    <3>1. Len(view) \in Nat /\ EndsOf(view) \subseteq 1 .. Len(view)
      BY DEF EndsOf
    <3>2. r = q
      BY <1>3, <2>5, <3>1 DEF LastEnd
    <3> QED
      BY <1>3, <2>4, <3>2 DEF sent
  <2> QED
    BY <1>6, <1>7, <2>1, <2>2, <2>5 DEF a, f
<1>11. CASE p + 1 # Len(a)
  <2>1. p + 1 \in 0 .. Len(a) - 1
    BY <1>2, <1>4, <1>11
  <2>2. f.kind # "config_complete"
    BY <1>2, <1>4, <1>5, <1>11
  <2>3. LastEnd(more, q) /\ q \in 0 .. Len(more)
        /\ SubSeq(more, q + 1, Len(more)) = ConfigView(SubSeq(a, 1, p + 1))
    <3>1. CASE isConfigFrame(f)
      <4>1. more = Append(view, f) /\ q \in 0 .. Len(Append(view, f))
        BY <1>7, <3>1
      <4>2. /\ LastEnd(Append(view, f), q)
            /\ SubSeq(Append(view, f), q + 1, Len(Append(view, f))) = Append(SubSeq(view, q + 1, Len(view)), f)
        BY <1>3, <1>7, <2>2, LastEndAppend
      <4> QED
        BY <1>3, <1>9, <3>1, <4>1, <4>2 DEF sent
    <3>2. CASE ~isConfigFrame(f)
      BY <1>3, <1>9, <3>2 DEF sent
    <3> QED
      BY <3>1, <3>2
  <2>4. Tail(rest) = SubSeq(a, (p + 1) + 1, Len(a))
    <3>1. (p + 1) + 1 = p + 2
      BY <1>4
    <3> QED
      BY <1>5, <3>1
  <2> HIDE DEF more
  <2>5. Progress(more, Tail(rest), n)
    BY <2>1, <2>3, <2>4 DEF Progress, a
  <2>6. Tail(rest) # <<>>
    <3>1. Len(rest) >= 2 /\ Len(rest) \in Nat
      BY <1>2, <1>4, <1>6, <1>11
    <3> DEFINE t == Tail(rest)
    <3>2. Len(t) = Len(rest) - 1
      BY <1>6, HeadTailProperties
    <3> HIDE DEF t
    <3>3. Len(t) # 0
      BY <3>1, <3>2
    <3>4. t # <<>>
      BY <3>3
    <3> QED
      BY <3>4 DEF t
  <2> QED
    BY <1>6, <1>7, <2>2, <2>5, <2>6 DEF f, more
<1> QED
  BY <1>10, <1>11

\* One turn of the loop of replayChatHistory.
Turn(s, e) == s \o <<e.message>> \o e.ack

\* u is what the loop of replayChatHistory has sent after each entry.
HistoryOf(u, cache) ==
  /\ u \in [0 .. Len(cache) -> Seq(Frame)] /\ u[0] = <<>> /\ ChatHistory(cache) = u[Len(cache)]
  /\ \A i \in 1 .. Len(cache) : u[i] = Turn(u[i - 1], cache[i])

\* A turn appends the message and its ACK.
LEMMA TurnFacts ==
  ASSUME NEW s \in Seq(Frame), NEW e \in ChatEntry
  PROVE  /\ Turn(s, e) \in Seq(Frame)
         /\ Len(Turn(s, e)) = Len(s) + 1 + Len(e.ack)
         /\ \A i \in 1 .. Len(s) : Turn(s, e)[i] = s[i]
         /\ Turn(s, e)[Len(s) + 1] = e.message
         /\ \A i \in 1 .. Len(e.ack) : Turn(s, e)[Len(s) + 1 + i] = e.ack[i]
<1> DEFINE m == s \o <<e.message>>
           k == e.ack
<1>1. e.message \in Frame /\ k \in Seq(Frame) /\ Len(k) \in Nat /\ Len(s) \in Nat
  BY DEF ChatEntry
<1>2. /\ m \in Seq(Frame) /\ Len(m) = Len(s) + 1 /\ m[Len(s) + 1] = e.message
      /\ \A i \in 1 .. Len(s) : m[i] = s[i]
  BY <1>1
<1> HIDE DEF m, k
<1>3. /\ m \o k \in Seq(Frame) /\ Len(m \o k) = Len(m) + Len(k)
      /\ \A i \in 1 .. Len(m) + Len(k) : (m \o k)[i] = IF i <= Len(m) THEN m[i] ELSE k[i - Len(m)]
  BY <1>1, <1>2, ConcatProperties
<1> DEFINE r == m \o k
<1>4. Turn(s, e) = r
  BY DEF Turn, m, k
<1> HIDE DEF r
<1>5. /\ r \in Seq(Frame) /\ Len(r) = Len(s) + 1 + Len(k)
      /\ \A i \in 1 .. Len(s) + 1 + Len(k) : r[i] = IF i <= Len(s) + 1 THEN m[i] ELSE k[i - (Len(s) + 1)]
  BY <1>2, <1>3 DEF r
<1>6. \A i \in 1 .. Len(s) : r[i] = s[i]
  BY <1>1, <1>2, <1>5
<1>7. r[Len(s) + 1] = e.message
  BY <1>1, <1>2, <1>5
<1>8. ASSUME NEW i \in 1 .. Len(k) PROVE r[Len(s) + 1 + i] = k[i]
  <2>1. /\ Len(s) + 1 + i \in 1 .. Len(s) + 1 + Len(k) /\ ~(Len(s) + 1 + i <= Len(s) + 1)
        /\ (Len(s) + 1 + i) - (Len(s) + 1) = i
    BY <1>1
  <2> QED
    BY <1>5, <2>1
<1> QED
  BY <1>4, <1>5, <1>6, <1>7, <1>8 DEF k

\* The recursive function in ChatHistory is that loop.
LEMMA HistoryLoop ==
  ASSUME NEW s \in Seq(ChatEntry)
  PROVE  \E u : HistoryOf(u, s)
<1> DEFINE N == Len(s)
           Upto(n, u) == /\ u \in [0 .. n -> Seq(Frame)] /\ u[0] = <<>>
                         /\ \A i \in 1 .. n : u[i] = Turn(u[i - 1], s[i])
           G == {n \in 0 .. N : \E u : Upto(n, u)}
<1>0. N \in Nat /\ \A i \in 1 .. N : s[i] \in ChatEntry
  OBVIOUS
<1>1. 0 \in G
  <2> DEFINE v == [i \in 0 .. 0 |-> <<>>]
  <2>1. v \in [0 .. 0 -> Seq(Frame)] /\ v[0] = <<>>
    OBVIOUS
  <2> HIDE DEF v
  <2>2. Upto(0, v)
    BY <2>1
  <2> HIDE DEF Upto
  <2> QED
    BY <1>0, <2>2
<1>2. ASSUME NEW n \in 1 .. N, n - 1 \in G PROVE n \in G
  <2>1. PICK u : Upto(n - 1, u)
    BY <1>2
  <2> DEFINE x == Turn(u[n - 1], s[n])
             v == [i \in 0 .. n |-> IF i = n THEN x ELSE u[i]]
  <2>2. n \in Nat /\ n - 1 \in 0 .. n - 1
    BY <1>0
  <2>3. x \in Seq(Frame)
    BY <1>0, <2>1, <2>2, TurnFacts
  <2> HIDE DEF x
  <2>4. v \in [0 .. n -> Seq(Frame)]
    BY <2>1, <2>2, <2>3
  <2>5. v[0] = <<>>
    BY <2>1, <2>2
  <2>6. ASSUME NEW i \in 1 .. n PROVE v[i] = Turn(v[i - 1], s[i])
    <3>1. i - 1 \in 0 .. n /\ i - 1 # n /\ v[i - 1] = u[i - 1]
      BY <2>2
    <3>2. CASE i = n
      BY <3>1, <3>2 DEF x
    <3>3. CASE i # n
      <4>1. i \in 1 .. n - 1 /\ v[i] = u[i]
        BY <2>2, <3>3
      <4> QED
        BY <2>1, <3>1, <4>1
    <3> QED
      BY <3>2, <3>3
  <2> HIDE DEF v
  <2>7. Upto(n, v)
    BY <2>4, <2>5, <2>6
  <2>8. n \in 0 .. N
    BY <1>0
  <2> HIDE DEF Upto
  <2> QED
    BY <2>7, <2>8
<1> HIDE DEF N, G
<1>3. N \in G
  <2>1. \A i \in 1 .. N : i - 1 \in G => i \in G
    BY <1>2
  <2>2. \A i \in 0 .. N : i \in G
    BY <1>0, <1>1, <2>1, UpTo
  <2> QED
    BY <1>0, <2>2
<1>4. PICK w : Upto(N, w)
  <2> HIDE DEF Upto
  <2> QED
    BY <1>3 DEF G
<1> DEFINE F(u) == [i \in 0 .. Len(s) |->
                      IF i = 0 THEN <<>>
                      ELSE u[i - 1] \o <<s[i].message>> \o s[i].ack]
           c == CHOOSE u : u = F(u)
<1>5. w = F(w)
  <2>1. DOMAIN w = 0 .. N /\ w \in [0 .. N -> Seq(Frame)] /\ w[0] = <<>>
    BY <1>4
  <2>2. ASSUME NEW i \in 0 .. N
        PROVE  w[i] = IF i = 0 THEN <<>> ELSE w[i - 1] \o <<s[i].message>> \o s[i].ack
    <3>1. i = 0 \/ i \in 1 .. N
      BY <1>0
    <3>2. CASE i = 0
      BY <2>1, <3>2
    <3>3. CASE i \in 1 .. N
      <4>1. w[i] = Turn(w[i - 1], s[i]) /\ i # 0
        BY <1>4, <3>3
      <4> QED
        BY <4>1, Zenon DEF Turn
    <3> QED
      BY <3>1, <3>2, <3>3
  <2> QED
    BY <2>1, <2>2 DEF N
<1> HIDE DEF F
<1>6. c = F(c)
  BY <1>5
<1>7. ChatHistory(s) = c[Len(s)]
  BY DEF ChatHistory, F
<1> HIDE DEF c
<1>8. DOMAIN F(c) = 0 .. N /\ F(c)[0] = <<>>
  BY <1>0 DEF F, N
<1>9. ASSUME NEW i \in 1 .. N PROVE c[i] = Turn(c[i - 1], s[i])
  <2>1. i \in 0 .. N /\ i # 0
    BY <1>0
  <2>2. F(c)[i] = c[i - 1] \o <<s[i].message>> \o s[i].ack
    BY <2>1 DEF F, N
  <2> QED
    BY <1>6, <2>2, Zenon DEF Turn
<1> DEFINE H == {i \in 0 .. N : c[i] \in Seq(Frame)}
<1>10. 0 \in H
  <2>1. c[0] = <<>>
    BY <1>6, <1>8, Zenon
  <2>2. <<>> \in Seq(Frame)
    OBVIOUS
  <2>3. c[0] \in Seq(Frame)
    BY <2>1, <2>2, Zenon
  <2>4. 0 \in 0 .. N
    BY <1>0
  <2> QED
    BY <2>3, <2>4, Zenon
<1>11. ASSUME NEW i \in 1 .. N, i - 1 \in H PROVE i \in H
  <2>1. c[i - 1] \in Seq(Frame) /\ s[i] \in ChatEntry /\ i \in 0 .. N
    BY <1>0, <1>11
  <2>2. Turn(c[i - 1], s[i]) \in Seq(Frame)
    BY <2>1, TurnFacts
  <2> QED
    BY <1>9, <2>1, <2>2
<1> HIDE DEF H
<1>12. \A i \in 0 .. N : i \in H
  <2>1. \A i \in 1 .. N : i - 1 \in H => i \in H
    BY <1>11
  <2> QED
    BY <1>0, <1>10, <2>1, UpTo
<1>13. c \in [0 .. N -> Seq(Frame)]
  <2>1. \A i \in 0 .. N : c[i] \in Seq(Frame)
    BY <1>12 DEF H
  <2>2. c = [i \in 0 .. N |-> c[i]]
    <3>1. F(c) = [i \in 0 .. N |-> F(c)[i]]
      BY DEF F, N
    <3> QED
      BY <1>6, <3>1
  <2> QED
    BY <2>1, <2>2
<1>14. c[0] = <<>> /\ ChatHistory(s) = c[N]
  BY <1>6, <1>7, <1>8 DEF N
<1>15. HistoryOf(c, s)
  BY <1>9, <1>13, <1>14 DEF N, HistoryOf
<1> QED
  BY <1>15

FrameOfEntry(f, e) == f = e.message \/ \E j \in DOMAIN e.ack : f = e.ack[j]

\* The history holds every cached message, and nothing but messages and ACKs.
LEMMA HistoryFacts ==
  ASSUME NEW s \in Seq(ChatEntry)
  PROVE  /\ ChatHistory(s) \in Seq(Frame)
         /\ \A k \in DOMAIN ChatHistory(s) : \E i \in DOMAIN s : FrameOfEntry(ChatHistory(s)[k], s[i])
         /\ \A i \in DOMAIN s : \E k \in DOMAIN ChatHistory(s) : ChatHistory(s)[k] = s[i].message
<1> DEFINE N == Len(s)
<1>1. N \in Nat /\ DOMAIN s = 1 .. N /\ \A i \in 1 .. N : s[i] \in ChatEntry
  OBVIOUS
<1> HIDE DEF N
<1>a. PICK u : HistoryOf(u, s)
  BY HistoryLoop
<1>2. /\ u \in [0 .. N -> Seq(Frame)] /\ u[0] = <<>> /\ ChatHistory(s) = u[N]
      /\ \A i \in 1 .. N : u[i] = Turn(u[i - 1], s[i])
  BY <1>a DEF HistoryOf, N
<1> DEFINE Good(n) == /\ \A k \in DOMAIN u[n] : \E i \in 1 .. n : FrameOfEntry(u[n][k], s[i])
                      /\ \A i \in 1 .. n : \E k \in DOMAIN u[n] : u[n][k] = s[i].message
           G == {n \in 0 .. N : Good(n)}
<1>3. 0 \in G
  <2>1. DOMAIN u[0] = {} /\ 1 .. 0 = {} /\ 0 \in 0 .. N
    BY <1>1, <1>2
  <2>2. Good(0)
    BY <2>1
  <2> HIDE DEF Good
  <2> QED
    BY <2>1, <2>2
<1>4. ASSUME NEW n \in 1 .. N, n - 1 \in G PROVE n \in G
  <2> DEFINE q == u[n - 1]
             e == s[n]
             r == Turn(q, e)
             L == Len(q)
             M == Len(e.ack)
  <2>1. /\ n - 1 \in 0 .. N /\ n \in 0 .. N /\ n \in Nat /\ e \in ChatEntry
        /\ q \in Seq(Frame) /\ Good(n - 1)
    BY <1>1, <1>2, <1>4
  <2>2. u[n] = r
    BY <1>2
  <2>3. /\ r \in Seq(Frame)
        /\ Len(r) = Len(q) + 1 + Len(e.ack)
        /\ \A i \in 1 .. Len(q) : r[i] = q[i]
        /\ r[Len(q) + 1] = e.message
        /\ \A i \in 1 .. Len(e.ack) : r[Len(q) + 1 + i] = e.ack[i]
    BY <2>1, TurnFacts
  <2>4. /\ Len(q) \in Nat /\ DOMAIN q = 1 .. Len(q) /\ Len(e.ack) \in Nat
        /\ DOMAIN e.ack = 1 .. Len(e.ack)
    BY <2>1 DEF ChatEntry
  <2>5. /\ L \in Nat /\ M \in Nat /\ DOMAIN q = 1 .. L /\ DOMAIN e.ack = 1 .. M
        /\ DOMAIN r = 1 .. L + 1 + M /\ r[L + 1] = e.message
        /\ \A i \in 1 .. L : r[i] = q[i]
        /\ \A i \in 1 .. M : r[L + 1 + i] = e.ack[i]
    <3> HIDE DEF q, e, r
    <3>1. DOMAIN r = 1 .. Len(r)
      BY <2>3
    <3>2. DOMAIN r = 1 .. L + 1 + M
      BY <2>3, <3>1, Zenon
    <3> QED
      BY <2>3, <2>4, <3>2, Zenon
  <2> HIDE DEF q, e, r, L, M
  <2>6. ASSUME NEW k \in DOMAIN r PROVE \E i \in 1 .. n : FrameOfEntry(r[k], s[i])
    <3>1. CASE k <= L
      <4>1. k \in DOMAIN q /\ r[k] = q[k]
        BY <2>5, <3>1
      <4>2. PICK i \in 1 .. n - 1 : FrameOfEntry(q[k], s[i])
        BY <2>1, <4>1 DEF q
      <4>3. i \in 1 .. n
        BY <2>1
      <4> QED
        BY <4>1, <4>2, <4>3
    <3>2. CASE k = L + 1
      <4>1. FrameOfEntry(r[k], s[n]) /\ n \in 1 .. n
        BY <2>1, <2>5, <3>2 DEF FrameOfEntry, e
      <4> QED
        BY <4>1
    <3>3. CASE k > L + 1
      <4> DEFINE j == k - (L + 1)
      <4>1. j \in 1 .. M /\ k = L + 1 + j
        BY <2>5, <3>3
      <4> HIDE DEF j
      <4>2. r[k] = e.ack[j] /\ j \in DOMAIN e.ack
        BY <2>5, <4>1
      <4>3. FrameOfEntry(r[k], s[n]) /\ n \in 1 .. n
        BY <2>1, <4>2 DEF FrameOfEntry, e
      <4> QED
        BY <4>3
    <3> QED
      BY <2>5, <3>1, <3>2, <3>3
  <2>7. ASSUME NEW i \in 1 .. n PROVE \E k \in DOMAIN r : r[k] = s[i].message
    <3>1. CASE i = n
      <4>1. L + 1 \in DOMAIN r
        BY <2>5
      <4> QED
        BY <2>5, <3>1, <4>1 DEF e
    <3>2. CASE i # n
      <4>1. i \in 1 .. n - 1
        BY <2>1, <3>2
      <4>2. PICK k \in DOMAIN q : q[k] = s[i].message
        BY <2>1, <4>1 DEF q
      <4>3. k \in DOMAIN r /\ r[k] = q[k]
        BY <2>5
      <4> QED
        BY <4>2, <4>3
    <3> QED
      BY <3>1, <3>2
  <2>8. Good(n)
    BY <2>2, <2>6, <2>7
  <2> HIDE DEF Good
  <2> QED
    BY <2>1, <2>8
<1> HIDE DEF G
<1>5. N \in G
  <2>1. \A i \in 1 .. N : i - 1 \in G => i \in G
    BY <1>4
  <2>2. \A i \in 0 .. N : i \in G
    BY <1>1, <1>3, <2>1, UpTo
  <2> QED
    BY <1>1, <2>2
<1>6. Good(N) /\ u[N] \in Seq(Frame)
  BY <1>1, <1>2, <1>5 DEF G
<1> QED
  BY <1>1, <1>2, <1>6

\* What caching a frame leaves of the cache: old entries, perhaps with the frame
\* as ACK, and perhaps an entry for it.
LEMMA CachedEntries ==
  ASSUME NEW s \in Seq(ChatEntry), NEW f \in Frame, NEW r,
         r = cacheACK(s, f) \/ (r = cacheTextMessage(s, f) /\ (MaxChatCache = 0 => s = <<>>))
  PROVE  \A i \in DOMAIN r :
           \/ r[i].message = f /\ r[i].ack = <<>>
           \/ \E j \in DOMAIN s : r[i].message = s[j].message /\ r[i].ack \in {s[j].ack, <<f>>}
<1>1. CASE r = cacheTextMessage(s, f) /\ (MaxChatCache = 0 => s = <<>>)
  <2> DEFINE e == [message |-> f, ack |-> <<>>]
  <2>1. PICK k \in Nat : \A i \in DOMAIN r :
          /\ i \in Nat /\ i + k \in 1 .. Len(s) + 1
          /\ r[i] = IF i + k <= Len(s) THEN s[i + k] ELSE e
    BY <1>1, CachedText
  <2>2. Len(s) \in Nat /\ DOMAIN s = 1 .. Len(s) /\ e.message = f /\ e.ack = <<>>
    OBVIOUS
  <2> HIDE DEF e
  <2>3. ASSUME NEW i \in DOMAIN r, i + k <= Len(s) PROVE i + k \in DOMAIN s /\ r[i] = s[i + k]
    BY <2>1, <2>2, <2>3
  <2> QED
    BY <2>1, <2>2, <2>3
<1>2. CASE r = cacheACK(s, f)
  <2> DEFINE open == {i \in DOMAIN s : s[i].message.id = f.id /\ s[i].ack = <<>>}
             k == CHOOSE i \in open : \A j \in open : j <= i
  <2>1. r = IF MaxChatCache = 0 \/ open = {} THEN s ELSE [s EXCEPT ![k].ack = <<f>>]
    BY <1>2 DEF cacheACK
  <2> HIDE DEF open, k
  <2>2. \A i \in DOMAIN s : s[i] \in ChatEntry
    OBVIOUS
  <2>3. CASE r = s
    BY <2>3
  <2>4. CASE r = [s EXCEPT ![k].ack = <<f>>]
    <3>1. DOMAIN r = DOMAIN s
      BY <2>4
    <3>2. ASSUME NEW i \in DOMAIN s
          PROVE  r[i].message = s[i].message /\ r[i].ack \in {s[i].ack, <<f>>}
      <4>1. CASE i = k
        BY <2>2, <2>4, <4>1 DEF ChatEntry
      <4>2. CASE i # k
        BY <2>4, <4>2
      <4> QED
        BY <4>1, <4>2
    <3> QED
      BY <3>1, <3>2
  <2> QED
    BY <2>1, <2>3, <2>4
<1> QED
  BY <1>1, <1>2

\* The threads that replay are one per client and request, and no others.
LEMMA ReplayerFacts ==
  /\ \A c \in Client, k \in 1 .. MaxWants :
       Replayer(c, k) \in Replayers /\ Role(Replayer(c, k)) = "replayer" /\ Owner(Replayer(c, k)) = c
  /\ \A c, d \in Client, j, k \in 1 .. MaxWants :
       Replayer(c, j) = Replayer(d, k) => c = d /\ j = k
  /\ \A t \in Replayers : /\ \E k \in 1 .. MaxWants : t = Replayer(Owner(t), k)
                          /\ Owner(t) \in Client /\ t \in Thread /\ Role(t) = "replayer"
  /\ Acceptor \notin Replayers /\ Broadcaster \notin Replayers
  /\ \A c \in Client : Reader(c) \notin Replayers /\ Waiter(c) \notin Replayers
  /\ \A t \in Thread : Role(t) = "broadcaster" => t = Broadcaster
BY DEF Replayer, Replayers, Role, Owner, Acceptor, Broadcaster, Reader, Waiter, Thread,
       Readers, Waiters

\* ReplayIInv in two parts: of all, and of one client.
SharedRight ==
  /\ QueueTypes /\ ChatIsNoConfig /\ OutRight /\ OneReplay
  /\ \A t \in Replayers : ReplayerRight(t)

ClientRight(c) ==
  /\ conn[c] = "none" => send[c] = <<>>
  /\ conn[c] = "open" => QueueWhole(c) /\ PhasesRight(c)

\* More answers are allowed when more was asked for.
LEMMA PiecesGrow ==
  ASSUME NEW view, NEW A, NEW B, A \subseteq B, Pieces(view, A)
  PROVE  Pieces(view, B)
BY DEF Pieces

\* What a client was sent stays right while its replays rest and no config frame
\* is sent to it; a new request may come in.
LEMMA SameView ==
  ASSUME NEW c \in Client, ClientRight(c),
         ConfigView(send[c])' = ConfigView(send[c]), \A n : Completed(c, n)' = Completed(c, n),
         conn[c] = "none" => send'[c] = send[c],
         configPhase'[c] = configPhase[c], conn'[c] \in {conn[c], "closed"},
         \A k \in 1 .. MaxWants : LET t == Replayer(c, k) IN
           \/ pc'[t] = pc[t] /\ out'[t] = out[t] /\ nonce'[t] = nonce[t]
           \/ pc[t] = "off" /\ pc'[t] = "wait"
  PROVE  ClientRight(c)'
<1> SUFFICES ASSUME conn'[c] = "open" PROVE QueueWhole(c)' /\ PhasesRight(c)'
  BY DEF ClientRight
<1>1. QueueWhole(c) /\ PhasesRight(c)
  BY DEF ClientRight
<1> DEFINE view == ConfigView(send[c])
<1>2. ConfigView(send[c])' = view
  OBVIOUS
<1>3. Asked(c) \subseteq Asked(c)'
  <2>1. ASSUME NEW k \in 1 .. MaxWants, pc[Replayer(c, k)] # "off"
        PROVE  pc'[Replayer(c, k)] # "off" /\ nonce'[Replayer(c, k)] = nonce[Replayer(c, k)]
    BY <2>1
  <2> QED
    BY <2>1 DEF Asked
<1>4. AnswersTo(Asked(c)) \subseteq AnswersTo(Asked(c)')
  BY <1>3 DEF AnswersTo
<1>5. Pieces(view, AnswersTo(Asked(c)'))
  BY <1>1, <1>4, PiecesGrow DEF QueueWhole
<1>6. \A k \in 1 .. MaxWants : LET t == Replayer(c, k) IN
        /\ pc'[t] = "config" => pc[t] = "config" /\ out'[t] = out[t] /\ nonce'[t] = nonce[t]
        /\ pc'[t] = "done" => pc[t] = "done" /\ nonce'[t] = nonce[t]
        /\ pc'[t] \notin {"config", "close"} => pc[t] \notin {"config", "close"}
  OBVIOUS
<1> HIDE DEF view
<1>7. QueueWhole(c)'
  <2>1. \A k \in 1 .. MaxWants : LET t == Replayer(c, k) IN
          pc'[t] = "config" => \/ out'[t] = <<>> /\ LastEnd(view, Len(view))
                               \/ Progress(view, out'[t], nonce'[t])
    BY <1>1, <1>6 DEF QueueWhole, view
  <2>2. (\A k \in 1 .. MaxWants : pc'[Replayer(c, k)] \notin {"config", "close"}) => LastEnd(view, Len(view))
    BY <1>1, <1>6 DEF QueueWhole, view
  <2> QED
    BY <1>2, <1>5, <2>1, <2>2 DEF QueueWhole
<1>8. \A n : Completed(c, n)' = Completed(c, n)
  OBVIOUS
<1>9. PhasesRight(c)'
  BY <1>1, <1>6, <1>8 DEF PhasesRight
<1> QED
  BY <1>7, <1>9

\* What a client was sent stays right while its queue and its replays rest; a
\* new request may come in.
LEMMA SameClient ==
  ASSUME NEW c \in Client, ClientRight(c),
         send'[c] = send[c], configPhase'[c] = configPhase[c], conn'[c] \in {conn[c], "closed"},
         \A k \in 1 .. MaxWants : LET t == Replayer(c, k) IN
           \/ pc'[t] = pc[t] /\ out'[t] = out[t] /\ nonce'[t] = nonce[t]
           \/ pc[t] = "off" /\ pc'[t] = "wait"
  PROVE  ClientRight(c)'
<1>1. ConfigView(send[c])' = ConfigView(send[c])
  BY DEF ConfigView
<1>2. \A n : Completed(c, n)' = Completed(c, n)
  BY DEF Completed
<1> QED
  BY <1>1, <1>2, SameView

\* The invariant is that of all and of every client.
LEMMA SplitReplay == ReplayIInv <=> SharedRight /\ \A c \in Client : ClientRight(c)
BY DEF ReplayIInv, SharedRight, ClientRight

\* The same after a step.
LEMMA SplitReplayNext == ReplayIInv' <=> SharedRight' /\ \A c \in Client : ClientRight(c)'
BY DEF ReplayIInv, SharedRight, ClientRight

\* What the replays and broadcasts work on.
frameVars == <<out, send, nonce, configPhase, chatCache>>

\* A step of threads that replay nothing, which leaves queues and frames alone.
LEMMA QuietKeepsShared ==
  ASSUME SharedRight, UNCHANGED frameVars, configCache' \in Caches \cup {<<>>},
         \A t \in Replayers : pc'[t] = pc[t] /\ target'[t] = target[t],
         \A t \in Thread : Carries(t)' => Carries(t)
  PROVE  SharedRight'
<1>1. QueueTypes' /\ ChatIsNoConfig'
  BY DEF SharedRight, QueueTypes, ChatIsNoConfig, frameVars
<1>2. OutRight'
  BY DEF SharedRight, OutRight, NoConfig, frameVars
<1>3. OneReplay'
  BY ReplayerFacts DEF SharedRight, OneReplay, Replaying
<1>4. \A t \in Replayers : ReplayerRight(t)'
  BY DEF SharedRight, ReplayerRight, Closing, frameVars
<1> QED
  BY <1>1, <1>2, <1>3, <1>4 DEF SharedRight

\* The same for what the clients were sent.
LEMMA QuietKeepsReplay ==
  ASSUME ReplayIInv, UNCHANGED frameVars, configCache' \in Caches \cup {<<>>},
         \A t \in Replayers : pc'[t] = pc[t] /\ target'[t] = target[t],
         \A t \in Thread : Carries(t)' => Carries(t),
         \A c \in Client : conn'[c] \in {conn[c], "closed"}
  PROVE  ReplayIInv'
<1>1. SharedRight /\ \A c \in Client : ClientRight(c)
  BY SplitReplay
<1>2. ASSUME NEW c \in Client PROVE ClientRight(c)'
  <2>1. ClientRight(c) /\ send'[c] = send[c] /\ configPhase'[c] = configPhase[c]
    BY <1>1 DEF frameVars
  <2>2. \A k \in 1 .. MaxWants : LET t == Replayer(c, k) IN
          pc'[t] = pc[t] /\ out'[t] = out[t] /\ nonce'[t] = nonce[t]
    BY ReplayerFacts DEF frameVars
  <2> QED
    BY <2>1, <2>2, SameClient
<1> QED
  BY <1>1, <1>2, QuietKeepsShared, SplitReplayNext

\* One thread moves on, and begins no broadcast.
LEMMA MoveKeepsReplay ==
  ASSUME RegistryInv, ReplayIInv, NEW t \in Thread \ Replayers, NEW label, Goto(t, label),
         \A u \in Thread \ {t} : target'[u] = target[u] /\ (u \in rlocked' <=> u \in rlocked),
         ~Carries(t) => /\ label \notin {"rlock", "iterate"} /\ t \notin rlocked'
                        /\ t = Broadcaster => label \notin {"close", "unregister", "store"},
         UNCHANGED <<out, send, nonce, configPhase, chatCache, configCache>>,
         \A c \in Client : conn'[c] \in {conn[c], "closed"}
  PROVE  ReplayIInv'
<1>1. pc' = [pc EXCEPT ![t] = label] /\ pc \in [Thread -> Labels]
  BY DEF Goto, RegistryInv, RegistryTypes
<1>2. pc'[t] = label /\ \A u \in Thread \ {t} : pc'[u] = pc[u]
  BY <1>1
<1>3. ASSUME NEW u \in Thread, Carries(u)' PROVE Carries(u)
  <2>1. CASE u = t
    BY <1>2, <1>3, <2>1 DEF Carries, Closing
  <2>2. CASE u # t
    BY <1>2, <1>3, <2>2 DEF Carries, Closing
  <2> QED
    BY <2>1, <2>2
<1>4. \A u \in Replayers : pc'[u] = pc[u] /\ target'[u] = target[u]
  BY <1>2, ReplayerFacts
<1>5. UNCHANGED frameVars /\ configCache' \in Caches \cup {<<>>}
  BY DEF frameVars, ReplayIInv, QueueTypes
<1> QED
  BY <1>3, <1>4, <1>5, QuietKeepsReplay

\* The write loop and the environment.
LEMMA OtherKeepsReplay ==
  ASSUME ReplayIInv,
         \/ \E t \in Thread : LockWaits(t)
         \/ \E f \in NodeFrame : SuppressConfigFrame(f)
         \/ \E c \in Client : WriterStops(c) \/ WriteFrame(c) \/ WriteBlocks(c) \/ WriteUnblocks(c)
         \/ LearnNodeNum
         \/ \E cache \in Caches : ReplaceConfigCache(cache)
         \/ Cancel \/ Finished \/ UNCHANGED vars
  PROVE  ReplayIInv'
<1>1. UNCHANGED <<frameVars, pc, target, rlocked, conn>>
  BY
    DEF LockWaits, SuppressConfigFrame, WriterStops, WriteFrame, WriteBlocks,
        WriteUnblocks, LearnNodeNum, ReplaceConfigCache, Cancel, Finished, vars,
        registryVars, threadVars, connVars, frameVars, queueVars, replayVars, lockVars
<1>2. configCache' \in Caches \cup {<<>>}
  BY
    DEF LockWaits, SuppressConfigFrame, WriterStops, WriteFrame, WriteBlocks,
        WriteUnblocks, LearnNodeNum, ReplaceConfigCache, Cancel, Finished, vars,
        nodeVars, ReplayIInv, QueueTypes
<1>3. \A t \in Thread : Carries(t)' => Carries(t)
  BY <1>1 DEF Carries, Closing
<1> QED
  BY <1>1, <1>2, <1>3, QuietKeepsReplay

\* The acceptor, and the stop of the broadcast loop.
LEMMA AcceptorKeepsReplay ==
  ASSUME RegistryInv, ReplayIInv,
         RejectConn \/ RegisterClient \/ BeginShutdown \/ CloseNext \/ RunReturns
  PROVE  ReplayIInv'
<1>1. PICK label \in {"accept", "start", "closeall", "close", "wait", "returned"} : Goto(Acceptor, label)
  BY DEF RejectConn, RegisterClient, BeginShutdown, CloseNext, RunReturns
<1>2. /\ UNCHANGED <<out, send, nonce, configPhase, chatCache, configCache, rlocked>>
      /\ \A u \in Thread \ {Acceptor} : target'[u] = target[u]
  BY
    DEF RejectConn, RegisterClient, BeginShutdown, CloseNext, RunReturns, lockVars,
        queueVars, replayVars, nodeVars, RegistryInv, RegistryTypes
<1>3. \A c \in Client : conn'[c] \in {conn[c], "closed"}
  BY
    DEF RejectConn, RegisterClient, BeginShutdown, CloseNext, RunReturns, ConnClosed,
        connVars, RegistryInv, RegistryTypes
<1>4. Acceptor \in Thread \ Replayers /\ Acceptor # Broadcaster
  BY ThreadFacts, ReplayerFacts
<1>5. Acceptor \in rlocked => Carries(Acceptor)
  BY DEF Carries
<1> QED
  BY <1>1, <1>2, <1>3, <1>4, <1>5, MoveKeepsReplay

\* The goroutines of a new client start.
LEMMA StartKeepsReplay ==
  ASSUME RegistryInv, ReplayIInv, StartClient
  PROVE  ReplayIInv'
<1> DEFINE c == target[Acceptor]
           T == {Acceptor, Reader(c), Waiter(c)}
<1>1. c \in Client
  BY DEF RegistryInv, TargetsMakeSense, StartClient
<1>2. /\ UNCHANGED <<frameVars, rlocked, conn, configCache>>
      /\ \A u \in Thread \ T : pc'[u] = pc[u] /\ target'[u] = target[u]
      /\ pc'[Acceptor] = "accept" /\ pc'[Reader(c)] = "top" /\ pc'[Waiter(c)] = "wait"
  BY <1>1, ThreadFacts, WaiterFacts
    DEF StartClient, lockVars, queueVars, replayVars, nodeVars, RegistryInv, RegistryTypes,
        frameVars
<1>3. \A u \in Replayers : u \in Thread \ T
  BY <1>1, ReplayerFacts
<1>4. ASSUME NEW u \in Thread, Carries(u)' PROVE Carries(u)
  BY <1>2, <1>4, ThreadFacts, WaiterFacts DEF Carries, Closing
<1>5. configCache' \in Caches \cup {<<>>}
  BY <1>2 DEF ReplayIInv, QueueTypes
<1> QED
  BY <1>2, <1>3, <1>4, <1>5, QuietKeepsReplay

\* The loops of a client outside a broadcast, and its waiter.
LEMMA LoopKeepsReplay ==
  ASSUME RegistryInv, ReplayIInv, NEW c \in Client,
         \/ ReaderLoop(c) \/ ReadFails(c) \/ ForwardToNode(c) \/ WaiterCloses(c)
         \/ \E m \in ToRadio : ReadDisconnect(c, m) \/ ReadHeartbeat(c, m)
  PROVE  ReplayIInv'
<1>1. PICK t \in {Reader(c), Waiter(c)}, label \in {"done", "read", "top", "close", "forward"} :
        /\ Goto(t, label)
        /\ \A u \in Thread \ {t} : target'[u] = target[u]
  <2>1. target \in [Thread -> Client \cup {NoClient}]
    BY DEF RegistryInv, RegistryTypes
  <2>2. CASE ReaderLoop(c) \/ ReadFails(c) \/ ForwardToNode(c)
    BY <2>2 DEF ReaderLoop, ReadFails, ForwardToNode, ReaderExits
  <2>3. CASE WaiterCloses(c)
    BY <2>1, <2>3 DEF WaiterCloses
  <2>4. CASE \E m \in ToRadio : ReadDisconnect(c, m) \/ ReadHeartbeat(c, m)
    BY <2>1, <2>4 DEF ReadDisconnect, ReadHeartbeat
  <2> QED
    BY <2>2, <2>3, <2>4
<1>2. UNCHANGED <<out, send, nonce, configPhase, chatCache, configCache, rlocked, conn>>
  BY
    DEF ReaderLoop, ReadFails, ForwardToNode, WaiterCloses, ReadDisconnect, ReadHeartbeat,
        lockVars, queueVars, replayVars, nodeVars, connVars
<1>3. t \in Thread \ Replayers /\ t # Broadcaster
  BY ThreadFacts, WaiterFacts, ReplayerFacts
<1>4. t \in rlocked => Carries(t)
  BY DEF Carries
<1> QED
  BY <1>1, <1>2, <1>3, <1>4, MoveKeepsReplay

\* The broadcast loop stops; a broadcast takes the read lock.
LEMMA RangeKeepsReplay ==
  ASSUME RegistryInv, ReplayIInv, StopBroadcast \/ \E t \in Thread : RLock(t)
  PROVE  ReplayIInv'
<1>1. CASE StopBroadcast
  <2>1. Goto(Broadcaster, "done") /\ Broadcaster \in Thread \ Replayers
        /\ (Broadcaster \in rlocked => Carries(Broadcaster))
    BY <1>1, ThreadFacts, ReplayerFacts DEF StopBroadcast, Carries
  <2>2. UNCHANGED <<out, send, nonce, configPhase, chatCache, configCache, rlocked, conn, target>>
    BY <1>1 DEF StopBroadcast, lockVars, queueVars, replayVars, nodeVars, connVars
  <2> QED
    BY <2>1, <2>2, MoveKeepsReplay
<1>2. ASSUME NEW t \in Thread, RLock(t) PROVE ReplayIInv'
  <2>1. Goto(t, "iterate") /\ Carries(t) /\ \A u \in Thread \ {t} : u \in rlocked' <=> u \in rlocked
    BY <1>2 DEF RLock, Carries
  <2>2. UNCHANGED <<out, send, nonce, configPhase, chatCache, configCache, conn, target>>
    BY <1>2 DEF RLock, lockVars, queueVars, replayVars, nodeVars, connVars
  <2>3. t \notin Replayers
    BY <2>1 DEF ReplayIInv, OutRight
  <2> QED
    BY <2>1, <2>2, <2>3, MoveKeepsReplay
<1> QED
  BY <1>1, <1>2

\* A step of a replay goroutine: only its own client is concerned.
LEMMA ReplayerKeepsReplay ==
  ASSUME RegistryInv, ReplayIInv, NEW t \in Replayers, NEW label \in Labels, Goto(t, label),
         UNCHANGED <<rlocked, chatCache, configCache, nonce>>,
         \A u \in Thread \ {t} : target'[u] = target[u] /\ out'[u] = out[u],
         out' \in [Thread -> Seq(Frame)], send' \in [Client -> Seq(Frame)],
         configPhase' \in [Client -> SUBSET {"config", "nodes"}],
         configPhase[Owner(t)] \subseteq configPhase'[Owner(t)],
         \A d \in Client \ {Owner(t)} : send'[d] = send[d] /\ configPhase'[d] = configPhase[d],
         \A d \in Client : conn'[d] \in {conn[d], "closed"},
         label \notin {"rlock", "iterate"},
         label # "config" => NoConfig(out'[t]),
         label \notin {"off", "wait", "done", "chatted", "empty"} => Replaying(t) \/ ReplayMuFree(Owner(t)),
         ReplayerRight(t)', ClientRight(Owner(t))'
  PROVE  ReplayIInv'
<1> DEFINE c == Owner(t)
<1>1. SharedRight /\ \A d \in Client : ClientRight(d)
  BY SplitReplay
<1>2. pc'[t] = label /\ \A u \in Thread \ {t} : pc'[u] = pc[u]
  BY ReplayerFacts DEF Goto, RegistryInv, RegistryTypes
<1>3. \A u \in Replayers \ {t} : pc'[u] = pc[u] /\ target'[u] = target[u] /\ out'[u] = out[u]
  BY <1>2, ReplayerFacts
<1>4. ASSUME NEW d \in Client PROVE ClientRight(d)'
  <2>1. CASE d = c
    BY <2>1
  <2>2. CASE d # c
    <3>1. ClientRight(d) /\ send'[d] = send[d] /\ configPhase'[d] = configPhase[d]
      BY <1>1, <2>2
    <3>2. ASSUME NEW k \in 1 .. MaxWants
          PROVE  LET u == Replayer(d, k) IN
                 pc'[u] = pc[u] /\ out'[u] = out[u] /\ nonce'[u] = nonce[u]
      <4>1. Replayer(d, k) \in Replayers /\ Replayer(d, k) # t
        BY <2>2, ReplayerFacts
      <4> QED
        BY <1>3, <4>1
    <3> QED
      BY <3>1, <3>2, SameClient
  <2> QED
    BY <2>1, <2>2
<1>5. QueueTypes' /\ ChatIsNoConfig'
  BY <1>1 DEF SharedRight, QueueTypes, ChatIsNoConfig, NoConfig
<1>6. OutRight'
  <2>1. ASSUME NEW u \in Thread
        PROVE  /\ Carries(u)' => u \notin Replayers /\ out'[u] # <<>>
               /\ u \notin Replayers \/ pc'[u] # "config" => NoConfig(out'[u])
    <3>1. CASE u = t
      <4>1. t # Broadcaster /\ t \notin rlocked /\ t \in Thread
        BY <1>1, ReplayerFacts DEF SharedRight, OutRight, Carries
      <4>2. ~Carries(t)'
        BY <1>2, <4>1 DEF Carries, Closing
      <4> QED
        BY <1>2, <3>1, <4>2
    <3>2. CASE u # t
      <4>1. pc'[u] = pc[u] /\ out'[u] = out[u] /\ (Carries(u)' => Carries(u))
        BY <1>2, <3>2 DEF Carries, Closing
      <4> QED
        BY <1>1, <4>1 DEF SharedRight, OutRight
    <3> QED
      BY <3>1, <3>2
  <2> QED
    BY <2>1 DEF OutRight, NoConfig
<1>7. OneReplay'
  <2> SUFFICES ASSUME NEW d \in Client, NEW j \in 1 .. MaxWants, NEW k \in 1 .. MaxWants,
                      Replaying(Replayer(d, j))', Replaying(Replayer(d, k))', j # k
               PROVE  FALSE
    BY DEF OneReplay
  <2>1. ASSUME NEW i \in 1 .. MaxWants, NEW l \in 1 .. MaxWants, i # l, t = Replayer(d, i),
               Replaying(Replayer(d, i))', Replaying(Replayer(d, l))'
        PROVE  FALSE
    <3>1. Replayer(d, l) \in Replayers \ {t} /\ c = d
      BY <2>1, ReplayerFacts
    <3>2. Replaying(Replayer(d, l))
      BY <1>3, <2>1, <3>1 DEF Replaying
    <3>3. ~ReplayMuFree(d)
      BY <3>2 DEF ReplayMuFree, Replaying
    <3>4. Replaying(t)
      BY <1>2, <2>1, <3>1, <3>3 DEF Replaying
    <3> QED
      BY <1>1, <2>1, <3>2, <3>4 DEF SharedRight, OneReplay
  <2>2. t # Replayer(d, j) /\ t # Replayer(d, k)
    BY <2>1
  <2>3. Replaying(Replayer(d, j)) /\ Replaying(Replayer(d, k))
    BY <1>3, <2>2, ReplayerFacts DEF Replaying
  <2> QED
    BY <1>1, <2>3 DEF SharedRight, OneReplay
<1>8. ASSUME NEW u \in Replayers PROVE ReplayerRight(u)'
  <2>1. CASE u # t
    <3>1. pc'[u] = pc[u] /\ target'[u] = target[u] /\ out'[u] = out[u] /\ ReplayerRight(u)
      BY <1>1, <1>3, <2>1 DEF SharedRight
    <3>2. configPhase[Owner(u)] \subseteq configPhase'[Owner(u)]
      BY ReplayerFacts
    <3> QED
      BY <3>1, <3>2 DEF ReplayerRight, Closing
  <2> QED
    BY <2>1
<1> QED
  BY <1>4, <1>5, <1>6, <1>7, <1>8, SplitReplayNext DEF SharedRight

\* The steps of Close.
LEMMA CloseKeepsReplay ==
  ASSUME RegistryInv, ShutdownInv, ReplayIInv, NEW t \in Thread,
         CloseBegin(t) \/ Unregister(t) \/ StoreCount(t)
  PROVE  ReplayIInv'
<1>1. Closing(t) /\ target[t] \in Client
  BY DEF CloseBegin, Unregister, StoreCount, Closing, RegistryInv, TargetsMakeSense
<1>2. /\ UNCHANGED <<out, send, nonce, configPhase, chatCache, configCache, rlocked>>
      /\ \A u \in Thread \ {t} : target'[u] = target[u]
  BY
    DEF CloseBegin, Unregister, StoreCount, CloseReturns, lockVars, queueVars, replayVars,
        nodeVars, RegistryInv, RegistryTypes
<1>3. \A c \in Client : conn'[c] \in {conn[c], "closed"}
  BY DEF CloseBegin, Unregister, StoreCount, ConnClosed, connVars, RegistryInv, RegistryTypes
<1>4. PICK label \in {"unregister", "store", AfterClose(t)} : Goto(t, label)
  BY DEF CloseBegin, Unregister, StoreCount, CloseReturns
<1>5. CASE t \notin Replayers
  <2>1. ASSUME ~Carries(t)
        PROVE  label \notin {"rlock", "iterate"} /\ t \notin rlocked' /\ t # Broadcaster
    <3>1. t \notin rlocked /\ t # Broadcaster
      BY <1>1, <2>1 DEF Carries
    <3>2. AfterClose(t) \notin {"rlock", "iterate"}
      BY <3>1, ReplayerFacts DEF AfterClose
    <3> QED
      BY <1>2, <3>1, <3>2
  <2> QED
    BY <1>2, <1>3, <1>4, <1>5, <2>1, MoveKeepsReplay
<1>6. CASE t \in Replayers
  <2> DEFINE c == Owner(t)
  <2>1. /\ ReplayerRight(t) /\ target[t] = c /\ c \in Client /\ out[t] = <<>>
        /\ out \in [Thread -> Seq(Frame)] /\ send \in [Client -> Seq(Frame)]
        /\ configPhase \in [Client -> SUBSET {"config", "nodes"}]
    BY <1>1, <1>6, ReplayerFacts DEF ReplayIInv, ReplayerRight, Closing, QueueTypes
  <2>2. AfterClose(t) = "done"
    BY <1>6, ReplayerFacts DEF AfterClose
  <2>3. label \in {"unregister", "store", "done"}
    BY <1>4, <2>2
  <2>4. pc'[t] = label
    BY <1>4 DEF Goto, RegistryInv, RegistryTypes
  <2>5. conn'[c] = "closed"
    <3>1. CASE CloseBegin(t)
      <4>1. CASE once[c] = "new"
        BY <2>1, <3>1, <4>1 DEF CloseBegin, ConnClosed, RegistryInv, RegistryTypes
      <4>2. CASE once[c] = "done"
        BY <2>1, <3>1, <4>2 DEF CloseBegin, ShutdownInv, CloseClosesConn
      <4> QED
        BY <2>1, <3>1, <4>1, <4>2 DEF CloseBegin
    <3>2. CASE Unregister(t) \/ StoreCount(t)
      <4>1. once[target[t]] # "new" /\ UNCHANGED conn
        BY <3>2 DEF Unregister, StoreCount, connVars, ShutdownInv, CloseClosesConn
      <4> QED
        BY <2>1, <4>1 DEF ShutdownInv, CloseClosesConn
    <3> QED
      BY <3>1, <3>2
  <2>6. ClientRight(c)'
    BY <2>5 DEF ClientRight
  <2>7. label # "done" => target'[t] = c
    <3>1. CASE CloseBegin(t)
      BY <1>4, <2>1, <2>2, <2>4, <3>1 DEF CloseBegin, CloseReturns, Goto, RegistryInv, RegistryTypes
    <3>2. CASE Unregister(t)
      BY <2>1, <3>2 DEF Unregister
    <3>3. CASE StoreCount(t)
      <4>1. pc'[t] = "done"
        BY <2>2, <3>3 DEF StoreCount, CloseReturns, Goto, RegistryInv, RegistryTypes
      <4> QED
        BY <2>4, <4>1
    <3> QED
      BY <3>1, <3>2, <3>3
  <2>8. ReplayerRight(t)'
    BY <1>2, <2>1, <2>3, <2>4, <2>7 DEF ReplayerRight, Closing
  <2>9. NoConfig(out'[t]) /\ Replaying(t) /\ label \in Labels
    BY <1>1, <1>2, <2>1, <2>3 DEF NoConfig, Replaying, Closing, Labels
  <2>10. /\ \A u \in Thread \ {t} : target'[u] = target[u] /\ out'[u] = out[u]
         /\ out' \in [Thread -> Seq(Frame)] /\ send' \in [Client -> Seq(Frame)]
         /\ configPhase' \in [Client -> SUBSET {"config", "nodes"}]
         /\ configPhase[c] \subseteq configPhase'[c]
         /\ \A d \in Client \ {c} : send'[d] = send[d] /\ configPhase'[d] = configPhase[d]
    BY <1>2, <2>1
  <2> QED
    BY <1>2, <1>3, <1>4, <1>6, <2>3, <2>6, <2>8, <2>9, <2>10, ReplayerKeepsReplay
<1> QED
  BY <1>5, <1>6

\* One thread that replays nothing moves on, with no config frame to send.
LEMMA FrameKeepsReplay ==
  ASSUME RegistryInv, ReplayIInv, NEW t \in Thread \ Replayers, NEW label, Goto(t, label),
         \A u \in Thread \ {t} : out'[u] = out[u] /\ target'[u] = target[u]
                                 /\ (u \in rlocked' => u \in rlocked),
         out' \in [Thread -> Seq(Frame)], NoConfig(out'[t]), Carries(t)' => out'[t] # <<>>,
         send' \in [Client -> Seq(Frame)], ChatIsNoConfig',
         UNCHANGED <<nonce, configPhase, configCache>>,
         \A c \in Client :
           /\ ConfigView(send[c])' = ConfigView(send[c])
           /\ \A n : Completed(c, n)' = Completed(c, n)
           /\ conn[c] = "none" => send'[c] = send[c]
           /\ conn'[c] \in {conn[c], "closed"}
  PROVE  ReplayIInv'
<1>1. SharedRight /\ \A c \in Client : ClientRight(c)
  BY SplitReplay
<1>2. pc'[t] = label /\ \A u \in Thread \ {t} : pc'[u] = pc[u]
  BY DEF Goto, RegistryInv, RegistryTypes
<1>3. \A u \in Replayers : pc'[u] = pc[u] /\ target'[u] = target[u] /\ out'[u] = out[u]
  BY <1>2, ReplayerFacts
<1>4. ASSUME NEW c \in Client PROVE ClientRight(c)'
  <2>1. \A k \in 1 .. MaxWants : LET u == Replayer(c, k) IN
          pc'[u] = pc[u] /\ out'[u] = out[u] /\ nonce'[u] = nonce[u]
    BY <1>3, ReplayerFacts
  <2>2. ClientRight(c) /\ configPhase'[c] = configPhase[c]
    BY <1>1
  <2> QED
    BY <2>1, <2>2, SameView
<1>5. QueueTypes'
  BY <1>1 DEF SharedRight, QueueTypes
<1>6. OutRight'
  <2>1. ASSUME NEW u \in Thread
        PROVE  /\ Carries(u)' => u \notin Replayers /\ out'[u] # <<>>
               /\ u \notin Replayers \/ pc'[u] # "config" => NoConfig(out'[u])
    <3>1. CASE u = t
      BY <3>1
    <3>2. CASE u # t
      <4>1. pc'[u] = pc[u] /\ out'[u] = out[u] /\ (Carries(u)' => Carries(u))
        BY <1>2, <3>2 DEF Carries, Closing
      <4> QED
        BY <1>1, <4>1 DEF SharedRight, OutRight
    <3> QED
      BY <3>1, <3>2
  <2> QED
    BY <2>1 DEF OutRight, NoConfig
<1>7. OneReplay'
  BY <1>1, <1>3, ReplayerFacts DEF SharedRight, OneReplay, Replaying
<1>8. \A u \in Replayers : ReplayerRight(u)'
  BY <1>1, <1>3 DEF SharedRight, ReplayerRight, Closing
<1> QED
  BY <1>4, <1>5, <1>6, <1>7, <1>8, SplitReplayNext DEF SharedRight

\* A frame from the node is cached and about to be broadcast.
LEMMA ReceiveKeepsReplay ==
  ASSUME RegistryInv, ChatInv, ReplayIInv, NEW f \in NodeFrame, ReceiveFrame(f)
  PROVE  ReplayIInv'
<1>1. /\ Goto(Broadcaster, "rlock") /\ out' = [out EXCEPT ![Broadcaster] = <<f>>]
      /\ ~isConfigFrame(f) /\ chatCache' = CacheIncoming(f)
      /\ UNCHANGED <<target, rlocked, send, nonce, configPhase, configCache, conn>>
  BY DEF ReceiveFrame, lockVars, queueVars, replayVars, connVars
<1>2. Broadcaster \in Thread \ Replayers /\ f \in Frame
  BY ThreadFacts, ReplayerFacts, FrameAssumption
<1>3. out \in [Thread -> Seq(Frame)] /\ send \in [Client -> Seq(Frame)]
  BY DEF ReplayIInv, QueueTypes
<1>4. <<f>> \in Seq(Frame) /\ <<f>> # <<>> /\ NoConfig(<<f>>)
  BY <1>1, <1>2 DEF NoConfig
<1>5. /\ out' \in [Thread -> Seq(Frame)] /\ out'[Broadcaster] = <<f>>
      /\ \A u \in Thread \ {Broadcaster} : out'[u] = out[u]
  BY <1>1, <1>2, <1>3, <1>4
<1>6. ChatIsNoConfig'
  <2>1. chatCache \in Seq(ChatEntry) /\ (MaxChatCache = 0 => chatCache = <<>>) /\ ChatIsNoConfig
    BY DEF ChatInv, ChatTypes, ReplayIInv
  <2>2. CASE chatCache' = chatCache
    BY <2>1, <2>2 DEF ChatIsNoConfig
  <2>3. CASE chatCache' = cacheTextMessage(chatCache, f) \/ chatCache' = cacheACK(chatCache, f)
    <3>1. \A i \in DOMAIN chatCache' :
            \/ chatCache'[i].message = f /\ chatCache'[i].ack = <<>>
            \/ \E j \in DOMAIN chatCache : /\ chatCache'[i].message = chatCache[j].message
                                           /\ chatCache'[i].ack \in {chatCache[j].ack, <<f>>}
      BY <1>2, <2>1, <2>3, CachedEntries
    <3>2. NoConfig(<<>>)
      BY DEF NoConfig
    <3> QED
      BY <1>1, <1>4, <2>1, <3>1, <3>2 DEF ChatIsNoConfig
  <2> QED
    BY <1>1, <2>2, <2>3 DEF CacheIncoming
<1>7. \A c \in Client : /\ ConfigView(send[c])' = ConfigView(send[c])
                        /\ \A n : Completed(c, n)' = Completed(c, n)
  BY <1>1 DEF ConfigView, Completed
<1> QED
  BY <1>1, <1>2, <1>3, <1>4, <1>5, <1>6, <1>7, FrameKeepsReplay

\* The image of a client's packet is no config frame.
LEMMA ImageFacts ==
  ASSUME NEW m \in Forwarded, isMeshPacket(m), NEW num \in Nat
  PROVE  LET f == toRadioToFromRadio(m, num) IN
         f \in Frame /\ ~isConfigFrame(f) /\ f.kind = m.kind /\ f.id = m.id
<1>1. m \in ToRadioMsg
  BY FrameAssumption DEF Forwarded
<1> QED
  BY <1>1
    DEF ToRadioMsg, isMeshPacket, toRadioToFromRadio, FrameOf, Frame, isConfigFrame,
        ConfigKinds, RuntimeKinds

\* A packet of a client is about to be echoed.
LEMMA PacketKeepsReplay ==
  ASSUME RegistryInv, ChatInv, ReplayIInv, NEW c \in Client, NEW m \in ToRadio, ReadPacket(c, m)
  PROVE  ReplayIInv'
<1> DEFINE f == toRadioToFromRadio(m, myNodeNum)
           t == Reader(c)
<1>1. /\ Goto(t, "rlock") /\ out' = [out EXCEPT ![t] = <<f>>]
      /\ UNCHANGED <<target, rlocked, send, nonce, configPhase, configCache, conn, chatCache>>
  BY DEF ReadPacket, lockVars, queueVars, replayVars, connVars, nodeVars
<1>2. t \in Thread \ Replayers /\ f \in Frame /\ ~isConfigFrame(f)
  <2>1. m \in Forwarded /\ isMeshPacket(m) /\ myNodeNum \in Nat
    BY DEF ReadPacket, Forwarded, ChatInv, ChatTypes
  <2> QED
    BY <2>1, ImageFacts, ThreadFacts, ReplayerFacts
<1> HIDE DEF f, t
<1>3. out \in [Thread -> Seq(Frame)] /\ send \in [Client -> Seq(Frame)]
  BY DEF ReplayIInv, QueueTypes
<1>4. <<f>> \in Seq(Frame) /\ <<f>> # <<>> /\ NoConfig(<<f>>)
  BY <1>2 DEF NoConfig
<1>5. /\ out' \in [Thread -> Seq(Frame)] /\ out'[t] = <<f>>
      /\ \A u \in Thread \ {t} : out'[u] = out[u]
  BY <1>1, <1>2, <1>3, <1>4
<1>6. ChatIsNoConfig'
  BY <1>1 DEF ReplayIInv, ChatIsNoConfig
<1>7. \A d \in Client : /\ ConfigView(send[d])' = ConfigView(send[d])
                        /\ \A n : Completed(d, n)' = Completed(d, n)
  BY <1>1 DEF ConfigView, Completed
<1> QED
  BY <1>1, <1>2, <1>3, <1>4, <1>5, <1>6, <1>7, FrameKeepsReplay

\* A client's text is cached.
LEMMA CacheOutgoingKeepsReplay ==
  ASSUME RegistryInv, ChatInv, ReplayIInv, NEW c \in Client, CacheOutgoing(c)
  PROVE  ReplayIInv'
<1> DEFINE m == Head(input[c])
           f == toRadioToFromRadio(m, myNodeNum)
           t == Reader(c)
<1>1. /\ Goto(t, "forward") /\ chatCache' = cacheTextMessage(chatCache, f)
      /\ UNCHANGED <<out, target, rlocked, send, nonce, configPhase, configCache, conn>>
      /\ pc[t] = "cache"
  BY DEF CacheOutgoing, lockVars, queueVars, replayVars, connVars, nodeVars
<1>2. t \in Thread \ Replayers /\ t # Broadcaster /\ f \in Frame /\ ~isConfigFrame(f)
  <2>1. input[c] # <<>> /\ m.kind = "text"
    BY <1>1 DEF ChatInv, EchoesInput
  <2>2. m \in Forwarded /\ isMeshPacket(m) /\ myNodeNum \in Nat
    BY <2>1, InputFacts DEF ChatInv, ChatTypes, isMeshPacket
  <2> QED
    BY <2>2, ImageFacts, ThreadFacts, WaiterFacts, ReplayerFacts
<1>3. out \in [Thread -> Seq(Frame)] /\ send \in [Client -> Seq(Frame)] /\ NoConfig(out[t])
  BY <1>2 DEF ReplayIInv, QueueTypes, OutRight
<1>4. t \notin rlocked
  BY <1>1 DEF ChatInv, EchoesInput
<1> HIDE DEF f, t
<1>5. ~Carries(t)'
  <2>1. pc'[t] = "forward"
    BY <1>1, <1>2 DEF Goto, RegistryInv, RegistryTypes
  <2> QED
    BY <1>1, <1>2, <1>4, <2>1 DEF Carries
<1>6. ChatIsNoConfig'
  <2>1. chatCache \in Seq(ChatEntry) /\ (MaxChatCache = 0 => chatCache = <<>>) /\ ChatIsNoConfig
    BY DEF ChatInv, ChatTypes, ReplayIInv
  <2>2. \A i \in DOMAIN chatCache' :
          \/ chatCache'[i].message = f /\ chatCache'[i].ack = <<>>
          \/ \E j \in DOMAIN chatCache : /\ chatCache'[i].message = chatCache[j].message
                                         /\ chatCache'[i].ack \in {chatCache[j].ack, <<f>>}
    BY <1>1, <1>2, <2>1, CachedEntries
  <2>3. NoConfig(<<>>) /\ NoConfig(<<f>>)
    BY <1>2 DEF NoConfig
  <2> QED
    BY <1>2, <2>1, <2>2, <2>3 DEF ChatIsNoConfig
<1>7. \A d \in Client : /\ ConfigView(send[d])' = ConfigView(send[d])
                        /\ \A n : Completed(d, n)' = Completed(d, n)
  BY <1>1 DEF ConfigView, Completed
<1>8. NoConfig(out'[t])
  BY <1>1, <1>3
<1> QED
  BY <1>1, <1>2, <1>3, <1>5, <1>6, <1>7, <1>8, FrameKeepsReplay

\* A broadcast has reached everybody.
LEMMA RUnlockKeepsReplay ==
  ASSUME RegistryInv, ReplayIInv, NEW t \in Thread, RUnlock(t)
  PROVE  ReplayIInv'
<1>1. /\ Goto(t, AfterRange(t)) /\ out' = [out EXCEPT ![t] = <<>>] /\ rlocked' = rlocked \ {t}
      /\ UNCHANGED <<target, send, nonce, configPhase, configCache, conn, chatCache>>
      /\ Carries(t)
  BY DEF RUnlock, Carries, queueVars, replayVars, connVars, nodeVars
<1>2. t \in Thread \ Replayers
  BY <1>1 DEF ReplayIInv, OutRight
<1>3. out \in [Thread -> Seq(Frame)] /\ send \in [Client -> Seq(Frame)]
  BY DEF ReplayIInv, QueueTypes
<1>4. <<>> \in Seq(Frame) /\ NoConfig(<<>>)
  BY DEF NoConfig
<1>5. /\ out' \in [Thread -> Seq(Frame)] /\ out'[t] = <<>>
      /\ \A u \in Thread \ {t} : out'[u] = out[u]
  BY <1>1, <1>3, <1>4
<1>6. ~Carries(t)'
  <2>1. pc'[t] \in {"recv", "cache", "forward"}
    BY <1>1, AfterRangeLabel DEF Goto, RegistryInv, RegistryTypes
  <2> QED
    BY <1>1, <2>1 DEF Carries, Closing
<1>7. ChatIsNoConfig'
  BY <1>1 DEF ReplayIInv, ChatIsNoConfig
<1>8. \A d \in Client : /\ ConfigView(send[d])' = ConfigView(send[d])
                        /\ \A n : Completed(d, n)' = Completed(d, n)
  BY <1>1 DEF ConfigView, Completed
<1> QED
  BY <1>1, <1>2, <1>3, <1>4, <1>5, <1>6, <1>7, <1>8, FrameKeepsReplay

\* A frame more in a queue completes nothing unless it is a config_complete.
LEMMA CompletedAppend ==
  ASSUME NEW c \in Client, send[c] \in Seq(Frame), NEW f \in Frame, send'[c] = Append(send[c], f)
  PROVE  \A n : Completed(c, n)' =
           IF f.kind = "config_complete" /\ f.id = n
           THEN Completed(c, n) \cup {Len(send[c]) + 1} ELSE Completed(c, n)
<1> DEFINE s == send[c]
           r == send'[c]
<1>1. /\ Len(s) \in Nat /\ DOMAIN s = 1 .. Len(s) /\ DOMAIN r = 1 .. Len(s) + 1
      /\ r[Len(s) + 1] = f /\ \A i \in 1 .. Len(s) : r[i] = s[i]
  OBVIOUS
<1>2. \A n : /\ Completed(c, n) = {i \in DOMAIN s : s[i].kind = "config_complete" /\ s[i].id = n}
             /\ Completed(c, n)' = {i \in DOMAIN r : r[i].kind = "config_complete" /\ r[i].id = n}
  BY DEF Completed
<1> HIDE DEF s, r
<1>3. \A i : i \in 1 .. Len(s) + 1 <=> i \in 1 .. Len(s) \/ i = Len(s) + 1
  BY <1>1
<1>4. Len(s) + 1 \notin 1 .. Len(s)
  BY <1>1
<1>5. SUFFICES ASSUME NEW n
               PROVE  Completed(c, n)' =
                        IF f.kind = "config_complete" /\ f.id = n
                        THEN Completed(c, n) \cup {Len(s) + 1} ELSE Completed(c, n)
  BY DEF s
<1> DEFINE A == {i \in DOMAIN s : s[i].kind = "config_complete" /\ s[i].id = n}
           B == {i \in DOMAIN r : r[i].kind = "config_complete" /\ r[i].id = n}
<1>6. \A i \in 1 .. Len(s) : i \in B <=> i \in A
  BY <1>1, <1>3
<1>7. Len(s) + 1 \in B <=> f.kind = "config_complete" /\ f.id = n
  BY <1>1, <1>3
<1>8. A \subseteq 1 .. Len(s) /\ B \subseteq 1 .. Len(s) + 1
  BY <1>1
<1>9. Completed(c, n) = A /\ Completed(c, n)' = B
  BY <1>2
<1> HIDE DEF A, B
<1>10. \A i : i \in B <=> i \in A \/ (i = Len(s) + 1 /\ f.kind = "config_complete" /\ f.id = n)
  BY <1>3, <1>4, <1>6, <1>7, <1>8
<1>11. B = IF f.kind = "config_complete" /\ f.id = n THEN A \cup {Len(s) + 1} ELSE A
  BY <1>10
<1> QED
  BY <1>9, <1>11

\* A broadcast reaches a client: it is in the registry, and its connection is no
\* longer new.
LEMMA SendKeepsReplay ==
  ASSUME RegistryInv, ReplayIInv, NEW t \in Thread, SendNext(t)
  PROVE  ReplayIInv'
<1>1. PICK c \in todo[t] : Queue(t, c, "iterate") \/ Overflow(t, c)
  BY DEF SendNext
<1>2. /\ UNCHANGED <<rlocked, out, nonce, configPhase, configCache, conn, chatCache>>
      /\ pc[t] = "iterate" /\ Carries(t)
  BY DEF SendNext, Carries, lockVars, replayVars, nodeVars
<1>3. c \in Client /\ conn[c] # "none"
  BY DEF RegistryInv, RegistryTypes, NewIsUnknown, NotRegisteredYet, Unknown
<1>4. t \in Thread \ Replayers /\ out[t] # <<>> /\ NoConfig(out[t])
  BY <1>2 DEF ReplayIInv, OutRight
<1>5. out \in [Thread -> Seq(Frame)] /\ send \in [Client -> Seq(Frame)]
  BY DEF ReplayIInv, QueueTypes
<1>6. Head(out[t]) \in Frame /\ ~isConfigFrame(Head(out[t]))
  <2>1. out[t] \in Seq(Frame)
    BY <1>5
  <2>2. 1 \in DOMAIN out[t] /\ Head(out[t]) = out[t][1] /\ out[t][1] \in Frame
    BY <1>4, <2>1
  <2> QED
    BY <1>4, <2>2 DEF NoConfig
<1>7. ChatIsNoConfig'
  BY <1>2 DEF ReplayIInv, ChatIsNoConfig
<1>8. CASE Queue(t, c, "iterate")
  <2>1. /\ Goto(t, "iterate") /\ UNCHANGED target
        /\ send' = [send EXCEPT ![c] = Append(@, Head(out[t]))]
    BY <1>8 DEF Queue
  <2> DEFINE f == Head(out[t])
  <2> HIDE DEF f
  <2>2. /\ send'[c] = Append(send[c], f) /\ \A d \in Client \ {c} : send'[d] = send[d]
        /\ send' \in [Client -> Seq(Frame)] /\ send[c] \in Seq(Frame)
    BY <1>3, <1>5, <1>6, <2>1 DEF f
  <2>3. ConfigView(send[c])' = ConfigView(send[c])
    <3>1. ConfigView(Append(send[c], f)) = ConfigView(send[c])
      BY <1>6, <2>2, ViewAppend DEF f
    <3>2. ConfigView(send[c])' = ConfigView(send'[c])
      BY DEF ConfigView
    <3> QED
      BY <2>2, <3>1, <3>2
  <2>4. \A n : Completed(c, n)' = Completed(c, n)
    <3>1. f.kind # "config_complete" /\ f \in Frame
      BY <1>6 DEF isConfigFrame, ConfigKinds, f
    <3> QED
      BY <1>3, <2>2, <3>1, CompletedAppend
  <2>5. \A d \in Client \ {c} : /\ ConfigView(send[d])' = ConfigView(send[d])
                                /\ \A n : Completed(d, n)' = Completed(d, n)
    BY <2>2 DEF ConfigView, Completed
  <2> QED
    BY <1>2, <1>3, <1>4, <1>5, <1>7, <2>1, <2>2, <2>3, <2>4, <2>5, FrameKeepsReplay
<1>9. CASE Overflow(t, c)
  <2>1. Goto(t, "close") /\ UNCHANGED send /\ \A u \in Thread \ {t} : target'[u] = target[u]
    BY <1>9 DEF Overflow, RegistryInv, RegistryTypes
  <2> QED
    BY <1>2, <1>4, <2>1, MoveKeepsReplay
<1> QED
  BY <1>1, <1>8, <1>9

\* A connection is accepted: nothing was sent to it, and nothing runs for it.
LEMMA AcceptKeepsReplay ==
  ASSUME RegistryInv, ReplayIInv, NEW c \in Client, AcceptConn(c)
  PROVE  ReplayIInv'
<1>1. /\ Goto(Acceptor, "register") /\ conn[c] = "none" /\ conn' = [conn EXCEPT ![c] = "open"]
      /\ UNCHANGED <<frameVars, configCache, rlocked>>
      /\ \A u \in Thread \ {Acceptor} : target'[u] = target[u]
  BY DEF AcceptConn, lockVars, queueVars, replayVars, nodeVars, frameVars, RegistryInv, RegistryTypes
<1>2. /\ SharedRight /\ \A d \in Client : ClientRight(d)
  BY SplitReplay
<1>3. pc'[Acceptor] = "register" /\ \A u \in Thread \ {Acceptor} : pc'[u] = pc[u]
  BY <1>1, ThreadFacts DEF Goto, RegistryInv, RegistryTypes
<1>4. \A u \in Replayers : pc'[u] = pc[u] /\ target'[u] = target[u]
  BY <1>1, <1>3, ReplayerFacts
<1>5. ASSUME NEW u \in Thread, Carries(u)' PROVE Carries(u)
  BY <1>1, <1>3, <1>5, ThreadFacts DEF Carries, Closing
<1>6. SharedRight'
  <2>1. configCache' \in Caches \cup {<<>>}
    BY <1>1, <1>2 DEF SharedRight, QueueTypes
  <2> QED
    BY <1>1, <1>2, <1>4, <1>5, <2>1, QuietKeepsShared
<1>7. ASSUME NEW d \in Client \ {c} PROVE ClientRight(d)'
  <2>1. /\ send'[d] = send[d] /\ configPhase'[d] = configPhase[d] /\ conn'[d] = conn[d]
        /\ ClientRight(d)
    BY <1>1, <1>2 DEF frameVars, RegistryInv, RegistryTypes
  <2>2. \A k \in 1 .. MaxWants : LET t == Replayer(d, k) IN
          pc'[t] = pc[t] /\ out'[t] = out[t] /\ nonce'[t] = nonce[t]
    BY <1>1, <1>4, ReplayerFacts DEF frameVars
  <2> QED
    BY <2>1, <2>2, SameClient
<1>8. ClientRight(c)'
  <2>1. send'[c] = <<>> /\ conn'[c] = "open"
    BY <1>1, <1>2 DEF ClientRight, frameVars, RegistryInv, RegistryTypes
  <2>2. \A k \in 1 .. MaxWants : pc'[Replayer(c, k)] = "off"
    <3>1. Unknown(c)
      BY <1>1 DEF RegistryInv, NewIsUnknown, NotRegisteredYet
    <3> QED
      BY <1>4, <3>1, ReplayerFacts DEF Unknown
  <2>3. ConfigView(send[c])' = <<>>
    <3>0. <<>> \in Seq(Frame)
      OBVIOUS
    <3>1. ConfigView(<<>>) = <<>>
      BY <3>0, ViewType
    <3>2. ConfigView(send[c])' = ConfigView(send'[c])
      BY DEF ConfigView
    <3> QED
      BY <2>1, <3>1, <3>2
  <2>4. EndsOf(<<>>) = {} /\ Len(<<>>) = 0
    BY DEF EndsOf
  <2>5. QueueWhole(c)'
    BY <2>2, <2>3, <2>4 DEF QueueWhole, Pieces, LastEnd
  <2>6. \A n : Completed(c, n)' = {}
    BY <2>1 DEF Completed
  <2>7. PhasesRight(c)'
    BY <2>2, <2>6 DEF PhasesRight
  <2> QED
    BY <2>1, <2>5, <2>7 DEF ClientRight
<1> QED
  BY <1>6, <1>7, <1>8, SplitReplayNext

\* A client asks for its config.
LEMMA WantKeepsReplay ==
  ASSUME RegistryInv, ReplayIInv, NEW c \in Client, NEW m \in ToRadio, ReadWant(c, m)
  PROVE  ReplayIInv'
<1>1. PICK k \in 1 .. MaxWants :
        /\ pc[Replayer(c, k)] = "off"
        /\ pc' = [pc EXCEPT ![Reader(c)] = "top", ![Replayer(c, k)] = "wait"]
        /\ nonce' = [nonce EXCEPT ![Replayer(c, k)] = m.id]
  BY DEF ReadWant
<1> DEFINE r == Replayer(c, k)
<1>2. UNCHANGED <<out, send, configPhase, chatCache, configCache, rlocked, target, conn>>
  BY DEF ReadWant, lockVars, queueVars, connVars, nodeVars
<1>3. /\ SharedRight /\ \A d \in Client : ClientRight(d)
  BY SplitReplay
<1>4. r \in Replayers /\ r \in Thread /\ Reader(c) \in Thread \ Replayers /\ r # Reader(c)
  BY ReplayerFacts, ThreadFacts
<1>5. /\ pc'[Reader(c)] = "top" /\ pc'[r] = "wait" /\ pc[r] = "off"
      /\ \A u \in Thread \ {Reader(c), r} : pc'[u] = pc[u]
  BY <1>1, <1>4 DEF RegistryInv, RegistryTypes
<1>6. nonce' \in [Replayers -> Nat] /\ \A u \in Replayers \ {r} : nonce'[u] = nonce[u]
  <2>1. m.id \in Nat /\ nonce \in [Replayers -> Nat]
    BY <1>3, FrameAssumption DEF ToRadioMsg, SharedRight, QueueTypes
  <2> QED
    BY <1>1, <1>4, <2>1
<1> HIDE DEF r
<1>7. ASSUME NEW u \in Thread, Carries(u)' PROVE Carries(u)
  <2>1. CASE u \in {Reader(c), r}
    BY <1>2, <1>4, <1>5, <1>7, <2>1, WaiterFacts, ReplayerFacts DEF Carries, Closing
  <2>2. CASE u \notin {Reader(c), r}
    BY <1>2, <1>5, <1>7, <2>2 DEF Carries, Closing
  <2> QED
    BY <2>1, <2>2
<1>8. \A u \in Replayers \ {r} : pc'[u] = pc[u]
  BY <1>4, <1>5, ReplayerFacts
<1>9. QueueTypes' /\ ChatIsNoConfig'
  BY <1>2, <1>3, <1>6 DEF SharedRight, QueueTypes, ChatIsNoConfig, NoConfig
<1>10. OutRight'
  <2>1. ASSUME NEW u \in Thread, u \notin Replayers \/ pc'[u] # "config"
        PROVE  NoConfig(out[u])
    BY <1>3, <1>5, <1>8, <2>1 DEF SharedRight, OutRight
  <2> QED
    BY <1>2, <1>3, <1>7, <2>1 DEF SharedRight, OutRight, NoConfig
<1>11. OneReplay'
  <2>1. \A u \in Replayers : Replaying(u)' => Replaying(u)
    BY <1>5, <1>8 DEF Replaying
  <2> QED
    BY <1>3, <2>1, ReplayerFacts DEF SharedRight, OneReplay
<1>12. \A u \in Replayers : ReplayerRight(u)'
  <2>1. ReplayerRight(r)'
    BY <1>2, <1>3, <1>4, <1>5 DEF SharedRight, ReplayerRight, Closing
  <2>2. ASSUME NEW u \in Replayers \ {r} PROVE ReplayerRight(u)'
    BY <1>2, <1>3, <1>6, <1>8 DEF SharedRight, ReplayerRight, Closing
  <2> QED
    BY <2>1, <2>2
<1>13. ASSUME NEW d \in Client PROVE ClientRight(d)'
  <2>1. \A j \in 1 .. MaxWants : LET t == Replayer(d, j) IN
           \/ pc'[t] = pc[t] /\ out'[t] = out[t] /\ nonce'[t] = nonce[t]
           \/ pc[t] = "off" /\ pc'[t] = "wait"
    BY <1>2, <1>5, <1>6, <1>8, ReplayerFacts
  <2> QED
    BY <1>2, <1>3, <2>1, SameClient
<1> QED
  BY <1>9, <1>10, <1>11, <1>12, <1>13, SplitReplayNext DEF SharedRight

\* While a goroutine replays, or may begin to, the others of its client rest.
LEMMA OthersRest ==
  ASSUME ReplayIInv, NEW t \in Replayers, Replaying(t) \/ ReplayMuFree(Owner(t)),
         NEW k \in 1 .. MaxWants, Replayer(Owner(t), k) # t
  PROVE  pc[Replayer(Owner(t), k)] \in {"off", "wait", "done", "chatted", "empty"}
<1>1. PICK j \in 1 .. MaxWants : t = Replayer(Owner(t), j)
  BY ReplayerFacts
<1>2. Owner(t) \in Client
  BY ReplayerFacts
<1> QED
  BY <1>1, <1>2 DEF ReplayMuFree, ReplayIInv, OneReplay, Replaying

\* A step of a replay goroutine, and what its client has been sent after it.
LEMMA OwnClient ==
  ASSUME RegistryInv, ReplayIInv, NEW t \in Replayers, NEW label, Goto(t, label),
         pc[t] # "off", label # "off", Replaying(t) \/ ReplayMuFree(Owner(t)),
         UNCHANGED <<nonce, conn>>,
         conn[Owner(t)] = "open" =>
           LET view == ConfigView(send[Owner(t)])' IN
           /\ Pieces(view, AnswersTo(Asked(Owner(t))))
           /\ label = "config" => \/ out'[t] = <<>> /\ LastEnd(view, Len(view))
                                  \/ Progress(view, out'[t], nonce[t])
           /\ label \notin {"config", "close"} => LastEnd(view, Len(view))
           /\ PhasesRight(Owner(t))'
  PROVE  ClientRight(Owner(t))'
<1> DEFINE c == Owner(t)
<1>1. c \in Client /\ t \in Thread /\ \E k \in 1 .. MaxWants : t = Replayer(c, k)
  BY ReplayerFacts
<1>2. pc'[t] = label /\ \A u \in Thread \ {t} : pc'[u] = pc[u]
  BY <1>1 DEF Goto, RegistryInv, RegistryTypes
<1>3. conn[c] # "none"
  BY <1>1 DEF RegistryInv, NewIsUnknown, NotRegisteredYet, Unknown
<1>4. ASSUME NEW k \in 1 .. MaxWants, Replayer(c, k) # t
      PROVE  /\ pc'[Replayer(c, k)] = pc[Replayer(c, k)]
             /\ pc'[Replayer(c, k)] \in {"off", "wait", "done", "chatted", "empty"}
  BY <1>1, <1>2, <1>4, OthersRest, ReplayerFacts
<1>5. Asked(c)' = Asked(c)
  <2>1. \A k \in 1 .. MaxWants : pc'[Replayer(c, k)] # "off" <=> pc[Replayer(c, k)] # "off"
    BY <1>2, <1>4
  <2> QED
    BY <2>1 DEF Asked
<1> SUFFICES ASSUME conn[c] = "open" PROVE QueueWhole(c)' /\ PhasesRight(c)'
  BY <1>3 DEF ClientRight
<1> DEFINE view == ConfigView(send[c])'
<1>6. /\ Pieces(view, AnswersTo(Asked(c)))
      /\ label = "config" => \/ out'[t] = <<>> /\ LastEnd(view, Len(view))
                             \/ Progress(view, out'[t], nonce[t])
      /\ label \notin {"config", "close"} => LastEnd(view, Len(view))
      /\ PhasesRight(c)'
  OBVIOUS
<1>7. Pieces(view, AnswersTo(Asked(c)'))
  BY <1>5, <1>6
<1>8. \A k \in 1 .. MaxWants : LET u == Replayer(c, k) IN
        pc'[u] = "config" => \/ out'[u] = <<>> /\ LastEnd(view, Len(view))
                             \/ Progress(view, out'[u], nonce'[u])
  BY <1>2, <1>4, <1>6
<1>9. (\A k \in 1 .. MaxWants : pc'[Replayer(c, k)] \notin {"config", "close"}) => LastEnd(view, Len(view))
  BY <1>1, <1>2, <1>6
<1> HIDE DEF view
<1>10. QueueWhole(c)'
  BY <1>7, <1>8, <1>9 DEF QueueWhole, view
<1> QED
  BY <1>6, <1>10

\* The phases of a client after a step of one of its replays that completes
\* nothing.
LEMMA OwnPhases ==
  ASSUME RegistryInv, NEW t \in Replayers, PhasesRight(Owner(t)), NEW label, Goto(t, label),
         \A u \in Thread \ {t} : out'[u] = out[u], nonce' = nonce,
         configPhase[Owner(t)] \subseteq configPhase'[Owner(t)],
         \A n : Completed(Owner(t), n)' = Completed(Owner(t), n),
         label = "config" => out'[t] # <<>>,
         label # "done"
  PROVE  PhasesRight(Owner(t))'
<1> DEFINE c == Owner(t)
<1>1. c \in Client /\ t \in Thread
  BY ReplayerFacts
<1>2. pc'[t] = label /\ \A u \in Thread \ {t} : pc'[u] = pc[u]
  BY <1>1 DEF Goto, RegistryInv, RegistryTypes
<1>3. \A k \in 1 .. MaxWants : Replayer(c, k) \in Thread
  BY <1>1, ReplayerFacts
<1> QED
  BY <1>2, <1>3 DEF PhasesRight

\* A replay begins: nothing is behind the last end, and all of the answer is left.
LEMMA BeginKeepsReplay ==
  ASSUME RegistryInv, ReplayIInv, NEW t \in Replayers, ReplayBegin(t)
  PROVE  ReplayIInv'
<1> DEFINE c == Owner(t)
           n == nonce[t]
           a == ReplayFrames(configCache, n)
           view == ConfigView(send[c])
<1>1. /\ pc[t] = "wait" /\ ReplayMuFree(c)
      /\ UNCHANGED <<send, target, rlocked, chatCache, configCache, nonce, conn>>
  BY DEF ReplayBegin, lockVars, queueVars, connVars, nodeVars
<1>2. c \in Client /\ t \in Thread /\ ReplayerRight(t) /\ ClientRight(c) /\ QueueTypes
      /\ \E k \in 1 .. MaxWants : t = Replayer(c, k)
  BY ReplayerFacts, SplitReplay DEF ReplayIInv
<1>3. view \in Seq(Frame) /\ n \in Nat /\ send[c] \in Seq(Frame)
  BY <1>2, ViewType DEF QueueTypes
<1>4. ConfigView(send[c])' = view /\ \A i : Completed(c, i)' = Completed(c, i)
  BY <1>1 DEF ConfigView, Completed
<1>5. ASSUME conn[c] = "open"
      PROVE  Pieces(view, AnswersTo(Asked(c))) /\ LastEnd(view, Len(view)) /\ PhasesRight(c)
  <2>1. \A k \in 1 .. MaxWants : pc[Replayer(c, k)] \notin {"config", "close"}
    BY <1>1 DEF ReplayMuFree
  <2> QED
    BY <1>2, <1>5, <2>1 DEF ClientRight, QueueWhole
<1> HIDE DEF a, view, n
<1>6. /\ out \in [Thread -> Seq(Frame)] /\ send \in [Client -> Seq(Frame)]
      /\ configPhase \in [Client -> SUBSET {"config", "nodes"}] /\ out[t] = <<>>
  BY <1>1, <1>2 DEF QueueTypes, ReplayerRight
<1>7. CASE configCache = <<>> /\ Goto(t, "empty") /\ UNCHANGED <<out, configPhase>>
  <2>1. pc'[t] = "empty"
    BY <1>2, <1>7 DEF Goto, RegistryInv, RegistryTypes
  <2>2. ReplayerRight(t)'
    BY <1>6, <1>7, <2>1 DEF ReplayerRight, Closing
  <2>3. conn[c] = "open" => PhasesRight(c)'
    BY <1>4, <1>5, <1>7, <1>1, OwnPhases
  <2>4. ClientRight(c)'
    BY <1>1, <1>4, <1>5, <1>7, <2>3, OwnClient
  <2>5. NoConfig(out'[t]) /\ "empty" \in Labels
    BY <1>6, <1>7 DEF NoConfig, Labels
  <2> QED
    BY <1>1, <1>2, <1>6, <1>7, <2>2, <2>4, <2>5, ReplayerKeepsReplay
<1>8. CASE /\ configCache # <<>> /\ Goto(t, "config")
           /\ configPhase' = [configPhase EXCEPT ![c] = @ \cup PhaseOf(n)]
           /\ out' = [out EXCEPT ![t] = a]
  <2>1. pc'[t] = "config"
    BY <1>2, <1>8 DEF Goto, RegistryInv, RegistryTypes
  <2>2. configCache \in Caches
    BY <1>2, <1>8 DEF QueueTypes
  <2>3. a \in Seq(Frame) /\ Len(a) \in Nat \ {0} /\ a # <<>>
    <3>1. a \in Seq(Frame) /\ Len(a) \in Nat \ {0}
      BY <1>3, <2>2, AnswerFacts DEF a
    <3> QED
      BY <3>1
  <2>4. PhaseOf(n) \in SUBSET {"config", "nodes"} /\ (n = nonceOnlyConfig => "config" \in PhaseOf(n))
    BY DEF PhaseOf, nonceOnlyConfig, nonceOnlyNodes
  <2>5. /\ out' \in [Thread -> Seq(Frame)] /\ out'[t] = a
        /\ \A u \in Thread \ {t} : out'[u] = out[u]
    BY <1>2, <1>6, <1>8, <2>3
  <2>6. /\ configPhase' \in [Client -> SUBSET {"config", "nodes"}]
        /\ configPhase'[c] = configPhase[c] \cup PhaseOf(n)
        /\ \A d \in Client \ {c} : configPhase'[d] = configPhase[d]
    BY <1>2, <1>6, <1>8, <2>4
  <2>7. ReplayerRight(t)'
    BY <1>1, <2>1, <2>4, <2>6 DEF ReplayerRight, Closing, n
  <2>8. ASSUME LastEnd(view, Len(view)) PROVE Progress(view, a, n)
    <3>1. Len(view) \in 0 .. Len(view) /\ 0 \in 0 .. Len(a) - 1
      BY <1>3, <2>3
    <3>2. a = SubSeq(a, 0 + 1, Len(a))
      BY <2>3, SubSeqFull
    <3>3. SubSeq(view, Len(view) + 1, Len(view)) = <<>> /\ SubSeq(a, 1, 0) = <<>>
      <4>1. Len(view) \in Nat
        BY <1>3
      <4>2. SubSeq(view, Len(view) + 1, Len(view)) = <<>>
        BY <1>3, <4>1, SubSeqEmpty
      <4>3. SubSeq(a, 1, 0) = <<>>
        BY <2>3, SubSeqEmpty
      <4> QED
        BY <4>2, <4>3
    <3>4. ConfigView(<<>>) = <<>>
      BY <1>3, ViewType
    <3> QED
      BY <2>2, <2>8, <3>1, <3>2, <3>3, <3>4 DEF Progress, a
  <2>9. conn[c] = "open" => PhasesRight(c)'
    BY <1>1, <1>4, <1>5, <1>8, <2>3, <2>5, <2>6, OwnPhases
  <2>10. conn[c] = "open" => Progress(view, out'[t], n)
    BY <1>5, <2>5, <2>8
  <2>11. ClientRight(c)'
    BY <1>1, <1>4, <1>5, <1>8, <2>9, <2>10, OwnClient DEF n
  <2> QED
    BY <1>1, <1>2, <1>6, <1>8, <2>5, <2>6, <2>7, <2>11, ReplayerKeepsReplay DEF Labels
<1> QED
  BY <1>7, <1>8 DEF ReplayBegin, a, n

\* A replay goes on to the chat history, or ends without it.
LEMMA ChatBeginKeepsReplay ==
  ASSUME RegistryInv, ChatInv, ReplayIInv, NEW t \in Replayers, ReplayChatBegin(t)
  PROVE  ReplayIInv'
<1> DEFINE c == Owner(t)
           view == ConfigView(send[c])
<1>1. /\ pc[t] = "config" /\ out[t] = <<>>
      /\ UNCHANGED <<send, target, rlocked, chatCache, configCache, nonce, conn, configPhase>>
  BY DEF ReplayChatBegin, lockVars, queueVars, connVars, nodeVars, replayVars
<1>2. c \in Client /\ t \in Thread /\ ReplayerRight(t) /\ ClientRight(c) /\ QueueTypes
  BY ReplayerFacts, SplitReplay DEF ReplayIInv
<1>3. PICK k \in 1 .. MaxWants : t = Replayer(c, k)
  BY ReplayerFacts
<1>4. view \in Seq(Frame) /\ nonce[t] \in Nat
  BY <1>2, ViewType DEF QueueTypes
<1>5. ConfigView(send[c])' = view /\ \A i : Completed(c, i)' = Completed(c, i)
  BY <1>1 DEF ConfigView, Completed
<1>6. ASSUME conn[c] = "open"
      PROVE  /\ Pieces(view, AnswersTo(Asked(c))) /\ PhasesRight(c)
             /\ LastEnd(view, Len(view)) /\ Completed(c, nonce[t]) # {}
  <2>1. QueueWhole(c) /\ PhasesRight(c)
    BY <1>2, <1>6 DEF ClientRight
  <2>2. LastEnd(view, Len(view)) \/ Progress(view, out[t], nonce[t])
    BY <1>1, <1>3, <2>1 DEF QueueWhole
  <2>3. ~Progress(view, <<>>, nonce[t])
    BY <1>4, ProgressStep
  <2> QED
    BY <1>1, <1>3, <2>1, <2>2, <2>3 DEF QueueWhole, PhasesRight
<1> HIDE DEF view
<1>7. /\ out \in [Thread -> Seq(Frame)] /\ send \in [Client -> Seq(Frame)]
      /\ configPhase \in [Client -> SUBSET {"config", "nodes"}] /\ Replaying(t)
  BY <1>1, <1>2 DEF QueueTypes, Replaying
<1>8. CASE Goto(t, "chat") /\ out' = [out EXCEPT ![t] = ChatHistory(chatCache)]
  <2>1. chatCache \in Seq(ChatEntry) /\ ChatIsNoConfig
    BY DEF ChatInv, ChatTypes, ReplayIInv
  <2> DEFINE h == ChatHistory(chatCache)
  <2>2. h \in Seq(Frame) /\ NoConfig(h)
    <3>1. /\ h \in Seq(Frame)
          /\ \A l \in DOMAIN h : \E i \in DOMAIN chatCache : FrameOfEntry(h[l], chatCache[i])
      BY <2>1, HistoryFacts
    <3> HIDE DEF h
    <3> QED
      BY <2>1, <3>1 DEF NoConfig, ChatIsNoConfig, FrameOfEntry
  <2> HIDE DEF h
  <2>3. /\ out' \in [Thread -> Seq(Frame)] /\ out'[t] = h
        /\ \A u \in Thread \ {t} : out'[u] = out[u]
    BY <1>2, <1>7, <1>8, <2>2 DEF h
  <2>4. pc'[t] = "chat"
    BY <1>2, <1>8 DEF Goto, RegistryInv, RegistryTypes
  <2>5. ReplayerRight(t)'
    BY <2>4 DEF ReplayerRight, Closing
  <2>6. conn[c] = "open" => PhasesRight(c)'
    BY <1>1, <1>5, <1>6, <1>8, <2>3, OwnPhases
  <2>7. ClientRight(c)'
    BY <1>1, <1>5, <1>6, <1>7, <1>8, <2>6, OwnClient
  <2> QED
    BY <1>1, <1>2, <1>7, <1>8, <2>2, <2>3, <2>5, <2>7, ReplayerKeepsReplay DEF Labels
<1>9. CASE Goto(t, "done") /\ UNCHANGED out /\ ~shouldReplayChat(nonce[t], c)
  <2>1. pc'[t] = "done" /\ \A u \in Thread \ {t} : pc'[u] = pc[u]
    BY <1>2, <1>9 DEF Goto, RegistryInv, RegistryTypes
  <2>2. ReplayerRight(t)'
    BY <1>1, <1>9, <2>1 DEF ReplayerRight, Closing
  <2>3. ASSUME conn[c] = "open" PROVE PhasesRight(c)'
    <3>1. ASSUME ReplayChat, MaxChatCache > 0, nonce[t] = nonceOnlyNodes
          PROVE  Completed(c, nonceOnlyConfig) = {}
      BY <1>6, <1>9, <2>3, <3>1 DEF shouldReplayChat, PhasesRight, nonceOnlyConfig, nonceOnlyNodes
    <3>2. ASSUME NEW j \in 1 .. MaxWants, Replayer(c, j) # t
          PROVE  LET u == Replayer(c, j) IN pc'[u] = pc[u]
      BY <1>2, <2>1, <3>2, ReplayerFacts
    <3>3. PhasesRight(c)
      BY <1>6, <2>3
    <3>4. ASSUME NEW j \in 1 .. MaxWants
          PROVE  LET u == Replayer(c, j) IN
                 /\ pc'[u] = "config" /\ out[u] = <<>> => Completed(c, nonce[u]) # {}
                 /\ ReplayChat /\ MaxChatCache > 0 /\ nonce[u] = nonceOnlyNodes /\ pc'[u] = "done"
                    => \E x \in Completed(c, nonceOnlyNodes) : \A i \in Completed(c, nonceOnlyConfig) : x < i
      <4>1. CASE Replayer(c, j) = t
        BY <1>6, <2>1, <2>3, <3>1, <4>1
      <4>2. CASE Replayer(c, j) # t
        BY <3>2, <3>3, <4>2 DEF PhasesRight
      <4> QED
        BY <4>1, <4>2
    <3> QED
      BY <1>1, <1>5, <1>9, <3>3, <3>4 DEF PhasesRight
  <2>4. ClientRight(c)'
    BY <1>1, <1>5, <1>6, <1>7, <1>9, <2>3, OwnClient
  <2>5. NoConfig(out'[t]) /\ "done" \in Labels
    BY <1>1, <1>9 DEF NoConfig, Labels
  <2> QED
    BY <1>1, <1>2, <1>7, <1>9, <2>2, <2>4, <2>5, ReplayerKeepsReplay
<1> QED
  BY <1>8, <1>9 DEF ReplayChatBegin, chatCacheSnapshot

\* A replay puts one frame of an answer in the queue.
LEMMA AnswerSent ==
  ASSUME RegistryInv, ReplayIInv, NEW t \in Replayers, pc[t] = "config", out[t] # <<>>,
         Queue(t, Owner(t), "config"), out' = [out EXCEPT ![t] = Tail(@)],
         UNCHANGED <<nonce, conn, configPhase>>
  PROVE  ClientRight(Owner(t))'
<1> DEFINE c == Owner(t)
           n == nonce[t]
           f == Head(out[t])
           view == ConfigView(send[c])
           more == IF isConfigFrame(f) THEN Append(view, f) ELSE view
           A == AnswersTo(Asked(c))
<1>1. c \in Client /\ t \in Thread /\ ReplayerRight(t) /\ ClientRight(c) /\ QueueTypes
  BY ReplayerFacts, SplitReplay DEF ReplayIInv
<1>2. PICK k \in 1 .. MaxWants : t = Replayer(c, k)
  BY ReplayerFacts
<1>3. view \in Seq(Frame) /\ n \in Nat /\ send[c] \in Seq(Frame)
  BY <1>1, ViewType DEF QueueTypes
<1>4. f \in Frame /\ out'[t] = Tail(out[t]) /\ \A u \in Thread \ {t} : out'[u] = out[u]
  BY <1>1 DEF QueueTypes
<1>5. Goto(t, "config") /\ Replaying(t) /\ send'[c] = Append(send[c], f)
  BY <1>1 DEF Queue, Replaying, QueueTypes
<1>6. ConfigView(send[c])' = more
  <2>1. ConfigView(send[c])' = ConfigView(send'[c])
    BY DEF ConfigView
  <2> HIDE DEF f
  <2>2. ConfigView(Append(send[c], f)) = more
    BY <1>3, <1>4, ViewAppend
  <2> QED
    BY <1>5, <2>1, <2>2
<1>7. \A i : Completed(c, i)' = IF f.kind = "config_complete" /\ f.id = i
                                THEN Completed(c, i) \cup {Len(send[c]) + 1} ELSE Completed(c, i)
  <2> HIDE DEF f
  <2> QED
    BY <1>1, <1>3, <1>4, <1>5, CompletedAppend
<1>8. pc'[t] = "config" /\ \A u \in Thread \ {t} : pc'[u] = pc[u]
  BY <1>1, <1>5 DEF Goto, RegistryInv, RegistryTypes
<1> HIDE DEF more
<1>9. ASSUME conn[c] = "open"
      PROVE  /\ Pieces(more, A)
             /\ \/ out'[t] = <<>> /\ LastEnd(more, Len(more))
                \/ Progress(more, out'[t], n)
             /\ PhasesRight(c)'
  <2>1. QueueWhole(c) /\ PhasesRight(c)
    BY <1>1, <1>9 DEF ClientRight
  <2>2. Progress(view, out[t], n) /\ Pieces(view, A)
    BY <1>2, <2>1 DEF QueueWhole
  <2>3. /\ Tail(out[t]) # <<>> => f.kind # "config_complete" /\ Progress(more, Tail(out[t]), n)
        /\ Tail(out[t]) = <<>> =>
             /\ f.kind = "config_complete" /\ f.id = n
             /\ \E cache \in Caches : \A q \in 0 .. Len(view) : LastEnd(view, q) =>
                  Append(SubSeq(view, q + 1, Len(view)), f) = ConfigView(ReplayFrames(cache, n))
    BY <1>3, <2>2, ProgressStep DEF more
  <2> HIDE DEF view, f, n, A
  <2>4. CASE Tail(out[t]) # <<>>
    <3>1. f.kind # "config_complete"
      BY <2>3, <2>4
    <3>2. Pieces(Append(view, f), A)
      BY <1>3, <1>4, <2>2, <3>1, PiecesAppend
    <3>3. Pieces(more, A)
      BY <2>2, <3>2 DEF more
    <3>4. \A i : Completed(c, i)' = Completed(c, i)
      BY <1>7, <3>1
    <3>5. PhasesRight(c)'
      BY <1>4, <1>5, <2>1, <2>4, <3>4, OwnPhases
    <3> QED
      BY <1>4, <2>3, <2>4, <3>3, <3>5
  <2>5. CASE Tail(out[t]) = <<>>
    <3>1. f.kind = "config_complete" /\ f.id = n /\ isConfigFrame(f) /\ more = Append(view, f)
      BY <2>3, <2>5 DEF isConfigFrame, ConfigKinds, more
    <3>2. n \in Asked(c)
      BY <1>2 DEF Asked, n
    <3>3. \A q \in 0 .. Len(view) : LastEnd(view, q) => Append(SubSeq(view, q + 1, Len(view)), f) \in A
      BY <2>3, <2>5, <3>2 DEF A, AnswersTo
    <3>4. Pieces(more, A)
      BY <1>3, <1>4, <2>2, <3>1, <3>3, PiecesAppend
    <3>5. LastEnd(more, Len(more))
      BY <1>3, <1>4, <3>1, LastEndAppend
    <3> DEFINE Ends(i) == {l \in DOMAIN send[c] : send[c][l].kind = "config_complete" /\ send[c][l].id = i}
               EndsNow(i) == {l \in DOMAIN send'[c] : send'[c][l].kind = "config_complete" /\ send'[c][l].id = i}
    <3>a. \A i : EndsNow(i) = IF i = n THEN Ends(i) \cup {Len(send[c]) + 1} ELSE Ends(i)
      BY <1>7, <3>1 DEF Completed
    <3>b. \A i : Ends(i) \subseteq 1 .. Len(send[c])
      BY <1>3
    <3>c. /\ Completed(c, nonceOnlyConfig) # {} => "config" \in configPhase[c]
          /\ Completed(c, nonceOnlyConfig) = Ends(nonceOnlyConfig)
          /\ Completed(c, nonceOnlyNodes) = Ends(nonceOnlyNodes)
      BY <2>1 DEF PhasesRight, Completed
    <3> HIDE DEF Ends, EndsNow
    <3>6. /\ EndsNow(n) = Ends(n) \cup {Len(send[c]) + 1}
          /\ \A i : i # n => EndsNow(i) = Ends(i)
          /\ \A i : Ends(i) \subseteq EndsNow(i) /\ EndsNow(i) \subseteq Ends(i) \cup {Len(send[c]) + 1}
      BY <3>a
    <3>7. EndsNow(nonceOnlyConfig) # {} => "config" \in configPhase[c]
      BY <1>1, <3>6, <3>c DEF ReplayerRight, n
    <3>8. ASSUME NEW j \in 1 .. MaxWants
          PROVE  LET u == Replayer(c, j) IN
                 /\ pc'[u] = "config" /\ out'[u] = <<>> => EndsNow(nonce[u]) # {}
                 /\ ReplayChat /\ MaxChatCache > 0 /\ nonce[u] = nonceOnlyNodes /\ pc'[u] = "done"
                    => \E x \in EndsNow(nonceOnlyNodes) :
                         \A i \in EndsNow(nonceOnlyConfig) : x < i
      <4>1. CASE Replayer(c, j) = t
        BY <1>8, <3>6, <4>1 DEF n
      <4>2. CASE Replayer(c, j) # t
        <5> DEFINE u == Replayer(c, j)
        <5>1. pc'[u] = pc[u] /\ out'[u] = out[u]
          BY <1>1, <1>4, <1>8, <4>2, ReplayerFacts
        <5>2. pc'[u] # "config"
          BY <1>5, <4>2, <5>1, OthersRest
        <5>3. ASSUME ReplayChat, MaxChatCache > 0, nonce[u] = nonceOnlyNodes, pc'[u] = "done"
              PROVE  \E x \in EndsNow(nonceOnlyNodes) :
                       \A i \in EndsNow(nonceOnlyConfig) : x < i
          <6>1. PICK x \in Ends(nonceOnlyNodes) : \A i \in Ends(nonceOnlyConfig) : x < i
            BY <2>1, <3>c, <5>1, <5>3 DEF PhasesRight
          <6>2. x \in EndsNow(nonceOnlyNodes)
            BY <3>6
          <6>3. x < Len(send[c]) + 1
            BY <1>3, <3>b
          <6> QED
            BY <3>6, <6>1, <6>2, <6>3
        <5> QED
          BY <5>2, <5>3
      <4> QED
        BY <4>1, <4>2
    <3>9. PhasesRight(c)'
      BY <3>7, <3>8 DEF PhasesRight, Completed, EndsNow
    <3> QED
      BY <1>4, <2>5, <3>4, <3>5, <3>9
  <2> QED
    BY <2>4, <2>5
<1> HIDE DEF view, f, A
<1>10. conn[c] = "open" =>
         LET w == ConfigView(send[c])' IN
         /\ Pieces(w, AnswersTo(Asked(c)))
         /\ "config" = "config" => \/ out'[t] = <<>> /\ LastEnd(w, Len(w))
                                   \/ Progress(w, out'[t], nonce[t])
         /\ "config" \notin {"config", "close"} => LastEnd(w, Len(w))
         /\ PhasesRight(c)'
  BY <1>6, <1>9 DEF A
<1> QED
  BY <1>5, <1>10, OwnClient

\* A replay sends a frame, or meets a full buffer and gives up.
LEMMA SendReplayKeepsReplay ==
  ASSUME RegistryInv, ReplayIInv, NEW t \in Replayers, ReplaySend(t)
  PROVE  ReplayIInv'
<1> DEFINE c == Owner(t)
           f == Head(out[t])
           view == ConfigView(send[c])
<1>1. /\ pc[t] \in {"config", "chat"} /\ out[t] # <<>>
      /\ UNCHANGED <<rlocked, chatCache, configCache, nonce, conn, configPhase>>
  BY DEF ReplaySend, lockVars, nodeVars, replayVars
<1>2. /\ c \in Client /\ t \in Thread /\ ReplayerRight(t) /\ ClientRight(c) /\ Replaying(t)
      /\ out \in [Thread -> Seq(Frame)] /\ send \in [Client -> Seq(Frame)]
      /\ configPhase \in [Client -> SUBSET {"config", "nodes"}]
  BY <1>1, ReplayerFacts, SplitReplay DEF ReplayIInv, QueueTypes, Replaying
<1>3. f \in Frame /\ Tail(out[t]) \in Seq(Frame) /\ send[c] \in Seq(Frame)
  BY <1>1, <1>2
<1>4. CASE Queue(t, c, pc[t]) /\ out' = [out EXCEPT ![t] = Tail(@)]
  <2>1. /\ Goto(t, pc[t]) /\ UNCHANGED target
        /\ send' = [send EXCEPT ![c] = Append(@, f)]
    BY <1>4 DEF Queue
  <2> HIDE DEF f
  <2>2. /\ out' \in [Thread -> Seq(Frame)] /\ out'[t] = Tail(out[t])
        /\ \A u \in Thread \ {t} : out'[u] = out[u]
        /\ send' \in [Client -> Seq(Frame)] /\ send'[c] = Append(send[c], f)
        /\ \A d \in Client \ {c} : send'[d] = send[d]
    BY <1>2, <1>3, <1>4, <2>1
  <2>3. pc'[t] = pc[t]
    BY <1>2, <2>1 DEF Goto, RegistryInv, RegistryTypes
  <2>4. ReplayerRight(t)'
    BY <1>1, <1>2, <2>3 DEF ReplayerRight, Closing
  <2>5. ASSUME pc[t] = "chat" PROVE NoConfig(out'[t]) /\ ~isConfigFrame(f)
    <3>1. NoConfig(out[t])
      BY <1>2, <2>5 DEF ReplayIInv, OutRight
    <3>2. /\ DOMAIN out[t] = 1 .. Len(out[t]) /\ Len(out[t]) \in Nat \ {0} /\ f = out[t][1]
          /\ DOMAIN Tail(out[t]) = 1 .. Len(out[t]) - 1
          /\ \A i \in 1 .. Len(out[t]) - 1 : Tail(out[t])[i] = out[t][i + 1]
      BY <1>1, <1>2 DEF f
    <3>3. 1 \in 1 .. Len(out[t]) /\ \A i \in 1 .. Len(out[t]) - 1 : i + 1 \in 1 .. Len(out[t])
      BY <3>2
    <3> QED
      BY <2>2, <3>1, <3>2, <3>3 DEF NoConfig
  <2>6. ClientRight(c)'
    <3>1. CASE pc[t] = "config"
      BY <1>1, <1>4, <3>1, AnswerSent
    <3>2. CASE pc[t] = "chat"
      <4>1. ConfigView(send[c])' = view /\ \A i : Completed(c, i)' = Completed(c, i)
        <5>1. ConfigView(Append(send[c], f)) = ConfigView(send[c])
          BY <1>3, <2>5, <3>2, ViewAppend DEF f
        <5>2. ConfigView(send[c])' = ConfigView(send'[c])
          BY DEF ConfigView
        <5>3. f.kind # "config_complete" /\ f \in Frame
          BY <1>3, <2>5, <3>2 DEF isConfigFrame, ConfigKinds, f
        <5> QED
          BY <1>2, <1>3, <2>2, <5>1, <5>2, <5>3, CompletedAppend
      <4>2. ASSUME conn[c] = "open"
            PROVE  Pieces(view, AnswersTo(Asked(c))) /\ LastEnd(view, Len(view)) /\ PhasesRight(c)
        <5>1. \A k \in 1 .. MaxWants : pc[Replayer(c, k)] \notin {"config", "close"}
          <6>1. \A k \in 1 .. MaxWants : Replayer(c, k) # t =>
                  pc[Replayer(c, k)] \in {"off", "wait", "done", "chatted", "empty"}
            BY <1>2, OthersRest
          <6> QED
            BY <3>2, <6>1
        <5> QED
          BY <1>2, <4>2, <5>1 DEF ClientRight, QueueWhole
      <4>3. conn[c] = "open" => PhasesRight(c)'
        BY <1>1, <2>1, <2>2, <3>2, <4>1, <4>2, OwnPhases
      <4> HIDE DEF view
      <4> QED
        BY <1>1, <1>2, <2>1, <3>2, <4>1, <4>2, <4>3, OwnClient
    <3> QED
      BY <1>1, <3>1, <3>2
  <2>7. pc[t] \in Labels
    BY <1>1 DEF Labels
  <2> QED
    BY <1>1, <1>2, <2>1, <2>2, <2>4, <2>5, <2>6, <2>7, ReplayerKeepsReplay
<1>5. CASE Overflow(t, c) /\ out' = [out EXCEPT ![t] = <<>>]
  <2>1. Goto(t, "close") /\ UNCHANGED send /\ target' = [target EXCEPT ![t] = c]
    BY <1>5 DEF Overflow
  <2>2. /\ target'[t] = c /\ \A u \in Thread \ {t} : target'[u] = target[u]
        /\ pc'[t] = "close"
    BY <1>2, <2>1 DEF Goto, RegistryInv, RegistryTypes
  <2>3. /\ out' \in [Thread -> Seq(Frame)] /\ out'[t] = <<>>
        /\ \A u \in Thread \ {t} : out'[u] = out[u]
    BY <1>2, <1>5
  <2>4. ReplayerRight(t)'
    BY <2>2, <2>3 DEF ReplayerRight
  <2>5. ConfigView(send[c])' = view /\ \A i : Completed(c, i)' = Completed(c, i)
    BY <2>1 DEF ConfigView, Completed
  <2>6. conn[c] = "open" => Pieces(view, AnswersTo(Asked(c))) /\ PhasesRight(c)
    BY <1>2 DEF ClientRight, QueueWhole
  <2>7. conn[c] = "open" => PhasesRight(c)'
    BY <1>1, <2>1, <2>3, <2>5, <2>6, OwnPhases
  <2> HIDE DEF view
  <2>8. ClientRight(c)'
    BY <1>1, <1>2, <2>1, <2>5, <2>6, <2>7, OwnClient
  <2>9. NoConfig(out'[t]) /\ "close" \in Labels
    BY <2>3 DEF NoConfig, Labels
  <2> QED
    BY <1>1, <1>2, <2>1, <2>2, <2>3, <2>4, <2>8, <2>9, ReplayerKeepsReplay
<1> QED
  BY <1>4, <1>5 DEF ReplaySend

\* The chat history has been sent.
LEMMA EndKeepsReplay ==
  ASSUME RegistryInv, ReplayIInv, NEW t \in Replayers, ReplayEnds(t)
  PROVE  ReplayIInv'
<1> DEFINE c == Owner(t)
           view == ConfigView(send[c])
<1>1. /\ pc[t] = "chat" /\ out[t] = <<>> /\ Goto(t, "chatted")
      /\ UNCHANGED <<out, send, target, rlocked, chatCache, configCache, nonce, conn, configPhase>>
  BY DEF ReplayEnds, lockVars, queueVars, connVars, nodeVars, replayVars
<1>2. /\ c \in Client /\ t \in Thread /\ ReplayerRight(t) /\ ClientRight(c) /\ Replaying(t)
      /\ out \in [Thread -> Seq(Frame)] /\ send \in [Client -> Seq(Frame)]
      /\ configPhase \in [Client -> SUBSET {"config", "nodes"}]
  BY <1>1, ReplayerFacts, SplitReplay DEF ReplayIInv, QueueTypes, Replaying
<1>3. pc'[t] = "chatted"
  BY <1>1, <1>2 DEF Goto, RegistryInv, RegistryTypes
<1>4. ReplayerRight(t)'
  BY <1>1, <1>3 DEF ReplayerRight, Closing
<1>5. ConfigView(send[c])' = view /\ \A i : Completed(c, i)' = Completed(c, i)
  BY <1>1 DEF ConfigView, Completed
<1>6. ASSUME conn[c] = "open"
      PROVE  Pieces(view, AnswersTo(Asked(c))) /\ LastEnd(view, Len(view)) /\ PhasesRight(c)
  <2>1. \A k \in 1 .. MaxWants : pc[Replayer(c, k)] \notin {"config", "close"}
    <3>1. \A k \in 1 .. MaxWants : Replayer(c, k) # t =>
            pc[Replayer(c, k)] \in {"off", "wait", "done", "chatted", "empty"}
      BY <1>2, OthersRest
    <3> QED
      BY <1>1, <3>1
  <2> QED
    BY <1>2, <1>6, <2>1 DEF ClientRight, QueueWhole
<1>7. conn[c] = "open" => PhasesRight(c)'
  BY <1>1, <1>5, <1>6, OwnPhases
<1> HIDE DEF view
<1>8. ClientRight(c)'
  BY <1>1, <1>2, <1>5, <1>6, <1>7, OwnClient
<1>9. NoConfig(out'[t]) /\ "chatted" \in Labels
  BY <1>1 DEF NoConfig, Labels
<1> QED
  BY <1>1, <1>2, <1>4, <1>8, <1>9, ReplayerKeepsReplay

\* Nothing was sent at the start.
LEMMA InitReplay == Init => ReplayIInv
<1> SUFFICES ASSUME Init PROVE ReplayIInv
  OBVIOUS
<1>1. /\ \A t \in Replayers : pc[t] = "off"
      /\ \A t \in Thread : pc[t] \in {"accept", "recv", "off"}
  <2>1. \A t \in Replayers : t # Acceptor /\ t # Broadcaster /\ t \in Thread
    BY ReplayerFacts
  <2> QED
    BY <2>1 DEF Init
<1>2. /\ QueueTypes /\ \A t \in Thread : out[t] = <<>>
      /\ rlocked = {} /\ DOMAIN chatCache = {}
  <2>1. <<>> \in Seq(Frame) /\ DOMAIN <<>> = {}
    OBVIOUS
  <2>2. out = [t \in Thread |-> <<>>] /\ send = [c \in Client |-> <<>>]
    BY DEF Init
  <2>3. out \in [Thread -> Seq(Frame)] /\ send \in [Client -> Seq(Frame)]
    BY <2>1, <2>2
  <2>4. nonce \in [Replayers -> Nat] /\ configPhase \in [Client -> SUBSET {"config", "nodes"}]
    BY DEF Init
  <2>5. configCache = <<>> /\ rlocked = {} /\ chatCache = <<>>
    BY DEF Init
  <2> QED
    BY <2>1, <2>2, <2>3, <2>4, <2>5 DEF QueueTypes
<1>3. \A t \in Thread : ~Carries(t) /\ NoConfig(out[t])
  BY <1>1, <1>2 DEF Carries, Closing, NoConfig
<1>4. ChatIsNoConfig /\ OutRight
  BY <1>2, <1>3 DEF ChatIsNoConfig, OutRight
<1>5. OneReplay
  BY <1>1, ReplayerFacts DEF OneReplay, Replaying
<1>6. \A t \in Replayers : ReplayerRight(t)
  BY <1>1, <1>2, ReplayerFacts DEF ReplayerRight, Closing
<1>7. \A c \in Client : conn[c] = "none" /\ send[c] = <<>>
  BY DEF Init
<1> QED
  BY <1>2, <1>4, <1>5, <1>6, <1>7 DEF ReplayIInv

\* Every step keeps what the clients were sent right.
LEMMA StepReplay ==
  RegistryInv /\ ShutdownInv /\ ChatInv /\ ReplayIInv /\ [Next]_vars => ReplayIInv'
<1> SUFFICES ASSUME RegistryInv, ShutdownInv, ChatInv, ReplayIInv, [Next]_vars
             PROVE  ReplayIInv'
  OBVIOUS
<1>1. ASSUME NEW t \in Thread, ThreadStep(t) PROVE ReplayIInv'
  BY <1>1, CloseKeepsReplay, OtherKeepsReplay, RangeKeepsReplay, SendKeepsReplay,
     RUnlockKeepsReplay
    DEF ThreadStep
<1>2. CASE AcceptorStep
  BY <1>2, AcceptorKeepsReplay, StartKeepsReplay DEF AcceptorStep
<1>3. ASSUME NEW c \in Client, NEW m \in ToRadio,
             ReadWant(c, m) \/ ReadDisconnect(c, m) \/ ReadPacket(c, m) \/ ReadHeartbeat(c, m)
      PROVE  ReplayIInv'
  BY <1>3, WantKeepsReplay, LoopKeepsReplay, PacketKeepsReplay
<1>4. ASSUME NEW c \in Client, ReaderStep(c) \/ ReadFails(c) \/ WaiterCloses(c)
      PROVE  ReplayIInv'
  BY <1>4, LoopKeepsReplay, CacheOutgoingKeepsReplay DEF ReaderStep
<1>5. ASSUME NEW t \in Replayers, ReplayStep(t) PROVE ReplayIInv'
  BY <1>5, BeginKeepsReplay, SendReplayKeepsReplay, ChatBeginKeepsReplay, EndKeepsReplay
    DEF ReplayStep
<1>6. ASSUME NEW c \in Client, AcceptConn(c) PROVE ReplayIInv'
  BY <1>6, AcceptKeepsReplay
<1>7. ASSUME NEW f \in NodeFrame, ReceiveFrame(f) PROVE ReplayIInv'
  BY <1>7, ReceiveKeepsReplay
<1>8. CASE StopBroadcast
  BY <1>8, RangeKeepsReplay
<1> QED
  BY <1>1, <1>2, <1>3, <1>4, <1>5, <1>6, <1>7, <1>8, OtherKeepsReplay DEF Next

\* A set of naturals below n has a greatest one, if it is not empty.
LEMMA GreatestBelow ==
  ASSUME NEW n \in Nat, NEW S, S \subseteq 1 .. n, S # {}
  PROVE  \E x \in S : \A y \in S : y <= x
<1> DEFINE T == {n - x : x \in S}
<1>1. \A x \in S : x \in Nat /\ n - x \in Nat
  OBVIOUS
<1>2. T \subseteq Nat /\ T # {}
  BY <1>1
<1> HIDE DEF T
<1>3. PICK z \in T : \A y \in T : z <= y
  BY <1>2, LeastNatural
<1>4. PICK x \in S : z = n - x
  BY DEF T
<1>5. \A y \in S : n - x <= n - y
  BY <1>3, <1>4 DEF T
<1>6. \A y \in S : y <= x
  BY <1>1, <1>5
<1> QED
  BY <1>6

\* From one end to the next there is one whole answer.
LEMMA WholeReplays ==
  ASSUME ReplayIInv
  PROVE  ReplaysAreWhole
<1> SUFFICES ASSUME NEW c \in Client, conn[c] = "open",
                    NEW i \in EndsOf(ConfigView(send[c]))
             PROVE  LET view  == ConfigView(send[c])
                        prev  == {j \in EndsOf(view) : j < i}
                        first == IF prev = {} THEN 1 ELSE 1 + CHOOSE j \in prev : \A l \in prev : l <= j
                    IN  \E cache \in Caches, n \in Asked(c) :
                          SubSeq(view, first, i) = ConfigView(ReplayFrames(cache, n))
  BY DEF ReplaysAreWhole, EndsOf
<1> DEFINE view  == ConfigView(send[c])
           ends  == EndsOf(view)
           prev  == {j \in ends : j < i}
           last  == CHOOSE j \in prev : \A l \in prev : l <= j
           q     == IF prev = {} THEN 0 ELSE last
           first == IF prev = {} THEN 1 ELSE 1 + last
<1>1. view \in Seq(Frame) /\ Pieces(view, AnswersTo(Asked(c)))
  <2>1. send[c] \in Seq(Frame)
    BY DEF ReplayIInv, QueueTypes
  <2> QED
    BY <2>1, ViewType DEF ReplayIInv, QueueWhole
<1> HIDE DEF view
<1>2. Len(view) \in Nat /\ ends \subseteq 1 .. Len(view) /\ i \in ends
  BY <1>1 DEF EndsOf, view
<1> HIDE DEF ends
<1>3. prev # {} => last \in prev /\ \A l \in prev : l <= last
  <2>1. prev \subseteq 1 .. Len(view)
    BY <1>2
  <2> HIDE DEF prev
  <2> QED
    BY <1>2, <2>1, GreatestBelow
<1>4. q \in ends \cup {0} /\ q < i /\ first = q + 1
  <2>1. CASE prev = {}
    BY <1>2, <2>1
  <2>2. CASE prev # {}
    <3>1. last \in ends /\ last < i
      BY <1>3, <2>2
    <3> HIDE DEF last
    <3> QED
      BY <1>2, <2>2, <3>1
  <2> QED
    BY <2>1, <2>2
<1>5. \A j \in ends : j <= q \/ i <= j
  <2>1. SUFFICES ASSUME NEW j \in ends, ~(i <= j) PROVE j <= q
    OBVIOUS
  <2>2. j \in prev
    BY <1>2, <2>1
  <2> HIDE DEF prev, last
  <2> QED
    BY <1>3, <2>2
<1>6. SubSeq(view, q + 1, i) \in AnswersTo(Asked(c))
  <2> HIDE DEF q, first
  <2> QED
    BY <1>1, <1>2, <1>4, <1>5 DEF Pieces, ends
<1>7. SubSeq(view, first, i) \in AnswersTo(Asked(c))
  BY <1>4, <1>6
<1>8. \E cache \in Caches, n \in Asked(c) :
        SubSeq(view, first, i) = ConfigView(ReplayFrames(cache, n))
  <2> HIDE DEF first
  <2> QED
    BY <1>7 DEF AnswersTo
<1> QED
  BY <1>8 DEF first, last, prev, ends, view

\* A client that asks for its nodes after its config is sent the chat history,
\* however many requests it has under way: config_replay.go decides it under
\* replayMu from the phases begun before.
THEOREM SecondPhase == Spec => []SecondPhaseBringsChat
<1>1. ReplayIInv => SecondPhaseBringsChat
  BY DEF ReplayIInv, SecondPhaseBringsChat, PhasesRight
<1> QED
  BY <1>1, InitReplay, StepReplay, InitChat, StepChat, InitShutdown, StepShutdown,
     RegistryInvariance, PTL
    DEF Spec

-----------------------------------------------------------------------------
\* The types the other invariants say nothing of.
CounterTypes ==
  /\ activeClients \in Nat
  /\ pending \subseteq Thread
  /\ count \in [Thread -> Nat]
  /\ reason \in [Client -> Reasons]
  /\ taken \in [Client -> Nat]
  /\ msgs \in [Client -> Nat]

FlagTypes ==
  /\ cancelled \in [Client -> BOOLEAN]
  /\ ctxDone \in BOOLEAN

\* They hold at the start.
LEMMA InitCounters == Init => CounterTypes /\ FlagTypes
<1>1. Init => CounterTypes
  <2> SUFFICES ASSUME Init PROVE CounterTypes
    OBVIOUS
  <2>1. activeClients \in Nat /\ pending \subseteq Thread
    BY DEF Init
  <2>2. count \in [Thread -> Nat]
    BY DEF Init
  <2>3. reason \in [Client -> Reasons]
    BY DEF Init, Reasons
  <2>4. taken \in [Client -> Nat] /\ msgs \in [Client -> Nat]
    BY DEF Init
  <2> QED
    BY <2>1, <2>2, <2>3, <2>4 DEF CounterTypes
<1>2. Init => FlagTypes
  <2>1. TRUE \in BOOLEAN /\ FALSE \in BOOLEAN
    BY Zenon
  <2>2. [c \in Client |-> FALSE] \in [Client -> BOOLEAN]
    BY <2>1, Zenon
  <2> QED
    BY <2>1, <2>2, Zenon DEF Init, FlagTypes
<1> QED
  BY <1>1, <1>2

\* A context that is cancelled stays so.
LEMMA StepFlags == FlagTypes /\ [Next]_vars => FlagTypes'
<1> SUFFICES ASSUME FlagTypes, [Next]_vars PROVE FlagTypes'
  OBVIOUS
<1>1. ctxDone' = ctxDone \/ ctxDone' = TRUE
  BY Zenon
    DEF Next, vars, ThreadStep, CloseBegin, LockWaits, Unregister, StoreCount, RLock, SendNext,
        RUnlock, ReplayStep, ReplayBegin, ReplaySend, ReplayChatBegin, ReplayEnds, AcceptConn,
        AcceptorStep, RejectConn, RegisterClient, StartClient, BeginShutdown, CloseNext,
        RunReturns, SuppressConfigFrame, ReceiveFrame, StopBroadcast, ReaderStep, ReaderLoop,
        CacheOutgoing, ForwardToNode, ReadFails, ReadWant, ReadDisconnect, ReadPacket,
        ReadHeartbeat, WriterStops, WriteFrame, WriteBlocks, WriteUnblocks, WaiterCloses,
        LearnNodeNum, ReplaceConfigCache, Cancel, Finished
<1>2. cancelled' = cancelled \/ \E c \in Client : cancelled' = [cancelled EXCEPT ![c] = TRUE]
  BY Zenon
    DEF Next, vars, connVars, ThreadStep, CloseBegin, LockWaits, Unregister, StoreCount, RLock,
        SendNext, RUnlock, ReplayStep, ReplayBegin, ReplaySend, ReplayChatBegin, ReplayEnds,
        AcceptConn, AcceptorStep, RejectConn, RegisterClient, StartClient, BeginShutdown,
        CloseNext, RunReturns, SuppressConfigFrame, ReceiveFrame, StopBroadcast, ReaderStep,
        ReaderLoop, CacheOutgoing, ForwardToNode, ReadFails, ReaderExits, ReadWant,
        ReadDisconnect, ReadPacket, ReadHeartbeat, WriterStops, WriteFrame, WriteBlocks,
        WriteUnblocks, WriterExits, WaiterCloses, LearnNodeNum, ReplaceConfigCache, Cancel,
        Finished
<1>3. \A c \in Client : [cancelled EXCEPT ![c] = TRUE] \in [Client -> BOOLEAN]
  <2>1. cancelled \in [Client -> BOOLEAN] /\ TRUE \in BOOLEAN
    BY Zenon DEF FlagTypes
  <2> QED
    BY <2>1, Zenon
<1> QED
  BY <1>1, <1>2, <1>3, Zenon DEF FlagTypes

\* A step that leaves them alone, or sets one of them.
LEMMA StepCounters == RegistryInv /\ CounterTypes /\ [Next]_vars => CounterTypes'
<1> SUFFICES ASSUME RegistryInv, CounterTypes, [Next]_vars PROVE CounterTypes'
  OBVIOUS
<1>1. /\ clients' \subseteq Client
      /\ Cardinality(clients') \in Nat
  <2>1. clients' \subseteq Client
    BY StepRegistry DEF RegistryInv, RegistryTypes
  <2> QED
    BY <2>1, HubAssumption, FS_Subset, FS_CardinalityType
<1>2. ASSUME NEW c \in Client, NEW r \in Reasons PROVE WithReason(c, r) \in [Client -> Reasons]
  BY DEF WithReason, CounterTypes
<1>3. "read_error" \in Reasons /\ "idle_timeout" \in Reasons /\ "slow_consumer" \in Reasons
      /\ "client_disconnect" \in Reasons
  BY DEF Reasons
<1>4. ASSUME NEW t \in Thread, CloseBegin(t) \/ LockWaits(t) \/ Unregister(t) \/ StoreCount(t)
      PROVE  CounterTypes'
  <2>1. UNCHANGED <<reason, taken, msgs>>
    BY <1>4
      DEF CloseBegin, LockWaits, Unregister, StoreCount, connVars, queueVars, inputVars
  <2>2. count' = count \/ count' = [count EXCEPT ![t] = Cardinality(clients')]
    BY <1>4 DEF CloseBegin, LockWaits, Unregister, StoreCount, threadVars
  <2>3. count' \in [Thread -> Nat]
    BY <1>1, <2>2 DEF CounterTypes
  <2>4. activeClients' = activeClients \/ activeClients' = count[t]
    BY <1>4 DEF CloseBegin, LockWaits, Unregister, StoreCount, registryVars
  <2>5. pending' \subseteq Thread
    BY <1>4 DEF CloseBegin, LockWaits, Unregister, StoreCount, lockVars, CounterTypes
  <2> QED
    BY <2>1, <2>3, <2>4, <2>5 DEF CounterTypes
<1>5. ASSUME NEW t \in Thread, RLock(t) \/ SendNext(t) \/ RUnlock(t) PROVE CounterTypes'
  <2>1. CASE RLock(t) \/ RUnlock(t)
    BY <2>1 DEF CounterTypes, RLock, RUnlock, registryVars, lockVars, connVars, queueVars, inputVars
  <2>2. CASE SendNext(t)
    <3>1. PICK c \in todo[t] : Queue(t, c, "iterate") \/ Overflow(t, c)
      BY <2>2 DEF SendNext
    <3>2. reason' = reason \/ reason' = WithReason(c, "slow_consumer")
      BY <3>1 DEF Queue, Overflow
    <3>3. c \in Client
      BY DEF RegistryInv, RegistryTypes
    <3> QED
      BY <1>2, <1>3, <2>2, <3>2, <3>3 DEF CounterTypes, SendNext, registryVars, lockVars, inputVars
  <2> QED
    BY <1>5, <2>1, <2>2
<1>6. ASSUME NEW t \in Replayers, ReplayStep(t) PROVE CounterTypes'
  <2>1. CASE ReplayBegin(t) \/ ReplayChatBegin(t) \/ ReplayEnds(t)
    BY <2>1
      DEF CounterTypes, ReplayBegin, ReplayChatBegin, ReplayEnds, registryVars, lockVars,
          connVars, queueVars, inputVars
  <2>2. CASE ReplaySend(t)
    <3>1. reason' = reason \/ reason' = WithReason(Owner(t), "slow_consumer")
      BY <2>2 DEF ReplaySend, Queue, Overflow
    <3>2. reason' \in [Client -> Reasons]
      BY <1>2, <1>3, <3>1, ThreadFacts DEF CounterTypes
    <3> QED
      BY <2>2, <3>2 DEF CounterTypes, ReplaySend, registryVars, lockVars, inputVars
  <2> QED
    BY <1>6, <2>1, <2>2 DEF ReplayStep
<1>7. CASE \/ AcceptorStep \/ StopBroadcast \/ LearnNodeNum \/ Cancel \/ Finished \/ UNCHANGED vars
           \/ \E c \in Client : AcceptConn(c) \/ WaiterCloses(c)
           \/ \E f \in NodeFrame : SuppressConfigFrame(f) \/ ReceiveFrame(f)
           \/ \E cache \in Caches : ReplaceConfigCache(cache)
  <2>1. CASE AcceptorStep
    BY <1>1, <2>1, ThreadFacts
      DEF CounterTypes, AcceptorStep, RejectConn, RegisterClient, StartClient, BeginShutdown,
          CloseNext, RunReturns, registryVars, lockVars, connVars, queueVars, inputVars
  <2> QED
    BY <1>7, <2>1
      DEF CounterTypes, StopBroadcast, LearnNodeNum, Cancel, Finished, vars, AcceptConn,
          WaiterCloses, SuppressConfigFrame, ReceiveFrame, ReplaceConfigCache, registryVars,
          lockVars, threadVars, connVars, queueVars, inputVars
<1>8. ASSUME NEW c \in Client, ReaderStep(c) \/ ReadFails(c) PROVE CounterTypes'
  <2>1. CASE ReaderStep(c)
    BY <2>1
      DEF CounterTypes, ReaderStep, ReaderLoop, CacheOutgoing, ForwardToNode, ReaderExits,
          registryVars, lockVars, connVars, queueVars, inputVars
  <2>2. CASE ReadFails(c)
    <3>1. reason' \in [Client -> Reasons]
      <4>1. PICK r \in {"read_error", "idle_timeout"} : reason' \in {reason, WithReason(c, r)}
        BY <2>2 DEF ReadFails
      <4> QED
        BY <1>2, <1>3, <4>1 DEF CounterTypes
    <3> QED
      BY <2>2, <3>1 DEF CounterTypes, ReadFails, ReaderExits, registryVars, lockVars, queueVars, inputVars
  <2> QED
    BY <1>8, <2>1, <2>2
<1>9. ASSUME NEW c \in Client, NEW m \in ToRadio,
             ReadWant(c, m) \/ ReadDisconnect(c, m) \/ ReadPacket(c, m) \/ ReadHeartbeat(c, m)
      PROVE  CounterTypes'
  <2>1. msgs' \in [Client -> Nat]
    BY <1>9
      DEF CounterTypes, ReadWant, ReadDisconnect, ReadPacket, ReadHeartbeat, ReadsMessage
  <2>2. reason' = reason \/ reason' = WithReason(c, "client_disconnect")
    BY <1>9 DEF ReadWant, ReadDisconnect, ReadPacket, ReadHeartbeat, connVars
  <2>3. UNCHANGED <<activeClients, pending, count, taken>>
    BY <1>9
      DEF ReadWant, ReadDisconnect, ReadPacket, ReadHeartbeat, registryVars, lockVars,
          connVars, queueVars
  <2>4. reason' \in [Client -> Reasons]
    BY <1>2, <1>3, <2>2 DEF CounterTypes
  <2> QED
    BY <2>1, <2>3, <2>4 DEF CounterTypes
<1>10. ASSUME NEW c \in Client, WriterStops(c) \/ WriteFrame(c) \/ WriteBlocks(c) \/ WriteUnblocks(c)
       PROVE  CounterTypes'
  BY <1>10
    DEF CounterTypes, WriterStops, WriteFrame, WriteBlocks, WriteUnblocks, WriterExits,
        registryVars, lockVars, threadVars, connVars, queueVars, inputVars
<1> QED
  BY <1>4, <1>5, <1>6, <1>7, <1>8, <1>9, <1>10 DEF Next, ThreadStep

\* Every client receives whole replays, each of one cache and for a nonce it asked
\* for: replayMu keeps two replays of one client apart, and the broadcast loop
\* suppresses the node's own config frames.
THEOREM ReplaysWhole == Spec => []ReplayInv
<1>1. RegistryInv /\ ShutdownInv /\ ChatInv /\ ReplayIInv /\ CounterTypes /\ FlagTypes => ReplayInv
  <2> SUFFICES ASSUME RegistryInv, ShutdownInv, ChatInv, ReplayIInv, CounterTypes, FlagTypes
               PROVE  TypeOK /\ ReplaysAreWhole
    BY DEF ReplayInv
  <2>1. configCache \in Seq(Frame)
    <3>1. configCache \in Caches \cup {<<>>} /\ <<>> \in Seq(Frame)
      BY DEF ReplayIInv, QueueTypes
    <3> QED
      BY <3>1, FrameAssumption
  <2>2. toNode \subseteq ToRadioMsg /\ seen \subseteq Frame
    BY FrameAssumption DEF ChatInv, ChatTypes, Forwarded
  <2>3. input \in [Client -> Seq(ToRadioMsg)]
    <3>1. \A m \in Forwarded : m \in ToRadioMsg
      BY FrameAssumption DEF Forwarded
    <3>a. <<>> \in Seq(ToRadioMsg) /\ \A m \in ToRadioMsg : <<m>> \in Seq(ToRadioMsg)
      OBVIOUS
    <3>2. {<<>>} \cup {<<m>> : m \in Forwarded} \subseteq Seq(ToRadioMsg)
      BY <3>1, <3>a
    <3> DEFINE S == {<<>>} \cup {<<m>> : m \in Forwarded}
    <3>3. input \in [Client -> S]
      BY DEF ChatInv, ChatTypes
    <3> HIDE DEF S
    <3>4. S \subseteq Seq(ToRadioMsg)
      BY <3>2 DEF S
    <3> QED
      BY <3>3, <3>4
  <2>4. TypeOK
    BY <2>1, <2>2, <2>3
      DEF TypeOK, RegistryInv, RegistryTypes, ShutdownInv, ChatInv, ChatTypes, ReplayIInv,
          QueueTypes, CounterTypes, FlagTypes
  <2> QED
    BY <2>4, WholeReplays
<1> QED
  BY <1>1, InitCounters, StepCounters, StepFlags, InitReplay, StepReplay, InitChat, StepChat, InitShutdown,
     StepShutdown, RegistryInvariance, PTL
    DEF Spec

-----------------------------------------------------------------------------
\* The history: a text cached before a broadcast is not missed.

\* f is in the queue s or among the frames o still to be sent, or the broadcast of
\* b, at label and with td left to visit, will bring it to c.
Flying(b, label, td, c, f) == b = <<f>> /\ (label = "rlock" \/ c \in td)

TextReached(t, c, f) ==
  \/ Holds(send[c], f) \/ Holds(out[t], f)
  \/ Flying(out[Broadcaster], pc[Broadcaster], todo[Broadcaster], c, f)

\* A client that is being sent the history: what is cached of the mesh it has,
\* will be sent in the replay, or in the broadcast under way.
HistoryRight(t) ==
  pc[t] \in {"chat", "chatted"} /\ Owner(t) \in clients /\ reason[Owner(t)] = "" =>
    \A i \in DOMAIN chatCache :
      chatCache[i].message \in seen => TextReached(t, Owner(t), chatCache[i].message)

TextInv ==
  /\ pc[Broadcaster] = "recv" => out[Broadcaster] = <<>>
  /\ \A t \in Replayers : HistoryRight(t)

\* A step that takes nothing from what reaches the client of t.
StillReached(t) ==
  LET c == Owner(t) IN
  /\ pc'[t] \in {"chat", "chatted"} /\ c \in clients' /\ reason'[c] = "" =>
       /\ pc[t] \in {"chat", "chatted"} /\ c \in clients /\ reason[c] = ""
       /\ \A f : Holds(send[c], f) \/ Holds(out[t], f) => Holds(send'[c], f) \/ Holds(out'[t], f)
       /\ \A f : Flying(out[Broadcaster], pc[Broadcaster], todo[Broadcaster], c, f) =>
            \/ Holds(send'[c], f)
            \/ Flying(out'[Broadcaster], pc'[Broadcaster], todo'[Broadcaster], c, f)

\* No message of the mesh is new in the cache.
NoNewText ==
  \A i \in DOMAIN chatCache' : chatCache'[i].message \in seen' =>
    \E j \in DOMAIN chatCache : chatCache'[i].message = chatCache[j].message /\ chatCache[j].message \in seen

\* Such a step keeps it right.
LEMMA StillRight ==
  ASSUME NEW t \in Replayers, HistoryRight(t), StillReached(t), NoNewText
  PROVE  HistoryRight(t)'
<1> DEFINE c == Owner(t)
<1> SUFFICES ASSUME pc'[t] \in {"chat", "chatted"}, c \in clients', reason'[c] = "",
                    NEW i \in DOMAIN chatCache', chatCache'[i].message \in seen'
             PROVE  TextReached(t, c, chatCache[i].message)'
  BY DEF HistoryRight
<1>1. PICK j \in DOMAIN chatCache :
        chatCache'[i].message = chatCache[j].message /\ chatCache[j].message \in seen
  BY DEF NoNewText
<1> DEFINE f == chatCache[j].message
<1>2. TextReached(t, c, f)
  BY <1>1 DEF HistoryRight, StillReached
<1> HIDE DEF f
<1>3. \/ Holds(send'[c], f) \/ Holds(out'[t], f)
      \/ Flying(out'[Broadcaster], pc'[Broadcaster], todo'[Broadcaster], c, f)
  BY <1>2 DEF TextReached, StillReached
<1>4. chatCache'[i].message = f
  BY <1>1 DEF f
<1> QED
  BY <1>3, <1>4 DEF TextReached

\* Appending to a sequence loses nothing.
LEMMA HoldsAppend ==
  ASSUME NEW s \in Seq(Frame), NEW e \in Frame
  PROVE  /\ \A f : Holds(s, f) => Holds(Append(s, e), f)
         /\ Holds(Append(s, e), e)
<1>1. /\ Len(s) \in Nat /\ DOMAIN s = 1 .. Len(s) /\ DOMAIN Append(s, e) = 1 .. Len(s) + 1
      /\ Append(s, e)[Len(s) + 1] = e /\ \A i \in 1 .. Len(s) : Append(s, e)[i] = s[i]
  OBVIOUS
<1>2. Len(s) + 1 \in 1 .. Len(s) + 1 /\ \A i \in 1 .. Len(s) : i \in 1 .. Len(s) + 1
  BY <1>1
<1> DEFINE r == Append(s, e)
<1> HIDE DEF r
<1>3. /\ DOMAIN r = 1 .. Len(s) + 1 /\ r[Len(s) + 1] = e /\ \A i \in 1 .. Len(s) : r[i] = s[i]
  BY <1>1 DEF r
<1>4. \A f : Holds(s, f) => Holds(r, f)
  BY <1>1, <1>2, <1>3 DEF Holds
<1>5. Holds(r, e)
  BY <1>2, <1>3 DEF Holds
<1> QED
  BY <1>4, <1>5 DEF r

\* A frame that was to be sent is the next, or still to be sent after it.
LEMMA HoldsTail ==
  ASSUME NEW s \in Seq(Frame), s # <<>>, NEW f, Holds(s, f)
  PROVE  Holds(Tail(s), f) \/ (Head(s).kind = f.kind /\ Head(s).id = f.id)
<1>1. PICK i \in DOMAIN s : s[i].kind = f.kind /\ s[i].id = f.id
  BY DEF Holds
<1>2. /\ Len(s) \in Nat \ {0} /\ i \in 1 .. Len(s) /\ Head(s) = s[1]
      /\ DOMAIN Tail(s) = 1 .. Len(s) - 1
      /\ \A k \in 1 .. Len(s) - 1 : Tail(s)[k] = s[k + 1]
  OBVIOUS
<1>3. CASE i = 1
  BY <1>1, <1>2, <1>3
<1>4. CASE i # 1
  <2>1. i - 1 \in 1 .. Len(s) - 1 /\ (i - 1) + 1 = i
    BY <1>2, <1>4
  <2>2. i - 1 \in DOMAIN Tail(s) /\ Tail(s)[i - 1] = s[i]
    BY <1>2, <2>1
  <2> QED
    BY <1>1, <2>2 DEF Holds
<1> QED
  BY <1>3, <1>4

\* The first reason to disconnect stays.
LEMMA ReasonStays ==
  ASSUME CounterTypes, NEW c \in Client, NEW r \in Reasons \ {""}
  PROVE  /\ \A d \in Client : WithReason(c, r)[d] = "" => reason[d] = ""
         /\ WithReason(c, r)[c] # ""
BY DEF CounterTypes, WithReason

\* A step that begins no replay of the chat, and touches neither its frames nor
\* those of the broadcast loop; queues may grow.
LEMMA QuietKeepsText ==
  ASSUME TextInv,
         \A t \in Replayers : /\ out'[t] = out[t]
                              /\ pc'[t] \in {"chat", "chatted"} =>
                                   /\ pc[t] \in {"chat", "chatted"}
                                   /\ Owner(t) \in clients' => Owner(t) \in clients,
         \A c \in Client : reason'[c] = "" => reason[c] = "",
         \A c \in Client : \A f : Holds(send[c], f) => Holds(send'[c], f),
         out'[Broadcaster] = out[Broadcaster], todo'[Broadcaster] = todo[Broadcaster],
         \/ pc'[Broadcaster] = pc[Broadcaster]
         \/ pc'[Broadcaster] # "recv" /\ pc[Broadcaster] # "rlock",
         NoNewText
  PROVE  TextInv'
<1>1. ASSUME NEW t \in Replayers PROVE HistoryRight(t)'
  <2>1. Owner(t) \in Client
    BY ReplayerFacts
  <2>2. StillReached(t)
    BY <2>1 DEF StillReached, Flying
  <2> QED
    BY <2>2, StillRight DEF TextInv
<1> QED
  BY <1>1 DEF TextInv

\* One thread moves on, and touches none of this.
LEMMA MoveKeepsText ==
  ASSUME RegistryInv, TextInv, NEW t \in Thread, NEW label, Goto(t, label),
         label \notin {"chat", "chatted"},
         t = Broadcaster => label # "recv" /\ pc[t] # "rlock",
         \A u \in Replayers \cup {Broadcaster} : out'[u] = out[u],
         todo'[Broadcaster] = todo[Broadcaster], clients' \subseteq clients,
         \A c \in Client : reason'[c] = "" => reason[c] = "",
         \A c \in Client : \A f : Holds(send[c], f) => Holds(send'[c], f),
         NoNewText
  PROVE  TextInv'
<1>1. pc'[t] = label /\ \A u \in Thread \ {t} : pc'[u] = pc[u]
  BY DEF Goto, RegistryInv, RegistryTypes
<1>2. \A u \in Replayers : pc'[u] \in {"chat", "chatted"} => pc[u] \in {"chat", "chatted"}
  BY <1>1, ReplayerFacts
<1>3. \/ pc'[Broadcaster] = pc[Broadcaster]
      \/ pc'[Broadcaster] # "recv" /\ pc[Broadcaster] # "rlock"
  BY <1>1, ThreadFacts
<1> QED
  BY <1>2, <1>3, QuietKeepsText

\* The write loop and the environment.
LEMMA OtherKeepsText ==
  ASSUME ReplayIInv, TextInv,
         \/ \E t \in Thread : LockWaits(t)
         \/ \E f \in NodeFrame : SuppressConfigFrame(f)
         \/ \E c \in Client : WriterStops(c) \/ WriteFrame(c) \/ WriteBlocks(c) \/ WriteUnblocks(c)
         \/ LearnNodeNum
         \/ \E cache \in Caches : ReplaceConfigCache(cache)
         \/ Cancel \/ Finished \/ UNCHANGED vars
  PROVE  TextInv'
<1>1. UNCHANGED <<out, send, pc, todo, clients, reason, chatCache>>
  BY
    DEF LockWaits, SuppressConfigFrame, WriterStops, WriteFrame, WriteBlocks,
        WriteUnblocks, LearnNodeNum, ReplaceConfigCache, Cancel, Finished, vars,
        registryVars, threadVars, connVars, queueVars
<1>2. NoNewText
  <2>1. CASE \E f \in NodeFrame : SuppressConfigFrame(f)
    <3>1. PICK f \in NodeFrame : isConfigFrame(f) /\ seen' = seen \cup {f}
      BY <2>1 DEF SuppressConfigFrame
    <3>2. \A i \in DOMAIN chatCache : chatCache[i].message # f
      BY <3>1 DEF ReplayIInv, ChatIsNoConfig
    <3> QED
      BY <1>1, <3>1, <3>2 DEF NoNewText
  <2>2. CASE ~\E f \in NodeFrame : SuppressConfigFrame(f)
    <3>1. UNCHANGED seen
      BY <2>2
        DEF LockWaits, WriterStops, WriteFrame, WriteBlocks, WriteUnblocks, LearnNodeNum,
            ReplaceConfigCache, Cancel, Finished, vars, nodeVars
    <3> QED
      BY <1>1, <3>1 DEF NoNewText
  <2> QED
    BY <2>1, <2>2
<1> QED
  BY <1>1, <1>2, QuietKeepsText

\* The acceptor: nothing is replayed to a client it registers.
LEMMA AcceptorKeepsText ==
  ASSUME RegistryInv, TextInv, AcceptorStep \/ \E c \in Client : AcceptConn(c)
  PROVE  TextInv'
<1>1. UNCHANGED <<out, send, reason, chatCache, seen>>
  BY
    DEF AcceptorStep, AcceptConn, RejectConn, RegisterClient, StartClient, BeginShutdown,
        CloseNext, RunReturns, connVars, queueVars, nodeVars
<1>2. NoNewText
  BY <1>1 DEF NoNewText
<1>3. todo'[Broadcaster] = todo[Broadcaster]
  BY ThreadFacts
    DEF AcceptorStep, AcceptConn, RejectConn, RegisterClient, StartClient, BeginShutdown,
        CloseNext, RunReturns, RegistryInv, RegistryTypes
<1>4. CASE RejectConn \/ BeginShutdown \/ CloseNext \/ RunReturns \/ \E c \in Client : AcceptConn(c)
  <2>1. PICK label \in {"accept", "register", "closeall", "close", "wait", "returned"} : Goto(Acceptor, label)
    BY <1>4 DEF AcceptConn, RejectConn, BeginShutdown, CloseNext, RunReturns
  <2>2. UNCHANGED clients
    BY <1>4 DEF AcceptConn, RejectConn, BeginShutdown, CloseNext, RunReturns, registryVars
  <2> QED
    BY <1>1, <1>2, <1>3, <2>1, <2>2, ThreadFacts, MoveKeepsText
<1>5. CASE StartClient
  <2> DEFINE c == target[Acceptor]
  <2>1. c \in Client
    BY <1>5 DEF RegistryInv, TargetsMakeSense, StartClient
  <2>2. /\ \A u \in Thread \ {Acceptor, Reader(c), Waiter(c)} : pc'[u] = pc[u]
        /\ UNCHANGED clients
    BY <1>5, <2>1, ThreadFacts, WaiterFacts DEF StartClient, RegistryInv, RegistryTypes
  <2>3. \A u \in Replayers \cup {Broadcaster} : pc'[u] = pc[u]
    BY <2>1, <2>2, ThreadFacts, WaiterFacts, ReplayerFacts
  <2> QED
    BY <1>1, <1>2, <1>3, <2>2, <2>3, QuietKeepsText
<1>6. CASE RegisterClient
  <2> DEFINE c == target[Acceptor]
  <2>1. /\ Goto(Acceptor, "start") /\ clients' = clients \cup {c} /\ c \in Client
        /\ NotRegisteredYet(c)
    BY <1>6 DEF RegisterClient, RegistryInv, TargetsMakeSense, NotRegisteredYet
  <2>2. \A u \in Thread \ {Acceptor} : pc'[u] = pc[u]
    BY <2>1, ThreadFacts DEF Goto, RegistryInv, RegistryTypes
  <2>3. \A u \in Replayers : Owner(u) = c => pc[u] = "off"
    BY <2>1, ReplayerFacts DEF RegistryInv, NewIsUnknown, Unknown
  <2>4. \A u \in Replayers \cup {Broadcaster} : pc'[u] = pc[u]
    BY <2>2, ThreadFacts, ReplayerFacts
  <2> QED
    BY <1>1, <1>2, <1>3, <2>1, <2>3, <2>4, QuietKeepsText
<1> QED
  BY <1>4, <1>5, <1>6 DEF AcceptorStep

\* Close, by any thread.
LEMMA CloseKeepsText ==
  ASSUME RegistryInv, TextInv, NEW t \in Thread, CloseBegin(t) \/ Unregister(t) \/ StoreCount(t)
  PROVE  TextInv'
<1>1. UNCHANGED <<out, todo, send, reason, chatCache, seen>>
  BY DEF CloseBegin, Unregister, StoreCount, CloseReturns, connVars, queueVars, nodeVars
<1>2. clients' \subseteq clients
  BY DEF CloseBegin, Unregister, StoreCount, Remaining, registryVars
<1>3. PICK label \in {"unregister", "store", AfterClose(t)} : Goto(t, label)
  BY DEF CloseBegin, Unregister, StoreCount, CloseReturns
<1>4. label \notin {"chat", "chatted", "recv"} /\ pc[t] # "rlock"
  BY <1>3, AfterCloseLabel DEF CloseBegin, Unregister, StoreCount
<1>5. NoNewText
  BY <1>1 DEF NoNewText
<1> QED
  BY <1>1, <1>2, <1>3, <1>4, <1>5, MoveKeepsText

\* The loops of a client.
LEMMA LoopKeepsText ==
  ASSUME RegistryInv, CounterTypes, TextInv, NEW c \in Client,
         \/ ReaderLoop(c) \/ ReadFails(c) \/ ForwardToNode(c) \/ WaiterCloses(c)
         \/ \E m \in ToRadio : ReadDisconnect(c, m) \/ ReadHeartbeat(c, m)
  PROVE  TextInv'
<1>1. PICK t \in {Reader(c), Waiter(c)}, label \in {"done", "read", "top", "close", "forward"} :
        Goto(t, label)
  BY DEF ReaderLoop, ReadFails, ForwardToNode, ReaderExits, WaiterCloses, ReadDisconnect, ReadHeartbeat
<1>2. UNCHANGED <<out, todo, clients, send, chatCache, seen>>
  BY
    DEF ReaderLoop, ReadFails, ForwardToNode, WaiterCloses, ReadDisconnect, ReadHeartbeat,
        registryVars, queueVars, nodeVars
<1>3. \A d \in Client : reason'[d] = "" => reason[d] = ""
  <2>1. \/ reason' = reason
        \/ \E r \in {"read_error", "idle_timeout", "client_disconnect"} : reason' = WithReason(c, r)
    BY
      DEF ReaderLoop, ReadFails, ForwardToNode, WaiterCloses, ReadDisconnect, ReadHeartbeat,
          connVars
  <2> QED
    BY <2>1, ReasonStays DEF Reasons
<1>4. t \in Thread /\ t # Broadcaster
  BY ThreadFacts, WaiterFacts
<1>5. NoNewText
  BY <1>2 DEF NoNewText
<1> QED
  BY <1>1, <1>2, <1>3, <1>4, <1>5, MoveKeepsText

\* What a client sends: a text of its own is none of the mesh.
LEMMA ReadKeepsText ==
  ASSUME RegistryInv, ChatInv, TextInv, NEW c \in Client,
         CacheOutgoing(c) \/ \E m \in ToRadio : ReadPacket(c, m)
  PROVE  TextInv'
<1> DEFINE t == Reader(c)
<1>1. PICK label \in {"forward", "rlock"} : Goto(t, label)
  BY DEF CacheOutgoing, ReadPacket
<1>2. t \in Thread /\ t \notin Replayers /\ t # Broadcaster
  BY ThreadFacts, WaiterFacts, ReplayerFacts
<1>3. UNCHANGED <<todo, clients, send, reason, seen>>
  BY DEF CacheOutgoing, ReadPacket, registryVars, queueVars, nodeVars, connVars
<1>4. \A u \in Replayers \cup {Broadcaster} : out'[u] = out[u]
  <2>1. out = [u \in Thread |-> out[u]]
    BY DEF ChatInv, ChatTypes
  <2>2. \A u \in Replayers \cup {Broadcaster} : u \in Thread /\ u # t
    BY <1>2, ThreadFacts, ReplayerFacts
  <2> QED
    BY <2>1, <2>2 DEF CacheOutgoing, ReadPacket
<1>5. NoNewText
  <2>1. CASE CacheOutgoing(c)
    <3> DEFINE m == Head(input[c])
               f == toRadioToFromRadio(m, myNodeNum)
    <3>1. /\ chatCache \in Seq(ChatEntry) /\ (MaxChatCache = 0 => chatCache = <<>>)
          /\ chatCache' = cacheTextMessage(chatCache, f) /\ seen \subseteq NodeFrame
      BY <2>1 DEF ChatInv, ChatTypes, CacheOutgoing
    <3>2. input[c] # <<>> /\ m.kind = "text"
      BY <2>1 DEF ChatInv, EchoesInput, CacheOutgoing
    <3>3. m \in Forwarded /\ isMeshPacket(m) /\ myNodeNum \in Nat
      BY <3>2, InputFacts DEF ChatInv, ChatTypes, isMeshPacket
    <3>4. f \in Frame /\ f.kind = "text" /\ f.id = m.id
      BY <3>2, <3>3, ImageFacts
    <3> HIDE DEF f, m
    <3>5. f \notin NodeFrame
      BY <3>3, <3>4, PacketIdAssumption
    <3>6. \A i \in DOMAIN chatCache' :
            \/ chatCache'[i].message = f
            \/ \E j \in DOMAIN chatCache : chatCache'[i].message = chatCache[j].message
      BY <3>1, <3>4, CachedEntries
    <3> QED
      BY <1>3, <3>1, <3>5, <3>6 DEF NoNewText
  <2>2. CASE \E m \in ToRadio : ReadPacket(c, m)
    BY <1>3, <2>2 DEF NoNewText, ReadPacket
  <2> QED
    BY <2>1, <2>2
<1> QED
  BY <1>1, <1>2, <1>3, <1>4, <1>5, MoveKeepsText

\* A client asks for its config.
LEMMA WantKeepsText ==
  ASSUME RegistryInv, TextInv, NEW c \in Client, NEW m \in ToRadio, ReadWant(c, m)
  PROVE  TextInv'
<1>1. PICK k \in 1 .. MaxWants :
        pc' = [pc EXCEPT ![Reader(c)] = "top", ![Replayer(c, k)] = "wait"]
  BY DEF ReadWant
<1>2. UNCHANGED <<out, todo, clients, send, reason, chatCache, seen>>
  BY DEF ReadWant, registryVars, queueVars, nodeVars, connVars
<1>3. \A u \in Replayers : pc'[u] \in {"chat", "chatted"} => pc[u] \in {"chat", "chatted"}
  BY <1>1, ThreadFacts, ReplayerFacts DEF RegistryInv, RegistryTypes
<1>4. pc'[Broadcaster] = pc[Broadcaster]
  BY <1>1, ThreadFacts, WaiterFacts, ReplayerFacts DEF RegistryInv, RegistryTypes
<1>5. NoNewText
  BY <1>2 DEF NoNewText
<1> QED
  BY <1>2, <1>3, <1>4, <1>5, QuietKeepsText

\* The range of a reader over the registry: queues grow.
LEMMA EchoKeepsText ==
  ASSUME RegistryInv, ReplayIInv, CounterTypes, TextInv, NEW t \in Thread, t # Broadcaster,
         RLock(t) \/ SendNext(t) \/ RUnlock(t)
  PROVE  TextInv'
<1>1. /\ UNCHANGED <<clients, chatCache, seen>> /\ Carries(t)
      /\ todo'[Broadcaster] = todo[Broadcaster]
  BY ThreadFacts
    DEF RLock, SendNext, RUnlock, Carries, registryVars, nodeVars, RegistryInv, RegistryTypes
<1>2. t \notin Replayers /\ out[t] # <<>>
  BY <1>1 DEF ReplayIInv, OutRight
<1>3. out \in [Thread -> Seq(Frame)] /\ send \in [Client -> Seq(Frame)]
  BY DEF ReplayIInv, QueueTypes
<1>4. \A u \in Replayers \cup {Broadcaster} : out'[u] = out[u]
  <2>1. \A u \in Replayers \cup {Broadcaster} : u \in Thread /\ u # t
    BY <1>2, ThreadFacts, ReplayerFacts
  <2> QED
    BY <1>3, <2>1 DEF RLock, SendNext, RUnlock
<1>5. NoNewText
  BY <1>1 DEF NoNewText
<1>6. CASE RLock(t) \/ RUnlock(t)
  <2>1. UNCHANGED <<reason, send>>
    BY <1>6 DEF RLock, RUnlock, connVars, queueVars
  <2>2. PICK label \in {"iterate", AfterRange(t)} : Goto(t, label)
    BY <1>6 DEF RLock, RUnlock
  <2>3. label \notin {"chat", "chatted"}
    BY <2>2, AfterRangeLabel
  <2> QED
    BY <1>1, <1>4, <1>5, <2>1, <2>2, <2>3, MoveKeepsText
<1>7. CASE SendNext(t)
  <2>1. PICK c \in todo[t] : Queue(t, c, "iterate") \/ Overflow(t, c)
    BY <1>7 DEF SendNext
  <2>2. c \in Client
    BY DEF RegistryInv, RegistryTypes
  <2>3. PICK label \in {"iterate", "close"} : Goto(t, label)
    BY <2>1 DEF Queue, Overflow
  <2>4. \A d \in Client : reason'[d] = "" => reason[d] = ""
    <3>1. reason' = reason \/ reason' = WithReason(c, "slow_consumer")
      BY <2>1 DEF Queue, Overflow
    <3> QED
      BY <2>2, <3>1, ReasonStays DEF Reasons
  <2>5. \A d \in Client : \A f : Holds(send[d], f) => Holds(send'[d], f)
    <3>1. out[t] \in Seq(Frame)
      BY <1>3
    <3>2. Head(out[t]) \in Frame
      BY <1>2, <3>1
    <3>3. UNCHANGED send \/ send' = [send EXCEPT ![c] = Append(@, Head(out[t]))]
      BY <2>1 DEF Queue, Overflow
    <3> DEFINE e == Head(out[t])
    <3> HIDE DEF e
    <3>4. ASSUME NEW d \in Client PROVE send'[d] = send[d] \/ send'[d] = Append(send[d], e)
      BY <1>3, <3>3 DEF e
    <3>5. \A d \in Client : send[d] \in Seq(Frame) /\ e \in Frame
      BY <1>3, <3>2 DEF e
    <3> QED
      BY <3>4, <3>5, HoldsAppend
  <2> QED
    BY <1>1, <1>4, <1>5, <2>3, <2>4, <2>5, MoveKeepsText
<1> QED
  BY <1>6, <1>7

\* The range of the broadcast loop: a client it has visited has the frame, or is
\* disconnected.
LEMMA BroadcastKeepsText ==
  ASSUME RegistryInv, ReplayIInv, CounterTypes, TextInv,
         RLock(Broadcaster) \/ SendNext(Broadcaster) \/ RUnlock(Broadcaster)
  PROVE  TextInv'
<1> DEFINE B == Broadcaster
<1>1. UNCHANGED <<clients, chatCache, seen>> /\ Carries(B) /\ B \in Thread /\ B \notin Replayers
  BY ThreadFacts, ReplayerFacts
    DEF RLock, SendNext, RUnlock, Carries, registryVars, nodeVars, RegistryInv, RegistryTypes
<1>2. /\ out \in [Thread -> Seq(Frame)] /\ send \in [Client -> Seq(Frame)] /\ out[B] # <<>>
      /\ pc \in [Thread -> Labels] /\ todo \in [Thread -> SUBSET Client]
  BY <1>1 DEF ReplayIInv, QueueTypes, OutRight, RegistryInv, RegistryTypes
<1>3. \A u \in Replayers : u \in Thread /\ u # B /\ Owner(u) \in Client
  BY <1>1, ReplayerFacts
<1>4. \A u \in Replayers : pc'[u] = pc[u] /\ out'[u] = out[u]
  BY <1>2, <1>3 DEF RLock, SendNext, RUnlock, Queue, Overflow, Goto
<1>5. NoNewText
  BY <1>1 DEF NoNewText
<1>6. CASE RLock(B)
  <2>1. /\ UNCHANGED <<reason, send, out>> /\ pc'[B] = "iterate"
        /\ todo'[B] = clients \ {Owner(B)}
    BY <1>1, <1>2, <1>6 DEF RLock, Recipients, Goto, connVars, queueVars
  <2>2. \A t \in Replayers : Owner(t) # Owner(B)
    BY <1>3, ThreadFacts
  <2>3. ASSUME NEW t \in Replayers PROVE StillReached(t)
    BY <1>1, <1>4, <2>1, <2>2 DEF StillReached, Flying
  <2> QED
    BY <1>5, <2>1, <2>3, StillRight DEF TextInv
<1>7. CASE RUnlock(B)
  <2>1. /\ UNCHANGED <<reason, send, todo>> /\ out'[B] = <<>>
        /\ pc[B] = "iterate" /\ todo[B] = {}
    BY <1>1, <1>2, <1>7 DEF RUnlock, connVars, queueVars
  <2>2. ASSUME NEW t \in Replayers PROVE StillReached(t)
    BY <1>1, <1>4, <2>1 DEF StillReached, Flying
  <2> QED
    BY <1>5, <2>1, <2>2, StillRight DEF TextInv
<1>8. CASE SendNext(B)
  <2>1. PICK c \in todo[B] : /\ todo' = [todo EXCEPT ![B] = @ \ {c}]
                             /\ Queue(B, c, "iterate") \/ Overflow(B, c)
    BY <1>8 DEF SendNext
  <2>2. /\ c \in Client /\ pc[B] = "iterate" /\ UNCHANGED out /\ todo'[B] = todo[B] \ {c}
        /\ pc'[B] # "recv"
    BY <1>1, <1>2, <1>8, <2>1 DEF SendNext, Queue, Overflow, Goto
  <2> DEFINE e == Head(out[B])
  <2>3. e \in Frame /\ \A f : out[B] = <<f>> => e = f
    <3>1. out[B] \in Seq(Frame)
      BY <1>1, <1>2
    <3> QED
      BY <1>2, <3>1
  <2>4. /\ \A d \in Client : reason'[d] = "" => reason[d] = ""
        /\ \A d \in Client : send'[d] = send[d] \/ send'[d] = Append(send[d], e)
        /\ reason'[c] # "" \/ send'[c] = Append(send[c], e)
    <3>1. CASE Queue(B, c, "iterate")
      BY <1>2, <2>2, <3>1 DEF Queue
    <3>2. CASE Overflow(B, c)
      <4>1. UNCHANGED send /\ reason' = WithReason(c, "slow_consumer")
        BY <3>2 DEF Overflow
      <4> QED
        BY <2>2, <4>1, ReasonStays DEF Reasons
    <3> QED
      BY <2>1, <3>1, <3>2
  <2> HIDE DEF e
  <2>5. \A d \in Client : send[d] \in Seq(Frame)
    BY <1>2
  <2>6. \A d \in Client : \A f : Holds(send[d], f) => Holds(send'[d], f)
    BY <2>3, <2>4, <2>5, HoldsAppend
  <2>7. reason'[c] # "" \/ Holds(send'[c], e)
    BY <2>2, <2>3, <2>4, <2>5, HoldsAppend
  <2>8. ASSUME NEW t \in Replayers PROVE StillReached(t)
    <3>1. ASSUME NEW f, reason'[Owner(t)] = "",
                 Flying(out[B], pc[B], todo[B], Owner(t), f)
          PROVE  Holds(send'[Owner(t)], f) \/ Flying(out'[B], pc'[B], todo'[B], Owner(t), f)
      <4>1. CASE Owner(t) = c
        BY <2>3, <2>7, <3>1, <4>1 DEF Flying
      <4>2. CASE Owner(t) # c
        BY <2>2, <3>1, <4>2 DEF Flying
      <4> QED
        BY <4>1, <4>2
    <3> QED
      BY <1>1, <1>3, <1>4, <2>4, <2>6, <3>1 DEF StillReached
  <2> QED
    BY <1>5, <2>2, <2>8, StillRight DEF TextInv
<1> QED
  BY <1>6, <1>7, <1>8

\* A frame from the mesh: it is cached and in flight in one step.
LEMMA ReceiveKeepsText ==
  ASSUME RegistryInv, ChatInv, ReplayIInv, TextInv,
         StopBroadcast \/ \E f \in NodeFrame : ReceiveFrame(f)
  PROVE  TextInv'
<1>1. CASE StopBroadcast
  <2>1. /\ UNCHANGED <<out, todo, clients, reason, send, chatCache, seen>>
        /\ Goto(Broadcaster, "done") /\ pc[Broadcaster] = "recv"
    BY <1>1 DEF StopBroadcast, registryVars, connVars, queueVars, nodeVars
  <2>2. NoNewText
    BY <2>1 DEF NoNewText
  <2> QED
    BY <2>1, <2>2, ThreadFacts, MoveKeepsText
<1>2. ASSUME NEW f \in NodeFrame, ReceiveFrame(f) PROVE TextInv'
  <2> DEFINE B == Broadcaster
  <2>1. /\ UNCHANGED <<clients, reason, send, todo>> /\ seen' = seen \cup {f}
        /\ pc[B] = "recv" /\ Goto(B, "rlock") /\ out' = [out EXCEPT ![B] = <<f>>]
        /\ chatCache' = CacheIncoming(f)
    BY <1>2 DEF ReceiveFrame, registryVars, connVars, queueVars
  <2>2. B \in Thread /\ \A u \in Replayers : u \in Thread /\ u # B
    BY ThreadFacts, ReplayerFacts
  <2>3. out \in [Thread -> Seq(Frame)]
    BY DEF ReplayIInv, QueueTypes
  <2>4. /\ pc'[B] = "rlock" /\ out'[B] = <<f>> /\ out[B] = <<>>
        /\ \A u \in Replayers : pc'[u] = pc[u] /\ out'[u] = out[u]
    BY <2>1, <2>2, <2>3 DEF Goto, RegistryInv, RegistryTypes, TextInv
  <2>5. \A i \in DOMAIN chatCache' :
          \/ chatCache'[i].message = f
          \/ \E j \in DOMAIN chatCache : chatCache'[i].message = chatCache[j].message
    <3>1. chatCache \in Seq(ChatEntry) /\ (MaxChatCache = 0 => chatCache = <<>>) /\ f \in Frame
      BY FrameAssumption DEF ChatInv, ChatTypes
    <3>2. CASE chatCache' = chatCache
      BY <3>2
    <3>3. CASE chatCache' = cacheTextMessage(chatCache, f) \/ chatCache' = cacheACK(chatCache, f)
      BY <3>1, <3>3, CachedEntries
    <3> QED
      BY <2>1, <3>2, <3>3 DEF CacheIncoming
  <2>6. ASSUME NEW t \in Replayers PROVE HistoryRight(t)'
    <3> SUFFICES ASSUME pc'[t] \in {"chat", "chatted"}, Owner(t) \in clients', reason'[Owner(t)] = "",
                        NEW i \in DOMAIN chatCache', chatCache'[i].message \in seen'
                 PROVE  TextReached(t, Owner(t), chatCache[i].message)'
      BY DEF HistoryRight
    <3> DEFINE g == chatCache'[i].message
    <3>1. CASE g = f
      BY <2>4, <3>1 DEF TextReached, Flying
    <3>2. CASE g # f
      <4>1. PICK j \in DOMAIN chatCache : g = chatCache[j].message
        BY <2>5, <3>2
      <4>2. g \in seen
        BY <2>1, <3>2
      <4>3. TextReached(t, Owner(t), chatCache[j].message)
        BY <2>1, <2>4, <4>1, <4>2 DEF TextInv, HistoryRight
      <4>4. \A x : <<>> # <<x>>
        OBVIOUS
      <4>5. Holds(send[Owner(t)], chatCache[j].message) \/ Holds(out[t], chatCache[j].message)
        BY <2>4, <4>3, <4>4 DEF TextReached, Flying
      <4>6. Holds(send'[Owner(t)], g) \/ Holds(out'[t], g)
        BY <2>1, <2>4, <4>1, <4>5
      <4> QED
        BY <4>6 DEF TextReached
    <3> QED
      BY <3>1, <3>2
  <2> QED
    BY <2>4, <2>6 DEF TextInv
<1> QED
  BY <1>1, <1>2

\* The replay of the history: it begins with all that is cached.
LEMMA ReplayKeepsText ==
  ASSUME RegistryInv, ChatInv, ReplayIInv, CounterTypes, TextInv, NEW t \in Replayers, ReplayStep(t)
  PROVE  TextInv'
<1> DEFINE c == Owner(t)
           B == Broadcaster
<1>1. /\ c \in Client /\ t \in Thread /\ B \in Thread /\ t # B
      /\ \A u \in Replayers : u \in Thread /\ Owner(u) \in Client
  BY ThreadFacts, ReplayerFacts
<1>2. /\ out \in [Thread -> Seq(Frame)] /\ send \in [Client -> Seq(Frame)]
      /\ pc \in [Thread -> Labels]
  BY DEF ReplayIInv, QueueTypes, RegistryInv, RegistryTypes
<1>3. UNCHANGED <<clients, todo, chatCache, seen>>
  BY
    DEF ReplayStep, ReplayBegin, ReplaySend, ReplayChatBegin, ReplayEnds, registryVars, nodeVars
<1>4. \A u \in Thread \ {t} : out'[u] = out[u] /\ pc'[u] = pc[u]
  BY <1>1, <1>2
    DEF ReplayStep, ReplayBegin, ReplaySend, ReplayChatBegin, ReplayEnds, Queue, Overflow, Goto
<1>5. NoNewText
  BY <1>3 DEF NoNewText
<1>6. /\ \A d \in Client : reason'[d] = "" => reason[d] = ""
      /\ \A d \in Client : \A f : Holds(send[d], f) => Holds(send'[d], f)
  <2>1. CASE ReplayBegin(t) \/ ReplayChatBegin(t) \/ ReplayEnds(t)
    BY <2>1 DEF ReplayBegin, ReplayChatBegin, ReplayEnds, connVars, queueVars
  <2>2. CASE ReplaySend(t)
    <3>1. out[t] # <<>> /\ out[t] \in Seq(Frame)
      BY <1>1, <1>2, <2>2 DEF ReplaySend
    <3> DEFINE e == Head(out[t])
    <3>2. e \in Frame
      BY <3>1
    <3>3. CASE Queue(t, c, pc[t])
      <4>1. UNCHANGED reason /\ send' = [send EXCEPT ![c] = Append(@, e)]
        BY <3>3 DEF Queue
      <4> HIDE DEF e
      <4>2. \A d \in Client : /\ send'[d] = send[d] \/ send'[d] = Append(send[d], e)
                              /\ send[d] \in Seq(Frame)
        BY <1>2, <4>1
      <4> QED
        BY <3>2, <4>1, <4>2, HoldsAppend
    <3>4. CASE Overflow(t, c)
      <4>1. UNCHANGED send /\ reason' = WithReason(c, "slow_consumer")
        BY <3>4 DEF Overflow
      <4> QED
        BY <1>1, <4>1, ReasonStays DEF Reasons
    <3> QED
      BY <2>2, <3>3, <3>4 DEF ReplaySend
  <2> QED
    BY <2>1, <2>2 DEF ReplayStep
<1>7. ASSUME NEW u \in Replayers \ {t} PROVE HistoryRight(u)'
  <2>1. StillReached(u)
    BY <1>1, <1>3, <1>4, <1>6 DEF StillReached, Flying
  <2> QED
    BY <1>5, <2>1, StillRight DEF TextInv
<1>8. HistoryRight(t)'
  <2>1. CASE ReplayBegin(t)
    <3>1. pc'[t] \in {"empty", "config"}
      BY <1>1, <1>2, <2>1 DEF ReplayBegin, Goto
    <3> QED
      BY <3>1 DEF HistoryRight
  <2>2. CASE ReplayEnds(t)
    <3>1. pc[t] = "chat" /\ UNCHANGED out
      BY <2>2 DEF ReplayEnds
    <3>2. StillReached(t)
      BY <1>1, <1>3, <1>4, <1>6, <3>1 DEF StillReached, Flying
    <3> QED
      BY <1>5, <3>2, StillRight DEF TextInv
  <2>3. CASE ReplayChatBegin(t)
    <3>1. CASE Goto(t, "done")
      <4>1. pc'[t] = "done"
        BY <1>1, <1>2, <3>1 DEF Goto
      <4> QED
        BY <4>1 DEF HistoryRight
    <3>2. CASE out' = [out EXCEPT ![t] = ChatHistory(chatCache)]
      <4>1. chatCache \in Seq(ChatEntry)
        BY DEF ChatInv, ChatTypes
      <4>2. out'[t] = ChatHistory(chatCache)
        BY <1>1, <1>2, <3>2
      <4>3. \A i \in DOMAIN chatCache : \E k \in DOMAIN out'[t] : out'[t][k] = chatCache[i].message
        BY <4>1, <4>2, HistoryFacts
      <4>4. \A i \in DOMAIN chatCache : Holds(out'[t], chatCache[i].message)
        BY <4>3 DEF Holds
      <4> QED
        BY <1>3, <4>4 DEF HistoryRight, TextReached
    <3> QED
      BY <2>3, <3>1, <3>2 DEF ReplayChatBegin, chatCacheSnapshot
  <2>4. CASE ReplaySend(t)
    <3>1. out[t] # <<>> /\ out[t] \in Seq(Frame) /\ pc[t] \in {"config", "chat"}
      BY <1>1, <1>2, <2>4 DEF ReplaySend
    <3> DEFINE e == Head(out[t])
    <3>2. e \in Frame
      BY <3>1
    <3>3. CASE Queue(t, c, pc[t]) /\ out' = [out EXCEPT ![t] = Tail(@)]
      <4>1. send' = [send EXCEPT ![c] = Append(@, e)] /\ Goto(t, pc[t])
        BY <3>3 DEF Queue
      <4> HIDE DEF e
      <4>2. /\ send'[c] = Append(send[c], e) /\ send[c] \in Seq(Frame)
            /\ out'[t] = Tail(out[t]) /\ pc'[t] = pc[t]
        BY <1>1, <1>2, <3>3, <4>1 DEF Goto
      <4>3. Holds(send'[c], e)
        BY <3>2, <4>2, HoldsAppend
      <4>4. ASSUME NEW f, Holds(out[t], f) PROVE Holds(send'[c], f) \/ Holds(out'[t], f)
        <5>1. Holds(Tail(out[t]), f) \/ (e.kind = f.kind /\ e.id = f.id)
          BY <3>1, <4>4, HoldsTail DEF e
        <5> QED
          BY <4>2, <4>3, <5>1 DEF Holds
      <4>5. StillReached(t)
        BY <1>1, <1>3, <1>4, <1>6, <4>2, <4>4 DEF StillReached, Flying
      <4> QED
        BY <1>5, <4>5, StillRight DEF TextInv
    <3>4. CASE Overflow(t, c)
      <4>1. pc'[t] = "close"
        BY <1>1, <1>2, <3>4 DEF Overflow, Goto
      <4> QED
        BY <4>1 DEF HistoryRight
    <3> QED
      BY <2>4, <3>3, <3>4 DEF ReplaySend
  <2> QED
    BY <2>1, <2>2, <2>3, <2>4 DEF ReplayStep
<1>9. pc'[B] = "recv" => out'[B] = <<>>
  BY <1>1, <1>4 DEF TextInv
<1> QED
  BY <1>7, <1>8, <1>9 DEF TextInv

\* Nothing is in flight at the start, and nothing is replayed.
LEMMA InitText == Init => TextInv
<1> SUFFICES ASSUME Init PROVE TextInv
  OBVIOUS
<1>1. \A t \in Replayers : pc[t] = "off"
  <2>1. \A t \in Replayers : t # Acceptor /\ t # Broadcaster /\ t \in Thread
    BY ReplayerFacts
  <2> QED
    BY <2>1 DEF Init
<1>2. out[Broadcaster] = <<>>
  BY ThreadFacts DEF Init
<1> QED
  BY <1>1, <1>2 DEF TextInv, HistoryRight

\* Every step keeps it so.
LEMMA StepText ==
  RegistryInv /\ ChatInv /\ ReplayIInv /\ CounterTypes /\ TextInv /\ [Next]_vars => TextInv'
<1> SUFFICES ASSUME RegistryInv, ChatInv, ReplayIInv, CounterTypes, TextInv, [Next]_vars
             PROVE  TextInv'
  OBVIOUS
<1>1. ASSUME NEW t \in Thread, ThreadStep(t) PROVE TextInv'
  BY <1>1, CloseKeepsText, OtherKeepsText, EchoKeepsText, BroadcastKeepsText DEF ThreadStep
<1>2. ASSUME NEW c \in Client, NEW m \in ToRadio,
             ReadWant(c, m) \/ ReadDisconnect(c, m) \/ ReadPacket(c, m) \/ ReadHeartbeat(c, m)
      PROVE  TextInv'
  BY <1>2, WantKeepsText, LoopKeepsText, ReadKeepsText
<1>3. ASSUME NEW c \in Client, ReaderStep(c) \/ ReadFails(c) \/ WaiterCloses(c)
      PROVE  TextInv'
  BY <1>3, LoopKeepsText, ReadKeepsText DEF ReaderStep
<1>4. CASE AcceptorStep \/ \E c \in Client : AcceptConn(c)
  BY <1>4, AcceptorKeepsText
<1>5. CASE StopBroadcast \/ \E f \in NodeFrame : ReceiveFrame(f)
  BY <1>5, ReceiveKeepsText
<1>6. CASE \E t \in Replayers : ReplayStep(t)
  BY <1>6, ReplayKeepsText
<1> QED
  BY <1>1, <1>2, <1>3, <1>4, <1>5, <1>6, OtherKeepsText DEF Next

\* No text of the mesh falls between the replay of the history and the broadcast:
\* proxy.go caches it before it broadcasts it, whatever clients come, are slow or
\* leave in between.
THEOREM TextsArrive == Spec => []IncomingTextNotLost
<1>0. <<>> \in Seq(Frame) /\ DOMAIN <<>> = {}
  OBVIOUS
<1>1. RegistryInv /\ ReplayIInv /\ TextInv => IncomingTextNotLost
  <2> SUFFICES ASSUME RegistryInv, ReplayIInv, TextInv,
                      NEW c \in Client, ChatReplayed(c), c \in clients, reason[c] = "",
                      NEW i \in DOMAIN chatCache, chatCache[i].message \in seen
               PROVE  Holds(send[c], chatCache[i].message) \/ InFlight(chatCache[i].message, c)
    BY DEF IncomingTextNotLost
  <2>1. PICK k \in 1 .. MaxWants : pc[Replayer(c, k)] = "chatted"
    BY DEF ChatReplayed
  <2> DEFINE t == Replayer(c, k)
  <2>2. t \in Replayers /\ Owner(t) = c
    BY ReplayerFacts
  <2>3. TextReached(t, c, chatCache[i].message)
    BY <2>1, <2>2 DEF TextInv, HistoryRight
  <2>4. out[t] = <<>>
    BY <2>1, <2>2 DEF ReplayIInv, ReplayerRight
  <2>5. ~Holds(out[t], chatCache[i].message)
    BY <2>4, <1>0 DEF Holds
  <2> QED
    BY <2>3, <2>5 DEF TextReached, Flying, InFlight
<1> QED
  BY <1>1, InitText, StepText, InitCounters, StepCounters, InitReplay, StepReplay, InitChat,
     StepChat, InitShutdown, StepShutdown, RegistryInvariance, PTL
    DEF Spec

=============================================================================

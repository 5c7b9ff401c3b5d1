-------------------------- MODULE PostOfficeProofs --------------------------
(***************************************************************************)
(* Theorems about PostOffice, for any sets of sessions, callsigns and      *)
(* boxes, any queue capacity and any number of packets.                    *)
(***************************************************************************)
EXTENDS PostOffice, TLAPS

-----------------------------------------------------------------------------
(* TypeOK *)

LEMMA TypeInit == Init => TypeOK
BY CapAssumption, BudgetAssumption, BoxAssumption DEF Init, TypeOK, Steps, Outside

LEMMA IterateType ==
  ASSUME TypeOK, NEW c \in Client, NEW S \in SUBSET Client, Iterate(c, S)
  PROVE  /\ at' \in [Client -> Client \cup {nil}]
         /\ todo' \in [Client -> SUBSET Client]
BY DEF TypeOK, Iterate, FirstOf

LEMMA SearchType ==
  ASSUME TypeOK, NEW c \in Client, NEW from \in Steps, NEW to \in Steps,
         NEW A, Search(c, from, to, A)
  PROVE  TypeOK'
<1> DEFINE S == {r \in A \ {c} : \E b \in Box :
                   <<r, b>> \in tree /\ <<pos[c], b>> \in InRange}
<1>1. S \in SUBSET Client
  BY DEF TypeOK
<1>2. Iterate(c, S)
  BY DEF Search
<1>3. /\ at' \in [Client -> Client \cup {nil}]
      /\ todo' \in [Client -> SUBSET Client]
  <2> HIDE DEF S
  <2> QED BY <1>1, <1>2, IterateType
<1> QED
  BY <1>3 DEF Search, TypeOK, Go, RLock, regVars, outVars, netVars, posVars

LEMMA LookupType ==
  ASSUME TypeOK, NEW c \in Client, NEW from \in Steps, NEW found \in Steps,
         Lookup(c, from, found)
  PROVE  TypeOK'
<1>1. PICK k \in Callsign :
         \/ clientMap[k] = nil /\ Go(c, from, "reply") /\ UNCHANGED at
         \/ /\ clientMap[k] # nil
            /\ Go(c, from, found)
            /\ at' = [at EXCEPT ![c] = clientMap[k]]
  BY DEF Lookup
<1>2. at' \in [Client -> Client \cup {nil}]
  BY <1>1 DEF TypeOK
<1>3. pc' \in [Client -> Steps]
  BY <1>1 DEF TypeOK, Go, Steps, Serving
<1> QED
  BY <1>2, <1>3 DEF Lookup, TypeOK, regVars, lockVars, outVars, netVars, posVars

LEMMA TypeStep == TypeOK /\ [Next]_vars => TypeOK'
<1> SUFFICES ASSUME TypeOK, [Next]_vars PROVE TypeOK'
  OBVIOUS
<1> USE CapAssumption, CallsignAssumption
    DEF TypeOK, Go, Lock, Unlock, RLock, RUnlock, Queue, Drop, Iterate,
        FirstOf, Moves, Waits, Writes, Locked, Returns, Steps, Outside,
        Joining, Serving, Leaving, handVars, regVars, lockVars, outVars,
        netVars, posVars, goVars, rest
<1>1. ASSUME NEW c \in Client, JoinStep(c) PROVE TypeOK'
  <2>1. CASE Login(c)
    BY <2>1 DEF Login
  <2>2. CASE LoginFails(c)
    BY <2>2 DEF LoginFails
  <2>3. CASE RegisterLock(c)
    BY <2>3 DEF RegisterLock
  <2>4. CASE Register(c)
    <3>1. pc' \in [Client -> Steps]
      BY <2>4 DEF Register
    <3>2. clientMap' \in [Callsign -> Client \cup {nil}]
      BY <2>4 DEF Register
    <3>3. writer' \in [{"map", "tree"} -> Client \cup {nil}]
      BY <2>4 DEF Register
    <3> QED BY <2>4, <3>1, <3>2, <3>3 DEF Register
  <2>5. CASE IndexLock(c)
    BY <2>5 DEF IndexLock
  <2>6. CASE Index(c)
    BY <2>6 DEF Index
  <2>7. CASE Motd(c)
    BY <2>7 DEF Motd
  <2>8. CASE MotdFails(c)
    BY <2>8 DEF MotdFails
  <2> QED BY <1>1, <2>1, <2>2, <2>3, <2>4, <2>5, <2>6, <2>7, <2>8 DEF JoinStep
<1>2. ASSUME NEW c \in Client, ScanStart(c) PROVE TypeOK'
  <2>1. CASE AnnounceLock(c)
    BY <2>1 DEF AnnounceLock, Scan, Holders
  <2>2. CASE BroadcastLock(c)
    <3>1. PICK A \in Audience : Scan(c, "broadcast", "broadcasting", A)
      BY <2>2 DEF BroadcastLock
    <3> QED BY <3>1 DEF Scan, Holders
  <2>3. CASE DeleteLock(c)
    BY <2>3 DEF DeleteLock, Scan, Holders
  <2>4. CASE DepartLock(c)
    BY <2>4 DEF DepartLock, Scan, Holders
  <2> QED BY <1>2, <2>1, <2>2, <2>3, <2>4 DEF ScanStart
<1>3. ASSUME NEW c \in Client, SearchStart(c) PROVE TypeOK'
  <2>1. CASE RangeLock(c)
    BY <2>1, SearchType DEF RangeLock
  <2>2. CASE ShareLock(c)
    BY <2>2, SearchType DEF ShareLock
  <2> QED BY <1>3, <2>1, <2>2 DEF SearchStart
<1>4. ASSUME NEW c \in Client, Deliver(c) PROVE TypeOK'
  <2>1. CASE Queue(at[c])
    BY <1>4, <2>1 DEF Deliver, Tell
  <2>2. CASE Drop(at[c])
    BY <1>4, <2>2 DEF Deliver
  <2> QED BY <1>4, <2>1, <2>2 DEF Deliver
<1>5. ASSUME NEW c \in Client, ScanEnd(c) PROVE TypeOK'
  <2>1. CASE AnnounceDone(c)
    BY <2>1 DEF AnnounceDone, ScanDone
  <2>2. CASE BroadcastDone(c)
    BY <2>2 DEF BroadcastDone, ScanDone
  <2>3. CASE DeleteDone(c)
    BY <2>3 DEF DeleteDone, ScanDone
  <2>4. CASE DepartDone(c)
    BY <2>4 DEF DepartDone, ScanDone
  <2>5. CASE RangeDone(c)
    BY <2>5 DEF RangeDone, ScanDone
  <2>6. CASE ShareDone(c)
    BY <2>6 DEF ShareDone, ScanDone
  <2> QED BY <1>5, <2>1, <2>2, <2>3, <2>4, <2>5, <2>6 DEF ScanEnd
<1>6. ASSUME NEW c \in Client, ServeStep(c) PROVE TypeOK'
  <2>1. CASE Position(c)
    BY <2>1 DEF Position
  <2>2. CASE ReindexLock(c)
    BY <2>2 DEF ReindexLock
  <2>3. CASE Reindex(c)
    BY <2>3 DEF Reindex
  <2>4. CASE SendLookup(c)
    BY <2>4, LookupType DEF SendLookup
  <2>5. CASE KillLookup(c)
    <3>1. Lookup(c, "kill", "cancel")
      BY <2>5 DEF KillLookup
    <3>2. "kill" \in Steps /\ "cancel" \in Steps
      OBVIOUS
    <3> HIDE DEF TypeOK, Steps
    <3> QED BY <3>1, <3>2, LookupType
  <2>6. CASE Send(c)
    <3>1. backlog' \in [Client -> 0..SendChanCap]
      BY <2>6 DEF Send
    <3>2. pc' \in [Client -> Steps]
      BY <2>6 DEF Send
    <3>3. at' \in [Client -> Client \cup {nil}]
      BY <2>6 DEF Send
    <3> QED BY <2>6, <3>1, <3>2, <3>3 DEF Send
  <2>7. CASE Reply(c)
    BY <2>7 DEF Reply
  <2>8. CASE Revoke(c)
    BY <2>8 DEF Revoke
  <2>9. CASE Cancel(c)
    BY <2>9 DEF Cancel
  <2> QED BY <1>6, <2>1, <2>2, <2>3, <2>4, <2>5, <2>6, <2>7, <2>8, <2>9 DEF ServeStep
<1>7. ASSUME NEW c \in Client, ExitStep(c) PROVE TypeOK'
  <2>1. CASE EventLoopEnds(c)
    BY <2>1 DEF EventLoopEnds
  <2>2. CASE UnindexLock(c)
    BY <2>2 DEF UnindexLock
  <2>3. CASE Unindex(c)
    BY <2>3 DEF Unindex
  <2>4. CASE UnregisterLock(c)
    BY <2>4 DEF UnregisterLock
  <2>5. CASE Unregister(c)
    BY <2>5 DEF Unregister
  <2>6. CASE Close(c)
    BY <2>6 DEF Close
  <2> QED BY <1>7, <2>1, <2>2, <2>3, <2>4, <2>5, <2>6 DEF ExitStep
<1>8. ASSUME NEW c \in Client, SenderWorker(c) PROVE TypeOK'
  <2>1. CASE SenderTake(c)
    BY <2>1 DEF SenderTake
  <2>2. CASE SenderWrite(c)
    BY <2>2 DEF SenderWrite
  <2>3. CASE SenderFails(c)
    BY <2>3 DEF SenderFails, SenderReturns
  <2>4. CASE SenderStops(c)
    BY <2>4 DEF SenderStops, SenderReturns
  <2> QED BY <1>8, <2>1, <2>2, <2>3, <2>4 DEF SenderWorker
<1>9. ASSUME NEW c \in Client, Peer(c) PROVE TypeOK'
  <2>1. CASE Stall(c)
    BY <2>1 DEF Stall, PeerBecomes
  <2>2. CASE Resume(c)
    BY <2>2 DEF Resume, PeerBecomes
  <2>3. CASE Leave(c)
    BY <2>3 DEF Leave, PeerBecomes
  <2> QED BY <1>9, <2>1, <2>2, <2>3 DEF Peer
<1>10. ASSUME NEW c \in Client, Dispatch(c) PROVE TypeOK'
  BY <1>10, KindAssumption DEF Dispatch, HandlerKinds
<1>11. ASSUME NEW c \in Client, LineTooLong(c) PROVE TypeOK'
  BY <1>11 DEF LineTooLong
<1>12. ASSUME NEW c \in Client, KickCancel(c) PROVE TypeOK'
  BY <1>12 DEF KickCancel
<1>13. ASSUME NEW k \in Kickable, KickFind(k) PROVE TypeOK'
  BY <1>13, SetAssumption DEF KickFind
<1>14. CASE UNCHANGED vars
  BY <1>14 DEF vars
<1> QED
  BY <1>1, <1>2, <1>3, <1>4, <1>5, <1>6, <1>7, <1>8, <1>9, <1>10, <1>11, <1>12, <1>13, <1>14 DEF Next, Handler, Quiet

\* Every variable keeps its type.
THEOREM TypeCorrect == Spec => []TypeOK
BY TypeInit, TypeStep, PTL DEF Spec

-----------------------------------------------------------------------------
(* RegistryExact *)

LEMMA RegistryInit == Init => RegistryExact
<1> SUFFICES ASSUME Init, NEW k \in Callsign, NEW c \in Client
             PROVE  ~(clientMap[k] = c) /\ ~Registered(c)
  BY DEF RegistryExact
<1>1. ~(clientMap[k] = c)
  BY NilAssumption DEF Init
<1>2. pc[c] = "login"
  BY DEF Init
<1> QED BY <1>1, <1>2 DEF Registered, Joining, Serving, Leaving

\* No step but Register and Unregister touches clientMap, or takes a session
\* across the border between the registered part of handleConn and the rest.
LEMMA RegistryFrame ==
  ASSUME TypeOK, NEW c \in Client,
         \/ JoinStep(c) \/ ScanStart(c) \/ SearchStart(c) \/ Deliver(c)
         \/ ScanEnd(c) \/ ServeStep(c) \/ ExitStep(c) \/ Dispatch(c)
         \/ LineTooLong(c),
         ~Register(c), ~Unregister(c)
  PROVE  /\ clientMap' = clientMap
         /\ \A d \in Client : Registered(d)' = Registered(d)
<1> USE DEF Go, regVars, Registered, Outside, Joining, Serving, Leaving
<1>0. pc \in [Client -> Steps]
  BY DEF TypeOK
<1>1. CASE JoinStep(c)
  BY <1>0, <1>1 DEF JoinStep, Login, LoginFails, RegisterLock, IndexLock,
     Index, Motd, MotdFails, Moves, Waits, Writes
<1>2. CASE ScanStart(c)
  <2>1. /\ clientMap' = clientMap
        /\ \/ Go(c, "announce", "announcing") \/ Go(c, "delete", "deleting")
           \/ Go(c, "broadcast", "broadcasting")
           \/ Go(c, "depart", "departing")
    BY <1>2 DEF ScanStart, AnnounceLock, BroadcastLock, DeleteLock,
       DepartLock, Scan
  <2> QED BY <1>0, <2>1
<1>3. CASE SearchStart(c)
  <2>1. /\ clientMap' = clientMap
        /\ Go(c, "range", "ranging") \/ Go(c, "share", "sharing")
    BY <1>3 DEF SearchStart, RangeLock, ShareLock, Search
  <2> QED BY <1>0, <2>1
<1>4. CASE Deliver(c)
  BY <1>0, <1>4 DEF Deliver
<1>5. CASE ScanEnd(c)
  BY <1>0, <1>5 DEF ScanEnd, AnnounceDone, BroadcastDone, DeleteDone,
     DepartDone, RangeDone, ShareDone, ScanDone
<1>6. CASE ServeStep(c)
  BY <1>0, <1>6 DEF ServeStep, Position, ReindexLock, Reindex, SendLookup,
     KillLookup, Lookup, Send, Reply, Revoke, Cancel, Waits, Writes
<1>7. CASE ExitStep(c) \/ LineTooLong(c)
  BY <1>0, <1>7 DEF ExitStep, EventLoopEnds, LineTooLong, Returns,
     UnindexLock, Unindex, UnregisterLock, Close, Waits, Writes
<1>8. CASE Dispatch(c)
  BY <1>0, <1>8, KindAssumption DEF Dispatch, HandlerKinds
<1> QED BY <1>1, <1>2, <1>3, <1>4, <1>5, <1>6, <1>7, <1>8

LEMMA RegistryStep == TypeOK /\ RegistryExact /\ [Next]_vars => RegistryExact'
<1> SUFFICES ASSUME TypeOK, RegistryExact, [Next]_vars PROVE RegistryExact'
  OBVIOUS
<1>0. /\ pc \in [Client -> Steps]
      /\ clientMap \in [Callsign -> Client \cup {nil}]
  BY DEF TypeOK
<1>1. ASSUME NEW c \in Client, Register(c) PROVE RegistryExact'
  BY <1>0, <1>1, NilAssumption, CallsignAssumption
  DEF Register, Writes, Go, RegistryExact, Registered, Outside, Joining,
      Serving, Leaving
<1>2. ASSUME NEW c \in Client, Unregister(c) PROVE RegistryExact'
  BY <1>0, <1>2, NilAssumption, CallsignAssumption
  DEF Unregister, Writes, Go, RegistryExact, Registered, Outside, Joining,
      Serving, Leaving
<1>3. ASSUME NEW c \in Client,
             Handler(c) \/ Dispatch(c) \/ LineTooLong(c),
             ~Register(c), ~Unregister(c)
      PROVE  RegistryExact'
  BY <1>3, RegistryFrame DEF Handler, RegistryExact
<1>4. ASSUME UNCHANGED goVars PROVE RegistryExact'
  BY <1>4 DEF goVars, regVars, RegistryExact, Registered
<1>5. ASSUME NEW c \in Client, SenderWorker(c) \/ Peer(c) \/ KickCancel(c)
      PROVE  UNCHANGED goVars
  BY <1>5 DEF SenderWorker, SenderTake, SenderWrite, SenderFails, SenderStops,
     SenderReturns, Peer, Stall, Resume, Leave, PeerBecomes, KickCancel
<1>6. ASSUME NEW k \in Kickable, KickFind(k) PROVE UNCHANGED goVars
  BY <1>6 DEF KickFind
<1> QED
  BY <1>1, <1>2, <1>3, <1>4, <1>5, <1>6 DEF Next, Quiet, vars

\* The map of callsigns holds the registered sessions and nothing else.
THEOREM RegistryCorrect == Spec => []RegistryExact
<1>1. TypeOK /\ RegistryExact /\ [Next]_vars => RegistryExact'
  BY RegistryStep
<1> QED BY RegistryInit, TypeCorrect, <1>1, PTL DEF Spec

-----------------------------------------------------------------------------
(* IndexExact *)

LEMMA IndexInit == Init => IndexExact
<1> SUFFICES ASSUME Init, NEW c \in Client, NEW b \in Box
             PROVE  <<c, b>> \notin tree /\ ~Indexed(c)
  BY DEF IndexExact
<1>1. tree = {} /\ pc[c] = "login"
  BY DEF Init
<1> QED BY <1>1 DEF Indexed, Registered, Joining, Serving, Leaving

\* The four steps that touch the spatial index, or the box it goes by.
IndexStep(c) == Index(c) \/ Position(c) \/ Reindex(c) \/ Unindex(c)

LEMMA IndexFrame ==
  ASSUME TypeOK, NEW c \in Client,
         Handler(c) \/ Dispatch(c) \/ LineTooLong(c), ~IndexStep(c)
  PROVE  /\ tree' = tree /\ pos' = pos /\ old' = old
         /\ \A d \in Client : /\ Indexed(d)' = Indexed(d)
                              /\ (pc[d] \in Moving)' = (pc[d] \in Moving)
<1> USE DEF Go, regVars, posVars, rest, Indexed, Registered, Moving, Outside,
            Joining, Serving, Leaving
<1>0. pc \in [Client -> Steps]
  BY DEF TypeOK
<1>1. CASE JoinStep(c)
  <2>1. /\ tree' = tree /\ pos' = pos /\ old' = old
        /\ \/ Go(c, "login", "register") \/ Go(c, "login", "close")
           \/ Go(c, "register", "registering")
           \/ Go(c, "registering", "close") \/ Go(c, "registering", "index")
           \/ Go(c, "index", "indexing") \/ Go(c, "motd", "announce")
           \/ Go(c, "motd", "unindex")
    BY <1>1 DEF JoinStep, IndexStep, Login, LoginFails, RegisterLock,
       Register, IndexLock, Motd, MotdFails, Moves, Waits, Writes
  <2> QED BY <1>0, <2>1
<1>2. CASE ScanStart(c)
  <2>1. /\ tree' = tree /\ pos' = pos /\ old' = old
        /\ \/ Go(c, "announce", "announcing") \/ Go(c, "delete", "deleting")
           \/ Go(c, "broadcast", "broadcasting")
           \/ Go(c, "depart", "departing")
    BY <1>2 DEF ScanStart, AnnounceLock, BroadcastLock, DeleteLock,
       DepartLock, Scan
  <2> QED BY <1>0, <2>1
<1>3. CASE SearchStart(c)
  <2>1. /\ tree' = tree /\ pos' = pos /\ old' = old
        /\ Go(c, "range", "ranging") \/ Go(c, "share", "sharing")
    BY <1>3 DEF SearchStart, RangeLock, ShareLock, Search
  <2> QED BY <1>0, <2>1
<1>4. CASE Deliver(c)
  BY <1>0, <1>4 DEF Deliver
<1>5. CASE ScanEnd(c)
  <2>1. /\ tree' = tree /\ pos' = pos /\ old' = old
        /\ \/ Go(c, "announcing", "loop") \/ Go(c, "broadcasting", "loop")
           \/ Go(c, "deleting", "cancel") \/ Go(c, "departing", "unindex")
           \/ Go(c, "ranging", "loop") \/ Go(c, "sharing", "loop")
           \/ Go(c, "sharing", "reply")
    BY <1>5 DEF ScanEnd, AnnounceDone, BroadcastDone, DeleteDone,
       DepartDone, RangeDone, ShareDone, ScanDone
  <2> QED BY <1>0, <2>1
<1>6. CASE ServeStep(c)
  BY <1>0, <1>6 DEF ServeStep, IndexStep, ReindexLock, SendLookup,
     KillLookup, Lookup, Send, Reply, Revoke, Cancel, Waits
<1>7. CASE ExitStep(c) \/ LineTooLong(c)
  BY <1>0, <1>7 DEF ExitStep, IndexStep, EventLoopEnds, LineTooLong, Returns,
     UnindexLock, UnregisterLock, Unregister, Close, Waits, Writes
<1>8. CASE Dispatch(c)
  BY <1>0, <1>8, KindAssumption DEF Dispatch, HandlerKinds
<1> QED BY <1>1, <1>2, <1>3, <1>4, <1>5, <1>6, <1>7, <1>8 DEF Handler

LEMMA IndexInductive == TypeOK /\ IndexExact /\ [Next]_vars => IndexExact'
<1> SUFFICES ASSUME TypeOK, IndexExact, [Next]_vars PROVE IndexExact'
  OBVIOUS
<1>0. /\ pc \in [Client -> Steps] /\ pos \in [Client -> Box]
      /\ old \in [Client -> Box] /\ tree \subseteq Client \X Box
  BY DEF TypeOK
<1>1. ASSUME NEW c \in Client, IndexStep(c) PROVE IndexExact'
  <2> USE DEF Go, Writes, rest, posVars, IndexExact, Indexed, Registered,
              Moving, Joining, Serving, Leaving
  <2>1. CASE Index(c)
    BY <1>0, <2>1 DEF Index
  <2>2. CASE Position(c)
    <3>1. PICK b \in Box :
             /\ pos' = [pos EXCEPT ![c] = b]
             /\ pc[c] = "position"
             /\ pc' = [pc EXCEPT ![c] = IF b = pos[c] THEN "share"
                                        ELSE "reindex"]
      BY <2>2 DEF Position
    <3>2. tree' = tree /\ old' = [old EXCEPT ![c] = pos[c]]
      BY <2>2 DEF Position, regVars
    <3> DEFINE box(d) == IF pc[d] \in Moving THEN old[d] ELSE pos[d]
    <3>3. \A d \in Client : Indexed(d)' = Indexed(d)
      BY <1>0, <3>1
    <3>4. \A d \in Client : box(d)' = box(d)
      <4> SUFFICES ASSUME NEW d \in Client PROVE box(d)' = box(d)
        OBVIOUS
      <4>1. CASE d # c
        <5>1. pc'[d] = pc[d] /\ pos'[d] = pos[d] /\ old'[d] = old[d]
          BY <1>0, <3>1, <3>2, <4>1
        <5> QED BY <5>1
      <4>2. CASE d = c
        <5>1. pos'[c] = b /\ old'[c] = pos[c] /\ pc[c] = "position"
          BY <1>0, <3>1, <3>2
        <5>2. pc'[c] = IF b = pos[c] THEN "share" ELSE "reindex"
          BY <1>0, <3>1
        <5> QED BY <4>2, <5>1, <5>2
      <4> QED BY <4>1, <4>2
    <3> QED BY <3>2, <3>3, <3>4 DEF IndexExact
  <2>3. CASE Reindex(c)
    BY <1>0, <2>3 DEF Reindex
  <2>4. CASE Unindex(c)
    BY <1>0, <2>4 DEF Unindex
  <2> QED BY <1>1, <2>1, <2>2, <2>3, <2>4 DEF IndexStep
<1>2. ASSUME NEW c \in Client,
             Handler(c) \/ Dispatch(c) \/ LineTooLong(c), ~IndexStep(c)
      PROVE  IndexExact'
  BY <1>2, IndexFrame DEF IndexExact
<1>3. ASSUME UNCHANGED <<goVars, posVars>> PROVE IndexExact'
  BY <1>3 DEF goVars, regVars, posVars, IndexExact, Indexed, Registered
<1>4. ASSUME NEW c \in Client, SenderWorker(c) \/ Peer(c) \/ KickCancel(c)
      PROVE  UNCHANGED <<goVars, posVars>>
  BY <1>4 DEF SenderWorker, SenderTake, SenderWrite, SenderFails, SenderStops,
     SenderReturns, Peer, Stall, Resume, Leave, PeerBecomes, KickCancel
<1>5. ASSUME NEW k \in Kickable, KickFind(k)
      PROVE  UNCHANGED <<goVars, posVars>>
  BY <1>5 DEF KickFind
<1> QED
  BY <1>1, <1>2, <1>3, <1>4, <1>5 DEF Next, Quiet, vars, rest

\* The spatial index holds every session once, under the box that the next
\* move or the release will delete.
THEOREM IndexCorrect == Spec => []IndexExact
<1>1. TypeOK /\ IndexExact /\ [Next]_vars => IndexExact'
  BY IndexInductive
<1> QED BY IndexInit, TypeCorrect, <1>1, PTL DEF Spec

-----------------------------------------------------------------------------
(* ScanStable.  An iteration holds its read lock from the step that picks   *)
(* the recipients to the step that leaves, so neither Unindex nor           *)
(* Unregister, which wait for the readers, can take a recipient away.       *)

ScanLocked ==
    \A c \in Client : /\ pc[c] \in MapScan => c \in readers["map"]
                      /\ pc[c] \in TreeScan => c \in readers["tree"]

\* A step of c that starts no scan leaves the scans of the others alone, and
\* its own is over, or has one recipient less.
LEMMA ScanFrame ==
  ASSUME TypeOK, NEW c \in Client,
         Handler(c) \/ Dispatch(c) \/ LineTooLong(c),
         ~ScanStart(c), ~SearchStart(c)
  PROVE  /\ \A d \in Client \ {c} :
              /\ pc'[d] = pc[d] /\ at'[d] = at[d] /\ todo'[d] = todo[d]
              /\ \A l \in {"map", "tree"} :
                   d \in readers[l] => d \in readers'[l]
         /\ pc'[c] \in InScan =>
              /\ pc'[c] = pc[c] /\ readers' = readers
              /\ Pending(c)' \subseteq Pending(c)
<1> USE DEF Go, handVars, lockVars, InScan, MapScan, TreeScan
<1>0. /\ pc \in [Client -> Steps] /\ at \in [Client -> Client \cup {nil}]
      /\ todo \in [Client -> SUBSET Client]
      /\ readers \in [{"map", "tree"} -> SUBSET Client]
  BY DEF TypeOK
<1>1. CASE JoinStep(c)
  BY <1>0, <1>1 DEF JoinStep, Login, LoginFails, RegisterLock, Register,
     IndexLock, Index, Motd, MotdFails, Moves, Waits, Writes
<1>2. CASE Deliver(c)
  <2>1. /\ pc' = pc /\ readers' = readers
        /\ Iterate(c, todo[c])
    BY <1>2 DEF Deliver
  <2>2. \A d \in Client \ {c} : at'[d] = at[d] /\ todo'[d] = todo[d]
    BY <1>0, <2>1 DEF Iterate
  <2>3. Pending(c)' \subseteq todo[c]
    BY <1>0, <2>1 DEF Iterate, FirstOf, Pending
  <2> QED BY <2>1, <2>2, <2>3 DEF Pending
<1>3. CASE ScanEnd(c)
  <2>1. /\ todo' = todo
        /\ \E l \in {"map", "tree"} :
             readers' = [readers EXCEPT ![l] = @ \ {c}]
        /\ at' = at \/ at' = [at EXCEPT ![c] = c]
        /\ \E from, to \in Steps :
             Go(c, from, to) /\ to \in {"loop", "cancel", "unindex", "reply"}
    BY <1>3 DEF ScanEnd, AnnounceDone, BroadcastDone, DeleteDone, DepartDone,
       RangeDone, ShareDone, ScanDone, RUnlock, Steps, Serving, Leaving,
       Joining
  <2> QED BY <1>0, <2>1
<1>4. CASE ServeStep(c)
  <2>1. /\ todo' = todo /\ readers' = readers
        /\ at' = at \/ \E v \in Client \cup {nil} : at' = [at EXCEPT ![c] = v]
    <3>1. CASE SendLookup(c) \/ KillLookup(c)
      BY <3>1 DEF SendLookup, KillLookup, Lookup, TypeOK
    <3>2. CASE Cancel(c) \/ Revoke(c) \/ Send(c)
      BY <3>2 DEF Cancel, Revoke, Send
    <3>3. CASE Position(c) \/ ReindexLock(c) \/ Reindex(c) \/ Reply(c)
      BY <3>3 DEF Position, ReindexLock, Reindex, Reply, Waits, Writes
    <3> QED BY <1>4, <3>1, <3>2, <3>3 DEF ServeStep
  <2>2. \A d \in Client \ {c} : pc'[d] = pc[d]
    BY <1>0, <1>4 DEF ServeStep, Position, ReindexLock, Reindex, SendLookup,
       KillLookup, Lookup, Send, Reply, Revoke, Cancel, Waits, Writes
  <2>3. pc'[c] \notin InScan
    BY <1>0, <1>4 DEF ServeStep, Position, ReindexLock, Reindex, SendLookup,
       KillLookup, Lookup, Send, Reply, Revoke, Cancel, Waits, Writes
  <2> QED BY <1>0, <2>1, <2>2, <2>3
<1>5. CASE ExitStep(c) \/ LineTooLong(c)
  BY <1>0, <1>5 DEF ExitStep, EventLoopEnds, LineTooLong, Returns, Unindex,
     UnindexLock, UnregisterLock, Unregister, Close, Waits, Writes
<1>6. CASE Dispatch(c)
  BY <1>0, <1>6, KindAssumption DEF Dispatch, HandlerKinds
<1> QED BY <1>1, <1>2, <1>3, <1>4, <1>5, <1>6 DEF Handler

\* The step that starts a scan takes the read lock, and takes the recipients
\* from the index it is about to walk.
LEMMA ScanEntry ==
  ASSUME TypeOK, RegistryExact, IndexExact, NEW c \in Client,
         ScanStart(c) \/ SearchStart(c)
  PROVE  /\ \A d \in Client \ {c} :
              /\ pc'[d] = pc[d] /\ at'[d] = at[d] /\ todo'[d] = todo[d]
              /\ \A l \in {"map", "tree"} :
                   d \in readers[l] => d \in readers'[l]
         /\ pc'[c] \in MapScan =>
              c \in readers'["map"] /\ \A r \in Pending(c)' : Registered(r)
         /\ pc'[c] \in TreeScan =>
              c \in readers'["tree"] /\ \A r \in Pending(c)' : Indexed(r)
<1> USE DEF Go, RLock
<1>0. /\ pc \in [Client -> Steps] /\ at \in [Client -> Client \cup {nil}]
      /\ todo \in [Client -> SUBSET Client]
      /\ readers \in [{"map", "tree"} -> SUBSET Client]
      /\ clientMap \in [Callsign -> Client \cup {nil}]
      /\ tree \subseteq Client \X Box
  BY DEF TypeOK
<1>1. ASSUME NEW S, Iterate(c, S)
      PROVE  /\ \A d \in Client \ {c} : at'[d] = at[d] /\ todo'[d] = todo[d]
             /\ Pending(c)' \subseteq S
  BY <1>0, <1>1 DEF Iterate, FirstOf, Pending
<1>2. CASE ScanStart(c)
  <2>0. PICK from, to, A : to \in MapScan /\ Scan(c, from, to, A)
    <3>1. CASE AnnounceLock(c)
      BY <3>1 DEF AnnounceLock, MapScan
    <3>2. CASE BroadcastLock(c)
      BY <3>2 DEF BroadcastLock, MapScan
    <3>3. CASE DeleteLock(c)
      BY <3>3 DEF DeleteLock, MapScan
    <3>4. CASE DepartLock(c)
      BY <3>4 DEF DepartLock, MapScan
    <3> QED BY <1>2, <3>1, <3>2, <3>3, <3>4 DEF ScanStart
  <2>1. /\ to \in MapScan
        /\ pc' = [pc EXCEPT ![c] = to]
        /\ readers' = [readers EXCEPT !["map"] = @ \cup {c}]
        /\ Iterate(c, (Holders \cap A) \ {c})
    BY <2>0 DEF Scan
  <2>2. \A r \in Holders : Registered(r)
    BY <1>0 DEF Holders, RegistryExact
  <2>3. pc'[c] \notin TreeScan
    BY <1>0, <2>1 DEF MapScan, TreeScan
  <2> QED BY <1>0, <1>1, <2>1, <2>2, <2>3
<1>3. CASE SearchStart(c)
  <2>0. PICK from, to, A : to \in TreeScan /\ Search(c, from, to, A)
    <3>1. CASE RangeLock(c)
      BY <3>1 DEF RangeLock, TreeScan
    <3>2. CASE ShareLock(c)
      BY <3>2 DEF ShareLock, TreeScan
    <3> QED BY <1>3, <3>1, <3>2 DEF SearchStart
  <2>1. /\ to \in TreeScan
        /\ pc' = [pc EXCEPT ![c] = to]
        /\ readers' = [readers EXCEPT !["tree"] = @ \cup {c}]
        /\ Iterate(c, {r \in A \ {c} : \E b \in Box :
                         <<r, b>> \in tree /\ <<pos[c], b>> \in InRange})
    BY <2>0 DEF Search
  <2> DEFINE S == {r \in A \ {c} : \E b \in Box :
                     <<r, b>> \in tree /\ <<pos[c], b>> \in InRange}
  <2>2. \A r \in Pending(c)' : \E b \in Box : <<r, b>> \in tree
    <3>1. \A r \in S : \E b \in Box : <<r, b>> \in tree
      OBVIOUS
    <3>2. Iterate(c, S)
      BY <2>1
    <3> HIDE DEF S
    <3> QED BY <1>1, <3>1, <3>2
  <2>5. \A d \in Client \ {c} : at'[d] = at[d] /\ todo'[d] = todo[d]
    <3>1. Iterate(c, S)
      BY <2>1
    <3> HIDE DEF S
    <3> QED BY <1>1, <3>1
  <2>3. \A r \in Pending(c)' : Indexed(r)
    BY <1>0, <2>2 DEF IndexExact
  <2>4. pc'[c] \notin MapScan
    BY <1>0, <2>1 DEF MapScan, TreeScan
  <2> QED BY <1>0, <2>1, <2>3, <2>4, <2>5
<1> QED BY <1>2, <1>3

\* While a scan holds the lock, no step takes a session out of the index.
LEMMA IndexHeld ==
  ASSUME TypeOK, NEW c \in Client, NEW r \in Client,
         Handler(c) \/ Dispatch(c) \/ LineTooLong(c)
  PROVE  /\ readers["map"] # {} /\ Registered(r) => Registered(r)'
         /\ readers["tree"] # {} /\ Indexed(r) => Indexed(r)'
<1>0. pc \in [Client -> Steps]
  BY DEF TypeOK
<1>1. readers["map"] # {} /\ Registered(r) => Registered(r)'
  <2>1. CASE Unregister(c)
    BY <2>1 DEF Unregister, Writes, Locked
  <2>2. CASE Register(c)
    BY <1>0, <2>2 DEF Register, Writes, Go, Registered, Joining, Serving,
       Leaving
  <2> QED BY <2>1, <2>2, RegistryFrame DEF Handler
<1>2. readers["tree"] # {} /\ Indexed(r) => Indexed(r)'
  <2> USE DEF Go, Indexed, Registered, Joining, Serving, Leaving
  <2>1. CASE Unindex(c)
    BY <2>1 DEF Unindex, Writes, Locked
  <2>2. CASE Index(c) \/ Reindex(c)
    BY <1>0, <2>2 DEF Index, Reindex, Writes
  <2>3. CASE Position(c)
    BY <1>0, <2>3 DEF Position
  <2> QED BY <2>1, <2>2, <2>3, IndexFrame DEF IndexStep
<1> QED BY <1>1, <1>2

ScanInv == TypeOK /\ RegistryExact /\ IndexExact /\ ScanLocked /\ ScanStable

LEMMA ScanInit == Init => ScanLocked /\ ScanStable
<1> SUFFICES ASSUME Init, NEW c \in Client PROVE pc[c] \notin InScan
  BY DEF ScanLocked, ScanStable, InScan
<1> QED BY DEF Init, InScan, MapScan, TreeScan

LEMMA ScanStep ==
  ASSUME ScanInv, NEW c \in Client,
         Handler(c) \/ Dispatch(c) \/ LineTooLong(c)
  PROVE  ScanLocked' /\ ScanStable'
<1> SUFFICES ASSUME NEW d \in Client
             PROVE  /\ pc'[d] \in MapScan =>
                         /\ d \in readers'["map"]
                         /\ \A r \in Pending(d)' : Registered(r)'
                    /\ pc'[d] \in TreeScan =>
                         /\ d \in readers'["tree"]
                         /\ \A r \in Pending(d)' : Indexed(r)'
  BY DEF ScanLocked, ScanStable
<1>0. Pending(d)' \subseteq Client
  <2>1. [Next]_vars
    BY DEF Next
  <2>2. TypeOK'
    BY <2>1, TypeStep DEF ScanInv
  <2> QED BY <2>2 DEF TypeOK, Pending
<1>1. CASE d # c \/ ~(ScanStart(c) \/ SearchStart(c))
  <2>1. pc'[d] \in InScan =>
          /\ pc'[d] = pc[d] /\ Pending(d)' \subseteq Pending(d)
          /\ \A l \in {"map", "tree"} : d \in readers[l] => d \in readers'[l]
    BY <1>1, ScanFrame, ScanEntry DEF ScanInv, Pending
  <2>2. /\ pc[d] \in MapScan =>
             d \in readers["map"] /\ \A r \in Pending(d) : Registered(r)
        /\ pc[d] \in TreeScan =>
             d \in readers["tree"] /\ \A r \in Pending(d) : Indexed(r)
    BY DEF ScanInv, ScanLocked, ScanStable
  <2> QED BY <1>0, <2>1, <2>2, IndexHeld DEF ScanInv, InScan
<1>2. CASE d = c /\ (ScanStart(c) \/ SearchStart(c))
  <2>1. \A r \in Client : /\ Registered(r) => Registered(r)'
                          /\ Indexed(r) => Indexed(r)'
    <3>0. pc \in [Client -> Steps]
      BY DEF ScanInv, TypeOK
    <3>1. ~Register(c) /\ ~Unregister(c) /\ ~IndexStep(c)
      BY <1>2, <3>0 DEF ScanStart, SearchStart, AnnounceLock, BroadcastLock,
         DeleteLock, DepartLock, RangeLock, ShareLock, Scan, Search, Go,
         IndexStep, Index, Position, Reindex, Unindex, Register, Unregister,
         Writes
    <3> QED BY <1>2, <3>1, RegistryFrame, IndexFrame DEF ScanInv, Handler
  <2> QED BY <1>0, <1>2, <2>1, ScanEntry DEF ScanInv
<1> QED BY <1>1, <1>2

LEMMA ScanInductive == ScanInv /\ [Next]_vars => ScanLocked' /\ ScanStable'
<1> SUFFICES ASSUME ScanInv, [Next]_vars PROVE ScanLocked' /\ ScanStable'
  OBVIOUS
<1>1. ASSUME UNCHANGED goVars PROVE ScanLocked' /\ ScanStable'
  BY <1>1 DEF goVars, handVars, regVars, lockVars, ScanInv, ScanLocked,
     ScanStable, Pending, Registered, Indexed
<1>2. ASSUME NEW c \in Client, SenderWorker(c) \/ Peer(c) \/ KickCancel(c)
      PROVE  UNCHANGED goVars
  BY <1>2 DEF SenderWorker, SenderTake, SenderWrite, SenderFails, SenderStops,
     SenderReturns, Peer, Stall, Resume, Leave, PeerBecomes, KickCancel
<1>3. ASSUME NEW k \in Kickable, KickFind(k) PROVE UNCHANGED goVars
  BY <1>3 DEF KickFind
<1> QED BY <1>1, <1>2, <1>3, ScanStep DEF Next, Quiet, vars

LEMMA ScanInvariant == Spec => []ScanInv
<1>1. ScanInv /\ [Next]_vars => ScanLocked' /\ ScanStable'
  BY ScanInductive
<1>2. ScanInv <=> TypeOK /\ RegistryExact /\ IndexExact /\ ScanLocked /\ ScanStable
  BY DEF ScanInv
<1> QED BY ScanInit, TypeCorrect, RegistryCorrect, IndexCorrect, <1>1, <1>2,
        PTL DEF Spec

\* No iteration ever meets a session that has left the index it walks.
THEOREM ScansAreStable == Spec => []ScanStable
BY ScanInvariant, PTL DEF ScanInv

-----------------------------------------------------------------------------
(* LockDiscipline.  Inductive with the types: every step of a goroutine       *)
(* takes a lock as it enters a section, gives it back as it leaves, or does   *)
(* neither and stays outside.                                                 *)

LEMMA LockInit == Init => LockDiscipline
<1> SUFFICES ASSUME Init, NEW c \in Client
             PROVE  /\ c \notin readers["map"] /\ c \notin readers["tree"]
                    /\ writer["map"] # c /\ writer["tree"] # c
                    /\ pc[c] \notin MapScan \cup TreeScan \cup MapWrite \cup TreeWrite
  BY DEF LockDiscipline
<1>1. pc[c] \notin MapScan \cup TreeScan \cup MapWrite \cup TreeWrite
  BY DEF Init, MapScan, TreeScan, MapWrite, TreeWrite
<1>2. /\ readers["map"] = {} /\ readers["tree"] = {}
      /\ writer["map"] = nil /\ writer["tree"] = nil
  BY DEF Init
<1> QED BY <1>1, <1>2, NilAssumption

\* A goroutine that enters or leaves a section takes or gives back that lock
\* for itself alone; one that does neither leaves the locks as they are.
LEMMA LockStep ==
  ASSUME TypeOK, LockDiscipline, NEW c \in Client,
         Handler(c) \/ Dispatch(c) \/ LineTooLong(c)
  PROVE  LockDiscipline'
<1> USE DEF Go, MapScan, TreeScan, MapWrite, TreeWrite, InScan
<1>0. /\ pc \in [Client -> Steps]
      /\ readers \in [{"map", "tree"} -> SUBSET Client]
      /\ writer \in [{"map", "tree"} -> Client \cup {nil}]
      /\ nil \notin Client
  BY NilAssumption DEF TypeOK
\* It moves outside all sections.
<1>1. ASSUME NEW from, NEW to, Go(c, from, to), UNCHANGED lockVars,
             from \notin MapScan \cup TreeScan \cup MapWrite \cup TreeWrite,
             to \notin MapScan \cup TreeScan \cup MapWrite \cup TreeWrite
      PROVE  LockDiscipline'
  BY <1>0, <1>1 DEF LockDiscipline, lockVars
\* It calls Lock.
<1>2. ASSUME NEW from, NEW to, NEW l \in {"map", "tree"}, Waits(c, from, to, l),
             from \notin MapScan \cup TreeScan \cup MapWrite \cup TreeWrite,
             to \in IF l = "map" THEN MapWrite ELSE TreeWrite
      PROVE  LockDiscipline'
  <2>1. /\ pc[c] = from /\ pc' = [pc EXCEPT ![c] = to] /\ readers' = readers
        /\ writer[l] = nil /\ writer' = [writer EXCEPT ![l] = c]
    BY <1>2 DEF Waits, Lock
  <2> QED BY <1>0, <1>2, <2>1 DEF LockDiscipline
\* It has the lock, and calls Unlock.
<1>3. ASSUME NEW from, NEW to, NEW l \in {"map", "tree"}, Writes(c, from, to, l),
             to \notin MapScan \cup TreeScan \cup MapWrite \cup TreeWrite,
             from \in IF l = "map" THEN MapWrite ELSE TreeWrite
      PROVE  LockDiscipline'
  <2>1. /\ pc[c] = from /\ pc' = [pc EXCEPT ![c] = to] /\ readers' = readers
        /\ writer[l] = c /\ writer' = [writer EXCEPT ![l] = nil]
    BY <1>3 DEF Writes, Locked, Unlock
  <2> QED BY <1>0, <1>3, <2>1 DEF LockDiscipline
\* It calls RLock.
<1>4. ASSUME NEW from, NEW to, NEW l \in {"map", "tree"},
             Go(c, from, to), RLock(c, l), writer' = writer,
             from \notin MapScan \cup TreeScan \cup MapWrite \cup TreeWrite,
             to \in IF l = "map" THEN MapScan ELSE TreeScan
      PROVE  LockDiscipline'
  <2>1. /\ pc[c] = from /\ pc' = [pc EXCEPT ![c] = to]
        /\ readers' = [readers EXCEPT ![l] = @ \cup {c}]
    BY <1>4 DEF RLock
  <2> QED BY <1>0, <1>4, <2>1 DEF LockDiscipline
\* It calls RUnlock.
<1>5. ASSUME NEW from, NEW to, NEW l \in {"map", "tree"}, ScanDone(c, from, to, l),
             to \notin MapScan \cup TreeScan \cup MapWrite \cup TreeWrite,
             from \in IF l = "map" THEN MapScan ELSE TreeScan
      PROVE  LockDiscipline'
  <2>1. /\ pc[c] = from /\ pc' = [pc EXCEPT ![c] = to] /\ writer' = writer
        /\ readers' = [readers EXCEPT ![l] = @ \ {c}]
    BY <1>5 DEF ScanDone, RUnlock
  <2> QED BY <1>0, <1>5, <2>1 DEF LockDiscipline
<1> HIDE DEF Go
<1>6. CASE JoinStep(c)
  <2>1. CASE Login(c) \/ LoginFails(c) \/ Motd(c) \/ MotdFails(c)
    BY <1>1, <2>1 DEF Login, LoginFails, Motd, MotdFails, Moves
  <2>2. CASE RegisterLock(c)
    BY <1>2, <2>2 DEF RegisterLock
  <2>3. CASE IndexLock(c)
    BY <1>2, <2>3 DEF IndexLock
  <2>4. CASE Register(c)
    <3>1. \/ Writes(c, "registering", "close", "map")
          \/ Writes(c, "registering", "index", "map")
      BY <2>4 DEF Register
    <3> QED BY <1>3, <3>1
  <2>5. CASE Index(c)
    BY <1>3, <2>5 DEF Index
  <2> QED BY <1>6, <2>1, <2>2, <2>3, <2>4, <2>5 DEF JoinStep
<1>7. CASE ScanStart(c)
  <2>1. /\ RLock(c, "map") /\ writer' = writer
        /\ \/ Go(c, "announce", "announcing") \/ Go(c, "delete", "deleting")
           \/ Go(c, "broadcast", "broadcasting")
           \/ Go(c, "depart", "departing")
    BY <1>7 DEF ScanStart, AnnounceLock, BroadcastLock, DeleteLock,
       DepartLock, Scan
  <2> QED BY <1>4, <2>1
<1>8. CASE SearchStart(c)
  <2>1. /\ RLock(c, "tree") /\ writer' = writer
        /\ Go(c, "range", "ranging") \/ Go(c, "share", "sharing")
    BY <1>8 DEF SearchStart, RangeLock, ShareLock, Search
  <2> QED BY <1>4, <2>1
<1>9. CASE Deliver(c)
  BY <1>9 DEF Deliver, lockVars, LockDiscipline
<1>10. CASE ScanEnd(c)
  <2>1. CASE AnnounceDone(c) \/ BroadcastDone(c) \/ DeleteDone(c) \/ DepartDone(c)
    BY <1>5, <2>1 DEF AnnounceDone, BroadcastDone, DeleteDone, DepartDone
  <2>2. CASE RangeDone(c) \/ ShareDone(c)
    BY <1>5, <2>2 DEF RangeDone, ShareDone
  <2> QED BY <1>10, <2>1, <2>2 DEF ScanEnd
<1>11. CASE ServeStep(c)
  <2>1. CASE Position(c)
    BY <1>1, <2>1 DEF Position
  <2>2. CASE ReindexLock(c)
    BY <1>2, <2>2 DEF ReindexLock
  <2>3. CASE Reindex(c)
    BY <1>3, <2>3 DEF Reindex
  <2>4. CASE SendLookup(c) \/ KillLookup(c)
    BY <1>1, <2>4 DEF SendLookup, KillLookup, Lookup
  <2>5. CASE Send(c) \/ Reply(c)
    BY <1>1, <2>5 DEF Send, Reply
  <2>6. CASE Revoke(c) \/ Cancel(c)
    BY <1>1, <2>6 DEF Revoke, Cancel
  <2> QED BY <1>11, <2>1, <2>2, <2>3, <2>4, <2>5, <2>6 DEF ServeStep
<1>12. CASE ExitStep(c) \/ LineTooLong(c)
  <2>1. CASE EventLoopEnds(c) \/ LineTooLong(c)
    BY <1>1, <2>1 DEF EventLoopEnds, LineTooLong, Returns
  <2>2. CASE UnindexLock(c)
    BY <1>2, <2>2 DEF UnindexLock
  <2>3. CASE UnregisterLock(c)
    BY <1>2, <2>3 DEF UnregisterLock
  <2>4. CASE Unindex(c)
    BY <1>3, <2>4 DEF Unindex
  <2>5. CASE Unregister(c)
    BY <1>3, <2>5 DEF Unregister
  <2>6. CASE Close(c)
    BY <1>1, <2>6 DEF Close
  <2> QED BY <1>12, <2>1, <2>2, <2>3, <2>4, <2>5, <2>6 DEF ExitStep
<1>13. CASE Dispatch(c)
  <2>1. PICK kind \in Kinds : Go(c, "loop", kind)
    BY <1>13 DEF Dispatch
  <2>2. kind \in HandlerKinds
    BY <2>1, KindAssumption
  <2> QED BY <1>1, <1>13, <2>1, <2>2 DEF Dispatch, HandlerKinds
<1> QED
  BY <1>6, <1>7, <1>8, <1>9, <1>10, <1>11, <1>12, <1>13 DEF Handler

\* A lock is held by those inside its sections and by nobody else: none is ever
\* left locked, and none is waited for with the other in hand.
THEOREM LocksAreDisciplined == Spec => []LockDiscipline
<1>1. TypeOK /\ LockDiscipline /\ [Next]_vars => LockDiscipline'
  <2> SUFFICES ASSUME TypeOK, LockDiscipline, [Next]_vars PROVE LockDiscipline'
    OBVIOUS
  <2>1. ASSUME UNCHANGED goVars PROVE LockDiscipline'
    BY <2>1 DEF goVars, lockVars, LockDiscipline
  <2>2. ASSUME NEW c \in Client, SenderWorker(c) \/ Peer(c) \/ KickCancel(c)
        PROVE  UNCHANGED goVars
    BY <2>2 DEF SenderWorker, SenderTake, SenderWrite, SenderFails,
       SenderStops, SenderReturns, Peer, Stall, Resume, Leave, PeerBecomes,
       KickCancel
  <2>3. ASSUME NEW k \in Kickable, KickFind(k) PROVE UNCHANGED goVars
    BY <2>3 DEF KickFind
  <2> QED BY <2>1, <2>2, <2>3, LockStep DEF Next, Quiet, vars
<1> QED BY LockInit, TypeCorrect, <1>1, PTL DEF Spec

-----------------------------------------------------------------------------
(* QueueHasConsumer, for welcome messages that do not fail.  Whoever waits   *)
(* on a queue found its owner in an index.  The owner's senderWorker is then *)
(* running or about to be started, and it does not end without cancelling    *)
(* the context; a lookup keeps the session after the owner left the index,   *)
(* so Started says what is left of that when it has.                         *)

Started(r) == sender[r] # "off" \/ pc[r] \in Joining

Consumers ==
    /\ \A r \in Client : sender[r] = "done" => ctxDone[r]
    /\ \A r \in Client : Registered(r) => Started(r)
    /\ \A c \in Client : pc[c] = "sending" => at[c] \in Client /\ Started(at[c])

LEMMA ConsumersInit == Init => Consumers
BY DEF Init, Consumers, Registered, Joining, Serving, Leaving

\* What a connection's goroutine does to senders, contexts and places.
LEMMA SenderFrame ==
  ASSUME TypeOK, NEW c \in Client, NEW r \in Client,
         Handler(c) \/ Dispatch(c) \/ LineTooLong(c)
  PROVE  /\ sender'[r] = sender[r] \/ sender'[r] = "idle"
         /\ ctxDone[r] => ctxDone'[r]
         /\ r # c => pc'[r] = pc[r]
         /\ ~MotdMayFail /\ pc[r] \in Joining => Started(r)'
<1> USE DEF Go, outVars, Started, Joining
<1>0. /\ pc \in [Client -> Steps] /\ ctxDone \in [Client -> BOOLEAN]
      /\ sender \in [Client -> {"off", "idle", "write", "done"}]
  BY DEF TypeOK
<1>1. CASE JoinStep(c)
  BY <1>0, <1>1 DEF JoinStep, Login, LoginFails, RegisterLock, Register,
     IndexLock, Index, Motd, MotdFails, Moves, Waits, Writes, rest
<1>2. CASE ScanStart(c)
  <2>1. /\ UNCHANGED <<sender, ctxDone>>
        /\ \/ Go(c, "announce", "announcing") \/ Go(c, "delete", "deleting")
           \/ Go(c, "broadcast", "broadcasting")
           \/ Go(c, "depart", "departing")
    BY <1>2 DEF ScanStart, AnnounceLock, BroadcastLock, DeleteLock,
       DepartLock, Scan
  <2> QED BY <1>0, <2>1
<1>3. CASE SearchStart(c)
  <2>1. /\ UNCHANGED <<sender, ctxDone>>
        /\ Go(c, "range", "ranging") \/ Go(c, "share", "sharing")
    BY <1>3 DEF SearchStart, RangeLock, ShareLock, Search
  <2> QED BY <1>0, <2>1
<1>4. CASE Deliver(c)
  BY <1>0, <1>4 DEF Deliver
<1>5. CASE ScanEnd(c)
  BY <1>0, <1>5 DEF ScanEnd, AnnounceDone, BroadcastDone, DeleteDone,
     DepartDone, RangeDone, ShareDone, ScanDone
<1>6. CASE ServeStep(c)
  BY <1>0, <1>6 DEF ServeStep, Position, ReindexLock, Reindex, SendLookup,
     KillLookup, Lookup, Send, Reply, Revoke, Cancel, Waits, Writes, rest
<1>7. CASE ExitStep(c) \/ LineTooLong(c)
  BY <1>0, <1>7 DEF ExitStep, EventLoopEnds, LineTooLong, Returns,
     UnindexLock, Unindex, UnregisterLock, Unregister, Close, Waits, Writes,
     rest
<1>8. CASE Dispatch(c)
  BY <1>0, <1>8, KindAssumption DEF Dispatch, HandlerKinds
<1> QED BY <1>1, <1>2, <1>3, <1>4, <1>5, <1>6, <1>7, <1>8 DEF Handler

\* A session enters clientMap before its announcement only, and "sending"
\* holds a session that was in clientMap at the lookup.
LEMMA ConsumersEntry ==
  ASSUME TypeOK, RegistryExact, NEW c \in Client,
         Handler(c) \/ Dispatch(c) \/ LineTooLong(c)
  PROVE  /\ Registered(c)' => Registered(c) \/ pc'[c] \in Joining
         /\ pc'[c] = "sending" => at'[c] \in Client /\ Registered(at'[c])
         /\ \A d \in Client \ {c} : pc[d] = "sending" => at'[d] = at[d]
<1>0. /\ pc \in [Client -> Steps] /\ at \in [Client -> Client \cup {nil}]
      /\ clientMap \in [Callsign -> Client \cup {nil}]
  BY DEF TypeOK
<1>1. Registered(c)' => Registered(c) \/ pc'[c] \in Joining
  <2>1. CASE Register(c) \/ Unregister(c)
    BY <1>0, <2>1 DEF Register, Unregister, Writes, Go, Registered, Joining,
       Serving, Leaving
  <2> QED BY <2>1, RegistryFrame DEF Handler
<1>2. CASE SendLookup(c)
  <2>1. PICK k \in Callsign :
           \/ clientMap[k] = nil /\ Go(c, "send", "reply") /\ UNCHANGED at
           \/ /\ clientMap[k] # nil
              /\ Go(c, "send", "sending")
              /\ at' = [at EXCEPT ![c] = clientMap[k]]
    BY <1>2 DEF SendLookup, Lookup
  <2>2. \A d \in Client \ {c} : at'[d] = at[d]
    BY <1>0, <2>1
  <2>3. pc'[c] = "sending" => at'[c] = clientMap[k] /\ clientMap[k] # nil
    BY <1>0, <2>1 DEF Go
  <2>4. clientMap[k] # nil =>
          clientMap[k] \in Client /\ Registered(clientMap[k])
    BY <1>0 DEF RegistryExact
  <2> QED BY <1>1, <2>2, <2>3, <2>4
<1>3. CASE ScanStart(c) \/ SearchStart(c)
  <2>1. pc'[c] # "sending"
    BY <1>0, <1>3 DEF ScanStart, SearchStart, AnnounceLock, BroadcastLock,
       DeleteLock, DepartLock, RangeLock, ShareLock, Scan, Search, Go
  <2>2. \A d \in Client \ {c} : at'[d] = at[d]
    BY <1>0, <1>3 DEF ScanStart, SearchStart, AnnounceLock, BroadcastLock,
       DeleteLock, DepartLock, RangeLock, ShareLock, Scan, Search, Iterate
  <2> QED BY <1>1, <2>1, <2>2
<1>4. CASE ~SendLookup(c) /\ ~ScanStart(c) /\ ~SearchStart(c)
  <2>1. pc'[c] # "sending"
    <3> USE DEF Go
    <3>1. CASE JoinStep(c) \/ Deliver(c) \/ ScanEnd(c)
      BY <1>0, <3>1 DEF JoinStep, Login, LoginFails, RegisterLock, Register,
         IndexLock, Index, Motd, MotdFails, Moves, Waits, Writes, Deliver,
         InScan, MapScan, TreeScan, ScanEnd, AnnounceDone, BroadcastDone,
         DeleteDone, DepartDone, RangeDone, ShareDone, ScanDone
    <3>2. CASE ServeStep(c)
      BY <1>0, <1>4, <3>2 DEF ServeStep, Position, ReindexLock, Reindex,
         KillLookup, Lookup, Send, Reply, Revoke, Cancel, Waits, Writes
    <3>3. CASE ExitStep(c) \/ LineTooLong(c) \/ Dispatch(c)
      BY <1>0, <3>3, KindAssumption DEF ExitStep, EventLoopEnds, LineTooLong,
         Returns, UnindexLock, Unindex, UnregisterLock, Unregister, Close,
         Waits, Writes, Dispatch, HandlerKinds
    <3> QED BY <1>4, <3>1, <3>2, <3>3 DEF Handler
  <2>2. \A d \in Client \ {c} : at'[d] = at[d]
    BY <1>4, ScanFrame
  <2> QED BY <1>1, <2>1, <2>2
<1> QED BY <1>2, <1>3, <1>4

LEMMA ConsumersStep ==
  ASSUME ~MotdMayFail, TypeOK, RegistryExact, Consumers, [Next]_vars
  PROVE  Consumers'
<1>0. /\ pc \in [Client -> Steps] /\ ctxDone \in [Client -> BOOLEAN]
      /\ sender \in [Client -> {"off", "idle", "write", "done"}]
  BY DEF TypeOK
<1>1. ASSUME NEW c \in Client, Handler(c) \/ Dispatch(c) \/ LineTooLong(c)
      PROVE  Consumers'
  <2>1. \A r \in Client : sender'[r] = "done" => ctxDone'[r]
    BY <1>1, SenderFrame DEF Consumers
  <2>2. \A r \in Client : Started(r) => Started(r)'
    BY <1>1, SenderFrame DEF Started
  <2>3. \A r \in Client : Registered(r)' => Started(r)'
    <3>1. \A r \in Client \ {c} : Registered(r)' => Registered(r)
      BY <1>1, SenderFrame DEF Registered
    <3>2. Registered(c)' => Registered(c) \/ Started(c)'
      BY <1>1, ConsumersEntry DEF Started
    <3> QED BY <2>2, <3>1, <3>2 DEF Consumers
  <2>4. \A d \in Client : pc'[d] = "sending" =>
          at'[d] \in Client /\ Started(at'[d])
    <3>1. pc'[c] = "sending" => at'[c] \in Client /\ Started(at'[c])
      BY <1>1, ConsumersEntry DEF Consumers
    <3>2. ASSUME NEW d \in Client \ {c}, pc'[d] = "sending"
          PROVE  at'[d] \in Client /\ Started(at'[d])
      BY <1>1, <3>2, SenderFrame, ConsumersEntry DEF Consumers
    <3> QED BY <3>1, <3>2
  <2> QED BY <2>1, <2>2, <2>3, <2>4 DEF Consumers, Started
<1>2. ASSUME NEW c \in Client, SenderWorker(c) PROVE Consumers'
  <2>1. /\ UNCHANGED <<pc, at>>
        /\ \A r \in Client : /\ sender[r] # "off" => sender'[r] # "off"
                             /\ ctxDone[r] => ctxDone'[r]
                             /\ sender'[r] = "done" =>
                                  sender[r] = "done" \/ ctxDone'[r]
    BY <1>0, <1>2 DEF SenderWorker, SenderTake, SenderWrite, SenderFails,
       SenderStops, SenderReturns, goVars, handVars
  <2> QED BY <2>1 DEF Consumers, Started, Registered
<1>3. ASSUME NEW c \in Client, Peer(c) \/ KickCancel(c) PROVE Consumers'
  <2>1. /\ UNCHANGED <<pc, at, sender>>
        /\ \A r \in Client : ctxDone[r] => ctxDone'[r]
    BY <1>0, <1>3 DEF Peer, Stall, Resume, Leave, PeerBecomes, KickCancel,
       goVars, handVars, outVars
  <2> QED BY <2>1 DEF Consumers, Started, Registered
<1>4. ASSUME UNCHANGED <<pc, at, sender, ctxDone>> PROVE Consumers'
  BY <1>4 DEF Consumers, Started, Registered
<1>5. ASSUME NEW k \in Kickable, KickFind(k)
      PROVE  UNCHANGED <<pc, at, sender, ctxDone>>
  BY <1>5 DEF KickFind, goVars, handVars, outVars
<1>6. UNCHANGED vars => UNCHANGED <<pc, at, sender, ctxDone>>
  BY DEF vars, goVars, handVars, rest, outVars
<1> QED BY <1>1, <1>2, <1>3, <1>4, <1>5, <1>6 DEF Next, Quiet

LEMMA ConsumersSuffice ==
  TypeOK /\ ScanStable /\ Consumers => QueueHasConsumer
<1> SUFFICES ASSUME TypeOK, ScanStable, Consumers,
                    NEW c \in Client, NEW r \in Client, Blocked(c, r)
             PROVE  sender[r] \in {"idle", "write"} \/ pc[r] \in Joining
  BY DEF QueueHasConsumer
<1>1. Started(r)
  <2>1. CASE pc[c] \in InScan /\ at[c] = r
    <3>1. r \in Pending(c)
      BY <2>1, NilAssumption DEF Pending
    <3>2. Registered(r)
      BY <2>1, <3>1 DEF ScanStable, InScan, Indexed
    <3> QED BY <3>2 DEF Consumers
  <2>2. CASE pc[c] = "sending" /\ at[c] = r
    BY <2>2 DEF Consumers
  <2>3. CASE pc[c] \in {"reply", "revoke"} /\ c = r
    BY <2>3 DEF Consumers, Registered, Serving
  <2> QED BY <2>1, <2>2, <2>3 DEF Blocked
<1>2. sender[r] # "done"
  BY DEF Consumers, Blocked
<1>3. sender[r] \in {"off", "idle", "write", "done"}
  BY DEF TypeOK
<1> QED BY <1>1, <1>2, <1>3 DEF Started

\* Where the welcome message does not fail, no goroutine waits for good on the
\* queue of a session that nothing drains and nobody has cancelled.
THEOREM QueuesHaveConsumers ==
  ASSUME ~MotdMayFail
  PROVE  Spec => []QueueHasConsumer
<1>1. TypeOK /\ RegistryExact /\ Consumers /\ [Next]_vars => Consumers'
  BY ConsumersStep
<1>2. TypeOK /\ ScanStable /\ Consumers => QueueHasConsumer
  BY ConsumersSuffice
<1> QED BY ConsumersInit, TypeCorrect, RegistryCorrect, ScansAreStable,
        <1>1, <1>2, PTL DEF Spec

(***************************************************************************)
(* What connected clients know of each other: the announcements, the       *)
(* goodbyes and the map of callsigns, and the proof that PostOffice        *)
(* implements Presence.                                                    *)
(***************************************************************************)

-----------------------------------------------------------------------------
(* How the steps of a connection touch told and the announcing scans. *)

\* An iteration that has nobody in hand has nobody left.
ScansEnd ==
    \A c \in Client :
        pc[c] \in {"announcing", "departing"} /\ at[c] = nil => todo[c] = {}

LEMMA IterateAll ==
  ASSUME TypeOK, NEW c \in Client, NEW S \in SUBSET Client, Iterate(c, S)
  PROVE  /\ Pending(c)' = S
         /\ at'[c] = nil => todo'[c] = {}
         /\ \A d \in Client \ {c} : at'[d] = at[d] /\ todo'[d] = todo[d]
<1>0. /\ at \in [Client -> Client \cup {nil}]
      /\ todo \in [Client -> SUBSET Client]
  BY DEF TypeOK
<1>1. PICK r \in FirstOf(S) : /\ at' = [at EXCEPT ![c] = r]
                              /\ todo' = [todo EXCEPT ![c] = S \ {r}]
  BY DEF Iterate
<1>2. at'[c] = r /\ todo'[c] = S \ {r}
  BY <1>0, <1>1
<1>3. CASE S = {}
  BY <1>1, <1>2, <1>3 DEF FirstOf, Pending
<1>4. CASE S # {}
  BY <1>1, <1>2, <1>4, NilAssumption DEF FirstOf, Pending
<1> QED BY <1>0, <1>1, <1>3, <1>4

\* One recipient: its queue takes the packet, or its context is done.
LEMMA DeliverOne ==
  ASSUME TypeOK, NEW c \in Client, Deliver(c)
  PROVE  /\ UNCHANGED <<pc, ctxDone, clientMap>>
         /\ pc[c] \in InScan /\ at[c] \in Client
         /\ Pending(c)' = todo[c]
         /\ at'[c] = nil => todo'[c] = {}
         /\ \A d \in Client \ {c} : at'[d] = at[d] /\ todo'[d] = todo[d]
         /\ \/ told' = told /\ ctxDone[at[c]]
            \/ /\ pc[c] = "announcing"
               /\ told' = [told EXCEPT ![at[c]] = @ \cup {c}]
            \/ /\ pc[c] \in {"deleting", "departing"}
               /\ told' = [told EXCEPT ![at[c]] = @ \ {c}]
            \/ /\ pc[c] \notin {"announcing", "deleting", "departing"}
               /\ told' = told
<1>1. /\ UNCHANGED <<pc, ctxDone, clientMap>>
      /\ pc[c] \in InScan /\ at[c] \in Client
      /\ Iterate(c, todo[c]) /\ todo[c] \in SUBSET Client
  BY DEF Deliver, TypeOK, regVars
<1>2. \/ told' = told /\ ctxDone[at[c]]
      \/ Tell(c, at[c])
  BY DEF Deliver, Drop
<1> QED BY <1>1, <1>2, IterateAll DEF Tell

\* where a session may be that others have been told of
Known == Serving \cup {"announcing", "depart"}

\* A step that neither starts the announcement or the goodbye nor delivers a
\* packet of one leaves everybody's picture alone; what it may do to c itself.
LEMMA OtherStep ==
  ASSUME TypeOK, NEW c \in Client,
         Handler(c) \/ Dispatch(c) \/ LineTooLong(c),
         ~AnnounceLock(c), ~DepartLock(c), ~Deliver(c)
  PROVE  /\ told' = told
         /\ pc'[c] \notin {"announcing", "departing"}
         /\ pc[c] \in Known => pc'[c] \in Known
         /\ pc[c] \in {"announcing", "departing"} => at[c] = nil
         /\ pc'[c] = "depart" => ctxDone'[c]
         /\ Registered(c)' => Registered(c) \/ pc[c] = "registering"
         /\ pc'[c] \in {"login", "register", "registering"} =>
              pc[c] \in {"login", "register", "registering"}
<1> USE DEF Go, Known, Registered, Joining, Serving, Leaving
<1>0. /\ pc \in [Client -> Steps] /\ ctxDone \in [Client -> BOOLEAN]
  BY DEF TypeOK
<1>1. CASE JoinStep(c)
  BY <1>0, <1>1 DEF JoinStep, Login, LoginFails, RegisterLock, Register,
     IndexLock, Index, Motd, MotdFails, Moves, Waits, Writes, rest
<1>2. CASE ScanStart(c)
  <2>1. /\ UNCHANGED told
        /\ Go(c, "delete", "deleting") \/ Go(c, "broadcast", "broadcasting")
    BY <1>2 DEF ScanStart, BroadcastLock, DeleteLock, Scan
  <2> QED BY <1>0, <2>1
<1>3. CASE SearchStart(c)
  <2>1. /\ UNCHANGED told
        /\ Go(c, "range", "ranging") \/ Go(c, "share", "sharing")
    BY <1>3 DEF SearchStart, RangeLock, ShareLock, Search
  <2> QED BY <1>0, <2>1
<1>4. CASE ScanEnd(c)
  BY <1>0, <1>4 DEF ScanEnd, AnnounceDone, BroadcastDone, DeleteDone,
     DepartDone, RangeDone, ShareDone, ScanDone
<1>5. CASE ServeStep(c)
  BY <1>0, <1>5 DEF ServeStep, Position, ReindexLock, Reindex, SendLookup,
     KillLookup, Lookup, Send, Reply, Revoke, Cancel, Waits, Writes, rest
<1>6. CASE ExitStep(c) \/ LineTooLong(c)
  BY <1>0, <1>6 DEF ExitStep, EventLoopEnds, LineTooLong, Returns,
     UnindexLock, Unindex, UnregisterLock, Unregister, Close, Waits, Writes,
     rest
<1>7. CASE Dispatch(c)
  BY <1>0, <1>7, KindAssumption DEF Dispatch, HandlerKinds
<1> QED BY <1>1, <1>2, <1>3, <1>4, <1>5, <1>6, <1>7 DEF Handler

\* What the announcement and the goodbye start with: everyone in clientMap.
LEMMA TellingStarts ==
  ASSUME TypeOK, RegistryExact, NEW c \in Client,
         AnnounceLock(c) \/ DepartLock(c)
  PROVE  /\ \A r \in Client \ {c} : Registered(r) => r \in Pending(c)'
         /\ UNCHANGED <<told, ctxDone, clientMap>>
         /\ \/ pc[c] = "announce" /\ pc' = [pc EXCEPT ![c] = "announcing"]
            \/ pc[c] = "depart" /\ pc' = [pc EXCEPT ![c] = "departing"]
         /\ at'[c] = nil => todo'[c] = {}
         /\ \A d \in Client \ {c} : at'[d] = at[d] /\ todo'[d] = todo[d]
<1>1. /\ Iterate(c, (Holders \cap Client) \ {c})
      /\ UNCHANGED <<told, ctxDone, clientMap>>
      /\ \/ pc[c] = "announce" /\ pc' = [pc EXCEPT ![c] = "announcing"]
         \/ pc[c] = "depart" /\ pc' = [pc EXCEPT ![c] = "departing"]
  BY DEF AnnounceLock, DepartLock, Scan, Go, regVars
<1>2. \A r \in Client : Registered(r) => r \in Holders
  <2> SUFFICES ASSUME NEW r \in Client, Registered(r) PROVE r \in Holders
    OBVIOUS
  <2>1. callsignOf[r] \in Callsign /\ clientMap[callsignOf[r]] = r
    BY CallsignAssumption DEF RegistryExact
  <2> QED BY <2>1, NilAssumption DEF Holders
<1>3. (Holders \cap Client) \ {c} \in SUBSET Client
  OBVIOUS
<1>4. /\ Pending(c)' = (Holders \cap Client) \ {c}
      /\ at'[c] = nil => todo'[c] = {}
      /\ \A d \in Client \ {c} : at'[d] = at[d] /\ todo'[d] = todo[d]
  BY <1>1, <1>3, IterateAll
<1> QED BY <1>1, <1>2, <1>4

LEMMA ScansEndStep ==
  ASSUME TypeOK, RegistryExact, IndexExact, ScansEnd, NEW c \in Client,
         Handler(c) \/ Dispatch(c) \/ LineTooLong(c)
  PROVE  ScansEnd'
<1>1. \A d \in Client \ {c} :
        pc'[d] = pc[d] /\ at'[d] = at[d] /\ todo'[d] = todo[d]
  BY ScanFrame, ScanEntry
<1>2. pc'[c] \in {"announcing", "departing"} /\ at'[c] = nil => todo'[c] = {}
  BY TellingStarts, DeliverOne, OtherStep
<1> QED BY <1>1, <1>2 DEF ScansEnd

-----------------------------------------------------------------------------
(* PresenceAccurate. *)

Newcomer(r) == pc[r] \in {"login", "register", "registering"}

\* Nothing is told to a session that is not in clientMap yet, and a session
\* that starts its goodbye is cancelled: it takes none itself.
PictureInv ==
    /\ ScansEnd
    /\ \A r \in Client : Newcomer(r) => told[r] = {}
    /\ \A c \in Client : pc[c] = "depart" => ctxDone[c]
    /\ PresenceAccurate

LEMMA PictureInit == Init => PictureInv
BY DEF Init, PictureInv, ScansEnd, Newcomer, PresenceAccurate, Registered,
       Joining, Serving, Leaving

LEMMA PictureStep ==
  ASSUME ScanInv, PictureInv, NEW c \in Client,
         Handler(c) \/ Dispatch(c) \/ LineTooLong(c)
  PROVE  PictureInv'
<1> USE DEF ScanInv
<1>0. /\ pc \in [Client -> Steps] /\ ctxDone \in [Client -> BOOLEAN]
      /\ told \in [Client -> SUBSET Client]
      /\ at \in [Client -> Client \cup {nil}]
  BY DEF TypeOK
<1>1. ScansEnd'
  BY ScansEndStep DEF PictureInv
<1>2. \A d \in Client : /\ d # c => pc'[d] = pc[d] /\ Pending(d)' = Pending(d)
                        /\ ctxDone[d] => ctxDone'[d]
  BY SenderFrame, ScanFrame, ScanEntry DEF Pending
<1>3. CASE Deliver(c)
  <2>1. Registered(at[c])
    BY <1>3, DeliverOne, NilAssumption DEF ScanStable, Pending, InScan, Indexed
  <2>2. \A r \in Client : Newcomer(r)' => told'[r] = {}
    <3>1. \A r \in Client : Newcomer(r) => r # at[c]
      BY <2>1 DEF Newcomer, Registered, Joining, Serving, Leaving
    <3> QED BY <1>0, <1>3, <3>1, DeliverOne DEF PictureInv, Newcomer
  <2>3. \A d \in Client : pc'[d] = "depart" => ctxDone'[d]
    BY <1>3, DeliverOne DEF PictureInv
  <2>4. ASSUME NEW r \in Client, NEW k \in Client,
               Registered(r)', ~ctxDone'[r], k \in told'[r]
        PROVE  \/ pc'[k] \in Known
               \/ pc'[k] = "departing" /\ r \in Pending(k)'
    <3>1. Registered(r) /\ ~ctxDone[r]
      BY <1>3, <2>4, DeliverOne DEF Registered
    <3>2. CASE k \notin told[r]
      <4>1. pc[c] = "announcing" /\ k = c
        BY <1>0, <1>3, <2>4, <3>2, DeliverOne
      <4> QED BY <1>3, <4>1, DeliverOne DEF Known
    <3>3. CASE k \in told[r]
      <4>1. pc[k] \in Known \/ (pc[k] = "departing" /\ r \in Pending(k))
        BY <3>1, <3>3 DEF PictureInv, PresenceAccurate, Known
      <4>2. CASE pc[k] = "departing" /\ r \in Pending(k) /\ k = c
        <5>1. r # at[c]
          BY <1>0, <1>3, <2>4, <3>1, <4>2, DeliverOne
        <5> QED BY <1>3, <4>2, <5>1, DeliverOne DEF Pending
      <4> QED BY <1>2, <1>3, <4>1, <4>2, DeliverOne
    <3> QED BY <3>2, <3>3
  <2> QED BY <1>1, <2>2, <2>3, <2>4 DEF PictureInv, PresenceAccurate, Known
<1>4. CASE AnnounceLock(c) \/ DepartLock(c)
  <2>1. \A r \in Client : /\ Newcomer(r)' => Newcomer(r)
                          /\ Registered(r)' => Registered(r)
    BY <1>0, <1>4, TellingStarts DEF Newcomer, Registered, Joining, Serving,
       Leaving
  <2>2. \A d \in Client : pc'[d] = "depart" => pc[d] = "depart"
    BY <1>0, <1>4, TellingStarts
  <2>3. ASSUME NEW r \in Client, NEW k \in Client,
               Registered(r)', ~ctxDone'[r], k \in told'[r]
        PROVE  \/ pc'[k] \in Known
               \/ pc'[k] = "departing" /\ r \in Pending(k)'
    <3>1. Registered(r) /\ ~ctxDone[r] /\ k \in told[r]
      BY <1>4, <2>1, <2>3, TellingStarts
    <3>2. pc[k] \in Known \/ (pc[k] = "departing" /\ r \in Pending(k))
      BY <3>1 DEF PictureInv, PresenceAccurate, Known
    <3>3. CASE k = c
      <4>1. CASE pc'[c] = "announcing"
        BY <3>3, <4>1 DEF Known
      <4>2. CASE pc[c] = "depart" /\ pc' = [pc EXCEPT ![c] = "departing"]
        <5>1. r # c
          BY <3>1, <4>2 DEF PictureInv
        <5> QED BY <1>0, <1>4, <3>1, <3>3, <4>2, <5>1, TellingStarts
      <4> QED BY <1>0, <1>4, <4>1, <4>2, TellingStarts
    <3> QED BY <1>2, <3>2, <3>3
  <2> QED
    BY <1>1, <1>4, <2>1, <2>2, <2>3, TellingStarts
    DEF PictureInv, PresenceAccurate, Known
<1>5. CASE ~AnnounceLock(c) /\ ~DepartLock(c) /\ ~Deliver(c)
  <2>1. \A r \in Client : Newcomer(r)' => Newcomer(r)
    BY <1>2, <1>5, OtherStep DEF Newcomer
  <2>2. \A d \in Client : pc'[d] = "depart" => ctxDone'[d]
    BY <1>2, <1>5, OtherStep DEF PictureInv
  <2>3. ASSUME NEW r \in Client, NEW k \in Client,
               Registered(r)', ~ctxDone'[r], k \in told'[r]
        PROVE  \/ pc'[k] \in Known
               \/ pc'[k] = "departing" /\ r \in Pending(k)'
    <3>1. ~ctxDone[r] /\ k \in told[r]
      BY <1>0, <1>2, <1>5, <2>3, OtherStep
    <3>2. Registered(r)
      <4>1. Registered(r) \/ Newcomer(r)
        BY <1>2, <1>5, <2>3, OtherStep DEF Newcomer, Registered
      <4> QED BY <3>1, <4>1 DEF PictureInv
    <3>3. pc[k] \in Known \/ (pc[k] = "departing" /\ r \in Pending(k))
      BY <3>1, <3>2 DEF PictureInv, PresenceAccurate, Known
    <3>4. k = c => ~(pc[k] = "departing" /\ r \in Pending(k))
      BY <1>5, OtherStep DEF PictureInv, ScansEnd, Pending
    <3> QED BY <1>2, <1>5, <3>3, <3>4, OtherStep
  <2> QED
    BY <1>1, <1>5, <2>1, <2>2, <2>3, OtherStep
    DEF PictureInv, PresenceAccurate, Known
<1> QED BY <1>3, <1>4, <1>5

\* The steps of the other goroutines and of the peers only cancel contexts.
LEMMA OutsideStep ==
  ASSUME TypeOK,
         \/ \E c \in Client : SenderWorker(c) \/ Peer(c) \/ KickCancel(c)
         \/ \E k \in Kickable : KickFind(k)
         \/ UNCHANGED vars
  PROVE  /\ UNCHANGED <<pc, at, todo, clientMap, told>>
         /\ \A r \in Client : ctxDone[r] => ctxDone'[r]
BY DEF TypeOK, SenderWorker, SenderTake, SenderWrite, SenderFails,
       SenderStops, SenderReturns, Peer, Stall, Resume, Leave, PeerBecomes,
       KickCancel, KickFind, vars, goVars, handVars, regVars, rest

LEMMA PictureInductive == ScanInv /\ PictureInv /\ [Next]_vars => PictureInv'
<1> SUFFICES ASSUME ScanInv, PictureInv, [Next]_vars PROVE PictureInv'
  OBVIOUS
<1>1. ASSUME UNCHANGED <<pc, at, todo, clientMap, told>>,
             \A r \in Client : ctxDone[r] => ctxDone'[r]
      PROVE  PictureInv'
  BY <1>1 DEF PictureInv, ScansEnd, Newcomer, PresenceAccurate, Registered,
     Pending
<1> QED BY <1>1, PictureStep, OutsideStep DEF Next, Quiet, ScanInv

\* No ghosts: a callsign is free only when every session that was told of its
\* holder, and can still be reached, has the goodbye in its queue.
THEOREM PresenceIsAccurate == Spec => []PresenceAccurate
<1>1. ScanInv /\ PictureInv /\ [Next]_vars => PictureInv'
  BY PictureInductive
<1>2. PictureInv => PresenceAccurate
  BY DEF PictureInv
<1> QED BY PictureInit, ScanInvariant, <1>1, <1>2, PTL DEF Spec

-----------------------------------------------------------------------------
(* MutualAwareness.  Of two sessions that have both got past the other in    *)
(* their announcements, the one that took its recipients later had the other *)
(* among them.                                                               *)

\* Online, or still announcing itself
Live(c) == /\ pc[c] \in (Serving \ {"deleting"}) \cup {"announcing"}
           /\ ~ctxDone[c] /\ ~(pc[c] = "cancel" /\ at[c] = c)
Passed(c, r) == pc[c] = "announcing" => r \notin Pending(c)

AwareInv ==
    /\ ScansEnd
    /\ \A c, r \in Client :
         c # r /\ Live(c) /\ Live(r) /\ Passed(c, r) /\ Passed(r, c) =>
             c \in told[r] \/ r \in told[c]

LEMMA AwareInit == Init => AwareInv
BY DEF Init, AwareInv, ScansEnd, Live, Serving

\* No step but that of AnnounceLock brings a session to life.
LEMMA LiveStays ==
  ASSUME TypeOK, NEW c \in Client,
         Handler(c) \/ Dispatch(c) \/ LineTooLong(c),
         ~AnnounceLock(c), ~DepartLock(c), ~Deliver(c)
  PROVE  Live(c)' => Live(c)
<1> USE DEF Go, Live, Serving
<1>0. /\ pc \in [Client -> Steps] /\ ctxDone \in [Client -> BOOLEAN]
      /\ at \in [Client -> Client \cup {nil}]
  BY DEF TypeOK
<1>1. CASE JoinStep(c)
  BY <1>0, <1>1 DEF JoinStep, Login, LoginFails, RegisterLock, Register,
     IndexLock, Index, Motd, MotdFails, Moves, Waits, Writes, rest
<1>2. CASE ScanStart(c)
  <2>1. /\ UNCHANGED ctxDone
        /\ Go(c, "delete", "deleting") \/ Go(c, "broadcast", "broadcasting")
    BY <1>2 DEF ScanStart, BroadcastLock, DeleteLock, Scan
  <2> QED BY <1>0, <2>1
<1>3. CASE SearchStart(c)
  <2>1. /\ UNCHANGED ctxDone
        /\ Go(c, "range", "ranging") \/ Go(c, "share", "sharing")
    BY <1>3 DEF SearchStart, RangeLock, ShareLock, Search
  <2> QED BY <1>0, <2>1
<1>4. CASE ScanEnd(c)
  BY <1>0, <1>4 DEF ScanEnd, AnnounceDone, BroadcastDone, DeleteDone,
     DepartDone, RangeDone, ShareDone, ScanDone
<1>5. CASE ServeStep(c)
  BY <1>0, <1>5 DEF ServeStep, Position, ReindexLock, Reindex, SendLookup,
     KillLookup, Lookup, Send, Reply, Revoke, Cancel, Waits, Writes, rest
<1>6. CASE ExitStep(c) \/ LineTooLong(c)
  BY <1>0, <1>6 DEF ExitStep, EventLoopEnds, LineTooLong, Returns,
     UnindexLock, Unindex, UnregisterLock, Unregister, Close, Waits, Writes,
     rest
<1>7. CASE Dispatch(c)
  BY <1>0, <1>7, KindAssumption DEF Dispatch, HandlerKinds, handVars
<1> QED BY <1>1, <1>2, <1>3, <1>4, <1>5, <1>6, <1>7 DEF Handler

LEMMA AwareStep ==
  ASSUME ScanInv, AwareInv, NEW c \in Client,
         Handler(c) \/ Dispatch(c) \/ LineTooLong(c)
  PROVE  AwareInv'
<1> USE DEF ScanInv
<1>0. /\ pc \in [Client -> Steps] /\ ctxDone \in [Client -> BOOLEAN]
      /\ told \in [Client -> SUBSET Client]
  BY DEF TypeOK
<1>1. ScansEnd'
  BY ScansEndStep DEF AwareInv
<1>2. \A d \in Client \ {c} : /\ Live(d)' => Live(d)
                              /\ \A r \in Client : Passed(d, r)' = Passed(d, r)
  BY SenderFrame, ScanFrame, ScanEntry DEF Live, Passed, Pending
<1> SUFFICES ASSUME NEW d \in Client, NEW r \in Client, d # r,
                    Live(d)', Live(r)', Passed(d, r)', Passed(r, d)'
             PROVE  d \in told'[r] \/ r \in told'[d]
  BY <1>1 DEF AwareInv
<1>3. CASE Deliver(c)
  <2>1. Live(d) /\ Live(r)
    BY <1>2, <1>3, DeliverOne DEF Live, InScan, MapScan, TreeScan
  <2>2. ASSUME NEW x \in Client, NEW y \in Client, y \in told[x], Live(y)
        PROVE  y \in told'[x]
    BY <1>0, <1>3, <2>2, DeliverOne DEF Live, Serving
  <2>3. CASE Passed(d, r) /\ Passed(r, d)
    BY <2>1, <2>2, <2>3 DEF AwareInv
  <2>4. ASSUME NEW x \in Client, Passed(c, x)', ~Passed(c, x), Live(x)
        PROVE  c \in told'[x]
    <3>1. pc[c] = "announcing" /\ x = at[c]
      BY <1>3, <2>4, DeliverOne DEF Passed, Pending
    <3> QED BY <1>0, <1>3, <2>4, <3>1, DeliverOne DEF Live
  <2> QED BY <1>2, <2>1, <2>3, <2>4
<1>4. CASE AnnounceLock(c) \/ DepartLock(c)
  <2>1. \A x \in Client \ {c} : Live(x)' => x \in Pending(c)'
    BY <1>2, <1>4, TellingStarts DEF Live, Registered, Joining
  <2>2. Live(c)' => pc'[c] = "announcing"
    BY <1>0, <1>4, TellingStarts DEF Live, Serving
  <2>3. \A x \in Client \ {c} : ~(Live(c)' /\ Live(x)' /\ Passed(c, x)')
    BY <2>1, <2>2 DEF Passed
  <2>4. d # c /\ r # c
    BY <2>3
  <2> QED BY <1>2, <1>4, <2>4, TellingStarts DEF AwareInv
<1>5. CASE ~AnnounceLock(c) /\ ~DepartLock(c) /\ ~Deliver(c)
  <2>1. \A x \in Client : Live(x)' => Live(x)
    BY <1>2, <1>5, LiveStays
  <2>2. \A x \in Client : Passed(c, x)
    BY <1>5, OtherStep DEF AwareInv, ScansEnd, Passed, Pending
  <2> QED BY <1>2, <1>5, <2>1, <2>2, OtherStep DEF AwareInv
<1> QED BY <1>3, <1>4, <1>5

LEMMA AwareInductive == ScanInv /\ AwareInv /\ [Next]_vars => AwareInv'
<1> SUFFICES ASSUME ScanInv, AwareInv, [Next]_vars PROVE AwareInv'
  OBVIOUS
<1>1. ASSUME UNCHANGED <<pc, at, todo, clientMap, told>>,
             \A r \in Client : ctxDone[r] => ctxDone'[r]
      PROVE  AwareInv'
  BY <1>1 DEF AwareInv, ScansEnd, Live, Passed, Pending
<1> QED BY <1>1, AwareStep, OutsideStep DEF Next, Quiet, ScanInv

\* However two logins interleave, one client was announced to the other.
THEOREM AwarenessIsMutual == Spec => []MutualAwareness
<1>1. ScanInv /\ AwareInv /\ [Next]_vars => AwareInv'
  BY AwareInductive
<1>2. AwareInv => MutualAwareness
  BY DEF AwareInv, MutualAwareness, Online, Live, Passed, Serving
<1> QED BY AwareInit, ScanInvariant, <1>1, <1>2, PTL DEF Spec

-----------------------------------------------------------------------------
(* PostOffice implements Presence.  A step of the server is one step of the  *)
(* abstract specification, or none: PresenceAccurate is the guard of Leave,  *)
(* ScanStable that of Announce and Retract, and GiveUp needs that nobody has *)
(* a session in hand, to cancel it, that is not in clientMap yet.            *)

StageInv ==
    \A c \in Client :
        /\ sender[c] # "off" \/ c \in kicks => ~Newcomer(c)
        /\ pc[c] = "cancel" => at[c] \in Client /\ ~Newcomer(at[c])

LEMMA StageInit == Init => StageInv
BY DEF Init, StageInv

\* All steps of a connection but the ones that change a stage or a picture.
LEMMA PresenceFrame ==
  ASSUME TypeOK, NEW c \in Client,
         Handler(c) \/ Dispatch(c) \/ LineTooLong(c),
         ~Register(c), ~Unregister(c), ~LoginFails(c), ~Deliver(c)
  PROVE  /\ clientMap' = clientMap /\ told' = told
         /\ \A d \in Client : Newcomer(d)' = Newcomer(d)
         /\ \/ ctxDone' = ctxDone
            \/ /\ pc[c] = "cancel"
               /\ ctxDone' = [ctxDone EXCEPT ![at[c]] = TRUE]
            \/ /\ pc[c] = "loop"
               /\ ctxDone' = [ctxDone EXCEPT ![c] = TRUE]
<1> USE DEF Go, Newcomer
<1>0. pc \in [Client -> Steps]
  BY DEF TypeOK
<1>1. CASE JoinStep(c)
  BY <1>0, <1>1 DEF JoinStep, Login, RegisterLock, IndexLock, Index, Motd,
     MotdFails, Moves, Waits, Writes, rest, regVars
<1>2. CASE ScanStart(c)
  <2>1. /\ UNCHANGED <<clientMap, told, ctxDone>>
        /\ \/ Go(c, "announce", "announcing") \/ Go(c, "delete", "deleting")
           \/ Go(c, "broadcast", "broadcasting")
           \/ Go(c, "depart", "departing")
    BY <1>2 DEF ScanStart, AnnounceLock, BroadcastLock, DeleteLock,
       DepartLock, Scan, regVars
  <2> QED BY <1>0, <2>1
<1>3. CASE SearchStart(c)
  <2>1. /\ UNCHANGED <<clientMap, told, ctxDone>>
        /\ Go(c, "range", "ranging") \/ Go(c, "share", "sharing")
    BY <1>3 DEF SearchStart, RangeLock, ShareLock, Search, regVars
  <2> QED BY <1>0, <2>1
<1>4. CASE ScanEnd(c)
  BY <1>0, <1>4 DEF ScanEnd, AnnounceDone, BroadcastDone, DeleteDone,
     DepartDone, RangeDone, ShareDone, ScanDone, regVars
<1>5. CASE ServeStep(c)
  BY <1>0, <1>5 DEF ServeStep, Position, ReindexLock, Reindex, SendLookup,
     KillLookup, Lookup, Send, Reply, Revoke, Cancel, Waits, Writes, rest,
     regVars
<1>6. CASE ExitStep(c) \/ LineTooLong(c)
  BY <1>0, <1>6 DEF ExitStep, EventLoopEnds, LineTooLong, Returns,
     UnindexLock, Unindex, UnregisterLock, Close, Waits, Writes, rest, regVars
<1>7. CASE Dispatch(c)
  BY <1>0, <1>7, KindAssumption DEF Dispatch, HandlerKinds, regVars
<1> QED BY <1>1, <1>2, <1>3, <1>4, <1>5, <1>6, <1>7 DEF Handler

\* The steps that may take a session from new to online or gone.
LEMMA StageMoves ==
  ASSUME TypeOK, NEW c \in Client,
         Register(c) \/ Unregister(c) \/ LoginFails(c)
  PROVE  /\ UNCHANGED <<ctxDone, told, sender, kicks, at>>
         /\ \A d \in Client \ {c} : pc'[d] = pc[d]
         /\ pc[c] \in {"login", "registering", "unregistering"}
         /\ pc'[c] \in {"index", "close"}
BY DEF TypeOK, Register, Unregister, LoginFails, Moves, Writes, Go, rest,
       outVars, handVars

\* Whom a connection cancels, and when its senderWorker starts.
LEMMA HandFrame ==
  ASSUME TypeOK, RegistryExact, NEW c \in Client,
         Handler(c) \/ Dispatch(c) \/ LineTooLong(c)
  PROVE  /\ kicks' = kicks
         /\ \A r \in Client : sender'[r] # "off" =>
              sender[r] # "off" \/ (r = c /\ pc[c] = "announcing")
         /\ pc'[c] = "cancel" => at'[c] \in Client /\ ~Newcomer(at[c])'
<1> USE DEF Go
<1>0. /\ pc \in [Client -> Steps] /\ at \in [Client -> Client \cup {nil}]
      /\ sender \in [Client -> {"off", "idle", "write", "done"}]
      /\ clientMap \in [Callsign -> Client \cup {nil}]
  BY DEF TypeOK
<1>1. CASE JoinStep(c)
  BY <1>0, <1>1 DEF JoinStep, Login, LoginFails, RegisterLock, Register,
     IndexLock, Index, Motd, MotdFails, Moves, Waits, Writes, rest, outVars
<1>2. CASE ScanStart(c)
  <2>1. /\ UNCHANGED <<kicks, sender>>
        /\ \/ Go(c, "announce", "announcing") \/ Go(c, "delete", "deleting")
           \/ Go(c, "broadcast", "broadcasting")
           \/ Go(c, "depart", "departing")
    BY <1>2 DEF ScanStart, AnnounceLock, BroadcastLock, DeleteLock,
       DepartLock, Scan, outVars
  <2> QED BY <1>0, <2>1
<1>3. CASE SearchStart(c)
  <2>1. /\ UNCHANGED <<kicks, sender>>
        /\ Go(c, "range", "ranging") \/ Go(c, "share", "sharing")
    BY <1>3 DEF SearchStart, RangeLock, ShareLock, Search, outVars
  <2> QED BY <1>0, <2>1
<1>4. CASE Deliver(c)
  BY <1>0, <1>4 DEF Deliver, InScan, MapScan, TreeScan
<1>5. CASE ScanEnd(c)
  BY <1>0, <1>5 DEF ScanEnd, AnnounceDone, BroadcastDone, DeleteDone,
     DepartDone, RangeDone, ShareDone, ScanDone, outVars, Newcomer
<1>6. CASE KillLookup(c)
  <2>1. PICK k \in Callsign :
           \/ clientMap[k] = nil /\ Go(c, "kill", "reply") /\ UNCHANGED at
           \/ /\ clientMap[k] # nil
              /\ Go(c, "kill", "cancel")
              /\ at' = [at EXCEPT ![c] = clientMap[k]]
    BY <1>6 DEF KillLookup, Lookup
  <2>2. clientMap[k] # nil =>
          clientMap[k] \in Client /\ Registered(clientMap[k])
    BY <1>0 DEF RegistryExact
  <2>3. \A r \in Client : Registered(r) => ~Newcomer(r)
    BY DEF Registered, Newcomer, Joining, Serving, Leaving
  <2>4. ~Newcomer(c)' /\ \A d \in Client \ {c} : pc'[d] = pc[d]
    BY <1>0, <2>1 DEF Newcomer
  <2>5. UNCHANGED <<kicks, sender>>
    BY <1>6 DEF KillLookup, Lookup, outVars
  <2>6. pc'[c] = "cancel" => at'[c] = clientMap[k] /\ clientMap[k] # nil
    BY <1>0, <2>1
  <2> QED BY <2>2, <2>3, <2>4, <2>5, <2>6 DEF Newcomer
<1>7. CASE ServeStep(c) /\ ~KillLookup(c)
  BY <1>0, <1>7 DEF ServeStep, Position, ReindexLock, Reindex, SendLookup,
     Lookup, Send, Reply, Revoke, Cancel, Waits, Writes, rest, outVars,
     Newcomer
<1>8. CASE ExitStep(c) \/ LineTooLong(c)
  BY <1>0, <1>8 DEF ExitStep, EventLoopEnds, LineTooLong, Returns,
     UnindexLock, Unindex, UnregisterLock, Unregister, Close, Waits, Writes,
     rest, outVars
<1>9. CASE Dispatch(c)
  BY <1>0, <1>9, KindAssumption DEF Dispatch, HandlerKinds, outVars
<1> QED BY <1>1, <1>2, <1>3, <1>4, <1>5, <1>6, <1>7, <1>8, <1>9 DEF Handler

LEMMA StageStep ==
  ASSUME TypeOK, RegistryExact, IndexExact, StageInv, [Next]_vars
  PROVE  StageInv'
<1>1. ASSUME NEW c \in Client, Handler(c) \/ Dispatch(c) \/ LineTooLong(c)
      PROVE  StageInv'
  <2>1. \A r \in Client : Newcomer(r)' => Newcomer(r)
    <3>1. CASE Register(c) \/ Unregister(c) \/ LoginFails(c)
      BY <3>1, StageMoves DEF Newcomer
    <3>2. CASE Deliver(c)
      BY <3>2, DeliverOne DEF Newcomer
    <3> QED BY <1>1, <3>1, <3>2, PresenceFrame
  <2>2. \A d \in Client \ {c} : pc'[d] = pc[d] /\ at'[d] = at[d]
    BY <1>1, ScanFrame, ScanEntry
  <2>3. pc[c] = "announcing" => ~Newcomer(c)
    BY DEF Newcomer
  <2>4. \A r \in Client : sender'[r] # "off" \/ r \in kicks' => ~Newcomer(r)'
    BY <1>1, <2>1, <2>3, HandFrame DEF StageInv
  <2>5. \A d \in Client :
          pc'[d] = "cancel" => at'[d] \in Client /\ ~Newcomer(at[d])'
    BY <1>1, <2>1, <2>2, HandFrame DEF StageInv, Newcomer
  <2> QED BY <2>4, <2>5 DEF StageInv, Newcomer
<1>2. ASSUME NEW c \in Client, SenderWorker(c) PROVE StageInv'
  <2>1. /\ UNCHANGED <<pc, at, kicks>>
        /\ \A r \in Client : sender[r] = "off" => sender'[r] = "off"
    BY <1>2 DEF TypeOK, SenderWorker, SenderTake, SenderWrite, SenderFails,
       SenderStops, SenderReturns, goVars, handVars
  <2> QED BY <2>1 DEF StageInv, Newcomer
<1>3. ASSUME NEW c \in Client, Peer(c) \/ KickCancel(c) PROVE StageInv'
  <2>1. UNCHANGED <<pc, at, sender>> /\ kicks' \subseteq kicks
    BY <1>3 DEF Peer, Stall, Resume, Leave, PeerBecomes, KickCancel, goVars,
       handVars, outVars
  <2> QED BY <2>1 DEF StageInv, Newcomer
<1>4. ASSUME NEW k \in Kickable, KickFind(k) PROVE StageInv'
  <2>1. /\ UNCHANGED <<pc, at, sender>> /\ kicks' = kicks \cup {clientMap[k]}
        /\ clientMap[k] # nil
    BY <1>4 DEF KickFind, goVars, handVars, outVars
  <2>2. \A r \in Client : r = clientMap[k] => ~Newcomer(r)
    BY SetAssumption DEF RegistryExact, Registered, Newcomer, Joining,
       Serving, Leaving
  <2> QED BY <2>1, <2>2 DEF StageInv, Newcomer
<1>5. UNCHANGED vars => StageInv'
  BY DEF vars, goVars, handVars, rest, outVars, StageInv, Newcomer
<1> QED BY <1>1, <1>2, <1>3, <1>4, <1>5 DEF Next, Quiet

\* the part of a state that Presence shows as stage
Stages == [c \in Client |-> Stage(c)]

LEMMA StageOf ==
  ASSUME NEW c \in Client
  PROVE  /\ Stage(c) = "new" <=> Newcomer(c)
         /\ Stage(c) = "online" <=> Registered(c)
         /\ Registered(c) => ~Newcomer(c)
BY DEF Stage, Newcomer, Registered, Joining, Serving, Leaving

LEMMA StagesChange ==
  ASSUME TypeOK, NEW c \in Client,
         Register(c) \/ Unregister(c) \/ LoginFails(c)
  PROVE  Stages' = [Stages EXCEPT ![c] = IF pc'[c] = "index" THEN "online"
                                         ELSE "gone"]
<1>1. \A d \in Client \ {c} : Stage(d)' = Stage(d)
  BY StageMoves DEF Stage, Registered
<1>2. Stage(c)' = IF pc'[c] = "index" THEN "online" ELSE "gone"
  BY StageMoves DEF Stage, Registered, Joining, Serving, Leaving
<1> QED BY <1>1, <1>2 DEF Stages

LEMMA PresenceStep ==
  ASSUME ScanInv, PictureInv, StageInv, [Next]_vars
  PROVE  [P!Next]_(P!vars)
<1> USE DEF ScanInv
<1>0. /\ pc \in [Client -> Steps] /\ ctxDone \in [Client -> BOOLEAN]
      /\ told \in [Client -> SUBSET Client]
      /\ clientMap \in [Callsign -> Client \cup {nil}]
  BY DEF TypeOK
<1>1. ASSUME UNCHANGED <<clientMap, ctxDone, told>>, Stages' = Stages
      PROVE  UNCHANGED P!vars
  BY <1>1 DEF P!vars, Stages
<1>2. ASSUME NEW d \in Client, ~Newcomer(d),
             ctxDone' = [ctxDone EXCEPT ![d] = TRUE],
             UNCHANGED <<clientMap, told>>, Stages' = Stages
      PROVE  P!GiveUp(d)
  BY <1>2, StageOf DEF P!GiveUp, Stages
<1>3. ASSUME NEW c \in Client, Register(c)
      PROVE  P!Join(c) \/ P!Refuse(c)
  <2>1. Stages[c] = "new"
    BY <1>3, StageOf DEF Register, Writes, Go, Newcomer, Stages
  <2>2. CASE clientMap[callsignOf[c]] = nil
    <3>1. /\ clientMap' = [clientMap EXCEPT ![callsignOf[c]] = c]
          /\ pc'[c] = "index"
      BY <1>0, <1>3, <2>2 DEF Register, Writes, Go
    <3>2. Stages' = [Stages EXCEPT ![c] = "online"]
      BY <1>3, <3>1, StagesChange
    <3> QED BY <1>3, <2>1, <2>2, <3>1, <3>2, StageMoves DEF P!Join, Stages
  <2>3. CASE clientMap[callsignOf[c]] # nil
    <3>1. clientMap' = clientMap /\ pc'[c] = "close"
      BY <1>0, <1>3, <2>3 DEF Register, Writes, Go
    <3>2. Stages' = [Stages EXCEPT ![c] = "gone"]
      BY <1>3, <3>1, StagesChange
    <3> QED BY <1>3, <2>1, <3>1, <3>2, StageMoves DEF P!Refuse, Stages
  <2> QED BY <2>2, <2>3
<1>4. ASSUME NEW c \in Client, LoginFails(c)
      PROVE  P!Refuse(c)
  <2>1. Stages[c] = "new" /\ pc'[c] = "close" /\ clientMap' = clientMap
    BY <1>0, <1>4, StageOf DEF LoginFails, Moves, Go, Newcomer, Stages, regVars
  <2>2. Stages' = [Stages EXCEPT ![c] = "gone"]
    BY <1>4, <2>1, StagesChange
  <2> QED BY <1>4, <2>1, <2>2, StageMoves DEF P!Refuse, Stages
<1>5. ASSUME NEW c \in Client, Unregister(c)
      PROVE  P!Leave(c)
  <2>1. /\ pc[c] = "unregistering" /\ pc'[c] = "close"
        /\ clientMap' = [clientMap EXCEPT ![callsignOf[c]] = nil]
    BY <1>0, <1>5 DEF Unregister, Writes, Go
  <2>2. Stages[c] = "online"
    BY <2>1, StageOf DEF Registered, Leaving, Stages
  <2>3. Stages' = [Stages EXCEPT ![c] = "gone"]
    BY <1>5, <2>1, StagesChange
  <2>4. \A r \in Client : ~(Registered(r) /\ ~ctxDone[r] /\ c \in told[r])
    BY <2>1 DEF PictureInv, PresenceAccurate, Serving
  <2>5. \A r \in Client \ {c} : ~P!Believes(r, c)
    BY <2>4, StageOf DEF P!Believes
  <2> QED BY <1>5, <2>1, <2>2, <2>3, <2>5, StageMoves DEF P!Leave, Stages
<1>6. ASSUME NEW c \in Client, Deliver(c)
      PROVE  P!Announce(c, at[c]) \/ P!Retract(c, at[c]) \/ UNCHANGED P!vars
  <2>1. Stages' = Stages /\ UNCHANGED <<clientMap, ctxDone>>
    BY <1>6, DeliverOne DEF Stages, Stage, Registered
  <2>2. at[c] \in Client /\ Registered(at[c])
    BY <1>6, DeliverOne, NilAssumption DEF ScanStable, Pending, InScan, Indexed
  <2>3. Registered(c)
    BY <1>6, DeliverOne DEF InScan, MapScan, TreeScan, Registered, Joining,
       Serving, Leaving
  <2>4. Stages[c] = "online" /\ Stages[at[c]] = "online"
    BY <2>2, <2>3, StageOf DEF Stages
  <2>5. \/ told' = told
        \/ told' = [told EXCEPT ![at[c]] = @ \cup {c}]
        \/ told' = [told EXCEPT ![at[c]] = @ \ {c}]
    BY <1>6, DeliverOne
  <2> QED BY <1>1, <2>1, <2>4, <2>5 DEF P!Announce, P!Retract, Stages
<1>7. ASSUME NEW c \in Client,
             Handler(c) \/ Dispatch(c) \/ LineTooLong(c),
             ~Register(c), ~Unregister(c), ~LoginFails(c), ~Deliver(c)
      PROVE  (\E d \in Client : P!GiveUp(d)) \/ UNCHANGED P!vars
  <2>1. Stages' = Stages
    <3>1. \A d \in Client : /\ Newcomer(d)' = Newcomer(d)
                            /\ Registered(d)' = Registered(d)
      BY <1>7, PresenceFrame, RegistryFrame DEF Handler
    <3>2. \A d \in Client : Stage(d)' = Stage(d)
      BY <3>1 DEF Stage, Newcomer
    <3> QED BY <3>2 DEF Stages
  <2>2. UNCHANGED <<clientMap, told>>
    BY <1>7, PresenceFrame
  <2>3. CASE ctxDone' = ctxDone
    BY <1>1, <2>1, <2>2, <2>3
  <2>4. CASE pc[c] = "cancel" /\ ctxDone' = [ctxDone EXCEPT ![at[c]] = TRUE]
    BY <1>2, <2>1, <2>2, <2>4 DEF StageInv
  <2>5. CASE pc[c] = "loop" /\ ctxDone' = [ctxDone EXCEPT ![c] = TRUE]
    BY <1>2, <2>1, <2>2, <2>5 DEF Newcomer
  <2> QED BY <1>7, <2>3, <2>4, <2>5, PresenceFrame
<1>8. ASSUME NEW c \in Client, SenderWorker(c) \/ Peer(c) \/ KickCancel(c)
      PROVE  P!GiveUp(c) \/ UNCHANGED P!vars
  <2>1. /\ UNCHANGED <<pc, clientMap, told>>
        /\ \/ ctxDone' = ctxDone
           \/ /\ sender[c] # "off" \/ c \in kicks
              /\ ctxDone' = [ctxDone EXCEPT ![c] = TRUE]
    BY <1>8 DEF SenderWorker, SenderTake, SenderWrite, SenderFails,
       SenderStops, SenderReturns, Peer, Stall, Resume, Leave, PeerBecomes,
       KickCancel, goVars, regVars
  <2>2. Stages' = Stages
    BY <2>1 DEF Stages, Stage, Registered
  <2> QED BY <1>1, <1>2, <2>1, <2>2 DEF StageInv
<1>9. ASSUME UNCHANGED <<pc, clientMap, ctxDone, told>> PROVE UNCHANGED P!vars
  BY <1>1, <1>9 DEF Stages, Stage, Registered
<1>10. ASSUME NEW k \in Kickable, KickFind(k)
       PROVE  UNCHANGED <<pc, clientMap, ctxDone, told>>
  BY <1>10 DEF KickFind, goVars, regVars
<1>11. UNCHANGED vars => UNCHANGED <<pc, clientMap, ctxDone, told>>
  BY DEF vars, goVars, regVars, rest
<1>12. ASSUME NEW c \in Client, Handler(c) \/ Dispatch(c) \/ LineTooLong(c)
       PROVE  P!Next \/ UNCHANGED P!vars
  <2>1. CASE Register(c)
    BY <1>3, <2>1 DEF P!Next
  <2>2. CASE LoginFails(c)
    BY <1>4, <2>2 DEF P!Next
  <2>3. CASE Unregister(c)
    BY <1>5, <2>3 DEF P!Next
  <2>4. CASE Deliver(c)
    BY <1>6, <2>4, DeliverOne DEF P!Next
  <2> QED BY <1>7, <1>12, <2>1, <2>2, <2>3, <2>4 DEF P!Next
<1>13. ASSUME NEW c \in Client, SenderWorker(c) \/ Peer(c) \/ KickCancel(c)
       PROVE  P!Next \/ UNCHANGED P!vars
  BY <1>8, <1>13 DEF P!Next
<1> QED
  BY <1>9, <1>10, <1>11, <1>12, <1>13 DEF Next, Quiet

LEMMA PresenceStart == Init => P!Init
BY DEF Init, P!Init, Stage

\* The server keeps the promise Presence states: its goroutines, locks, queues
\* and cancelled contexts never show a step that Presence does not allow.
THEOREM PostOfficeImplementsPresence == Spec => ImplementsPresence
<1>1. ScanInv /\ PictureInv /\ StageInv /\ [Next]_vars => [P!Next]_(P!vars)
  BY PresenceStep
<1>2. ScanInv /\ PictureInv /\ [Next]_vars => PictureInv'
  BY PictureInductive
<1>3. ScanInv /\ StageInv /\ [Next]_vars => StageInv'
  BY StageStep DEF ScanInv
<1> QED
  BY PresenceStart, PictureInit, StageInit, ScanInvariant, <1>1, <1>2, <1>3,
     PTL
  DEF Spec, ImplementsPresence, P!Spec

-----------------------------------------------------------------------------
(* What Presence promises, whoever implements it.                            *)

\* Nobody who can be reached believes in a session that has left: whoever it
\* was told of is online and still holds the callsign it was announced with.
NoGhosts ==
    \A r, s \in Client :
        P!Believes(r, s) => Stages[s] = "online" /\ clientMap[callsignOf[s]] = s

PromiseTypes ==
    /\ clientMap \in [Callsign -> Client \cup {nil}]
    /\ Stages \in [Client -> {"new", "online", "gone"}]
    /\ ctxDone \in [Client -> BOOLEAN]
    /\ told \in [Client -> SUBSET Client]
\* The online hold their callsigns, so that none is taken over; newcomers
\* believe nothing.
PromiseInv ==
    /\ PromiseTypes
    /\ \A s \in Client : Stages[s] = "online" => clientMap[callsignOf[s]] = s
    /\ \A s \in Client : Stages[s] = "new" => told[s] = {}
    /\ \A r, s \in Client : P!Believes(r, s) => Stages[s] = "online"

LEMMA BelievesIs ==
  ASSUME NEW r \in Client, NEW s \in Client
  PROVE  /\ P!Believes(r, s) <=>
              Stages[r] = "online" /\ ~ctxDone[r] /\ s \in told[r]
         /\ P!Believes(r, s)' <=>
              Stages'[r] = "online" /\ ~ctxDone'[r] /\ s \in told'[r]
BY DEF P!Believes, Stages

LEMMA PromiseStart == P!Init => PromiseInv
<1> SUFFICES ASSUME P!Init PROVE PromiseInv
  OBVIOUS
<1>1. /\ clientMap = [k \in Callsign |-> nil]
      /\ Stages = [s \in Client |-> "new"]
      /\ ctxDone = [s \in Client |-> FALSE]
      /\ told = [s \in Client |-> {}]
  BY DEF P!Init, Stages
<1> QED BY <1>1, BelievesIs DEF PromiseInv, PromiseTypes

LEMMA PromiseStep == PromiseInv /\ [P!Next]_(P!vars) => PromiseInv'
<1> SUFFICES ASSUME PromiseInv, [P!Next]_(P!vars) PROVE PromiseInv'
  OBVIOUS
<1> USE DEF PromiseInv, PromiseTypes
<1>0. nil \notin Client /\ callsignOf \in [Client -> Callsign]
  BY NilAssumption, CallsignAssumption
<1>1. ASSUME NEW s \in Client, P!Join(s) PROVE PromiseInv'
  <2>1. /\ Stages[s] = "new" /\ clientMap[callsignOf[s]] = nil
        /\ clientMap' = [clientMap EXCEPT ![callsignOf[s]] = s]
        /\ Stages' = [Stages EXCEPT ![s] = "online"]
        /\ ctxDone' = ctxDone /\ told' = told
    BY <1>1 DEF P!Join, Stages
  <2> QED BY <1>0, <2>1, BelievesIs
<1>2. ASSUME NEW s \in Client, P!Refuse(s) PROVE PromiseInv'
  <2>1. /\ Stages[s] = "new" /\ Stages' = [Stages EXCEPT ![s] = "gone"]
        /\ clientMap' = clientMap /\ ctxDone' = ctxDone /\ told' = told
    BY <1>2 DEF P!Refuse, Stages
  <2> QED BY <1>0, <2>1, BelievesIs
<1>3. ASSUME NEW s \in Client, P!GiveUp(s) PROVE PromiseInv'
  <2>1. /\ ctxDone' = [ctxDone EXCEPT ![s] = TRUE]
        /\ clientMap' = clientMap /\ Stages' = Stages /\ told' = told
    BY <1>3 DEF P!GiveUp, Stages
  <2> QED BY <1>0, <2>1, BelievesIs
<1>4. ASSUME NEW s \in Client, P!Leave(s) PROVE PromiseInv'
  <2>1. /\ Stages[s] = "online"
        /\ \A r \in Client \ {s} : ~P!Believes(r, s)
        /\ clientMap' = [clientMap EXCEPT ![callsignOf[s]] = nil]
        /\ Stages' = [Stages EXCEPT ![s] = "gone"]
        /\ ctxDone' = ctxDone /\ told' = told
    BY <1>4 DEF P!Leave, Stages
  <2>2. \A c \in Client \ {s} :
          Stages[c] = "online" => callsignOf[c] # callsignOf[s]
    BY <2>1
  <2> QED BY <1>0, <2>1, <2>2, BelievesIs
<1>5. ASSUME NEW s \in Client, NEW r \in Client,
             P!Announce(s, r) \/ P!Retract(s, r)
      PROVE  PromiseInv'
  <2>1. /\ Stages[s] = "online" /\ Stages[r] = "online"
        /\ \/ told' = [told EXCEPT ![r] = @ \cup {s}]
           \/ told' = [told EXCEPT ![r] = @ \ {s}]
        /\ clientMap' = clientMap /\ Stages' = Stages /\ ctxDone' = ctxDone
    BY <1>5 DEF P!Announce, P!Retract, Stages
  <2> QED BY <1>0, <2>1, BelievesIs
<1>6. ASSUME UNCHANGED P!vars PROVE PromiseInv'
  <2>1. clientMap' = clientMap /\ Stages' = Stages /\ ctxDone' = ctxDone
        /\ told' = told
    BY <1>6 DEF P!vars, Stages
  <2> QED BY <2>1, BelievesIs
<1> QED BY <1>1, <1>2, <1>3, <1>4, <1>5, <1>6 DEF P!Next

\* The guards of Presence's Join and Leave are enough: whatever refines Presence
\* has no ghosts, and none of its callsigns changes hands while believed in.
THEOREM PresenceHasNoGhosts == ImplementsPresence => []NoGhosts
<1>1. PromiseInv => NoGhosts
  BY DEF PromiseInv, NoGhosts
<1> QED
  BY PromiseStart, PromiseStep, <1>1, PTL DEF ImplementsPresence, P!Spec

\* And so this server has none: register checks the callsign, and release comes
\* after the goodbye is queued for all (handleConn's deferred calls).
THEOREM ServerHasNoGhosts == Spec => []NoGhosts
BY PostOfficeImplementsPresence, PresenceHasNoGhosts
=============================================================================

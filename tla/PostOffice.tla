----------------------------- MODULE PostOffice -----------------------------
(***************************************************************************)
(* The concurrent core of the FSD server: the post office (two indexes of  *)
(* the connected clients, each behind a sync.RWMutex), the goroutine that  *)
(* handleConn runs for every connection, and the senderWorker goroutine    *)
(* that drains its outbound channel.                                       *)
(*                                                                         *)
(* A member of Client is one run of handleConn (a session); several        *)
(* sessions may ask for the same callsign.  A step is one acquisition or   *)
(* release of a lock, one channel operation, one socket operation, or the  *)
(* computation between two of these.  pc[c] is where c's goroutine stands. *)
(* A name in -ing is a critical section entered at the name before it.     *)
(***************************************************************************)
EXTENDS Naturals

CONSTANTS
    Client,       \* sessions: one run of handleConn each
    Callsign,
    callsignOf,   \* the callsign each session logs in with
    Box,          \* bounding boxes that the spatial index tells apart
    Origin,       \* the box of a client that has not reported a position
    InRange,      \* pairs of boxes that intersect
    Audience,     \* sets of sessions the filter of a broadcast lets through
    Supervisor,   \* sessions with a rating that may send a kill request
    Kickable,     \* callsigns the HTTP service may be asked to kick
    Kinds,        \* first step of the handlers that incoming packets reach
    SendChanCap,  \* capacity of sendChan (32 in the code)
    PacketBudget, \* bound: packets each session sends
    Leaver,       \* sessions whose peer may go away
    Staller,      \* sessions whose peer may stop reading its socket
    MotdMayFail,  \* whether writing the welcome message may fail
    nil

HandlerKinds == {"broadcast", "delete", "range", "position", "send",
                 "reply", "kill", "revoke"}

ASSUME CapAssumption == SendChanCap \in Nat \ {0}
ASSUME BudgetAssumption == PacketBudget \in [Client -> Nat]
ASSUME CallsignAssumption == callsignOf \in [Client -> Callsign]
ASSUME BoxAssumption == Origin \in Box /\ InRange \subseteq Box \X Box
ASSUME NilAssumption == nil \notin Client
ASSUME KindAssumption == Kinds \subseteq HandlerKinds
ASSUME SetAssumption == Kickable \subseteq Callsign
ASSUME MotdAssumption == MotdMayFail \in BOOLEAN

VARIABLES
    pc,         \* where each handleConn goroutine stands
    clientMap,  \* postOffice.clientMap: callsign -> session or nil
    tree,       \* postOffice.tree: set of <<session, box>> entries
    readers,    \* goroutines inside an RLock section, by lock
    writer,     \* goroutine that called Lock: new readers wait behind it
    ctxDone,    \* whether client.ctx is cancelled
    backlog,    \* packets in client.sendChan
    sender,     \* senderWorker: off, idle (in select), write, done
    closed,     \* whether the server closed client.conn
    peer,       \* the far end: reading, stalled (send buffer full), gone
    pos,        \* bounding box of client.latLon and client.visRange
    old,        \* updatePosition's oldMin, oldMax
    todo,       \* recipients an iteration has not reached yet
    at,         \* the recipient or victim in hand (nil: none)
    told,       \* history: told[r] = sessions r was told of, not of their end
    budget,     \* packets the session may still send
    kicks       \* sessions handleKickUser found and has not cancelled

handVars == <<todo, at>>
regVars == <<clientMap, tree>>
lockVars == <<readers, writer>>
outVars == <<backlog, sender>>
netVars == <<closed, peer>>
posVars == <<pos, old>>
goVars == <<pc, handVars, regVars, lockVars>>
rest == <<ctxDone, outVars, netVars, posVars, told, budget, kicks>>
vars == <<goVars, rest>>

-----------------------------------------------------------------------------
(* Where a session is in its life, read off pc. *)

MapScan  == {"announcing", "broadcasting", "deleting", "departing"}
TreeScan == {"ranging", "sharing"}
InScan   == MapScan \cup TreeScan
MapWrite  == {"registering", "unregistering"}
TreeWrite == {"indexing", "reindexing", "unindexing"}
Moving == {"reindex", "reindexing"}

\* inside handleConn before the client is in clientMap, and after it left
Outside == {"login", "register", "registering", "close", "closed"}
\* in clientMap, not announced yet: its senderWorker is not running
Joining == {"index", "indexing", "motd", "announce", "announcing"}
\* inside eventLoop
Serving == {"loop", "broadcast", "broadcasting", "delete", "deleting",
            "range", "ranging", "position", "reindex", "reindexing",
            "share", "sharing", "send", "sending", "reply", "kill",
            "revoke", "cancel"}
\* eventLoop returned: the deferred calls of handleConn
Leaving == {"depart", "departing", "unindex", "unindexing", "unregister",
            "unregistering"}
Steps == Outside \cup Joining \cup Serving \cup Leaving

Registered(c) == pc[c] \in Joining \cup Serving \cup Leaving
Indexed(c) == Registered(c)
              /\ pc[c] \notin {"index", "indexing", "unregister", "unregistering"}
Pending(c) == todo[c] \cup ({at[c]} \ {nil})
Holders == {clientMap[k] : k \in Callsign} \ {nil}

-----------------------------------------------------------------------------
Init ==
    /\ pc = [c \in Client |-> "login"]
    /\ clientMap = [k \in Callsign |-> nil]
    /\ tree = {}
    /\ readers = [l \in {"map", "tree"} |-> {}]
    /\ writer = [l \in {"map", "tree"} |-> nil]
    /\ ctxDone = [c \in Client |-> FALSE]
    /\ backlog = [c \in Client |-> 0]
    /\ sender = [c \in Client |-> "off"]
    /\ closed = [c \in Client |-> FALSE]
    /\ peer = [c \in Client |-> "reading"]
    /\ pos = [c \in Client |-> Origin]
    /\ old = [c \in Client |-> Origin]
    /\ todo = [c \in Client |-> {}]
    /\ at = [c \in Client |-> nil]
    /\ told = [c \in Client |-> {}]
    /\ budget = PacketBudget
    /\ kicks = {}

Go(c, from, to) == pc[c] = from /\ pc' = [pc EXCEPT ![c] = to]

(***************************************************************************)
(* sync.RWMutex: Lock announces the writer, which bars new readers, then   *)
(* waits for the readers inside to leave.                                  *)
(***************************************************************************)
Lock(c, l) == writer[l] = nil /\ writer' = [writer EXCEPT ![l] = c]
\* Fault, for the runs to detect: a writer that does not wait for the readers.
LockedAtOnce(c, l) == writer[l] = c
Locked(c, l) == writer[l] = c /\ readers[l] = {}
Unlock(l) == writer' = [writer EXCEPT ![l] = nil]
CanRead(l) == writer[l] = nil
RLock(c, l) == CanRead(l) /\ readers' = [readers EXCEPT ![l] = @ \cup {c}]
RUnlock(c, l) == readers' = [readers EXCEPT ![l] = @ \ {c}]

\* The goroutine of c: moves on; calls Lock on l; owns l, does its work, unlocks.
Moves(c, from, to) ==
    Go(c, from, to) /\ UNCHANGED <<handVars, regVars, lockVars, rest>>
Waits(c, from, to, l) ==
    Go(c, from, to) /\ Lock(c, l) /\ UNCHANGED <<handVars, regVars, readers, rest>>
Writes(c, from, to, l) ==
    /\ Go(c, from, to) /\ Locked(c, l) /\ Unlock(l)
    /\ UNCHANGED <<handVars, readers, rest>>

\* The iteration over a set S of recipients takes them in an arbitrary order.
FirstOf(S) == IF S = {} THEN {nil} ELSE S
Iterate(c, S) == \E r \in FirstOf(S) :
    at' = [at EXCEPT ![c] = r] /\ todo' = [todo EXCEPT ![c] = S \ {r}]

\* Fault: an unbounded queue.
QueueUnbounded(r) == backlog' = [backlog EXCEPT ![r] = @ + 1]
\* Fault: a select with a default case, to keep slow clients from blocking.
DropAnyway(r) == UNCHANGED backlog
\* client.send: the select queues the packet or sees the context done.
Queue(r) == backlog[r] < SendChanCap
            /\ backlog' = [backlog EXCEPT ![r] = @ + 1]
Drop(r) == ctxDone[r] /\ UNCHANGED backlog

-----------------------------------------------------------------------------
(* handleConn up to the event loop. *)

\* ident, readLoginPackets, attemptAuthentication
Login(c) == Moves(c, "login", "register")
LoginFails(c) == Moves(c, "login", "close")

RegisterLock(c) == Waits(c, "register", "registering", "map")

\* Fault, for the runs to detect: the callsign is taken over without a check.
RegisterOver(c) ==
    /\ Writes(c, "registering", "index", "map")
    /\ clientMap' = [clientMap EXCEPT ![callsignOf[c]] = c]
    /\ UNCHANGED tree

Register(c) ==
    /\ \/ /\ clientMap[callsignOf[c]] # nil     \* ErrCallsignInUse
          /\ Writes(c, "registering", "close", "map")
          /\ UNCHANGED clientMap
       \/ /\ clientMap[callsignOf[c]] = nil
          /\ Writes(c, "registering", "index", "map")
          /\ clientMap' = [clientMap EXCEPT ![callsignOf[c]] = c]
    /\ UNCHANGED tree

IndexLock(c) == Waits(c, "index", "indexing", "tree")
Index(c) ==
    /\ Writes(c, "indexing", "motd", "tree")
    /\ tree' = tree \cup {<<c, pos[c]>>}
    /\ UNCHANGED clientMap

\* sendMotd writes to the socket itself; the send buffer is empty this early.
Motd(c) == Moves(c, "motd", "announce")

\* handleConn returns before eventLoop: only the deferred release and Close
\* run.  client.ctx is left as it is and senderWorker never starts.
MotdFails(c) == MotdMayFail /\ peer[c] = "gone" /\ Moves(c, "motd", "unindex")

-----------------------------------------------------------------------------
(* postOffice.all and postOffice.search: the callback runs client.send with *)
(* the read lock held.                                                      *)

Scan(c, from, to, A) ==
    /\ Go(c, from, to)
    /\ RLock(c, "map")
    /\ Iterate(c, (Holders \cap A) \ {c})
    /\ UNCHANGED <<regVars, writer, ctxDone, outVars, netVars, posVars,
                   told, budget, kicks>>

\* Fault: broadcastAllSupervisors in the place of broadcastAll.
AnnounceSome(c) == Scan(c, "announce", "announcing", Supervisor)
AnnounceLock(c) == Scan(c, "announce", "announcing", Client)
BroadcastLock(c) ==
    \E A \in Audience : Scan(c, "broadcast", "broadcasting", A)
DeleteLock(c) == Scan(c, "delete", "deleting", Client)
DepartLock(c) == Scan(c, "depart", "departing", Client)

Search(c, from, to, A) ==
    /\ Go(c, from, to)
    /\ RLock(c, "tree")
    /\ Iterate(c, {r \in A \ {c} :
                     \E b \in Box : <<r, b>> \in tree /\ <<pos[c], b>> \in InRange})
    /\ UNCHANGED <<regVars, writer, ctxDone, outVars, netVars, posVars,
                   told, budget, kicks>>

RangeLock(c) == \E A \in Audience : Search(c, "range", "ranging", A)
ShareLock(c) == Search(c, "share", "sharing", Client)

\* What reaching the queue of r adds to r's picture of who is connected.
Tell(c, r) ==
    told' = IF pc[c] = "announcing" THEN [told EXCEPT ![r] = @ \cup {c}]
            ELSE IF pc[c] \in {"deleting", "departing"}
                 THEN [told EXCEPT ![r] = @ \ {c}]
                 ELSE told

\* The result of recipient.send is ignored by every callback.
Deliver(c) ==
    /\ pc[c] \in InScan /\ at[c] # nil
    /\ \/ Queue(at[c]) /\ Tell(c, at[c])
       \/ Drop(at[c]) /\ UNCHANGED told
    /\ Iterate(c, todo[c])
    /\ UNCHANGED <<pc, regVars, lockVars, ctxDone, sender, netVars, posVars,
                   budget, kicks>>

ScanDone(c, from, to, l) ==
    /\ at[c] = nil
    /\ Go(c, from, to)
    /\ RUnlock(c, l)
    /\ UNCHANGED <<todo, regVars, writer, ctxDone, backlog, netVars, posVars,
                   told, budget, kicks>>

\* eventLoop starts senderWorker
AnnounceDone(c) ==
    /\ ScanDone(c, "announcing", "loop", "map")
    /\ sender' = [sender EXCEPT ![c] = "idle"]
    /\ UNCHANGED at
BroadcastDone(c) ==
    ScanDone(c, "broadcasting", "loop", "map") /\ UNCHANGED <<at, sender>>
\* handleDelete goes on to cancel the client's own context
DeleteDone(c) ==
    /\ ScanDone(c, "deleting", "cancel", "map")
    /\ at' = [at EXCEPT ![c] = c]
    /\ UNCHANGED sender
DepartDone(c) ==
    ScanDone(c, "departing", "unindex", "map") /\ UNCHANGED <<at, sender>>
RangeDone(c) ==
    ScanDone(c, "ranging", "loop", "tree") /\ UNCHANGED <<at, sender>>
\* handlePilotPosition may go on to switch SendFast with a packet to itself
ShareDone(c) ==
    /\ \E to \in {"loop", "reply"} : ScanDone(c, "sharing", to, "tree")
    /\ UNCHANGED <<at, sender>>

-----------------------------------------------------------------------------
(* eventLoop and the handlers. *)

\* Scan returned a line, verifyPacket took it, getHandler chose the handler.
\* The loop does not look at the context: lines that are already buffered are
\* handled after it is cancelled and after the connection is closed.
Dispatch(c) ==
    /\ budget[c] > 0
    /\ \E kind \in Kinds :
         /\ kind = "kill" => c \in Supervisor
         /\ Go(c, "loop", kind)
    /\ budget' = [budget EXCEPT ![c] = @ - 1]
    /\ UNCHANGED <<handVars, regVars, lockVars, ctxDone, outVars, netVars,
                   posVars, told, kicks>>

\* updatePosition, first half: coords and visRange are stored, no lock held
Position(c) ==
    /\ \E b \in Box :
         /\ pos' = [pos EXCEPT ![c] = b]
         /\ Go(c, "position", IF b = pos[c] THEN "share" ELSE "reindex")
    /\ old' = [old EXCEPT ![c] = pos[c]]
    /\ UNCHANGED <<handVars, regVars, lockVars, ctxDone, outVars, netVars,
                   told, budget, kicks>>

ReindexLock(c) == Waits(c, "reindex", "reindexing", "tree")

\* Fault: Insert without the Delete.
ReindexAdds(c) ==
    /\ Writes(c, "reindexing", "share", "tree")
    /\ tree' = tree \cup {<<c, pos[c]>>}
    /\ UNCHANGED clientMap

Reindex(c) ==
    /\ Writes(c, "reindexing", "share", "tree")
    /\ tree' = (tree \ {<<c, old[c]>>}) \cup {<<c, pos[c]>>}
    /\ UNCHANGED clientMap

\* postOffice.send and find: the lock covers the lookup alone.  What is done
\* with the session found happens later, whatever became of it.
Lookup(c, from, found) ==
    /\ CanRead("map")
    /\ \E k \in Callsign :
         \/ clientMap[k] = nil /\ Go(c, from, "reply") /\ UNCHANGED at
         \/ /\ clientMap[k] # nil
            /\ Go(c, from, found)
            /\ at' = [at EXCEPT ![c] = clientMap[k]]
    /\ UNCHANGED <<todo, regVars, lockVars, ctxDone, outVars, netVars,
                   posVars, told, budget, kicks>>

SendLookup(c) == Lookup(c, "send", "sending")
KillLookup(c) == Lookup(c, "kill", "cancel")

\* sendDirectOrErr reports every error, a cancelled context too, to the sender
Send(c) ==
    /\ \/ Go(c, "sending", "loop") /\ Queue(at[c])
       \/ Go(c, "sending", "reply") /\ Drop(at[c])
    /\ at' = [at EXCEPT ![c] = nil]
    /\ UNCHANGED <<todo, regVars, lockVars, ctxDone, sender, netVars, posVars,
                   told, budget, kicks>>

\* a packet to the client itself: an answer, or sendError
Reply(c) ==
    /\ Go(c, "reply", "loop")
    /\ Queue(c) \/ Drop(c)
    /\ UNCHANGED <<handVars, regVars, lockVars, ctxDone, sender, netVars,
                   posVars, told, budget, kicks>>

\* handleATCPosition, facility type not allowed: sendError, then cancelCtx
Revoke(c) ==
    /\ Go(c, "revoke", "cancel")
    /\ Queue(c) \/ Drop(c)
    /\ at' = [at EXCEPT ![c] = c]
    /\ UNCHANGED <<todo, regVars, lockVars, ctxDone, sender, netVars,
                   posVars, told, budget, kicks>>

\* cancelCtx of the session in hand: itself or the victim of a kill request
Cancel(c) ==
    /\ Go(c, "cancel", "loop")
    /\ ctxDone' = [ctxDone EXCEPT ![at[c]] = TRUE]
    /\ at' = [at EXCEPT ![c] = nil]
    /\ UNCHANGED <<todo, regVars, lockVars, outVars, netVars, posVars,
                   told, budget, kicks>>

\* eventLoop returns, running the deferred cancelCtx
Returns(c, to) ==
    /\ Go(c, "loop", to)
    /\ ctxDone' = [ctxDone EXCEPT ![c] = TRUE]
    /\ UNCHANGED <<handVars, regVars, lockVars, outVars, netVars, posVars,
                   told, budget, kicks>>

\* Fault: the deferred broadcastDisconnectPacket is missing.
EventLoopEndsSilently(c) ==
    (closed[c] \/ peer[c] = "gone") /\ Returns(c, "unindex")
\* Fault: a peer that is gone goes unnoticed.
EventLoopWaits(c) == closed[c] /\ Returns(c, "depart")

\* scanner.Scan returns false: the socket is closed at either end.
EventLoopEnds(c) == (closed[c] \/ peer[c] = "gone") /\ Returns(c, "depart")

\* Scan also returns false on a line longer than its 4096 byte buffer.
LineTooLong(c) == budget[c] > 0 /\ Returns(c, "depart")

-----------------------------------------------------------------------------
(* The deferred calls of handleConn: after broadcastDisconnectPacket,       *)
(* postOffice.release (spatial index first, then the map), then conn.Close. *)

UnindexLock(c) == Waits(c, "unindex", "unindexing", "tree")
Unindex(c) ==
    /\ Writes(c, "unindexing", "unregister", "tree")
    /\ tree' = tree \ {<<c, pos[c]>>}
    /\ UNCHANGED clientMap

UnregisterLock(c) == Waits(c, "unregister", "unregistering", "map")

\* Fault: the Unlock is missing.
UnregisterKeepsLock(c) ==
    /\ Go(c, "unregistering", "close") /\ Locked(c, "map")
    /\ clientMap' = [clientMap EXCEPT ![callsignOf[c]] = nil]
    /\ UNCHANGED <<handVars, tree, lockVars, rest>>

\* deletes by callsign, whoever holds it
Unregister(c) ==
    /\ Writes(c, "unregistering", "close", "map")
    /\ clientMap' = [clientMap EXCEPT ![callsignOf[c]] = nil]
    /\ UNCHANGED tree

Close(c) ==
    /\ Go(c, "close", "closed")
    /\ closed' = [closed EXCEPT ![c] = TRUE]
    /\ UNCHANGED <<handVars, regVars, lockVars, ctxDone, outVars, peer,
                   posVars, told, budget, kicks>>

-----------------------------------------------------------------------------
(* senderWorker.  Its select takes a packet or sees the context done; it    *)
(* sees neither while conn.Write is blocked on a full send buffer.          *)

SenderTake(c) ==
    /\ sender[c] = "idle" /\ backlog[c] > 0
    /\ sender' = [sender EXCEPT ![c] = "write"]
    /\ backlog' = [backlog EXCEPT ![c] = @ - 1]
    /\ UNCHANGED <<goVars, ctxDone, netVars, posVars,
                   told, budget, kicks>>

SenderWrite(c) ==
    /\ sender[c] = "write" /\ peer[c] # "stalled" /\ ~closed[c]
    /\ sender' = [sender EXCEPT ![c] = "idle"]
    /\ UNCHANGED <<goVars, ctxDone, backlog, netVars,
                   posVars, told, budget, kicks>>

\* Fault: senderWorker returns without cancelCtx.
SenderVanishes(c) ==
    /\ sender' = [sender EXCEPT ![c] = "done"]
    /\ closed' = [closed EXCEPT ![c] = TRUE]
    /\ UNCHANGED <<goVars, ctxDone, backlog, peer, posVars,
                   told, budget, kicks>>

\* Fault: senderWorker returns without conn.Close.
SenderLeavesOpen(c) ==
    /\ sender' = [sender EXCEPT ![c] = "done"]
    /\ ctxDone' = [ctxDone EXCEPT ![c] = TRUE]
    /\ UNCHANGED <<goVars, backlog, netVars, posVars,
                   told, budget, kicks>>

\* returning runs the deferred cancelCtx, then the deferred conn.Close
SenderReturns(c) ==
    /\ sender' = [sender EXCEPT ![c] = "done"]
    /\ ctxDone' = [ctxDone EXCEPT ![c] = TRUE]
    /\ closed' = [closed EXCEPT ![c] = TRUE]
    /\ UNCHANGED <<goVars, backlog, peer, posVars, told,
                   budget, kicks>>

SenderFails(c) ==
    /\ sender[c] = "write" /\ (closed[c] \/ peer[c] = "gone")
    /\ SenderReturns(c)

SenderStops(c) == sender[c] = "idle" /\ ctxDone[c] /\ SenderReturns(c)

-----------------------------------------------------------------------------
(* handleKickUser of the HTTP service: find, then cancelCtx. *)

KickFind(k) ==
    /\ CanRead("map") /\ clientMap[k] # nil
    /\ kicks' = kicks \cup {clientMap[k]}
    /\ UNCHANGED <<goVars, ctxDone, outVars, netVars,
                   posVars, told, budget>>

KickCancel(c) ==
    /\ c \in kicks
    /\ ctxDone' = [ctxDone EXCEPT ![c] = TRUE]
    /\ kicks' = kicks \ {c}
    /\ UNCHANGED <<goVars, outVars, netVars, posVars,
                   told, budget>>

-----------------------------------------------------------------------------
(* The far end of the connection. *)

PeerBecomes(c, p) ==
    /\ peer' = [peer EXCEPT ![c] = p]
    /\ UNCHANGED <<goVars, ctxDone, outVars, closed,
                   posVars, told, budget, kicks>>

Stall(c) == /\ c \in Staller /\ sender[c] # "off" /\ peer[c] = "reading"
            /\ PeerBecomes(c, "stalled")
Resume(c) == peer[c] = "stalled" /\ PeerBecomes(c, "reading")
Leave(c) == c \in Leaver /\ peer[c] # "gone" /\ PeerBecomes(c, "gone")

-----------------------------------------------------------------------------
JoinStep(c) == \/ Login(c) \/ LoginFails(c) \/ RegisterLock(c) \/ Register(c)
               \/ IndexLock(c) \/ Index(c) \/ Motd(c) \/ MotdFails(c)
ScanStart(c) == \/ AnnounceLock(c) \/ BroadcastLock(c)
                \/ DeleteLock(c) \/ DepartLock(c)
SearchStart(c) == RangeLock(c) \/ ShareLock(c)
ScanEnd(c) == \/ AnnounceDone(c) \/ BroadcastDone(c) \/ DeleteDone(c)
              \/ DepartDone(c) \/ RangeDone(c) \/ ShareDone(c)
ServeStep(c) == \/ Position(c) \/ ReindexLock(c) \/ Reindex(c)
                \/ SendLookup(c) \/ KillLookup(c) \/ Send(c) \/ Reply(c)
                \/ Revoke(c) \/ Cancel(c)
ExitStep(c) == \/ EventLoopEnds(c) \/ UnindexLock(c) \/ Unindex(c)
               \/ UnregisterLock(c) \/ Unregister(c) \/ Close(c)

\* the steps of a connection's goroutine that wait for no packet
Handler(c) == \/ JoinStep(c) \/ ScanStart(c) \/ SearchStart(c) \/ Deliver(c)
              \/ ScanEnd(c) \/ ServeStep(c) \/ ExitStep(c)

SenderWorker(c) ==
    SenderTake(c) \/ SenderWrite(c) \/ SenderFails(c) \/ SenderStops(c)

Peer(c) == Stall(c) \/ Resume(c) \/ Leave(c)

\* The server may stop here, and only here: whoever is left waits for a packet.
Quiet ==
    /\ \A c \in Client : /\ pc[c] \in {"loop", "closed"}
                         /\ sender[c] \in {"off", "idle", "done"}
    /\ UNCHANGED vars

Next ==
    \/ \E c \in Client : Handler(c) \/ Dispatch(c) \/ LineTooLong(c)
                         \/ SenderWorker(c) \/ Peer(c) \/ KickCancel(c)
    \/ \E k \in Kickable : KickFind(k)
    \/ Quiet

Spec == Init /\ [][Next]_vars

(***************************************************************************)
(* Fairness.  The Go scheduler runs every goroutine that can go on; a      *)
(* blocked Lock or RLock is served in turn (an Unlock lets the waiting     *)
(* readers in before the next writer, and sync.Mutex hands over in order   *)
(* once a waiter starves), a select with several ready cases picks one at  *)
(* random, and a blocked Write ends when the peer drains the send buffer:  *)
(* hence strong fairness of what a goroutine waits for.  Nothing makes a   *)
(* client send a packet, so Dispatch and LineTooLong carry none.           *)
(***************************************************************************)
ServerFairness ==
    /\ \A c \in Client : SF_vars(Handler(c)) /\ SF_vars(SenderWorker(c))
                         /\ WF_vars(KickCancel(c))

\* peers may stop reading for good
ServerSpec == Spec /\ ServerFairness

\* every peer that stopped reading reads again, or leaves
FairSpec == ServerSpec /\ \A c \in Client : WF_vars(Resume(c))

-----------------------------------------------------------------------------
(* Safety. *)

\* Type invariant of every variable.
TypeOK ==
    /\ pc \in [Client -> Steps]
    /\ clientMap \in [Callsign -> Client \cup {nil}]
    /\ tree \subseteq Client \X Box
    /\ readers \in [{"map", "tree"} -> SUBSET Client]
    /\ writer \in [{"map", "tree"} -> Client \cup {nil}]
    /\ ctxDone \in [Client -> BOOLEAN]
    /\ backlog \in [Client -> 0..SendChanCap]
    /\ sender \in [Client -> {"off", "idle", "write", "done"}]
    /\ closed \in [Client -> BOOLEAN]
    /\ peer \in [Client -> {"reading", "stalled", "gone"}]
    /\ pos \in [Client -> Box]
    /\ old \in [Client -> Box]
    /\ todo \in [Client -> SUBSET Client]
    /\ at \in [Client -> Client \cup {nil}]
    /\ told \in [Client -> SUBSET Client]
    /\ budget \in [Client -> Nat]
    /\ kicks \subseteq Client

\* clientMap holds exactly the sessions between register and release, each
\* under its own callsign: no two sessions share a callsign, a refused login
\* and a departing namesake leave the holder's entry alone.
RegistryExact ==
    \A k \in Callsign, c \in Client :
        clientMap[k] = c <=> Registered(c) /\ callsignOf[c] = k

\* The spatial index holds every indexed session once, under the box that
\* updatePosition or release is going to delete: neither a move nor a logout
\* leaves an entry behind.
IndexExact ==
    \A c \in Client, b \in Box :
        <<c, b>> \in tree <=>
            Indexed(c) /\ b = IF pc[c] \in Moving THEN old[c] ELSE pos[c]

\* A session that all or search has still to reach stays in the index the
\* scan walks until the scan is past it, however long a queue blocks it.
ScanStable ==
    \A c \in Client : \A r \in Pending(c) :
        /\ pc[c] \in MapScan => Registered(r)
        /\ pc[c] \in TreeScan => Indexed(r)

\* Each lock is in the hands of those inside its sections and nobody else: it is
\* given back on every path, and a goroutine that takes or waits for a lock has
\* no other, in a callback of all or search or between the two of release.
LockDiscipline ==
    \A c \in Client :
        /\ c \in readers["map"] <=> pc[c] \in MapScan
        /\ c \in readers["tree"] <=> pc[c] \in TreeScan
        /\ writer["map"] = c <=> pc[c] \in MapWrite
        /\ writer["tree"] = c <=> pc[c] \in TreeWrite

\* No ghosts: a live session that was told of c and not of its end can rely
\* on c being connected, or about to say goodbye to it; the callsign of c is
\* free only once every such session has the disconnect packet queued.
PresenceAccurate ==
    \A r, c \in Client :
        Registered(r) /\ ~ctxDone[r] /\ c \in told[r] =>
            \/ pc[c] \in Serving \cup {"announcing", "depart"}
            \/ pc[c] = "departing" /\ r \in Pending(c)

\* announced, not cancelled, and not signing off with a delete packet
Online(c) == /\ pc[c] \in Serving \ {"deleting"} /\ ~ctxDone[c]
             /\ ~(pc[c] = "cancel" /\ at[c] = c)

\* However the logins of two clients interleave, one of them was announced to
\* the other: register comes before the announcement, and the announcement
\* reaches all that are registered.
MutualAwareness ==
    \A c, r \in Client :
        Online(c) /\ Online(r) /\ c # r => c \in told[r] \/ r \in told[c]

\* A goroutine blocked on the full queue of r is not blocked for good by r:
\* r's senderWorker still runs, or its eventLoop has yet to start it.
Blocked(c, r) ==
    /\ \/ pc[c] \in InScan \cup {"sending"} /\ at[c] = r
       \/ pc[c] \in {"reply", "revoke"} /\ c = r
    /\ backlog[r] = SendChanCap /\ ~ctxDone[r]
QueueHasConsumer ==
    \A c, r \in Client :
        Blocked(c, r) => sender[r] \in {"idle", "write"} \/ pc[r] \in Joining

-----------------------------------------------------------------------------
(* The abstract specification, and how a state of the server shows it. *)

Stage(c) == IF pc[c] \in {"login", "register", "registering"} THEN "new"
            ELSE IF Registered(c) THEN "online" ELSE "gone"

P == INSTANCE Presence WITH
        Session <- Client,
        holder <- clientMap,
        stage <- [c \in Client |-> Stage(c)],
        deaf <- ctxDone

\* The lock, queue and cancellation protocol implements Presence: callsigns
\* are held by one session at a time and handed back only after the goodbye.
ImplementsPresence == P!Spec

-----------------------------------------------------------------------------
(* Liveness. *)

\* A session whose context is cancelled (a kill request, a kick, a refused
\* position, a delete packet, a failed write) ends and closes its connection.
CancelledLeaves == \A c \in Client : ctxDone[c] ~> pc[c] = "closed"

\* A session whose peer is gone ends, and gives its callsign back.
GoneLeaves == \A c \in Client : peer[c] = "gone" ~> pc[c] = "closed"

\* "all calls `callback` for every single client registered to the post office"
\* (postoffice.go:146): an iteration gets through with its recipients.
AllReachesEveryone ==
    \A c \in Client : pc[c] \in MapScan ~> pc[c] \notin MapScan
=============================================================================

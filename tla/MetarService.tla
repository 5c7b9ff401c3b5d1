---------------------------- MODULE MetarService ----------------------------
(***************************************************************************)
(* The weather service of the FSD server (fsd/metar.go): event loops put   *)
(* requests into one bounded channel, workers take them, fetch over HTTP   *)
(* and put the answer into the asking client's own bounded queue, which    *)
(* its senderWorker drains.  A full channel holds up an event loop, a full *)
(* queue a worker.  Locks and the other packets are in PostOffice.         *)
(***************************************************************************)
EXTENDS Naturals, Sequences, FiniteSets

CONSTANTS
    Client, Worker,
    Staller,      \* clients whose peer may stop reading
    Leaver,       \* clients whose peer may go away or who may be kicked
    QueueCap,     \* of metarRequests; 128 in the code
    SendChanCap,  \* of sendChan; 32 in the code
    Budget,       \* bound: requests of each client
    nil

ASSUME MetarAssumption ==
    /\ Staller \subseteq Client /\ Leaver \subseteq Client
    /\ QueueCap \in Nat \ {0} /\ SendChanCap \in Nat \ {0} /\ Budget \in [Client -> Nat]
    /\ IsFiniteSet(Worker)

VARIABLES
    loop,           \* eventLoop: in Scan, in fetchAndSendMetar, returned
    metarRequests,
    job,            \* each worker's request and what it does for it, or nil
    backlog,        \* length of sendChan
    sender,         \* senderWorker: idle (in select), write, done
    ctxDone,
    peer,           \* the far end of the socket
    asked,          \* history: requests each client has put into the channel
    owed            \* history: those whose answer has not been given to send

vars == <<loop, metarRequests, job, backlog, sender, ctxDone, peer, asked, owed>>
clientVars == <<loop, asked>>
outVars == <<backlog, sender, ctxDone, peer>>

Job == [client : Client, stage : {"get", "send"}]
ASSUME NilAssumption == nil \notin Job

Init ==
    /\ loop = [c \in Client |-> "scan"]
    /\ metarRequests = <<>>
    /\ job = [w \in Worker |-> nil]
    /\ backlog = [c \in Client |-> 0]
    /\ sender = [c \in Client |-> "idle"]
    /\ ctxDone = [c \in Client |-> FALSE]
    /\ peer = [c \in Client |-> "reading"]
    /\ asked = [c \in Client |-> 0]
    /\ owed = [c \in Client |-> 0]

-----------------------------------------------------------------------------
(* The event loop.  A peer that does not read may still send, and lines     *)
(* that have arrived are read after the socket is closed.                   *)
HandleMetarRequest(c) ==
    /\ loop[c] = "scan" /\ asked[c] < Budget[c]
    /\ loop' = [loop EXCEPT ![c] = "asking"]
    /\ UNCHANGED <<metarRequests, job, outVars, asked, owed>>

\* Fault: the queue grows as needed.
QueueAnyway(c) ==
    /\ loop[c] = "asking"
    /\ metarRequests' = Append(metarRequests, c)
    /\ asked' = [asked EXCEPT ![c] = @ + 1]
    /\ owed' = [owed EXCEPT ![c] = @ + 1]
    /\ loop' = [loop EXCEPT ![c] = "scan"]
    /\ UNCHANGED <<job, outVars>>
\* The select of fetchAndSendMetar, its case of the channel.
FetchAndSendMetar(c) ==
    /\ loop[c] = "asking" /\ Len(metarRequests) < QueueCap
    /\ metarRequests' = Append(metarRequests, c)
    /\ asked' = [asked EXCEPT ![c] = @ + 1]
    /\ owed' = [owed EXCEPT ![c] = @ + 1]
    /\ loop' = [loop EXCEPT ![c] = "scan"]
    /\ UNCHANGED <<job, outVars>>

\* Its case of the context.
GivesUp(c) ==
    /\ loop[c] = "asking" /\ ctxDone[c]
    /\ loop' = [loop EXCEPT ![c] = "scan"]
    /\ UNCHANGED <<metarRequests, job, outVars, asked, owed>>

\* Scan fails when the socket is closed at either end.
EventLoopReturns(c) ==
    /\ loop[c] = "scan" /\ (peer[c] = "gone" \/ sender[c] = "done")
    /\ loop' = [loop EXCEPT ![c] = "over"]
    /\ ctxDone' = [ctxDone EXCEPT ![c] = TRUE]
    /\ UNCHANGED <<metarRequests, job, backlog, sender, peer, asked, owed>>

-----------------------------------------------------------------------------
\* Fault: one lock around all requests.
TakeAlone(w) ==
    /\ \A v \in Worker : job[v] = nil
    /\ metarRequests # <<>>
    /\ job' = [job EXCEPT ![w] = [client |-> Head(metarRequests), stage |-> "get"]]
    /\ metarRequests' = Tail(metarRequests)
    /\ UNCHANGED <<clientVars, outVars, owed>>
\* A worker's select.
Take(w) ==
    /\ job[w] = nil /\ metarRequests # <<>>
    /\ job' = [job EXCEPT ![w] = [client |-> Head(metarRequests), stage |-> "get"]]
    /\ metarRequests' = Tail(metarRequests)
    /\ UNCHANGED <<clientVars, outVars, owed>>

\* Fault: a request that failed is dropped.
GetDrops(w) ==
    /\ job[w] # nil /\ job[w].stage = "get"
    /\ job' \in {[job EXCEPT ![w].stage = "send"], [job EXCEPT ![w] = nil]}
    /\ UNCHANGED <<clientVars, metarRequests, outVars, owed>>
\* The HTTP request ends; the answer is a report or an error packet.
Get(w) ==
    /\ job[w] # nil /\ job[w].stage = "get"
    /\ job' = [job EXCEPT ![w].stage = "send"]
    /\ UNCHANGED <<clientVars, metarRequests, outVars, owed>>

JobEnds(w) ==
    /\ owed' = [owed EXCEPT ![job[w].client] = @ - 1]
    /\ job' = [job EXCEPT ![w] = nil]

\* The two cases of send.
SendAnswer(w) ==
    /\ job[w] # nil /\ job[w].stage = "send"
    /\ backlog[job[w].client] < SendChanCap
    /\ backlog' = [backlog EXCEPT ![job[w].client] = @ + 1]
    /\ JobEnds(w)
    /\ UNCHANGED <<clientVars, metarRequests, sender, ctxDone, peer>>

\* Fault: send only has the case of the channel.
SendWaits(w) == FALSE /\ UNCHANGED vars
SendGivesUp(w) ==
    /\ job[w] # nil /\ job[w].stage = "send" /\ ctxDone[job[w].client]
    /\ JobEnds(w)
    /\ UNCHANGED <<clientVars, metarRequests, outVars>>

-----------------------------------------------------------------------------
\* Other packets take room in the same queue.
OtherPacket(c) ==
    /\ backlog[c] < SendChanCap
    /\ backlog' = [backlog EXCEPT ![c] = @ + 1]
    /\ UNCHANGED <<clientVars, metarRequests, job, sender, ctxDone, peer, owed>>

SenderTakes(c) ==
    /\ sender[c] = "idle" /\ backlog[c] > 0
    /\ backlog' = [backlog EXCEPT ![c] = @ - 1]
    /\ sender' = [sender EXCEPT ![c] = "write"]
    /\ UNCHANGED <<clientVars, metarRequests, job, ctxDone, peer, owed>>

SenderWrites(c) ==
    /\ sender[c] = "write" /\ peer[c] = "reading"
    /\ sender' = [sender EXCEPT ![c] = "idle"]
    /\ UNCHANGED <<clientVars, metarRequests, job, backlog, ctxDone, peer, owed>>

\* A failed write or a cancelled context ends it, and closes the socket.
SenderReturns(c) ==
    /\ \/ sender[c] = "write" /\ peer[c] = "gone"
       \/ sender[c] = "idle" /\ ctxDone[c]
    /\ sender' = [sender EXCEPT ![c] = "done"]
    /\ ctxDone' = [ctxDone EXCEPT ![c] = TRUE]
    /\ UNCHANGED <<clientVars, metarRequests, job, backlog, peer, owed>>

\* A kill request or a kick over HTTP.
CancelCtx(c) ==
    /\ c \in Leaver /\ ~ctxDone[c]
    /\ ctxDone' = [ctxDone EXCEPT ![c] = TRUE]
    /\ UNCHANGED <<clientVars, metarRequests, job, backlog, sender, peer, owed>>

Stall(c) ==
    /\ c \in Staller /\ peer[c] = "reading"
    /\ peer' = [peer EXCEPT ![c] = "stalled"]
    /\ UNCHANGED <<clientVars, metarRequests, job, backlog, sender, ctxDone, owed>>

\* A peer that stalls may read again, and a peer may go away.
Resume(c) ==
    /\ peer[c] = "stalled"
    /\ peer' = [peer EXCEPT ![c] = "reading"]
    /\ UNCHANGED <<clientVars, metarRequests, job, backlog, sender, ctxDone, owed>>
Vanish(c) ==
    /\ c \in Leaver /\ peer[c] # "gone"
    /\ peer' = [peer EXCEPT ![c] = "gone"]
    /\ UNCHANGED <<clientVars, metarRequests, job, backlog, sender, ctxDone, owed>>

-----------------------------------------------------------------------------
Next ==
    \/ \E c \in Client :
         \/ HandleMetarRequest(c) \/ FetchAndSendMetar(c) \/ GivesUp(c) \/ EventLoopReturns(c)
         \/ OtherPacket(c) \/ SenderTakes(c) \/ SenderWrites(c) \/ SenderReturns(c)
         \/ CancelCtx(c) \/ Stall(c) \/ Resume(c) \/ Vanish(c)
    \/ \E w \in Worker : Take(w) \/ Get(w) \/ SendAnswer(w) \/ SendGivesUp(w)

Spec == Init /\ [][Next]_vars

(* The goroutines go on.  A channel serves whoever waits in turn, hence     *)
(* strong fairness where there is contention.  That Get ends is an          *)
(* assumption: http.Client has no timeout.                                  *)
ServerSpec ==
    /\ Spec
    /\ \A c \in Client :
         /\ SF_vars(FetchAndSendMetar(c)) /\ WF_vars(GivesUp(c)) /\ WF_vars(EventLoopReturns(c))
         /\ WF_vars(SenderTakes(c)) /\ SF_vars(SenderWrites(c)) /\ WF_vars(SenderReturns(c))
    /\ \A w \in Worker :
         WF_vars(Take(w)) /\ WF_vars(Get(w)) /\ SF_vars(SendAnswer(w)) /\ WF_vars(SendGivesUp(w))

-----------------------------------------------------------------------------
\* Types; both channels keep their capacity.
TypeOK ==
    /\ loop \in [Client -> {"scan", "asking", "over"}]
    /\ metarRequests \in Seq(Client) /\ Len(metarRequests) <= QueueCap
    /\ job \in [Worker -> Job \cup {nil}]
    /\ backlog \in [Client -> 0..SendChanCap]
    /\ sender \in [Client -> {"idle", "write", "done"}]
    /\ ctxDone \in [Client -> BOOLEAN]
    /\ peer \in [Client -> {"reading", "stalled", "gone"}]
    /\ asked \in [Client -> Nat] /\ owed \in [Client -> Nat]
    /\ \A c \in Client : owed[c] <= asked[c] /\ asked[c] <= Budget[c]

Waiting(c) == Cardinality({i \in DOMAIN metarRequests : metarRequests[i] = c})
Working(c) == Cardinality({w \in Worker : job[w] # nil /\ job[w].client = c})

(* "sends it to the client once received" (metar.go:115), and every error   *)
(* path calls sendMetarServiceError: a request that has not been answered   *)
(* is in the channel or in a worker's hands, once.                          *)
EveryRequestAnswered == \A c \in Client : owed[c] = Waiting(c) + Working(c)

\* A client's requests end, and its event loop gets through the service.
Served(c) ==
    /\ loop[c] = "asking" ~> loop[c] # "asking"
    /\ owed[c] > 0 ~> owed[c] = 0

(* Every request comes to an end and no event loop waits for the service    *)
(* for good, if every peer that stalls reads again or goes away             *)
(* (fetchAndSendMetar, worker, send).                                       *)
RequestsEnd ==
    (\A c \in Client : []<>(peer[c] # "stalled")) => \A c \in Client : Served(c)

(* Clients that never read hold up no one else while they have fewer        *)
(* requests than there are workers.                                         *)
OthersServed == \A c \in Client \ Staller : Served(c)
=============================================================================

------------------------------ MODULE Dashboard ------------------------------
(***************************************************************************)
(* The dashboard's map (dashboard.js), the datafeed it is drawn from       *)
(* (web/data.go), and the Kick button behind a marker (web/fsdconn.go and  *)
(* the FSD HTTP service).  Three loops run side by side: the worker that   *)
(* refreshes the web server's feed every 15 seconds, the page that fetches *)
(* it every 15 seconds without waiting for the fetch before, and whoever   *)
(* joins and leaves the FSD server.  A JavaScript turn is one action.  A   *)
(* feed is the set of callsigns it lists.                                  *)
(***************************************************************************)
EXTENDS Integers, FiniteSets

CONSTANTS
    Pilot, Atc,   \* callsigns
    Fetch,        \* bound: fetches of the page under way
    Rating,       \* what loadUserInfo may find
    nil,
    MaxJoin       \* bound: clients that ever join

Callsign == Pilot \cup Atc
Feed == SUBSET Callsign

ASSUME CallsignAssumption ==
    /\ nil \notin Callsign
    /\ Pilot \cap Atc = {} /\ IsFiniteSet(Callsign)
ASSUME BoundAssumption == MaxJoin \in Nat /\ Rating \subseteq Int /\ nil \notin Rating

VARIABLES
    online,     \* the FSD server's clientMap
    cancelled,  \* those of them whose context is cancelled
    joins,      \* counter for the bound
    worker,     \* runDatafeedWorker: "idle", "asked", "gathered"
    gathered,   \* the online users it was answered
    cache,      \* datafeedCache
    page,       \* how far the page's start has come
    rating,     \* userNetworkRating
    fetch,      \* populateMap's fetches: "idle", "asked", "answered", "failed"
    got,        \* what they were answered
    markers,    \* dashboardMarkers
    layers,     \* markers on the map, by callsign
    count,      \* "... users connected"
    open,       \* the marker whose popup is open
    kick,       \* how far the kick has come, in the page and the web server
    victim,     \* its callsign
    answer,     \* what the web server says to it: "ok", "failed", "empty"
    service,    \* the FSD service's handler of it
    target,     \* the session it found: "none", still "here", or "left"
    drawn,      \* history: the feed the map was drawn from
    past        \* history: the sets of clients there were

clients == <<online, cancelled, joins, past>>
feed == <<worker, gathered, cache>>
map == <<page, rating, fetch, got, markers, layers, count, open, drawn>>
kicking == <<kick, victim, answer, service, target>>
vars == <<clients, feed, map, kicking>>

Init ==
    /\ online = {} /\ cancelled = {} /\ joins = 0 /\ past = {{}}
    /\ worker = "idle" /\ gathered = nil /\ cache = nil
    /\ page = "loading" /\ rating = nil
    /\ fetch = [f \in Fetch |-> "idle"] /\ got = [f \in Fetch |-> nil]
    /\ markers = {} /\ layers = [c \in Pilot |-> 0] /\ count = 0
    /\ open = nil /\ drawn = nil
    /\ kick = "idle" /\ victim = nil /\ answer = "none"
    /\ service = "idle" /\ target = "none"

-----------------------------------------------------------------------------
(* Clients of the FSD server; PostOffice has what they do there. *)
Join(c) ==
    /\ c \notin online /\ joins < MaxJoin
    /\ online' = online \cup {c}
    /\ past' = past \cup {online'}
    /\ joins' = joins + 1
    /\ UNCHANGED <<cancelled, feed, map, kicking>>

Leave(c) ==
    /\ c \in online
    /\ online' = online \ {c}
    /\ cancelled' = cancelled \ {c}
    /\ target' = IF c = victim /\ target = "here" THEN "left" ELSE target
    /\ past' = past \cup {online'}
    /\ UNCHANGED <<joins, feed, map, kick, victim, answer, service>>

-----------------------------------------------------------------------------
(* runDatafeedWorker: at once, then with every tick.  The next update waits *)
(* for the one before: it is the same goroutine.                            *)
Tick ==
    /\ worker = "idle"
    /\ worker' = "asked"
    /\ UNCHANGED <<gathered, cache, clients, map, kicking>>

\* handleGetOnlineUsers, which copies the clients under the lock.
GetOnlineUsers ==
    /\ worker = "asked"
    /\ worker' = "gathered"
    /\ gathered' = online
    /\ UNCHANGED <<cache, clients, map, kicking>>

\* Fault: an error ends the worker's loop.
StopWorker ==
    /\ worker \in {"asked", "gathered"}
    /\ worker' = "stopped"
    /\ gathered' = nil
    /\ UNCHANGED <<cache, clients, map, kicking>>
\* Any error on the way is logged, and the feed before stays.
UpdateFail ==
    /\ worker \in {"asked", "gathered"}
    /\ worker' = "idle"
    /\ gathered' = nil
    /\ UNCHANGED <<cache, clients, map, kicking>>

\* Fault: the users are appended to the feed of the update before.
AppendDataFeedCache ==
    /\ worker = "gathered"
    /\ worker' = "idle"
    /\ cache' = IF cache = nil THEN gathered ELSE cache \cup gathered
    /\ gathered' = nil
    /\ UNCHANGED <<clients, map, kicking>>
UpdateDataFeedCache ==
    /\ worker = "gathered"
    /\ worker' = "idle"
    /\ cache' = gathered
    /\ gathered' = nil
    /\ UNCHANGED <<clients, map, kicking>>

-----------------------------------------------------------------------------
(* The page. *)
LoadUserInfo(r) ==
    /\ page = "loading"
    /\ page' = "drawing"
    /\ rating' = r
    /\ UNCHANGED <<fetch, got, markers, layers, count, open, drawn, clients, feed, kicking>>

\* What loadUserInfo throws ends the page's start: there is no map at all.
LoadFail ==
    /\ page = "loading"
    /\ page' = "broken"
    /\ UNCHANGED <<rating, fetch, got, markers, layers, count, open, drawn,
                   clients, feed, kicking>>

\* Once at the start, which waits for it; then with every interval.
PopulateMap(f) ==
    /\ \/ page = "running"
       \/ page = "drawing" /\ \A g \in Fetch : fetch[g] = "idle"
    /\ fetch[f] = "idle"
    /\ fetch' = [fetch EXCEPT ![f] = "asked"]
    /\ UNCHANGED <<page, rating, got, markers, layers, count, open, drawn,
                   clients, feed, kicking>>

\* 500 as long as there is no feed.
GetDatafeed(f) ==
    /\ fetch[f] = "asked"
    /\ fetch' = [fetch EXCEPT ![f] = IF cache = nil THEN "failed" ELSE "answered"]
    /\ got' = [got EXCEPT ![f] = cache]
    /\ UNCHANGED <<page, rating, markers, layers, count, open, drawn,
                   clients, feed, kicking>>

FetchFail(f) ==
    /\ fetch[f] = "asked"
    /\ fetch' = [fetch EXCEPT ![f] = "failed"]
    /\ UNCHANGED <<page, rating, got, markers, layers, count, open, drawn,
                   clients, feed, kicking>>

\* Fault: nothing catches what the first fetch throws, and no interval is set.
PopulateThrows(f) ==
    /\ fetch[f] = "failed"
    /\ fetch' = [fetch EXCEPT ![f] = "idle"]
    /\ page' = IF page = "drawing" THEN "broken" ELSE page
    /\ UNCHANGED <<rating, got, markers, layers, count, open, drawn,
                   clients, feed, kicking>>
\* The map stays as it is; the first populateMap ends with an error as well.
PopulateFail(f) ==
    /\ fetch[f] = "failed"
    /\ fetch' = [fetch EXCEPT ![f] = "idle"]
    /\ page' = "running"
    /\ UNCHANGED <<rating, got, markers, layers, count, open, drawn,
                   clients, feed, kicking>>

\* Fault: the markers of the list before stay on the map.
Kept == layers
Removed == [c \in Pilot |-> IF c \in markers THEN layers[c] - 1 ELSE layers[c]]

\* Fault: the open popups are looked up after the markers are gone.
NoneOpen(pilots) == nil
\* Taking the markers off closes their popup; the new marker of the same
\* callsign opens it again.
Reopened(pilots) == IF open \in markers /\ open \in pilots THEN open ELSE nil

\* The rest of populateMap, in one turn.
PopulateDone(f) ==
    /\ fetch[f] = "answered"
    /\ LET pilots == got[f] \cap Pilot IN
         /\ markers' = pilots
         /\ layers' = [c \in Pilot |-> IF c \in pilots THEN Removed[c] + 1
                                                       ELSE Removed[c]]
         /\ count' = Cardinality(pilots)
         /\ open' = Reopened(pilots)
    /\ drawn' = got[f]
    /\ fetch' = [fetch EXCEPT ![f] = "idle"]
    /\ got' = [got EXCEPT ![f] = nil]
    /\ page' = "running"
    /\ UNCHANGED <<rating, clients, feed, kicking>>

\* The map shows one popup at a time.
OpenPopup(c) ==
    /\ c \in markers /\ open # c
    /\ open' = c
    /\ UNCHANGED <<page, rating, fetch, got, markers, layers, count, drawn,
                   clients, feed, kicking>>

ClosePopup ==
    /\ open # nil
    /\ open' = nil
    /\ UNCHANGED <<page, rating, fetch, got, markers, layers, count, drawn,
                   clients, feed, kicking>>

-----------------------------------------------------------------------------
(* The Kick button, which a popup has for supervisors.  Bound: one kick at  *)
(* a time, its handler in the FSD service included.                         *)
KickUser ==
    /\ kick = "idle" /\ service = "idle"
    /\ open # nil /\ rating >= 11
    /\ kick' = "asked"
    /\ victim' = open
    /\ UNCHANGED <<answer, service, target, clients, feed, map>>

Answer(a) ==
    /\ kick' = "answered" /\ answer' = a
    /\ UNCHANGED <<victim, target, clients, feed, map>>

\* 401 or 403: the token is not the one the page was started with.
KickRefused == kick = "asked" /\ Answer("failed") /\ UNCHANGED service

\* The web server makes its own request.
KickSend ==
    /\ kick = "asked" /\ kick' = "sent"
    /\ service' = "asked"
    /\ UNCHANGED <<victim, answer, target, clients, feed, map>>

\* Nothing knows of the kick any more.
Forget == victim' = nil /\ target' = "none"

\* The FSD service's handler ends with s, if the web server still waits for it.
FsdEnds(s) ==
    /\ \/ kick = "sent" /\ service' = s /\ UNCHANGED <<victim, target>>
       \/ kick = "answered" /\ service' = "idle" /\ UNCHANGED <<victim, target>>
       \/ kick = "idle" /\ service' = "idle" /\ Forget
    /\ UNCHANGED <<kick, answer, online, joins, past, feed, map>>

\* find takes the lock for the lookup alone.
FsdFind ==
    /\ service = "asked" /\ victim \in online
    /\ service' = "found" /\ target' = "here"
    /\ UNCHANGED <<kick, victim, answer, clients, feed, map>>

\* Nobody of that name; or any other refusal, as for a token signed with a
\* secret that is reset; or, with nobody waiting, the request never came.
FsdFail == service = "asked" /\ FsdEnds("failed") /\ UNCHANGED cancelled

\* The context of what was found is cancelled, whether it is still there or not.
FsdCancel ==
    /\ service = "found" /\ FsdEnds("cut")
    /\ cancelled' = IF target = "here" THEN cancelled \cup {victim} ELSE cancelled

\* Its status becomes the web server's.
KickAnswered ==
    /\ kick = "sent" /\ service' = "idle"
    /\ \/ service = "cut" /\ Answer("ok")
       \/ service = "failed" /\ Answer("failed")

\* No request, or no answer to it: the handler returns, and the browser gets
\* 200 without a body.  The FSD service may be at it all the same.
KickUnreachable ==
    /\ kick \in {"asked", "sent"}
    /\ Answer("empty")
    /\ service' = IF service \in {"cut", "failed"} THEN "idle" ELSE service

\* Fault: every 200 is a success; the body is not asked for.
Resolves2xx(a) == a \in {"ok", "empty"}
\* With dataType "json" an empty body is an error to jQuery, like any 4xx or 5xx.
Resolves(a) == a = "ok"
Says(message) ==
    /\ kick = "answered"
    /\ message = IF Resolves(answer) THEN "User kicked successfully"
                                     ELSE "Failed to kick user"

\* The alert.
KickDone ==
    /\ kick = "answered"
    /\ kick' = "idle" /\ answer' = "none"
    /\ IF service = "idle" THEN Forget ELSE UNCHANGED <<victim, target>>
    /\ UNCHANGED <<service, clients, feed, map>>

-----------------------------------------------------------------------------
Next ==
    \/ \E c \in Callsign : Join(c) \/ Leave(c)
    \/ Tick \/ GetOnlineUsers \/ UpdateFail \/ UpdateDataFeedCache
    \/ \E r \in Rating : LoadUserInfo(r)
    \/ LoadFail
    \/ \E f \in Fetch : \/ PopulateMap(f) \/ GetDatafeed(f) \/ FetchFail(f)
                        \/ PopulateFail(f) \/ PopulateDone(f)
    \/ \E c \in Pilot : OpenPopup(c)
    \/ ClosePopup
    \/ KickUser \/ KickRefused \/ KickSend \/ FsdFind \/ FsdFail \/ FsdCancel
    \/ KickAnswered \/ KickUnreachable \/ KickDone

Spec == Init /\ [][Next]_vars

(* The two timers go on, a request ends, and one that is made again and     *)
(* again is answered some time.                                             *)
Fairness ==
    /\ WF_vars(Tick) /\ SF_vars(GetOnlineUsers) /\ SF_vars(UpdateDataFeedCache)
    /\ WF_vars(UpdateFail)
    /\ \A f \in Fetch :
         /\ WF_vars(PopulateMap(f)) /\ WF_vars(FetchFail(f)) /\ SF_vars(GetDatafeed(f))
         /\ WF_vars(PopulateFail(f)) /\ WF_vars(PopulateDone(f))
LiveSpec == Spec /\ Fairness

-----------------------------------------------------------------------------
\* Types, by part.
ClientTypes ==
    /\ online \subseteq Callsign /\ cancelled \subseteq Callsign
    /\ joins \in 0..MaxJoin /\ past \subseteq Feed
FeedTypes ==
    /\ worker \in {"idle", "asked", "gathered"}
    /\ gathered \in Feed \cup {nil} /\ cache \in Feed \cup {nil}
MapTypes ==
    /\ page \in {"loading", "drawing", "running", "broken"}
    /\ rating \in Rating \cup {nil}
    /\ fetch \in [Fetch -> {"idle", "asked", "answered", "failed"}]
    /\ got \in [Fetch -> Feed \cup {nil}]
    /\ markers \subseteq Pilot /\ layers \in [Pilot -> Nat] /\ count \in Nat
    /\ open \in Pilot \cup {nil} /\ drawn \in Feed \cup {nil}
KickTypes ==
    /\ kick \in {"idle", "asked", "sent", "answered"}
    /\ victim \in Pilot \cup {nil}
    /\ answer \in {"none", "ok", "failed", "empty"}
    /\ service \in {"idle", "asked", "found", "cut", "failed"}
    /\ target \in {"none", "here", "left"}
\* The types of all variables.
TypeOK == ClientTypes /\ FeedTypes /\ MapTypes /\ KickTypes

(* Fetches that overlap leave no marker behind: there is one marker for     *)
(* each pilot of the list, none for others, and only those are counted      *)
(* (dashboard.js:90-124).                                                   *)
OneMarkerEach ==
    /\ \A c \in Pilot : layers[c] = IF c \in markers THEN 1 ELSE 0
    /\ count = Cardinality(markers)

(* The map shows the pilots who were online together at some moment, never  *)
(* a mixture of two: they passed through worker, cache and a fetch that may *)
(* have been overtaken.                                                     *)
MapWasTrue == drawn # nil => drawn \in past /\ markers = drawn \cap Pilot

(* "User kicked successfully" (dashboard.js:6) is said only of a session    *)
(* that the FSD service has found since the button was pressed and that is  *)
(* gone or has its context cancelled, whatever was lost between the two     *)
(* servers and whoever took the callsign over.  That a cancelled session    *)
(* ends is PostOffice's CancelledLeaves.                                    *)
KickTookEffect ==
    target = "left" \/ (target = "here" /\ victim \in cancelled)
SuccessMeansCancelled == Says("User kicked successfully") => KickTookEffect

(* "If this callsign was open before, open its popup" (dashboard.js:119): a *)
(* refresh that shows another feed closes a popup only with its pilot gone. *)
PopupKept ==
    [][\A c \in Pilot : open = c /\ c \in markers' /\ drawn' # drawn => open' = c]_vars

(* Once nobody joins or leaves any more, the map comes to show who is there *)
(* and stays so, whatever fetches have failed and whatever older answers    *)
(* are still to come; the page must have learnt who its user is.            *)
MapCatchesUp ==
    <>[][FALSE]_online /\ <>(page = "drawing") => <>[](markers = online \cap Pilot)
=============================================================================

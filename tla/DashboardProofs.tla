--------------------------- MODULE DashboardProofs ---------------------------
(***************************************************************************)
(* Theorems about Dashboard, for any number of clients, joins and fetches  *)
(* under way.  The inductive invariant says of every feed on its way, in   *)
(* the worker, the cache and the fetches, what MapWasTrue says of the map. *)
(***************************************************************************)
EXTENDS Dashboard, FiniteSetTheorems, TLAPS

\* Every feed on the way lists clients who were online together.
SeenInv ==
    /\ online \in past
    /\ worker = "gathered" => gathered \in past
    /\ cache # nil => cache \in past
    /\ \A f \in Fetch : fetch[f] = "answered" => got[f] \in past
    /\ MapWasTrue

\* A popup belongs to a marker of the list.
PopupInv == open # nil => open \in markers

\* A session found is in the map until it leaves; a success on its way to the
\* page comes from a kick that took effect.
KickInv ==
    /\ kick # "answered" => answer = "none"
    /\ kick = "asked" => service = "idle"
    /\ kick = "idle" /\ service = "idle" => target = "none"
    /\ target = "here" => victim \in online
    /\ service = "found" => target \in {"here", "left"}
    /\ answer = "ok" => service = "idle"
    /\ service = "cut" \/ answer = "ok" => KickTookEffect

Inv == TypeOK /\ SeenInv /\ OneMarkerEach /\ PopupInv /\ KickInv

LEMMA InitInv == Init => Inv
<1> SUFFICES ASSUME Init PROVE Inv
  OBVIOUS
<1>1. TypeOK
  <2>1. ClientTypes
    BY BoundAssumption DEF Init, ClientTypes, Feed
  <2>2. FeedTypes /\ MapTypes
    BY DEF Init, FeedTypes, MapTypes
  <2>3. KickTypes
    BY DEF Init, KickTypes
  <2> QED
    BY <2>1, <2>2, <2>3 DEF TypeOK
<1>2. SeenInv /\ PopupInv /\ KickInv
  BY DEF Init, SeenInv, MapWasTrue, PopupInv, KickInv, KickTookEffect
<1>3. OneMarkerEach
  BY FS_EmptySet DEF Init, OneMarkerEach
<1> QED
  BY <1>1, <1>2, <1>3 DEF Inv

\* A step that leaves a part of the state alone leaves what is said of it.
LEMMA KeepClients == ClientTypes /\ UNCHANGED clients => ClientTypes'
  BY DEF ClientTypes, clients
LEMMA KeepFeed == FeedTypes /\ UNCHANGED feed => FeedTypes'
  BY DEF FeedTypes, feed
LEMMA KeepMap ==
    /\ MapTypes /\ UNCHANGED map => MapTypes'
    /\ OneMarkerEach /\ UNCHANGED map => OneMarkerEach'
    /\ PopupInv /\ UNCHANGED map => PopupInv'
<1>1. MapTypes /\ UNCHANGED map => MapTypes'
  BY DEF MapTypes, map
<1>2. OneMarkerEach /\ UNCHANGED map => OneMarkerEach'
  BY DEF OneMarkerEach, map
<1>3. PopupInv /\ UNCHANGED map => PopupInv'
  BY DEF PopupInv, map
<1> QED
  BY <1>1, <1>2, <1>3
LEMMA KeepKick ==
    /\ KickTypes /\ UNCHANGED kicking => KickTypes'
    /\ KickInv /\ UNCHANGED <<kicking, clients>> => KickInv'
<1>1. KickTypes /\ UNCHANGED kicking => KickTypes'
  BY DEF KickTypes, kicking
<1>2. UNCHANGED <<kicking, clients>> =>
        /\ kick' = kick /\ answer' = answer /\ service' = service
        /\ target' = target /\ victim' = victim
        /\ online' = online /\ cancelled' = cancelled
  BY DEF kicking, clients
<1>3. UNCHANGED <<kicking, clients>> => (KickTookEffect' <=> KickTookEffect)
  BY <1>2 DEF KickTookEffect
<1>4. ASSUME KickInv, UNCHANGED <<kicking, clients>> PROVE KickInv'
  <2>1. service' = "cut" \/ answer' = "ok" => KickTookEffect'
    BY <1>2, <1>3, <1>4, Zenon DEF KickInv
  <2> QED
    BY <1>2, <1>4, <2>1 DEF KickInv
<1> QED
  BY <1>1, <1>4

LEMMA NextInv == Inv /\ [Next]_vars => Inv'
<1> SUFFICES ASSUME Inv, [Next]_vars PROVE Inv'
  OBVIOUS
<1> USE BoundAssumption
<1>1. ASSUME NEW c \in Callsign, Join(c) PROVE Inv'
  <2>1. UNCHANGED <<feed, map, kicking>>
    BY <1>1 DEF Join
  <2>2. FeedTypes' /\ MapTypes' /\ KickTypes' /\ OneMarkerEach' /\ PopupInv'
    BY <2>1, KeepFeed, KeepMap, KeepKick DEF Inv, TypeOK
  <2>3. ClientTypes'
    BY <1>1 DEF Join, Inv, TypeOK, ClientTypes, Feed
  <2>4. SeenInv'
    BY <1>1 DEF Join, clients, feed, map, Inv, TypeOK, FeedTypes, MapTypes, SeenInv, MapWasTrue
  <2>5. KickInv'
    BY <1>1 DEF Join, kicking, Inv, KickInv, KickTookEffect
  <2> QED
    BY <2>2, <2>3, <2>4, <2>5 DEF Inv, TypeOK
<1>2. ASSUME NEW c \in Callsign, Leave(c) PROVE Inv'
  <2>1. UNCHANGED <<feed, map>>
    BY <1>2 DEF Leave
  <2>2. FeedTypes' /\ MapTypes' /\ OneMarkerEach' /\ PopupInv'
    BY <2>1, KeepFeed, KeepMap DEF Inv, TypeOK
  <2>3. ClientTypes' /\ KickTypes'
    BY <1>2 DEF Leave, Inv, TypeOK, ClientTypes, KickTypes, Feed
  <2>4. SeenInv'
    BY <1>2 DEF Leave, clients, feed, map, Inv, TypeOK, FeedTypes, MapTypes, SeenInv, MapWasTrue
  <2>5. KickInv'
    <3>1. /\ online' = online \ {c} /\ cancelled' = cancelled \ {c}
          /\ target' = IF c = victim /\ target = "here" THEN "left" ELSE target
          /\ kick' = kick /\ victim' = victim /\ answer' = answer
          /\ service' = service
      BY <1>2 DEF Leave
    <3>2. KickTookEffect => KickTookEffect'
      BY <3>1 DEF KickTookEffect
    <3> QED
      BY <3>1, <3>2 DEF Inv, KickInv
  <2> QED
    BY <2>2, <2>3, <2>4, <2>5 DEF Inv, TypeOK
<1>3. ASSUME Tick PROVE Inv'
  <2>1. UNCHANGED <<clients, map, kicking>>
    BY <1>3 DEF Tick
  <2>2. ClientTypes' /\ MapTypes' /\ KickTypes' /\ OneMarkerEach' /\ PopupInv' /\ KickInv'
    BY <2>1, KeepClients, KeepMap, KeepKick DEF Inv, TypeOK
  <2>3. FeedTypes'
    BY <1>3 DEF Tick, Inv, TypeOK, FeedTypes
  <2>4. SeenInv'
    BY <1>3 DEF Tick, clients, feed, map, Inv, TypeOK, FeedTypes, MapTypes, SeenInv, MapWasTrue
  <2> QED
    BY <2>2, <2>3, <2>4 DEF Inv, TypeOK
<1>4. ASSUME GetOnlineUsers PROVE Inv'
  <2>1. UNCHANGED <<clients, map, kicking>>
    BY <1>4 DEF GetOnlineUsers
  <2>2. ClientTypes' /\ MapTypes' /\ KickTypes' /\ OneMarkerEach' /\ PopupInv' /\ KickInv'
    BY <2>1, KeepClients, KeepMap, KeepKick DEF Inv, TypeOK
  <2>3. FeedTypes'
    BY <1>4 DEF GetOnlineUsers, Inv, TypeOK, FeedTypes, ClientTypes, Feed
  <2>4. SeenInv'
    BY <1>4 DEF GetOnlineUsers, clients, feed, map, Inv, TypeOK, FeedTypes, MapTypes, SeenInv, MapWasTrue
  <2> QED
    BY <2>2, <2>3, <2>4 DEF Inv, TypeOK
<1>5. ASSUME UpdateFail PROVE Inv'
  <2>1. UNCHANGED <<clients, map, kicking>>
    BY <1>5 DEF UpdateFail
  <2>2. ClientTypes' /\ MapTypes' /\ KickTypes' /\ OneMarkerEach' /\ PopupInv' /\ KickInv'
    BY <2>1, KeepClients, KeepMap, KeepKick DEF Inv, TypeOK
  <2>3. FeedTypes'
    BY <1>5 DEF UpdateFail, Inv, TypeOK, FeedTypes
  <2>4. SeenInv'
    BY <1>5 DEF UpdateFail, clients, feed, map, Inv, TypeOK, FeedTypes, MapTypes, SeenInv, MapWasTrue
  <2> QED
    BY <2>2, <2>3, <2>4 DEF Inv, TypeOK
<1>6. ASSUME UpdateDataFeedCache PROVE Inv'
  <2>1. UNCHANGED <<clients, map, kicking>>
    BY <1>6 DEF UpdateDataFeedCache
  <2>2. ClientTypes' /\ MapTypes' /\ KickTypes' /\ OneMarkerEach' /\ PopupInv' /\ KickInv'
    BY <2>1, KeepClients, KeepMap, KeepKick DEF Inv, TypeOK
  <2>3. FeedTypes'
    BY <1>6 DEF UpdateDataFeedCache, Inv, TypeOK, FeedTypes
  <2>4. SeenInv'
    BY <1>6 DEF UpdateDataFeedCache, clients, feed, map, Inv, TypeOK, FeedTypes, MapTypes, SeenInv, MapWasTrue
  <2> QED
    BY <2>2, <2>3, <2>4 DEF Inv, TypeOK
<1>7. ASSUME NEW r \in Rating, LoadUserInfo(r) PROVE Inv'
  <2>1. UNCHANGED <<clients, feed, kicking>>
    BY <1>7 DEF LoadUserInfo
  <2>2. ClientTypes' /\ FeedTypes' /\ KickTypes' /\ KickInv'
    BY <2>1, KeepClients, KeepFeed, KeepKick DEF Inv, TypeOK
  <2>3. MapTypes'
    BY <1>7 DEF LoadUserInfo, Inv, TypeOK, MapTypes
  <2>4. SeenInv'
    BY <1>7 DEF LoadUserInfo, clients, feed, map, Inv, TypeOK, FeedTypes, MapTypes, SeenInv, MapWasTrue
  <2>5. OneMarkerEach' /\ PopupInv'
    BY <1>7 DEF LoadUserInfo, Inv, OneMarkerEach, PopupInv
  <2> QED
    BY <2>2, <2>3, <2>4, <2>5 DEF Inv, TypeOK
<1>8. ASSUME LoadFail PROVE Inv'
  <2>1. UNCHANGED <<clients, feed, kicking>>
    BY <1>8 DEF LoadFail
  <2>2. ClientTypes' /\ FeedTypes' /\ KickTypes' /\ KickInv'
    BY <2>1, KeepClients, KeepFeed, KeepKick DEF Inv, TypeOK
  <2>3. MapTypes'
    BY <1>8 DEF LoadFail, Inv, TypeOK, MapTypes
  <2>4. SeenInv'
    BY <1>8 DEF LoadFail, clients, feed, map, Inv, TypeOK, FeedTypes, MapTypes, SeenInv, MapWasTrue
  <2>5. OneMarkerEach' /\ PopupInv'
    BY <1>8 DEF LoadFail, Inv, OneMarkerEach, PopupInv
  <2> QED
    BY <2>2, <2>3, <2>4, <2>5 DEF Inv, TypeOK
<1>9. ASSUME NEW f \in Fetch, PopulateMap(f) PROVE Inv'
  <2>1. UNCHANGED <<clients, feed, kicking>>
    BY <1>9 DEF PopulateMap
  <2>2. ClientTypes' /\ FeedTypes' /\ KickTypes' /\ KickInv'
    BY <2>1, KeepClients, KeepFeed, KeepKick DEF Inv, TypeOK
  <2>3. MapTypes'
    BY <1>9 DEF PopulateMap, Inv, TypeOK, MapTypes
  <2>4. SeenInv'
    BY <1>9 DEF PopulateMap, clients, feed, map, Inv, TypeOK, FeedTypes, MapTypes, SeenInv, MapWasTrue
  <2>5. OneMarkerEach' /\ PopupInv'
    BY <1>9 DEF PopulateMap, Inv, OneMarkerEach, PopupInv
  <2> QED
    BY <2>2, <2>3, <2>4, <2>5 DEF Inv, TypeOK
<1>10. ASSUME NEW f \in Fetch, GetDatafeed(f) PROVE Inv'
  <2>1. UNCHANGED <<clients, feed, kicking>>
    BY <1>10 DEF GetDatafeed
  <2>2. ClientTypes' /\ FeedTypes' /\ KickTypes' /\ KickInv'
    BY <2>1, KeepClients, KeepFeed, KeepKick DEF Inv, TypeOK
  <2>3. MapTypes'
    BY <1>10 DEF GetDatafeed, Inv, TypeOK, MapTypes, FeedTypes
  <2>4. SeenInv'
    BY <1>10 DEF GetDatafeed, clients, feed, map, Inv, TypeOK, FeedTypes, MapTypes, SeenInv, MapWasTrue
  <2>5. OneMarkerEach' /\ PopupInv'
    BY <1>10 DEF GetDatafeed, Inv, OneMarkerEach, PopupInv
  <2> QED
    BY <2>2, <2>3, <2>4, <2>5 DEF Inv, TypeOK
<1>11. ASSUME NEW f \in Fetch, FetchFail(f) PROVE Inv'
  <2>1. UNCHANGED <<clients, feed, kicking>>
    BY <1>11 DEF FetchFail
  <2>2. ClientTypes' /\ FeedTypes' /\ KickTypes' /\ KickInv'
    BY <2>1, KeepClients, KeepFeed, KeepKick DEF Inv, TypeOK
  <2>3. MapTypes'
    BY <1>11 DEF FetchFail, Inv, TypeOK, MapTypes
  <2>4. SeenInv'
    BY <1>11 DEF FetchFail, clients, feed, map, Inv, TypeOK, FeedTypes, MapTypes, SeenInv, MapWasTrue
  <2>5. OneMarkerEach' /\ PopupInv'
    BY <1>11 DEF FetchFail, Inv, OneMarkerEach, PopupInv
  <2> QED
    BY <2>2, <2>3, <2>4, <2>5 DEF Inv, TypeOK
<1>12. ASSUME NEW f \in Fetch, PopulateFail(f) PROVE Inv'
  <2>1. UNCHANGED <<clients, feed, kicking>>
    BY <1>12 DEF PopulateFail
  <2>2. ClientTypes' /\ FeedTypes' /\ KickTypes' /\ KickInv'
    BY <2>1, KeepClients, KeepFeed, KeepKick DEF Inv, TypeOK
  <2>3. MapTypes'
    BY <1>12 DEF PopulateFail, Inv, TypeOK, MapTypes
  <2>4. SeenInv'
    BY <1>12 DEF PopulateFail, clients, feed, map, Inv, TypeOK, FeedTypes, MapTypes, SeenInv, MapWasTrue
  <2>5. OneMarkerEach' /\ PopupInv'
    BY <1>12 DEF PopulateFail, Inv, OneMarkerEach, PopupInv
  <2> QED
    BY <2>2, <2>3, <2>4, <2>5 DEF Inv, TypeOK
<1>13. ASSUME NEW f \in Fetch, PopulateDone(f) PROVE Inv'
  <2> DEFINE pilots == got[f] \cap Pilot
  <2>1. got[f] \in past /\ got[f] \in Feed
    BY <1>13 DEF PopulateDone, Inv, TypeOK, ClientTypes, SeenInv
  <2>2. IsFiniteSet(pilots) /\ Cardinality(pilots) \in Nat
    BY CallsignAssumption, FS_Subset, FS_CardinalityType DEF Callsign
  <2>3. \A c \in Pilot : Removed[c] = 0
    BY DEF Removed, Inv, TypeOK, OneMarkerEach
  <2>4. layers' = [c \in Pilot |-> IF c \in pilots THEN 1 ELSE 0]
    BY <1>13, <2>3 DEF PopulateDone
  <2>5. /\ markers' = pilots /\ count' = Cardinality(pilots)
        /\ open' = Reopened(pilots) /\ drawn' = got[f]
        /\ fetch' = [fetch EXCEPT ![f] = "idle"] /\ got' = [got EXCEPT ![f] = nil]
        /\ page' = "running" /\ rating' = rating
    BY <1>13 DEF PopulateDone
  <2>6. UNCHANGED <<clients, feed, kicking>>
    BY <1>13 DEF PopulateDone
  <2>7. pilots \subseteq Pilot
    OBVIOUS
  <2>8. open' \in pilots \cup {nil}
    BY <2>5 DEF Reopened
  <2> HIDE DEF pilots
  <2>9. MapTypes'
    <3>1. layers' \in [Pilot -> Nat]
      BY <2>4
    <3>2. open' \in Pilot \cup {nil} /\ markers' \subseteq Pilot
      BY <2>5, <2>7, <2>8
    <3> QED
      BY <2>1, <2>2, <2>5, <3>1, <3>2 DEF Inv, TypeOK, MapTypes
  <2>10. ClientTypes' /\ FeedTypes' /\ KickTypes' /\ KickInv'
    BY <2>6, KeepClients, KeepFeed, KeepKick DEF Inv, TypeOK
  <2>11. SeenInv'
    BY <2>1, <2>5, <2>6 DEF pilots, clients, feed, Inv, TypeOK, MapTypes, SeenInv, MapWasTrue
  <2>12. OneMarkerEach' /\ PopupInv'
    BY <2>4, <2>5, <2>7, <2>8 DEF OneMarkerEach, PopupInv
  <2> QED
    BY <2>9, <2>10, <2>11, <2>12 DEF Inv, TypeOK
<1>14. ASSUME NEW c \in Pilot, OpenPopup(c) PROVE Inv'
  <2>1. UNCHANGED <<clients, feed, kicking>>
    BY <1>14 DEF OpenPopup
  <2>2. ClientTypes' /\ FeedTypes' /\ KickTypes' /\ KickInv'
    BY <2>1, KeepClients, KeepFeed, KeepKick DEF Inv, TypeOK
  <2>3. MapTypes'
    BY <1>14 DEF OpenPopup, Inv, TypeOK, MapTypes
  <2>4. SeenInv'
    BY <1>14 DEF OpenPopup, clients, feed, map, Inv, TypeOK, FeedTypes, MapTypes, SeenInv, MapWasTrue
  <2>5. OneMarkerEach' /\ PopupInv'
    BY <1>14 DEF OpenPopup, Inv, OneMarkerEach, PopupInv
  <2> QED
    BY <2>2, <2>3, <2>4, <2>5 DEF Inv, TypeOK
<1>15. ASSUME ClosePopup PROVE Inv'
  <2>1. UNCHANGED <<clients, feed, kicking>>
    BY <1>15 DEF ClosePopup
  <2>2. ClientTypes' /\ FeedTypes' /\ KickTypes' /\ KickInv'
    BY <2>1, KeepClients, KeepFeed, KeepKick DEF Inv, TypeOK
  <2>3. MapTypes'
    BY <1>15 DEF ClosePopup, Inv, TypeOK, MapTypes
  <2>4. SeenInv'
    BY <1>15 DEF ClosePopup, clients, feed, map, Inv, TypeOK, FeedTypes, MapTypes, SeenInv, MapWasTrue
  <2>5. OneMarkerEach' /\ PopupInv'
    BY <1>15 DEF ClosePopup, Inv, OneMarkerEach, PopupInv
  <2> QED
    BY <2>2, <2>3, <2>4, <2>5 DEF Inv, TypeOK
<1>16. ASSUME KickUser PROVE Inv'
  <2>1. UNCHANGED <<clients, feed, map>>
    BY <1>16 DEF KickUser, clients, map
  <2>2. ClientTypes' /\ FeedTypes' /\ MapTypes' /\ OneMarkerEach' /\ PopupInv'
    BY <2>1, KeepClients, KeepFeed, KeepMap DEF Inv, TypeOK
  <2>3. SeenInv'
    BY <2>1 DEF clients, feed, map, Inv, SeenInv, MapWasTrue
  <2>4. KickTypes'
    BY <1>16 DEF KickUser, Inv, TypeOK, KickTypes, MapTypes
  <2>5. KickInv'
    BY <1>16, <2>1 DEF KickUser, clients, Inv, KickInv, KickTookEffect
  <2> QED
    BY <2>2, <2>3, <2>4, <2>5 DEF Inv, TypeOK
<1>17. ASSUME KickRefused \/ KickUnreachable PROVE Inv'
  <2>1. UNCHANGED <<clients, feed, map>>
    BY <1>17 DEF KickRefused, KickUnreachable, Answer, clients, map
  <2>2. ClientTypes' /\ FeedTypes' /\ MapTypes' /\ OneMarkerEach' /\ PopupInv'
    BY <2>1, KeepClients, KeepFeed, KeepMap DEF Inv, TypeOK
  <2>3. SeenInv'
    BY <2>1 DEF clients, feed, map, Inv, SeenInv, MapWasTrue
  <2>4. KickTypes'
    BY <1>17 DEF KickRefused, KickUnreachable, Answer, Inv, TypeOK, KickTypes
  <2>5. KickInv'
    BY <1>17, <2>1 DEF KickRefused, KickUnreachable, Answer, clients, Inv, KickInv, KickTookEffect
  <2> QED
    BY <2>2, <2>3, <2>4, <2>5 DEF Inv, TypeOK
<1>18. ASSUME KickSend PROVE Inv'
  <2>1. UNCHANGED <<clients, feed, map>>
    BY <1>18 DEF KickSend, clients, map
  <2>2. ClientTypes' /\ FeedTypes' /\ MapTypes' /\ OneMarkerEach' /\ PopupInv'
    BY <2>1, KeepClients, KeepFeed, KeepMap DEF Inv, TypeOK
  <2>3. SeenInv'
    BY <2>1 DEF clients, feed, map, Inv, SeenInv, MapWasTrue
  <2>4. KickTypes'
    BY <1>18 DEF KickSend, Inv, TypeOK, KickTypes
  <2>5. KickInv'
    BY <1>18, <2>1 DEF KickSend, clients, Inv, KickInv, KickTookEffect
  <2> QED
    BY <2>2, <2>3, <2>4, <2>5 DEF Inv, TypeOK
<1>19. ASSUME FsdFind PROVE Inv'
  <2>1. UNCHANGED <<clients, feed, map>>
    BY <1>19 DEF FsdFind, clients, map
  <2>2. ClientTypes' /\ FeedTypes' /\ MapTypes' /\ OneMarkerEach' /\ PopupInv'
    BY <2>1, KeepClients, KeepFeed, KeepMap DEF Inv, TypeOK
  <2>3. SeenInv'
    BY <2>1 DEF clients, feed, map, Inv, SeenInv, MapWasTrue
  <2>4. KickTypes'
    BY <1>19 DEF FsdFind, Inv, TypeOK, KickTypes
  <2>5. KickInv'
    BY <1>19, <2>1 DEF FsdFind, clients, Inv, KickInv, KickTookEffect
  <2> QED
    BY <2>2, <2>3, <2>4, <2>5 DEF Inv, TypeOK
<1>20. ASSUME FsdCancel PROVE Inv'
  <2>1. UNCHANGED <<feed, map>>
    BY <1>20 DEF FsdCancel, FsdEnds, Forget
  <2>2. FeedTypes' /\ MapTypes' /\ OneMarkerEach' /\ PopupInv'
    BY <2>1, KeepFeed, KeepMap DEF Inv, TypeOK
  <2>3. ClientTypes'
    BY <1>20 DEF FsdCancel, FsdEnds, Forget, Inv, TypeOK, ClientTypes, KickInv
  <2>4. SeenInv'
    BY <1>20 DEF FsdCancel, FsdEnds, Forget, feed, map, Inv, SeenInv, MapWasTrue
  <2>5. KickTypes'
    BY <1>20 DEF FsdCancel, FsdEnds, Forget, Inv, TypeOK, KickTypes
  <2>6. KickInv'
    BY <1>20 DEF FsdCancel, FsdEnds, Forget, Inv, KickInv, KickTookEffect
  <2> QED
    BY <2>2, <2>3, <2>4, <2>5, <2>6 DEF Inv, TypeOK
<1>21. ASSUME FsdFail PROVE Inv'
  <2>1. UNCHANGED <<clients, feed, map>>
    BY <1>21 DEF FsdFail, FsdEnds, Forget, clients, map
  <2>2. ClientTypes' /\ FeedTypes' /\ MapTypes' /\ OneMarkerEach' /\ PopupInv'
    BY <2>1, KeepClients, KeepFeed, KeepMap DEF Inv, TypeOK
  <2>3. SeenInv'
    BY <2>1 DEF clients, feed, map, Inv, SeenInv, MapWasTrue
  <2>4. KickTypes'
    BY <1>21 DEF FsdFail, FsdEnds, Forget, Inv, TypeOK, KickTypes
  <2>5. KickInv'
    BY <1>21, <2>1 DEF FsdFail, FsdEnds, Forget, clients, Inv, KickInv, KickTookEffect
  <2> QED
    BY <2>2, <2>3, <2>4, <2>5 DEF Inv, TypeOK
<1>22. ASSUME KickAnswered PROVE Inv'
  <2>1. UNCHANGED <<clients, feed, map>>
    BY <1>22 DEF KickAnswered, Answer, clients, map
  <2>2. ClientTypes' /\ FeedTypes' /\ MapTypes' /\ OneMarkerEach' /\ PopupInv'
    BY <2>1, KeepClients, KeepFeed, KeepMap DEF Inv, TypeOK
  <2>3. SeenInv'
    BY <2>1 DEF clients, feed, map, Inv, SeenInv, MapWasTrue
  <2>4. KickTypes'
    BY <1>22 DEF KickAnswered, Answer, Inv, TypeOK, KickTypes
  <2>5. KickInv'
    BY <1>22, <2>1 DEF KickAnswered, Answer, clients, Inv, KickInv, KickTookEffect
  <2> QED
    BY <2>2, <2>3, <2>4, <2>5 DEF Inv, TypeOK
<1>23. ASSUME KickDone PROVE Inv'
  <2>1. UNCHANGED <<clients, feed, map>>
    BY <1>23 DEF KickDone, Forget, clients, map
  <2>2. ClientTypes' /\ FeedTypes' /\ MapTypes' /\ OneMarkerEach' /\ PopupInv'
    BY <2>1, KeepClients, KeepFeed, KeepMap DEF Inv, TypeOK
  <2>3. SeenInv'
    BY <2>1 DEF clients, feed, map, Inv, SeenInv, MapWasTrue
  <2>4. KickTypes'
    BY <1>23 DEF KickDone, Forget, Inv, TypeOK, KickTypes
  <2>5. KickInv'
    BY <1>23, <2>1 DEF KickDone, Forget, clients, Inv, KickInv, KickTookEffect
  <2> QED
    BY <2>2, <2>3, <2>4, <2>5 DEF Inv, TypeOK
<1>24. CASE UNCHANGED vars
  <2>1. UNCHANGED <<clients, feed, map, kicking>>
    BY <1>24 DEF vars
  <2>2. TypeOK' /\ OneMarkerEach' /\ PopupInv' /\ KickInv'
    BY <2>1, KeepClients, KeepFeed, KeepMap, KeepKick DEF Inv, TypeOK
  <2>3. SeenInv'
    BY <2>1 DEF clients, feed, map, Inv, SeenInv, MapWasTrue
  <2> QED
    BY <2>2, <2>3 DEF Inv
<1> QED
  BY <1>1, <1>2, <1>3, <1>4, <1>5, <1>6, <1>7, <1>8, <1>9, <1>10, <1>11, <1>12, <1>13, <1>14, <1>15, <1>16, <1>17, <1>18, <1>19, <1>20, <1>21, <1>22, <1>23, <1>24 DEF Next

LEMMA Invariance == Spec => []Inv
<1>1. Inv /\ [Next]_vars => Inv'
  BY NextInv
<1> QED
  BY <1>1, InitInv, PTL DEF Spec

-----------------------------------------------------------------------------
(* The variables of page, worker and kick have their types.                *)
THEOREM TypeCorrect == Spec => []TypeOK
<1>1. Inv => TypeOK
  BY DEF Inv
<1> QED
  BY <1>1, Invariance, PTL

(* The map shows pilots who were online together at some moment, however   *)
(* many fetches overlap and overtake each other.                           *)
THEOREM MapShowsAMoment == Spec => []MapWasTrue
<1>1. Inv => MapWasTrue
  BY DEF Inv, SeenInv
<1> QED
  BY <1>1, Invariance, PTL

(* Overlapping fetches never leave a marker on the map that the next one   *)
(* would not take off, and never two of a pilot.                           *)
THEOREM MarkersOnce == Spec => []OneMarkerEach
<1>1. Inv => OneMarkerEach
  BY DEF Inv
<1> QED
  BY <1>1, Invariance, PTL

(* The page says a user was kicked only if the session that the FSD service *)
(* found for this kick has left or has its context cancelled, whatever was  *)
(* lost between the servers and whoever has the callsign now.               *)
THEOREM KickedIsCancelled == Spec => []SuccessMeansCancelled
<1>1. Inv => SuccessMeansCancelled
  BY DEF Inv, KickInv, SuccessMeansCancelled, Says, Resolves
<1> QED
  BY <1>1, Invariance, PTL

(* A refresh of the map keeps the open popup unless its pilot is gone.     *)
THEOREM PopupStays == Spec => PopupKept
<1>1. Inv /\ [Next]_vars
        => [\A c \in Pilot : open = c /\ c \in markers' /\ drawn' # drawn => open' = c]_vars
  <2> SUFFICES ASSUME Inv, Next, NEW c \in Pilot, open = c, c \in markers', drawn' # drawn
              PROVE  open' = c
    OBVIOUS
  <2>1. PICK f \in Fetch : PopulateDone(f)
    BY DEF Next, map, Join, Leave, Tick, GetOnlineUsers, UpdateFail, UpdateDataFeedCache, LoadUserInfo, LoadFail, PopulateMap, GetDatafeed, FetchFail, PopulateFail, OpenPopup, ClosePopup, KickUser, KickRefused,
       KickSend, FsdFind, FsdCancel, FsdFail, FsdEnds, Forget, KickAnswered, Answer, KickUnreachable, KickDone
  <2>2. open \in markers
    BY CallsignAssumption DEF Inv, PopupInv, Callsign
  <2> QED
    BY <2>1, <2>2 DEF PopulateDone, Reopened
<1> QED
  BY <1>1, Invariance, PTL DEF Spec, PopupKept
=============================================================================

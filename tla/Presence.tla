------------------------------ MODULE Presence ------------------------------
(***************************************************************************)
(* What the FSD server promises about who is connected, without locks,     *)
(* queues or goroutines: a callsign has one holder at a time, and it is    *)
(* handed back only when every session that can still be reached and was   *)
(* told of the holder has been told that it left.                          *)
(***************************************************************************)
CONSTANTS Session, Callsign, callsignOf, nil

VARIABLES
    holder,  \* the session that holds each callsign, or nil
    stage,   \* of a session: "new", "online", "gone"
    deaf,    \* sessions the server gave up: nothing reaches them
    told     \* told[r]: sessions r believes to be online

vars == <<holder, stage, deaf, told>>

Init ==
    /\ holder = [k \in Callsign |-> nil]
    /\ stage = [s \in Session |-> "new"]
    /\ deaf = [s \in Session |-> FALSE]
    /\ told = [s \in Session |-> {}]

Join(s) ==
    /\ stage[s] = "new" /\ holder[callsignOf[s]] = nil
    /\ holder' = [holder EXCEPT ![callsignOf[s]] = s]
    /\ stage' = [stage EXCEPT ![s] = "online"]
    /\ UNCHANGED <<deaf, told>>

Refuse(s) ==
    /\ stage[s] = "new"
    /\ stage' = [stage EXCEPT ![s] = "gone"]
    /\ UNCHANGED <<holder, deaf, told>>

\* r hears of s, both being online
Announce(s, r) ==
    /\ stage[s] = "online" /\ stage[r] = "online"
    /\ told' = [told EXCEPT ![r] = @ \cup {s}]
    /\ UNCHANGED <<holder, stage, deaf>>

\* r hears that s is leaving, while s is still online
Retract(s, r) ==
    /\ stage[s] = "online" /\ stage[r] = "online"
    /\ told' = [told EXCEPT ![r] = @ \ {s}]
    /\ UNCHANGED <<holder, stage, deaf>>

GiveUp(s) ==
    /\ stage[s] # "new"
    /\ deaf' = [deaf EXCEPT ![s] = TRUE]
    /\ UNCHANGED <<holder, stage, told>>

Believes(r, s) == stage[r] = "online" /\ ~deaf[r] /\ s \in told[r]

Leave(s) ==
    /\ stage[s] = "online"
    /\ \A r \in Session \ {s} : ~Believes(r, s)
    /\ holder' = [holder EXCEPT ![callsignOf[s]] = nil]
    /\ stage' = [stage EXCEPT ![s] = "gone"]
    /\ UNCHANGED <<deaf, told>>

Next ==
    \/ \E s \in Session : Join(s) \/ Refuse(s) \/ GiveUp(s) \/ Leave(s)
    \/ \E s, r \in Session : Announce(s, r) \/ Retract(s, r)

Spec == Init /\ [][Next]_vars
=============================================================================

---------------------------- MODULE ConfigEditor ----------------------------
(***************************************************************************)
(* The configuration editor (configeditor.js) and the two handlers behind  *)
(* it (web/config.go), which read and write the keys of the config table   *)
(* one statement at a time.  Pages of several administrators work on one   *)
(* table; a page's loads are not awaited, so they overlap with each other, *)
(* with typing and with the next save.  All keys are of type text.  The    *)
(* reset of the secret and the API tokens on the same page are in          *)
(* WebSession.                                                             *)
(***************************************************************************)
EXTENDS Naturals, Sequences, FiniteSets

CONSTANTS
    Page,
    Load,      \* bound: loads of a page under way
    Key,
    KeyOrder,  \* the order in which handleGetConfig reads them
    Value,     \* texts
    blank,     \* the empty one
    Altered,   \* those an input made from HTML does not show as they are
    Stored,    \* the table at first
    nil,
    MaxRow,    \* bound: rows below the inputs of a page
    MaxEdit    \* bound: what the administrators type, add and choose

ASSUME KeyAssumption ==
    /\ KeyOrder \in Seq(Key) /\ nil \notin Key \cup Value \cup Altered
    /\ \A k \in Key : \E i \in 1..Len(KeyOrder) : KeyOrder[i] = k
ASSUME ValueAssumption ==
    /\ blank \in Value /\ Stored \in [Key -> Value \cup {nil}]
    /\ MaxRow \in Nat /\ MaxEdit \in Nat

VARIABLES
    table,    \* config: the value of a key, or nil
    load,     \* loads: "idle", "reading", "answered"
    pos,      \* the key a load reads next
    read,     \* what it has read
    shown,    \* the inputs of the form, by key
    rows,     \* the rows added below them
    save,     \* "idle", "writing", "ok"
    pairs,    \* the pairs a save sends
    next,     \* the pair it writes next
    wanted,   \* history: what the form meant when it was saved
    written,  \* history: what the save has written, by key
    meant,    \* history: the values a key had, or was given by somebody
    edits     \* counter for the bound

page == <<shown, rows>>
loading == <<load, pos, read>>
saving == <<save, pairs, next, wanted, written>>
typed == <<meant, edits>>
vars == <<table, loading, page, saving, typed>>

Row == [key : Key \cup {nil}, value : Value]
Pair == [key : Key, value : Value]
None == [k \in Key |-> nil]

\* The page's script loads the configuration at once.
Init ==
    /\ table = Stored
    /\ \E first \in Load :
         load = [p \in Page |-> [l \in Load |-> IF l = first THEN "reading" ELSE "idle"]]
    /\ pos = [p \in Page |-> [l \in Load |-> 1]]
    /\ read = [p \in Page |-> [l \in Load |-> None]]
    /\ shown = [p \in Page |-> None]
    /\ rows = [p \in Page |-> <<>>]
    /\ save = [p \in Page |-> "idle"]
    /\ pairs = [p \in Page |-> <<>>]
    /\ next = [p \in Page |-> 1]
    /\ wanted = [p \in Page |-> None]
    /\ written = [p \in Page |-> None]
    /\ meant = [k \in Key |-> {Stored[k]} \ {nil}] /\ edits = 0

-----------------------------------------------------------------------------
(* loadConfig and handleGetConfig. *)
Get(p, l) ==
    /\ load[p][l] = "reading" /\ pos[p][l] <= Len(KeyOrder)
    /\ LET k == KeyOrder[pos[p][l]] IN read' = [read EXCEPT ![p][l][k] = table[k]]
    /\ pos' = [pos EXCEPT ![p][l] = @ + 1]
    /\ UNCHANGED <<load, table, page, saving, typed>>

GetConfigAnswers(p, l) ==
    /\ load[p][l] = "reading" /\ pos[p][l] > Len(KeyOrder)
    /\ load' = [load EXCEPT ![p][l] = "answered"]
    /\ UNCHANGED <<pos, read, table, page, saving, typed>>

LoadEnds(p, l) ==
    /\ load' = [load EXCEPT ![p][l] = "idle"]
    /\ pos' = [pos EXCEPT ![p][l] = 1]
    /\ read' = [read EXCEPT ![p][l] = None]

\* A failing statement, a refusal, no answer: an alert; the form stays.
LoadFail(p, l) ==
    /\ load[p][l] = "reading"
    /\ LoadEnds(p, l)
    /\ UNCHANGED <<table, page, saving, typed>>

(* A value is put between the quotes of value="..." as it is.  In an        *)
(* altered one references such as &amp; are decoded, or a quote ends the    *)
(* attribute and what follows is read as more of them, data-key (:135) not  *)
(* excepted: what the inputs then hold, and for which keys, is left open.   *)
Forms(values) ==
    IF \A k \in Key : values[k] \notin Altered THEN {values}
    ELSE [Key -> Value \cup {nil}]

\* The form is built anew: what was typed into it is gone.
LoadDone(p, l) ==
    /\ load[p][l] = "answered"
    /\ LoadEnds(p, l)
    /\ \E form \in Forms(read[p][l]) : shown' = [shown EXCEPT ![p] = form]
    /\ rows' = [rows EXCEPT ![p] = <<>>]
    /\ UNCHANGED <<table, saving, typed>>

-----------------------------------------------------------------------------
(* The administrator. *)
Edits == edits < MaxEdit /\ edits' = edits + 1

TypeValue(p, k, v) ==
    /\ Edits
    /\ shown[p][k] # nil /\ v # shown[p][k]
    /\ shown' = [shown EXCEPT ![p][k] = v]
    /\ meant' = [meant EXCEPT ![k] = @ \cup {v}]
    /\ UNCHANGED <<rows, table, loading, saving>>

AddConfig(p) ==
    /\ Edits
    /\ Len(rows[p]) < MaxRow
    /\ rows' = [rows EXCEPT ![p] = Append(@, [key |-> nil, value |-> blank])]
    /\ UNCHANGED <<shown, table, loading, saving, meant>>

\* Fault: the value typed before stays beside the key chosen now.
ChooseKeyKeeps(p, i, k) ==
    /\ Edits
    /\ i \in DOMAIN rows[p] /\ rows[p][i].key # k
    /\ rows' = [rows EXCEPT ![p][i] = [key |-> k, value |-> rows[p][i].value]]
    /\ meant' = [meant EXCEPT ![k] = @ \cup {blank}]
    /\ UNCHANGED <<shown, table, loading, saving>>
\* Choosing a key clears the value; saved as it is, it sets the empty text.
ChooseKey(p, i, k) ==
    /\ Edits
    /\ i \in DOMAIN rows[p] /\ rows[p][i].key # k
    /\ rows' = [rows EXCEPT ![p][i] = [key |-> k, value |-> blank]]
    /\ meant' = [meant EXCEPT ![k] = @ \cup {blank}]
    /\ UNCHANGED <<shown, table, loading, saving>>

TypeNewValue(p, i, v) ==
    /\ Edits
    /\ i \in DOMAIN rows[p] /\ rows[p][i].value # v
    /\ rows' = [rows EXCEPT ![p][i] = [key |-> rows[p][i].key, value |-> v]]
    /\ meant' = [k \in Key |-> IF k = rows[p][i].key THEN meant[k] \cup {v} ELSE meant[k]]
    /\ UNCHANGED <<shown, table, loading, saving>>

-----------------------------------------------------------------------------
(* The Save button and handleUpdateConfig.  Bound: one save of a page at a  *)
(* time.                                                                    *)
HasInput(p, k) == shown[p][k] # nil
\* The elements of s at the positions I, in their order (SelectSeq in a form
\* that needs no recursion).
Rank(i, I) == Cardinality({j \in I : j <= i})
Picked(s, I) ==
    [n \in 1..Cardinality(I) |-> s[CHOOSE i \in I : Rank(i, I) = n]]
Existing(p) ==
    LET inputs == Picked(KeyOrder,
                         {i \in DOMAIN KeyOrder : HasInput(p, KeyOrder[i])}) IN
    [n \in 1..Len(inputs) |-> [key |-> inputs[n], value |-> shown[p][inputs[n]]]]
Chosen(p) ==
    Picked(rows[p], {i \in DOMAIN rows[p] : rows[p][i].key # nil})
\* Fault: a row whose key was never chosen is sent like any other.
PairsUnchosen(p) == Existing(p) \o rows[p]
\* Existing inputs, then new rows: of two pairs for a key the later one counts.
Pairs(p) == Existing(p) \o Chosen(p)

\* What the administrator sees: the last row with that key, or else the input.
Wanted(p, k) ==
    LET new == {i \in DOMAIN rows[p] : rows[p][i].key = k} IN
    IF new = {} THEN shown[p][k]
    ELSE rows[p][CHOOSE i \in new : \A j \in new : j <= i].value

SaveConfig(p) ==
    /\ save[p] = "idle"
    /\ save' = [save EXCEPT ![p] = "writing"]
    /\ pairs' = [pairs EXCEPT ![p] = Pairs(p)]
    /\ next' = [next EXCEPT ![p] = 1]
    /\ wanted' = [wanted EXCEPT ![p] = [k \in Key |-> Wanted(p, k)]]
    /\ written' = [written EXCEPT ![p] = None]
    /\ UNCHANGED <<table, load, pos, read, shown, rows, typed>>

\* Fault: the loop goes on after a pair it could not write.
SetOrSkip(p) ==
    /\ save[p] = "writing" /\ next[p] <= Len(pairs[p])
    /\ LET kv == pairs[p][next[p]] IN
         \/ /\ table' = [table EXCEPT ![kv.key] = kv.value]
            /\ written' = [written EXCEPT ![p][kv.key] = kv.value]
         \/ UNCHANGED <<table, written>>
    /\ next' = [next EXCEPT ![p] = @ + 1]
    /\ UNCHANGED <<save, pairs, wanted, loading, page, typed>>
Set(p) ==
    /\ save[p] = "writing" /\ next[p] <= Len(pairs[p])
    /\ LET kv == pairs[p][next[p]] IN
         /\ table' = [table EXCEPT ![kv.key] = kv.value]
         /\ written' = [written EXCEPT ![p][kv.key] = kv.value]
    /\ next' = [next EXCEPT ![p] = @ + 1]
    /\ UNCHANGED <<save, pairs, wanted, loading, page, typed>>

UpdateAnswers(p) ==
    /\ save[p] = "writing" /\ next[p] > Len(pairs[p])
    /\ save' = [save EXCEPT ![p] = "ok"]
    /\ UNCHANGED <<pairs, next, wanted, written, table, loading, page, typed>>

SaveEnds(p) ==
    /\ save' = [save EXCEPT ![p] = "idle"]
    /\ pairs' = [pairs EXCEPT ![p] = <<>>]
    /\ next' = [next EXCEPT ![p] = 1]
    /\ wanted' = [wanted EXCEPT ![p] = None]
    /\ written' = [written EXCEPT ![p] = None]

\* A statement fails, or the request is refused, or either way lost: what has
\* been written stays, the page alerts and leaves the form as it is.
UpdateFail(p) ==
    /\ save[p] = "writing"
    /\ SaveEnds(p)
    /\ UNCHANGED <<table, loading, page, typed>>

\* Success loads the configuration again, without waiting for it.
SaveDone(p, l) ==
    /\ save[p] = "ok" /\ load[p][l] = "idle"
    /\ SaveEnds(p)
    /\ load' = [load EXCEPT ![p][l] = "reading"]
    /\ UNCHANGED <<pos, read, table, shown, rows, typed>>

-----------------------------------------------------------------------------
Next ==
    \E p \in Page :
        \/ \E l \in Load : \/ Get(p, l) \/ GetConfigAnswers(p, l)
                           \/ LoadFail(p, l) \/ LoadDone(p, l) \/ SaveDone(p, l)
        \/ \E k \in Key, v \in Value : TypeValue(p, k, v)
        \/ AddConfig(p)
        \/ \E i \in 1..MaxRow : \/ \E k \in Key : ChooseKey(p, i, k)
                                \/ \E v \in Value : TypeNewValue(p, i, v)
        \/ SaveConfig(p) \/ Set(p) \/ UpdateAnswers(p) \/ UpdateFail(p)

Spec == Init /\ [][Next]_vars

-----------------------------------------------------------------------------
\* Types.
TypeOK ==
    /\ table \in [Key -> Value \cup {nil}]
    /\ load \in [Page -> [Load -> {"idle", "reading", "answered"}]]
    /\ pos \in [Page -> [Load -> Nat \ {0}]]
    /\ read \in [Page -> [Load -> [Key -> Value \cup {nil}]]]
    /\ shown \in [Page -> [Key -> Value \cup {nil}]]
    /\ rows \in [Page -> Seq(Row)]
    /\ save \in [Page -> {"idle", "writing", "ok"}]
    /\ pairs \in [Page -> Seq(Pair)]
    /\ next \in [Page -> Nat \ {0}]
    /\ wanted \in [Page -> [Key -> Value \cup {nil}]]
    /\ written \in [Page -> [Key -> Value \cup {nil}]]
    /\ meant \in [Key -> SUBSET Value] /\ edits \in 0..MaxEdit

(* A key never gets the value of another one: whatever loads, saves and     *)
(* keystrokes overlap, on however many pages, a key's value is one it had   *)
(* before or an administrator typed for it.  Only a text that the form      *)
(* alters (configeditor.js:73) can break this, once somebody has set one.   *)
ValueOfItsOwn ==
    (\A k \in Key : meant[k] \cap Altered = {}) =>
        \A k \in Key : table[k] # nil => table[k] \in meant[k]

(* The answer that lets the page say "Config updated successfully"          *)
(* (configeditor.js:163) comes only when every value the form showed when   *)
(* it was saved has been written, a row added for a key before the key's    *)
(* own input.                                                               *)
SuccessMeansSet ==
    \A p \in Page : save[p] = "ok" =>
        \A k \in Key : wanted[p][k] # nil => written[p][k] = wanted[p][k]
=============================================================================

------------------------- MODULE MetarServiceProofs -------------------------
(***************************************************************************)
(* Theorems about MetarService, for any clients, any finite set of         *)
(* workers, any capacities and any number of requests.                     *)
(***************************************************************************)
EXTENDS MetarService, TLAPS, FiniteSetTheorems, SequenceTheorems

-----------------------------------------------------------------------------
(* Counting places in the channel. *)

Places(s, c) == {i \in DOMAIN s : s[i] = c}
Count(s, c) == Cardinality(Places(s, c))

LEMMA PlacesFinite ==
  ASSUME NEW S, NEW s \in Seq(S), NEW c
  PROVE  IsFiniteSet(Places(s, c)) /\ Count(s, c) \in Nat
<1>1. Places(s, c) \subseteq 1..Len(s) /\ Len(s) \in Nat
  BY LenProperties DEF Places
<1>2. IsFiniteSet(1..Len(s))
  BY <1>1, FS_Interval
<1>3. IsFiniteSet(Places(s, c))
  BY <1>1, <1>2, FS_Subset
<1> QED BY <1>3, FS_CardinalityType DEF Count

\* A request put into the channel adds one place to those of its client.
LEMMA CountAppend ==
  ASSUME NEW S, NEW s \in Seq(S), NEW d \in S, NEW c \in S
  PROVE  Count(Append(s, d), c) = Count(s, c) + IF d = c THEN 1 ELSE 0
<1> DEFINE t == Append(s, d)
           n == Len(s) + 1
<1>1. /\ t \in Seq(S) /\ Len(t) = n /\ t[n] = d
      /\ \A i \in 1..Len(s) : t[i] = s[i]
      /\ DOMAIN t = 1..n /\ DOMAIN s = 1..Len(s) /\ Len(s) \in Nat
  BY AppendProperties, LenProperties
<1>2. CASE d = c
  <2>1. Places(t, c) = Places(s, c) \cup {n} /\ n \notin Places(s, c)
    BY <1>1, <1>2 DEF Places
  <2> QED BY <1>2, <2>1, PlacesFinite, FS_AddElement DEF Count
<1>3. CASE d # c
  <2>1. Places(t, c) = Places(s, c)
    BY <1>1, <1>3 DEF Places
  <2> QED BY <1>3, <2>1, PlacesFinite DEF Count
<1> QED BY <1>2, <1>3

\* What a worker takes is the one place that goes; the others move up by one.
LEMMA CountTail ==
  ASSUME NEW S, NEW s \in Seq(S), s # <<>>, NEW c \in S
  PROVE  Count(s, c) = Count(Tail(s), c) + IF Head(s) = c THEN 1 ELSE 0
<1> DEFINE t == Tail(s)
           rest == Places(s, c) \ {1}
<1>1. /\ t \in Seq(S) /\ Len(s) \in Nat \ {0} /\ Len(t) = Len(s) - 1
      /\ \A i \in 1..Len(t) : t[i] = s[i + 1]
      /\ DOMAIN t = 1..Len(t) /\ DOMAIN s = 1..Len(s) /\ Head(s) = s[1]
  BY HeadTailProperties, LenProperties, EmptySeq
<1>2. IsFiniteSet(Places(t, c)) /\ Count(t, c) \in Nat
  BY <1>1, PlacesFinite
<1>3. Cardinality(rest) = Count(t, c)
  <2> DEFINE f == [i \in Places(t, c) |-> i + 1]
  <2>1. f \in Bijection(Places(t, c), rest)
    <3>1. f \in [Places(t, c) -> rest]
      BY <1>1 DEF Places
    <3>2. \A a, b \in Places(t, c) : f[a] = f[b] => a = b
      BY <1>1 DEF Places
    <3>3. \A j \in rest : \E a \in Places(t, c) : f[a] = j
      <4> SUFFICES ASSUME NEW j \in rest
                   PROVE  j - 1 \in Places(t, c) /\ f[j - 1] = j
        OBVIOUS
      <4>1. j \in 2..Len(s) /\ s[j] = c
        BY <1>1 DEF Places
      <4>2. j - 1 \in 1..Len(t) /\ t[j - 1] = s[j]
        BY <1>1, <4>1
      <4> QED BY <1>1, <4>1, <4>2 DEF Places
    <3> QED BY <3>1, <3>2, <3>3 DEF Bijection, Injection, Surjection, IsInjective
  <2>2. ExistsBijection(Places(t, c), rest)
    BY <2>1 DEF ExistsBijection
  <2> QED BY <1>2, <2>2, FS_Bijection DEF Count
<1>4. 1 \in Places(s, c) <=> Head(s) = c
  BY <1>1 DEF Places
<1>5. IsFiniteSet(Places(s, c)) /\ Count(s, c) \in Nat
  BY PlacesFinite
<1>6. Cardinality(rest) = IF 1 \in Places(s, c) THEN Count(s, c) - 1
                                                ELSE Count(s, c)
  BY <1>5, FS_RemoveElement DEF Count
<1> HIDE DEF rest
<1> QED BY <1>2, <1>3, <1>4, <1>5, <1>6

-----------------------------------------------------------------------------
(* Counting workers: those that the jobs j put to work for a client. *)

Busy(j, c) == {w \in Worker : j[w] # nil /\ j[w].client = c}
WorkingIn(j, c) == Cardinality(Busy(j, c))

LEMMA BusyFinite ==
  ASSUME NEW j, NEW c
  PROVE  IsFiniteSet(Busy(j, c)) /\ WorkingIn(j, c) \in Nat
<1>1. IsFiniteSet(Busy(j, c))
  BY MetarAssumption, FS_Subset DEF Busy
<1> QED BY <1>1, FS_CardinalityType DEF WorkingIn

\* A worker that takes a request is one more at work for its client.
LEMMA BusyTakes ==
  ASSUME NEW j \in [Worker -> Job \cup {nil}], NEW w \in Worker,
         NEW r \in Job, j[w] = nil, NEW c
  PROVE  WorkingIn([j EXCEPT ![w] = r], c)
           = WorkingIn(j, c) + IF r.client = c THEN 1 ELSE 0
<1> DEFINE j2 == [j EXCEPT ![w] = r]
<1>1. CASE r.client = c
  <2>1. Busy(j2, c) = Busy(j, c) \cup {w} /\ w \notin Busy(j, c)
    BY <1>1, NilAssumption DEF Busy
  <2> QED BY <1>1, <2>1, BusyFinite, FS_AddElement DEF WorkingIn
<1>2. CASE r.client # c
  <2>1. Busy(j2, c) = Busy(j, c)
    BY <1>2 DEF Busy
  <2> QED BY <1>2, <2>1, BusyFinite DEF WorkingIn
<1> QED BY <1>1, <1>2

\* A worker that is done is one less.
LEMMA BusyEnds ==
  ASSUME NEW j \in [Worker -> Job \cup {nil}], NEW w \in Worker,
         j[w] # nil, NEW c
  PROVE  WorkingIn(j, c) = WorkingIn([j EXCEPT ![w] = nil], c)
                             + IF j[w].client = c THEN 1 ELSE 0
<1> DEFINE j2 == [j EXCEPT ![w] = nil]
<1>1. CASE j[w].client = c
  <2>1. Busy(j2, c) = Busy(j, c) \ {w} /\ w \in Busy(j, c)
    BY <1>1 DEF Busy
  <2>2. WorkingIn(j2, c) = WorkingIn(j, c) - 1
    BY <2>1, BusyFinite, FS_RemoveElement DEF WorkingIn
  <2> QED BY <1>1, <2>2, BusyFinite
<1>2. CASE j[w].client # c
  <2>1. Busy(j2, c) = Busy(j, c)
    BY <1>2 DEF Busy
  <2> QED BY <1>2, <2>1, BusyFinite DEF WorkingIn
<1> QED BY <1>1, <1>2

\* The two counts of EveryRequestAnswered, in this form.
LEMMA Counts ==
  ASSUME NEW c
  PROVE  /\ Waiting(c) = Count(metarRequests, c)
         /\ Working(c) = WorkingIn(job, c)
         /\ Waiting(c)' = Count(metarRequests', c)
         /\ Working(c)' = WorkingIn(job', c)
BY DEF Waiting, Working, Count, Places, WorkingIn, Busy

-----------------------------------------------------------------------------
(* EveryRequestAnswered, together with the types: an answer is given for a   *)
(* request that is owed, and an event loop asks within its bound.            *)

MetarInv ==
    /\ TypeOK
    /\ EveryRequestAnswered
    /\ \A c \in Client : loop[c] = "asking" => asked[c] < Budget[c]

LEMMA MetarInit == Init => MetarInv
<1> SUFFICES ASSUME Init PROVE MetarInv
  OBVIOUS
<1>1. TypeOK /\ \A c \in Client : loop[c] # "asking"
  BY MetarAssumption, EmptySeq DEF Init, TypeOK
<1>2. ASSUME NEW c \in Client PROVE Waiting(c) = 0 /\ Working(c) = 0
  <2>1. {i \in DOMAIN metarRequests : metarRequests[i] = c} = {}
    BY DEF Init
  <2>2. {w \in Worker : job[w] # nil /\ job[w].client = c} = {}
    BY DEF Init
  <2> QED BY <2>1, <2>2, FS_EmptySet DEF Waiting, Working
<1>3. EveryRequestAnswered
  BY <1>2 DEF Init, EveryRequestAnswered
<1> QED BY <1>1, <1>3 DEF MetarInv

\* No step but three touches the channel, the workers or what is owed.
LEMMA MetarFrame ==
  ASSUME MetarInv, UNCHANGED <<metarRequests, owed>>,
         \A c \in Client : Working(c)' = Working(c)
  PROVE  EveryRequestAnswered'
BY DEF MetarInv, EveryRequestAnswered, Waiting

\* A request goes into the channel.
LEMMA FetchAndSendStep ==
  ASSUME MetarInv, NEW c \in Client, FetchAndSendMetar(c)
  PROVE  MetarInv'
<1>1. /\ metarRequests' = Append(metarRequests, c)
      /\ UNCHANGED <<job, outVars>>
      /\ owed' = [owed EXCEPT ![c] = @ + 1]
      /\ asked' = [asked EXCEPT ![c] = @ + 1]
      /\ loop' = [loop EXCEPT ![c] = "scan"]
      /\ loop[c] = "asking" /\ Len(metarRequests) < QueueCap
  BY DEF FetchAndSendMetar
<1>2. TypeOK /\ metarRequests \in Seq(Client) /\ asked[c] < Budget[c]
  BY <1>1 DEF MetarInv, TypeOK
<1>3. /\ metarRequests' \in Seq(Client)
      /\ Len(metarRequests') = Len(metarRequests) + 1
      /\ Len(metarRequests) \in Nat
  BY <1>1, <1>2, AppendProperties, LenProperties
<1>4. TypeOK'
  <2>1. metarRequests' \in Seq(Client) /\ Len(metarRequests') <= QueueCap
    BY <1>1, <1>3, MetarAssumption
  <2>2. /\ asked \in [Client -> Nat] /\ owed \in [Client -> Nat]
        /\ loop \in [Client -> {"scan", "asking", "over"}]
        /\ \A d \in Client : owed[d] <= asked[d] /\ asked[d] <= Budget[d]
    BY <1>2 DEF TypeOK
  <2>3. /\ asked' \in [Client -> Nat] /\ owed' \in [Client -> Nat]
        /\ loop' \in [Client -> {"scan", "asking", "over"}]
    BY <1>1, <2>2
  <2>4. \A d \in Client : owed'[d] <= asked'[d] /\ asked'[d] <= Budget[d]
    BY <1>1, <1>2, <2>2, MetarAssumption
  <2> QED BY <1>1, <1>2, <2>1, <2>3, <2>4 DEF TypeOK, outVars
<1>5. EveryRequestAnswered'
  <2> SUFFICES ASSUME NEW d \in Client
               PROVE  owed'[d] = Waiting(d)' + Working(d)'
    BY DEF EveryRequestAnswered
  <2>1. Count(metarRequests', d)
          = Count(metarRequests, d) + IF c = d THEN 1 ELSE 0
    BY <1>1, <1>2, CountAppend
  <2>2. owed'[d] = owed[d] + IF c = d THEN 1 ELSE 0
    BY <1>1, <1>2 DEF TypeOK
  <2>3. Count(metarRequests, d) \in Nat /\ WorkingIn(job, d) \in Nat
    BY <1>2, PlacesFinite, BusyFinite
  <2>4. owed[d] = Count(metarRequests, d) + WorkingIn(job, d)
    BY Counts DEF MetarInv, EveryRequestAnswered
  <2>5. owed'[d] = Count(metarRequests', d) + WorkingIn(job', d)
    BY <1>1, <2>1, <2>2, <2>3, <2>4
  <2> QED BY <2>5, Counts
<1>6. \A d \in Client : loop'[d] = "asking" => asked'[d] < Budget[d]
  BY <1>1, <1>2 DEF MetarInv, TypeOK
<1> QED BY <1>4, <1>5, <1>6 DEF MetarInv

\* It goes from the channel to a worker.
LEMMA TakeStep ==
  ASSUME MetarInv, NEW w \in Worker, Take(w)
  PROVE  MetarInv'
<1> DEFINE j == [client |-> Head(metarRequests), stage |-> "get"]
<1>1. /\ metarRequests # <<>>
      /\ job[w] = nil /\ job' = [job EXCEPT ![w] = j]
      /\ metarRequests' = Tail(metarRequests)
      /\ UNCHANGED <<clientVars, outVars, owed>>
  BY DEF Take
<1>2. TypeOK /\ metarRequests \in Seq(Client)
  BY DEF MetarInv, TypeOK
<1>3. /\ Head(metarRequests) \in Client
      /\ metarRequests' \in Seq(Client)
      /\ Len(metarRequests') = Len(metarRequests) - 1
      /\ Len(metarRequests) \in Nat
  BY <1>1, <1>2, HeadTailProperties, LenProperties
<1>4. j \in Job /\ j.client = Head(metarRequests)
  BY <1>3 DEF Job
<1> HIDE DEF j
<1>5. TypeOK'
  <2>1. metarRequests' \in Seq(Client) /\ Len(metarRequests') <= QueueCap
    BY <1>2, <1>3, MetarAssumption DEF TypeOK
  <2>2. job' \in [Worker -> Job \cup {nil}]
    BY <1>1, <1>2, <1>4 DEF TypeOK
  <2> QED BY <1>1, <1>2, <2>1, <2>2 DEF TypeOK, outVars, clientVars
<1>6. EveryRequestAnswered'
  <2> SUFFICES ASSUME NEW d \in Client
               PROVE  owed'[d] = Waiting(d)' + Working(d)'
    BY DEF EveryRequestAnswered
  <2> DEFINE one == IF Head(metarRequests) = d THEN 1 ELSE 0
  <2>1. Count(metarRequests, d) = Count(metarRequests', d) + one
    BY <1>1, <1>2, CountTail
  <2>2. job \in [Worker -> Job \cup {nil}]
    BY <1>2 DEF TypeOK
  <2>3. WorkingIn(job', d) = WorkingIn(job, d) + one
    <3>1. j \in Job /\ job[w] = nil
      BY <1>1, <1>4
    <3>2. WorkingIn([job EXCEPT ![w] = j], d)
            = WorkingIn(job, d) + IF j.client = d THEN 1 ELSE 0
      BY <2>2, <3>1, BusyTakes
    <3> QED BY <1>1, <1>4, <3>2
  <2>4. /\ Count(metarRequests', d) \in Nat /\ WorkingIn(job, d) \in Nat
        /\ one \in Nat
    BY <1>3, PlacesFinite, BusyFinite
  <2>5. owed'[d] = Count(metarRequests, d) + WorkingIn(job, d)
    BY <1>1, Counts DEF MetarInv, EveryRequestAnswered
  <2> HIDE DEF one
  <2>6. owed'[d] = Count(metarRequests', d) + WorkingIn(job', d)
    BY <2>1, <2>3, <2>4, <2>5
  <2> QED BY <2>6, Counts
<1> QED BY <1>1, <1>5, <1>6 DEF MetarInv, clientVars

\* A worker gives its answer to send, or finds the context done.
LEMMA JobEndsStep ==
  ASSUME MetarInv, NEW w \in Worker, SendAnswer(w) \/ SendGivesUp(w)
  PROVE  MetarInv'
<1> DEFINE c == job[w].client
<1>1. /\ job[w] # nil /\ job' = [job EXCEPT ![w] = nil]
      /\ owed' = [owed EXCEPT ![c] = @ - 1]
      /\ UNCHANGED <<clientVars, metarRequests, sender, ctxDone, peer>>
      /\ \/ backlog' = backlog
         \/ /\ backlog[c] < SendChanCap
            /\ backlog' = [backlog EXCEPT ![c] = @ + 1]
  BY DEF SendAnswer, SendGivesUp, JobEnds, outVars
<1>2. TypeOK /\ c \in Client
  BY <1>1 DEF MetarInv, TypeOK, Job
<1>3. ASSUME NEW d \in Client
      PROVE  /\ Count(metarRequests, d) \in Nat
             /\ WorkingIn(job', d) \in Nat
             /\ WorkingIn(job, d) = WorkingIn(job', d) + IF c = d THEN 1 ELSE 0
             /\ owed[d] = Count(metarRequests, d) + WorkingIn(job, d)
  <2>1. job \in [Worker -> Job \cup {nil}]
    BY <1>2 DEF TypeOK
  <2>2. WorkingIn(job, d) = WorkingIn(job', d) + IF c = d THEN 1 ELSE 0
    <3>1. WorkingIn(job, d) = WorkingIn([job EXCEPT ![w] = nil], d)
                                + IF c = d THEN 1 ELSE 0
      BY <1>1, <2>1, BusyEnds
    <3> QED BY <1>1, <3>1
  <2>3. Count(metarRequests, d) \in Nat /\ WorkingIn(job', d) \in Nat
    BY <1>2, PlacesFinite, BusyFinite DEF TypeOK
  <2> QED BY <2>2, <2>3, Counts DEF MetarInv, EveryRequestAnswered
<1>4. owed[c] \in Nat \ {0}
  BY <1>2, <1>3
<1> HIDE DEF c
<1>5. owed' \in [Client -> Nat] /\ \A d \in Client : owed'[d] <= owed[d]
  BY <1>1, <1>2, <1>4 DEF TypeOK
<1>6. TypeOK'
  <2>1. backlog' \in [Client -> 0..SendChanCap]
    <3>1. backlog \in [Client -> 0..SendChanCap] /\ SendChanCap \in Nat
      BY <1>2, MetarAssumption DEF TypeOK
    <3> QED BY <1>1, <1>2, <3>1
  <2>2. job' \in [Worker -> Job \cup {nil}]
    BY <1>1, <1>2 DEF TypeOK
  <2>3. /\ owed \in [Client -> Nat] /\ asked \in [Client -> Nat]
        /\ \A d \in Client : owed[d] <= asked[d] /\ asked[d] <= Budget[d]
    BY <1>2 DEF TypeOK
  <2>4. \A d \in Client : owed'[d] <= asked[d] /\ asked[d] <= Budget[d]
    BY <1>5, <2>3
  <2> QED BY <1>1, <1>2, <1>5, <2>1, <2>2, <2>4 DEF TypeOK, clientVars
<1>7. EveryRequestAnswered'
  <2> SUFFICES ASSUME NEW d \in Client
               PROVE  owed'[d] = Waiting(d)' + Working(d)'
    BY DEF EveryRequestAnswered
  <2>1. owed'[d] = owed[d] - IF c = d THEN 1 ELSE 0
    BY <1>1, <1>2, <1>4 DEF TypeOK
  <2>2. Count(metarRequests', d) = Count(metarRequests, d)
    BY <1>1
  <2>3. owed'[d] = Count(metarRequests', d) + WorkingIn(job', d)
    BY <1>3, <2>1, <2>2
  <2> QED BY <2>3, Counts
<1> QED BY <1>1, <1>6, <1>7 DEF MetarInv, clientVars

\* What other packets and senderWorker do to a client's own queue.
LEMMA BacklogStep ==
  ASSUME TypeOK, NEW c \in Client, OtherPacket(c) \/ SenderTakes(c)
  PROVE  backlog' \in [Client -> 0..SendChanCap]
<1>1. /\ backlog \in [Client -> 0..SendChanCap] /\ SendChanCap \in Nat
  BY MetarAssumption DEF TypeOK
<1>2. CASE OtherPacket(c)
  BY <1>1, <1>2 DEF OtherPacket
<1>3. CASE SenderTakes(c)
  BY <1>1, <1>3 DEF SenderTakes
<1> QED BY <1>2, <1>3

LEMMA MetarStep == MetarInv /\ [Next]_vars => MetarInv'
<1> SUFFICES ASSUME MetarInv, [Next]_vars PROVE MetarInv'
  OBVIOUS
<1>t. TypeOK
  BY DEF MetarInv
\* A step that leaves these alone has the types and the loops left to show.
<1>1. ASSUME UNCHANGED <<metarRequests, job, owed, asked>>, TypeOK',
             \A c \in Client : \/ loop'[c] # "asking" \/ loop'[c] = loop[c]
                               \/ asked[c] < Budget[c]
      PROVE  MetarInv'
  BY <1>1, MetarFrame DEF MetarInv, Working
<1>2. ASSUME NEW c \in Client, HandleMetarRequest(c) PROVE MetarInv'
  BY <1>t, <1>1, <1>2 DEF HandleMetarRequest, TypeOK, outVars
<1>3. ASSUME NEW c \in Client, GivesUp(c) \/ EventLoopReturns(c) PROVE MetarInv'
  BY <1>t, <1>1, <1>3 DEF GivesUp, EventLoopReturns, TypeOK, outVars
<1>4. ASSUME NEW c \in Client, OtherPacket(c) \/ SenderTakes(c) PROVE MetarInv'
  <2>1. /\ UNCHANGED <<clientVars, metarRequests, job, ctxDone, peer, owed>>
        /\ sender' = sender \/ sender' = [sender EXCEPT ![c] = "write"]
    BY <1>4 DEF OtherPacket, SenderTakes
  <2>2. TypeOK'
    BY <1>t, <1>4, <2>1, BacklogStep DEF TypeOK, clientVars
  <2> QED BY <1>1, <2>1, <2>2 DEF clientVars
<1>5. ASSUME NEW c \in Client,
             SenderWrites(c) \/ SenderReturns(c) \/ CancelCtx(c)
      PROVE  MetarInv'
  BY <1>t, <1>1, <1>5 DEF SenderWrites, SenderReturns, CancelCtx, TypeOK, clientVars
<1>6. ASSUME NEW c \in Client, Stall(c) \/ Resume(c) \/ Vanish(c) PROVE MetarInv'
  BY <1>t, <1>1, <1>6 DEF Stall, Resume, Vanish, TypeOK, clientVars
<1>7. ASSUME NEW w \in Worker, Get(w) PROVE MetarInv'
  <2>1. /\ job' = [job EXCEPT ![w].stage = "send"] /\ job[w] \in Job
        /\ UNCHANGED <<clientVars, metarRequests, outVars, owed>>
    BY <1>t, <1>7 DEF Get, TypeOK
  <2>2. job'[w] \in Job /\ job'[w].client = job[w].client
    BY <1>t, <2>1 DEF TypeOK, Job
  <2>3. \A v \in Worker \ {w} : job'[v] = job[v]
    BY <1>t, <2>1 DEF TypeOK
  <2>4. \A c \in Client : Working(c)' = Working(c)
    <3>1. \A c \in Client : Busy(job', c) = Busy(job, c)
      BY <2>1, <2>2, <2>3, NilAssumption DEF Busy
    <3> QED BY <3>1, Counts DEF WorkingIn
  <2>5. TypeOK'
    <3>1. job' \in [Worker -> Job \cup {nil}]
      BY <1>t, <2>1, <2>2, <2>3 DEF TypeOK
    <3> QED BY <1>t, <2>1, <3>1 DEF TypeOK, clientVars, outVars
  <2> QED BY <2>1, <2>4, <2>5, MetarFrame DEF MetarInv, clientVars
<1>8. CASE UNCHANGED vars
  BY <1>t, <1>1, <1>8 DEF vars, TypeOK
<1> QED
  BY <1>2, <1>3, <1>4, <1>5, <1>6, <1>7, <1>8, FetchAndSendStep, TakeStep,
     JobEndsStep
  DEF Next

\* A request that has not been answered is in the channel or in the hands of
\* one worker, however event loops, workers and departing clients interleave.
THEOREM RequestsAreAnswered == Spec => []EveryRequestAnswered
<1>1. MetarInv => EveryRequestAnswered
  BY DEF MetarInv
<1> QED BY MetarInit, MetarStep, <1>1, PTL DEF Spec

\* Every variable keeps its type, and both channels their capacity.
THEOREM TypeCorrect == Spec => []TypeOK
<1>1. MetarInv => TypeOK
  BY DEF MetarInv
<1> QED BY MetarInit, MetarStep, <1>1, PTL DEF Spec

-----------------------------------------------------------------------------
(* What a request that is no longer owed has come to.                        *)

\* A request ends with one more packet in the queue of the client that asked, or
\* because that client's context is done: however long the queue of a client that
\* is still there is full, its answer is not dropped (send).
AnsweredUnlessCancelled ==
    [][\A c \in Client : owed'[c] < owed[c] =>
          backlog'[c] = backlog[c] + 1 \/ ctxDone[c]]_vars

\* Of what a step does, this is what ends a request: a worker that gives its
\* answer to send, for the client its request came from.
LEMMA EndsAnswered ==
  ASSUME TypeOK, NEW w \in Worker, SendAnswer(w) \/ SendGivesUp(w),
         NEW c \in Client, owed'[c] < owed[c]
  PROVE  backlog'[c] = backlog[c] + 1 \/ ctxDone[c]
<1>1. /\ owed \in [Client -> Nat] /\ backlog \in [Client -> 0..SendChanCap]
      /\ owed' = [owed EXCEPT ![job[w].client] = @ - 1]
  BY DEF TypeOK, SendAnswer, SendGivesUp, JobEnds
<1>2. c = job[w].client
  BY <1>1
<1> QED BY <1>1, <1>2 DEF SendAnswer, SendGivesUp

\* No answer is lost while the context of the client that asked is not done.
THEOREM AnswersAreKept == Spec => AnsweredUnlessCancelled
<1>1. ASSUME TypeOK, [Next]_vars, NEW c \in Client, owed'[c] < owed[c]
      PROVE  backlog'[c] = backlog[c] + 1 \/ ctxDone[c]
  <2>1. owed \in [Client -> Nat]
    BY <1>1 DEF TypeOK
  <2>2. owed' # owed
    BY <1>1, <2>1
  <2>3. ASSUME NEW d \in Client, FetchAndSendMetar(d) PROVE FALSE
    BY <1>1, <2>1, <2>3 DEF FetchAndSendMetar
  <2>4. \E w \in Worker : SendAnswer(w) \/ SendGivesUp(w)
    BY <1>1, <2>2, <2>3
    DEF Next, vars, HandleMetarRequest, GivesUp, EventLoopReturns, OtherPacket,
        SenderTakes, SenderWrites, SenderReturns, CancelCtx, Stall, Resume,
        Vanish, Take, Get
  <2> QED BY <1>1, <2>4, EndsAnswered
<1> DEFINE Answered == \A c \in Client : owed'[c] < owed[c] =>
                          (backlog'[c] = backlog[c] + 1 \/ ctxDone[c])
<1>2. TypeOK /\ [Next]_vars => [Answered]_vars
  BY <1>1
<1>3. AnsweredUnlessCancelled <=> [][Answered]_vars
  BY DEF AnsweredUnlessCancelled
<1> QED BY TypeCorrect, <1>2, <1>3, PTL DEF Spec
=============================================================================

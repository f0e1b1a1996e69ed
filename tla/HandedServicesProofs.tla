------------------------ MODULE HandedServicesProofs ------------------------
(***************************************************************************)
(* Proofs about the services that hand things on.  Per service: its        *)
(* inductive invariant, that it holds at the start and after every step,   *)
(* and what follows from it; then the theorems about HandedSpec, in which  *)
(* each service runs by itself.                                            *)
(***************************************************************************)
EXTENDS HandedServices, Sequences, FiniteSetTheorems, WellFoundedInduction, TLAPS

\* A set of naturals that is not empty has a least element.
LEMMA LeastNatural ==
  ASSUME NEW xs \in SUBSET Nat, xs # {}
  PROVE  \E x \in xs : \A y \in xs : x <= y
<1> DEFINE Less == {ss \in Nat \X Nat : ss[1] < ss[2]}
<1>1. IsWellFoundedOn(Less, Nat)
  BY NatLessThanWellFounded DEF OpToRel
<1>2. PICK x \in xs : \A y \in xs : <<y, x>> \notin Less
  BY <1>1, WFMin
<1>3. ASSUME NEW y \in xs PROVE x <= y
  <2>1. ~ (y < x)
    BY <1>2, <1>3
  <2>2. QED
    BY <2>1
<1>4. QED
  BY <1>3

\* A set of naturals that is not empty and has a bound has a greatest element.
LEMMA GreatestNatural ==
  ASSUME NEW xs \in SUBSET Nat, xs # {}, NEW b \in Nat, \A x \in xs : x <= b
  PROVE  \E x \in xs : \A y \in xs : y <= x
<1> DEFINE Bounds == {c \in Nat : \A x \in xs : x <= c}
<1>1. Bounds \in SUBSET Nat /\ Bounds # {}
  OBVIOUS
<1> HIDE DEF Bounds
<1>2. PICK c \in Bounds : \A d \in Bounds : c <= d
  BY <1>1, LeastNatural
<1>3. c \in Nat /\ \A x \in xs : x <= c
  BY <1>2 DEF Bounds
<1>4. CASE c \in xs
  BY <1>3, <1>4
<1>5. CASE c \notin xs
  <2>1. \A x \in xs : x \in Nat /\ x < c
    BY <1>3, <1>5
  <2>2. c > 0
    <3>1. PICK x \in xs : TRUE
      OBVIOUS
    <3>2. x \in Nat /\ x < c
      BY <2>1, <3>1
    <3>3. QED
      BY <1>3, <3>2
  <2>3. c - 1 \in Bounds
    BY <1>3, <2>1, <2>2 DEF Bounds
  <2>4. QED
    BY <1>2, <1>3, <2>3
<1>6. QED
  BY <1>4, <1>5

-----------------------------------------------------------------------------
(* The router: v1 is via, v2 tg, v3 platform, v4 db, v5 mem, v6 handler and *)
(* v7 hist.                                                                 *)

RHandler == [msg : 0..RouterMessages, at : R!Points, sess : 0..RouterHandlers]

RPoll == [on : BOOLEAN, batch : SUBSET R!Messages, h : 0..RouterHandlers, offset : 0..RouterMessages]

RHist == [given : [R!Messages -> Nat], failed : [R!Messages -> Nat], troubles : Nat]

\* Past the creation of a session; responsible for its message.
RPast   == {"upsert", "route", "run", "reply", "release", "done", "dead"}
RInHand == {"lookup", "create", "upsert", "route", "run", "reply", "release"}

RTyped ==
  /\ v1 \in {"poll", "webhook"}
  /\ v2 \in RPoll
  /\ v3 \in [confirmed : 0..RouterMessages, answered : SUBSET R!Messages]
  /\ v4 \in [claimed : SUBSET R!Messages, session : 0..RouterHandlers]
  /\ v5 \in [active : SUBSET R!Sessions, sender : BOOLEAN, made : 0..RouterHandlers,
             queue : [R!Sessions -> SUBSET R!Messages]]
  /\ v6 \in [R!Handlers -> RHandler]
  /\ v7 \in RHist
  /\ \A h \in R!Handlers : v6[h].at # "none" => v6[h].msg # 0
  /\ \A h \in R!Handlers : v6[h].at \in {"upsert", "route", "run"} => v6[h].sess # 0

RPassed == {h \in R!Handlers : v6[h].at \in RPast}

\* Handlers are taken in order, and each makes one session at most.
RNumbered ==
  /\ v5.made <= Cardinality(RPassed)
  /\ \E n \in 0..RouterHandlers : \A h \in R!Handlers : v6[h].at # "none" <=> h <= n

\* A claimed message is in one place: with a handler, in a queue, or given.
RCounted ==
  /\ \A h, g \in R!Handlers :
       v6[h].at \in RInHand /\ v6[g].at \in RInHand /\ v6[h].msg = v6[g].msg => h = g
  /\ \A h \in R!Handlers : v6[h].at \in RInHand => v6[h].msg \in v4.claimed
  /\ \A h \in R!Handlers : v6[h].at \in RInHand \ {"run", "reply"} =>
       v7.given[v6[h].msg] <= v7.failed[v6[h].msg]
  /\ \A s \in R!Sessions : \A m \in v5.queue[s] :
       /\ m \in v4.claimed /\ v7.given[m] <= v7.failed[m]
       /\ \A h \in R!Handlers : v6[h].msg = m => v6[h].at \notin RInHand
       /\ \A t \in R!Sessions : m \in v5.queue[t] => t = s
  /\ \A m \in R!Messages : m \notin v4.claimed => v7.given[m] <= v7.failed[m]
  /\ \A m \in R!Messages : v7.given[m] <= 1 + v7.failed[m]

RRunning ==
  /\ \A h \in R!Handlers : v6[h].at = "run" => v6[h].sess \in v5.active
  /\ \A h, g \in R!Handlers :
       v6[h].at = "run" /\ v6[g].at = "run" /\ v6[h].sess = v6[g].sess => h = g

RLow == IF v2.offset >= v3.confirmed THEN v2.offset ELSE v3.confirmed

\* A batch is what lies beyond the offset, its first message with the handler.
RPolled ==
  /\ v2.batch # {} => v2.batch = {m \in R!Messages : m > RLow}
  /\ v2.h # 0 => v2.batch # {} /\ v6[v2.h].at # "none" /\ v6[v2.h].msg = R!Min(v2.batch)
  /\ \A m \in R!Messages : m <= RLow =>
       \E h \in R!Handlers : v6[h].msg = m /\ v6[h].at = "done"
  /\ ~v5.sender => ~v2.on /\ v2.batch = {} /\ v2.h = 0

RInv == RTyped /\ RNumbered /\ RCounted /\ RRunning /\ RPolled

LEMMA RMax ==
  ASSUME NEW a \in Nat, NEW b \in Nat
  PROVE  R!Max({a, b}) = IF a >= b THEN a ELSE b
BY DEF R!Max

LEMMA RMin ==
  ASSUME NEW xs \in SUBSET R!Messages, xs # {}
  PROVE  R!Min(xs) \in xs /\ \A y \in xs : R!Min(xs) <= y
<1>1. xs \in SUBSET Nat
  BY RouterAssumption DEF R!Messages
<1>2. QED
  BY <1>1, LeastNatural DEF R!Min

LEMMA RUsed ==
  ASSUME RTyped, NEW n \in 0..RouterHandlers,
         \A h \in R!Handlers : v6[h].at # "none" <=> h <= n
  PROVE  R!Used = n
<1>1. {h \in R!Handlers : v6[h].at # "none"} = 1..n
  BY RouterAssumption DEF R!Handlers
<1>2. Cardinality(1..n) = n
  BY FS_Interval
<1>3. QED
  BY <1>1, <1>2 DEF R!Used, R!Cardinality, Cardinality, R!IsFiniteSet, IsFiniteSet

LEMMA RInit == R!Init => RInv
<1> SUFFICES ASSUME R!Init PROVE RInv
  OBVIOUS
<1>1. RTyped
  BY RouterAssumption DEF R!Init, RTyped, RPoll, RHist, RHandler, R!NoHandler, R!Points, R!Handlers, R!Messages, R!Sessions
<1>2. \A h \in R!Handlers : v6[h].at = "none"
  BY DEF R!Init, R!NoHandler
<1>3. RNumbered
  <2>1. RPassed = {}
    BY <1>2 DEF RPassed, RPast
  <2>2. v5.made <= Cardinality(RPassed)
    BY <2>1, FS_EmptySet DEF R!Init
  <2>3. \A h \in R!Handlers : v6[h].at # "none" <=> h <= 0
    BY <1>2 DEF R!Handlers
  <2>4. QED
    BY <2>2, <2>3, RouterAssumption DEF RNumbered
<1>4. RCounted
  BY <1>2 DEF RCounted, R!Init, RInHand
<1>5. RRunning
  BY <1>2 DEF RRunning
<1>6. RPolled
  BY RouterAssumption DEF RPolled, RPoll, R!Init, RLow, R!Messages
<1>7. QED
  BY <1>1, <1>3, <1>4, <1>5, <1>6 DEF RInv

\* Handing a message over: the next handler has it.
LEMMA RHanded ==
  ASSUME RTyped, RNumbered, NEW m \in R!Messages, R!Hand(m)
  PROVE  \E g \in R!Handlers :
           /\ g = R!Used + 1 /\ v6[g].at = "none"
           /\ v6' \in [R!Handlers -> RHandler]
           /\ v6'[g].at = "claim" /\ v6'[g].msg = m
           /\ \A h \in R!Handlers : h # g => v6'[h] = v6[h]
           /\ \A h \in R!Handlers : v6'[h].at # "none" <=> h <= g
<1>1. PICK n \in 0..RouterHandlers : \A h \in R!Handlers : v6[h].at # "none" <=> h <= n
  BY DEF RNumbered
<1>2. R!Used = n
  BY <1>1, RUsed
<1>3. n < RouterHandlers /\ n + 1 \in R!Handlers
  BY <1>2, RouterAssumption DEF R!Hand, R!Handlers
<1> DEFINE new == [R!NoHandler EXCEPT !.msg = m, !.at = "claim"]
<1>4. v6' = [v6 EXCEPT ![n + 1] = new]
  BY <1>2 DEF R!Hand
<1>5. new \in RHandler /\ new.msg = m /\ new.at = "claim"
  <2>1. R!NoHandler \in RHandler /\ m \in 0..RouterMessages
    BY RouterAssumption DEF RHandler, R!Points, R!Messages, R!NoHandler
  <2>2. "claim" \in R!Points
    BY DEF R!Points
  <2>3. QED
    BY <2>1, <2>2 DEF RHandler
<1>6. /\ v6' \in [R!Handlers -> RHandler] /\ v6'[n + 1].at = "claim" /\ v6'[n + 1].msg = m
      /\ \A h \in R!Handlers : h # n + 1 => v6'[h] = v6[h]
  BY <1>3, <1>4, <1>5 DEF RTyped, RHist
<1>7. v6[n + 1].at = "none"
  BY <1>1, <1>3
<1>8. \A h \in R!Handlers : v6'[h].at # "none" <=> h <= n + 1
  BY <1>1, <1>3, <1>6 DEF R!Handlers
<1>9. QED
  BY <1>2, <1>3, <1>4, <1>6, <1>7, <1>8

\* A failure that is counted, the poll loop started, stopped.
LEMMA RHistChanged ==
  ASSUME NEW r \in RHist, NEW n \in Nat, NEW f \in [R!Messages -> Nat]
  PROVE  LET u == [r EXCEPT !.troubles = n, !.failed = f]
         IN  u \in RHist /\ u.failed = f /\ u.given = r.given
BY DEF RHist

LEMMA RPollChanged ==
  ASSUME NEW r \in RPoll, NEW on \in BOOLEAN, NEW b \in SUBSET R!Messages,
         NEW h \in 0..RouterHandlers, NEW o \in 0..RouterMessages
  PROVE  /\ [r EXCEPT !.on = on, !.batch = b, !.h = h] \in RPoll
         /\ [r EXCEPT !.on = on, !.offset = o] \in RPoll
BY DEF RPoll

\* A handler that has moved on, and perhaps learnt its session.
LEMMA RMoved ==
  ASSUME RTyped, NEW h \in R!Handlers, NEW at \in R!Points, R!Goto(h, at)
  PROVE  /\ v6' \in [R!Handlers -> RHandler]
         /\ v6'[h].at = at /\ v6'[h].msg = v6[h].msg /\ v6'[h].sess = v6[h].sess
         /\ \A g \in R!Handlers : g # h => v6'[g] = v6[g]
BY DEF RTyped, RHandler, R!Goto

LEMMA RMovedTo ==
  ASSUME RTyped, NEW h \in R!Handlers, NEW at \in R!Points, NEW s \in 0..RouterHandlers,
         v6' = [v6 EXCEPT ![h].sess = s, ![h].at = at]
  PROVE  /\ v6' \in [R!Handlers -> RHandler]
         /\ v6'[h].at = at /\ v6'[h].msg = v6[h].msg /\ v6'[h].sess = s
         /\ \A g \in R!Handlers : g # h => v6'[g] = v6[g]
<1>1. PICK r \in RHandler : r = v6[h]
  BY DEF RTyped, RHist
<1>2. [r EXCEPT !.sess = s, !.at = at] \in RHandler
  BY DEF RHandler
<1>3. v6' = [v6 EXCEPT ![h] = [r EXCEPT !.sess = s, !.at = at]]
  BY <1>1 DEF RTyped, RHist
<1>4. QED
  BY <1>1, <1>2, <1>3 DEF RTyped, RHandler

\* Every step keeps the types.  (What a handler that moved looks like is in
\* RMoved and RMovedTo.)
LEMMA RTypedStep ==
  ASSUME RTyped, RNumbered, R!Next
  PROVE  RTyped'
<1> DEFINE Shapes ==
      /\ v1 \in {"poll", "webhook"} /\ v1' = v1
      /\ v2' \in RPoll
      /\ v3' \in [confirmed : 0..RouterMessages, answered : SUBSET R!Messages]
      /\ v4' \in [claimed : SUBSET R!Messages, session : 0..RouterHandlers]
      /\ v5' \in [active : SUBSET R!Sessions, sender : BOOLEAN, made : 0..RouterHandlers,
                  queue : [R!Sessions -> SUBSET R!Messages]]
      /\ v7' \in RHist
<1> DEFINE Handlers ==
      /\ v6' \in [R!Handlers -> RHandler]
      /\ \A h \in R!Handlers : v6'[h].at # "none" => v6'[h].msg # 0
      /\ \A h \in R!Handlers : v6'[h].at \in {"upsert", "route", "run"} => v6'[h].sess # 0
<1>0. /\ \A h \in R!Handlers : v6[h] \in RHandler /\ v6[h].msg \in 0..RouterMessages
                              /\ v6[h].sess \in 0..RouterHandlers /\ v6[h].at \in R!Points
      /\ \A h \in R!Handlers : v6[h].at # "none" => v6[h].msg \in R!Messages
      /\ \A h \in R!Handlers : v6[h].at \in {"upsert", "route", "run"} => v6[h].sess \in R!Sessions
  BY RouterAssumption DEF RTyped, RHandler, R!Messages, R!Sessions
<1>1. CASE R!Fetch
  <2>1. v2.offset \in Nat /\ v3.confirmed \in Nat
    BY DEF RTyped, RPoll
  <2>2. R!Max({v3.confirmed, v2.offset}) \in 0..RouterMessages
    BY <2>1, RMax DEF RTyped, RPoll
  <2>3. QED
    BY <1>1, <2>2 DEF R!Fetch, RTyped, RPoll
<1>2. CASE R!Dispatch
  <2>1. R!Min(v2.batch) \in R!Messages /\ R!Min(v2.batch) # 0
    <3>1. v2.batch \in SUBSET R!Messages /\ v2.batch # {}
      BY <1>2 DEF R!Dispatch, RTyped, RPoll
    <3>2. R!Min(v2.batch) \in v2.batch
      BY <3>1, RMin
    <3>3. QED
      BY <3>1, <3>2, RouterAssumption DEF R!Messages
  <2>2. PICK g \in R!Handlers :
          /\ g = R!Used + 1 /\ v6' \in [R!Handlers -> RHandler]
          /\ v6'[g].at = "claim" /\ v6'[g].msg = R!Min(v2.batch)
          /\ \A h \in R!Handlers : h # g => v6'[h] = v6[h]
    BY <1>2, <2>1, RHanded DEF R!Dispatch
  <2>3. Handlers
    <3>1. \A h \in R!Handlers : v6'[h] = v6[h] \/ (v6'[h].at = "claim" /\ v6'[h].msg # 0)
      BY <2>1, <2>2
    <3>2. QED
      BY <2>2, <3>1 DEF RTyped, RHist
  <2>4. v2' = [v2 EXCEPT !.h = g] /\ UNCHANGED <<v1, v3, v4, v5, v7>>
    BY <1>2, <2>2 DEF R!Dispatch
  <2>5. Shapes
    <3>1. g \in 0..RouterHandlers
      BY DEF R!Handlers
    <3>2. v2' \in RPoll
      BY <2>4, <3>1 DEF RTyped, RPoll
    <3>3. QED
      BY <2>4, <3>2 DEF RTyped, RHist
  <2>6. QED
    BY <2>3, <2>5 DEF RTyped, RHist
<1>3. CASE R!Advance
  <2>1. v2.h \in R!Handlers /\ v6[v2.h].at = "done"
    BY <1>3, RouterAssumption DEF R!Advance, R!At, RTyped, RPoll, R!Handlers
  <2>2. v6[v2.h].msg \in R!Messages
    BY <1>0, <2>1
  <2>3. R!Max({v2.offset, v6[v2.h].msg}) \in 0..RouterMessages
    <3>1. v2.offset \in 0..RouterMessages /\ v6[v2.h].msg \in 0..RouterMessages
      BY <1>0, <2>1 DEF RTyped, RPoll
    <3>2. QED
      BY <3>1, RMax
  <2>4. v2' \in RPoll
    <3>1. /\ v2' = [v2 EXCEPT !.h = 0, !.batch = v2.batch \ {v6[v2.h].msg},
                             !.offset = R!Max({v2.offset, v6[v2.h].msg})]
          /\ v2 \in RPoll
      BY <1>3 DEF R!Advance, RTyped, RPoll
    <3>2. v2.batch \ {v6[v2.h].msg} \in SUBSET R!Messages /\ 0 \in 0..RouterHandlers
      BY <3>1, RouterAssumption DEF RPoll
    <3>3. QED
      BY <2>3, <3>1, <3>2 DEF RPoll
  <2>5. QED
    BY <1>3, <2>4 DEF R!Advance, RTyped
<1>4. ASSUME NEW m \in R!Messages, R!Post(m) PROVE RTyped'
  <2>1. PICK g \in R!Handlers :
          /\ v6' \in [R!Handlers -> RHandler]
          /\ v6'[g].at = "claim" /\ v6'[g].msg = m
          /\ \A h \in R!Handlers : h # g => v6'[h] = v6[h]
    BY <1>4, RHanded DEF R!Post
  <2>2. Handlers
    <3>1. m # 0
      BY RouterAssumption DEF R!Messages
    <3>2. \A h \in R!Handlers : v6'[h] = v6[h] \/ (v6'[h].at = "claim" /\ v6'[h].msg # 0)
      BY <2>1, <3>1
    <3>3. QED
      BY <2>1, <3>2 DEF RTyped, RHist
  <2>3. QED
    BY <1>4, <2>2 DEF R!Post, RTyped
<1>5. ASSUME NEW h \in R!Handlers, R!Answer(h) PROVE RTyped'
  BY <1>0, <1>5 DEF R!Answer, R!At, RTyped
<1>6. ASSUME NEW h \in R!Handlers, R!Claim(h) PROVE RTyped'
  <2>1. R!Goto(h, IF v6[h].msg \in v4.claimed THEN "done" ELSE "lookup") /\ v6[h].at = "claim"
    BY <1>6 DEF R!Claim, R!At
  <2>2. Handlers
    BY <1>0, <2>1, RMoved DEF R!Points, RTyped
  <2>3. Shapes
    BY <1>0, <1>6, <2>1 DEF R!Claim, RTyped
  <2>4. QED
    BY <2>2, <2>3 DEF RTyped, RHist
<1>7. ASSUME NEW h \in R!Handlers, R!Lookup(h) PROVE RTyped'
  <2>1. /\ v6' = [v6 EXCEPT ![h].sess = v4.session,
                            ![h].at = IF v4.session = 0 THEN "create" ELSE "route"]
        /\ v6[h].at = "lookup" /\ UNCHANGED <<v1, v2, v3, v4, v5, v7>>
    BY <1>7 DEF R!Lookup, R!At
  <2>2. v4.session \in 0..RouterHandlers
    BY DEF RTyped, RHist
  <2>3. Handlers
    <3> DEFINE at == IF v4.session = 0 THEN "create" ELSE "route"
    <3>1. at \in R!Points
      BY DEF R!Points
    <3>2. at = "create" \/ (at = "route" /\ v4.session # 0)
      OBVIOUS
    <3>3. v6' = [v6 EXCEPT ![h].sess = v4.session, ![h].at = at]
      BY <2>1
    <3> HIDE DEF at
    <3>4. /\ v6' \in [R!Handlers -> RHandler]
          /\ v6'[h].at = at /\ v6'[h].msg = v6[h].msg /\ v6'[h].sess = v4.session
          /\ \A g \in R!Handlers : g # h => v6'[g] = v6[g]
      BY <2>2, <3>1, <3>3, RMovedTo
    <3>5. QED
      BY <2>1, <3>2, <3>4 DEF RTyped, RHist
  <2>4. QED
    BY <2>1, <2>3 DEF RTyped, RHist
<1>8. ASSUME NEW h \in R!Handlers, R!CreateSession(h) PROVE RTyped'
  <2>1. v5.made < RouterHandlers
    <3>1. RPassed \in SUBSET (1..RouterHandlers) /\ h \in (1..RouterHandlers) \ RPassed
      BY <1>8 DEF RPassed, RPast, R!Handlers, R!CreateSession, R!At
    <3>2. IsFiniteSet(1..RouterHandlers) /\ Cardinality(1..RouterHandlers) = RouterHandlers
      BY FS_Interval, RouterAssumption
    <3>3. IsFiniteSet(RPassed) /\ Cardinality(RPassed) \in Nat
      BY <3>1, <3>2, FS_Subset, FS_CardinalityType
    <3>4. RPassed \cup {h} \in SUBSET (1..RouterHandlers)
      BY <3>1
    <3>5. Cardinality(RPassed \cup {h}) = Cardinality(RPassed) + 1
      BY <3>1, <3>3, FS_AddElement
    <3>6. Cardinality(RPassed \cup {h}) <= RouterHandlers
      BY <3>2, <3>4, FS_Subset
    <3>7. QED
      BY <3>3, <3>5, <3>6, RouterAssumption DEF RNumbered, RTyped
  <2>2. /\ v6' = [v6 EXCEPT ![h].sess = v5.made + 1, ![h].at = "upsert"] /\ v6[h].at = "create"
        /\ v5' = [v5 EXCEPT !.made = @ + 1] /\ UNCHANGED <<v1, v2, v3, v4, v7>>
    BY <1>8 DEF R!CreateSession, R!At
  <2>3. v5.made + 1 \in 0..RouterHandlers /\ v5.made + 1 # 0
    BY <2>1, RouterAssumption DEF RTyped, RHist
  <2>4. Handlers
    <3> DEFINE s == v5.made + 1
    <3>1. s \in 0..RouterHandlers /\ s # 0
      BY <2>3
    <3> HIDE DEF s
    <3>2. v6' = [v6 EXCEPT ![h].sess = s, ![h].at = "upsert"]
      BY <2>2 DEF s
    <3>3. "upsert" \in R!Points
      BY DEF R!Points
    <3>4. /\ v6' \in [R!Handlers -> RHandler]
          /\ v6'[h].at = "upsert" /\ v6'[h].msg = v6[h].msg /\ v6'[h].sess = s
          /\ \A g \in R!Handlers : g # h => v6'[g] = v6[g]
      BY <3>1, <3>2, <3>3, RMovedTo
    <3>5. QED
      BY <2>2, <3>1, <3>4 DEF RTyped, RHist
  <2>5. Shapes
    BY <2>2, <2>3 DEF RTyped, RHist
  <2>6. QED
    BY <2>4, <2>5 DEF RTyped, RHist
<1>9. ASSUME NEW h \in R!Handlers, R!Upsert(h) PROVE RTyped'
  <2>1. /\ R!Goto(h, "route") /\ v6[h].at = "upsert" /\ UNCHANGED <<v1, v2, v3, v5, v7>>
        /\ v4' = [v4 EXCEPT !.session = IF @ = 0 THEN v6[h].sess ELSE @]
    BY <1>9 DEF R!Upsert, R!At
  <2>2. Handlers
    BY <1>0, <2>1, RMoved DEF R!Points, RTyped
  <2>3. QED
    BY <1>0, <2>1, <2>2 DEF RTyped, RHist
<1>10. ASSUME NEW h \in R!Handlers, R!Enqueue(h) \/ R!StartRun(h) PROVE RTyped'
  <2> DEFINE s == v6[h].sess
             m == v6[h].msg
  <2>1. v6[h].at = "route" /\ s \in R!Sessions /\ m \in R!Messages /\ UNCHANGED <<v1, v2, v3, v4>>
    BY <1>0, <1>10 DEF R!Enqueue, R!StartRun, R!At
  <2>2. Handlers
    <3>1. R!Goto(h, "done") \/ R!Goto(h, "run")
      BY <1>10 DEF R!Enqueue, R!StartRun
    <3>2. QED
      BY <1>0, <2>1, <3>1, RMoved DEF R!Points, RTyped
  <2>3. CASE R!Enqueue(h)
    <3>1. v5' = [v5 EXCEPT !.queue[s] = @ \cup {m}] /\ UNCHANGED v7
      BY <2>3 DEF R!Enqueue
    <3>2. QED
      BY <2>1, <2>2, <3>1 DEF RTyped, RHist
  <2>4. CASE R!StartRun(h)
    <3>1. v5' = [v5 EXCEPT !.active = @ \cup {s}] /\ v7' = [v7 EXCEPT !.given[m] = @ + 1]
      BY <2>4 DEF R!StartRun
    <3>2. QED
      BY <2>1, <2>2, <3>1 DEF RTyped, RHist
  <2>5. QED
    BY <1>10, <2>3, <2>4
<1>11. ASSUME NEW s \in R!Sessions, R!RunDrains(s) PROVE RTyped'
  <2> DEFINE given == [m \in R!Messages |-> v7.given[m] + IF m \in v5.queue[s] THEN 1 ELSE 0]
  <2>1. /\ v5' = [v5 EXCEPT !.queue[s] = {}] /\ UNCHANGED <<v1, v2, v3, v4, v6>>
        /\ v7' = [v7 EXCEPT !.given = given]
    BY <1>11 DEF R!RunDrains, RTyped
  <2>2. given \in [R!Messages -> Nat]
    BY DEF RTyped, RHist
  <2>3. v7' \in RHist
    <3> HIDE DEF given
    <3>1. QED
      BY <2>1, <2>2 DEF RTyped, RHist
  <2>4. QED
    BY <2>1, <2>3 DEF RTyped, RHist
<1>12. ASSUME NEW h \in R!Handlers, R!RunEnds(h) PROVE RTyped'
  <2>1. /\ R!Goto(h, "reply") /\ v6[h].at = "run" /\ UNCHANGED <<v1, v2, v3, v4, v7>>
        /\ v5' = [v5 EXCEPT !.active = @ \ {v6[h].sess}]
    BY <1>12 DEF R!RunEnds, R!At
  <2>2. Handlers
    BY <1>0, <2>1, RMoved DEF R!Points, RTyped
  <2>3. QED
    BY <2>1, <2>2 DEF RTyped, RHist
<1>13. ASSUME NEW h \in R!Handlers, R!DispatchReply(h) PROVE RTyped'
  <2>1. R!Goto(h, "done") /\ v6[h].at = "reply" /\ UNCHANGED <<v1, v2, v3, v4, v5, v7>>
    BY <1>13 DEF R!DispatchReply, R!At
  <2>2. Handlers
    BY <1>0, <2>1, RMoved DEF R!Points, RTyped
  <2>3. QED
    BY <2>1, <2>2 DEF RTyped, RHist
<1>14. ASSUME NEW h \in R!Handlers, R!Fails(h) PROVE RTyped'
  <2>1. /\ R!Goto(h, "release") /\ v6[h].at \in {"lookup", "create", "upsert", "run"}
        /\ UNCHANGED <<v1, v2, v3, v4>>
        /\ v7' = [v7 EXCEPT !.troubles = @ + 1, !.failed[v6[h].msg] = @ + 1]
        /\ v5' = [v5 EXCEPT !.active = IF R!At(h, "run") THEN @ \ {v6[h].sess} ELSE @]
    BY <1>14 DEF R!Fails
  <2>2. Handlers
    BY <1>0, <2>1, RMoved DEF R!Points, RTyped
  <2>3. v7' \in RHist
    <3> DEFINE m == v6[h].msg
    <3>1. m \in R!Messages
      BY <1>0, <2>1
    <3>2. v7' = [v7 EXCEPT !.troubles = v7.troubles + 1,
                           !.failed = [v7.failed EXCEPT ![m] = v7.failed[m] + 1]]
      BY <2>1
    <3>3. v7.troubles + 1 \in Nat /\ [v7.failed EXCEPT ![m] = v7.failed[m] + 1] \in [R!Messages -> Nat]
      BY <3>1 DEF RTyped, RHist
    <3>4. v7 \in RHist
      BY DEF RTyped, RHist
    <3>5. QED
      BY <3>2, <3>3, <3>4, RHistChanged, Zenon
  <2>4. v5' \in [active : SUBSET R!Sessions, sender : BOOLEAN, made : 0..RouterHandlers,
                 queue : [R!Sessions -> SUBSET R!Messages]]
    BY <2>1 DEF RTyped, RHist
  <2>5. QED
    BY <2>1, <2>2, <2>3, <2>4 DEF RTyped, RHist
<1>15. ASSUME NEW h \in R!Handlers, R!Release(h) PROVE RTyped'
  <2>1. /\ R!Goto(h, "done") /\ v6[h].at = "release" /\ UNCHANGED <<v1, v2, v3, v5, v7>>
        /\ v4' = [v4 EXCEPT !.claimed = @ \ {v6[h].msg}]
    BY <1>15 DEF R!Release, R!At
  <2>2. Handlers
    BY <1>0, <2>1, RMoved DEF R!Points, RTyped
  <2>3. QED
    BY <2>1, <2>2 DEF RTyped, RHist
<1>16. CASE R!StopAdapter
  <2>1. v2' = [v2 EXCEPT !.on = FALSE, !.batch = {}, !.h = 0] /\ v5' = [v5 EXCEPT !.sender = FALSE]
    BY <1>16 DEF R!StopAdapter
  <2>2. v2' \in RPoll
    <3>1. v2 \in RPoll /\ FALSE \in BOOLEAN /\ {} \in SUBSET R!Messages /\ 0 \in 0..RouterHandlers /\ 0 \in 0..RouterMessages
      BY RouterAssumption DEF RTyped
    <3>2. [v2 EXCEPT !.on = FALSE, !.batch = {}, !.h = 0] \in RPoll
      BY <3>1, RPollChanged, Zenon
    <3>3. QED
      BY <2>1, <3>2
  <2>3. /\ v7' = [v7 EXCEPT !.troubles = @ + 1]
        /\ UNCHANGED <<v1, v3, v4, v6>>
    BY <1>16 DEF R!StopAdapter, R!Trouble
  <2>4. v7' \in RHist
    BY <2>3 DEF RTyped, RHist
  <2>5. QED
    BY <2>1, <2>2, <2>3, <2>4 DEF RTyped, RHist
<1>17. CASE R!StartAdapter
  <2>1. v2' = [v2 EXCEPT !.on = v1 = "poll", !.offset = 0] /\ v5' = [v5 EXCEPT !.sender = TRUE]
    BY <1>17 DEF R!StartAdapter
  <2>2. v2' \in RPoll
    <3>1. (v1 = "poll") \in BOOLEAN /\ 0 \in 0..RouterMessages /\ v2 \in RPoll
      BY RouterAssumption DEF RTyped, RHist
    <3>2. [v2 EXCEPT !.on = v1 = "poll", !.offset = 0] \in RPoll
      <4>1. {} \in SUBSET R!Messages /\ 0 \in 0..RouterHandlers
        BY RouterAssumption
      <4>2. QED
        BY <3>1, <4>1, RPollChanged, Zenon
    <3>3. QED
      BY <2>1, <3>2
  <2>3. QED
    BY <1>17, <2>1, <2>2 DEF R!StartAdapter, RTyped
<1>18. CASE R!Restart
  <2>1. v6' \in [R!Handlers -> RHandler]
    <3>1. \A h \in R!Handlers : [v6[h] EXCEPT !.at = "dead"] \in RHandler
      BY <1>0 DEF RHandler, R!Points
    <3>2. QED
      BY <1>0, <1>18, <3>1 DEF R!Restart
  <2>2. \A h \in R!Handlers :
          /\ v6'[h].msg = v6[h].msg
          /\ v6[h].at \in {"none", "done"} => v6'[h].at = v6[h].at
          /\ v6[h].at \notin {"none", "done"} => v6'[h].at = "dead"
    BY <1>0, <1>18 DEF R!Restart, RHandler
  <2>3. Handlers
    BY <2>1, <2>2 DEF RTyped, RHist
  <2>4. Shapes
    <3>1. v2' = [on |-> v1 = "poll", batch |-> {}, h |-> 0, offset |-> 0]
      BY <1>18 DEF R!Restart
    <3>2. v2' \in RPoll
      BY <3>1, RouterAssumption DEF RPoll
    <3>3. v5' = [v5 EXCEPT !.active = {}, !.sender = TRUE, !.queue = [s \in R!Sessions |-> {}]]
      BY <1>18 DEF R!Restart
    <3>4. v7' = [v7 EXCEPT !.troubles = @ + 1] /\ UNCHANGED <<v1, v3, v4>>
      BY <1>18 DEF R!Restart, R!Trouble
    <3>5. v7' \in RHist
      BY <3>4 DEF RTyped, RHist
    <3>6. v5' \in [active : SUBSET R!Sessions, sender : BOOLEAN, made : 0..RouterHandlers,
                  queue : [R!Sessions -> SUBSET R!Messages]]
      BY <3>3 DEF RTyped, RHist
    <3>7. QED
      BY <3>2, <3>4, <3>5, <3>6 DEF RTyped, RHist
  <2>5. QED
    BY <2>3, <2>4 DEF RTyped, RHist
<1>19. QED
  BY <1>1, <1>2, <1>3, <1>4, <1>5, <1>6, <1>7, <1>8, <1>9, <1>10, <1>11, <1>12, <1>13, <1>14,
     <1>15, <1>16, <1>17, <1>18 DEF R!Next

\* What a step does to the handlers: one is new, or one goes from a point to
\* the next, or all that were at work are dead.
RNew(g, m) ==
  /\ g = R!Used + 1 /\ v6[g].at = "none" /\ v6'[g].at = "claim" /\ v6'[g].msg = m
  /\ \A h \in R!Handlers : h # g => v6'[h] = v6[h]
  /\ \A h \in R!Handlers : v6'[h].at # "none" <=> h <= g

RMove(h, from, to) ==
  /\ v6[h].at = from /\ v6'[h].at = to /\ v6'[h].msg = v6[h].msg
  /\ \A g \in R!Handlers : g # h => v6'[g] = v6[g]

RDead ==
  \A h \in R!Handlers :
    /\ v6'[h].msg = v6[h].msg
    /\ v6'[h].at = IF v6[h].at \in {"none", "done"} THEN v6[h].at ELSE "dead"

LEMMA RHands ==
  ASSUME RTyped, RNumbered
  PROVE  /\ R!Dispatch => \E g \in R!Handlers : RNew(g, R!Min(v2.batch)) /\ v2' = [v2 EXCEPT !.h = g]
         /\ \A m \in R!Messages : R!Post(m) => \E g \in R!Handlers : RNew(g, m)
<1>1. ASSUME R!Dispatch
      PROVE  \E g \in R!Handlers : RNew(g, R!Min(v2.batch)) /\ v2' = [v2 EXCEPT !.h = g]
  <2>1. v2.batch \in SUBSET R!Messages /\ v2.batch # {}
    BY <1>1 DEF R!Dispatch, RTyped, RPoll
  <2>2. R!Min(v2.batch) \in R!Messages
    BY <2>1, RMin
  <2>3. PICK g \in R!Handlers : RNew(g, R!Min(v2.batch))
    BY <1>1, <2>2, RHanded DEF R!Dispatch, RNew
  <2>4. QED
    BY <1>1, <2>3 DEF R!Dispatch, RNew
<1>2. ASSUME NEW m \in R!Messages, R!Post(m) PROVE \E g \in R!Handlers : RNew(g, m)
  BY <1>2, RHanded DEF R!Post, RNew
<1>3. QED
  BY <1>1, <1>2

LEMMA RMoves ==
  ASSUME RTyped, NEW h \in R!Handlers
  PROVE  /\ R!Claim(h) => RMove(h, "claim", IF v6[h].msg \in v4.claimed THEN "done" ELSE "lookup")
         /\ R!Lookup(h) => RMove(h, "lookup", IF v4.session = 0 THEN "create" ELSE "route")
         /\ R!CreateSession(h) => RMove(h, "create", "upsert")
         /\ R!Upsert(h) => RMove(h, "upsert", "route") /\ v6'[h].sess = v6[h].sess
         /\ R!Enqueue(h) => RMove(h, "route", "done")
         /\ R!StartRun(h) => RMove(h, "route", "run") /\ v6'[h].sess = v6[h].sess
         /\ R!RunEnds(h) => RMove(h, "run", "reply")
         /\ R!DispatchReply(h) => RMove(h, "reply", "done")
         /\ R!Fails(h) => /\ RMove(h, v6[h].at, "release")
                          /\ v6[h].at \in {"lookup", "create", "upsert", "run"}
         /\ R!Release(h) => RMove(h, "release", "done")
<1>0. {"done", "lookup", "create", "upsert", "route", "run", "reply", "release"} \subseteq R!Points
  BY DEF R!Points
<1>1. ASSUME R!Lookup(h) PROVE RMove(h, "lookup", IF v4.session = 0 THEN "create" ELSE "route")
  <2> DEFINE at == IF v4.session = 0 THEN "create" ELSE "route"
  <2>1. at \in R!Points /\ v4.session \in 0..RouterHandlers
    BY <1>0 DEF RTyped
  <2>2. v6' = [v6 EXCEPT ![h].sess = v4.session, ![h].at = at] /\ v6[h].at = "lookup"
    BY <1>1 DEF R!Lookup, R!At
  <2> HIDE DEF at
  <2>3. RMove(h, "lookup", at)
    BY <2>1, <2>2, RMovedTo DEF RMove
  <2>4. QED
    BY <2>3 DEF at
<1>2. ASSUME R!CreateSession(h) PROVE RMove(h, "create", "upsert")
  <2>1. v6' = [v6 EXCEPT ![h].sess = v5.made + 1, ![h].at = "upsert"] /\ v6[h].at = "create"
    BY <1>2 DEF R!CreateSession, R!At
  <2>2. v6[h] \in RHandler
    BY DEF RTyped
  <2>3. QED
    BY <2>1, <2>2 DEF RMove, RTyped, RHandler
<1>3. ASSUME NEW from, NEW to \in R!Points, R!Goto(h, to), v6[h].at = from
      PROVE  RMove(h, from, to) /\ v6'[h].sess = v6[h].sess
  BY <1>3, RMoved DEF RMove
<1>4. R!Claim(h) => RMove(h, "claim", IF v6[h].msg \in v4.claimed THEN "done" ELSE "lookup")
  BY <1>0, <1>3 DEF R!Claim, R!At
<1>5. /\ R!Enqueue(h) => RMove(h, "route", "done")
      /\ R!StartRun(h) => RMove(h, "route", "run") /\ v6'[h].sess = v6[h].sess
  BY <1>0, <1>3 DEF R!Enqueue, R!StartRun, R!At
<1>6. /\ R!Upsert(h) => RMove(h, "upsert", "route") /\ v6'[h].sess = v6[h].sess
      /\ R!RunEnds(h) => RMove(h, "run", "reply")
      /\ R!DispatchReply(h) => RMove(h, "reply", "done")
      /\ R!Release(h) => RMove(h, "release", "done")
  BY <1>0, <1>3 DEF R!Upsert, R!RunEnds, R!DispatchReply, R!Release, R!At
<1>7. R!Fails(h) => /\ RMove(h, v6[h].at, "release")
                    /\ v6[h].at \in {"lookup", "create", "upsert", "run"}
  BY <1>0, <1>3 DEF R!Fails
<1>8. QED
  BY <1>1, <1>2, <1>4, <1>5, <1>6, <1>7

LEMMA RDies == ASSUME RTyped, R!Restart PROVE RDead
<1>1. \A h \in R!Handlers : v6[h] \in RHandler
  BY DEF RTyped
<1>2. QED
  BY <1>1 DEF RDead, R!Restart, RHandler

\* A handler stays in use, its message the same, and what is done is done.
LEMMA ROnwards ==
  ASSUME RTyped, RNumbered, R!Next, NEW h \in R!Handlers, v6[h].at # "none"
  PROVE  /\ v6'[h].at # "none" /\ v6'[h].msg = v6[h].msg
         /\ v6[h].at \in RPast => v6'[h].at \in RPast
         /\ v6[h].at = "done" => v6'[h].at = "done"
<1>1. CASE R!Dispatch \/ \E m \in R!Messages : R!Post(m)
  BY <1>1, RHands DEF RNew
<1>2. CASE \E g \in R!Handlers :
             \/ R!Claim(g) \/ R!Lookup(g) \/ R!CreateSession(g) \/ R!Upsert(g) \/ R!Enqueue(g) \/ R!StartRun(g)
             \/ R!RunEnds(g) \/ R!DispatchReply(g) \/ R!Fails(g) \/ R!Release(g)
  BY <1>2, RMoves DEF RMove, RPast
<1>3. CASE R!Restart
  BY <1>3, RDies DEF RDead, RPast
<1>4. CASE UNCHANGED v6
  BY <1>4
<1>5. QED
  BY <1>1, <1>2, <1>3, <1>4 DEF R!Next, R!Fetch, R!Advance, R!Answer, R!RunDrains, R!StopAdapter, R!StartAdapter

LEMMA RNumberedStep ==
  ASSUME RTyped, RTyped', RNumbered, R!Next
  PROVE  RNumbered'
<1>0. /\ IsFiniteSet(RPassed) /\ IsFiniteSet(RPassed') /\ RPassed \subseteq RPassed'
      /\ Cardinality(RPassed) \in Nat /\ Cardinality(RPassed') \in Nat /\ v5.made \in Nat
  <2>1. RPassed \in SUBSET (1..RouterHandlers) /\ RPassed' \in SUBSET (1..RouterHandlers)
    BY DEF RPassed, R!Handlers
  <2>2. IsFiniteSet(1..RouterHandlers)
    BY FS_Interval, RouterAssumption
  <2>3. IsFiniteSet(RPassed) /\ IsFiniteSet(RPassed')
    BY <2>1, <2>2, FS_Subset
  <2>4. RPassed \subseteq RPassed'
    <3>1. \A h \in RPassed : v6[h].at # "none"
      BY DEF RPassed, RPast
    <3>2. QED
      BY <3>1, ROnwards DEF RPassed
  <2>5. QED
    BY <2>3, <2>4, FS_CardinalityType DEF RTyped
<1>1. v5'.made <= Cardinality(RPassed')
  <2>1. CASE v5'.made = v5.made
    <3>1. Cardinality(RPassed) <= Cardinality(RPassed')
      BY <1>0, FS_Subset
    <3>2. QED
      BY <1>0, <2>1, <3>1 DEF RNumbered
  <2>2. ASSUME NEW h \in R!Handlers, R!CreateSession(h) PROVE v5'.made <= Cardinality(RPassed')
    <3>1. v5'.made = v5.made + 1
      BY <2>2 DEF R!CreateSession, RTyped
    <3>2. RPassed \cup {h} \subseteq RPassed' /\ h \notin RPassed
      BY <1>0, <2>2, RMoves DEF RMove, RPassed, RPast
    <3>3. Cardinality(RPassed \cup {h}) = Cardinality(RPassed) + 1
      BY <1>0, <3>2, FS_AddElement, Zenon
    <3>4. Cardinality(RPassed \cup {h}) <= Cardinality(RPassed')
      BY <1>0, <3>2, FS_Subset
    <3>5. QED
      BY <1>0, <3>1, <3>3, <3>4 DEF RNumbered
  <2>3. (\A h \in R!Handlers : ~R!CreateSession(h)) => v5'.made = v5.made
    BY ZenonT(40) DEF R!Next, R!Fetch, R!Dispatch, R!Advance, R!Post, R!Answer, R!Claim, R!Lookup, R!Upsert,
           R!Enqueue, R!StartRun, R!RunDrains, R!RunEnds, R!DispatchReply, R!Fails, R!Release, R!StopAdapter,
           R!StartAdapter, R!Restart, RTyped
  <2>4. QED
    BY <2>1, <2>2, <2>3
<1>2. \E n \in 0..RouterHandlers : \A h \in R!Handlers : v6'[h].at # "none" <=> h <= n
  <2>1. CASE R!Dispatch \/ \E m \in R!Messages : R!Post(m)
    <3>1. PICK g \in R!Handlers : \A h \in R!Handlers : v6'[h].at # "none" <=> h <= g
      BY <2>1, RHands DEF RNew
    <3>2. g \in 0..RouterHandlers
      BY DEF R!Handlers
    <3>3. QED
      BY <3>1, <3>2
  <2>2. CASE \A h \in R!Handlers : v6'[h].at # "none" <=> v6[h].at # "none"
    BY <2>2 DEF RNumbered
  <2>3. CASE \E g \in R!Handlers :
               \/ R!Claim(g) \/ R!Lookup(g) \/ R!CreateSession(g) \/ R!Upsert(g) \/ R!Enqueue(g) \/ R!StartRun(g)
               \/ R!RunEnds(g) \/ R!DispatchReply(g) \/ R!Fails(g) \/ R!Release(g)
    BY <2>2, <2>3, RMoves DEF RMove
  <2>4. CASE R!Restart
    BY <2>2, <2>4, RDies DEF RDead
  <2>5. QED
    BY <2>1, <2>2, <2>3, <2>4
       DEF R!Next, R!Fetch, R!Advance, R!Answer, R!RunDrains, R!StopAdapter, R!StartAdapter
<1>3. QED
  BY <1>1, <1>2 DEF RNumbered

\* Nothing is claimed or given, and no handler comes to be in charge of a
\* message: the account of the messages stays.
LEMMA RCountedKept ==
  ASSUME RTyped, RTyped', RCounted,
         v4'.claimed = v4.claimed, v7'.given = v7.given, v7'.failed = v7.failed,
         \A s \in R!Sessions : v5'.queue[s] \subseteq v5.queue[s],
         \A h \in R!Handlers : v6'[h].at \in RInHand =>
           /\ v6[h].at \in RInHand /\ v6'[h].msg = v6[h].msg
           /\ v6'[h].at \notin {"run", "reply"} => v6[h].at \notin {"run", "reply"}
  PROVE  RCounted'
BY DEF RCounted

LEMMA RCountedStep ==
  ASSUME RTyped, RTyped', RNumbered, RCounted, R!Next
  PROVE  RCounted'
<1>0. /\ \A h \in R!Handlers : v6[h].at # "none" => v6[h].msg \in R!Messages
      /\ \A h \in R!Handlers : v6[h].at \in {"route", "run"} => v6[h].sess \in R!Sessions
      /\ \A m \in R!Messages : v7.given[m] \in Nat /\ v7.failed[m] \in Nat
      /\ \A s \in R!Sessions : v5.queue[s] \in SUBSET R!Messages
  BY RouterAssumption, SMTT(30) DEF RTyped, RHandler, RHist, R!Messages, R!Sessions
<1>1. CASE R!Fetch \/ R!Advance \/ \E h \in R!Handlers : R!Answer(h)
  BY <1>1, RCountedKept DEF R!Fetch, R!Advance, R!Answer
<1>2. CASE R!StopAdapter \/ R!StartAdapter
  <2>1. /\ UNCHANGED <<v4, v6>> /\ v5'.queue = v5.queue
        /\ v7'.given = v7.given /\ v7'.failed = v7.failed
    BY <1>2 DEF R!StopAdapter, R!StartAdapter, R!Trouble, RTyped, RHist
  <2>2. QED
    BY <2>1, RCountedKept
<1>3. CASE R!Dispatch \/ \E m \in R!Messages : R!Post(m)
  <2>1. PICK g \in R!Handlers : /\ v6'[g].at = "claim"
                                /\ \A h \in R!Handlers : h # g => v6'[h] = v6[h]
    BY <1>3, RHands DEF RNew
  <2>2. UNCHANGED <<v4, v5, v7>>
    BY <1>3 DEF R!Dispatch, R!Post
  <2>3. QED
    BY <2>1, <2>2, RCountedKept DEF RInHand
<1>4. ASSUME NEW h \in R!Handlers,
             R!Lookup(h) \/ R!CreateSession(h) \/ R!Upsert(h) \/ R!RunEnds(h) \/ R!DispatchReply(h)
      PROVE  RCounted'
  <2>1. \A g \in R!Handlers : v6'[g].at \in RInHand =>
          /\ v6[g].at \in RInHand /\ v6'[g].msg = v6[g].msg
          /\ v6'[g].at \notin {"run", "reply"} => v6[g].at \notin {"run", "reply"}
    BY <1>4, RMoves DEF RMove, RInHand
  <2>2. /\ v4'.claimed = v4.claimed /\ UNCHANGED v7 /\ v5'.queue = v5.queue
    BY <1>4 DEF R!Lookup, R!CreateSession, R!Upsert, R!RunEnds, R!DispatchReply, RTyped
  <2>3. QED
    BY <2>1, <2>2, RCountedKept
<1>5. CASE R!Restart
  <2>1. \A h \in R!Handlers : v6'[h].at \notin RInHand
    BY <1>5, RDies DEF RDead, RInHand
  <2>2. /\ UNCHANGED v4 /\ v7'.given = v7.given /\ v7'.failed = v7.failed
        /\ \A s \in R!Sessions : v5'.queue[s] = {}
    BY <1>5 DEF R!Restart, R!Trouble, RTyped, RHist
  <2>3. QED
    BY <2>1, <2>2, RCountedKept
<1>6. ASSUME NEW h \in R!Handlers, R!Claim(h) PROVE RCounted'
  <2> DEFINE m == v6[h].msg
  <2>1. /\ UNCHANGED <<v5, v7>> /\ v4'.claimed = v4.claimed \cup {m} /\ m \in R!Messages
        /\ RMove(h, "claim", IF m \in v4.claimed THEN "done" ELSE "lookup")
    BY <1>0, <1>6, RMoves DEF R!Claim, R!At, RTyped
  <2>2. CASE m \in v4.claimed
    <3>1. v4'.claimed = v4.claimed
      BY <2>1, <2>2
    <3>2. \A g \in R!Handlers : v6'[g].at \in RInHand => v6'[g] = v6[g]
      BY <2>1, <2>2 DEF RMove, RInHand
    <3>3. QED
      BY <2>1, <3>1, <3>2, RCountedKept
  <2>3. CASE m \notin v4.claimed
    <3>1. /\ v7.given[m] <= v7.failed[m]
          /\ \A g \in R!Handlers : v6[g].msg = m => v6[g].at \notin RInHand
          /\ \A s \in R!Sessions : m \notin v5.queue[s]
      BY <2>1, <2>3 DEF RCounted
    <3>2. v6'[h].at = "lookup" /\ v6'[h].msg = m /\ \A g \in R!Handlers : g # h => v6'[g] = v6[g]
      BY <2>1, <2>3 DEF RMove
    <3>3. /\ \A x, y \in R!Handlers :
               v6'[x].at \in RInHand /\ v6'[y].at \in RInHand /\ v6'[x].msg = v6'[y].msg => x = y
          /\ \A x \in R!Handlers : v6'[x].at \in RInHand => v6'[x].msg \in v4'.claimed
          /\ \A x \in R!Handlers : v6'[x].at \in RInHand \ {"run", "reply"} =>
               v7'.given[v6'[x].msg] <= v7'.failed[v6'[x].msg]
      BY <2>1, <3>1, <3>2 DEF RCounted
    <3>4. \A s \in R!Sessions : \A k \in v5'.queue[s] :
            /\ k \in v4'.claimed /\ v7'.given[k] <= v7'.failed[k]
            /\ \A x \in R!Handlers : v6'[x].msg = k => v6'[x].at \notin RInHand
            /\ \A t \in R!Sessions : k \in v5'.queue[t] => t = s
      BY <2>1, <3>1, <3>2 DEF RCounted
    <3>5. QED
      BY <2>1, <3>3, <3>4 DEF RCounted
  <2>4. QED
    BY <2>2, <2>3
<1>7. ASSUME NEW h \in R!Handlers, R!Enqueue(h) \/ R!StartRun(h) PROVE RCounted'
  <2> DEFINE m == v6[h].msg
             s == v6[h].sess
  <2>1. /\ UNCHANGED v4 /\ m \in R!Messages /\ s \in R!Sessions /\ v6[h].at = "route"
    BY <1>0, <1>7 DEF R!Enqueue, R!StartRun, R!At
  <2>2. /\ m \in v4.claimed /\ v7.given[m] <= v7.failed[m]
        /\ \A g \in R!Handlers : g # h /\ v6[g].msg = m => v6[g].at \notin RInHand
        /\ \A t \in R!Sessions : m \notin v5.queue[t]
    BY <2>1 DEF RCounted, RInHand
  <2>3. CASE R!Enqueue(h)
    <3>1. /\ v5'.queue = [v5.queue EXCEPT ![s] = @ \cup {m}] /\ UNCHANGED v7
      BY <2>3 DEF R!Enqueue, RTyped
    <3>2. /\ \A t \in R!Sessions : v5'.queue[t] = IF t = s THEN v5.queue[s] \cup {m} ELSE v5.queue[t]
      BY <3>1 DEF RTyped
    <3>3. v6'[h].at = "done" /\ v6'[h].msg = m /\ \A g \in R!Handlers : g # h => v6'[g] = v6[g]
      BY <2>3, RMoves DEF RMove
    <3>4. /\ \A x, y \in R!Handlers :
               v6'[x].at \in RInHand /\ v6'[y].at \in RInHand /\ v6'[x].msg = v6'[y].msg => x = y
          /\ \A x \in R!Handlers : v6'[x].at \in RInHand => v6'[x].msg \in v4'.claimed
          /\ \A x \in R!Handlers : v6'[x].at \in RInHand \ {"run", "reply"} =>
               v7'.given[v6'[x].msg] <= v7'.failed[v6'[x].msg]
      BY <2>1, <3>1, <3>3 DEF RCounted, RInHand
    <3>5. ASSUME NEW t \in R!Sessions, NEW k \in v5'.queue[t]
          PROVE  /\ k \in v4'.claimed /\ v7'.given[k] <= v7'.failed[k]
                 /\ \A x \in R!Handlers : v6'[x].msg = k => v6'[x].at \notin RInHand
                 /\ \A u \in R!Sessions : k \in v5'.queue[u] => u = t
      <4>1. CASE k = m
        BY <2>1, <2>2, <3>1, <3>2, <3>3, <3>5, <4>1 DEF RInHand
      <4>2. CASE k # m
        <5>1. k \in v5.queue[t]
          BY <3>2, <3>5, <4>2
        <5>2. QED
          BY <2>1, <3>1, <3>2, <3>3, <4>2, <5>1 DEF RCounted
      <4>3. QED
        BY <4>1, <4>2
    <3>6. QED
      BY <2>1, <3>1, <3>4, <3>5 DEF RCounted
  <2>4. CASE R!StartRun(h)
    <3>1. /\ v5'.queue = v5.queue /\ v7'.given = [v7.given EXCEPT ![m] = @ + 1] /\ v7'.failed = v7.failed
      BY <2>4 DEF R!StartRun, RTyped, RHist
    <3>2. \A k \in R!Messages : v7'.given[k] = IF k = m THEN v7.given[m] + 1 ELSE v7.given[k]
      BY <3>1 DEF RTyped, RHist
    <3>3. v6'[h].at = "run" /\ v6'[h].msg = m /\ \A g \in R!Handlers : g # h => v6'[g] = v6[g]
      BY <2>4, RMoves DEF RMove
    <3>4. /\ \A x, y \in R!Handlers :
               v6'[x].at \in RInHand /\ v6'[y].at \in RInHand /\ v6'[x].msg = v6'[y].msg => x = y
          /\ \A x \in R!Handlers : v6'[x].at \in RInHand => v6'[x].msg \in v4'.claimed
      BY <2>1, <2>2, <3>3 DEF RCounted, RInHand
    <3>5. ASSUME NEW x \in R!Handlers, v6'[x].at \in RInHand \ {"run", "reply"}
          PROVE  v7'.given[v6'[x].msg] <= v7'.failed[v6'[x].msg]
      <4>1. x # h /\ v6'[x] = v6[x] /\ v6[x].msg # m
        BY <2>2, <3>3, <3>5
      <4>2. v6[x].msg \in R!Messages /\ v7.given[v6[x].msg] <= v7.failed[v6[x].msg]
        BY <1>0, <3>5, <4>1 DEF RCounted, RInHand
      <4>3. QED
        BY <3>1, <3>2, <4>1, <4>2
    <3>6. ASSUME NEW t \in R!Sessions, NEW k \in v5'.queue[t]
          PROVE  /\ k \in v4'.claimed /\ v7'.given[k] <= v7'.failed[k]
                 /\ \A x \in R!Handlers : v6'[x].msg = k => v6'[x].at \notin RInHand
                 /\ \A u \in R!Sessions : k \in v5'.queue[u] => u = t
      <4>1. k \in v5.queue[t] /\ k # m /\ k \in R!Messages
        BY <1>0, <2>2, <3>1, <3>6
      <4>2. QED
        BY <2>1, <3>1, <3>2, <3>3, <4>1 DEF RCounted
    <3>7. /\ \A k \in R!Messages : k \notin v4'.claimed => v7'.given[k] <= v7'.failed[k]
          /\ \A k \in R!Messages : v7'.given[k] <= 1 + v7'.failed[k]
      BY <1>0, <2>1, <2>2, <3>1, <3>2 DEF RCounted
    <3>8. QED
      BY <3>4, <3>5, <3>6, <3>7 DEF RCounted
  <2>5. QED
    BY <1>7, <2>3, <2>4
<1>8. ASSUME NEW s \in R!Sessions, R!RunDrains(s) PROVE RCounted'
  <2> DEFINE q == v5.queue[s]
  <2>1. /\ UNCHANGED <<v4, v6>> /\ q \in SUBSET R!Messages
        /\ v7'.failed = v7.failed /\ v5'.queue = [v5.queue EXCEPT ![s] = {}]
        /\ v7'.given = [m \in R!Messages |-> v7.given[m] + IF m \in q THEN 1 ELSE 0]
    BY <1>0, <1>8 DEF R!RunDrains, RTyped, RHist
  <2>2. /\ \A m \in R!Messages : v7'.given[m] = IF m \in q THEN v7.given[m] + 1 ELSE v7.given[m]
        /\ \A t \in R!Sessions : v5'.queue[t] = IF t = s THEN {} ELSE v5.queue[t]
    BY <1>0, <2>1 DEF RTyped
  <2>3. \A m \in q : /\ m \in v4.claimed /\ v7.given[m] <= v7.failed[m]
                     /\ \A x \in R!Handlers : v6[x].msg = m => v6[x].at \notin RInHand
                     /\ \A t \in R!Sessions : m \in v5.queue[t] => t = s
    BY <2>1 DEF RCounted
  <2>4. ASSUME NEW x \in R!Handlers, v6'[x].at \in RInHand \ {"run", "reply"}
        PROVE  v7'.given[v6'[x].msg] <= v7'.failed[v6'[x].msg]
    <3>1. v6[x].msg \in R!Messages /\ v6[x].msg \notin q
      BY <1>0, <2>1, <2>3, <2>4 DEF RInHand
    <3>2. QED
      BY <2>1, <2>2, <2>4, <3>1 DEF RCounted
  <2>5. ASSUME NEW t \in R!Sessions, NEW k \in v5'.queue[t]
        PROVE  /\ k \in v4'.claimed /\ v7'.given[k] <= v7'.failed[k]
               /\ \A x \in R!Handlers : v6'[x].msg = k => v6'[x].at \notin RInHand
               /\ \A u \in R!Sessions : k \in v5'.queue[u] => u = t
    <3>1. k \in v5.queue[t] /\ k \in R!Messages /\ t # s
      BY <1>0, <2>2, <2>5
    <3>2. k \notin q
      BY <2>3, <3>1
    <3>3. QED
      BY <2>1, <2>2, <3>1, <3>2 DEF RCounted
  <2>6. /\ \A k \in R!Messages : k \notin v4'.claimed => v7'.given[k] <= v7'.failed[k]
        /\ \A k \in R!Messages : v7'.given[k] <= 1 + v7'.failed[k]
    BY <1>0, <2>1, <2>2, <2>3 DEF RCounted
  <2>7. QED
    BY <2>1, <2>4, <2>5, <2>6 DEF RCounted
<1>9. ASSUME NEW h \in R!Handlers, R!Fails(h) PROVE RCounted'
  <2> DEFINE m == v6[h].msg
  <2>1. /\ UNCHANGED v4 /\ m \in R!Messages /\ v5'.queue = v5.queue
        /\ v7'.given = v7.given /\ v7'.failed = [v7.failed EXCEPT ![m] = @ + 1]
        /\ RMove(h, v6[h].at, "release") /\ v6[h].at \in RInHand
    <3>1. v6[h].at \in {"lookup", "create", "upsert", "run"} /\ RMove(h, v6[h].at, "release")
      BY <1>9, RMoves
    <3>2. /\ UNCHANGED v4 /\ v5' = [v5 EXCEPT !.active = IF R!At(h, "run") THEN @ \ {v6[h].sess} ELSE @]
          /\ v7' = [v7 EXCEPT !.troubles = @ + 1, !.failed[m] = @ + 1]
      BY <1>9 DEF R!Fails
    <3>3. QED
      BY <1>0, <3>1, <3>2 DEF RTyped, RHist, RInHand
  <2>2. /\ \A k \in R!Messages : v7'.failed[k] = IF k = m THEN v7.failed[m] + 1 ELSE v7.failed[k]
        /\ v6'[h].at = "release" /\ v6'[h].msg = m
        /\ \A g \in R!Handlers : g # h => v6'[g] = v6[g]
    BY <2>1 DEF RMove, RTyped, RHist
  <2>3. v7.given[m] <= 1 + v7.failed[m] /\ m \in v4.claimed
    BY <2>1 DEF RCounted
  <2>4. /\ \A x, y \in R!Handlers :
             v6'[x].at \in RInHand /\ v6'[y].at \in RInHand /\ v6'[x].msg = v6'[y].msg => x = y
        /\ \A x \in R!Handlers : v6'[x].at \in RInHand => v6'[x].msg \in v4'.claimed
    BY <2>1, <2>2, <2>3 DEF RCounted
  <2>5. ASSUME NEW x \in R!Handlers, v6'[x].at \in RInHand \ {"run", "reply"}
        PROVE  v7'.given[v6'[x].msg] <= v7'.failed[v6'[x].msg]
    <3>1. CASE x = h
      BY <1>0, <2>1, <2>2, <2>3, <3>1
    <3>2. CASE x # h
      <4>1. v6'[x] = v6[x] /\ v6[x].msg \in R!Messages
        BY <1>0, <2>2, <2>5, <3>2 DEF RInHand
      <4>2. QED
        BY <1>0, <2>1, <2>2, <2>5, <4>1 DEF RCounted
    <3>3. QED
      BY <3>1, <3>2
  <2>6. ASSUME NEW t \in R!Sessions, NEW k \in v5'.queue[t]
        PROVE  /\ k \in v4'.claimed /\ v7'.given[k] <= v7'.failed[k]
               /\ \A x \in R!Handlers : v6'[x].msg = k => v6'[x].at \notin RInHand
               /\ \A u \in R!Sessions : k \in v5'.queue[u] => u = t
    <3>1. k \in v5.queue[t] /\ k \in R!Messages
      BY <1>0, <2>1, <2>6
    <3>2. k # m
      BY <2>1, <3>1 DEF RCounted
    <3>3. QED
      BY <2>1, <2>2, <3>1, <3>2 DEF RCounted
  <2>7. /\ \A k \in R!Messages : k \notin v4'.claimed => v7'.given[k] <= v7'.failed[k]
        /\ \A k \in R!Messages : v7'.given[k] <= 1 + v7'.failed[k]
    BY <1>0, <2>1, <2>2 DEF RCounted
  <2>8. QED
    BY <2>4, <2>5, <2>6, <2>7 DEF RCounted
<1>10. ASSUME NEW h \in R!Handlers, R!Release(h) PROVE RCounted'
  <2> DEFINE m == v6[h].msg
  <2>1. /\ UNCHANGED <<v5, v7>> /\ m \in R!Messages /\ v4'.claimed = v4.claimed \ {m}
        /\ RMove(h, "release", "done")
    BY <1>0, <1>10, RMoves DEF R!Release, R!At, RTyped
  <2>2. /\ v6[h].at = "release" /\ v6'[h].at = "done"
        /\ \A g \in R!Handlers : g # h => v6'[g] = v6[g]
    BY <2>1 DEF RMove
  <2>3. /\ v7.given[m] <= v7.failed[m]
        /\ \A g \in R!Handlers : g # h /\ v6[g].msg = m => v6[g].at \notin RInHand
        /\ \A t \in R!Sessions : m \notin v5.queue[t]
    BY <2>1, <2>2 DEF RCounted, RInHand
  <2>4. /\ \A x, y \in R!Handlers :
             v6'[x].at \in RInHand /\ v6'[y].at \in RInHand /\ v6'[x].msg = v6'[y].msg => x = y
        /\ \A x \in R!Handlers : v6'[x].at \in RInHand => v6'[x].msg \in v4'.claimed
        /\ \A x \in R!Handlers : v6'[x].at \in RInHand \ {"run", "reply"} =>
             v7'.given[v6'[x].msg] <= v7'.failed[v6'[x].msg]
    BY <2>1, <2>2, <2>3 DEF RCounted, RInHand
  <2>5. ASSUME NEW t \in R!Sessions, NEW k \in v5'.queue[t]
        PROVE  /\ k \in v4'.claimed /\ v7'.given[k] <= v7'.failed[k]
               /\ \A x \in R!Handlers : v6'[x].msg = k => v6'[x].at \notin RInHand
               /\ \A u \in R!Sessions : k \in v5'.queue[u] => u = t
    <3>1. k \in v5.queue[t] /\ k # m
      BY <2>1, <2>3, <2>5
    <3>2. /\ k \in v4.claimed /\ v7.given[k] <= v7.failed[k]
          /\ \A x \in R!Handlers : v6[x].msg = k => v6[x].at \notin RInHand
          /\ \A u \in R!Sessions : k \in v5.queue[u] => u = t
      BY <3>1 DEF RCounted
    <3>3. \A x \in R!Handlers : v6'[x].msg = k => v6'[x].at \notin RInHand
      BY <2>2, <3>2 DEF RInHand
    <3>4. QED
      BY <2>1, <3>1, <3>2, <3>3
  <2>6. QED
    BY <2>1, <2>3, <2>4, <2>5 DEF RCounted
<1>11. QED
  BY <1>1, <1>2, <1>3, <1>4, <1>5, <1>6, <1>7, <1>8, <1>9, <1>10 DEF R!Next

LEMMA RRunningStep ==
  ASSUME RTyped, RNumbered, RRunning, R!Next
  PROVE  RRunning'
<1>1. ASSUME \A h \in R!Handlers : v6'[h].at = "run" => v6'[h] = v6[h],
             v5.active \subseteq v5'.active
      PROVE  RRunning'
  BY <1>1 DEF RRunning
<1>2. CASE \/ R!Fetch \/ R!Advance \/ R!StopAdapter \/ R!StartAdapter
           \/ \E h \in R!Handlers : R!Answer(h)
           \/ \E s \in R!Sessions : R!RunDrains(s)
  <2>1. UNCHANGED v6 /\ v5'.active = v5.active
    BY <1>2 DEF R!Fetch, R!Advance, R!StopAdapter, R!StartAdapter, R!Answer, R!RunDrains, RTyped
  <2>2. QED
    BY <1>1, <2>1
<1>3. CASE R!Dispatch \/ \E m \in R!Messages : R!Post(m)
  <2>1. PICK g \in R!Handlers : /\ v6'[g].at = "claim"
                                /\ \A h \in R!Handlers : h # g => v6'[h] = v6[h]
    BY <1>3, RHands DEF RNew
  <2>2. UNCHANGED v5
    BY <1>3 DEF R!Dispatch, R!Post
  <2>3. QED
    BY <1>1, <2>1, <2>2
<1>4. ASSUME NEW h \in R!Handlers,
             \/ R!Claim(h) \/ R!Lookup(h) \/ R!CreateSession(h) \/ R!Upsert(h)
             \/ R!DispatchReply(h) \/ R!Release(h)
      PROVE  RRunning'
  <2>1. \A g \in R!Handlers : v6'[g].at = "run" => v6'[g] = v6[g]
    BY <1>4, RMoves DEF RMove
  <2>2. v5'.active = v5.active
    BY <1>4 DEF R!Claim, R!Lookup, R!CreateSession, R!Upsert, R!DispatchReply, R!Release, RTyped
  <2>3. QED
    BY <1>1, <2>1, <2>2
<1>5. ASSUME NEW h \in R!Handlers, R!Enqueue(h) \/ R!StartRun(h) PROVE RRunning'
  <2>1. CASE R!Enqueue(h)
    <3>1. RMove(h, "route", "done") /\ v5'.active = v5.active
      BY <2>1, RMoves DEF R!Enqueue, RTyped
    <3>2. QED
      BY <3>1 DEF RMove, RRunning
  <2>2. CASE R!StartRun(h)
    <3>1. /\ RMove(h, "route", "run") /\ v6'[h].sess = v6[h].sess
          /\ v6[h].sess \notin v5.active /\ v5'.active = v5.active \cup {v6[h].sess}
      BY <2>2, RMoves DEF R!StartRun, RTyped
    <3>2. QED
      BY <3>1 DEF RMove, RRunning
  <2>3. QED
    BY <1>5, <2>1, <2>2
<1>6. ASSUME NEW h \in R!Handlers, R!RunEnds(h) \/ R!Fails(h) PROVE RRunning'
  <2>1. /\ v6'[h].at # "run" /\ \A g \in R!Handlers : g # h => v6'[g] = v6[g]
    BY <1>6, RMoves DEF RMove
  <2>2. v5'.active = IF v6[h].at = "run" THEN v5.active \ {v6[h].sess} ELSE v5.active
    BY <1>6 DEF R!RunEnds, R!Fails, R!At, RTyped
  <2>3. QED
    BY <2>1, <2>2 DEF RRunning
<1>7. CASE R!Restart
  BY <1>7, RDies DEF RDead, RRunning
<1>8. QED
  BY <1>2, <1>3, <1>4, <1>5, <1>6, <1>7 DEF R!Next

LEMMA RPolledStep ==
  ASSUME RTyped, RTyped', RNumbered, RPolled, R!Next
  PROVE  RPolled'
<1>0. /\ v2.offset \in 0..RouterMessages /\ v3.confirmed \in 0..RouterMessages
      /\ v2.batch \in SUBSET R!Messages /\ RLow \in Nat /\ v2.h \in 0..RouterHandlers
      /\ R!Messages \subseteq Nat
  BY RouterAssumption DEF RTyped, RPoll, RLow, R!Messages
\* What is done stays done.
<1>1. ASSUME NEW m \in R!Messages, m <= RLow
      PROVE  \E h \in R!Handlers : v6'[h].msg = m /\ v6'[h].at = "done"
  <2>1. PICK h \in R!Handlers : v6[h].msg = m /\ v6[h].at = "done"
    BY <1>1 DEF RPolled
  <2>2. QED
    BY <2>1, ROnwards
<1>2. ASSUME v2.h # 0
      PROVE  v6'[v2.h].at # "none" /\ v6'[v2.h].msg = v6[v2.h].msg /\ v2.h \in R!Handlers
  <2>1. v2.h \in R!Handlers /\ v6[v2.h].at # "none"
    BY <1>0, <1>2, RouterAssumption DEF RPolled, R!Handlers
  <2>2. QED
    BY <2>1, ROnwards
<1>3. ASSUME v2'.batch = v2.batch, v2'.h = v2.h, v2'.offset = v2.offset, v2'.on = v2.on,
             v3'.confirmed = v3.confirmed, v5'.sender = v5.sender
      PROVE  RPolled'
  <2>1. RLow' = RLow
    BY <1>3 DEF RLow
  <2>2. QED
    BY <1>1, <1>2, <1>3, <2>1 DEF RPolled
<1>4. CASE R!Fetch
  <2>1. /\ v2.h = 0 /\ UNCHANGED v6
        /\ v3' = [v3 EXCEPT !.confirmed = RLow]
        /\ v2' = [v2 EXCEPT !.batch = {m \in R!Messages : m > RLow}]
    <3>1. R!Max({v3.confirmed, v2.offset}) = RLow
      BY <1>0, RMax DEF RLow
    <3>2. QED
      BY <1>4, <3>1 DEF R!Fetch
  <2>2. /\ v3'.confirmed = RLow /\ v2'.offset = v2.offset /\ v2'.h = 0
        /\ v2'.batch = {m \in R!Messages : m > RLow}
    BY <2>1 DEF RTyped, RPoll
  <2>3. RLow' = RLow
    BY <1>0, <2>2 DEF RLow
  <2>4. QED
    <3>1. v5'.sender
      BY <1>4 DEF R!Fetch, RPolled
    <3>2. QED
      BY <1>1, <2>2, <2>3, <3>1 DEF RPolled
<1>5. CASE R!Dispatch
  <2>1. PICK g \in R!Handlers : RNew(g, R!Min(v2.batch)) /\ v2' = [v2 EXCEPT !.h = g]
    BY <1>5, RHands
  <2>2. v2'.h = g /\ v2'.batch = v2.batch /\ v2'.offset = v2.offset /\ UNCHANGED v3 /\ v2.batch # {}
    BY <1>5, <2>1 DEF RTyped, RPoll, R!Dispatch
  <2>3. RLow' = RLow
    BY <2>2 DEF RLow
  <2>4. R!Min(v2'.batch) = R!Min(v2.batch)
    BY <2>2
  <2>5. QED
    <3>1. v5'.sender
      BY <1>5 DEF R!Dispatch, RPolled
    <3>2. QED
      BY <1>1, <2>1, <2>2, <2>3, <2>4, <3>1 DEF RPolled, RNew
<1>6. CASE R!Advance
  <2> DEFINE m == v6[v2.h].msg
  <2>1. /\ v2.h # 0 /\ v6[v2.h].at = "done" /\ v2.batch # {} /\ m = R!Min(v2.batch)
        /\ v2.batch = {k \in R!Messages : k > RLow} /\ v2.h \in R!Handlers /\ v5.sender
    BY <1>2, <1>6 DEF R!Advance, R!At, RPolled
  <2>2. m \in R!Messages /\ m \in Nat /\ m > RLow /\ \A k \in R!Messages : k > RLow => m <= k
    <3>1. m \in v2.batch /\ \A k \in v2.batch : m <= k
      BY <1>0, <2>1, RMin, ZenonT(40)
    <3>2. QED
      BY <1>0, <2>1, <3>1
  <2>3. /\ UNCHANGED <<v3, v6>> /\ v2'.h = 0 /\ v2'.batch = v2.batch \ {m} /\ v2'.offset = m
    <3>1. R!Max({v2.offset, m}) = m
      BY <1>0, <2>2, RMax DEF RLow
    <3>2. v2 \in RPoll
      BY DEF RTyped
    <3>3. v2' = [v2 EXCEPT !.h = 0, !.batch = v2.batch \ {m}, !.offset = m] /\ UNCHANGED <<v3, v6>>
      BY <1>6, <3>1, <3>2 DEF R!Advance, RPoll
    <3>4. QED
      BY <3>2, <3>3 DEF RPoll
  <2>4. RLow' = m
    BY <1>0, <2>2, <2>3 DEF RLow
  <2>5. v2'.batch = {k \in R!Messages : k > m}
    <3>1. ASSUME NEW k PROVE k \in v2.batch \ {m} <=> k \in R!Messages /\ k > m
      <4>1. k \in v2.batch <=> k \in R!Messages /\ k > RLow
        BY <2>1
      <4>2. CASE k \in R!Messages
        <5>1. k \in Nat /\ (k > RLow => m <= k)
          BY <1>0, <2>2, <4>2
        <5>2. QED
          BY <1>0, <2>2, <4>1, <4>2, <5>1
      <4>3. QED
        BY <4>1, <4>2
    <3>2. QED
      BY <2>3, <3>1
  <2>6. ASSUME NEW k \in R!Messages, k <= m
        PROVE  \E h \in R!Handlers : v6'[h].msg = k /\ v6'[h].at = "done"
    <3>1. CASE k <= RLow
      BY <1>1, <3>1
    <3>2. CASE k > RLow
      <4>1. k = m
        BY <1>0, <2>2, <2>6, <3>2
      <4>2. QED
        BY <2>1, <2>3, <4>1
    <3>3. QED
      BY <1>0, <3>1, <3>2
  <2>7. QED
    <3>1. v5'.sender
      BY <1>6, <2>1 DEF R!Advance
    <3>2. QED
      BY <2>3, <2>4, <2>5, <2>6, <3>1 DEF RPolled
<1>7. CASE R!StopAdapter
  <2>1. v2'.batch = {} /\ v2'.h = 0 /\ v2'.offset = v2.offset /\ ~v2'.on /\ UNCHANGED v3
    <3>1. v2 \in RPoll /\ v2' = [v2 EXCEPT !.on = FALSE, !.batch = {}, !.h = 0]
      BY <1>7 DEF R!StopAdapter, RTyped
    <3>2. QED
      BY <1>7, <3>1 DEF R!StopAdapter, RPoll
  <2>2. RLow' = RLow
    BY <2>1 DEF RLow
  <2>3. QED
    BY <1>1, <2>1, <2>2 DEF RPolled
<1>8. CASE R!StartAdapter \/ R!Restart
  <2>1. v2'.offset = 0 /\ v2'.batch = {} /\ v2'.h = 0 /\ v5'.sender /\ UNCHANGED v3
    <3>1. CASE R!StartAdapter
      <4>1. v2 \in RPoll /\ v2' = [v2 EXCEPT !.on = v1 = "poll", !.offset = 0]
        BY <3>1 DEF R!StartAdapter, RTyped
      <4>2. v2.batch = {} /\ v2.h = 0
        BY <3>1 DEF R!StartAdapter, RPolled
      <4>3. v5'.sender /\ UNCHANGED v3
        BY <3>1 DEF R!StartAdapter, RTyped
      <4>4. QED
        BY <4>1, <4>2, <4>3 DEF RPoll
    <3>2. CASE R!Restart
      BY <3>2 DEF R!Restart, RTyped
    <3>3. QED
      BY <1>8, <3>1, <3>2
  <2>2. RLow' = v3.confirmed /\ v3.confirmed <= RLow
    BY <1>0, <2>1 DEF RLow
  <2>3. \A m \in R!Messages : m <= RLow' =>
          \E h \in R!Handlers : v6'[h].msg = m /\ v6'[h].at = "done"
    BY <1>0, <1>1, <2>2
  <2>4. QED
    BY <2>1, <2>3 DEF RPolled
<1>9. ASSUME UNCHANGED <<v2, v3>>, v5'.sender = v5.sender PROVE RPolled'
  BY <1>3, <1>9
<1>10. ASSUME NEW h \in R!Handlers, R!Answer(h) PROVE RPolled'
  <2>1. UNCHANGED <<v2, v5>> /\ v3'.confirmed = v3.confirmed
    BY <1>10 DEF R!Answer, RTyped
  <2>2. QED
    BY <1>3, <2>1
<1>11. CASE \/ \E m \in R!Messages : R!Post(m)
            \/ \E h \in R!Handlers :
                 \/ R!Claim(h) \/ R!Lookup(h) \/ R!CreateSession(h) \/ R!Upsert(h) \/ R!Enqueue(h) \/ R!StartRun(h)
                 \/ R!RunEnds(h) \/ R!DispatchReply(h) \/ R!Fails(h) \/ R!Release(h)
            \/ \E s \in R!Sessions : R!RunDrains(s)
  <2>1. UNCHANGED <<v2, v3>> /\ v5'.sender = v5.sender
    BY <1>11, ZenonT(40) DEF R!Post, R!Claim, R!Lookup, R!CreateSession, R!Upsert, R!Enqueue, R!StartRun, R!RunDrains,
                 R!RunEnds, R!DispatchReply, R!Fails, R!Release, RTyped
  <2>2. QED
    BY <1>9, <2>1
<1>12. QED
  BY <1>4, <1>5, <1>6, <1>7, <1>8, <1>10, <1>11 DEF R!Next

\* The first session a chat is given is the one it keeps.
LEMMA RSessionKept ==
  ASSUME RTyped, R!Next, v4.session # 0
  PROVE  v4'.session = v4.session
BY Zenon DEF R!Next, R!Fetch, R!Dispatch, R!Advance, R!Post, R!Answer, R!Claim, R!Lookup, R!CreateSession,
       R!Upsert, R!Enqueue, R!StartRun, R!RunDrains, R!RunEnds, R!DispatchReply, R!Fails, R!Release, R!StopAdapter,
       R!StartAdapter, R!Restart, RTyped

-----------------------------------------------------------------------------
(* The adapters: v1 is creds, v2 adapters, v4 polls, v6 todo, v7 op and v8   *)
(* bounds.                                                                  *)

AConfigs == [A!Platforms -> A!Configs \cup {A!None}]
ACommand == [kind : {"start", "save", "restore"}, p : A!Platforms, c : A!Configs]
ABounds  == [commands : Nat, failures : Nat, proven : SUBSET (A!Platforms \X A!Configs)]

ATyped ==
  /\ v1 \in AConfigs /\ v2 \in AConfigs /\ v4 \in BOOLEAN
  /\ v6 \in SUBSET A!Platforms
  /\ v7 = A!Free \/ v7 \in ACommand
  /\ v8 \in ABounds

\* What is left to restore is stored and not up, and nothing is typed before
\* the last of it; a platform that is being started is not up.
AStarting ==
  /\ \A p \in v6 : v1[p] # A!None /\ v2[p] = A!None
  /\ v7.kind \in {"start", "save"} => v6 = {}
  /\ v7.kind \in {"start", "restore"} => v2[v7.p] = A!None /\ v7.p \notin v6

AProven ==
  /\ \A p \in A!Platforms : v1[p] # A!None => <<p, v1[p]>> \in v8.proven
  /\ v7.kind = "save" => <<v7.p, v7.c>> \in v8.proven

AInv == ATyped /\ AStarting /\ AProven /\ (v4 <=> v2["telegram"] # A!None)

LEMMA ANone == A!None \notin A!Configs /\ "telegram" \in A!Platforms /\ A!Free.kind = "free"
BY DEF A!None, A!Configs, A!Platforms, A!Free

\* Counting a command and a failure forgets no configuration.
LEMMA ACounted ==
  ASSUME v8 \in ABounds, NEW n \in Nat, NEW m \in Nat,
         \/ v8' = [v8 EXCEPT !.commands = n, !.failures = m]
         \/ v8' = [v8 EXCEPT !.failures = m]
  PROVE  v8' \in ABounds /\ v8'.proven = v8.proven
BY DEF ABounds

LEMMA AFailures ==
  ASSUME v8 \in ABounds
  PROVE  \A f \in BOOLEAN : v8.failures + (IF f THEN 1 ELSE 0) \in Nat
BY DEF ABounds

LEMMA AInit == A!Init => AInv
<1> SUFFICES ASSUME A!Init PROVE AInv
  OBVIOUS
<1>1. v1 = [p \in A!Platforms |-> A!None] /\ v2 = v1 /\ v4 = FALSE /\ v6 = {} /\ v7 = A!Free
  BY DEF A!Init
<1>2. v8 \in ABounds
  BY DEF A!Init, ABounds
<1>3. ATyped
  BY <1>1, <1>2 DEF ATyped, AConfigs
<1>4. QED
  BY <1>1, <1>3, ANone DEF AInv, AStarting, AProven

\* Every step keeps it.
LEMMA AInvStep == AInv /\ [A!Next]_(A!svars) => AInv'
<1> SUFFICES ASSUME AInv, [A!Next]_(A!svars) PROVE AInv'
  OBVIOUS
<1> USE ANone
<1>0. /\ v1 \in AConfigs /\ v2 \in AConfigs /\ v4 \in BOOLEAN /\ v6 \in SUBSET A!Platforms
      /\ v7 = A!Free \/ v7 \in ACommand
      /\ v8 \in ABounds /\ v8.commands + 1 \in Nat
      /\ v8.failures + 1 \in Nat /\ v8.failures + 0 \in Nat
      /\ v4 <=> v2["telegram"] # A!None
  BY DEF AInv, ATyped, ABounds
<1>1. ASSUME NEW p \in A!Platforms, NEW c \in A!Configs, A!BeginConnect(p, c)
      PROVE  AInv'
  <2>1. /\ v7 = A!Free /\ v6 = {} /\ v7' = [kind |-> "start", p |-> p, c |-> c]
        /\ v2' = [v2 EXCEPT ![p] = A!None] /\ v1' = v1 /\ v6' = v6
        /\ v4' = (v4 /\ ~ (p = "telegram" /\ v2[p] # A!None))
    BY <1>0, <1>1 DEF A!BeginConnect, A!Stopped
  <2>2. v8' \in ABounds /\ v8'.proven = v8.proven
    <3>1. PICK m \in Nat : v8' = [v8 EXCEPT !.commands = v8.commands + 1, !.failures = m]
      BY <1>0, <1>1, AFailures, Zenon DEF A!BeginConnect, A!Failed
    <3>2. QED
      BY <1>0, <3>1, ACounted, Zenon
  <2>3. v2' \in AConfigs /\ v2'[p] = A!None /\ \A q \in A!Platforms \ {p} : v2'[q] = v2[q]
    BY <1>0, <2>1 DEF AConfigs
  <2>4. v7' \in ACommand /\ v7'.kind = "start" /\ v7'.p = p
    BY <1>1, <2>1 DEF ACommand
  <2>5. ATyped'
    BY <1>0, <2>1, <2>2, <2>3, <2>4 DEF ATyped
  <2>6. AStarting'
    BY <2>1, <2>3, <2>4 DEF AStarting
  <2>7. AProven'
    BY <1>0, <2>1, <2>2, <2>4 DEF AInv, AProven
  <2>8. v4' <=> v2'["telegram"] # A!None
    BY <1>0, <2>1, <2>3
  <2>9. QED
    BY <2>5, <2>6, <2>7, <2>8 DEF AInv
<1>2. ASSUME NEW p \in A!Platforms, A!Disconnect(p)
      PROVE  AInv'
  <2>1. /\ v7 = A!Free /\ v6 = {} /\ v7' = v7
        /\ v2' = [v2 EXCEPT ![p] = A!None] /\ v6' = v6
        /\ v1' = v1 \/ v1' = [v1 EXCEPT ![p] = A!None]
        /\ v4' = (v4 /\ ~ (p = "telegram" /\ v2[p] # A!None))
    BY <1>0, <1>2 DEF A!Disconnect, A!Stopped
  <2>2. v8' \in ABounds /\ v8'.proven = v8.proven
    <3>1. PICK m \in Nat : v8' = [v8 EXCEPT !.commands = v8.commands + 1, !.failures = m]
      BY <1>0, <1>2, AFailures, Zenon DEF A!Disconnect, A!Failed
    <3>2. QED
      BY <1>0, <3>1, ACounted, Zenon
  <2>3. v2' \in AConfigs /\ v2'[p] = A!None /\ \A q \in A!Platforms \ {p} : v2'[q] = v2[q]
    BY <1>0, <2>1 DEF AConfigs
  <2>4. v1' \in AConfigs /\ \A q \in A!Platforms : v1'[q] = v1[q] \/ v1'[q] = A!None
    BY <1>0, <2>1 DEF AConfigs
  <2>5. ATyped'
    BY <1>0, <2>1, <2>2, <2>3, <2>4 DEF ATyped
  <2>6. AStarting'
    BY <2>1 DEF AStarting
  <2>7. AProven'
    BY <1>0, <2>1, <2>2, <2>4 DEF AInv, AProven
  <2>8. v4' <=> v2'["telegram"] # A!None
    BY <1>0, <2>1, <2>3
  <2>9. QED
    BY <2>5, <2>6, <2>7, <2>8 DEF AInv
<1>3. ASSUME NEW p \in A!Platforms, A!Restore(p)
      PROVE  AInv'
  <2>1. /\ v7 = A!Free /\ p \in v6 /\ v6' = v6 \ {p}
        /\ v7' = [kind |-> "restore", p |-> p, c |-> v1[p]]
        /\ UNCHANGED <<v1, v2, v4, v8>>
    BY <1>3 DEF A!Restore
  <2>2. v1[p] \in A!Configs /\ v2[p] = A!None
    BY <1>0, <2>1 DEF AInv, AStarting, AConfigs
  <2>3. v7' \in ACommand /\ v7'.kind = "restore" /\ v7'.p = p
    BY <1>3, <2>1, <2>2 DEF ACommand
  <2>4. ATyped'
    BY <1>0, <2>1, <2>3 DEF ATyped
  <2>5. AStarting'
    BY <2>1, <2>2, <2>3 DEF AInv, AStarting
  <2>6. AProven'
    BY <2>1, <2>3 DEF AInv, AProven
  <2>7. QED
    BY <1>0, <2>1, <2>4, <2>5, <2>6 DEF AInv
<1>4. CASE A!Spawn
  <2>1. /\ v7.kind \in {"start", "restore"} /\ v7 \in ACommand
        /\ v7.p \in A!Platforms /\ v7.c \in A!Configs
        /\ v2[v7.p] = A!None
    BY <1>0, <1>4 DEF A!Spawn, ACommand, AInv, AStarting
  <2>2. PICK fails \in A!StartFails \cup {"no"} : LET s == A!Started(v7.p, v7.c, fails) IN
          /\ v4' = s.polls
          /\ IF s.ok
             THEN /\ v2' = [v2 EXCEPT ![v7.p] = v7.c]
                  /\ v7' = IF v7.kind = "start" THEN [v7 EXCEPT !.kind = "save"] ELSE A!Free
                  /\ v8' = [v8 EXCEPT !.proven = v8.proven \cup {<<v7.p, v7.c>>}]
             ELSE /\ v7' = A!Free /\ v2' = v2
                  /\ v8' = [v8 EXCEPT !.failures = v8.failures + (IF fails # "no" THEN 1 ELSE 0)]
    BY <1>4 DEF A!Spawn, A!Failed
  <2> DEFINE s == A!Started(v7.p, v7.c, fails)
  <2>3. s.ok \in BOOLEAN /\ s.polls = IF v7.p = "telegram" THEN s.ok ELSE v4
    <3>1. CASE v7.p = "telegram"
      BY <3>1 DEF A!Started
    <3>2. CASE v7.p # "telegram"
      BY <3>2 DEF A!Started
    <3>3. QED
      BY <3>1, <3>2
  <2> HIDE DEF s
  <2>4. UNCHANGED <<v1, v6>>
    BY <1>4 DEF A!Spawn
  <2>5. PICK x \in A!Platforms \X A!Configs : x = <<v7.p, v7.c>>
    BY <2>1
  <2>6. CASE s.ok
    <3>1. /\ v2' \in AConfigs /\ v2'[v7.p] = v7.c /\ \A q \in A!Platforms \ {v7.p} : v2'[q] = v2[q]
      BY <1>0, <2>1, <2>2, <2>6 DEF AConfigs, s
    <3>2. v8' \in ABounds /\ v8'.proven = v8.proven \cup {<<v7.p, v7.c>>}
      <4>1. v8' = [v8 EXCEPT !.proven = v8.proven \cup {x}]
        BY <2>2, <2>5, <2>6 DEF s
      <4>2. QED
        BY <1>0, <2>5, <4>1 DEF ABounds
    <3>3. /\ v7' = A!Free \/ (v7' \in ACommand /\ v7'.kind = "save" /\ v7'.p = v7.p /\ v7'.c = v7.c)
          /\ v7'.kind # "free" => v7.kind = "start"
      BY <2>1, <2>2, <2>6 DEF s, ACommand
    <3>4. ATyped'
      BY <1>0, <2>2, <2>3, <2>4, <3>1, <3>2, <3>3 DEF ATyped, s
    <3>5. v7.p \notin v6'
      BY <1>0, <2>1, <2>4 DEF AInv, AStarting
    <3>6. AStarting'
      BY <1>0, <2>1, <2>4, <3>1, <3>3, <3>5 DEF AInv, AStarting
    <3>7. AProven'
      BY <1>0, <2>4, <3>2, <3>3 DEF AInv, AProven
    <3>8. v4' <=> v2'["telegram"] # A!None
      BY <1>0, <2>1, <2>2, <2>3, <2>6, <3>1 DEF s
    <3>9. QED
      BY <3>4, <3>6, <3>7, <3>8 DEF AInv
  <2>7. CASE ~s.ok
    <3>1. v7' = A!Free /\ v2' = v2
      BY <2>2, <2>7 DEF s
    <3>2. v8' \in ABounds /\ v8'.proven = v8.proven
      <4>1. PICK m \in Nat : v8' = [v8 EXCEPT !.failures = m]
        <5>1. v8.failures + (IF fails # "no" THEN 1 ELSE 0) \in Nat
          BY <1>0
        <5>2. QED
          BY <2>2, <2>7, <5>1 DEF s
      <4>2. QED
        BY <1>0, <4>1, ACounted, Zenon
    <3>3. ATyped'
      BY <1>0, <2>2, <2>3, <2>4, <3>1, <3>2 DEF ATyped, s
    <3>4. AStarting'
      BY <2>4, <3>1 DEF AInv, AStarting
    <3>5. AProven'
      BY <2>4, <3>1, <3>2 DEF AInv, AProven
    <3>6. v4' <=> v2'["telegram"] # A!None
      BY <1>0, <2>1, <2>2, <2>3, <2>7, <3>1 DEF s
    <3>7. QED
      BY <3>3, <3>4, <3>5, <3>6 DEF AInv
  <2>8. QED
    BY <2>6, <2>7
<1>5. CASE A!Save
  <2>1. /\ v7.kind = "save" /\ v7 \in ACommand /\ v7' = A!Free
        /\ UNCHANGED <<v2, v4, v6>> /\ v6 = {}
        /\ v7.p \in A!Platforms /\ v7.c \in A!Configs
    BY <1>0, <1>5 DEF A!Save, ACommand, AInv, AStarting
  <2>2. PICK f \in BOOLEAN :
          /\ v1' = IF f THEN v1 ELSE [v1 EXCEPT ![v7.p] = v7.c]
          /\ v8' = [v8 EXCEPT !.failures = v8.failures + (IF f THEN 1 ELSE 0)]
    BY <1>5 DEF A!Save, A!Failed
  <2>3. v8' \in ABounds /\ v8'.proven = v8.proven
    <3>1. PICK m \in Nat : v8' = [v8 EXCEPT !.failures = m]
      BY <1>0, <2>2, AFailures
    <3>2. QED
      BY <1>0, <3>1, ACounted, Zenon
  <2>4. v1' \in AConfigs /\ \A q \in A!Platforms : v1'[q] = v1[q] \/ (q = v7.p /\ v1'[q] = v7.c)
    BY <1>0, <2>1, <2>2 DEF AConfigs
  <2>5. ATyped'
    BY <1>0, <2>1, <2>3, <2>4 DEF ATyped
  <2>6. AStarting'
    BY <2>1 DEF AStarting
  <2>7. AProven'
    BY <1>0, <2>1, <2>3, <2>4 DEF AInv, AProven
  <2>8. QED
    BY <1>0, <2>1, <2>5, <2>6, <2>7 DEF AInv
<1>6. CASE A!Restart
  <2>1. /\ v2' = [p \in A!Platforms |-> A!None] /\ v4' = FALSE /\ v7' = A!Free
        /\ v6' = {p \in A!Platforms : v1[p] # A!None} /\ v1' = v1
        /\ v8' = [v8 EXCEPT !.failures = v8.failures + 1]
    BY <1>6 DEF A!Restart
  <2>2. v8' \in ABounds /\ v8'.proven = v8.proven
    <3>1. PICK m \in Nat : v8' = [v8 EXCEPT !.failures = m]
      BY <1>0, <2>1
    <3>2. QED
      BY <1>0, <3>1, ACounted, Zenon
  <2>3. v2' \in AConfigs /\ \A p \in A!Platforms : v2'[p] = A!None
    BY <2>1 DEF AConfigs
  <2>4. QED
    BY <1>0, <2>1, <2>2, <2>3 DEF AInv, ATyped, AStarting, AProven
<1>7. CASE UNCHANGED A!svars
  BY <1>7 DEF A!svars, AInv, ATyped, AStarting, AProven
<1>8. QED
  BY <1>1, <1>2, <1>3, <1>4, <1>5, <1>6, <1>7 DEF A!Next

LEMMA AInvKnows == AInv => A!OnlyKnownAdapters
BY DEF AInv, AProven, A!OnlyKnownAdapters

-----------------------------------------------------------------------------
(* A provider's turn: v1 is api, v2 turn, v3 stream and v4 shown.            *)

PTurn   == [at : {"open", "stream", "returned", "raised"}, attempt : Nat,
            model : {"primary", "fallback"}, widened : BOOLEAN]
PStream == [begun : BOOLEAN, text : Nat,
            call : [seen : BOOLEAN, name : BOOLEAN, args : {"none", "part", "whole"}],
            final : BOOLEAN]
PShown  == [text : Nat, stalled : BOOLEAN]

PTyped == v2 \in PTurn /\ v3 \in PStream /\ v4 \in PShown

\* Between streams nothing was shown, while one is read what it has delivered,
\* unless one stalled after it had shown something.
PTold ==
  /\ v2.at = "open" => v4.stalled \/ v4.text = 0
  /\ v2.at \in {"stream", "returned"} => v4.stalled \/ v4.text = v3.text

PInv == PTyped /\ PTold

LEMMA PInit == P!Init => PInv
<1> SUFFICES ASSUME P!Init PROVE PInv
  OBVIOUS
<1>1. P!Fresh \in PStream
  BY DEF P!Fresh, P!NoCall, PStream
<1>2. v2 \in PTurn /\ v4 \in PShown /\ v3 \in PStream
  BY <1>1 DEF P!Init, PTurn, PShown
<1>3. QED
  BY <1>2 DEF P!Init, PInv, PTyped, PTold

\* Giving up and trying again end the stream, or leave the attempt before it.
LEMMA PGivesUp ==
  ASSUME PInv, P!RetryOrFallBack \/ P!RetryOrRaise \/ P!Raise
  PROVE  v2' \in PTurn /\ v2'.at \in {"open", "raised"}
<1>1. v2 \in PTurn
  BY DEF PInv, PTyped
<1>2. CASE P!Raise
  BY <1>1, <1>2 DEF P!Raise, PTurn
<1>3. CASE v2' = [v2 EXCEPT !.at = "open", !.attempt = @ + 1]
  <2>1. PICK n : n = v2.attempt + 1
    OBVIOUS
  <2>2. v2.attempt \in Nat
    BY <1>1 DEF PTurn
  <2>3. n \in Nat
    BY <2>1, <2>2
  <2>4. v2' = [v2 EXCEPT !.at = "open", !.attempt = n]
    BY <1>3, <2>1
  <2>5. QED
    BY <1>1, <2>3, <2>4 DEF PTurn
<1>4. CASE v2' = [at |-> "open", attempt |-> 1, model |-> "fallback", widened |-> FALSE]
  BY <1>4 DEF PTurn
<1>5. QED
  BY <1>2, <1>3, <1>4 DEF P!RetryOrFallBack, P!RetryOrRaise

LEMMA PInvStep == PInv /\ [P!Next]_(P!pvars) => PInv'
<1> SUFFICES ASSUME PInv, [P!Next]_(P!pvars) PROVE PInv'
  OBVIOUS
<1>1. v2 \in PTurn /\ v3 \in PStream /\ v4 \in PShown
  BY DEF PInv, PTyped
<1>2. CASE UNCHANGED P!pvars
  BY <1>2 DEF P!pvars, PInv, PTyped, PTold
<1>3. CASE P!Opens
  <2>1. P!Fresh \in PStream /\ P!Fresh.text = 0
    BY DEF P!Fresh, P!NoCall, PStream
  <2>2. v2' \in PTurn /\ v2'.at = "stream"
    BY <1>1, <1>3 DEF P!Opens, PTurn
  <2>3. QED
    BY <1>1, <1>3, <2>1, <2>2 DEF P!Opens, PInv, PTyped, PTold
<1>4. ASSUME NEW status \in {"final", "busy"}, P!Refused(status) PROVE PInv'
  <2>1. v2' \in PTurn /\ v2'.at \in {"open", "raised"}
    BY <1>4, PGivesUp DEF P!Refused
  <2>2. QED
    BY <1>1, <1>4, <2>1 DEF P!Refused, PInv, PTyped, PTold
<1>5. CASE P!NoProvider
  <2>1. v2' \in PTurn /\ v2'.at \in {"open", "raised"}
    <3>1. CASE v2' = [v2 EXCEPT !.at = "raised"]
      BY <1>1, <3>1 DEF PTurn
    <3>2. CASE v2' = [v2 EXCEPT !.attempt = @ + 1, !.widened = TRUE]
      <4>1. PICK n : n = v2.attempt + 1
        OBVIOUS
      <4>2. v2.attempt \in Nat
        BY <1>1 DEF PTurn
      <4>3. n \in Nat
        BY <4>1, <4>2
      <4>4. v2' = [v2 EXCEPT !.attempt = n, !.widened = TRUE]
        BY <3>2, <4>1
      <4>5. QED
        BY <1>1, <1>5, <4>3, <4>4 DEF PTurn, P!NoProvider
    <3>3. QED
      BY <1>5, <3>1, <3>2 DEF P!NoProvider
  <2>2. QED
    BY <1>1, <1>5, <2>1 DEF P!NoProvider, PInv, PTyped, PTold
<1>6. CASE P!Begins
  <2>1. v3' \in PStream /\ v3'.text = v3.text /\ v2.at = "stream"
    BY <1>1, <1>6 DEF P!Begins, P!Reading, PStream
  <2>2. QED
    BY <1>1, <1>6, <2>1 DEF P!Begins, PInv, PTyped, PTold
<1>7. CASE P!Text
  <2>1. PICK n : n = v3.text + 1
    OBVIOUS
  <2>2. PICK m : m = v4.text + 1
    OBVIOUS
  <2>3. v3.text \in Nat /\ v4.text \in Nat
    BY <1>1 DEF PStream, PShown
  <2>4. n \in Nat /\ m \in Nat /\ (v4.text = v3.text => m = n)
    BY <2>1, <2>2, <2>3
  <2>5. v3' = [v3 EXCEPT !.text = n] /\ v4' = [v4 EXCEPT !.text = m]
    BY <1>7, <2>1, <2>2 DEF P!Text
  <2>6. /\ v3' \in PStream /\ v3'.text = n
        /\ v4' \in PShown /\ v4'.text = m /\ v4'.stalled = v4.stalled
    BY <1>1, <2>4, <2>5 DEF PStream, PShown
  <2>7. v2.at = "stream" /\ v2' = v2
    BY <1>7 DEF P!Text, P!Reading
  <2>8. QED
    BY <1>1, <2>4, <2>6, <2>7 DEF PInv, PTyped, PTold
<1>8. ASSUME NEW name \in BOOLEAN, NEW args \in {"none", "part", "whole"},
             P!Fragment(name, args)
      PROVE  PInv'
  <2>1. PICK c : c = [seen |-> TRUE, name |-> v3.call.name \/ name, args |-> args]
    OBVIOUS
  <2>2. v3' = [v3 EXCEPT !.call = c]
    BY <1>8, <2>1 DEF P!Fragment
  <2>3. (v3.call.name \/ name) \in BOOLEAN
    OBVIOUS
  <2>4. c \in [seen : BOOLEAN, name : BOOLEAN, args : {"none", "part", "whole"}]
    BY <2>1, <2>3
  <2>5. v3' \in PStream /\ v3'.text = v3.text
    BY <1>1, <2>2, <2>4 DEF PStream
  <2>6. v2.at = "stream" /\ v2' = v2 /\ v4' = v4
    BY <1>8 DEF P!Fragment, P!Reading
  <2>7. QED
    BY <1>1, <2>5, <2>6 DEF PInv, PTyped, PTold
<1>9. CASE P!Final
  <2>1. v3' \in PStream /\ v3'.text = v3.text /\ v2.at = "stream"
    BY <1>1, <1>9 DEF P!Final, P!Reading, PStream
  <2>2. QED
    BY <1>1, <1>9, <2>1 DEF P!Final, PInv, PTyped, PTold
<1>10. ASSUME NEW transient \in BOOLEAN, P!ErrorEvent(transient) PROVE PInv'
  <2>1. v2' \in PTurn /\ v2'.at \in {"open", "raised"}
    BY <1>10, PGivesUp DEF P!ErrorEvent
  <2>2. v2'.at = "open" => v3.text = 0
    <3>1. P!Raise => v2'.at = "raised"
      BY <1>1 DEF P!Raise, PTurn
    <3>2. QED
      BY <1>10, <3>1 DEF P!ErrorEvent, P!Clean
  <2>3. v2.at = "stream" /\ v3' = v3 /\ v4' = v4
    BY <1>10 DEF P!ErrorEvent, P!Waiting
  <2>4. QED
    BY <1>1, <2>1, <2>2, <2>3 DEF PInv, PTyped, PTold
<1>11. CASE P!TimesOut
  <2>1. v2' \in PTurn /\ v2'.at \in {"open", "raised"}
    BY <1>11, PGivesUp DEF P!TimesOut
  <2>2. PICK b : b = (v4.stalled \/ v3.text > 0)
    OBVIOUS
  <2>3. b \in BOOLEAN
    BY <2>2
  <2>4. v4' = [v4 EXCEPT !.stalled = b]
    BY <1>11, <2>2 DEF P!TimesOut
  <2>5. v4' \in PShown /\ v4'.text = v4.text /\ v4'.stalled = b
    BY <1>1, <2>3, <2>4 DEF PShown
  <2>6. v2.at = "stream" /\ v3' = v3
    BY <1>11 DEF P!TimesOut, P!Waiting
  <2>7. v3.text \in Nat
    BY <1>1 DEF PStream
  <2>8. b \/ v4.text = 0
    <3>1. v4.stalled \/ v4.text = v3.text
      BY <2>6 DEF PInv, PTold
    <3>2. v3.text > 0 \/ v3.text = 0
      BY <2>7
    <3>3. QED
      BY <2>2, <3>1, <3>2, Zenon
  <2>9. QED
    BY <1>1, <2>1, <2>5, <2>6, <2>8 DEF PInv, PTyped, PTold
<1>12. CASE P!Ends
  <2>1. PICK a : a = IF P!Accepted THEN "returned" ELSE "raised"
    OBVIOUS
  <2>2. v2' = [v2 EXCEPT !.at = a]
    BY <1>12, <2>1 DEF P!Ends
  <2>3. v2' \in PTurn /\ v2'.at = a
    BY <1>1, <2>1, <2>2 DEF PTurn
  <2>4. v2.at = "stream" /\ v3' = v3 /\ v4' = v4 /\ v1' = v1
    BY <1>12 DEF P!Ends
  <2>5. QED
    BY <1>1, <2>1, <2>3, <2>4 DEF PInv, PTyped, PTold
<1>13. QED
  BY <1>2, <1>3, <1>4, <1>5, <1>6, <1>7, <1>8, <1>9, <1>10, <1>11, <1>12 DEF P!Next

LEMMA PInvShown == PInv => P!ReturnsWhatWasShown
BY DEF PInv, PTold, P!ReturnsWhatWasShown

-----------------------------------------------------------------------------
(* The MCP client: v2 is manager, v3 client, v4 server, v5 call and v6 mrun. *)

MBusy    == {"init", "spawn", "write", "respawn", "read", "closing"}
MWaiting == {"read", "respawn"}
MBegins  == {"spawn", "write"} \cup MWaiting
MRequest == Nat \X McpCalls \X {"none", "initialize", "tools"}
MLine    == MRequest \cup {<<>>}

MManager == [cached : 0..McpProcs, lock : McpCalls \cup {M!Nobody}, made : 0..McpProcs]
MClient  == [proc : 0..McpProcs, ready : BOOLEAN, init : McpCalls \cup {M!Nobody},
             req : McpCalls \cup {M!Nobody}, next : Nat]
MServer  == [live : BOOLEAN, shook : BOOLEAN, owner : 0..McpProcs,
             asked : SUBSET MRequest, out : Seq(MLine)]
MRunT    == [on : BOOLEAN, bad : Nat, cut : SUBSET (0..McpProcs),
             displaced : SUBSET (0..McpProcs)]
MCall    == [at : {"none", "lookup", "done"} \cup MBusy, k : 0..McpProcs, building : BOOLEAN,
             kind : {"none", "initialize", "tools"}, id : Nat, p : 0..McpProcs, got : MLine]

MTyped ==
  /\ v2 \in MManager /\ v3 \in [M!Procs -> MClient] /\ v4 \in [M!Procs -> MServer]
  /\ v5 \in [McpCalls -> MCall]
  /\ v6 \in MRunT

\* The call that builds a client has the manager's lock; the others at work
\* use the client that is cached, and between runs there is none.
MLocked ==
  /\ \A c \in McpCalls :
       /\ v5[c].building <=> v2.lock = c
       /\ v5[c].building => v2.cached = 0 /\ v5[c].at \in MBusy
       /\ v5[c].building /\ v5[c].at \in MBegins => v5[c].kind = "initialize"
       /\ v5[c].at \in MBusy => v5[c].k \in 1..v2.made /\ (~v5[c].building => v5[c].k = v2.cached)
  /\ v2.cached <= v2.made
  /\ ~v6.on => v2.cached = 0 /\ \A c \in McpCalls : v5[c].at = "none"

\* A live process is one that an interrupt or another process made the client
\* lose, the cached client's, that of the client being built, or one whose end
\* is waited for.
MHolds(c, p) ==
  \/ v5[c].building /\ p = v3[v5[c].k].proc
  \/ v5[c].at = "closing" /\ p = v5[c].p

MHeld(p) ==
  \/ p \in v6.cut \cup v6.displaced
  \/ v2.cached # 0 /\ p = v3[v2.cached].proc
  \/ \E c \in McpCalls : MHolds(c, p)

MOwned == \A p \in M!Procs : v4[p].live => MHeld(p)

\* What a process was asked and has not answered, or has written.
MSays(s) == {r \in MRequest \ {<<>>} : r \in s.asked \/ \E i \in 1..Len(s.out) : s.out[i] = r}

\* The ids a client has used are below its next one; the id a call waits for
\* is of no other call's request.
MAsked ==
  /\ \A k \in M!Procs : v3[k].proc # 0 => v4[v3[k].proc].owner = k
  /\ \A p \in M!Procs : v4[p].owner = 0 => ~v4[p].live /\ MSays(v4[p]) = {}
  /\ \A p \in M!Procs : v4[p].owner # 0 => \A r \in MSays(v4[p]) : r[1] < v3[v4[p].owner].next

MReads(c) ==
  /\ v3[v5[c].k].req = c
  /\ v5[c].at = "read" =>
       v3[v5[c].k].proc # 0 /\ v5[c].p # 0 /\ v4[v5[c].p].owner = v5[c].k
  /\ v5[c].id < v3[v5[c].k].next
  /\ \A p \in M!Procs : v4[p].owner = v5[c].k =>
       \A r \in MSays(v4[p]) : r[1] = v5[c].id => r[2] = c

MAnswered ==
  \A c \in McpCalls :
    /\ v5[c].at \in MWaiting => MReads(c)
    /\ v5[c].got # <<>> => v5[c].got[2] = c

MInv == MTyped /\ MLocked /\ MOwned /\ MAsked /\ MAnswered

\* The parts of MReads, in a next state.
LEMMA MReadsNow ==
  ASSUME NEW d, NEW e, v5'[d] = e,
         v3'[e.k].req = d,
         e.at = "read" => v3'[e.k].proc # 0 /\ e.p # 0 /\ v4'[e.p].owner = e.k,
         e.id < v3'[e.k].next,
         \A p \in M!Procs : v4'[p].owner = e.k =>
           \A r \in MSays(v4'[p]) : r[1] = e.id => r[2] = d
  PROVE  MReads(d)'
<1>1. /\ v3'[v5'[d].k].req = d /\ v5'[d].id < v3'[v5'[d].k].next
      /\ v5'[d].at = "read" => v3'[v5'[d].k].proc # 0 /\ v5'[d].p # 0 /\ v4'[v5'[d].p].owner = v5'[d].k
  OBVIOUS
<1>2. \A p \in M!Procs : v4'[p].owner = v5'[d].k =>
        \A r \in MSays(v4'[p]) : r[1] = v5'[d].id => r[2] = d
  OBVIOUS
<1>3. QED
  BY <1>1, <1>2 DEF MReads

\* What the invariant says of the parts of the state.
LEMMA MParts ==
  ASSUME MInv
  PROVE  /\ v2.cached \in 0..McpProcs /\ v2.made \in 0..McpProcs
         /\ v2.lock \in McpCalls \cup {M!Nobody} /\ v6.on \in BOOLEAN
         /\ \A k \in M!Procs : v3[k] \in MClient /\ v3[k].proc \in 0..McpProcs /\ v3[k].next \in Nat
         /\ \A p \in M!Procs : v4[p] \in MServer /\ v4[p].owner \in 0..McpProcs /\ v4[p].live \in BOOLEAN
                               /\ v4[p].asked \in SUBSET MRequest /\ v4[p].out \in Seq(MLine)
         /\ \A c \in McpCalls : v5[c] \in MCall /\ v5[c].k \in 0..McpProcs /\ v5[c].p \in 0..McpProcs
                               /\ v5[c].building \in BOOLEAN /\ v5[c].id \in Nat /\ v5[c].got \in MLine
                               /\ v5[c].kind \in {"none", "initialize", "tools"}
         /\ 1..v2.made \subseteq M!Procs
         /\ M!Nobody \notin McpCalls /\ M!Procs = 1..McpProcs /\ McpProcs \in Nat
<1>1. /\ v2.cached \in 0..McpProcs /\ v2.made \in 0..McpProcs
      /\ v2.lock \in McpCalls \cup {M!Nobody} /\ v6.on \in BOOLEAN
  BY DEF MInv, MTyped, MManager, MRunT
<1>2. 1..v2.made \subseteq M!Procs
  BY <1>1, McpAssumption DEF M!Procs
<1>3. QED
  BY <1>1, <1>2, McpAssumption DEF MInv, MTyped, MClient, MServer, MCall, M!Nobody, M!Procs

\* A call that waits goes on waiting while its client and the processes stay
\* what they are to it.
LEMMA MStillReads ==
  ASSUME MInv, NEW d \in McpCalls, v5[d].at \in MWaiting, v5'[d] = v5[d],
         v3'[v5[d].k].req = v3[v5[d].k].req, v3'[v5[d].k].next = v3[v5[d].k].next,
         v3[v5[d].k].proc # 0 => v3'[v5[d].k].proc # 0,
         \A p \in M!Procs : v4[p].owner = v5[d].k => v4'[p].owner = v5[d].k,
         \A p \in M!Procs : v4'[p].owner = v5[d].k => \A r \in MSays(v4'[p]) :
           v4[p].owner = v5[d].k /\ r \in MSays(v4[p])
  PROVE  MReads(d)'
<1>1. MReads(d) /\ v5[d].p \in 0..McpProcs
  BY MParts DEF MInv, MAnswered
<1>2. PICK e : e = v5[d]
  OBVIOUS
<1>3. e.at = "read" => v3'[e.k].proc # 0 /\ e.p # 0 /\ v4'[e.p].owner = e.k
  <2>1. e.at = "read" => v3[e.k].proc # 0 /\ e.p # 0 /\ v4[e.p].owner = e.k
    BY <1>1, <1>2 DEF MReads
  <2>2. e.p # 0 => e.p \in M!Procs
    BY <1>1, <1>2, MParts
  <2>3. QED
    BY <1>2, <2>1, <2>2
<1>4. \A p \in M!Procs : v4'[p].owner = e.k => \A r \in MSays(v4'[p]) : r[1] = e.id => r[2] = d
  <2>1. \A p \in M!Procs : v4[p].owner = e.k => \A r \in MSays(v4[p]) : r[1] = e.id => r[2] = d
    BY <1>1, <1>2 DEF MReads
  <2>2. QED
    BY <1>2, <2>1
<1>5. v3'[e.k].req = d /\ e.id < v3'[e.k].next /\ v5'[d] = e
  BY <1>1, <1>2 DEF MReads
<1>6. QED
  BY <1>3, <1>4, <1>5, MReadsNow

LEMMA MInit == M!Init => MInv
<1> SUFFICES ASSUME M!Init PROVE MInv
  OBVIOUS
<1>1. /\ v2 = [cached |-> 0, lock |-> M!Nobody, made |-> 0]
      /\ v3 = [k \in M!Procs |-> [proc |-> 0, ready |-> FALSE, init |-> M!Nobody,
                                  req |-> M!Nobody, next |-> 1]]
      /\ v4 = [p \in M!Procs |-> [live |-> FALSE, shook |-> FALSE, owner |-> 0,
                                  asked |-> {}, out |-> <<>>]]
      /\ v5 = [c \in McpCalls |-> M!NoCallc]
      /\ v6 = [on |-> FALSE, bad |-> 0, cut |-> {}, displaced |-> {}]
  BY DEF M!Init
<1>2. M!NoCallc \in MCall /\ M!NoCallc.at = "none" /\ M!NoCallc.got = <<>> /\ M!NoCallc.building = FALSE
  BY McpAssumption DEF M!NoCallc, MCall, MLine
<1>3. MTyped
  <2>1. <<>> \in Seq(MLine)
    OBVIOUS
  <2>2. v2 \in MManager /\ v6 \in MRunT
    BY <1>1, McpAssumption DEF MManager, MRunT
  <2>3. v3 \in [M!Procs -> MClient]
    BY <1>1, McpAssumption DEF MClient
  <2>4. v4 \in [M!Procs -> MServer]
    BY <1>1, <2>1, McpAssumption DEF MServer
  <2>5. QED
    BY <1>1, <1>2, <2>2, <2>3, <2>4 DEF MTyped
<1>4. MLocked
  BY <1>1, <1>2, McpAssumption DEF MLocked, MBusy, M!Nobody
<1>5. MOwned
  BY <1>1 DEF MOwned
<1>6. MAsked
  <2>1. \A p \in M!Procs : v4[p].asked = {} /\ v4[p].out = <<>> /\ v4[p].owner = 0 /\ ~v4[p].live
    BY <1>1
  <2>2. \A p \in M!Procs : MSays(v4[p]) = {}
    BY <2>1 DEF MSays
  <2>3. QED
    BY <1>1, <2>1, <2>2 DEF MAsked
<1>7. MAnswered
  BY <1>1, <1>2 DEF MAnswered, MWaiting
<1>8. QED
  BY <1>3, <1>4, <1>5, <1>6, <1>7 DEF MInv

-----------------------------------------------------------------------------

\* A process dies: what it wrote is still there.
LEMMA MServerDies ==
  ASSUME NEW s \in MServer
  PROVE  LET u == [s EXCEPT !.live = FALSE]
         IN  u \in MServer /\ u.live = FALSE /\ u.owner = s.owner /\ MSays(u) = MSays(s)
<1> DEFINE u == [s EXCEPT !.live = FALSE]
<1>1. u \in MServer /\ u.live = FALSE /\ u.owner = s.owner /\ u.out = s.out /\ u.asked = s.asked
  BY DEF MServer
<1> HIDE DEF u
<1>2. MSays(u) = MSays(s)
  BY <1>1 DEF MSays
<1>3. QED
  BY <1>1, <1>2 DEF u

\* A process writes something that is no answer, or the answer to what it was
\* asked.
LEMMA MServerWrites ==
  ASSUME NEW s \in MServer
  PROVE  /\ LET u == [s EXCEPT !.out = Append(s.out, <<>>)]
            IN  u \in MServer /\ u.live = s.live /\ u.owner = s.owner /\ MSays(u) \subseteq MSays(s)
         /\ \A r \in s.asked :
              LET u == [s EXCEPT !.asked = s.asked \ {r}, !.out = Append(s.out, r)]
              IN  u \in MServer /\ u.live = s.live /\ u.owner = s.owner /\ MSays(u) \subseteq MSays(s)
<1>1. s.out \in Seq(MLine) /\ s.asked \in SUBSET MRequest /\ <<>> \in MLine
  BY DEF MServer, MLine
<1>2. ASSUME NEW l \in MLine
      PROVE  /\ Append(s.out, l) \in Seq(MLine)
             /\ \A i \in 1..Len(Append(s.out, l)) :
                  Append(s.out, l)[i] = l \/ \E j \in 1..Len(s.out) : Append(s.out, l)[i] = s.out[j]
  BY <1>1
<1>3. LET u == [s EXCEPT !.out = Append(s.out, <<>>)]
      IN  u \in MServer /\ u.live = s.live /\ u.owner = s.owner /\ MSays(u) \subseteq MSays(s)
  <2> DEFINE u == [s EXCEPT !.out = Append(s.out, <<>>)]
  <2>1. u \in MServer /\ u.live = s.live /\ u.owner = s.owner /\ u.asked = s.asked /\ u.out = Append(s.out, <<>>)
    BY <1>1, <1>2 DEF MServer
  <2> HIDE DEF u
  <2>2. MSays(u) \subseteq MSays(s)
    BY <1>1, <1>2, <2>1 DEF MSays
  <2>3. QED
    BY <2>1, <2>2 DEF u
<1>4. ASSUME NEW r \in s.asked
      PROVE  LET u == [s EXCEPT !.asked = s.asked \ {r}, !.out = Append(s.out, r)]
             IN  u \in MServer /\ u.live = s.live /\ u.owner = s.owner /\ MSays(u) \subseteq MSays(s)
  <2>0. r \in MRequest /\ r \in MLine
    BY <1>1 DEF MLine
  <2> DEFINE u == [s EXCEPT !.asked = s.asked \ {r}, !.out = Append(s.out, r)]
  <2>1. u \in MServer /\ u.live = s.live /\ u.owner = s.owner /\ u.asked = s.asked \ {r} /\ u.out = Append(s.out, r)
    BY <1>1, <1>2, <2>0 DEF MServer
  <2> HIDE DEF u
  <2>2. MSays(u) \subseteq MSays(s)
    BY <1>1, <1>2, <2>0, <2>1 DEF MSays
  <2>3. QED
    BY <2>1, <2>2 DEF u
<1>5. QED
  BY <1>3, <1>4, Zenon

\* A line is read from a process.
LEMMA MServerReads ==
  ASSUME NEW s \in MServer, s.out # <<>>
  PROVE  LET u == [s EXCEPT !.out = Tail(s.out)]
         IN  /\ u \in MServer /\ u.live = s.live /\ u.owner = s.owner /\ MSays(u) \subseteq MSays(s)
             /\ Head(s.out) \in MLine
             /\ Head(s.out) # <<>> => Head(s.out) \in MSays(s)
<1>1. s.out \in Seq(MLine)
  BY DEF MServer
<1>2. /\ Tail(s.out) \in Seq(MLine) /\ Head(s.out) \in MLine /\ Head(s.out) = s.out[1]
      /\ 1 \in 1..Len(s.out)
      /\ \A i \in 1..Len(Tail(s.out)) : i + 1 \in 1..Len(s.out) /\ Tail(s.out)[i] = s.out[i + 1]
  BY <1>1
<1> DEFINE u == [s EXCEPT !.out = Tail(s.out)]
<1>3. u \in MServer /\ u.live = s.live /\ u.owner = s.owner /\ u.asked = s.asked /\ u.out = Tail(s.out)
  BY <1>1, <1>2 DEF MServer
<1> HIDE DEF u
<1>4. MSays(u) \subseteq MSays(s)
  BY <1>1, <1>2, <1>3 DEF MSays
<1>5. Head(s.out) # <<>> => Head(s.out) \in MSays(s)
  BY <1>2 DEF MSays, MLine
<1>6. QED
  BY <1>2, <1>3, <1>4, <1>5 DEF u

\* While a client is built no other call is at work.
LEMMA MAlone ==
  ASSUME MInv, NEW c \in McpCalls, NEW d \in McpCalls, v5[c].building, v5[d].at \in MBusy
  PROVE  c = d
<1>1. v5[d].building
  BY MParts DEF MInv, MLocked
<1>2. QED
  BY <1>1 DEF MInv, MLocked

\* Giving up the locks of a client.
LEMMA MUnlocks ==
  ASSUME MInv, NEW k \in M!Procs, NEW c \in McpCalls
  PROVE  LET u == M!Unlocked(k, c)
             v == [u EXCEPT !.proc = 0, !.ready = FALSE]
             w == [u EXCEPT !.ready = TRUE]
             q == IF v3[k].req = c THEN M!Nobody ELSE v3[k].req
         IN  /\ u \in MClient /\ u.proc = v3[k].proc /\ u.next = v3[k].next /\ u.req = q
             /\ v \in MClient /\ v.proc = 0 /\ v.next = v3[k].next /\ v.req = q
             /\ w \in MClient /\ w.proc = v3[k].proc /\ w.next = v3[k].next /\ w.req = q
<1>1. PICK r \in MClient : r = v3[k]
  BY MParts
<1>2. PICK i \in McpCalls \cup {M!Nobody} : i = IF v3[k].init = c THEN M!Nobody ELSE v3[k].init
  BY <1>1 DEF MClient
<1>3. PICK q \in McpCalls \cup {M!Nobody} : q = IF v3[k].req = c THEN M!Nobody ELSE v3[k].req
  BY <1>1 DEF MClient
<1>4. M!Unlocked(k, c) = [r EXCEPT !.init = i, !.req = q]
  BY <1>1, <1>2, <1>3 DEF M!Unlocked
<1> DEFINE u == [r EXCEPT !.init = i, !.req = q]
<1>5. u \in MClient /\ u.proc = r.proc /\ u.next = r.next /\ u.req = q
  BY DEF MClient
<1> HIDE DEF u
<1>6. /\ [u EXCEPT !.proc = 0, !.ready = FALSE] \in MClient
      /\ [u EXCEPT !.proc = 0, !.ready = FALSE].proc = 0
      /\ [u EXCEPT !.proc = 0, !.ready = FALSE].next = u.next
      /\ [u EXCEPT !.proc = 0, !.ready = FALSE].req = u.req
  <2>1. 0 \in 0..McpProcs
    BY McpAssumption
  <2>2. QED
    BY <1>5, <2>1 DEF MClient
<1>7. /\ [u EXCEPT !.ready = TRUE] \in MClient
      /\ [u EXCEPT !.ready = TRUE].proc = u.proc
      /\ [u EXCEPT !.ready = TRUE].next = u.next
      /\ [u EXCEPT !.ready = TRUE].req = u.req
  BY <1>5 DEF MClient
<1>8. M!Unlocked(k, c) = u
  BY <1>4 DEF u
<1>9. QED
  BY <1>1, <1>3, <1>5, <1>6, <1>7, <1>8

\* What a call that goes on leaves of the processes.
MLeaves(srv) ==
  /\ srv \in [M!Procs -> MServer]
  /\ \A p \in M!Procs : /\ srv[p].owner = v4[p].owner /\ (srv[p].live => v4[p].live)
                        /\ MSays(srv[p]) \subseteq MSays(v4[p])

LEMMA MFailedEffect ==
  ASSUME MInv, NEW c \in McpCalls, NEW srv, v5[c].k \in M!Procs, MLeaves(srv), M!Failed(c, srv)
  PROVE  LET k == v5[c].k IN
         /\ v2' \in MManager /\ v2'.cached = v2.cached /\ v2'.made = v2.made
         /\ v2'.lock = IF v2.lock = c THEN M!Nobody ELSE v2.lock
         /\ v3' \in [M!Procs -> MClient] /\ \A j \in M!Procs \ {k} : v3'[j] = v3[j]
         /\ v3'[k].proc = IF v5[c].building THEN 0 ELSE v3[k].proc
         /\ v3'[k].next = v3[k].next
         /\ v3'[k].req = IF v3[k].req = c THEN M!Nobody ELSE v3[k].req
         /\ v4' \in [M!Procs -> MServer]
         /\ \A p \in M!Procs :
              /\ v4'[p].owner = v4[p].owner /\ MSays(v4'[p]) \subseteq MSays(v4[p])
              /\ v4'[p].live => srv[p].live /\ ~(v5[c].building /\ p = v3[k].proc)
         /\ v5' \in [McpCalls -> MCall] /\ \A d \in McpCalls \ {c} : v5'[d] = v5[d]
         /\ v5'[c].at = "done" /\ v5'[c].building = FALSE /\ v5'[c].got = v5[c].got
<1> DEFINE k == v5[c].k
<1>0. v2 \in MManager /\ v3 \in [M!Procs -> MClient] /\ v5 \in [McpCalls -> MCall] /\ v3[k] \in MClient
      /\ v5[c].building \in BOOLEAN
  BY MParts DEF MInv, MTyped
<1>1. v2' \in MManager /\ v2'.cached = v2.cached /\ v2'.made = v2.made
      /\ v2'.lock = IF v2.lock = c THEN M!Nobody ELSE v2.lock
  <2>1. v2' = [v2 EXCEPT !.lock = IF v2.lock = c THEN M!Nobody ELSE v2.lock]
    BY DEF M!Failed
  <2>2. QED
    BY <1>0, <2>1 DEF MManager
<1>2. /\ v3' \in [M!Procs -> MClient] /\ \A j \in M!Procs \ {k} : v3'[j] = v3[j]
      /\ v3'[k].proc = IF v5[c].building THEN 0 ELSE v3[k].proc
      /\ v3'[k].next = v3[k].next
      /\ v3'[k].req = IF v3[k].req = c THEN M!Nobody ELSE v3[k].req
  <2>1. PICK u \in MClient :
          /\ v3' = [v3 EXCEPT ![k] = u]
          /\ u.proc = IF v5[c].building THEN 0 ELSE v3[k].proc
          /\ u.next = v3[k].next
          /\ u.req = IF v3[k].req = c THEN M!Nobody ELSE v3[k].req
    <3>1. CASE v5[c].building
      <4>1. v3' = [v3 EXCEPT ![k] = [M!Unlocked(k, c) EXCEPT !.proc = 0, !.ready = FALSE]]
        BY <3>1 DEF M!Failed
      <4> DEFINE v == [M!Unlocked(k, c) EXCEPT !.proc = 0, !.ready = FALSE]
      <4>2. /\ v \in MClient /\ v.proc = 0 /\ v.next = v3[k].next
            /\ v.req = IF v3[k].req = c THEN M!Nobody ELSE v3[k].req
        BY MUnlocks, Zenon
      <4> HIDE DEF v
      <4>3. v3' = [v3 EXCEPT ![k] = v]
        BY <4>1 DEF v
      <4>4. QED
        BY <3>1, <4>2, <4>3
    <3>2. CASE ~v5[c].building
      <4>1. v3' = [v3 EXCEPT ![k] = M!Unlocked(k, c)]
        BY <3>2 DEF M!Failed
      <4>2. QED
        BY <3>2, <4>1, MUnlocks, ZenonT(40)
    <3>3. QED
      BY <3>1, <3>2
  <2>2. QED
    BY <1>0, <2>1
<1>3. /\ v4' \in [M!Procs -> MServer]
      /\ \A p \in M!Procs :
           /\ v4'[p].owner = v4[p].owner /\ MSays(v4'[p]) \subseteq MSays(v4[p])
           /\ v4'[p].live => srv[p].live /\ ~(v5[c].building /\ p = v3[k].proc)
  <2>1. v4' = [p \in M!Procs |-> IF v5[c].building /\ p = v3[k].proc
                                 THEN [srv[p] EXCEPT !.live = FALSE] ELSE srv[p]]
    BY DEF M!Failed
  <2>2. ASSUME NEW p \in M!Procs
        PROVE  /\ v4'[p] \in MServer
               /\ v4'[p].owner = v4[p].owner /\ MSays(v4'[p]) \subseteq MSays(v4[p])
               /\ v4'[p].live => srv[p].live /\ ~(v5[c].building /\ p = v3[k].proc)
    <3>1. PICK s \in MServer : s = srv[p]
      BY DEF MLeaves
    <3>2. CASE v5[c].building /\ p = v3[k].proc
      <4>1. v4'[p] = [s EXCEPT !.live = FALSE]
        BY <2>1, <3>1, <3>2
      <4>2. [s EXCEPT !.live = FALSE] \in MServer /\ [s EXCEPT !.live = FALSE].live = FALSE
            /\ [s EXCEPT !.live = FALSE].owner = s.owner
            /\ MSays([s EXCEPT !.live = FALSE]) = MSays(s)
        BY MServerDies
      <4>3. QED
        BY <3>1, <4>1, <4>2 DEF MLeaves
    <3>3. CASE ~(v5[c].building /\ p = v3[k].proc)
      BY <2>1, <3>1, <3>3 DEF MLeaves
    <3>4. QED
      BY <3>2, <3>3
  <2>3. QED
    BY <2>1, <2>2
<1>4. /\ v5' \in [McpCalls -> MCall] /\ \A d \in McpCalls \ {c} : v5'[d] = v5[d]
      /\ v5'[c].at = "done" /\ v5'[c].building = FALSE /\ v5'[c].got = v5[c].got
  <2>1. v5' = [v5 EXCEPT ![c].at = "done", ![c].building = FALSE]
    BY DEF M!Failed
  <2>2. QED
    BY <1>0, <2>1 DEF MCall
<1>5. QED
  BY <1>1, <1>2, <1>3, <1>4

LEMMA MFailedKeeps ==
  ASSUME MInv, NEW c \in McpCalls, NEW srv, v5[c].at \in MBusy, MLeaves(srv), M!Failed(c, srv),
         v6' \in MRunT,
         v6'.on = v6.on, v6'.cut = v6.cut /\ v6'.displaced = v6.displaced,
         v5[c].at = "closing" => \A p \in M!Procs : p = v5[c].p => ~srv[p].live
  PROVE  MInv'
<1> DEFINE k == v5[c].k
<1>0. k \in M!Procs /\ v6.on
  BY MParts DEF MInv, MLocked, MBusy
<1>1. /\ v2' \in MManager /\ v2'.cached = v2.cached /\ v2'.made = v2.made
      /\ v2'.lock = IF v2.lock = c THEN M!Nobody ELSE v2.lock
      /\ v3' \in [M!Procs -> MClient] /\ \A j \in M!Procs \ {k} : v3'[j] = v3[j]
      /\ v3'[k].proc = IF v5[c].building THEN 0 ELSE v3[k].proc
      /\ v3'[k].next = v3[k].next
      /\ v3'[k].req = IF v3[k].req = c THEN M!Nobody ELSE v3[k].req
      /\ v4' \in [M!Procs -> MServer]
      /\ \A p \in M!Procs :
           /\ v4'[p].owner = v4[p].owner /\ MSays(v4'[p]) \subseteq MSays(v4[p])
           /\ v4'[p].live => srv[p].live /\ v4[p].live /\ ~(v5[c].building /\ p = v3[k].proc)
      /\ v5' \in [McpCalls -> MCall] /\ \A d \in McpCalls \ {c} : v5'[d] = v5[d]
      /\ v5'[c].at = "done" /\ v5'[c].building = FALSE /\ v5'[c].got = v5[c].got
  BY <1>0, MFailedEffect, ZenonT(40) DEF MLeaves
<1> HIDE DEF k
<1>2. MTyped'
  BY <1>1 DEF MTyped
<1>3. MLocked'
  BY <1>0, <1>1, MParts DEF MInv, MLocked, MBusy
<1>4. MOwned'
  <2>1. ASSUME NEW p \in M!Procs, v4'[p].live
        PROVE  MHeld(p)'
    <3>1. v4[p].live /\ srv[p].live /\ ~(v5[c].building /\ p = v3[k].proc)
      BY <1>1, <2>1
    <3>2. CASE p \in v6.cut \cup v6.displaced
      BY <3>2 DEF MHeld
    <3>3. CASE v2.cached # 0 /\ p = v3[v2.cached].proc
      <4>1. v2.cached \in M!Procs
        BY <3>3, MParts
      <4>2. ~v5[c].building
        BY <3>3 DEF MInv, MLocked
      <4>3. v3'[v2.cached].proc = v3[v2.cached].proc
        BY <1>1, <4>1, <4>2
      <4>4. QED
        BY <1>1, <3>3, <4>3 DEF MHeld
    <3>4. CASE \E d \in McpCalls : MHolds(d, p)
      <4>1. PICK d \in McpCalls : MHolds(d, p)
        BY <3>4
      <4>2. d # c
        BY <3>1, <4>1 DEF MHolds, k
      <4>3. v5'[d] = v5[d] /\ ~v5[d].building
        BY <1>1, <4>2, MAlone
      <4>4. MHolds(d, p)'
        BY <4>1, <4>3 DEF MHolds
      <4>5. QED
        BY <4>4 DEF MHeld
    <3>5. QED
      BY <3>1, <3>2, <3>3, <3>4 DEF MInv, MOwned, MHeld
  <2>2. QED
    BY <2>1 DEF MOwned
<1>5. MAsked'
  <2>1. \A j \in M!Procs : v3'[j].next = v3[j].next /\ (v3'[j].proc = v3[j].proc \/ v3'[j].proc = 0)
    BY <1>1
  <2>2. \A j \in M!Procs : v3'[j].proc # 0 => v4'[v3'[j].proc].owner = j
    <3>1. \A j \in M!Procs : v3[j].proc # 0 => v3[j].proc \in M!Procs
      BY MParts
    <3>2. QED
      BY <1>1, <2>1, <3>1 DEF MInv, MAsked
  <2>3. \A p \in M!Procs : v4'[p].owner # 0 => \A r \in MSays(v4'[p]) : r[1] < v3'[v4'[p].owner].next
    <3>1. \A p \in M!Procs : v4[p].owner # 0 => v4[p].owner \in M!Procs
      BY MParts
    <3>2. QED
      BY <1>1, <2>1, <3>1 DEF MInv, MAsked
  <2>4. \A p \in M!Procs : v4'[p].owner = 0 => ~v4'[p].live /\ MSays(v4'[p]) = {}
    <3>1. ASSUME NEW p \in M!Procs, v4'[p].owner = 0
          PROVE  ~v4'[p].live /\ MSays(v4'[p]) = {}
      <4>1. ~v4[p].live /\ MSays(v4[p]) = {}
        BY <1>1, <3>1 DEF MInv, MAsked
      <4>2. QED
        BY <1>1, <4>1
    <3>2. QED
      BY <3>1
  <2>5. QED
    BY <2>2, <2>3, <2>4 DEF MAsked
<1>6. MAnswered'
  <2>1. ASSUME NEW d \in McpCalls, v5'[d].at \in MWaiting
        PROVE  MReads(d)'
    <3>1. d # c /\ v5'[d] = v5[d] /\ v5[d].at \in MWaiting
      BY <1>1, <2>1 DEF MWaiting
    <3>2. MReads(d) /\ ~v5[c].building
      BY <3>1, MAlone DEF MInv, MAnswered, MBusy, MWaiting
    <3>3. v5[d].k \in M!Procs
      BY <3>1, MParts DEF MInv, MLocked, MBusy, MWaiting
    <3>4. v3'[v5[d].k].req = v3[v5[d].k].req /\ v3'[v5[d].k].proc = v3[v5[d].k].proc
          /\ v3'[v5[d].k].next = v3[v5[d].k].next
      BY <1>1, <3>1, <3>2, <3>3 DEF MReads
    <3>5. QED
      BY <1>1, <3>1, <3>4, MStillReads
  <2>2. QED
    BY <1>1, <2>1 DEF MInv, MAnswered
<1>7. QED
  BY <1>2, <1>3, <1>4, <1>5, <1>6 DEF MInv

\* A call that gets what it waits for.
LEMMA MAnsweredKeeps ==
  ASSUME MInv, NEW c \in McpCalls, v5[c].at \in {"write", "read"}, MLeaves(v4'),
         NEW a \in MLine, a # <<>> => a[2] = c, M!Answered(c, a), UNCHANGED <<v2, v6>>
  PROVE  MInv'
<1> DEFINE k == v5[c].k
<1>0. k \in M!Procs /\ v6.on /\ v5[c].at \in MBusy
  BY MParts DEF MInv, MLocked, MBusy
<1>1. /\ v5' \in [McpCalls -> MCall] /\ \A d \in McpCalls \ {c} : v5'[d] = v5[d]
      /\ v5'[c].at = IF v5[c].kind = "initialize" THEN "init" ELSE "done"
      /\ v5'[c].building = v5[c].building /\ v5'[c].k = k /\ v5'[c].got = a
  <2>1. v5 \in [McpCalls -> MCall] /\ k \in 0..McpProcs /\ v5[c] \in MCall
    BY MParts DEF MInv, MTyped
  <2>2. PICK at \in {"init", "done"} : at = IF v5[c].kind = "initialize" THEN "init" ELSE "done"
    OBVIOUS
  <2>3. v5' = [v5 EXCEPT ![c].at = at, ![c].got = a]
    BY <2>2 DEF M!Answered
  <2>4. QED
    BY <2>1, <2>2, <2>3 DEF MCall, MBusy
<1>2. /\ v3' \in [M!Procs -> MClient] /\ \A j \in M!Procs \ {k} : v3'[j] = v3[j]
      /\ v3'[k].proc = v3[k].proc /\ v3'[k].next = v3[k].next
      /\ v3'[k].req = IF v3[k].req = c THEN M!Nobody ELSE v3[k].req
  <2>1. PICK j \in M!Procs : j = k
    BY <1>0
  <2> DEFINE u == M!Unlocked(j, c)
             w == [M!Unlocked(j, c) EXCEPT !.ready = TRUE]
  <2>2. /\ u \in MClient /\ u.proc = v3[j].proc /\ u.next = v3[j].next
        /\ u.req = IF v3[j].req = c THEN M!Nobody ELSE v3[j].req
    BY MUnlocks, Zenon
  <2>3. /\ w \in MClient /\ w.proc = v3[j].proc /\ w.next = v3[j].next
        /\ w.req = IF v3[j].req = c THEN M!Nobody ELSE v3[j].req
    BY MUnlocks, Zenon
  <2>4. v3' = [v3 EXCEPT ![j] = w] \/ v3' = [v3 EXCEPT ![j] = u]
    BY <2>1 DEF M!Answered
  <2> HIDE DEF u, w
  <2>5. QED
    BY <2>1, <2>2, <2>3, <2>4 DEF MInv, MTyped
<1> HIDE DEF k
<1>3. MTyped'
  BY <1>1, <1>2 DEF MInv, MTyped, MLeaves
<1>4. MLocked'
  <2>1. ASSUME NEW d \in McpCalls
        PROVE  /\ v5'[d].building <=> v2.lock = d
               /\ v5'[d].building => v2.cached = 0 /\ v5'[d].at \in MBusy
               /\ v5'[d].building /\ v5'[d].at \in MBegins => v5'[d].kind = "initialize"
               /\ v5'[d].at \in MBusy =>
                    v5'[d].k \in 1..v2.made /\ (~v5'[d].building => v5'[d].k = v2.cached)
    <3>1. CASE d # c
      BY <1>1, <3>1 DEF MInv, MLocked
    <3>2. CASE d = c
      BY <1>0, <1>1, <3>2 DEF MInv, MLocked, MBusy, MBegins, MWaiting, k
    <3>3. QED
      BY <3>1, <3>2
  <2>2. QED
    BY <1>0, <2>1 DEF MInv, MLocked
<1>5. MOwned'
  <2>1. ASSUME NEW p \in M!Procs, NEW d \in McpCalls, MHolds(d, p)
        PROVE  MHolds(d, p)'
    <3>1. CASE v5[d].building /\ p = v3[v5[d].k].proc
      <4>1. v5[d].k \in M!Procs
        BY <3>1, MParts DEF MInv, MLocked
      <4>2. v3'[v5[d].k].proc = v3[v5[d].k].proc /\ v5'[d].k = v5[d].k /\ v5'[d].building = v5[d].building
        BY <1>1, <1>2, <4>1 DEF k
      <4>3. QED
        BY <3>1, <4>2 DEF MHolds
    <3>2. CASE v5[d].at = "closing" /\ p = v5[d].p
      BY <1>1, <3>2 DEF MHolds
    <3>3. QED
      BY <2>1, <3>1, <3>2 DEF MHolds
  <2>2. v2.cached # 0 => v3'[v2.cached].proc = v3[v2.cached].proc
    BY <1>2, MParts
  <2>3. ASSUME NEW p \in M!Procs, MHeld(p)
        PROVE  MHeld(p)'
    BY <2>1, <2>2, <2>3 DEF MHeld
  <2>4. QED
    BY <2>3 DEF MInv, MOwned, MLeaves
<1>6. MAsked'
  <2>1. \A j \in M!Procs : v3'[j].next = v3[j].next /\ v3'[j].proc = v3[j].proc
    BY <1>2
  <2>2. \A j \in M!Procs : v3[j].proc # 0 => v3[j].proc \in M!Procs
    BY MParts
  <2>3. \A p \in M!Procs : v4[p].owner # 0 => v4[p].owner \in M!Procs
    BY MParts
  <2>4. ASSUME NEW p \in M!Procs, v4'[p].owner = 0
        PROVE  ~v4'[p].live /\ MSays(v4'[p]) = {}
    <3>1. ~v4[p].live /\ MSays(v4[p]) = {}
      BY <2>4 DEF MInv, MAsked, MLeaves
    <3>2. QED
      BY <3>1 DEF MLeaves
  <2>5. QED
    BY <2>1, <2>2, <2>3, <2>4 DEF MInv, MAsked, MLeaves
<1>7. MAnswered'
  <2>1. ASSUME NEW d \in McpCalls, v5'[d].at \in MWaiting
        PROVE  MReads(d)'
    <3>1. d # c /\ v5'[d] = v5[d] /\ v5[d].at \in MWaiting /\ MReads(d)
      BY <1>1, <2>1 DEF MInv, MAnswered, MWaiting
    <3>2. v5[d].k \in M!Procs
      BY <3>1, MParts DEF MInv, MLocked, MBusy, MWaiting
    <3>3. v3'[v5[d].k].req = v3[v5[d].k].req /\ v3'[v5[d].k].proc = v3[v5[d].k].proc
          /\ v3'[v5[d].k].next = v3[v5[d].k].next
      BY <1>2, <3>1, <3>2 DEF MReads
    <3>4. QED
      BY <3>1, <3>3, MStillReads DEF MLeaves
  <2>2. QED
    BY <1>1, <2>1 DEF MInv, MAnswered
<1>8. QED
  BY <1>3, <1>4, <1>5, <1>6, <1>7 DEF MInv

\* A process goes on by itself.
LEMMA MServersMove ==
  ASSUME MInv, MLeaves(v4'), UNCHANGED <<v2, v3, v5>>,
         v6' \in MRunT,
         v6'.on = v6.on, v6'.cut = v6.cut /\ v6'.displaced = v6.displaced
  PROVE  MInv'
<1>1. MTyped'
  BY DEF MInv, MTyped, MLeaves
<1>2. MLocked'
  BY DEF MInv, MLocked
<1>3. MOwned'
  BY DEF MInv, MOwned, MHeld, MHolds, MLeaves
<1>4. MAsked'
  <2>1. \A j \in M!Procs : v3[j].proc # 0 => v3[j].proc \in M!Procs
    BY MParts
  <2>2. ASSUME NEW p \in M!Procs, v4'[p].owner = 0
        PROVE  ~v4'[p].live /\ MSays(v4'[p]) = {}
    <3>1. ~v4[p].live /\ MSays(v4[p]) = {}
      BY <2>2 DEF MInv, MAsked, MLeaves
    <3>2. QED
      BY <3>1 DEF MLeaves
  <2>3. QED
    BY <2>1, <2>2 DEF MInv, MAsked, MLeaves
<1>5. MAnswered'
  <2>1. \A d \in McpCalls : v5[d].at \in MWaiting => MReads(d)'
    BY MStillReads DEF MLeaves
  <2>2. QED
    BY <2>1 DEF MInv, MAnswered
<1>6. QED
  BY <1>1, <1>2, <1>3, <1>4, <1>5 DEF MInv

-----------------------------------------------------------------------------

LEMMA MRunStep ==
  ASSUME MInv, M!StartRun \/ M!RunEnds \/ M!Interrupt
  PROVE  MInv'
<1>0. M!NoCallc \in MCall /\ M!NoCallc.at = "none" /\ M!NoCallc.got = <<>> /\ M!NoCallc.building = FALSE
  BY McpAssumption DEF M!NoCallc, MCall, MLine
<1>1. CASE M!StartRun
  <2>1. /\ ~v6.on /\ v6' = [v6 EXCEPT !.on = TRUE]
        /\ v5' = [c \in McpCalls |-> [M!NoCallc EXCEPT !.at = "lookup"]]
        /\ UNCHANGED <<v2, v3, v4>>
    BY <1>1 DEF M!StartRun
  <2>2. \A c \in McpCalls : v5'[c] \in MCall /\ v5'[c].at = "lookup" /\ v5'[c].got = <<>> /\ v5'[c].building = FALSE
    BY <1>0, <2>1 DEF MCall
  <2>3. v6' \in MRunT /\ v6'.on = TRUE /\ v6'.cut = v6.cut /\ v6'.displaced = v6.displaced
    BY <2>1 DEF MInv, MTyped, MRunT
  <2>4. v2.cached = 0 /\ \A c \in McpCalls : ~v5[c].building
    BY <2>1 DEF MInv, MLocked, MBusy
  <2>5. MTyped'
    BY <2>1, <2>2, <2>3 DEF MInv, MTyped
  <2>6. MLocked'
    BY <2>1, <2>2, <2>3, <2>4 DEF MInv, MLocked, MBusy
  <2>7. MOwned'
    <3>1. \A c \in McpCalls : v5[c].at # "closing"
      BY <2>1 DEF MInv, MLocked
    <3>2. QED
      BY <2>1, <2>2, <2>3, <2>4, <3>1 DEF MInv, MOwned, MHeld, MHolds
  <2>8. MAsked' /\ MAnswered'
    BY <2>1, <2>2 DEF MInv, MAsked, MAnswered, MWaiting
  <2>9. QED
    BY <2>5, <2>6, <2>7, <2>8 DEF MInv
<1>2. CASE M!RunEnds \/ M!Interrupt
  <2>1. /\ v4' = M!Closed(v4) /\ v5' = [c \in McpCalls |-> M!NoCallc] /\ UNCHANGED <<v1, v3>>
        /\ v6.on
    BY <1>2 DEF M!RunEnds, M!Interrupt
  <2>2. \A c \in McpCalls : v5'[c] \in MCall /\ v5'[c].at = "none" /\ v5'[c].got = <<>> /\ v5'[c].building = FALSE
    BY <1>0, <2>1
  <2>3. ASSUME NEW p \in M!Procs
        PROVE  /\ v4'[p] \in MServer /\ v4'[p].owner = v4[p].owner
               /\ MSays(v4'[p]) = MSays(v4[p])
               /\ v4'[p].live => v4[p].live /\ ~(v2.cached # 0 /\ p = v3[v2.cached].proc)
    <3>1. PICK s \in MServer : s = v4[p]
      BY MParts
    <3>2. CASE v2.cached # 0 /\ p = v3[v2.cached].proc
      <4>1. v4'[p] = [s EXCEPT !.live = FALSE]
        BY <2>1, <3>1, <3>2 DEF M!Closed
      <4> DEFINE u == [s EXCEPT !.live = FALSE]
      <4>2. u \in MServer /\ u.live = FALSE /\ u.owner = s.owner /\ MSays(u) = MSays(s)
        BY MServerDies
      <4> HIDE DEF u
      <4>3. v4'[p] = u
        BY <4>1 DEF u
      <4>4. QED
        BY <3>1, <4>2, <4>3
    <3>3. CASE ~(v2.cached # 0 /\ p = v3[v2.cached].proc)
      <4>1. v4'[p] = s
        BY <2>1, <3>1, <3>3 DEF M!Closed
      <4>2. QED
        BY <3>1, <3>3, <4>1
    <3>4. QED
      BY <3>2, <3>3
  <2>4. v4' \in [M!Procs -> MServer]
    BY <2>1, <2>3 DEF M!Closed
  <2>5. v2' \in MManager /\ v2'.cached = 0 /\ v2'.made = v2.made /\ \A c \in McpCalls : v2'.lock # c
    <3>1. CASE M!RunEnds
      <4>1. v2' = [v2 EXCEPT !.cached = 0] /\ \A c \in McpCalls : v5[c].at = "done"
        BY <3>1 DEF M!RunEnds, M!At
      <4>2. \A c \in McpCalls : v2.lock # c
        BY <4>1 DEF MInv, MLocked, MBusy
      <4>3. QED
        BY <4>1, <4>2, McpAssumption DEF MInv, MTyped, MManager
    <3>2. CASE M!Interrupt
      <4>1. v2' = [v2 EXCEPT !.cached = 0, !.lock = M!Nobody]
        BY <3>2 DEF M!Interrupt
      <4>2. v2 \in MManager /\ 0 \in 0..McpProcs
        BY McpAssumption DEF MInv, MTyped
      <4>3. v2' \in MManager /\ v2'.cached = 0 /\ v2'.made = v2.made /\ v2'.lock = M!Nobody
        BY <4>1, <4>2 DEF MManager
      <4>4. QED
        BY <4>3, MParts
    <3>3. QED
      BY <1>2, <3>1, <3>2
  <2>6. /\ v6' \in MRunT /\ v6'.on = FALSE
        /\ v6.cut \subseteq v6'.cut /\ v6.displaced = v6'.displaced
        /\ \A c \in McpCalls : v5[c].building => v3[v5[c].k].proc \in v6'.cut
        /\ \A c \in McpCalls : v5[c].at = "closing" => v5[c].p \in v6'.cut
    <3>1. CASE M!RunEnds
      <4>1. v6' = [v6 EXCEPT !.on = FALSE] /\ \A c \in McpCalls : v5[c].at = "done"
        BY <3>1 DEF M!RunEnds, M!At
      <4>2. QED
        BY <4>1 DEF MInv, MTyped, MLocked, MBusy, MRunT
    <3>2. CASE M!Interrupt
      <4> DEFINE built == {v3[v5[c].k].proc : c \in {x \in McpCalls : v5[x].building}}
                 ended == {v5[c].p : c \in {x \in McpCalls : M!At(x, "closing")}}
      <4>1. v6' = [v6 EXCEPT !.on = FALSE, !.bad = v6.bad + 1, !.cut = v6.cut \cup built \cup ended]
        BY <3>2 DEF M!Interrupt
      <4>2. built \in SUBSET (0..McpProcs)
        <5>1. ASSUME NEW c \in McpCalls, v5[c].building
              PROVE  v3[v5[c].k].proc \in 0..McpProcs
          BY <5>1, MParts DEF MInv, MLocked
        <5>2. QED
          BY <5>1
      <4>3. ended \in SUBSET (0..McpProcs)
        BY MParts
      <4>4. \A c \in McpCalls : /\ v5[c].building => v3[v5[c].k].proc \in built
                                /\ v5[c].at = "closing" => v5[c].p \in ended
        BY DEF M!At
      <4>5. v6 \in MRunT /\ v6.bad + 1 \in Nat
        BY DEF MInv, MTyped, MRunT
      <4> HIDE DEF built, ended
      <4>6. QED
        BY <4>1, <4>2, <4>3, <4>4, <4>5 DEF MRunT
    <3>3. QED
      BY <1>2, <3>1, <3>2
  <2>7. MTyped'
    BY <2>1, <2>2, <2>4, <2>5, <2>6 DEF MInv, MTyped
  <2>8. MLocked'
    BY <2>2, <2>5, MParts DEF MInv, MLocked, MBusy
  <2>9. MOwned'
    <3>1. ASSUME NEW p \in M!Procs, v4'[p].live
          PROVE  p \in v6'.cut \cup v6'.displaced
      <4>1. v4[p].live /\ ~(v2.cached # 0 /\ p = v3[v2.cached].proc)
        BY <2>3, <3>1
      <4>2. p \in v6.cut \cup v6.displaced \/ \E c \in McpCalls : MHolds(c, p)
        BY <4>1 DEF MInv, MOwned, MHeld
      <4>3. QED
        BY <2>6, <4>2 DEF MHolds
    <3>2. QED
      BY <3>1 DEF MOwned, MHeld
  <2>10. MAsked'
    <3>1. \A j \in M!Procs : v3[j].proc # 0 => v3[j].proc \in M!Procs
      BY MParts
    <3>2. QED
      BY <2>1, <2>3, <3>1 DEF MInv, MAsked
  <2>11. MAnswered'
    BY <2>2 DEF MAnswered, MWaiting
  <2>12. QED
    BY <2>7, <2>8, <2>9, <2>10, <2>11 DEF MInv
<1>3. QED
  BY <1>1, <1>2

LEMMA MLookupStep ==
  ASSUME MInv, NEW c \in McpCalls, M!Lookup(c) \/ M!Initialised(c)
  PROVE  MInv'
<1>0. v5 \in [McpCalls -> MCall] /\ v2 \in MManager /\ v5[c] \in MCall /\ UNCHANGED <<v1, v3, v4, v6>>
  BY MParts DEF MInv, MTyped, M!Lookup, M!Initialised
<1>1. ASSUME /\ v2' \in MManager /\ v5' \in [McpCalls -> MCall]
             /\ \A d \in McpCalls \ {c} : v5'[d] = v5[d]
             /\ v5'[c].at \notin MWaiting /\ v5'[c].got = v5[c].got
             /\ MLocked' /\ MOwned'
      PROVE  MInv'
  <2>1. MTyped'
    BY <1>0, <1>1 DEF MInv, MTyped
  <2>2. MAsked'
    BY <1>0 DEF MInv, MAsked
  <2>3. MAnswered'
    <3>1. ASSUME NEW d \in McpCalls, v5'[d].at \in MWaiting
          PROVE  MReads(d)'
      <4>1. v5'[d] = v5[d] /\ v5[d].at \in MWaiting
        BY <1>1, <3>1
      <4>2. QED
        BY <1>0, <4>1, MStillReads
    <3>2. QED
      BY <1>1, <3>1 DEF MInv, MAnswered
  <2>4. QED
    BY <1>1, <2>1, <2>2, <2>3 DEF MInv
<1>2. CASE M!Lookup(c) /\ v2.cached # 0
  <2>1. v5' = [v5 EXCEPT ![c].k = v2.cached, ![c].at = "init"] /\ v2' = v2 /\ v5[c].at = "lookup"
    BY <1>2 DEF M!Lookup, M!At
  <2>2. /\ v5' \in [McpCalls -> MCall] /\ \A d \in McpCalls \ {c} : v5'[d] = v5[d]
        /\ v5'[c].at = "init" /\ v5'[c].k = v2.cached /\ v5'[c].building = v5[c].building
        /\ v5'[c].got = v5[c].got
    BY <1>0, <2>1, MParts DEF MCall, MBusy
  <2>3. ~v5[c].building
    BY <2>1 DEF MInv, MLocked, MBusy
  <2>4. v2.cached \in 1..v2.made
    BY <1>2, MParts DEF MInv, MLocked
  <2>5. v6.on
    BY <2>1 DEF MInv, MLocked
  <2>6. MLocked'
    BY <1>0, <2>1, <2>2, <2>3, <2>4, <2>5 DEF MInv, MLocked, MBusy, MBegins, MWaiting
  <2>7. MOwned'
    BY <1>0, <2>1, <2>2, <2>3 DEF MInv, MOwned, MHeld, MHolds
  <2>8. QED
    BY <1>0, <1>1, <2>1, <2>2, <2>6, <2>7 DEF MWaiting
<1>3. CASE M!Lookup(c) /\ v2.cached = 0
  <2>1. /\ v5' = [v5 EXCEPT ![c].k = v2.made + 1, ![c].at = "init", ![c].building = TRUE]
        /\ v2' = [v2 EXCEPT !.lock = c, !.made = v2.made + 1]
        /\ v2.lock = M!Nobody /\ v2.made < McpProcs /\ v5[c].at = "lookup"
    BY <1>3 DEF M!Lookup, M!At
  <2>2. v2.made + 1 \in 0..McpProcs /\ v2.made \in Nat
    BY <2>1, MParts
  <2>3. /\ v5' \in [McpCalls -> MCall] /\ \A d \in McpCalls \ {c} : v5'[d] = v5[d]
        /\ v5'[c].at = "init" /\ v5'[c].k = v2.made + 1 /\ v5'[c].building = TRUE
        /\ v5'[c].got = v5[c].got
    BY <1>0, <2>1, <2>2 DEF MCall, MBusy
  <2>4. v2' \in MManager /\ v2'.lock = c /\ v2'.made = v2.made + 1 /\ v2'.cached = 0
    BY <1>0, <1>3, <2>1, <2>2 DEF MManager
  <2>5. \A d \in McpCalls : ~v5[d].building
    BY <2>1, MParts DEF MInv, MLocked
  <2>6. \A d \in McpCalls : v5[d].at \notin MBusy
    BY <1>3, <2>5, MParts DEF MInv, MLocked
  <2>7. v6.on
    BY <2>1 DEF MInv, MLocked
  <2>8. MLocked'
    BY <1>0, <2>2, <2>3, <2>4, <2>5, <2>6, <2>7 DEF MLocked, MBusy, MBegins, MWaiting
  <2>9. MOwned'
    <3>1. \A p \in M!Procs : v4[p].live => p \in v6.cut \cup v6.displaced
      BY <1>3, <2>5, <2>6 DEF MInv, MOwned, MHeld, MHolds, MBusy
    <3>2. QED
      BY <1>0, <3>1 DEF MOwned, MHeld
  <2>10. QED
    BY <1>0, <1>1, <2>3, <2>4, <2>8, <2>9 DEF MWaiting
<1>4. CASE M!Initialised(c) /\ v5[c].building
  <2>1. /\ v2' = [v2 EXCEPT !.cached = v5[c].k, !.lock = M!Nobody]
        /\ v5' = [v5 EXCEPT ![c].building = FALSE] /\ v5[c].at = "init"
    BY <1>4 DEF M!Initialised, M!At
  <2>2. /\ v5' \in [McpCalls -> MCall] /\ \A d \in McpCalls \ {c} : v5'[d] = v5[d]
        /\ v5'[c].at = "init" /\ v5'[c].k = v5[c].k /\ v5'[c].building = FALSE
        /\ v5'[c].got = v5[c].got
    BY <1>0, <2>1 DEF MCall
  <2>3. v5[c].k \in 1..v2.made /\ v5[c].k \in 0..McpProcs /\ v2.cached = 0 /\ v6.on
    BY <1>4, <2>1, MParts DEF MInv, MLocked, MBusy
  <2>4. v2' \in MManager /\ v2'.lock = M!Nobody /\ v2'.made = v2.made /\ v2'.cached = v5[c].k
    BY <1>0, <2>1, <2>3 DEF MManager
  <2>5. \A d \in McpCalls \ {c} : ~v5[d].building /\ v5[d].at \notin MBusy
    BY <1>4, MAlone DEF MInv, MLocked
  <2>6. MLocked'
    BY <1>0, <2>2, <2>3, <2>4, <2>5, MParts DEF MLocked, MBusy, MBegins, MWaiting
  <2>7. MOwned'
    <3>1. ASSUME NEW p \in M!Procs, v4[p].live
          PROVE  p \in v6.cut \cup v6.displaced \/ p = v3[v5[c].k].proc
      <4>1. \A d \in McpCalls : v5[d].at # "closing"
        BY <2>1, <2>5 DEF MBusy
      <4>2. QED
        BY <2>3, <2>5, <3>1, <4>1 DEF MInv, MOwned, MHeld, MHolds
    <3>2. v5[c].k # 0
      BY <2>3, MParts
    <3>3. QED
      BY <1>0, <2>4, <3>1, <3>2 DEF MOwned, MHeld
  <2>8. QED
    BY <1>0, <1>1, <2>2, <2>4, <2>6, <2>7 DEF MWaiting
<1>5. CASE M!Initialised(c) /\ ~v5[c].building
  <2>1. v5' = [v5 EXCEPT ![c].at = "write", ![c].kind = "tools"] /\ v2' = v2 /\ v5[c].at = "init"
    BY <1>5 DEF M!Initialised, M!At
  <2>2. /\ v5' \in [McpCalls -> MCall] /\ \A d \in McpCalls \ {c} : v5'[d] = v5[d]
        /\ v5'[c].at = "write" /\ v5'[c].k = v5[c].k /\ v5'[c].building = FALSE
        /\ v5'[c].got = v5[c].got
    BY <1>0, <1>5, <2>1, MParts DEF MCall, MBusy
  <2>3. MLocked'
    BY <1>0, <1>5, <2>1, <2>2, MParts DEF MInv, MLocked, MBusy, MBegins, MWaiting
  <2>4. MOwned'
    BY <1>0, <1>5, <2>1, <2>2 DEF MInv, MOwned, MHeld, MHolds
  <2>5. QED
    BY <1>0, <1>1, <2>1, <2>2, <2>3, <2>4 DEF MWaiting
<1>6. QED
  BY <1>2, <1>3, <1>4, <1>5, MParts DEF M!Initialised

\* The process a client knows is its own, and its clients are made.
LEMMA MOwners ==
  ASSUME MInv
  PROVE  /\ \A j \in M!Procs : v3[j].proc # 0 => v3[j].proc \in M!Procs /\ v4[v3[j].proc].owner = j
         /\ \A p \in M!Procs : v4[p].owner # 0 => v4[p].owner \in M!Procs
         /\ \A p \in M!Procs : v4[p].owner # 0 => \A r \in MSays(v4[p]) : r[1] < v3[v4[p].owner].next
         /\ 0 \notin M!Procs
<1>1. /\ \A j \in M!Procs : v3[j].proc \in 0..McpProcs
      /\ \A p \in M!Procs : v4[p].owner \in 0..McpProcs
      /\ M!Procs = 1..McpProcs /\ McpProcs \in Nat
  BY MParts
<1>2. QED
  BY <1>1 DEF MInv, MAsked

\* A process of no client yet becomes c's client's.
LEMMA MSpawned ==
  ASSUME MInv, NEW p \in M!Procs, NEW k \in M!Procs, v4[p].owner = 0,
         NEW srv, srv = [v4 EXCEPT ![p].live = TRUE, ![p].owner = k]
  PROVE  /\ srv \in [M!Procs -> MServer] /\ \A q \in M!Procs \ {p} : srv[q] = v4[q]
         /\ srv[p].owner = k /\ MSays(srv[p]) = {}
<1>0. k \in 0..McpProcs
  BY MParts
<1>1. PICK s \in MServer : s = v4[p]
  BY MParts
<1> DEFINE u == [s EXCEPT !.live = TRUE, !.owner = k]
<1>2. u \in MServer /\ u.owner = k /\ u.out = s.out /\ u.asked = s.asked
  BY <1>0 DEF MServer
<1> HIDE DEF u
<1>3. MSays(u) = MSays(s)
  BY <1>2 DEF MSays
<1>4. MSays(s) = {}
  BY <1>1 DEF MInv, MAsked
<1>5. [v4 EXCEPT ![p].live = TRUE, ![p].owner = k] = [v4 EXCEPT ![p] = u]
  BY <1>1, Zenon DEF u
<1>6. v4 \in [M!Procs -> MServer]
  BY DEF MInv, MTyped
<1>7. QED
  BY <1>2, <1>3, <1>4, <1>5, <1>6

LEMMA MHandshakeStep ==
  ASSUME MInv, NEW c \in McpCalls, M!Handshake(c)
  PROVE  MInv'
<1> DEFINE k == v5[c].k
<1>0. /\ k \in M!Procs /\ v5[c].at = "init" /\ UNCHANGED <<v1, v2, v4, v6>> /\ v6.on
      /\ v3 \in [M!Procs -> MClient] /\ v5 \in [McpCalls -> MCall] /\ v5[c] \in MCall
  BY MParts DEF M!Handshake, M!At, MInv, MTyped, MLocked, MBusy
<1>1. /\ v5' \in [McpCalls -> MCall] /\ \A d \in McpCalls \ {c} : v5'[d] = v5[d]
      /\ v5'[c].at \in {"write", "spawn"} /\ v5'[c].kind = "initialize" /\ v5'[c].k = k
      /\ v5'[c].building = v5[c].building /\ v5'[c].got = v5[c].got
  <2>1. PICK at \in {"write", "spawn"} : v5' = [v5 EXCEPT ![c].at = at, ![c].kind = "initialize"]
    BY Zenon DEF M!Handshake
  <2>2. QED
    BY <1>0, <2>1 DEF MCall, MBusy
<1>2. MLocked'
  <2>1. ASSUME NEW d \in McpCalls
        PROVE  /\ v5'[d].building <=> v2.lock = d
               /\ v5'[d].building => v2.cached = 0 /\ v5'[d].at \in MBusy
               /\ v5'[d].building /\ v5'[d].at \in MBegins => v5'[d].kind = "initialize"
               /\ v5'[d].at \in MBusy =>
                    v5'[d].k \in 1..v2.made /\ (~v5'[d].building => v5'[d].k = v2.cached)
    <3>1. CASE d # c
      BY <1>1, <3>1 DEF MInv, MLocked
    <3>2. CASE d = c
      BY <1>0, <1>1, <3>2 DEF MInv, MLocked, MBusy
    <3>3. QED
      BY <3>1, <3>2
  <2>2. QED
    BY <1>0, <2>1 DEF MInv, MLocked
<1>3. /\ v3' \in [M!Procs -> MClient]
      /\ \A j \in M!Procs : v3'[j].proc = v3[j].proc /\ v3'[j].next = v3[j].next /\ v3'[j].req = v3[j].req
  <2>1. PICK i \in M!Procs : i = k
    BY <1>0
  <2>2. v3' = [v3 EXCEPT ![i].init = c, ![i].ready = FALSE]
    BY <2>1 DEF M!Handshake
  <2>3. PICK r \in MClient : r = v3[i]
    BY <1>0
  <2>4. [r EXCEPT !.init = c, !.ready = FALSE] \in MClient
    BY DEF MClient
  <2>5. v3' = [v3 EXCEPT ![i] = [r EXCEPT !.init = c, !.ready = FALSE]]
    BY <2>2, <2>3
  <2>6. /\ v3' \in [M!Procs -> MClient] /\ \A j \in M!Procs \ {i} : v3'[j] = v3[j]
        /\ v3'[i].proc = v3[i].proc /\ v3'[i].req = v3[i].req /\ v3'[i].next = v3[i].next
    BY <1>0, <2>3, <2>4, <2>5 DEF MClient
  <2>7. QED
    BY <2>6
<1>4. MTyped'
  BY <1>0, <1>1, <1>3 DEF MInv, MTyped
<1>5. MOwned'
  <2>1. ASSUME NEW p \in M!Procs, NEW d \in McpCalls, MHolds(d, p)
        PROVE  MHolds(d, p)'
    <3>1. CASE v5[d].building /\ p = v3[v5[d].k].proc
      <4>1. v5[d].k \in M!Procs
        BY <3>1, MParts DEF MInv, MLocked
      <4>2. v5'[d].building = v5[d].building /\ v5'[d].k = v5[d].k
        BY <1>1
      <4>3. QED
        BY <1>3, <3>1, <4>1, <4>2 DEF MHolds
    <3>2. CASE v5[d].at = "closing" /\ p = v5[d].p
      BY <1>0, <1>1, <3>2 DEF MHolds
    <3>3. QED
      BY <2>1, <3>1, <3>2 DEF MHolds
  <2>2. v2.cached # 0 => v3'[v2.cached].proc = v3[v2.cached].proc
    BY <1>3, MParts
  <2>3. ASSUME NEW p \in M!Procs, MHeld(p)
        PROVE  MHeld(p)'
    BY <1>0, <2>1, <2>2, <2>3 DEF MHeld
  <2>4. QED
    BY <1>0, <2>3 DEF MInv, MOwned
<1>6. MAsked'
  <2>1. \A p \in M!Procs : v4[p].owner # 0 => v4[p].owner \in M!Procs
    BY MParts
  <2>2. QED
    BY <1>0, <1>3, <2>1, ZenonT(40) DEF MInv, MAsked
<1>7. MAnswered'
  <2>1. ASSUME NEW d \in McpCalls, v5'[d].at \in MWaiting
        PROVE  MReads(d)'
    <3>1. v5'[d] = v5[d] /\ v5[d].at \in MWaiting
      BY <1>1, <2>1 DEF MWaiting
    <3>2. v5[d].k \in M!Procs
      BY <3>1, MParts DEF MInv, MLocked, MBusy, MWaiting
    <3>3. v3'[v5[d].k].req = v3[v5[d].k].req /\ v3'[v5[d].k].next = v3[v5[d].k].next
          /\ v3'[v5[d].k].proc = v3[v5[d].k].proc
      BY <1>3, <3>2
    <3>4. QED
      BY <1>0, <3>1, <3>3, MStillReads
  <2>2. QED
    BY <1>1, <2>1 DEF MInv, MAnswered
<1>8. QED
  BY <1>2, <1>4, <1>5, <1>6, <1>7 DEF MInv

\* A call asks, begins to start a process or has it: c's client may get a
\* process, whose place in it the earlier one loses, and its processes may be
\* asked c's request while no other call of the client waits.
LEMMA MMoves ==
  ASSUME MInv, NEW c \in McpCalls, v5[c].at \in {"write", "spawn", "respawn"}, v2' = v2,
         v6' \in MRunT, v6'.on = v6.on, v6'.cut = v6.cut, v6.displaced \subseteq v6'.displaced,
         NEW k, k = v5[c].k,
         v5' \in [McpCalls -> MCall], \A d \in McpCalls \ {c} : v5'[d] = v5[d],
         v5'[c].at \in MBegins, v5'[c].kind = v5[c].kind, v5'[c].k = k,
         v5'[c].building = v5[c].building, v5'[c].got = v5[c].got,
         v3' \in [M!Procs -> MClient], \A j \in M!Procs \ {k} : v3'[j] = v3[j],
         v3'[k].next \in {v3[k].next, v3[k].next + 1},
         \/ v3'[k].proc = v3[k].proc
         \/ v3'[k].proc \in M!Procs /\ v3[k].proc \in v6'.displaced,
         v3'[k].proc # 0 => v4'[v3'[k].proc].owner = k,
         \A d \in McpCalls : v3[k].req = d => v3'[k].req = d,
         v4' \in [M!Procs -> MServer],
         \A p \in M!Procs : v4'[p].owner # k => v4'[p] = v4[p],
         \A p \in M!Procs : v4'[p].owner = k => v4[p].owner \in {0, k},
         \A p \in M!Procs : v4'[p].live => v4[p].live \/ p = v3'[k].proc,
         \A p \in M!Procs : v4'[p].owner = k => \A r \in MSays(v4'[p]) :
           \/ v4[p].owner = k /\ r \in MSays(v4[p])
           \/ r[1] < v3'[k].next /\ v3[k].req \in {M!Nobody, c},
         v5'[c].at \in MWaiting => MReads(c)'
  PROVE  MInv'
<1>0. /\ k \in M!Procs /\ k # 0 /\ v6.on /\ v5[c].at \in MBusy /\ k \in 1..v2.made
      /\ v5[c].at \in MBegins
  <2>1. v5[c].at \in MBusy /\ v5[c].at \in MBegins
    BY DEF MBusy, MBegins, MWaiting
  <2>2. v5[c].k \in 1..v2.made /\ v6.on
    BY <2>1 DEF MInv, MLocked, MBusy
  <2>3. v5[c].k \in M!Procs
    BY <2>2, MParts
  <2>4. QED
    BY <2>1, <2>2, <2>3, MOwners
<1>1. MTyped'
  BY DEF MInv, MTyped
<1>2. MLocked'
  <2>1. ASSUME NEW d \in McpCalls
        PROVE  /\ v5'[d].building <=> v2.lock = d
               /\ v5'[d].building => v2.cached = 0 /\ v5'[d].at \in MBusy
               /\ v5'[d].building /\ v5'[d].at \in MBegins => v5'[d].kind = "initialize"
               /\ v5'[d].at \in MBusy =>
                    v5'[d].k \in 1..v2.made /\ (~v5'[d].building => v5'[d].k = v2.cached)
    <3>1. CASE d # c
      BY <3>1 DEF MInv, MLocked
    <3>2. CASE d = c
      BY <1>0, <3>2 DEF MInv, MLocked, MBusy, MBegins, MWaiting
    <3>3. QED
      BY <3>1, <3>2
  <2>2. QED
    BY <1>0, <2>1 DEF MInv, MLocked
<1>3. MOwned'
  <2>1. ASSUME NEW p \in M!Procs, p = v3'[k].proc
        PROVE  MHeld(p)'
    <3>1. CASE v5[c].building
      <4>1. MHolds(c, p)'
        BY <2>1, <3>1 DEF MHolds
      <4>2. QED
        BY <4>1 DEF MHeld
    <3>2. CASE ~v5[c].building
      <4>1. v2.cached = k
        BY <1>0, <3>2 DEF MInv, MLocked
      <4>2. QED
        BY <1>0, <2>1, <4>1 DEF MHeld
    <3>3. QED
      BY <3>1, <3>2
  <2>2. ASSUME NEW p \in M!Procs, v4[p].live, p # v3'[k].proc
        PROVE  MHeld(p)'
    <3>1. p = v3[k].proc => p \in v6'.displaced
      BY <2>2
    <3>2. CASE p \in v6.cut \cup v6.displaced
      BY <3>2 DEF MHeld
    <3>3. CASE p = v3[k].proc
      BY <3>1, <3>3 DEF MHeld
    <3>4. CASE v2.cached # 0 /\ p = v3[v2.cached].proc /\ p # v3[k].proc
      <4>1. v2.cached \in M!Procs \ {k}
        BY <3>4, MParts
      <4>2. v3'[v2.cached] = v3[v2.cached]
        BY <4>1
      <4>3. QED
        BY <3>4, <4>2 DEF MHeld
    <3>5. ASSUME NEW d \in McpCalls, MHolds(d, p), p # v3[k].proc
          PROVE  MHeld(p)'
      <4>1. d # c
        BY <3>5 DEF MHolds
      <4>2. v5'[d] = v5[d] /\ ~v5[d].building
        BY <1>0, <4>1, MAlone
      <4>3. MHolds(d, p)'
        BY <3>5, <4>2 DEF MHolds
      <4>4. QED
        BY <4>3 DEF MHeld
    <3>6. QED
      BY <2>2, <3>2, <3>3, <3>4, <3>5 DEF MInv, MOwned, MHeld
  <2>3. QED
    BY <2>1, <2>2 DEF MOwned
<1>4. MAsked'
  <2>1. ASSUME NEW j \in M!Procs, v3'[j].proc # 0
        PROVE  v4'[v3'[j].proc].owner = j
    <3>1. CASE j = k
      BY <2>1, <3>1
    <3>2. CASE j # k
      <4>1. v3'[j].proc = v3[j].proc
        BY <3>2
      <4>2. v3[j].proc \in M!Procs /\ v4[v3[j].proc].owner = j /\ j # 0
        BY <2>1, <4>1, MOwners
      <4>3. v4'[v3[j].proc] = v4[v3[j].proc]
        BY <3>2, <4>2
      <4>4. QED
        BY <4>1, <4>2, <4>3
    <3>3. QED
      BY <3>1, <3>2
  <2>2. ASSUME NEW p \in M!Procs, v4'[p].owner = 0
        PROVE  ~v4'[p].live /\ MSays(v4'[p]) = {}
    <3>1. v4'[p] = v4[p]
      BY <1>0, <2>2
    <3>2. QED
      BY <2>2, <3>1 DEF MInv, MAsked
  <2>3. ASSUME NEW p \in M!Procs, v4'[p].owner # 0, NEW r \in MSays(v4'[p])
        PROVE  r[1] < v3'[v4'[p].owner].next
    <3>1. CASE v4'[p].owner = k
      <4>1. CASE v4[p].owner = k /\ r \in MSays(v4[p])
        <5>1. r[1] < v3[k].next
          BY <1>0, <4>1 DEF MInv, MAsked
        <5>2. r[1] \in Nat /\ v3[k].next \in Nat
          BY <1>0, <2>3, MParts DEF MSays, MRequest
        <5>3. r[1] < v3'[k].next
          BY <5>1, <5>2
        <5>4. QED
          BY <3>1, <5>3
      <4>2. QED
        BY <2>3, <3>1, <4>1
    <3>2. CASE v4'[p].owner # k
      <4>1. v4'[p] = v4[p]
        BY <3>2
      <4>2. v4[p].owner \in M!Procs /\ r[1] < v3[v4[p].owner].next
        BY <2>3, <4>1, MOwners
      <4>3. QED
        BY <3>2, <4>1, <4>2
    <3>3. QED
      BY <3>1, <3>2
  <2>4. QED
    BY <2>1, <2>2, <2>3 DEF MAsked
<1>5. MAnswered'
  <2>1. ASSUME NEW d \in McpCalls \ {c}, v5'[d].at \in MWaiting
        PROVE  MReads(d)'
    <3>1. /\ v5'[d] = v5[d] /\ v5[d].at \in MWaiting /\ MReads(d) /\ v5[d].k \in M!Procs
          /\ M!Nobody # d /\ v5[d].k # 0
      BY <2>1, MParts, SMTT(30) DEF MInv, MLocked, MBusy, MAnswered, MWaiting
    <3>2. CASE v5[d].k # k
      <4>1. v3'[v5[d].k] = v3[v5[d].k]
        BY <3>1, <3>2
      <4>2. \A p \in M!Procs : v4[p].owner = v5[d].k => v4'[p].owner = v5[d].k
        BY <3>1, <3>2
      <4>3. \A p \in M!Procs : v4'[p].owner = v5[d].k => v4'[p] = v4[p]
        BY <3>2
      <4>4. QED
        BY <3>1, <4>1, <4>2, <4>3, MStillReads
    <3>3. CASE v5[d].k = k
      <4>0. v3[k].req = d /\ v3'[k].req = d /\ d \notin {M!Nobody, c}
        BY <2>1, <3>1, <3>3 DEF MReads
      <4>1. PICK e : e = v5[d]
        OBVIOUS
      <4>2. e.k = k /\ v5'[d] = e /\ v3'[e.k].req = d
        BY <3>1, <3>3, <4>0, <4>1
      <4>3. e.id \in Nat /\ e.p \in 0..McpProcs /\ v3[k].next \in Nat /\ v3[k].proc \in 0..McpProcs
        BY <1>0, <4>1, MParts
      <4>4. /\ e.at = "read" => v3[k].proc # 0 /\ e.p # 0 /\ v4[e.p].owner = k
            /\ e.id < v3[k].next
            /\ \A p \in M!Procs : v4[p].owner = k => \A r \in MSays(v4[p]) : r[1] = e.id => r[2] = d
        BY <3>1, <3>3, <4>1 DEF MReads
      <4>5. e.id < v3'[e.k].next
        BY <4>2, <4>3, <4>4
      <4>6. e.at = "read" => v3'[e.k].proc # 0 /\ e.p # 0 /\ v4'[e.p].owner = e.k
        <5>1. v3[k].proc # 0 => v3'[k].proc # 0
          BY MOwners
        <5>2. e.p # 0 => e.p \in M!Procs
          BY <4>3, MParts
        <5>3. ASSUME NEW p \in M!Procs, v4[p].owner = k
              PROVE  v4'[p].owner = k
          BY <5>3
        <5>4. QED
          BY <4>2, <4>4, <5>1, <5>2, <5>3
      <4>7. \A p \in M!Procs : v4'[p].owner = e.k => \A r \in MSays(v4'[p]) : r[1] = e.id => r[2] = d
        BY <4>0, <4>2, <4>4
      <4>8. QED
        BY <4>2, <4>5, <4>6, <4>7, MReadsNow
    <3>4. QED
      BY <3>2, <3>3
  <2>2. \A d \in McpCalls : v5'[d].at \in MWaiting => MReads(d)'
    BY <2>1
  <2>3. QED
    BY <2>2 DEF MInv, MAnswered
<1>6. QED
  BY <1>1, <1>2, <1>3, <1>4, <1>5 DEF MInv

\* A process is asked a request: nothing else of it changes.
LEMMA MAsks ==
  ASSUME NEW srv \in [M!Procs -> MServer], NEW q \in M!Procs, NEW r \in MRequest
  PROVE  LET x == M!Asked(srv, q, r)
         IN  /\ x \in [M!Procs -> MServer] /\ \A p \in M!Procs \ {q} : x[p] = srv[p]
             /\ x[q].owner = srv[q].owner /\ x[q].live = srv[q].live
             /\ MSays(x[q]) \subseteq MSays(srv[q]) \cup {r}
<1>1. PICK s \in MServer : s = srv[q]
  OBVIOUS
<1>2. PICK h \in BOOLEAN : h = (s.shook \/ r[3] = "initialize")
  BY Zenon
<1> DEFINE u == [s EXCEPT !.asked = s.asked \cup {r}, !.shook = h]
<1>3. u \in MServer /\ u.owner = s.owner /\ u.live = s.live /\ u.asked = s.asked \cup {r} /\ u.out = s.out
  BY DEF MServer
<1>4. M!Asked(srv, q, r) = [srv EXCEPT ![q] = u]
  BY <1>1, <1>2 DEF M!Asked
<1> HIDE DEF u
<1>5. MSays(u) \subseteq MSays(s) \cup {r}
  BY <1>3 DEF MSays
<1>6. QED
  BY <1>1, <1>3, <1>4, <1>5

\* A call takes the second lock and the next id.
LEMMA MTakesId ==
  ASSUME MInv, NEW k \in M!Procs, NEW c \in McpCalls, NEW w \in BOOLEAN,
         v3' = IF w THEN [v3 EXCEPT ![k].req = c, ![k].next = v3[k].next + 1]
               ELSE [v3 EXCEPT ![k].req = c, ![k].next = v3[k].next + 1, ![k].ready = FALSE]
  PROVE  /\ v3' \in [M!Procs -> MClient] /\ \A j \in M!Procs \ {k} : v3'[j] = v3[j]
         /\ v3'[k].proc = v3[k].proc /\ v3'[k].req = c /\ v3'[k].next = v3[k].next + 1
<1>1. PICK e \in MClient : e = v3[k]
  BY MParts
<1>2. PICK m \in Nat : m = e.next + 1
  BY <1>1, MParts
<1> DEFINE u == [e EXCEPT !.req = c, !.next = m]
           w0 == [e EXCEPT !.req = c, !.next = m, !.ready = FALSE]
<1>3. u \in MClient /\ u.proc = e.proc /\ u.req = c /\ u.next = m
  BY DEF MClient
<1>4. w0 \in MClient /\ w0.proc = e.proc /\ w0.req = c /\ w0.next = m
  BY DEF MClient
<1>5. v3' = [v3 EXCEPT ![k] = u] \/ v3' = [v3 EXCEPT ![k] = w0]
  BY <1>1, <1>2
<1> HIDE DEF u, w0
<1>6. v3 \in [M!Procs -> MClient]
  BY DEF MInv, MTyped
<1>7. QED
  BY <1>1, <1>2, <1>3, <1>4, <1>5, <1>6

LEMMA MWriteStep ==
  ASSUME MInv, NEW c \in McpCalls, M!Write(c)
  PROVE  MInv'
<1>0. PICK k \in M!Procs : k = v5[c].k
  BY MParts, Zenon DEF M!Write, M!At, MInv, MLocked, MBusy
<1>1. /\ v5[c].at = "write" /\ v2' = v2 /\ v6' = v6 /\ v3[k].req = M!Nobody /\ v1 # "http"
      /\ v4 \in [M!Procs -> MServer] /\ v5[c] \in MCall /\ v5 \in [McpCalls -> MCall]
      /\ v6' \in MRunT /\ k # 0
  <2>1. /\ v5[c].at = "write" /\ v2' = v2 /\ v6' = v6 /\ v3[k].req = M!Nobody /\ v1 # "http"
    BY <1>0, Zenon DEF M!Write, M!At, M!Http
  <2>2. QED
    BY <2>1, MOwners DEF MInv, MTyped
<1> DEFINE n == v3[k].next
<1>2. n \in Nat /\ v5[c].kind \in {"none", "initialize", "tools"} /\ \A d \in McpCalls : d # M!Nobody
  BY MParts
<1>3. ASSUME M!Alive(k), v4' = M!Asked(v4, v3[k].proc, M!Request(c)),
             v3' = [v3 EXCEPT ![k].req = c, ![k].next = n + 1],
             v5' = [v5 EXCEPT ![c].at = "read", ![c].p = v3[k].proc, ![c].id = n]
      PROVE  MInv'
  <2>1. PICK q \in M!Procs : q = v3[k].proc
    <3>1. v3[k].proc # 0
      BY <1>1, <1>3 DEF M!Alive, M!Http
    <3>2. QED
      BY <3>1, MOwners
  <2>2. /\ v3' \in [M!Procs -> MClient] /\ \A j \in M!Procs \ {k} : v3'[j] = v3[j]
        /\ v3'[k].proc = q /\ v3'[k].req = c /\ v3'[k].next = n + 1
    BY <1>3, <2>1, MTakesId
  <2> HIDE DEF n
  <2>3. PICK r \in MRequest : r = M!Request(c) /\ r[1] = n /\ r[2] = c
    <3>1. M!Request(c) = <<n, c, v5[c].kind>>
      BY <1>0 DEF M!Request, n
    <3>2. <<n, c, v5[c].kind>> \in MRequest
      BY <1>2 DEF MRequest, n
    <3>3. QED
      BY <3>1, <3>2
  <2>4. v4[q].owner = k /\ q # 0 /\ q \in 0..McpProcs
    BY <1>1, <2>1, MOwners, MParts
  <2>5. /\ v4' \in [M!Procs -> MServer] /\ \A p \in M!Procs \ {q} : v4'[p] = v4[p]
        /\ v4'[q].owner = k /\ v4'[q].live = v4[q].live /\ MSays(v4'[q]) \subseteq MSays(v4[q]) \cup {r}
    <3>1. v4' = M!Asked(v4, q, r)
      BY <1>3, <2>1, <2>3
    <3> DEFINE x == M!Asked(v4, q, r)
    <3>2. /\ x \in [M!Procs -> MServer] /\ \A p \in M!Procs \ {q} : x[p] = v4[p]
          /\ x[q].owner = v4[q].owner /\ x[q].live = v4[q].live
          /\ MSays(x[q]) \subseteq MSays(v4[q]) \cup {r}
      BY <1>1, MAsks
    <3> HIDE DEF x
    <3>3. v4' = x
      BY <3>1 DEF x
    <3>4. QED
      BY <2>4, <3>2, <3>3
  <2>6. /\ v5' \in [McpCalls -> MCall] /\ \A d \in McpCalls \ {c} : v5'[d] = v5[d]
        /\ v5'[c].at = "read" /\ v5'[c].kind = v5[c].kind /\ v5'[c].k = k /\ v5'[c].p = q /\ v5'[c].id = n
        /\ v5'[c].building = v5[c].building /\ v5'[c].got = v5[c].got
    <3>1. v5' = [v5 EXCEPT ![c].at = "read", ![c].p = q, ![c].id = n]
      BY <1>3, <2>1
    <3>2. QED
      BY <1>0, <1>1, <1>2, <2>4, <3>1 DEF MCall, MBusy, n
  <2>7. ASSUME NEW p \in M!Procs, v4'[p].owner = k, NEW x \in MSays(v4'[p])
        PROVE  (v4[p].owner = k /\ x \in MSays(v4[p]) /\ x[1] < n) \/ x = r
    <3>1. v4[p].owner = k /\ (x \in MSays(v4[p]) \/ x = r)
      BY <2>4, <2>5, <2>7
    <3>2. QED
      BY <1>1, <3>1, MOwners DEF n
  <2>8. n < n + 1 /\ \A x \in MRequest : x[1] < n => x[1] < n + 1 /\ x[1] # n
    BY <1>2 DEF n, MRequest
  <2>9. MReads(c)'
    <3>1. \A p \in M!Procs : v4'[p].owner = k => \A x \in MSays(v4'[p]) : x[1] = n => x[2] = c
      BY <2>3, <2>7, <2>8 DEF MSays
    <3>2. QED
      BY <2>2, <2>4, <2>5, <2>6, <2>8, <3>1 DEF MReads
  <2>10. \A p \in M!Procs : v4'[p].owner = k => \A x \in MSays(v4'[p]) :
           \/ v4[p].owner = k /\ x \in MSays(v4[p])
           \/ x[1] < v3'[k].next /\ v3[k].req \in {M!Nobody, c}
    BY <1>1, <2>2, <2>3, <2>7, <2>8
  <2>11. /\ \A p \in M!Procs : v4'[p].owner # k => v4'[p] = v4[p]
         /\ \A p \in M!Procs : v4'[p].owner = k => v4[p].owner \in {0, k}
         /\ \A p \in M!Procs : v4'[p].live => v4[p].live \/ p = v3'[k].proc
         /\ v3'[k].proc # 0 => v4'[v3'[k].proc].owner = k
         /\ \A d \in McpCalls : v3[k].req = d => v3'[k].req = d
         /\ v3'[k].next \in {v3[k].next, v3[k].next + 1} /\ v3'[k].proc = v3[k].proc
         /\ v5'[c].at \in MBegins
    BY <1>1, <1>2, <2>1, <2>2, <2>4, <2>5, <2>6 DEF MBegins, MWaiting, n
  <2>12. v6'.on = v6.on /\ v6'.cut = v6.cut /\ v6.displaced \subseteq v6'.displaced /\ v6' \in MRunT
    BY <1>1
  <2>13. QED
    BY <1>0, <1>1, <2>2, <2>5, <2>6, <2>9, <2>10, <2>11, <2>12, MMoves
<1>4. ASSUME v3[k].proc = 0, v4' = v4,
             v3' = [v3 EXCEPT ![k].req = c, ![k].next = n + 1, ![k].ready = FALSE],
             v5' = [v5 EXCEPT ![c].at = "respawn", ![c].id = n]
      PROVE  MInv'
  <2>1. /\ v3' \in [M!Procs -> MClient] /\ \A j \in M!Procs \ {k} : v3'[j] = v3[j]
        /\ v3'[k].proc = 0 /\ v3'[k].req = c /\ v3'[k].next = n + 1
    BY <1>4, MTakesId
  <2> HIDE DEF n
  <2>2. /\ v5' \in [McpCalls -> MCall] /\ \A d \in McpCalls \ {c} : v5'[d] = v5[d]
        /\ v5'[c].at = "respawn" /\ v5'[c].kind = v5[c].kind /\ v5'[c].k = k /\ v5'[c].id = n
        /\ v5'[c].building = v5[c].building /\ v5'[c].got = v5[c].got
    BY <1>0, <1>1, <1>2, <1>4 DEF MCall, MBusy, n
  <2>3. n < n + 1 /\ \A x \in MRequest : x[1] < n => x[1] # n
    BY <1>2 DEF n, MRequest
  <2>4. MReads(c)'
    <3>1. \A p \in M!Procs : v4[p].owner = k => \A x \in MSays(v4[p]) : x[1] < n
      BY <1>1, MOwners DEF n
    <3>2. \A p \in M!Procs : v4'[p].owner = k => \A x \in MSays(v4'[p]) : x[1] = n => x[2] = c
      BY <1>4, <2>3, <3>1 DEF MSays
    <3>3. QED
      BY <2>1, <2>2, <2>3, <3>2 DEF MReads
  <2>5. /\ \A p \in M!Procs : v4'[p].owner # k => v4'[p] = v4[p]
        /\ \A p \in M!Procs : v4'[p].owner = k => v4[p].owner \in {0, k}
        /\ \A p \in M!Procs : v4'[p].live => v4[p].live \/ p = v3'[k].proc
        /\ \A p \in M!Procs : v4'[p].owner = k => \A x \in MSays(v4'[p]) :
             \/ v4[p].owner = k /\ x \in MSays(v4[p])
             \/ x[1] < v3'[k].next /\ v3[k].req \in {M!Nobody, c}
        /\ \A d \in McpCalls : v3[k].req = d => v3'[k].req = d
        /\ v3'[k].next \in {v3[k].next, v3[k].next + 1}
        /\ v3'[k].proc = v3[k].proc /\ v3'[k].proc = 0
        /\ v5'[c].at \in MBegins /\ v4' \in [M!Procs -> MServer]
    BY <1>1, <1>2, <1>4, <2>1, <2>2 DEF MBegins, MWaiting, n
  <2>6. v6'.on = v6.on /\ v6'.cut = v6.cut /\ v6.displaced \subseteq v6'.displaced /\ v6' \in MRunT
    BY <1>1
  <2>7. QED
    BY <1>0, <1>1, <2>1, <2>2, <2>4, <2>5, <2>6, MMoves
<1>5. QED
  <2>1. \/ /\ M!Alive(k) /\ v4' = M!Asked(v4, v3[k].proc, M!Request(c))
           /\ v3' = [v3 EXCEPT ![k].req = c, ![k].next = n + 1]
           /\ v5' = [v5 EXCEPT ![c].at = "read", ![c].p = v3[k].proc, ![c].id = n]
        \/ /\ v3[k].proc = 0 /\ v4' = v4
           /\ v3' = [v3 EXCEPT ![k].req = c, ![k].next = n + 1, ![k].ready = FALSE]
           /\ v5' = [v5 EXCEPT ![c].at = "respawn", ![c].id = n]
    BY <1>0, Zenon DEF M!Write
  <2>2. QED
    BY <1>3, <1>4, <2>1

LEMMA MSpawnedStep ==
  ASSUME MInv, NEW c \in McpCalls, NEW q \in M!Procs, M!Spawned(c, q)
  PROVE  MInv'
<1> DEFINE born == [v4 EXCEPT ![q].live = TRUE, ![q].owner = v5[c].k]
<1>0. /\ v4[q].owner = 0 /\ v2' = v2
      /\ v3' = [v3 EXCEPT ![v5[c].k].proc = q]
      /\ v6' = [v6 EXCEPT !.displaced = v6.displaced \cup {v3[v5[c].k].proc}]
      /\ \/ v5[c].at = "spawn" /\ v4' = born /\ v5' = [v5 EXCEPT ![c].at = "write"]
         \/ /\ v5[c].at = "respawn" /\ v4' = M!Asked(born, q, <<v5[c].id, c, v5[c].kind>>)
            /\ v5' = [v5 EXCEPT ![c].at = "read", ![c].p = q]
  BY Zenon DEF M!Spawned, M!At, M!Unborn
<1>1. PICK k \in M!Procs : k = v5[c].k
  BY <1>0, MParts DEF MInv, MLocked, MBusy
<1>2. /\ v3 \in [M!Procs -> MClient] /\ v5[c] \in MCall /\ v5 \in [McpCalls -> MCall]
      /\ k # 0 /\ q # 0 /\ q \in 0..McpProcs /\ \A d \in McpCalls : d # M!Nobody
      /\ v3[k].next \in Nat /\ v3[k].proc \in 0..McpProcs /\ v5[c].id \in Nat
      /\ v5[c].kind \in {"none", "initialize", "tools"}
  BY MOwners, MParts DEF MInv, MTyped
<1>3. /\ born \in [M!Procs -> MServer] /\ \A p \in M!Procs \ {q} : born[p] = v4[p]
      /\ born[q].owner = k /\ MSays(born[q]) = {}
  <2>1. born = [v4 EXCEPT ![q].live = TRUE, ![q].owner = k]
    BY <1>1
  <2>2. v4[q].owner = 0
    BY <1>0
  <2>3. QED
    BY <2>1, <2>2, MSpawned, ZenonT(40)
<1> HIDE DEF born
<1>4. /\ v3' \in [M!Procs -> MClient] /\ \A j \in M!Procs \ {k} : v3'[j] = v3[j]
      /\ v3'[k].proc = q /\ v3'[k].next = v3[k].next /\ v3'[k].req = v3[k].req
  <2>1. PICK e \in MClient : e = v3[k]
    BY <1>2
  <2> DEFINE u == [e EXCEPT !.proc = q]
  <2>2. u \in MClient /\ u.proc = q /\ u.next = e.next /\ u.req = e.req
    BY <1>2 DEF MClient
  <2>3. v3' = [v3 EXCEPT ![k] = u]
    BY <1>0, <1>1, <2>1
  <2> HIDE DEF u
  <2>4. QED
    BY <1>2, <2>1, <2>2, <2>3
<1>5. /\ v6' \in MRunT /\ v6'.on = v6.on /\ v6'.cut = v6.cut
      /\ v6.displaced \subseteq v6'.displaced /\ v3[k].proc \in v6'.displaced
  <2>1. PICK x \in 0..McpProcs : x = v3[k].proc
    BY <1>2
  <2>2. v6' = [v6 EXCEPT !.displaced = v6.displaced \cup {x}] /\ v6 \in MRunT
    BY <1>0, <1>1, <2>1 DEF MInv, MTyped
  <2>3. QED
    BY <2>1, <2>2 DEF MRunT
<1>6. CASE v5[c].at = "spawn" /\ v4' = born /\ v5' = [v5 EXCEPT ![c].at = "write"]
  <2>1. /\ v5' \in [McpCalls -> MCall] /\ \A d \in McpCalls \ {c} : v5'[d] = v5[d]
        /\ v5'[c].at = "write" /\ v5'[c].kind = v5[c].kind /\ v5'[c].k = k
        /\ v5'[c].building = v5[c].building /\ v5'[c].got = v5[c].got
    BY <1>1, <1>2, <1>6 DEF MCall, MBusy
  <2>2. /\ \A p \in M!Procs : v4'[p].owner # k => v4'[p] = v4[p]
        /\ \A p \in M!Procs : v4'[p].owner = k => v4[p].owner \in {0, k}
        /\ \A p \in M!Procs : v4'[p].live => v4[p].live \/ p = v3'[k].proc
        /\ \A p \in M!Procs : v4'[p].owner = k => \A x \in MSays(v4'[p]) :
             v4[p].owner = k /\ x \in MSays(v4[p])
        /\ v4'[v3'[k].proc].owner = k /\ v4' \in [M!Procs -> MServer]
        /\ v5'[c].at \in MBegins /\ v5'[c].at \notin MWaiting
        /\ v5[c].at \in {"write", "spawn", "respawn"}
    BY <1>0, <1>3, <1>4, <1>6, <2>1 DEF MBegins, MWaiting
  <2>3. /\ v2' = v2
        /\ v3'[k].next \in {v3[k].next, v3[k].next + 1}
        /\ v3'[k].proc \in M!Procs /\ v3[k].proc \in v6'.displaced
        /\ \A d \in McpCalls : v3[k].req = d => v3'[k].req = d
    BY <1>0, <1>4, <1>5
  <2>4. QED
    BY ONLY MInv, c \in McpCalls, <1>1, <1>4, <1>5, <2>1, <2>2, <2>3, MMoves, SMTT(30)
<1>7. CASE /\ v5[c].at = "respawn" /\ v4' = M!Asked(born, q, <<v5[c].id, c, v5[c].kind>>)
           /\ v5' = [v5 EXCEPT ![c].at = "read", ![c].p = q]
  <2>1. /\ v5' \in [McpCalls -> MCall] /\ \A d \in McpCalls \ {c} : v5'[d] = v5[d]
        /\ v5'[c].at = "read" /\ v5'[c].kind = v5[c].kind /\ v5'[c].k = k
        /\ v5'[c].p = q /\ v5'[c].id = v5[c].id
        /\ v5'[c].building = v5[c].building /\ v5'[c].got = v5[c].got
    BY <1>1, <1>2, <1>7 DEF MCall, MBusy
  <2>2. PICK r \in MRequest : r = <<v5[c].id, c, v5[c].kind>> /\ r[1] = v5[c].id /\ r[2] = c
    <3>1. <<v5[c].id, c, v5[c].kind>> \in MRequest
      BY <1>2 DEF MRequest
    <3>2. QED
      BY <3>1
  <2>3. /\ v4' \in [M!Procs -> MServer] /\ \A p \in M!Procs \ {q} : v4'[p] = v4[p]
        /\ v4'[q].owner = k /\ MSays(v4'[q]) \subseteq {r}
    <3>1. /\ v4' \in [M!Procs -> MServer] /\ \A p \in M!Procs \ {q} : v4'[p] = born[p]
          /\ v4'[q].owner = born[q].owner /\ MSays(v4'[q]) \subseteq MSays(born[q]) \cup {r}
      <4>1. PICK b \in [M!Procs -> MServer] : b = born
        BY <1>3
      <4> DEFINE y == M!Asked(b, q, r)
      <4>2. /\ y \in [M!Procs -> MServer] /\ \A p \in M!Procs \ {q} : y[p] = b[p]
            /\ y[q].owner = b[q].owner /\ y[q].live = b[q].live
            /\ MSays(y[q]) \subseteq MSays(b[q]) \cup {r}
        BY MAsks
      <4>3. v4' = y
        BY <1>7, <2>2, <4>1
      <4> HIDE DEF y
      <4>4. QED
        BY <4>1, <4>2, <4>3
    <3>2. QED
      BY <1>3, <3>1
  <2>4. /\ v3[k].req = c /\ v5[c].id < v3[k].next
        /\ \A p \in M!Procs : v4[p].owner = k => \A x \in MSays(v4[p]) : x[1] = v5[c].id => x[2] = c
    BY <1>1, <1>7 DEF MInv, MAnswered, MWaiting, MReads
  <2>5. MReads(c)'
    <3>1. \A p \in M!Procs : v4'[p].owner = k => \A x \in MSays(v4'[p]) : x[1] = v5[c].id => x[2] = c
      BY <2>2, <2>3, <2>4
    <3>2. QED
      BY <1>2, <1>4, <2>1, <2>3, <2>4, <3>1 DEF MReads
  <2>6. /\ \A p \in M!Procs : v4'[p].owner # k => v4'[p] = v4[p]
        /\ \A p \in M!Procs : v4'[p].owner = k => v4[p].owner \in {0, k}
        /\ \A p \in M!Procs : v4'[p].live => v4[p].live \/ p = v3'[k].proc
        /\ \A p \in M!Procs : v4'[p].owner = k => \A x \in MSays(v4'[p]) :
             \/ v4[p].owner = k /\ x \in MSays(v4[p])
             \/ x[1] < v3'[k].next /\ v3[k].req \in {M!Nobody, c}
        /\ v4'[v3'[k].proc].owner = k
        /\ v5'[c].at \in MBegins /\ v5[c].at \in {"write", "spawn", "respawn"}
    BY <1>0, <1>4, <1>7, <2>1, <2>2, <2>3, <2>4 DEF MBegins, MWaiting
  <2>7. /\ v2' = v2
        /\ v3'[k].next \in {v3[k].next, v3[k].next + 1}
        /\ v3'[k].proc \in M!Procs /\ v3[k].proc \in v6'.displaced
        /\ \A d \in McpCalls : v3[k].req = d => v3'[k].req = d
    BY <1>0, <1>4, <1>5
  <2>8. QED
    BY ONLY MInv, c \in McpCalls, <1>1, <1>4, <1>5, <2>1, <2>3, <2>5, <2>6, <2>7, MMoves, SMTT(30)
<1>8. QED
  BY <1>0, <1>6, <1>7

\* A line read from one process leaves the others alone.
LEMMA MReadOn ==
  ASSUME MInv, NEW p \in M!Procs, v4[p].out # <<>>
  PROVE  /\ MLeaves([v4 EXCEPT ![p].out = Tail(v4[p].out)])
         /\ Head(v4[p].out) \in MLine
         /\ Head(v4[p].out) # <<>> => Head(v4[p].out) \in MSays(v4[p])
<1>1. PICK s \in MServer : s = v4[p]
  BY MParts
<1> DEFINE u == [s EXCEPT !.out = Tail(s.out)]
<1>2. /\ u \in MServer /\ u.live = s.live /\ u.owner = s.owner /\ MSays(u) \subseteq MSays(s)
      /\ Head(s.out) \in MLine /\ (Head(s.out) # <<>> => Head(s.out) \in MSays(s))
  BY <1>1, MServerReads
<1>3. [v4 EXCEPT ![p].out = Tail(v4[p].out)] = [v4 EXCEPT ![p] = u]
  BY <1>1
<1> HIDE DEF u
<1>4. v4 \in [M!Procs -> MServer]
  BY DEF MInv, MTyped
<1>5. MLeaves([v4 EXCEPT ![p] = u])
  BY <1>1, <1>2, <1>4 DEF MLeaves
<1>6. QED
  BY <1>1, <1>2, <1>3, <1>5

LEMMA MReadStep ==
  ASSUME MInv, NEW c \in McpCalls, M!Read(c)
  PROVE  MInv'
<1> DEFINE k == v5[c].k
           p == v5[c].p
           line == Head(v4[p].out)
           rest == [v4 EXCEPT ![p].out = Tail(v4[p].out)]
<1>1. v5[c].at = "read" /\ v4[p].out # <<>> /\ UNCHANGED <<v1, v6>>
  BY DEF M!Read, M!At
<1>2. MReads(c) /\ k \in M!Procs /\ p \in M!Procs /\ v5[c].at \in MBusy
  BY <1>1, MParts DEF MInv, MLocked, MBusy, MAnswered, MReads, MWaiting
<1>3. MLeaves(rest) /\ line \in MLine /\ (line # <<>> => line \in MSays(v4[p]))
  BY <1>1, <1>2, MReadOn
<1>4. \/ M!Failed(c, rest)
      \/ line # <<>> /\ line[1] = v5[c].id /\ M!Answered(c, line) /\ v4' = rest /\ v2' = v2
      \/ v5' = [v5 EXCEPT ![c].p = v3[k].proc] /\ v4' = rest /\ UNCHANGED <<v2, v3>>
  BY DEF M!Read, M!At
<1> HIDE DEF line, rest
<1>5. CASE M!Failed(c, rest)
  <2>1. v6' \in MRunT /\ v6'.on = v6.on /\ v6'.cut = v6.cut /\ v6'.displaced = v6.displaced
    BY <1>1 DEF MInv, MTyped
  <2>2. v5[c].at # "closing"
    BY <1>1
  <2>3. QED
    BY <1>2, <1>3, <1>5, <2>1, <2>2, MFailedKeeps
<1>6. CASE line # <<>> /\ line[1] = v5[c].id /\ M!Answered(c, line) /\ v4' = rest /\ v2' = v2
  <2>1. line[2] = c
    BY <1>1, <1>2, <1>3, <1>6 DEF MReads
  <2>2. QED
    BY <1>1, <1>3, <1>6, <2>1, MAnsweredKeeps
<1>7. CASE v5' = [v5 EXCEPT ![c].p = v3[k].proc] /\ v4' = rest /\ UNCHANGED <<v2, v3>>
  <2>1. v3[k].proc \in M!Procs /\ v3[k].proc # 0 /\ v4[v3[k].proc].owner = k /\ v3[k].proc \in 0..McpProcs
    BY <1>1, <1>2, MOwners, MParts DEF MReads
  <2>2. /\ v5' \in [McpCalls -> MCall] /\ \A d \in McpCalls \ {c} : v5'[d] = v5[d]
        /\ v5'[c].at = "read" /\ v5'[c].kind = v5[c].kind /\ v5'[c].k = k /\ v5'[c].p = v3[k].proc
        /\ v5'[c].id = v5[c].id
        /\ v5'[c].building = v5[c].building /\ v5'[c].got = v5[c].got
    BY <1>1, <1>7, <2>1 DEF MCall, MInv, MTyped
  <2>3. MTyped'
    BY <1>1, <1>3, <1>7, <2>2 DEF MInv, MTyped, MLeaves
  <2>4. MLocked'
    <3>1. \A d \in McpCalls : v5'[d].at = v5[d].at /\ v5'[d].building = v5[d].building
                              /\ v5'[d].kind = v5[d].kind /\ v5'[d].k = v5[d].k
      BY <1>1, <2>2
    <3>2. QED
      BY <1>1, <1>7, <3>1 DEF MInv, MLocked
  <2>5. MOwned'
    <3>1. ASSUME NEW q \in M!Procs, NEW d \in McpCalls, MHolds(d, q)
          PROVE  MHolds(d, q)'
      <4>1. CASE d = c
        BY <1>1, <1>7, <2>2, <3>1, <4>1 DEF MHolds
      <4>2. CASE d # c
        BY <1>7, <2>2, <3>1, <4>2 DEF MHolds
      <4>3. QED
        BY <4>1, <4>2
    <3>2. QED
      BY <1>1, <1>3, <1>7, <3>1 DEF MInv, MOwned, MHeld, MLeaves
  <2>6. MAsked'
    <3>1. ASSUME NEW q \in M!Procs, v4'[q].owner = 0
          PROVE  ~v4'[q].live /\ MSays(v4'[q]) = {}
      <4>1. ~v4[q].live /\ MSays(v4[q]) = {}
        BY <1>3, <1>7, <3>1 DEF MInv, MAsked, MLeaves
      <4>2. QED
        BY <1>3, <1>7, <4>1 DEF MLeaves
    <3>2. QED
      BY <1>3, <1>7, <3>1, MOwners DEF MAsked, MLeaves
  <2>7. MAnswered'
    <3>1. MReads(c)'
      BY <1>2, <1>3, <1>7, <2>1, <2>2 DEF MReads, MLeaves
    <3>2. ASSUME NEW d \in McpCalls \ {c}, v5'[d].at \in MWaiting
          PROVE  MReads(d)'
      <4>1. v5'[d] = v5[d] /\ v5[d].at \in MWaiting
        BY <2>2, <3>2
      <4>2. QED
        BY <1>3, <1>7, <4>1, MStillReads DEF MLeaves
    <3>3. QED
      BY <2>2, <3>1, <3>2 DEF MInv, MAnswered
  <2>8. QED
    BY <2>3, <2>4, <2>5, <2>6, <2>7 DEF MInv
<1>8. QED
  BY <1>4, <1>5, <1>6, <1>7

\* Time runs out, and the process is closed.
LEMMA MTimesOutStep ==
  ASSUME MInv, NEW c \in McpCalls, M!TimesOut(c)
  PROVE  MInv'
<1> DEFINE k == v5[c].k
<1>1. /\ v5[c].at = "read" /\ UNCHANGED <<v1, v2, v4>>
      /\ v6' = [v6 EXCEPT !.bad = v6.bad + 1]
      /\ v5' = [v5 EXCEPT ![c].at = "closing", ![c].p = v3[k].proc]
      /\ v3' = [v3 EXCEPT ![k].proc = 0, ![k].ready = FALSE]
  BY DEF M!TimesOut, M!At, M!Bad
<1>2. MReads(c) /\ k \in M!Procs /\ v5[c].at \in MBusy /\ v5[c] \in MCall /\ v6.on
  BY <1>1, MParts DEF MInv, MLocked, MBusy, MAnswered, MWaiting
<1>3. v6' \in MRunT /\ v6'.on = v6.on /\ v6'.cut = v6.cut /\ v6'.displaced = v6.displaced
  BY <1>1 DEF MInv, MTyped, MRunT
<1>4. v3[k].proc \in M!Procs /\ v3[k].proc \in 0..McpProcs
  BY <1>1, <1>2, MOwners, MParts DEF MReads
<1>5. /\ v5' \in [McpCalls -> MCall] /\ \A d \in McpCalls \ {c} : v5'[d] = v5[d]
      /\ v5'[c].at = "closing" /\ v5'[c].k = k /\ v5'[c].p = v3[k].proc
      /\ v5'[c].building = v5[c].building /\ v5'[c].got = v5[c].got
  <2>1. PICK r \in MCall : r = v5[c]
    BY <1>2
  <2>2. PICK p \in 0..McpProcs : p = v3[k].proc
    BY <1>4
  <2> DEFINE u == [r EXCEPT !.at = "closing", !.p = p]
  <2>3. u \in MCall /\ u.at = "closing" /\ u.k = r.k /\ u.p = p /\ u.building = r.building /\ u.got = r.got
    BY DEF MCall, MBusy
  <2>4. v5 \in [McpCalls -> MCall]
    BY DEF MInv, MTyped
  <2>5. v5' = [v5 EXCEPT ![c] = u]
    BY <1>1, <2>1, <2>2, <2>4
  <2> HIDE DEF u
  <2>6. QED
    BY <2>1, <2>2, <2>3, <2>4, <2>5
<1>6. /\ v3' \in [M!Procs -> MClient] /\ \A j \in M!Procs \ {k} : v3'[j] = v3[j]
      /\ v3'[k].proc = 0 /\ v3'[k].next = v3[k].next /\ v3'[k].req = v3[k].req
  <2>1. PICK i \in M!Procs : i = k
    BY <1>2
  <2>2. PICK r \in MClient : r = v3[i]
    BY MParts
  <2> DEFINE u == [r EXCEPT !.proc = 0, !.ready = FALSE]
  <2>3. 0 \in 0..McpProcs
    BY McpAssumption
  <2>4. u \in MClient /\ u.proc = 0 /\ u.next = r.next /\ u.req = r.req
    BY <2>3 DEF MClient
  <2>5. v3' = [v3 EXCEPT ![i] = u]
    BY <1>1, <2>1, <2>2
  <2> HIDE DEF u
  <2>6. QED
    BY <2>1, <2>2, <2>4, <2>5 DEF MInv, MTyped
<1>7. MTyped'
  BY <1>1, <1>3, <1>5, <1>6 DEF MInv, MTyped
<1>8. MLocked'
  <2>1. ASSUME NEW d \in McpCalls
        PROVE  /\ v5'[d].building <=> v2.lock = d
               /\ v5'[d].building => v2.cached = 0 /\ v5'[d].at \in MBusy
               /\ v5'[d].building /\ v5'[d].at \in MBegins => v5'[d].kind = "initialize"
               /\ v5'[d].at \in MBusy =>
                    v5'[d].k \in 1..v2.made /\ (~v5'[d].building => v5'[d].k = v2.cached)
    <3>1. CASE d # c
      BY <1>5, <3>1 DEF MInv, MLocked
    <3>2. CASE d = c
      BY <1>2, <1>5, <3>2 DEF MInv, MLocked, MBusy, MBegins, MWaiting
    <3>3. QED
      BY <3>1, <3>2
  <2>2. v2'.cached <= v2'.made
    BY <1>1 DEF MInv, MLocked
  <2>3. ~v6'.on => v2'.cached = 0 /\ \A d \in McpCalls : v5'[d].at = "none"
    BY <1>2, <1>3
  <2>4. v2' = v2
    BY <1>1
  <2>5. QED
    BY <2>1, <2>2, <2>3, <2>4 DEF MLocked
<1>9. MOwned'
  <2>1. ASSUME NEW p \in M!Procs, MHeld(p)
        PROVE  MHeld(p)'
    <3>1. CASE p = v3[k].proc
      <4>1. MHolds(c, p)'
        BY <1>5, <3>1 DEF MHolds
      <4>2. QED
        BY <4>1 DEF MHeld
    <3>2. CASE p # v3[k].proc
      <4>1. v2.cached # 0 /\ p = v3[v2.cached].proc => p = v3'[v2.cached].proc
        BY <1>6, <3>2, MParts
      <4>2. ASSUME NEW d \in McpCalls, MHolds(d, p)
            PROVE  MHolds(d, p)'
        <5>1. d # c
          BY <1>1, <3>2, <4>2 DEF MHolds
        <5>2. ~v5[d].building
          BY <1>2, <5>1, MAlone
        <5>3. QED
          BY <1>5, <4>2, <5>1, <5>2 DEF MHolds
      <4>3. QED
        BY <1>1, <1>3, <2>1, <4>1, <4>2 DEF MHeld
    <3>3. QED
      BY <3>1, <3>2
  <2>2. QED
    BY <1>1, <2>1 DEF MInv, MOwned
<1>10. MAsked'
  <2>1. \A j \in M!Procs : v3'[j].next = v3[j].next /\ (v3'[j].proc = v3[j].proc \/ v3'[j].proc = 0)
    BY <1>6
  <2>2. v4' = v4
    BY <1>1
  <2>3. \A j \in M!Procs : v3'[j].proc # 0 => v4'[v3'[j].proc].owner = j
    BY <2>1, <2>2 DEF MInv, MAsked
  <2>4. \A p \in M!Procs : v4'[p].owner = 0 => ~v4'[p].live /\ MSays(v4'[p]) = {}
    BY <2>2 DEF MInv, MAsked
  <2>5. ASSUME NEW p \in M!Procs, v4[p].owner # 0, NEW r \in MSays(v4[p])
        PROVE  r[1] < v3'[v4[p].owner].next
    <3>1. v4[p].owner \in M!Procs /\ r[1] < v3[v4[p].owner].next
      BY <2>5, MOwners DEF MInv, MAsked
    <3>2. QED
      BY <2>1, <3>1
  <2>6. QED
    BY <2>2, <2>3, <2>4, <2>5 DEF MAsked
<1>11. MAnswered'
  <2>1. ASSUME NEW d \in McpCalls, v5'[d].at \in MWaiting
        PROVE  MReads(d)'
    <3>1. d # c /\ v5'[d] = v5[d] /\ v5[d].at \in MWaiting /\ v5[d].k \in M!Procs /\ MReads(d)
      BY <1>5, <2>1, MParts DEF MInv, MLocked, MBusy, MAnswered, MWaiting
    <3>2. v5[d].k # k
      BY <1>2, <3>1 DEF MReads
    <3>3. v3'[v5[d].k] = v3[v5[d].k]
      BY <1>6, <3>1, <3>2
    <3>4. QED
      BY <1>1, <3>1, <3>3, MStillReads
  <2>2. QED
    BY <1>5, <2>1 DEF MInv, MAnswered
<1>12. QED
  BY <1>7, <1>8, <1>9, <1>10, <1>11 DEF MInv

\* The steps at which a call fails, or is answered by its own post.
LEMMA MFailsStep ==
  ASSUME MInv, NEW c \in McpCalls,
         \/ M!SpawnFails(c) \/ M!WriteFails(c) \/ M!ReadsEnd(c) \/ M!ProcessEnds(c)
         \/ \E ok \in BOOLEAN : M!Post(c, ok)
  PROVE  MInv'
<1> DEFINE Counted == v6' \in MRunT
                      /\ v6'.on = v6.on /\ v6'.cut = v6.cut /\ v6'.displaced = v6.displaced
<1>1. v6' = v6 \/ v6' = [v6 EXCEPT !.bad = v6.bad + 1]
  BY DEF M!SpawnFails, M!WriteFails, M!ReadsEnd, M!ProcessEnds, M!Post, M!Bad
<1>2. Counted
  BY <1>1 DEF MInv, MTyped, MRunT
<1>3. MLeaves(v4)
  BY DEF MLeaves, MInv, MTyped
<1>4. v5[c].at \in MBusy
  BY DEF M!SpawnFails, M!WriteFails, M!ReadsEnd, M!ProcessEnds, M!Post, M!At, MBusy
<1>5. CASE M!Failed(c, v4) /\ v5[c].at # "closing"
  BY <1>2, <1>3, <1>4, <1>5, MFailedKeeps
<1>6. CASE M!ProcessEnds(c)
  <2> DEFINE srv == [v4 EXCEPT ![v5[c].p].live = FALSE]
  <2>1. M!Failed(c, srv)
    BY <1>6 DEF M!ProcessEnds
  <2>2. MLeaves(srv) /\ \A p \in M!Procs : p = v5[c].p => ~srv[p].live
    <3>1. PICK q : q = v5[c].p
      OBVIOUS
    <3>2. CASE q \in M!Procs
      <4>1. PICK s \in MServer : s = v4[q]
        BY <3>2, MParts
      <4> DEFINE u == [s EXCEPT !.live = FALSE]
      <4>2. u \in MServer /\ u.live = FALSE /\ u.owner = s.owner /\ MSays(u) = MSays(s)
        BY MServerDies
      <4>3. srv = [v4 EXCEPT ![q] = u]
        BY <3>1, <4>1
      <4> HIDE DEF u, srv
      <4>4. QED
        BY <3>1, <3>2, <4>1, <4>2, <4>3 DEF MLeaves, MInv, MTyped
    <3>3. CASE q \notin M!Procs
      <4>1. srv = v4
        BY <3>1, <3>3 DEF MInv, MTyped
      <4> HIDE DEF srv
      <4>2. QED
        BY <1>3, <3>1, <3>3, <4>1
    <3>4. QED
      BY <3>2, <3>3
  <2> HIDE DEF srv
  <2>3. QED
    BY <1>2, <1>4, <2>1, <2>2, MFailedKeeps
<1>7. CASE M!Post(c, TRUE)
  <2>1. M!Answered(c, M!Request(c)) /\ UNCHANGED <<v2, v4, v6>> /\ v5[c].at = "write"
    BY <1>7 DEF M!Post, M!At
  <2>2. v5[c].k \in M!Procs
    BY <1>4, MParts DEF MInv, MLocked
  <2>3. M!Request(c) \in MLine /\ M!Request(c)[2] = c
    <3>1. v3[v5[c].k].next \in Nat /\ v5[c].kind \in {"none", "initialize", "tools"}
      BY <2>2, MParts
    <3>2. QED
      BY <3>1 DEF M!Request, MLine, MRequest
  <2>4. MLeaves(v4')
    BY <1>3, <2>1
  <2>5. QED
    BY <2>1, <2>3, <2>4, MAnsweredKeeps
<1>8. QED
  <2>1. M!SpawnFails(c) \/ M!WriteFails(c) \/ M!ReadsEnd(c) \/ M!Post(c, FALSE)
          => M!Failed(c, v4) /\ v5[c].at # "closing"
    BY DEF M!SpawnFails, M!WriteFails, M!ReadsEnd, M!Post, M!At
  <2>2. QED
    BY <1>5, <1>6, <1>7, <2>1

LEMMA MProcessStep ==
  ASSUME MInv, NEW p \in M!Procs, M!Answers(p) \/ M!WritesGarbage(p) \/ M!Crashes(p)
  PROVE  MInv'
<1>1. v6' = v6 \/ v6' = [v6 EXCEPT !.bad = v6.bad + 1]
  BY DEF M!Answers, M!WritesGarbage, M!Crashes, M!Bad
<1>2. /\ v6' \in MRunT
      /\ v6'.on = v6.on /\ v6'.cut = v6.cut /\ v6'.displaced = v6.displaced
  BY <1>1 DEF MInv, MTyped, MRunT
<1>3. PICK s \in MServer : s = v4[p]
  BY MParts
<1>4. PICK u \in MServer : /\ v4' = [v4 EXCEPT ![p] = u] /\ u.owner = s.owner
                           /\ (u.live => s.live) /\ MSays(u) \subseteq MSays(s)
  <2>1. CASE M!Answers(p)
    <3>1. PICK r \in s.asked : v4' = [v4 EXCEPT ![p].asked = v4[p].asked \ {r}, ![p].out = Append(v4[p].out, r)]
      BY <1>3, <2>1 DEF M!Answers
    <3>2. v4' = [v4 EXCEPT ![p] = [s EXCEPT !.asked = s.asked \ {r}, !.out = Append(s.out, r)]]
      BY <1>3, <3>1
    <3>3. QED
      BY <3>2, MServerWrites, Zenon
  <2>2. CASE M!WritesGarbage(p)
    <3>1. v4' = [v4 EXCEPT ![p] = [s EXCEPT !.out = Append(s.out, <<>>)]]
      BY <1>3, <2>2 DEF M!WritesGarbage
    <3>2. QED
      BY <3>1, MServerWrites, Zenon
  <2>3. CASE M!Crashes(p)
    <3>1. v4' = [v4 EXCEPT ![p] = [s EXCEPT !.live = FALSE]]
      BY <1>3, <2>3 DEF M!Crashes
    <3>2. QED
      BY <3>1, MServerDies
  <2>4. QED
    BY <2>1, <2>2, <2>3
<1>5. MLeaves(v4')
  BY <1>3, <1>4 DEF MLeaves, MInv, MTyped
<1>6. UNCHANGED <<v2, v3, v5>>
  BY DEF M!Answers, M!WritesGarbage, M!Crashes
<1>7. QED
  BY <1>2, <1>5, <1>6, MServersMove

LEMMA MInvStep == MInv /\ [M!Next]_(M!mvars) => MInv'
<1> SUFFICES ASSUME MInv, [M!Next]_(M!mvars) PROVE MInv'
  OBVIOUS
<1>1. CASE UNCHANGED M!mvars
  BY <1>1 DEF M!mvars, MInv, MTyped, MLocked, MHolds, MHeld, MOwned, MAsked, MReads, MAnswered
<1>2. QED
  BY <1>1, MRunStep, MLookupStep, MHandshakeStep, MWriteStep, MSpawnedStep, MReadStep, MTimesOutStep,
     MFailsStep, MProcessStep DEF M!Next

LEMMA MInvKeeps == MInv => M!ClosedAfterRun /\ M!AnswerIsOwn
<1> SUFFICES ASSUME MInv PROVE M!ClosedAfterRun /\ M!AnswerIsOwn
  OBVIOUS
<1>1. M!AnswerIsOwn
  BY DEF MInv, MAnswered, M!AnswerIsOwn
<1>2. M!ClosedAfterRun
  <2>1. ASSUME ~v6.on, NEW p \in M!Procs, v4[p].live
        PROVE  p \in v6.cut \cup v6.displaced
    <3>1. v2.cached = 0 /\ \A c \in McpCalls : ~v5[c].building /\ v5[c].at # "closing"
      BY <2>1 DEF MInv, MLocked, MBusy
    <3>2. QED
      BY <2>1, <3>1 DEF MInv, MOwned, MHeld, MHolds
  <2>2. QED
    BY <2>1 DEF M!ClosedAfterRun
<1>3. QED
  BY <1>1, <1>2

-----------------------------------------------------------------------------
(* The console: v1 is stopped, v2 driver, v3 newRuns, v4 answer, v6 awaiting, *)
(* v7 inputQueue and v10 user.                                               *)

DUser == [typed : Nat, asked : Nat, meant : [D!Lines -> Nat], given : SUBSET Nat,
          dropped : SUBSET Nat, answered : SUBSET (Nat \X Nat)]

DTyped ==
  /\ v3 \in Seq(Nat) /\ v4 \in Seq(Nat) /\ v7 \in Seq(Nat) /\ v10 \in DUser

\* The driver awaits when the reader is told it does, and then no answer is
\* there; one that is there is meant for the last question.
DAwaits ==
  /\ v6 => v2 = "await" /\ v4 = <<>>
  /\ v4 # <<>> => v2 = "await" \/ v1
  /\ v4 # <<>> => Len(v4) = 1 /\ v10.meant[v4[1]] = v10.asked

DKept ==
  /\ \A p \in v10.answered : v10.meant[p[2]] = p[1] /\ p[2] \in v10.given
  /\ 1 .. v10.typed =
       v10.given \cup v10.dropped \cup D!Range(v4) \cup D!Range(v7)
         \cup (D!Range(v3) \ {D!Wake})

DInv == DTyped /\ DAwaits /\ DKept

\* What a sequence's ends leave of the set of its elements.
LEMMA DRange ==
  /\ D!Range(<<>>) = {}
  /\ \A x : D!Range(<<x>>) = {x}
  /\ \A s \in Seq(Nat) : \A x \in Nat : D!Range(Append(s, x)) = D!Range(s) \cup {x}
  /\ \A s \in Seq(Nat) : s # <<>> =>
       /\ Head(s) \in Nat /\ Tail(s) \in Seq(Nat) /\ s[1] = Head(s)
       /\ D!Range(s) = {Head(s)} \cup D!Range(Tail(s))
       /\ Len(s) = 1 => Tail(s) = <<>>
  /\ \A s \in Seq(Nat) : D!Range(s) \in SUBSET Nat
<1>1. D!Range(<<>>) = {}
  BY DEF D!Range
<1>2. \A x : D!Range(<<x>>) = {x}
  BY DEF D!Range
<1>3. ASSUME NEW s \in Seq(Nat), NEW x \in Nat
      PROVE  D!Range(Append(s, x)) = D!Range(s) \cup {x}
  <2>1. /\ DOMAIN Append(s, x) = 1 .. Len(s) + 1 /\ DOMAIN s = 1 .. Len(s)
        /\ \A i \in 1 .. Len(s) : Append(s, x)[i] = s[i]
        /\ Append(s, x)[Len(s) + 1] = x /\ Len(s) \in Nat
    OBVIOUS
  <2>2. 1 .. Len(s) + 1 = (1 .. Len(s)) \cup {Len(s) + 1}
    BY <2>1
  <2>3. QED
    BY <2>1, <2>2 DEF D!Range
<1>4. ASSUME NEW s \in Seq(Nat), s # <<>>
      PROVE  /\ Head(s) \in Nat /\ Tail(s) \in Seq(Nat) /\ s[1] = Head(s)
             /\ D!Range(s) = {Head(s)} \cup D!Range(Tail(s))
             /\ Len(s) = 1 => Tail(s) = <<>>
  <2>1. /\ Head(s) = s[1] /\ Head(s) \in Nat /\ Tail(s) \in Seq(Nat) /\ Len(s) \in Nat \ {0}
        /\ Len(Tail(s)) = Len(s) - 1 /\ DOMAIN s = 1 .. Len(s)
        /\ \A i \in 1 .. Len(s) - 1 : Tail(s)[i] = s[i + 1]
    BY <1>4
  <2>2. DOMAIN Tail(s) = 1 .. Len(s) - 1
    BY <2>1
  <2>3. \A i \in 2 .. Len(s) : i - 1 \in 1 .. Len(s) - 1 /\ s[i] = Tail(s)[i - 1]
    BY <2>1
  <2>4. D!Range(s) \subseteq {Head(s)} \cup D!Range(Tail(s))
    <3>1. ASSUME NEW i \in 1 .. Len(s) PROVE s[i] \in {Head(s)} \cup D!Range(Tail(s))
      <4>1. CASE i = 1
        BY <2>1, <4>1
      <4>2. CASE i # 1
        <5>1. i \in 2 .. Len(s)
          BY <2>1, <4>2
        <5>2. QED
          BY <2>2, <2>3, <5>1 DEF D!Range
      <4>3. QED
        BY <4>1, <4>2
    <3>2. QED
      BY <2>1, <3>1 DEF D!Range
  <2>5. {Head(s)} \cup D!Range(Tail(s)) \subseteq D!Range(s)
    <3>1. ASSUME NEW i \in 1 .. Len(s) - 1 PROVE Tail(s)[i] \in D!Range(s)
      <4>1. i + 1 \in 1 .. Len(s) /\ Tail(s)[i] = s[i + 1]
        BY <2>1, <3>1
      <4>2. QED
        BY <2>1, <4>1 DEF D!Range
    <3>2. 1 \in 1 .. Len(s)
      BY <2>1
    <3>3. QED
      BY <2>1, <2>2, <3>1, <3>2 DEF D!Range
  <2>6. Len(s) = 1 => Tail(s) = <<>>
    <3>1. \A t \in Seq(Nat) : Len(t) = 0 => t = <<>>
      OBVIOUS
    <3>2. PICK t \in Seq(Nat) : t = Tail(s)
      BY <2>1
    <3>3. Len(s) = 1 => Len(t) = 0
      BY <2>1, <3>2
    <3>4. QED
      BY <3>1, <3>2, <3>3
  <2>7. QED
    BY <2>1, <2>4, <2>5, <2>6
<1>5. \A s \in Seq(Nat) : D!Range(s) \in SUBSET Nat
  BY DEF D!Range
<1>6. QED
  BY <1>1, <1>2, <1>3, <1>4, <1>5

LEMMA DInit == D!Init => DInv
<1> SUFFICES ASSUME D!Init PROVE DInv
  OBVIOUS
<1>1. /\ v3 = <<>> /\ v4 = <<>> /\ v7 = <<>> /\ v6 = FALSE
      /\ v10 = [typed |-> 0, asked |-> 0, meant |-> [l \in D!Lines |-> 0],
                given |-> {}, dropped |-> {}, answered |-> {}]
  BY DEF D!Init
<1>2. DTyped
  BY <1>1 DEF DTyped, DUser
<1>3. DAwaits
  BY <1>1 DEF DAwaits
<1>4. DKept
  <2>1. 1 .. 0 = {}
    OBVIOUS
  <2>2. D!Range(<<>>) = {}
    BY DRange
  <2>3. QED
    BY <1>1, <2>1, <2>2 DEF DKept
<1>5. QED
  BY <1>2, <1>3, <1>4 DEF DInv

\* A line that is typed next is a line, and of no answer yet.
LEMMA DNext ==
  ASSUME DInv, v10.typed < ConsoleLines, NEW l, l = v10.typed + 1
  PROVE  /\ l \in D!Lines /\ l \in Nat /\ 1 .. l = (1 .. v10.typed) \cup {l}
         /\ \A p \in v10.answered : p[2] # l
<1>1. v10.typed \in Nat /\ l \in Nat
  BY DEF DInv, DTyped, DUser
<1>2. l \in D!Lines
  BY <1>1, ConsoleAssumption DEF D!Lines
<1>3. 1 .. l = (1 .. v10.typed) \cup {l}
  BY <1>1
<1>4. \A p \in v10.answered : p[2] \in 1 .. v10.typed
  BY DEF DInv, DKept
<1>5. QED
  BY <1>1, <1>2, <1>3, <1>4

LEMMA DEnqueueStep ==
  ASSUME DInv, v10.typed < ConsoleLines, NEW l, l = v10.typed + 1, D!Enqueue(l),
         UNCHANGED <<v1, v2>>
  PROVE  DInv'
<1> DEFINE full == Len(v7) >= ConsoleCapacity
           q == IF full THEN Tail(v7) ELSE v7
           gone == IF full THEN v10.dropped \cup {Head(v7)} ELSE v10.dropped
<1>1. /\ v7' = Append(q, l) /\ v10' = [v10 EXCEPT !.typed = l, !.dropped = gone]
      /\ UNCHANGED <<v3, v4, v6>>
  BY DEF D!Enqueue
<1>2. /\ l \in D!Lines /\ l \in Nat /\ 1 .. l = (1 .. v10.typed) \cup {l}
  BY DNext
<1>3. /\ q \in Seq(Nat) /\ gone \in SUBSET Nat
      /\ D!Range(q) \cup gone = D!Range(v7) \cup v10.dropped
  <2>1. v7 \in Seq(Nat) /\ v10.dropped \in SUBSET Nat
    BY DEF DInv, DTyped, DUser
  <2>2. CASE full
    <3>1. v7 # <<>>
      BY <2>1, <2>2, ConsoleAssumption
    <3>2. /\ Head(v7) \in Nat /\ Tail(v7) \in Seq(Nat)
          /\ D!Range(v7) = {Head(v7)} \cup D!Range(Tail(v7))
      BY <2>1, <3>1, DRange
    <3>3. QED
      BY <2>1, <2>2, <3>2
  <2>3. CASE ~full
    BY <2>1, <2>3
  <2>4. QED
    BY <2>2, <2>3
<1> HIDE DEF q, gone
<1>4. D!Range(v7') = D!Range(q) \cup {l} /\ v7' \in Seq(Nat)
  BY <1>1, <1>2, <1>3, DRange
<1>5. /\ v10' \in DUser /\ v10'.typed = l /\ v10'.dropped = gone /\ v10'.given = v10.given
      /\ v10'.asked = v10.asked /\ v10'.meant = v10.meant /\ v10'.answered = v10.answered
  BY <1>1, <1>2, <1>3 DEF DInv, DTyped, DUser
<1>6. DTyped'
  BY <1>1, <1>4, <1>5 DEF DInv, DTyped
<1>7. DAwaits'
  BY <1>1, <1>5 DEF DInv, DAwaits
<1>8. DKept'
  BY <1>1, <1>2, <1>3, <1>4, <1>5 DEF DInv, DKept
<1>9. QED
  BY <1>6, <1>7, <1>8 DEF DInv

LEMMA DTypeStep ==
  ASSUME DInv, D!Type
  PROVE  DInv'
<1>1. PICK l : l = v10.typed + 1
  OBVIOUS
<1>2. /\ v10.typed < ConsoleLines /\ UNCHANGED <<v1, v2>>
      /\ IF v6 THEN D!GiveAnswer(l) ELSE IF v5 THEN D!Enqueue(l) ELSE D!StartRun(l)
  BY <1>1 DEF D!Type
<1>3. /\ l \in D!Lines /\ l \in Nat /\ 1 .. l = (1 .. v10.typed) \cup {l}
      /\ \A p \in v10.answered : p[2] # l
  BY <1>1, <1>2, DNext
<1>4. CASE D!Enqueue(l)
  BY <1>1, <1>2, <1>4, DEnqueueStep
<1>5. CASE v6 /\ v4 = <<>> /\ D!GiveAnswer(l)
  <2>1. /\ v4' = <<l>> /\ v6' = FALSE /\ UNCHANGED <<v3, v7>>
        /\ v10' = [v10 EXCEPT !.typed = l, !.meant[l] = v10.asked]
    BY <1>5 DEF D!GiveAnswer
  <2>2. PICK u \in DUser : u = v10
    BY DEF DInv, DTyped
  <2>3. PICK m \in [D!Lines -> Nat] : m = u.meant
    BY <2>2 DEF DUser
  <2> DEFINE n == [m EXCEPT ![l] = u.asked]
             w == [u EXCEPT !.typed = l, !.meant = n]
  <2>4. u.asked \in Nat
    BY <2>2 DEF DUser
  <2>5. n \in [D!Lines -> Nat] /\ n[l] = u.asked /\ \A x : x # l => n[x] = m[x]
    BY <1>3, <2>3, <2>4
  <2>6. v10' = w
    BY <2>1, <2>2, <2>3 DEF DUser
  <2> HIDE DEF n
  <2>7. /\ w \in DUser /\ w.typed = l /\ w.meant = n /\ w.asked = u.asked
        /\ w.given = u.given /\ w.dropped = u.dropped /\ w.answered = u.answered
    BY <1>3, <2>2, <2>5 DEF DUser
  <2> HIDE DEF w
  <2>8. v4' \in Seq(Nat) /\ v4'[1] = l /\ Len(v4') = 1 /\ v4' # <<>>
    BY <1>3, <2>1
  <2>9. DTyped'
    BY <2>1, <2>6, <2>7, <2>8 DEF DInv, DTyped
  <2>10. DAwaits'
    BY <1>2, <1>5, <2>1, <2>5, <2>6, <2>7, <2>8 DEF DInv, DAwaits
  <2>11. DKept'
    <3>1. D!Range(v4') = {l} /\ D!Range(v4) = {}
      BY <1>5, <2>1, DRange
    <3>2. \A p \in v10'.answered : v10'.meant[p[2]] = p[1] /\ p[2] \in v10'.given
      BY <1>3, <2>2, <2>3, <2>5, <2>6, <2>7 DEF DInv, DKept
    <3>3. QED
      BY <1>3, <2>1, <2>2, <2>6, <2>7, <3>1, <3>2 DEF DInv, DKept
  <2>12. QED
    BY <2>9, <2>10, <2>11 DEF DInv
<1>6. CASE ~v6 /\ D!StartRun(l)
  <2>1. /\ v3' = Append(v3, l) /\ v10' = [v10 EXCEPT !.typed = l] /\ UNCHANGED <<v4, v6, v7>>
    BY <1>6 DEF D!StartRun
  <2>2. /\ v10' \in DUser /\ v10'.typed = l /\ v10'.dropped = v10.dropped /\ v10'.given = v10.given
        /\ v10'.asked = v10.asked /\ v10'.meant = v10.meant /\ v10'.answered = v10.answered
    BY <1>3, <2>1 DEF DInv, DTyped, DUser
  <2>3. D!Range(v3') = D!Range(v3) \cup {l} /\ v3' \in Seq(Nat) /\ l # D!Wake
    BY <1>3, <2>1, DRange, ConsoleAssumption DEF DInv, DTyped, D!Wake, D!Lines
  <2>4. DTyped'
    BY <2>1, <2>2, <2>3 DEF DInv, DTyped
  <2>5. DAwaits'
    BY <1>2, <2>1, <2>2 DEF DInv, DAwaits
  <2>6. DKept'
    BY <1>3, <2>1, <2>2, <2>3 DEF DInv, DKept
  <2>7. QED
    BY <2>4, <2>5, <2>6 DEF DInv
<1>7. QED
  BY <1>2, <1>4, <1>5, <1>6 DEF D!GiveAnswer

LEMMA DTakeStep ==
  ASSUME DInv, D!Take
  PROVE  DInv'
<1>1. /\ ~v1 /\ v2 = "idle" /\ v3 # <<>> /\ v3' = Tail(v3) /\ v2' # "await"
      /\ v10' = [v10 EXCEPT !.given = v10.given \cup ({Head(v3)} \ {D!Wake})]
      /\ UNCHANGED <<v1, v4, v6, v7>>
  BY DEF D!Take, D!Give
<1>2. /\ Head(v3) \in Nat /\ Tail(v3) \in Seq(Nat)
      /\ D!Range(v3) = {Head(v3)} \cup D!Range(Tail(v3))
  BY <1>1, DRange DEF DInv, DTyped
<1>3. /\ v10' \in DUser /\ v10'.typed = v10.typed /\ v10'.dropped = v10.dropped
      /\ v10'.given = v10.given \cup ({Head(v3)} \ {D!Wake})
      /\ v10'.asked = v10.asked /\ v10'.meant = v10.meant /\ v10'.answered = v10.answered
  BY <1>1, <1>2 DEF DInv, DTyped, DUser
<1>4. DTyped'
  BY <1>1, <1>2, <1>3 DEF DInv, DTyped
<1>5. DAwaits'
  BY <1>1, <1>3 DEF DInv, DAwaits
<1>6. DKept'
  BY <1>1, <1>2, <1>3 DEF DInv, DKept
<1>7. QED
  BY <1>4, <1>5, <1>6 DEF DInv

LEMMA DTurnStep ==
  ASSUME DInv, D!Turn
  PROVE  DInv'
<1>1. /\ v7' = <<>> /\ v10' = [v10 EXCEPT !.given = v10.given \cup D!Range(v7)]
      /\ UNCHANGED <<v1, v2, v3, v4, v6>>
  BY DEF D!Turn, D!Give
<1>2. D!Range(v7) \in SUBSET Nat /\ D!Range(<<>>) = {}
  BY DRange DEF DInv, DTyped
<1>3. /\ v10' \in DUser /\ v10'.typed = v10.typed /\ v10'.dropped = v10.dropped
      /\ v10'.given = v10.given \cup D!Range(v7)
      /\ v10'.asked = v10.asked /\ v10'.meant = v10.meant /\ v10'.answered = v10.answered
  BY <1>1, <1>2 DEF DInv, DTyped, DUser
<1>4. DTyped'
  BY <1>1, <1>3 DEF DInv, DTyped
<1>5. DAwaits'
  BY <1>1, <1>3 DEF DInv, DAwaits
<1>6. DKept'
  BY <1>1, <1>2, <1>3 DEF DInv, DKept
<1>7. QED
  BY <1>4, <1>5, <1>6 DEF DInv

\* Nothing but the driver, the events and whether it stopped changes, and no
\* answer is left behind.
LEMMA DMoves ==
  ASSUME DInv, UNCHANGED <<v3, v4, v7, v10>>, v6' => v6 /\ v2' = v2,
         v4 # <<>> => v2' = "await" \/ v1'
  PROVE  DInv'
<1>1. DTyped'
  BY DEF DInv, DTyped
<1>2. DAwaits'
  BY DEF DInv, DAwaits
<1>3. DKept'
  BY DEF DInv, DKept
<1>4. QED
  BY <1>1, <1>2, <1>3 DEF DInv

LEMMA DAskUserStep ==
  ASSUME DInv, D!AskUser
  PROVE  DInv'
<1>1. /\ ~v1 /\ v2 \in D!InRun /\ v2' = "await" /\ v6' = TRUE
      /\ v10' = [v10 EXCEPT !.asked = v10.asked + 1] /\ UNCHANGED <<v1, v3, v4, v7>>
  BY DEF D!AskUser
<1>2. v4 = <<>>
  BY <1>1 DEF DInv, DAwaits, D!InRun
<1>3. /\ v10' \in DUser /\ v10'.typed = v10.typed /\ v10'.dropped = v10.dropped
      /\ v10'.given = v10.given /\ v10'.meant = v10.meant /\ v10'.answered = v10.answered
  <2>1. v10 \in DUser /\ v10.asked + 1 \in Nat
    BY DEF DInv, DTyped, DUser
  <2>2. QED
    BY <1>1, <2>1 DEF DUser
<1>4. DTyped'
  BY <1>1, <1>3 DEF DInv, DTyped
<1>5. DAwaits'
  BY <1>1, <1>2 DEF DAwaits
<1>6. DKept'
  BY <1>1, <1>3 DEF DInv, DKept
<1>7. QED
  BY <1>4, <1>5, <1>6 DEF DInv

LEMMA DTakeAnswerStep ==
  ASSUME DInv, D!TakeAnswer
  PROVE  DInv'
<1>1. /\ v4 # <<>> /\ v4' = <<>>
      /\ v10' = [[v10 EXCEPT !.given = v10.given \cup {Head(v4)}]
                   EXCEPT !.answered = v10.answered \cup {<<v10.asked, Head(v4)>>}]
      /\ UNCHANGED <<v1, v3, v6, v7>>
  BY DEF D!TakeAnswer, D!Give, DInv, DTyped, DUser
<1>2. /\ Head(v4) \in Nat /\ Head(v4) = v4[1] /\ D!Range(v4) = {Head(v4)} \cup D!Range(Tail(v4))
      /\ D!Range(Tail(v4)) = {} /\ D!Range(<<>>) = {}
  BY <1>1, DRange DEF DInv, DTyped, DAwaits
<1>3. ~v6 /\ v10.meant[Head(v4)] = v10.asked
  BY <1>1, <1>2 DEF DInv, DAwaits
<1>4. /\ v10' \in DUser /\ v10'.typed = v10.typed /\ v10'.dropped = v10.dropped
      /\ v10'.given = v10.given \cup {Head(v4)}
      /\ v10'.asked = v10.asked /\ v10'.meant = v10.meant
      /\ v10'.answered = v10.answered \cup {<<v10.asked, Head(v4)>>}
  <2>1. PICK u \in DUser : u = v10
    BY DEF DInv, DTyped
  <2>0. u.answered \in SUBSET (Nat \X Nat) /\ u.asked \in Nat
    BY <2>1 DEF DUser
  <2>2. PICK a \in SUBSET (Nat \X Nat) : a = u.answered \cup {<<u.asked, Head(v4)>>}
    <3>1. <<u.asked, Head(v4)>> \in Nat \X Nat
      BY <1>2, <2>0
    <3>2. QED
      BY <2>0, <3>1
  <2>3. PICK g \in SUBSET Nat : g = u.given \cup {Head(v4)}
    BY <1>2 DEF DUser
  <2>4. v10' = [[u EXCEPT !.given = g] EXCEPT !.answered = a]
    BY <1>1, <2>1, <2>2, <2>3
  <2>5. QED
    BY <2>1, <2>2, <2>3, <2>4 DEF DUser
<1>5. DTyped'
  BY <1>1, <1>4 DEF DInv, DTyped
<1>6. DAwaits'
  BY <1>1, <1>3 DEF DAwaits
<1>7. DKept'
  <2>1. \A p \in v10'.answered : v10'.meant[p[2]] = p[1] /\ p[2] \in v10'.given
    BY <1>3, <1>4 DEF DInv, DKept
  <2>2. QED
    BY <1>1, <1>2, <1>4, <2>1 DEF DInv, DKept
<1>8. QED
  BY <1>5, <1>6, <1>7 DEF DInv

LEMMA DPutStep ==
  ASSUME DInv, D!Put
  PROVE  DInv'
<1>1. /\ v3' = IF v9 = "mail" /\ v3 = <<>> THEN <<D!Wake>> ELSE v3
      /\ UNCHANGED <<v1, v2, v4, v6, v7, v10>>
  BY DEF D!Put
<1>2. v3' \in Seq(Nat) /\ D!Range(v3') \ {D!Wake} = D!Range(v3) \ {D!Wake}
  BY <1>1, DRange DEF DInv, DTyped, D!Wake
<1>3. DTyped'
  BY <1>1, <1>2 DEF DInv, DTyped
<1>4. DAwaits'
  BY <1>1 DEF DInv, DAwaits
<1>5. DKept'
  BY <1>1, <1>2 DEF DInv, DKept
<1>6. QED
  BY <1>3, <1>4, <1>5 DEF DInv

LEMMA DInvStep == DInv /\ [D!Next]_(D!cdvars) => DInv'
<1> SUFFICES ASSUME DInv, [D!Next]_(D!cdvars) PROVE DInv'
  OBVIOUS
<1>1. CASE D!Leave \/ D!Close \/ D!Arrives \/ D!Look \/ UNCHANGED D!cdvars
  <2>1. /\ UNCHANGED <<v3, v4, v7, v10>> /\ (v6' => v6 /\ v2' = v2)
        /\ (v4 # <<>> => v2' = "await" \/ v1')
    BY <1>1 DEF D!Leave, D!Close, D!Arrives, D!Look, D!cdvars, DInv, DAwaits
  <2>2. QED
    BY <2>1, DMoves
<1>2. CASE D!Finish \/ D!AnswerFails
  <2>1. /\ UNCHANGED <<v3, v4, v7, v10>> /\ (v6' => v6 /\ v2' = v2)
        /\ (v4 # <<>> => v2' = "await" \/ v1')
    BY <1>2 DEF D!Finish, D!AnswerFails, DInv, DAwaits
  <2>2. QED
    BY <2>1, DMoves
<1>3. QED
  BY <1>1, <1>2, DTypeStep, DTakeStep, DTurnStep, DAskUserStep, DTakeAnswerStep, DPutStep
     DEF D!Next

LEMMA DInvPlaces == DInv => D!EachLineHasItsPlace
BY DEF DInv, DAwaits, DKept, D!EachLineHasItsPlace

-----------------------------------------------------------------------------
(* Memory: a window of messages is extracted while no memory was made of it.  *)

WAts   == {"none", "extract", "apply", "update", "delete", "upsert"}
WKinds == {"memory", "attachment"}
WJob   == [at : WAts, lo : Nat, hi : Nat, atoms : Int, group : Nat]
WPoint == [group : Nat, sess : MemorySessions, kind : WKinds,
           end : Nat, from : Nat, at : 1..MemoryGroups]

WOf(s) == {p \in v3 : p.sess = s /\ p.kind = "memory"}

\* A job's window reaches past every memory of the session that a message there
\* is lies behind, and none reaches into it but its own.
WNew(j, s) ==
  /\ j.at # "none" => \A p \in WOf(s), t \in v5[s] : t > j.hi => t > p.end
  /\ j.lo # 0 => \A p \in WOf(s) : p.end < j.lo \/ p.from = j.lo

\* What a job with the lock of a session knows, the latter while no window of
\* the session was built without its cursor.
WHolds(j, s) ==
  /\ j.at = "none" => j.lo = 0
  /\ j.at # "none" => j.hi <= v1[s]
  /\ s \notin v7 => WNew(j, s)

\* A message past a session's newest memory is past all of them: a memory may
\* end with a message that is gone, but what is stored later comes after it.
WInv ==
  /\ v1 \in [MemorySessions -> Nat] /\ v3 \subseteq WPoint
  /\ v4 \in [MemorySessions -> WJob] /\ v5 \in [MemorySessions -> SUBSET Nat]
  /\ \A s \in MemorySessions :
       /\ \A t \in v5[s] : t <= v1[s]
       /\ \A p \in WOf(s) : p.end <= v1[s]
       /\ s \notin v7 => \A p, q \in WOf(s) : p.at <= q.at =>
                           \A t \in v5[s] : t > q.end => t > p.end
       /\ WHolds(v4[s], s)

LEMMA WNoJob ==
  /\ W!NoJob \in WJob /\ W!NoJob.at = "none" /\ W!NoJob.lo = 0
  /\ W!NoJob.hi = 0 /\ W!NoJob.group = 0 /\ W!NoJob.atoms = 0
BY DEF W!NoJob, WJob, WAts

LEMMA WInit == W!Init => WInv
<1> SUFFICES ASSUME W!Init PROVE WInv
  OBVIOUS
<1>1. /\ v1 \in [MemorySessions -> Nat] /\ v3 = {} /\ v4 \in [MemorySessions -> WJob]
      /\ v5 \in [MemorySessions -> SUBSET Nat]
      /\ \A s \in MemorySessions : v4[s].at = "none" /\ v4[s].lo = 0 /\ v5[s] = {}
  BY WNoJob DEF W!Init
<1>2. QED
  BY <1>1 DEF WInv, WOf, WHolds, WNew

\* The newest of some points is one of them, created no earlier than any.
LEMMA WNewest ==
  ASSUME NEW ps \in SUBSET WPoint
  PROVE  /\ W!Newest(ps) \in 0..MemoryGroups
         /\ \A p \in ps : p.at <= W!Newest(ps)
         /\ ps # {} => \E p \in ps : p.at = W!Newest(ps)
<1>1. CASE ps = {}
  BY <1>1, MemoryAssumption DEF W!Newest
<1>2. CASE ps # {}
  <2> DEFINE ats == {p.at : p \in ps}
  <2>1. \A p \in ps : p.at \in 1..MemoryGroups
    BY DEF WPoint
  <2>2. ats \in SUBSET Nat /\ ats # {} /\ \A x \in ats : x <= MemoryGroups /\ x >= 1
    BY <1>2, <2>1, MemoryAssumption
  <2> HIDE DEF ats
  <2>3. \E x \in ats : \A y \in ats : y <= x
    BY <2>2, MemoryAssumption, GreatestNatural
  <2>4. \E x \in ats : \A y \in ats : x >= y
    BY <2>2, <2>3
  <2>5. W!Newest(ps) = CHOOSE x \in ats : \A y \in ats : x >= y
    BY <1>2 DEF W!Newest, W!Max, ats
  <2>6. PICK n \in ats : n = W!Newest(ps) /\ \A y \in ats : n >= y
    BY <2>4, <2>5
  <2>7. n \in 0..MemoryGroups
    BY <2>2, <2>6, MemoryAssumption
  <2>8. \A p \in ps : p.at \in ats
    BY DEF ats
  <2>9. \A p \in ps : p.at <= n
    BY <2>1, <2>6, <2>7, <2>8
  <2>10. \E p \in ps : p.at = n
    BY <2>6 DEF ats
  <2>11. QED
    BY <2>6, <2>7, <2>9, <2>10
<1>3. QED
  BY <1>1, <1>2

\* A message past the cursor is past all the session's memories.
LEMMA WCursor ==
  ASSUME WInv, NEW s \in MemorySessions \ v7
  PROVE  W!Cursor(s) \in Nat /\ \A p \in WOf(s), t \in v5[s] : t > W!Cursor(s) => t > p.end
<1>1. WOf(s) \in SUBSET WPoint /\ \A p \in WOf(s) : p.end \in Nat /\ p.at \in 1..MemoryGroups
  BY DEF WInv, WOf, WPoint
<1>2. W!Cursor(s) = IF WOf(s) = {} THEN 0
                    ELSE (CHOOSE p \in WOf(s) : p.at = W!Newest(WOf(s))).end
  BY DEF W!Cursor, WOf
<1>3. CASE WOf(s) = {}
  BY <1>2, <1>3
<1>4. CASE WOf(s) # {}
  <2>1. /\ W!Newest(WOf(s)) \in 0..MemoryGroups
        /\ \A p \in WOf(s) : p.at <= W!Newest(WOf(s))
        /\ \E p \in WOf(s) : p.at = W!Newest(WOf(s))
    BY <1>1, <1>4, WNewest
  <2>2. PICK p \in WOf(s) : p = CHOOSE q \in WOf(s) : q.at = W!Newest(WOf(s))
    BY <2>1
  <2>3. p.at = W!Newest(WOf(s))
    BY <2>1, <2>2
  <2>4. \A q \in WOf(s), t \in v5[s] : t > p.end => t > q.end
    BY <1>1, <2>1, <2>3 DEF WInv
  <2>5. QED
    BY <1>1, <1>2, <1>4, <2>2, <2>4
<1>5. QED
  BY <1>3, <1>4

\* The newest of the messages there are.
LEMMA WLatest ==
  ASSUME WInv, NEW s \in MemorySessions, v5[s] # {}
  PROVE  W!Latest(s) \in v5[s] /\ \A t \in v5[s] : t <= W!Latest(s)
<1>1. v5[s] \in SUBSET Nat /\ v1[s] \in Nat /\ \A t \in v5[s] : t <= v1[s]
  BY DEF WInv
<1>2. \E x \in v5[s] : \A y \in v5[s] : y <= x
  BY <1>1, GreatestNatural
<1>3. \E x \in v5[s] : \A y \in v5[s] : x >= y
  BY <1>1, <1>2
<1>4. W!Latest(s) = CHOOSE x \in v5[s] : \A y \in v5[s] : x >= y
  BY DEF W!Latest, W!Max
<1>5. W!Latest(s) \in v5[s] /\ \A y \in v5[s] : W!Latest(s) >= y
  BY <1>3, <1>4
<1>6. QED
  BY <1>1, <1>5

\* A step that adds no memory, lets messages go or stores newer ones, and after
\* which each job is gone or has the window it had.
LEMMA WKeeps ==
  ASSUME WInv, v1' \in [MemorySessions -> Nat], v3' \subseteq v3, v7' = v7,
         v5' \in [MemorySessions -> SUBSET Nat],
         \A s \in MemorySessions :
           /\ v1[s] <= v1'[s]
           /\ \A t \in v5'[s] : t <= v1'[s] /\ (t \in v5[s] \/ t > v1[s]),
         v4' \in [MemorySessions -> WJob],
         \A s \in MemorySessions :
           \/ v4'[s].at = "none" /\ v4'[s].lo = 0
           \/ v4[s].at # "none" /\ v4'[s].lo = v4[s].lo /\ v4'[s].hi = v4[s].hi
              /\ v4'[s].at # "none"
  PROVE  WInv'
<1>1. \A s \in MemorySessions : WOf(s)' \subseteq WOf(s)
  BY DEF WOf
<1>2. v3' \subseteq WPoint
  BY DEF WInv
<1>3. ASSUME NEW s \in MemorySessions
      PROVE  /\ \A t \in v5'[s] : t <= v1'[s]
             /\ \A p \in WOf(s)' : p.end <= v1'[s]
             /\ s \notin v7' => \A p, q \in WOf(s)' : p.at <= q.at =>
                                  \A t \in v5'[s] : t > q.end => t > p.end
             /\ WHolds(v4[s], s)'
  <2>1. v1[s] \in Nat /\ v1'[s] \in Nat /\ v4[s].hi \in Nat /\ v4[s] \in WJob
    BY DEF WInv, WJob
  <2>2. \A p \in WOf(s) : p.end \in Nat /\ p.end <= v1[s]
    BY DEF WInv, WOf, WPoint
  <2>3. \A t \in v5'[s] : t \in Nat /\ t <= v1'[s] /\ (t \in v5[s] \/ t > v1[s])
    OBVIOUS
  <2>4. \A p \in WOf(s)' : p.end <= v1'[s]
    BY <1>1, <2>1, <2>2
  <2>5. WHolds(v4[s], s)
    BY DEF WInv
  <2>6. ASSUME s \notin v7', NEW p \in WOf(s)', NEW q \in WOf(s)', p.at <= q.at,
               NEW t \in v5'[s], t > q.end
        PROVE  t > p.end
    <3>1. CASE t \in v5[s]
      BY <1>1, <2>6, <3>1 DEF WInv
    <3>2. CASE t > v1[s]
      BY <1>1, <2>1, <2>2, <2>3, <3>2
    <3>3. QED
      BY <2>3, <3>1, <3>2
  <2>7. CASE v4'[s].at = "none" /\ v4'[s].lo = 0
    BY <2>3, <2>4, <2>6, <2>7 DEF WHolds, WNew
  <2>8. CASE v4[s].at # "none" /\ v4'[s].lo = v4[s].lo /\ v4'[s].hi = v4[s].hi
             /\ v4'[s].at # "none"
    <3>1. ASSUME s \notin v7', NEW p \in WOf(s)', NEW t \in v5'[s], t > v4'[s].hi
          PROVE  t > p.end
      <4>1. CASE t \in v5[s]
        BY <1>1, <2>5, <2>8, <3>1, <4>1 DEF WHolds, WNew
      <4>2. CASE t > v1[s]
        BY <1>1, <2>1, <2>2, <2>3, <4>2
      <4>3. QED
        BY <2>3, <4>1, <4>2
    <3>2. v4'[s].hi <= v1'[s]
      BY <2>1, <2>5, <2>8 DEF WHolds
    <3>3. s \notin v7' /\ v4'[s].lo # 0 =>
            \A p \in WOf(s)' : p.end < v4'[s].lo \/ p.from = v4'[s].lo
      BY <1>1, <2>5, <2>8 DEF WHolds, WNew
    <3>4. WHolds(v4[s], s)'
      BY <2>8, <3>1, <3>2, <3>3 DEF WHolds, WNew
    <3>5. QED
      BY <2>3, <2>4, <2>6, <3>4
  <2>9. QED
    BY <2>3, <2>4, <2>6, <2>7, <2>8
<1>4. QED
  BY <1>2, <1>3 DEF WInv

\* A session's job begins, with a window no memory reaches past, or one that is
\* known to be built without its cursor.
LEMMA WBegins ==
  ASSUME WInv, UNCHANGED <<v1, v3, v5>>, NEW s \in MemorySessions, NEW j \in WJob,
         v4' = [v4 EXCEPT ![s] = j], v7 \subseteq v7',
         j.at = "none" => j.lo = 0, j.at # "none" => j.hi <= v1[s],
         s \notin v7' => WNew(j, s)
  PROVE  WInv'
<1>1. v4' \in [MemorySessions -> WJob]
  BY DEF WInv
<1>2. \A t \in MemorySessions : WOf(t)' = WOf(t)
  BY DEF WOf
<1>3. ASSUME NEW t \in MemorySessions PROVE WHolds(v4[t], t)'
  <2>1. v4'[t] = (IF t = s THEN j ELSE v4[t]) /\ WHolds(v4[t], t)
    BY DEF WInv
  <2>2. QED
    BY <1>2, <2>1 DEF WHolds, WNew
<1>4. QED
  BY <1>1, <1>2, <1>3 DEF WInv

\* A new point of a session: an attachment, or a memory that ends where no
\* message behind it is within another.
LEMMA WAdds ==
  ASSUME WInv, NEW s \in MemorySessions, NEW p \in WPoint, UNCHANGED <<v1, v5, v7>>,
         v3' = v3 \cup {p}, p.sess = s, \A q \in v3 : q.at < p.at,
         p.kind = "memory" =>
           p.end <= v1[s]
           /\ (s \notin v7 => \A q \in WOf(s), t \in v5[s] : t > p.end => t > q.end),
         v4' \in [MemorySessions -> WJob],
         \A t \in MemorySessions \ {s} : v4'[t] = v4[t],
         \/ v4'[s].at = "none" /\ v4'[s].lo = 0
         \/ /\ v4[s].at # "none" /\ v4'[s].at # "none"
            /\ v4'[s].lo = v4[s].lo /\ v4'[s].hi = v4[s].hi
            /\ p.end = v4[s].hi /\ p.from = v4[s].lo
  PROVE  WInv'
<1>1. v3' \subseteq WPoint
  BY DEF WInv
<1>2. \A t \in MemorySessions \ {s} : WOf(t)' = WOf(t)
  BY DEF WOf
<1>3. WOf(s)' \subseteq WOf(s) \cup {p} /\ WOf(s) \subseteq v3
      /\ \A q \in WOf(s)' : q.kind = "memory"
  BY DEF WOf
<1>4. ASSUME NEW t \in MemorySessions \ {s}
      PROVE  /\ t \notin v7' => \A q, r \in WOf(t)' : q.at <= r.at =>
                                  \A m \in v5'[t] : m > r.end => m > q.end
             /\ \A q \in WOf(t)' : q.end <= v1'[t]
             /\ WHolds(v4[t], t)'
  BY <1>2 DEF WInv, WHolds, WNew
<1>5. /\ \A q \in WOf(s) : q.at \in Nat /\ q.end \in Nat /\ q.at < p.at
      /\ p.at \in Nat /\ p.end \in Nat /\ v1[s] \in Nat /\ v5[s] \subseteq Nat
  BY <1>3, MemoryAssumption DEF WInv, WPoint
<1>6. ASSUME s \notin v7, NEW q \in WOf(s)', NEW r \in WOf(s)', q.at <= r.at,
             NEW m \in v5[s], m > r.end
      PROVE  m > q.end
  <2>1. CASE r = p
    <3>1. CASE q = p
      BY <1>6, <2>1, <3>1
    <3>2. CASE q # p
      BY <1>3, <1>6, <2>1, <3>2
    <3>3. QED
      BY <3>1, <3>2
  <2>2. CASE r # p
    <3>1. r \in WOf(s) /\ q # p
      BY <1>3, <1>5, <1>6, <2>2
    <3>2. q \in WOf(s)
      BY <1>3, <3>1
    <3>3. QED
      BY <1>6, <3>1, <3>2 DEF WInv
  <2>3. QED
    BY <2>1, <2>2
<1>7. \A q \in WOf(s)' : q.end <= v1'[s]
  BY <1>3, <1>5 DEF WInv
<1>8. WHolds(v4[s], s)'
  <2>1. WHolds(v4[s], s) /\ v4[s].hi \in Nat /\ v4[s].lo \in Nat
    BY DEF WInv, WJob
  <2>2. CASE v4'[s].at = "none" /\ v4'[s].lo = 0
    BY <2>2 DEF WHolds, WNew
  <2>3. CASE /\ v4[s].at # "none" /\ v4'[s].at # "none"
             /\ v4'[s].lo = v4[s].lo /\ v4'[s].hi = v4[s].hi
             /\ p.end = v4[s].hi /\ p.from = v4[s].lo
    <3>1. s \notin v7 => \A q \in WOf(s)', t \in v5[s] : t > v4[s].hi => t > q.end
      BY <1>3, <2>1, <2>3 DEF WHolds, WNew
    <3>2. s \notin v7 /\ v4[s].lo # 0 =>
            \A q \in WOf(s)' : q.end < v4[s].lo \/ q.from = v4[s].lo
      BY <1>3, <2>1, <2>3 DEF WHolds, WNew
    <3>3. QED
      BY <2>1, <2>3, <3>1, <3>2 DEF WHolds, WNew
  <2>4. QED
    BY <2>2, <2>3
<1>9. \A t \in MemorySessions : \A m \in v5'[t] : m <= v1'[t]
  BY DEF WInv
<1>10. QED
  BY <1>1, <1>4, <1>6, <1>7, <1>8, <1>9 DEF WInv

\* An atom is done: the job is over, or has the window it had.
LEMMA WAtom ==
  ASSUME WInv, NEW s \in MemorySessions, W!AtomDone(s)
  PROVE  /\ v4' \in [MemorySessions -> WJob]
         /\ \A t \in MemorySessions \ {s} : v4'[t] = v4[t]
         /\ \/ v4'[s].at = "none" /\ v4'[s].lo = 0
            \/ v4'[s].at # "none" /\ v4'[s].lo = v4[s].lo /\ v4'[s].hi = v4[s].hi
<1>1. PICK r \in WJob : r = v4[s]
  BY DEF WInv
<1>2. PICK n : n = [r EXCEPT !.at = "apply", !.atoms = r.atoms - 1, !.group = 0]
  OBVIOUS
<1>3. r.atoms - 1 \in Int
  BY DEF WJob
<1>4. n \in WJob /\ n.at = "apply" /\ n.lo = r.lo /\ n.hi = r.hi
  BY <1>2, <1>3 DEF WJob, WAts
<1>5. v4' = [v4 EXCEPT ![s] = IF r.atoms = 1 THEN W!NoJob ELSE n]
  <2>1. v4' = [v4 EXCEPT ![s] =
                 IF v4[s].atoms = 1 THEN W!NoJob
                 ELSE [v4[s] EXCEPT !.at = "apply", !.atoms = v4[s].atoms - 1, !.group = 0]]
    BY DEF W!AtomDone
  <2>2. QED
    BY <1>1, <1>2, <2>1
<1>6. QED
  BY <1>1, <1>4, <1>5, WNoJob DEF WInv

\* A point that is made: its session, its window, and newer than the others.
LEMMA WPointMade ==
  ASSUME WInv, NEW s \in MemorySessions, NEW g \in Nat,
         NEW k \in WKinds, NEW hi \in Nat, NEW lo \in Nat, W!Room,
         NEW p, p = W!Point(s, g, k, hi, lo)
  PROVE  /\ p \in WPoint /\ p.sess = s /\ p.kind = k /\ p.end = hi /\ p.from = lo
         /\ \A q \in v3 : q.at < p.at
<1>1. /\ W!Newest(v3) \in 0..MemoryGroups /\ W!Newest(v3) < MemoryGroups
      /\ \A q \in v3 : q.at <= W!Newest(v3)
  BY WNewest DEF WInv, W!Room
<1>2. W!Newest(v3) + 1 \in 1..MemoryGroups
  BY <1>1, MemoryAssumption
<1>3. p \in WPoint
  BY <1>2 DEF W!Point, WPoint
<1>4. p.sess = s /\ p.kind = k /\ p.end = hi /\ p.from = lo /\ p.at = W!Newest(v3) + 1
  BY DEF W!Point
<1>5. \A q \in v3 : q.at \in Nat
  BY MemoryAssumption DEF WInv, WPoint
<1>6. QED
  BY <1>1, <1>3, <1>4, <1>5

LEMMA WNewGroup == ASSUME W!Unused # {} PROVE W!NewGroup \in Nat
<1>1. W!Unused \in SUBSET Nat
  BY MemoryAssumption DEF W!Unused, W!Groups
<1>2. PICK x \in W!Unused : \A y \in W!Unused : x <= y
  BY <1>1, LeastNatural
<1>3. W!NewGroup = CHOOSE z \in W!Unused : \A y \in W!Unused : z <= y
  BY DEF W!NewGroup, W!Min
<1>4. QED
  BY <1>1, <1>2, <1>3

LEMMA WCreateStep ==
  ASSUME WInv, NEW s \in MemorySessions, W!Create(s)
  PROVE  WInv'
<1>1. v4[s].at = "apply" /\ W!Room /\ W!Unused # {} /\ W!AtomDone(s) /\ UNCHANGED <<v1, v5, v7>>
      /\ v4[s].hi \in Nat /\ v4[s].lo \in Nat /\ WHolds(v4[s], s)
  BY DEF W!Create, W!At, W!talk, WInv, WJob
<1>2. PICK p \in WPoint :
        /\ p = W!Point(s, W!NewGroup, "memory", v4[s].hi, v4[s].lo) /\ p.sess = s
        /\ p.kind = "memory" /\ p.end = v4[s].hi /\ p.from = v4[s].lo
        /\ \A q \in v3 : q.at < p.at
  <2>1. PICK g \in Nat, k \in WKinds : g = W!NewGroup /\ k = "memory"
    BY <1>1, WNewGroup DEF WKinds
  <2>2. PICK hi \in Nat, lo \in Nat : hi = v4[s].hi /\ lo = v4[s].lo
    BY <1>1
  <2>3. PICK p : p = W!Point(s, g, k, hi, lo)
    OBVIOUS
  <2>4. W!Room
    BY <1>1
  <2>5. /\ p \in WPoint /\ p.sess = s /\ p.kind = k /\ p.end = hi /\ p.from = lo
        /\ \A q \in v3 : q.at < p.at
    BY <2>3, <2>4, WPointMade
  <2>6. QED
    BY <2>1, <2>2, <2>3, <2>5
<1>3. v3' = v3 \cup {p}
  BY <1>2 DEF W!Create
<1>4. /\ p.end <= v1[s]
      /\ s \notin v7 => \A q \in WOf(s), t \in v5[s] : t > p.end => t > q.end
  BY <1>1, <1>2 DEF WHolds, WNew
<1>5. QED
  BY <1>1, <1>2, <1>3, <1>4, WAtom, WAdds

LEMMA WUpsertStep ==
  ASSUME WInv, NEW s \in MemorySessions, W!UpsertGroup(s)
  PROVE  WInv'
<1>1. v4[s].at = "upsert" /\ W!Room /\ W!AtomDone(s) /\ UNCHANGED <<v1, v5, v7>>
      /\ v4[s].hi \in Nat /\ v4[s].lo \in Nat /\ v4[s].group \in Nat /\ WHolds(v4[s], s)
  BY DEF W!UpsertGroup, W!At, W!talk, WInv, WJob
<1>2. PICK p \in WPoint :
        /\ p = W!Point(s, v4[s].group, "memory", v4[s].hi, v4[s].lo) /\ p.sess = s
        /\ p.kind = "memory" /\ p.end = v4[s].hi /\ p.from = v4[s].lo
        /\ \A q \in v3 : q.at < p.at
  <2>1. PICK k \in WKinds : k = "memory"
    BY DEF WKinds
  <2>2. PICK hi \in Nat, lo \in Nat, g \in Nat :
          hi = v4[s].hi /\ lo = v4[s].lo /\ g = v4[s].group
    BY <1>1
  <2>3. PICK p : p = W!Point(s, g, k, hi, lo)
    OBVIOUS
  <2>4. W!Room
    BY <1>1
  <2>5. /\ p \in WPoint /\ p.sess = s /\ p.kind = k /\ p.end = hi /\ p.from = lo
        /\ \A q \in v3 : q.at < p.at
    BY <2>3, <2>4, WPointMade
  <2>6. QED
    BY <2>1, <2>2, <2>3, <2>5
<1>3. v3' = v3 \cup {p}
  BY <1>2 DEF W!UpsertGroup
<1>4. /\ p.end <= v1[s]
      /\ s \notin v7 => \A q \in WOf(s), t \in v5[s] : t > p.end => t > q.end
  BY <1>1, <1>2 DEF WHolds, WNew
<1>5. QED
  BY <1>1, <1>2, <1>3, <1>4, WAtom, WAdds

LEMMA WProactiveCreateStep ==
  ASSUME WInv, NEW s \in MemorySessions, W!ProactiveCreate(s) \/ W!IndexAttachment(s)
  PROVE  WInv'
<1>1. v4[s].at = "none" /\ W!Room /\ W!Unused # {} /\ UNCHANGED <<v1, v4, v5, v7>>
      /\ v5[s] # {} /\ v1[s] \in Nat /\ WHolds(v4[s], s)
  BY DEF W!ProactiveCreate, W!IndexAttachment, W!CanManage, W!LockFree, W!At, W!talk, WInv
<1>2. PICK k \in WKinds :
        v3' = v3 \cup {W!Point(s, W!NewGroup, k, W!Latest(s), 0)}
  BY DEF W!ProactiveCreate, W!IndexAttachment, WKinds
<1>3. PICK last \in Nat : last = W!Latest(s) /\ last <= v1[s] /\ \A t \in v5[s] : t <= last
  BY <1>1, WLatest DEF WInv
<1>4. PICK p \in WPoint :
        /\ p = W!Point(s, W!NewGroup, k, W!Latest(s), 0) /\ p.sess = s
        /\ p.end = last /\ \A q \in v3 : q.at < p.at
  <2>1. PICK g \in Nat, lo \in Nat : g = W!NewGroup /\ lo = 0
    BY <1>1, WNewGroup
  <2>2. PICK p : p = W!Point(s, g, k, last, lo)
    OBVIOUS
  <2>3. W!Room
    BY <1>1
  <2>4. p \in WPoint /\ p.sess = s /\ p.end = last /\ \A q \in v3 : q.at < p.at
    BY <2>2, <2>3, WPointMade
  <2>5. QED
    BY <1>3, <2>1, <2>2, <2>4
<1>5. p.end <= v1[s] /\ \A q \in WOf(s), t \in v5[s] : t > p.end => t > q.end
  <2>1. v5[s] \subseteq Nat
    BY DEF WInv
  <2>2. QED
    BY <1>3, <1>4, <2>1
<1>6. v4[s].at = "none" /\ v4[s].lo = 0 /\ v4' \in [MemorySessions -> WJob]
  BY <1>1 DEF WHolds, WInv
<1>7. QED
  BY <1>1, <1>2, <1>4, <1>5, <1>6, WAdds

LEMMA WStartStep ==
  ASSUME WInv, NEW s \in MemorySessions, W!StartExtraction(s)
  PROVE  WInv'
<1>1. UNCHANGED <<v1, v3, v5>>
  BY DEF W!StartExtraction
<1>2. CASE UNCHANGED <<v4, v7>>
  <2>1. \A t \in MemorySessions : WOf(t)' = WOf(t)
    BY <1>1 DEF WOf
  <2>2. QED
    BY <1>1, <1>2, <2>1 DEF WInv, WHolds, WNew
<1>3. ASSUME NEW hi \in W!After(s),
             v4' = [v4 EXCEPT ![s] = [W!NoJob EXCEPT !.at = "extract",
                                                     !.lo = W!Min(W!After(s)), !.hi = hi]],
             v7' = IF W!Lost(s) THEN v7 \cup {s} ELSE v7
      PROVE  WInv'
  <2>1. W!After(s) \in SUBSET Nat /\ W!After(s) \subseteq v5[s] /\ hi \in Nat /\ hi <= v1[s]
    BY DEF W!After, WInv
  <2>2. PICK lo \in W!After(s) : lo = W!Min(W!After(s)) /\ \A t \in W!After(s) : lo <= t
    <3>1. \E x \in W!After(s) : \A y \in W!After(s) : x <= y
      BY <2>1, LeastNatural
    <3>2. W!Min(W!After(s)) = CHOOSE x \in W!After(s) : \A y \in W!After(s) : x <= y
      BY DEF W!Min
    <3>3. QED
      BY <3>1, <3>2
  <2>3. PICK j : j = [W!NoJob EXCEPT !.at = "extract", !.lo = lo, !.hi = hi]
    OBVIOUS
  <2>4. j \in WJob /\ j.at = "extract" /\ j.lo = lo /\ j.hi = hi
    BY <2>1, <2>2, <2>3, WNoJob DEF WJob, WAts
  <2>5. ASSUME s \notin v7' PROVE WNew(j, s)
    <3>1. s \in MemorySessions \ v7 /\ ~ W!Lost(s)
      BY <1>3, <2>5
    <3>2. W!Cursor(s) \in Nat /\ \A p \in WOf(s), t \in v5[s] : t > W!Cursor(s) => t > p.end
      BY <3>1, WCursor
    <3>3. \A t \in W!After(s) : t > W!Cursor(s)
      BY <3>1 DEF W!After
    <3>4. \A p \in WOf(s) : hi > p.end /\ lo > p.end
      BY <2>1, <2>2, <3>2, <3>3
    <3>5. \A p \in WOf(s) : p.end \in Nat
      BY DEF WInv, WOf, WPoint
    <3>6. v5[s] \subseteq Nat
      BY DEF WInv
    <3>7. QED
      BY <2>1, <2>2, <2>4, <3>4, <3>5, <3>6 DEF WNew
  <2>6. v4' = [v4 EXCEPT ![s] = j] /\ v7 \subseteq v7'
    BY <1>3, <2>2, <2>3
  <2>7. QED
    BY <1>1, <2>1, <2>4, <2>5, <2>6, WBegins
<1>4. QED
  BY <1>2, <1>3 DEF W!StartExtraction

LEMMA WProactiveUpdateStep ==
  ASSUME WInv, NEW s \in MemorySessions, NEW p \in v3, W!ProactiveUpdate(s, p)
  PROVE  WInv'
<1>1. p.group \in Nat /\ v5[s] # {} /\ v5[s] \subseteq Nat
  BY DEF WInv, WPoint, W!ProactiveUpdate, W!CanManage
<1>2. PICK last \in Nat : last = W!Latest(s) /\ last <= v1[s] /\ \A t \in v5[s] : t <= last
  BY <1>1, WLatest DEF WInv
<1>3. PICK j : j = [W!NoJob EXCEPT !.at = "update", !.hi = last, !.atoms = 1, !.group = p.group]
  OBVIOUS
<1>4. j \in WJob /\ j.at = "update" /\ j.lo = 0 /\ j.hi = last
  <2>1. PICK r \in WJob : r = W!NoJob /\ r.lo = 0
    BY WNoJob
  <2>2. PICK g \in Nat : g = p.group
    BY <1>1
  <2>3. j = [r EXCEPT !.at = "update", !.hi = last, !.atoms = 1, !.group = g]
    BY <1>3, <2>1, <2>2
  <2>4. j \in WJob
    <3>0. PICK one \in Int : one = 1
      OBVIOUS
    <3>1. PICK i : i = [r EXCEPT !.at = "update", !.atoms = one]
      OBVIOUS
    <3>2. i \in WJob
      BY <3>1 DEF WJob, WAts
    <3>3. [i EXCEPT !.hi = last, !.group = g] \in WJob
      BY <3>2 DEF WJob, WAts
    <3>4. j = [i EXCEPT !.hi = last, !.group = g]
      BY <2>3, <3>0, <3>1, <3>2 DEF WJob
    <3>5. QED
      BY <3>3, <3>4
  <2>5. j.at = "update" /\ j.lo = r.lo /\ j.hi = last
    BY ONLY <2>3, r \in WJob DEF WJob
  <2>6. QED
    BY <2>1, <2>4, <2>5
<1>5. v4' = [v4 EXCEPT ![s] = j] /\ UNCHANGED <<v1, v3, v5, v7>>
  BY <1>2, <1>3 DEF W!ProactiveUpdate, W!talk
<1>6. WNew(j, s)
  BY <1>1, <1>2, <1>4 DEF WNew
<1>7. QED
  BY <1>2, <1>4, <1>5, <1>6, WBegins

\* The steps that change one job and keep its window.
LEMMA WJobMoves ==
  ASSUME WInv, UNCHANGED <<v1, v5, v7>>, v3' \subseteq v3,
         NEW s \in MemorySessions, v4[s].at # "none",
         v4' \in [MemorySessions -> WJob],
         \A t \in MemorySessions \ {s} : v4'[t] = v4[t],
         \/ v4'[s].at = "none" /\ v4'[s].lo = 0
         \/ v4'[s].at # "none" /\ v4'[s].lo = v4[s].lo /\ v4'[s].hi = v4[s].hi
  PROVE  WInv'
<1>1. /\ v1' \in [MemorySessions -> Nat] /\ v5' \in [MemorySessions -> SUBSET Nat]
      /\ \A t \in MemorySessions : v1[t] <= v1'[t] /\ \A m \in v5'[t] : m <= v1'[t]
  BY DEF WInv
<1>2. \A t \in MemorySessions : v4[t].at = "none" => v4[t].lo = 0
  BY DEF WInv, WHolds
<1>3. QED
  BY <1>1, <1>2, WKeeps

LEMMA WExtractedStep ==
  ASSUME WInv, NEW s \in MemorySessions, NEW n \in 0..MemoryAtoms, W!Extracted(s, n)
  PROVE  WInv'
<1>1. PICK r \in WJob : r = v4[s]
  BY DEF WInv
<1>2. PICK m : m = [r EXCEPT !.at = "apply", !.atoms = n]
  OBVIOUS
<1>3. m \in WJob /\ m.at = "apply" /\ m.lo = r.lo /\ m.hi = r.hi
  <2>1. n \in Int
    OBVIOUS
  <2>2. QED
    BY <1>2, <2>1 DEF WJob, WAts
<1>4. v4' = [v4 EXCEPT ![s] = IF n = 0 THEN W!NoJob ELSE m] /\ UNCHANGED <<v1, v3, v5, v7>>
      /\ v4[s].at # "none"
  BY <1>1, <1>2 DEF W!Extracted, W!At, W!talk
<1>5. /\ v4' \in [MemorySessions -> WJob]
      /\ \A t \in MemorySessions \ {s} : v4'[t] = v4[t]
      /\ \/ v4'[s].at = "none" /\ v4'[s].lo = 0
         \/ v4'[s].at # "none" /\ v4'[s].lo = v4[s].lo /\ v4'[s].hi = v4[s].hi
  BY <1>1, <1>3, <1>4, WNoJob DEF WInv
<1>6. QED
  BY <1>4, <1>5, WJobMoves

LEMMA WClassifiedStep ==
  ASSUME WInv, NEW s \in MemorySessions, NEW p \in v3, NEW op \in {"update", "delete"},
         W!Classified(s, p, op)
  PROVE  WInv'
<1>1. PICK r \in WJob : r = v4[s]
  BY DEF WInv
<1>2. PICK m : m = [r EXCEPT !.at = op, !.group = p.group]
  OBVIOUS
<1>3. p.group \in Nat
  BY DEF WInv, WPoint
<1>4. m \in WJob /\ m.at # "none" /\ m.lo = r.lo /\ m.hi = r.hi
  BY <1>2, <1>3 DEF WJob, WAts
<1>5. v4' = [v4 EXCEPT ![s] = m] /\ UNCHANGED <<v1, v3, v5, v7>> /\ v4[s].at # "none"
  BY <1>1, <1>2 DEF W!Classified, W!At, W!talk
<1>6. /\ v4' \in [MemorySessions -> WJob]
      /\ \A t \in MemorySessions \ {s} : v4'[t] = v4[t]
      /\ v4'[s].at # "none" /\ v4'[s].lo = v4[s].lo /\ v4'[s].hi = v4[s].hi
  BY <1>1, <1>4, <1>5 DEF WInv
<1>7. QED
  BY <1>5, <1>6, WJobMoves

LEMMA WSkipStep ==
  ASSUME WInv, NEW s \in MemorySessions, W!SkipAtom(s)
  PROVE  WInv'
<1>1. v4[s].at # "none" /\ W!AtomDone(s) /\ UNCHANGED <<v1, v3, v5, v7>>
  BY DEF W!SkipAtom, W!talk
<1>2. QED
  BY <1>1, WAtom, WJobMoves

LEMMA WDeleteGroupStep ==
  ASSUME WInv, NEW s \in MemorySessions, W!DeleteGroup(s)
  PROVE  WInv'
<1>1. v4[s].at # "none" /\ v3' \subseteq v3 /\ UNCHANGED <<v1, v5, v7>>
  BY DEF W!DeleteGroup, W!Without, W!talk
<1>2. CASE v4[s].at = "update"
  <2>1. PICK r \in WJob : r = v4[s]
    BY DEF WInv
  <2>2. PICK m : m = [r EXCEPT !.at = "upsert"]
    OBVIOUS
  <2>3. m \in WJob /\ m.at # "none" /\ m.lo = r.lo /\ m.hi = r.hi
    BY <2>2 DEF WJob, WAts
  <2>4. v4' = [v4 EXCEPT ![s] = m]
    BY <1>2, <2>1, <2>2 DEF W!DeleteGroup, W!At, W!Goto
  <2>5. /\ v4' \in [MemorySessions -> WJob]
        /\ \A t \in MemorySessions \ {s} : v4'[t] = v4[t]
        /\ v4'[s].at # "none" /\ v4'[s].lo = v4[s].lo /\ v4'[s].hi = v4[s].hi
    BY <2>1, <2>3, <2>4 DEF WInv
  <2>6. QED
    BY <1>1, <2>5, WJobMoves
<1>3. CASE v4[s].at # "update"
  <2>1. W!AtomDone(s)
    BY <1>3 DEF W!DeleteGroup, W!At
  <2>2. QED
    BY <1>1, <2>1, WAtom, WJobMoves
<1>4. QED
  BY <1>2, <1>3

LEMMA WFailsStep ==
  ASSUME WInv, NEW s \in MemorySessions, W!ProactiveFails(s)
  PROVE  WInv'
<1>1. v4[s].at # "none" /\ v4' = [v4 EXCEPT ![s] = W!NoJob] /\ UNCHANGED <<v1, v3, v5, v7>>
  BY DEF W!ProactiveFails, W!Done, W!talk
<1>2. /\ v4' \in [MemorySessions -> WJob]
      /\ \A t \in MemorySessions \ {s} : v4'[t] = v4[t]
      /\ v4'[s].at = "none" /\ v4'[s].lo = 0
  BY <1>1, WNoJob DEF WInv
<1>3. QED
  BY <1>1, <1>2, WJobMoves

\* The steps of a conversation leave the jobs and the memories alone.
LEMMA WQuietStep ==
  ASSUME WInv, v3' \subseteq v3, UNCHANGED <<v4, v7>>, v1' \in [MemorySessions -> Nat],
         v5' \in [MemorySessions -> SUBSET Nat],
         \A s \in MemorySessions :
           /\ v1[s] <= v1'[s]
           /\ \A t \in v5'[s] : t <= v1'[s] /\ (t \in v5[s] \/ t > v1[s])
  PROVE  WInv'
<1>1. /\ v4' \in [MemorySessions -> WJob]
      /\ \A s \in MemorySessions : v4'[s] = v4[s] /\ (v4[s].at = "none" => v4[s].lo = 0)
  BY DEF WInv, WHolds
<1>2. QED
  BY <1>1, WKeeps

LEMMA WAskStep == ASSUME WInv, NEW s \in MemorySessions, W!Ask(s) PROVE WInv'
<1>1. PICK n \in Nat : n = v1[s] + 1
  BY DEF WInv
<1>2. /\ v1' = [v1 EXCEPT ![s] = n] /\ v5' = [v5 EXCEPT ![s] = v5[s] \cup {n}]
      /\ UNCHANGED <<v3, v4, v7>>
  BY <1>1 DEF W!Ask
<1>3. v1' \in [MemorySessions -> Nat] /\ v5' \in [MemorySessions -> SUBSET Nat]
  BY <1>2 DEF WInv
<1>4. ASSUME NEW t \in MemorySessions
      PROVE  v1[t] <= v1'[t] /\ \A m \in v5'[t] : m <= v1'[t] /\ (m \in v5[t] \/ m > v1[t])
  <2>1. v1[t] \in Nat /\ v5[t] \subseteq Nat /\ \A m \in v5[t] : m <= v1[t]
    BY DEF WInv
  <2>2. CASE t = s
    <3>1. v1'[t] = n /\ v5'[t] = v5[t] \cup {n} /\ n = v1[t] + 1
      BY <1>1, <1>2, <2>2 DEF WInv
    <3>2. QED
      BY <2>1, <3>1
  <2>3. CASE t # s
    <3>1. v1'[t] = v1[t] /\ v5'[t] = v5[t]
      BY <1>2, <2>3 DEF WInv
    <3>2. QED
      BY <2>1, <3>1
  <2>4. QED
    BY <2>2, <2>3
<1>5. QED
  BY <1>2, <1>3, <1>4, WQuietStep

LEMMA WDiscardStep == ASSUME WInv, NEW s \in MemorySessions, W!Discard(s) PROVE WInv'
<1>1. v5' = [v5 EXCEPT ![s] = v5[s] \ {v1[s]}] /\ UNCHANGED <<v1, v3, v4, v7>>
  BY DEF W!Discard
<1>2. v1' \in [MemorySessions -> Nat] /\ v5' \in [MemorySessions -> SUBSET Nat]
  BY <1>1 DEF WInv
<1>3. \A t \in MemorySessions : v5'[t] \subseteq v5[t] /\ v1'[t] = v1[t]
  BY <1>1 DEF WInv
<1>4. \A t \in MemorySessions :
        v1[t] <= v1'[t] /\ \A m \in v5'[t] : m <= v1'[t] /\ (m \in v5[t] \/ m > v1[t])
  BY <1>3 DEF WInv
<1>5. QED
  BY <1>1, <1>2, <1>4, WQuietStep

\* What a step that changes neither messages nor jobs may do.
LEMMA WStill ==
  ASSUME WInv, v3' \subseteq v3, UNCHANGED <<v1, v4, v5, v7>>
  PROVE  WInv'
<1>1. v1' \in [MemorySessions -> Nat] /\ v5' \in [MemorySessions -> SUBSET Nat]
  BY DEF WInv
<1>2. \A t \in MemorySessions :
        v1[t] <= v1'[t] /\ \A m \in v5'[t] : m <= v1'[t] /\ (m \in v5[t] \/ m > v1[t])
  BY DEF WInv
<1>3. QED
  BY <1>1, <1>2, WQuietStep

LEMMA WRestartStep == ASSUME WInv, W!Restart PROVE WInv'
<1>1. UNCHANGED <<v1, v3, v5, v7>> /\ v4' \in [MemorySessions -> WJob]
      /\ \A s \in MemorySessions : v4'[s].at = "none" /\ v4'[s].lo = 0
  BY WNoJob DEF W!Restart
<1>2. v1' \in [MemorySessions -> Nat] /\ v5' \in [MemorySessions -> SUBSET Nat]
  BY <1>1 DEF WInv
<1>3. \A t \in MemorySessions :
        v1[t] <= v1'[t] /\ \A m \in v5'[t] : m <= v1'[t] /\ (m \in v5[t] \/ m > v1[t])
  BY <1>1 DEF WInv
<1>4. QED
  BY <1>1, <1>2, <1>3, WKeeps

LEMMA WInvStep == WInv /\ [W!Next]_(W!wvars) => WInv'
<1> SUFFICES ASSUME WInv, [W!Next]_(W!wvars) PROVE WInv'
  OBVIOUS
<1>1. CASE W!Restart
  BY <1>1, WRestartStep
<1>2. ASSUME NEW s \in MemorySessions, W!Ask(s) \/ W!Discard(s) PROVE WInv'
  BY <1>2, WAskStep, WDiscardStep
<1>3. ASSUME NEW s \in MemorySessions, W!Attached(s) \/ W!RunEnds(s) PROVE WInv'
  <2>1. UNCHANGED <<v1, v3, v4, v5, v7>>
    BY <1>3 DEF W!Attached, W!RunEnds
  <2>2. QED
    BY <2>1, WStill
<1>4. ASSUME NEW s \in MemorySessions, NEW p \in v3, W!ProactiveDelete(s, p) PROVE WInv'
  <2>1. v3' \subseteq v3 /\ UNCHANGED <<v1, v4, v5, v7>>
    BY <1>4 DEF W!ProactiveDelete, W!Without, W!talk
  <2>2. QED
    BY <2>1, WStill
<1>5. ASSUME NEW s \in MemorySessions,
             W!StartExtraction(s) \/ W!Create(s) \/ W!SkipAtom(s) \/ W!ProactiveCreate(s)
             \/ W!DeleteGroup(s) \/ W!UpsertGroup(s) \/ W!ProactiveFails(s)
             \/ W!IndexAttachment(s)
      PROVE  WInv'
  BY <1>5, WStartStep, WCreateStep, WSkipStep, WProactiveCreateStep, WDeleteGroupStep,
     WUpsertStep, WFailsStep
<1>6. ASSUME NEW s \in MemorySessions, NEW n \in 0..MemoryAtoms, W!Extracted(s, n) PROVE WInv'
  BY <1>6, WExtractedStep
<1>7. ASSUME NEW s \in MemorySessions, NEW p \in v3, W!ProactiveUpdate(s, p) PROVE WInv'
  BY <1>7, WProactiveUpdateStep
<1>8. ASSUME NEW s \in MemorySessions, NEW p \in v3, NEW op \in {"update", "delete"},
             W!Classified(s, p, op)
      PROVE  WInv'
  BY <1>8, WClassifiedStep
<1>9. CASE UNCHANGED W!wvars
  <2>1. UNCHANGED <<v1, v3, v4, v5, v7>>
    BY <1>9 DEF W!wvars
  <2>2. QED
    BY <2>1, WStill
<1>10. QED
  BY <1>1, <1>2, <1>3, <1>4, <1>5, <1>6, <1>7, <1>8, <1>9 DEF W!Next

LEMMA WInvNew == WInv => W!WindowIsNew
<1> SUFFICES ASSUME WInv, NEW s \in MemorySessions \ v7, v4[s].lo # 0, NEW p \in v3,
                    p.sess = s, p.kind = "memory", p.end >= v4[s].lo
             PROVE  p.from = v4[s].lo
  BY DEF W!WindowIsNew
<1>1. p \in WOf(s) /\ p.end \in Nat /\ v4[s].lo \in Nat /\ WHolds(v4[s], s)
  BY DEF WInv, WOf, WPoint, WJob
<1>2. QED
  BY <1>1 DEF WHolds, WNew

-----------------------------------------------------------------------------
(* Log triage: an error of a log file is in one summary of one bot.           *)

LLog  == [file : Nat \ {0}, errors : Seq(LogErrors), written : {v1.written}]
LBot  == [high : Nat, reported : {v2.reported}, inode : Nat]
LScan == [at : {"wait", "open", "post"}, new : Seq(LogErrors), file : Nat]

\* Unless a log was rotated under a read: what is read is of the file the bot
\* last looked at, and past its mark; what was shown of that file is not.
LOnce ==
  /\ v3.at = "open" => v2.inode = v1.file
  /\ v3.at = "post" => v3.file = v2.inode /\ \A i \in 1..Len(v3.new) : v3.new[i] > v2.high
  /\ \A f \in 1..LogFiles, e \in LogErrors :
       /\ v4[f][e] <= 1
       /\ v4[f][e] # 0 => f <= v2.inode /\ (f = v2.inode => e <= v2.high)

LInv ==
  /\ v1 \in LLog /\ v2 \in LBot /\ v3 \in LScan
  /\ v4 \in [1..LogFiles -> [LogErrors -> Nat]]
  /\ v2.inode <= v1.file
  /\ ~v5 => LOnce

LEMMA LEmpty == \E z \in Seq(LogErrors) : z = <<>> /\ Len(z) = 0
<1>1. <<>> \in Seq(LogErrors) /\ Len(<<>>) = 0
  OBVIOUS
<1>2. QED
  BY <1>1, Zenon

LEMMA LInit == L!Init => LInv
<1> SUFFICES ASSUME L!Init PROVE LInv
  OBVIOUS
<1>1. v1 \in LLog /\ v1.file = 1
  BY DEF L!Init, LLog
<1>2. v2 \in LBot /\ v2.inode = 0
  BY DEF L!Init, L!Fresh, L!None, LBot
<1>3. v3 \in LScan /\ v3.at = "wait"
  BY DEF L!Init, L!Waiting, L!None, LScan
<1>4. v4 \in [1..LogFiles -> [LogErrors -> Nat]]
      /\ \A f \in 1..LogFiles, e \in LogErrors : v4[f][e] = 0
  BY DEF L!Init, L!Nothing
<1>5. QED
  BY <1>1, <1>2, <1>3, <1>4 DEF LInv, LOnce

\* The selection of the new errors is defined for every sequence of errors.
LEMMA LNewDefined ==
  ASSUME NEW s \in Seq(LogErrors)
  PROVE  \E g : g = [i \in 0..Len(s) |->
                       IF i = 0 THEN <<>>
                       ELSE IF L!IsNew(s[i]) THEN Append(g[i - 1], s[i]) ELSE g[i - 1]]
<1> DEFINE Rule(g, i) == IF i = 0 THEN <<>>
                         ELSE IF L!IsNew(s[i]) THEN Append(g[i - 1], s[i]) ELSE g[i - 1]
           Bad == {m \in 0..Len(s) : ~ \E g : g = [i \in 0..m |-> Rule(g, i)]}
<1>1. ASSUME Bad # {} PROVE FALSE
  <2>1. PICK m \in Bad : \A n \in Bad : m <= n
    <3>1. Bad \in SUBSET Nat
      OBVIOUS
    <3> HIDE DEF Bad
    <3>2. QED
      BY <1>1, <3>1, LeastNatural
  <2>2. m \in 0..Len(s)
    OBVIOUS
  <2>3. CASE m = 0
    <3>1. PICK g : g = [i \in 0..0 |-> <<>>]
      OBVIOUS
    <3>2. g = [i \in 0..0 |-> Rule(g, i)]
      BY <3>1
    <3>3. QED
      BY <2>3, <3>2
  <2>4. CASE m # 0
    <3>1. m - 1 \in 0..Len(s) /\ m - 1 \notin Bad
      <4> HIDE DEF Bad
      <4>1. m - 1 \in 0..Len(s) /\ ~ (m <= m - 1)
        BY <2>2, <2>4
      <4>2. QED
        BY <2>1, <4>1
    <3>2. PICK g : g = [i \in 0..(m - 1) |-> Rule(g, i)]
      BY <3>1
    <3>3. PICK h : h = [i \in 0..m |-> Rule(g, i)]
      OBVIOUS
    <3>4. \A i \in 0..(m - 1) : h[i] = g[i]
      <4>1. ASSUME NEW i \in 0..(m - 1) PROVE i \in 0..m
        BY <2>2, <2>4
      <4> HIDE DEF Rule
      <4>2. QED
        BY <3>2, <3>3, <4>1
    <3>5. \A i \in 0..m : Rule(h, i) = Rule(g, i)
      <4>1. ASSUME NEW i \in 0..m, i # 0 PROVE h[i - 1] = g[i - 1]
        BY <2>2, <3>4, <4>1
      <4>2. QED
        BY <4>1
    <3>6. h = [i \in 0..m |-> Rule(h, i)]
      <4> HIDE DEF Rule
      <4>1. QED
        BY <3>3, <3>5
    <3>7. QED
      BY <3>6
  <2>5. QED
    BY <2>3, <2>4
<1>2. Len(s) \in 0..Len(s)
  OBVIOUS
<1>3. \E g : g = [i \in 0..Len(s) |-> Rule(g, i)]
  BY <1>1, <1>2
<1>4. QED
  BY <1>3

\* What is selected is errors, and new ones.
LEMMA LNewIn ==
  ASSUME NEW s \in Seq(LogErrors)
  PROVE  /\ L!NewIn(s) \in Seq(LogErrors)
         /\ \A j \in 1..Len(L!NewIn(s)) : L!IsNew(L!NewIn(s)[j])
<1> DEFINE Rule(g, i) == IF i = 0 THEN <<>>
                         ELSE IF L!IsNew(s[i]) THEN Append(g[i - 1], s[i]) ELSE g[i - 1]
           fun == CHOOSE g : g = [i \in 0..Len(s) |-> Rule(g, i)]
<1>1. L!NewIn(s) = fun[Len(s)]
  BY DEF L!NewIn
<1>2. fun = [i \in 0..Len(s) |-> Rule(fun, i)]
  <2>1. \E g : g = [i \in 0..Len(s) |-> Rule(g, i)]
    BY LNewDefined
  <2> HIDE DEF Rule
  <2>2. QED
    BY <2>1
<1> HIDE DEF fun
<1> DEFINE Bad == {m \in 0..Len(s) : ~ (/\ fun[m] \in Seq(LogErrors)
                                        /\ \A j \in 1..Len(fun[m]) : L!IsNew(fun[m][j]))}
<1>3. ASSUME Bad # {} PROVE FALSE
  <2>1. PICK m \in Bad : \A n \in Bad : m <= n
    <3>1. Bad \in SUBSET Nat
      OBVIOUS
    <3> HIDE DEF Bad
    <3>2. QED
      BY <1>3, <3>1, LeastNatural
  <2>2. m \in 0..Len(s)
    OBVIOUS
  <2>3. CASE m = 0
    <3>1. PICK z \in Seq(LogErrors) : z = <<>> /\ Len(z) = 0
      BY LEmpty
    <3>2. fun[m] = z
      BY <1>2, <2>2, <2>3, <3>1
    <3>3. \A j \in 1..Len(z) : L!IsNew(z[j])
      BY <3>1
    <3>4. QED
      BY <3>2, <3>3
  <2>4. CASE m # 0
    <3>1. m - 1 \in 0..Len(s) /\ m - 1 \notin Bad /\ m \in 1..Len(s)
      <4> HIDE DEF Bad
      <4>1. m - 1 \in 0..Len(s) /\ m \in 1..Len(s) /\ ~ (m <= m - 1)
        BY <2>2, <2>4
      <4>2. QED
        BY <2>1, <4>1
    <3>2. PICK t \in Seq(LogErrors) :
            t = fun[m - 1] /\ \A j \in 1..Len(t) : L!IsNew(t[j])
      <4>1. PICK k \in 0..Len(s) : k = m - 1 /\ k \notin Bad
        BY <3>1
      <4>2. /\ fun[k] \in Seq(LogErrors)
            /\ \A j \in 1..Len(fun[k]) : L!IsNew(fun[k][j])
        BY <4>1
      <4>3. QED
        BY <4>1, <4>2
    <3>3. PICK e \in LogErrors : e = s[m]
      BY <3>1
    <3>4. fun[m] = IF L!IsNew(s[m]) THEN Append(t, s[m]) ELSE t
      BY <1>2, <2>2, <2>4, <3>2
    <3>5. CASE L!IsNew(s[m])
      <4>1. PICK u \in Seq(LogErrors) : u = Append(t, e)
        <5>1. Append(t, e) \in Seq(LogErrors)
          OBVIOUS
        <5>2. QED
          BY <5>1, Zenon
      <4>2. ASSUME NEW j \in 1..Len(u) PROVE L!IsNew(u[j])
        <5>1. Len(u) = Len(t) + 1 /\ Len(t) \in Nat
          BY <4>1
        <5>2. CASE j = Len(t) + 1
          <6>1. u[j] = e
            BY <3>3, <4>1, <5>1, <5>2
          <6>2. QED
            BY <3>3, <3>5, <6>1
        <5>3. CASE j # Len(t) + 1
          <6>1. j \in 1..Len(t) /\ u[j] = t[j]
            BY <3>3, <4>1, <5>1, <5>3
          <6>2. QED
            BY <3>2, <6>1
        <5>4. QED
          BY <5>2, <5>3
      <4>3. QED
        BY <3>3, <3>4, <3>5, <4>1, <4>2
    <3>6. CASE ~ L!IsNew(s[m])
      BY <3>2, <3>4, <3>6
    <3>7. QED
      BY <3>5, <3>6
  <2>5. QED
    BY <2>3, <2>4
<1>4. Len(s) \in 0..Len(s)
  OBVIOUS
<1>5. /\ fun[Len(s)] \in Seq(LogErrors)
      /\ \A j \in 1..Len(fun[Len(s)]) : L!IsNew(fun[Len(s)][j])
  BY <1>3, <1>4
<1>6. QED
  BY <1>1, <1>5

\* The largest of the mark and some errors is no less than any of them.
LEMMA LMark ==
  ASSUME NEW s \in Seq(LogErrors), v2.high \in Nat
  PROVE  /\ L!Mark(s) \in Nat /\ v2.high <= L!Mark(s)
         /\ \A i \in 1..Len(s) : s[i] <= L!Mark(s)
<1> DEFINE Marks == {v2.high} \cup L!Range(s)
           Bad == {m \in 0..Len(s) : ~ \E b \in Nat : \A i \in 1..m : s[i] <= b}
<1>1. \A i \in 1..Len(s) : s[i] \in Nat
  <2>1. \A i \in 1..Len(s) : s[i] \in LogErrors
    OBVIOUS
  <2>2. QED
    BY <2>1, LogAssumption
<1>2. ASSUME Bad # {} PROVE FALSE
  <2>1. PICK m \in Bad : \A n \in Bad : m <= n
    <3>1. Bad \in SUBSET Nat
      OBVIOUS
    <3> HIDE DEF Bad
    <3>2. QED
      BY <1>2, <3>1, LeastNatural
  <2>2. m \in 0..Len(s) /\ ~ \E b \in Nat : \A i \in 1..m : s[i] <= b
    OBVIOUS
  <2>3. m # 0
    <3>1. ASSUME m = 0 PROVE \A i \in 1..m : s[i] <= 0
      BY <3>1
    <3>2. QED
      BY <2>2, <3>1
  <2>4. m - 1 \in 0..Len(s) /\ m - 1 \notin Bad /\ m \in 1..Len(s)
    <3> HIDE DEF Bad
    <3>1. m - 1 \in 0..Len(s) /\ m \in 1..Len(s) /\ ~ (m <= m - 1)
      BY <2>2, <2>3
    <3>2. QED
      BY <2>1, <3>1
  <2>5. PICK b \in Nat : \A i \in 1..(m - 1) : s[i] <= b
    BY <2>4
  <2>6. PICK last \in Nat : last = s[m]
    BY <1>1, <2>4
  <2>7. b + last \in Nat
    OBVIOUS
  <2>8. ASSUME NEW i \in 1..m PROVE s[i] <= b + last
    <3> HIDE DEF Bad
    <3>1. CASE i = m
      <4>1. s[i] = last
        BY <2>6, <3>1
      <4>2. QED
        BY <4>1
    <3>2. CASE i # m
      <4>1. i \in 1..(m - 1) /\ i \in 1..Len(s)
        BY <2>2, <2>4, <3>2
      <4>2. PICK x \in Nat : x = s[i] /\ x <= b
        BY <1>1, <2>5, <4>1
      <4>3. x <= b + last
        BY <4>2
      <4>4. QED
        BY <4>2, <4>3
    <3>3. QED
      BY <3>1, <3>2
  <2>9. QED
    BY <2>2, <2>7, <2>8
<1>3. Len(s) \in 0..Len(s)
  OBVIOUS
<1>4. PICK b \in Nat : \A i \in 1..Len(s) : s[i] <= b
  BY <1>2, <1>3
<1>5. L!Range(s) = {s[i] : i \in 1..Len(s)}
  BY DEF L!Range
<1>6. Marks \in SUBSET Nat /\ v2.high \in Marks /\ \A i \in 1..Len(s) : s[i] \in Marks
  BY <1>1, <1>5
<1>7. b + v2.high \in Nat /\ \A x \in Marks : x <= b + v2.high
  <2>1. \A i \in 1..Len(s) : s[i] <= b + v2.high
    BY <1>1, <1>4
  <2>2. v2.high <= b + v2.high /\ b + v2.high \in Nat
    OBVIOUS
  <2>3. QED
    BY <1>5, <2>1, <2>2
<1>8. L!Mark(s) = CHOOSE x \in Marks : \A y \in Marks : x >= y
  BY DEF L!Mark, L!Max
<1> HIDE DEF Marks
<1>9. \E x \in Marks : \A y \in Marks : y <= x
  BY <1>6, <1>7, GreatestNatural
<1>10. \E x \in Marks : \A y \in Marks : x >= y
  BY <1>6, <1>9
<1>11. L!Mark(s) \in Marks /\ \A y \in Marks : L!Mark(s) >= y
  BY <1>8, <1>10
<1>12. \A y \in Marks : y \in Nat /\ y <= L!Mark(s)
  BY <1>6, <1>11
<1>13. QED
  BY <1>6, <1>11, <1>12

\* The end of a sequence of errors is one.
LEMMA LEnding ==
  ASSUME NEW s \in Seq(LogErrors)
  PROVE  L!Ending(s, LogTail) \in Seq(LogErrors)
<1>1. Len(s) \in Nat /\ LogTail \in Nat
  BY LogAssumption
<1>2. CASE Len(s) > LogTail
  <2>1. PICK k \in 1..(Len(s) + 1) : k = Len(s) - LogTail + 1
    BY <1>1, <1>2
  <2>2. L!Ending(s, LogTail) = SubSeq(s, k, Len(s))
    BY <1>2, <2>1 DEF L!Ending
  <2>3. \A i \in k..Len(s) : s[i] \in LogErrors
    BY <1>1, <2>1
  <2>4. QED
    BY <1>1, <2>1, <2>2, <2>3
<1>3. CASE ~ (Len(s) > LogTail)
  <2>1. L!Ending(s, LogTail) = SubSeq(s, 1, Len(s))
    BY <1>3 DEF L!Ending
  <2>2. QED
    BY <1>1, <2>1
<1>4. QED
  BY <1>2, <1>3

\* What a summary lists is of what was read.
LEMMA LBeginning ==
  ASSUME NEW s \in Seq(LogErrors), NEW e \in L!Range(L!Beginning(s, LogPerSummary))
  PROVE  \E i \in 1..Len(s) : e = s[i]
<1>1. Len(s) \in Nat /\ LogPerSummary \in Nat
  BY LogAssumption
<1>2. PICK n \in 0..Len(s) : L!Beginning(s, LogPerSummary) = SubSeq(s, 1, n)
  BY <1>1 DEF L!Beginning
<1>3. \A i \in 1..n : i \in 1..Len(s) /\ SubSeq(s, 1, n)[i] = s[i]
  BY <1>1
<1>4. DOMAIN SubSeq(s, 1, n) = 1..n
  BY <1>1
<1>5. PICK i \in 1..n : e = SubSeq(s, 1, n)[i]
  BY <1>2, <1>4 DEF L!Range
<1>6. QED
  BY <1>3, <1>5

LEMMA LWriteStep ==
  ASSUME LInv, NEW e \in LogErrors, L!Write(e)
  PROVE  LInv'
<1>1. PICK s \in Seq(LogErrors) : s = Append(v1.errors, e)
  <2>1. PICK q \in Seq(LogErrors) : q = v1.errors
    BY DEF LInv, LLog
  <2>2. Append(q, e) \in Seq(LogErrors)
    OBVIOUS
  <2>3. QED
    BY <2>1, <2>2
<1>2. v1' = [v1 EXCEPT !.errors = s, !.written = v1.written + 1] /\ UNCHANGED <<v2, v3, v4, v5>>
  BY <1>1 DEF L!Write
<1>3. v1' \in LLog' /\ v1'.file = v1.file
  BY <1>1, <1>2 DEF LInv, LLog
<1>4. v2' \in LBot' /\ v3' \in LScan
  BY <1>2 DEF LInv, LBot
<1>5. QED
  BY <1>2, <1>3, <1>4 DEF LInv, LOnce

LEMMA LRotateStep == ASSUME LInv, L!Rotate PROVE LInv'
<1>1. PICK n \in Nat \ {0} : n = v1.file + 1
  <2>1. PICK f \in Nat : f = v1.file
    BY DEF LInv, LLog
  <2>2. QED
    BY <2>1
<1>2. /\ v1' = [v1 EXCEPT !.file = n, !.errors = <<>>] /\ UNCHANGED <<v2, v3, v4>>
      /\ v5' = (v5 \/ v3.at = "open")
  BY <1>1 DEF L!Rotate
<1>3. v1' \in LLog' /\ v1'.file = n
  <2>1. PICK z \in Seq(LogErrors) : z = <<>>
    BY LEmpty
  <2>2. v1' = [v1 EXCEPT !.file = n, !.errors = z]
    BY <1>2, <2>1
  <2>3. QED
    BY <2>2 DEF LInv, LLog
<1>4. v2' \in LBot' /\ v3' \in LScan /\ v2'.inode <= v1'.file
  BY <1>1, <1>2, <1>3 DEF LInv, LBot, LLog
<1>5. ~v5' => ~v5 /\ v3.at # "open"
  BY <1>2
<1>6. QED
  BY <1>2, <1>3, <1>4, <1>5 DEF LInv, LOnce

LEMMA LStatStep == ASSUME LInv, L!Stat PROVE LInv'
<1>1. PICK b \in [high : Nat, reported : {<<>>, v2.reported}, inode : Nat] :
        /\ b = IF v2.inode \notin {0, v1.file} THEN L!Fresh ELSE v2
        /\ \/ b = v2 /\ v2.inode \in {0, v1.file}
           \/ b.high = 0 /\ v2.inode < v1.file
  <2>1. L!Fresh \in [high : Nat, reported : {<<>>, v2.reported}, inode : Nat]
        /\ L!Fresh.high = 0
    BY DEF L!Fresh, L!None
  <2>2. v2 \in [high : Nat, reported : {<<>>, v2.reported}, inode : Nat]
    BY DEF LInv, LBot
  <2>3. v2.inode \in Nat /\ v1.file \in Nat /\ v2.inode <= v1.file
    BY DEF LInv, LBot, LLog
  <2>4. CASE v2.inode \in {0, v1.file}
    BY <2>2, <2>4
  <2>5. CASE v2.inode \notin {0, v1.file}
    <3>1. v2.inode < v1.file
      BY <2>3, <2>5
    <3>2. QED
      BY <2>1, <2>5, <3>1
  <2>6. QED
    BY <2>4, <2>5
<1>2. /\ v2' = [b EXCEPT !.inode = v1.file] /\ v3' = [v3 EXCEPT !.at = "open"]
      /\ UNCHANGED <<v1, v4, v5>> /\ v3.at = "wait"
  BY <1>1 DEF L!Stat, L!None
<1>3. v1.file \in Nat \ {0}
  BY DEF LInv, LLog
<1>4. v2' \in LBot' /\ v2'.inode = v1.file /\ v2'.high = b.high
  BY <1>1, <1>2, <1>3 DEF LBot
<1>5. v3' \in LScan /\ v3'.at = "open"
  BY <1>2 DEF LInv, LScan
<1>6. v1' \in LLog' /\ v1'.file = v1.file
  BY <1>2 DEF LInv, LLog
<1>7. ASSUME ~v5 PROVE LOnce'
  <2>1. ASSUME NEW f \in 1..LogFiles, NEW e \in LogErrors, v4[f][e] # 0
        PROVE  f <= v1.file /\ (f = v1.file => e <= b.high)
    <3>1. /\ f <= v2.inode /\ (f = v2.inode => e <= v2.high)
          /\ v2.inode \in Nat /\ v2.inode <= v1.file /\ v2.high \in Nat
      BY <1>7, <2>1 DEF LInv, LOnce, LBot
    <3>2. f \in Nat /\ f >= 1
      OBVIOUS
    <3>3. CASE b = v2 /\ v2.inode \in {0, v1.file}
      BY <1>3, <3>1, <3>2, <3>3
    <3>4. CASE b.high = 0 /\ v2.inode < v1.file
      BY <1>3, <3>1, <3>2, <3>4
    <3>5. QED
      BY <1>1, <3>3, <3>4
  <2>2. \A f \in 1..LogFiles, e \in LogErrors : v4[f][e] <= 1
    BY <1>7 DEF LInv, LOnce
  <2>3. QED
    BY <1>2, <1>4, <1>5, <1>6, <2>1, <2>2 DEF LOnce
<1>8. v2'.inode <= v1'.file
  BY <1>3, <1>4, <1>6
<1>9. QED
  BY <1>2, <1>4, <1>5, <1>6, <1>7, <1>8 DEF LInv

LEMMA LOpenStep == ASSUME LInv, L!Open PROVE LInv'
<1>1. v1.errors \in Seq(LogErrors) /\ v1.file \in Nat /\ v2.high \in Nat
  BY DEF LInv, LLog, LBot
<1>2. PICK s \in Seq(LogErrors) :
        s = L!NewIn(L!Ending(v1.errors, LogTail)) /\ \A j \in 1..Len(s) : L!IsNew(s[j])
  BY <1>1, LEnding, LNewIn
<1>3. \A j \in 1..Len(s) : s[j] > v2.high
  <2>1. ASSUME NEW j \in 1..Len(s) PROVE s[j] > v2.high
    <3>1. v2.high = 0 \/ s[j] > v2.high
      BY <1>2, <2>1 DEF L!IsNew, L!None
    <3>2. s[j] \in Nat \ {0}
      <4>1. s[j] \in LogErrors
        BY <2>1
      <4>2. QED
        BY <4>1, LogAssumption
    <3>3. QED
      BY <3>1, <3>2
  <2>2. QED
    BY <2>1
<1>4. /\ v3' = IF s = <<>> THEN L!Waiting ELSE [at |-> "post", new |-> s, file |-> v1.file]
      /\ UNCHANGED <<v1, v2, v4, v5>> /\ v3.at = "open"
  BY <1>2 DEF L!Open
<1>5. v3' \in LScan /\ v3'.at # "open"
      /\ (v3'.at = "post" => v3'.new = s /\ v3'.file = v1.file)
  BY <1>1, <1>4 DEF LScan, L!Waiting, L!None
<1>6. v1' \in LLog' /\ v2' \in LBot'
  BY <1>4 DEF LInv, LLog, LBot
<1>7. QED
  BY <1>3, <1>4, <1>5, <1>6 DEF LInv, LOnce

LEMMA LPostStep == ASSUME LInv, L!Post PROVE LInv'
<1>1. /\ v3.at = "post" /\ v3' = L!Waiting /\ UNCHANGED <<v1, v5>>
      /\ v3.new \in Seq(LogErrors) /\ v3.file \in Nat /\ v2.high \in Nat /\ v2.inode \in Nat
  BY DEF L!Post, LInv, LScan, LBot
<1>2. PICK high \in Nat :
        /\ high = L!Mark(v3.new) /\ v2.high <= high
        /\ \A i \in 1..Len(v3.new) : v3.new[i] <= high
  BY <1>1, LMark
<1>3. PICK reported : v2' = [v2 EXCEPT !.high = high, !.reported = reported]
  BY <1>2, Zenon DEF L!Post, L!Remember
<1>4. v2' \in LBot' /\ v2'.high = high /\ v2'.inode = v2.inode
  BY <1>3 DEF LInv, LBot
<1>5. v3' \in LScan /\ v3'.at = "wait"
  BY <1>1 DEF LScan, L!Waiting, L!None
<1>6. v1' \in LLog' /\ v2'.inode <= v1'.file
  BY <1>1, <1>4 DEF LInv, LLog
<1>7. PICK row : row = [e \in LogErrors |->
                          IF e \in L!Range(L!Beginning(v3.new, LogPerSummary))
                          THEN v4[v3.file][e] + 1 ELSE v4[v3.file][e]]
  OBVIOUS
<1>8. v4' = [v4 EXCEPT ![v3.file] = row]
  BY <1>7 DEF L!Post
<1>9. \A f \in 1..LogFiles, e \in LogErrors : v4[f][e] \in Nat
  BY DEF LInv
<1>10. ASSUME v3.file \in 1..LogFiles PROVE row \in [LogErrors -> Nat]
  BY <1>7, <1>9, <1>10
<1>11. v4' \in [1..LogFiles -> [LogErrors -> Nat]]
  BY <1>8, <1>10 DEF LInv
<1>12. ASSUME ~v5 PROVE LOnce'
  <2>1. LOnce
    BY <1>12 DEF LInv
  <2>2. ASSUME NEW f \in 1..LogFiles, NEW e \in LogErrors
        PROVE  /\ v4'[f][e] <= 1
               /\ v4'[f][e] # 0 => f <= v2.inode /\ (f = v2.inode => e <= high)
    <3>1. /\ v4[f][e] \in Nat /\ v4[f][e] <= 1 /\ e \in Nat
          /\ v4[f][e] # 0 => f <= v2.inode /\ (f = v2.inode => e <= v2.high)
      BY <1>9, <2>1, LogAssumption DEF LOnce
    <3>2. CASE f # v3.file
      <4>1. v4'[f] = v4[f]
        BY <1>8, <3>2 DEF LInv
      <4>2. QED
        BY <1>1, <1>2, <3>1, <4>1
    <3>3. CASE f = v3.file /\ e \notin L!Range(L!Beginning(v3.new, LogPerSummary))
      <4>1. v4'[f][e] = v4[f][e]
        BY <1>7, <1>8, <3>3 DEF LInv
      <4>2. QED
        BY <1>1, <1>2, <3>1, <4>1
    <3>4. CASE f = v3.file /\ e \in L!Range(L!Beginning(v3.new, LogPerSummary))
      <4>1. v4'[f][e] = v4[f][e] + 1
        BY <1>7, <1>8, <3>4 DEF LInv
      <4>2. PICK i \in 1..Len(v3.new) : e = v3.new[i]
        BY <1>1, <3>4, LBeginning
      <4>3. f = v2.inode /\ e > v2.high /\ e <= high
        BY <1>1, <1>2, <2>1, <3>4, <4>2 DEF LOnce
      <4>4. v4[f][e] = 0
        BY <1>1, <3>1, <4>3
      <4>5. QED
        BY <1>1, <4>1, <4>3, <4>4
    <3>5. QED
      BY <3>2, <3>3, <3>4
  <2>3. QED
    BY <1>4, <1>5, <2>2 DEF LOnce
<1>13. QED
  BY <1>1, <1>4, <1>5, <1>6, <1>11, <1>12 DEF LInv

LEMMA LPostFailsStep == ASSUME LInv, L!PostFails PROVE LInv'
<1>1. v3' = L!Waiting /\ UNCHANGED <<v1, v2, v4, v5>>
  BY DEF L!PostFails
<1>2. v3' \in LScan /\ v3'.at = "wait"
  BY <1>1 DEF LScan, L!Waiting, L!None
<1>3. v1' \in LLog' /\ v2' \in LBot'
  BY <1>1 DEF LInv, LLog, LBot
<1>4. QED
  BY <1>1, <1>2, <1>3 DEF LInv, LOnce

\* A bot that is launched again has shown nothing and knows of no file.
LEMMA LRelaunchStep == ASSUME LInv, L!Relaunch PROVE LInv'
<1>1. v1' = v1 /\ v2' = L!Fresh /\ v3' = L!Waiting /\ v4' = L!Nothing
  BY DEF L!Relaunch
<1>2. v1' \in LLog' /\ v1'.file \in Nat
  BY <1>1 DEF LInv, LLog
<1>3. v2' \in LBot' /\ v2'.inode = 0
  BY <1>1 DEF L!Fresh, L!None, LBot
<1>4. v3' \in LScan /\ v3'.at = "wait"
  BY <1>1 DEF L!Waiting, L!None, LScan
<1>5. v4' \in [1..LogFiles -> [LogErrors -> Nat]]
      /\ \A f \in 1..LogFiles, e \in LogErrors : v4'[f][e] = 0
  BY <1>1 DEF L!Nothing
<1>6. QED
  BY <1>2, <1>3, <1>4, <1>5 DEF LInv, LOnce

LEMMA LInvStep == LInv /\ [L!Next]_(L!ltvars) => LInv'
<1> SUFFICES ASSUME LInv, [L!Next]_(L!ltvars) PROVE LInv'
  OBVIOUS
<1>1. CASE UNCHANGED L!ltvars
  <2>1. UNCHANGED <<v1, v2, v3, v4, v5>>
    BY <1>1 DEF L!ltvars
  <2>2. QED
    BY <2>1 DEF LInv, LOnce, LLog, LBot
<1>2. QED
  BY <1>1, LWriteStep, LRotateStep, LStatStep, LOpenStep, LPostStep, LPostFailsStep,
     LRelaunchStep DEF L!Next

LEMMA LInvOnce == LInv => L!ReportedOnce
BY DEF LInv, LOnce, L!ReportedOnce

-----------------------------------------------------------------------------
(* From the services to HandedServices.                                   *)

\* Every step of the router keeps its invariant.
LEMMA RInvStep == RInv /\ [R!Next]_(R!vars) => RInv'
<1> SUFFICES ASSUME RInv, [R!Next]_(R!vars) PROVE RInv'
  OBVIOUS
<1>1. CASE R!Next
  <2>1. RTyped'
    BY <1>1, RTypedStep DEF RInv
  <2>2. QED
    BY <1>1, <2>1, RNumberedStep, RCountedStep, RRunningStep, RPolledStep DEF RInv
<1>2. CASE UNCHANGED R!vars
  BY <1>2 DEF R!vars, RInv, RTyped, RNumbered, RPassed, RCounted, RRunning, RLow, RPolled
<1>3. QED
  BY <1>1, <1>2

\* What the router's invariant says of its messages.
LEMMA RInvHandles ==
  RInv => R!GivenOncePerFailure /\ R!OneRunPerSession /\ R!NothingSkipped
<1> SUFFICES ASSUME RInv
             PROVE  R!GivenOncePerFailure /\ R!OneRunPerSession /\ R!NothingSkipped
  OBVIOUS
<1>1. R!GivenOncePerFailure
  BY DEF RInv, RCounted, R!GivenOncePerFailure
<1>2. R!OneRunPerSession
  BY DEF RInv, RRunning, R!OneRunPerSession, R!At
<1>3. R!NothingSkipped
  <2>1. v2.offset \in Nat /\ v3.confirmed \in Nat
    BY RouterAssumption DEF RInv, RTyped, RPoll
  <2>2. R!Max({v2.offset, v3.confirmed}) = RLow
    BY <2>1, RMax DEF RLow
  <2>3. QED
    BY <2>2 DEF RInv, RPolled, R!NothingSkipped
<1>4. QED
  BY <1>1, <1>2, <1>3

RService == service = "router" => RInv

LEMMA RServiceInit == HandedInit => RService
<1> SUFFICES ASSUME HandedInit, service = "router" PROVE RInv
  BY DEF RService
<1>1. R!Init
  BY DEF HandedInit
<1>2. QED
  BY <1>1, RInit

LEMMA RServiceStep == RService /\ [UNCHANGED service /\ HandedNext]_svars => RService'
<1> SUFFICES ASSUME RService, [UNCHANGED service /\ HandedNext]_svars, service' = "router" PROVE RInv'
  BY DEF RService
<1>1. service = "router"
  BY DEF HandedNext, svars
<1>2. [R!Next]_(R!vars)
  BY <1>1 DEF HandedNext, svars, R!vars
<1>3. QED
  BY <1>1, <1>2, RInvStep DEF RService

\* For any number of messages, handlers and troubles: a chat message is given
\* to an agent at most once more than its handling failed, however often the
\* platform repeats it and the process restarts, no two runs are in a session,
\* and the poll loop's offset leaves no message behind (messaging/router.py).
THEOREM MessagesAlwaysHandledOnce == HandedSpec => []MessagesHandledOnce
<1>1. RService => MessagesHandledOnce
  BY RInvHandles DEF RService, MessagesHandledOnce
<1>2. QED
  BY <1>1, RServiceInit, RServiceStep, PTL DEF HandedSpec

\* A chat's session, once made, is the chat's for good: a second handler that
\* made one finds it taken (messaging/store.py).
THEOREM ChatAlwaysKeepsSession == HandedSpec => ChatKeepsSession
<1>1. ASSUME RService, [UNCHANGED service /\ HandedNext]_svars
      PROVE  [service = "router" /\ v4.session # 0 => v4'.session = v4.session]_v4
  <2> SUFFICES ASSUME service = "router", v4.session # 0, v4' # v4
               PROVE  v4'.session = v4.session
    OBVIOUS
  <2>1. R!Next
    BY <1>1 DEF HandedNext, svars
  <2>2. QED
    BY <1>1, <2>1, RSessionKept DEF RService, RInv
<1>2. QED
  BY <1>1, RServiceInit, RServiceStep, PTL DEF HandedSpec, ChatKeepsSession

AService == service = "adapters" => AInv

LEMMA AServiceInit == HandedInit => AService
<1> SUFFICES ASSUME HandedInit, service = "adapters" PROVE AInv
  BY DEF AService
<1>1. A!Init
  BY DEF HandedInit
<1>2. QED
  BY <1>1, AInit

LEMMA AServiceStep == AService /\ [UNCHANGED service /\ HandedNext]_svars => AService'
<1> SUFFICES ASSUME AService, [UNCHANGED service /\ HandedNext]_svars, service' = "adapters"
             PROVE  AInv'
  BY DEF AService
<1>1. service = "adapters"
  BY DEF HandedNext, svars
<1>2. [A!Next]_(A!svars)
  BY <1>1 DEF HandedNext, svars, A!svars
<1>3. QED
  BY <1>1, <1>2, AInvStep DEF AService

PService == service = "provider" => PInv

LEMMA PServiceInit == HandedInit => PService
<1> SUFFICES ASSUME HandedInit, service = "provider" PROVE PInv
  BY DEF PService
<1>1. P!Init
  BY DEF HandedInit
<1>2. QED
  BY <1>1, PInit

LEMMA PServiceStep == PService /\ [UNCHANGED service /\ HandedNext]_svars => PService'
<1> SUFFICES ASSUME PService, [UNCHANGED service /\ HandedNext]_svars, service' = "provider"
             PROVE  PInv'
  BY DEF PService
<1>1. service = "provider"
  BY DEF HandedNext, svars
<1>2. [P!Next]_(P!pvars)
  BY <1>1 DEF HandedNext, svars, P!pvars
<1>3. QED
  BY <1>1, <1>2, PInvStep DEF PService

MService == service = "mcp" => MInv

LEMMA MServiceInit == HandedInit => MService
<1> SUFFICES ASSUME HandedInit, service = "mcp" PROVE MInv
  BY DEF MService
<1>1. M!Init
  BY DEF HandedInit
<1>2. QED
  BY <1>1, MInit

LEMMA MServiceStep == MService /\ [UNCHANGED service /\ HandedNext]_svars => MService'
<1> SUFFICES ASSUME MService, [UNCHANGED service /\ HandedNext]_svars, service' = "mcp"
             PROVE  MInv'
  BY DEF MService
<1>1. service = "mcp"
  BY DEF HandedNext, svars
<1>2. [M!Next]_(M!mvars)
  BY <1>1 DEF HandedNext, svars, M!mvars
<1>3. QED
  BY <1>1, <1>2, MInvStep DEF MService

DService == service = "console" => DInv

LEMMA DServiceInit == HandedInit => DService
<1> SUFFICES ASSUME HandedInit, service = "console" PROVE DInv
  BY DEF DService
<1>1. D!Init
  BY DEF HandedInit
<1>2. QED
  BY <1>1, DInit

LEMMA DServiceStep == DService /\ [UNCHANGED service /\ HandedNext]_svars => DService'
<1> SUFFICES ASSUME DService, [UNCHANGED service /\ HandedNext]_svars, service' = "console"
             PROVE  DInv'
  BY DEF DService
<1>1. service = "console"
  BY DEF HandedNext, svars
<1>2. [D!Next]_(D!cdvars)
  BY <1>1 DEF HandedNext, svars, D!cdvars
<1>3. QED
  BY <1>1, <1>2, DInvStep DEF DService

WService == service = "memory" => WInv

LEMMA WServiceInit == HandedInit => WService
<1> SUFFICES ASSUME HandedInit, service = "memory" PROVE WInv
  BY DEF WService
<1>1. W!Init
  BY DEF HandedInit
<1>2. QED
  BY <1>1, WInit

LEMMA WServiceStep == WService /\ [UNCHANGED service /\ HandedNext]_svars => WService'
<1> SUFFICES ASSUME WService, [UNCHANGED service /\ HandedNext]_svars, service' = "memory"
             PROVE  WInv'
  BY DEF WService
<1>1. service = "memory"
  BY DEF HandedNext, svars
<1>2. [W!Next]_(W!wvars)
  BY <1>1 DEF HandedNext, svars, W!wvars
<1>3. QED
  BY <1>1, <1>2, WInvStep DEF WService

LService == service = "triage" => LInv

LEMMA LServiceInit == HandedInit => LService
<1> SUFFICES ASSUME HandedInit, service = "triage" PROVE LInv
  BY DEF LService
<1>1. L!Init
  BY DEF HandedInit
<1>2. QED
  BY <1>1, LInit

LEMMA LServiceStep == LService /\ [UNCHANGED service /\ HandedNext]_svars => LService'
<1> SUFFICES ASSUME LService, [UNCHANGED service /\ HandedNext]_svars, service' = "triage"
             PROVE  LInv'
  BY DEF LService
<1>1. service = "triage"
  BY DEF HandedNext, svars
<1>2. [L!Next]_(L!ltvars)
  BY <1>1 DEF HandedNext, svars, L!ltvars
<1>3. QED
  BY <1>1, <1>2, LInvStep DEF LService

\* However connects, reloads and failures of two platforms interleave, every poll
\* loop that runs belongs to an adapter the service knows and will stop
\* (messaging/service.py); for any number of calls and processes, an MCP process
\* that lives when its agent's run is over is one whose client an interrupt met
\* before it was the run's or while its end was awaited, or one whose place in
\* its client another process took (mcp/client.py:324-345, 410-434, 570-601).
THEOREM NothingAlwaysOutlives == HandedSpec => []NothingOutlivesItsOwner
<1>1. AService /\ MService => NothingOutlivesItsOwner
  BY AInvKnows, MInvKeeps DEF AService, MService, NothingOutlivesItsOwner
<1>2. QED
  BY <1>1, AServiceInit, AServiceStep, MServiceInit, MServiceStep, PTL DEF HandedSpec

\* For any number of attempts and text deltas, with retries, fallbacks, errors
\* and time-outs before or after something was shown: the text of a turn that is
\* returned is the text on the screen, unless a stream of the turn timed out
\* after some of its text had come (openrouter_provider.py:570-783).
THEOREM TurnsAlwaysAsShown == HandedSpec => []TurnsAreAsShown
<1>1. PService => TurnsAreAsShown
  BY PInvShown DEF PService, TurnsAreAsShown
<1>2. QED
  BY <1>1, PServiceInit, PServiceStep, PTL DEF HandedSpec

\* For any number of calls that time out, are cancelled or share a pipe, a call
\* that returns has the answer to its own request (mcp/client.py:442-484); for
\* any number of lines, questions and mails, a line typed at the console is in
\* one place, and answers no question but the one it was typed for
\* (cli/__init__.py:281-309, 388-406).
THEOREM AnswersAlwaysMeet == HandedSpec => []AnswersMeetTheirQuestions
<1>1. MService /\ DService => AnswersMeetTheirQuestions
  BY MInvKeeps, DInvPlaces DEF MService, DService, AnswersMeetTheirQuestions
<1>2. QED
  BY <1>1, MServiceInit, MServiceStep, DServiceInit, DServiceStep, PTL DEF HandedSpec

\* For any log and any number of summaries, an error is in at most one summary
\* of one bot, unless the log was rotated between a read's stat and its open
\* (core/log_triage_bot.py); for any number of sessions and turns, a window of
\* turns is extracted only while no memory was made of it, until a window of
\* its session finds the message gone that its newest memory ends with
\* (memory/service.py:139-201, session_store.py:392-412).
THEOREM AlwaysTakenOnce == HandedSpec => []TakenOnce
<1>1. LService /\ WService => TakenOnce
  BY LInvOnce, WInvNew DEF LService, WService, TakenOnce
<1>2. QED
  BY <1>1, LServiceInit, LServiceStep, WServiceInit, WServiceStep, PTL DEF HandedSpec
=============================================================================

------------------------- MODULE KeptServicesProofs -------------------------
(***************************************************************************)
(* Proofs about the services that keep things.  Per service: its inductive *)
(* invariant, that it holds at the start and after every step, and what    *)
(* follows from it; then the theorems about KeptSpec, in which each        *)
(* service runs by itself.                                                 *)
(***************************************************************************)
EXTENDS KeptServices, Sequences, FiniteSetTheorems, WellFoundedInduction, TLAPS

\* A set of naturals that is not empty has a least element.
LEMMA LeastNatural ==
  ASSUME NEW xs \in SUBSET Nat, xs # {}
  PROVE  \E x \in xs : \A y \in xs : x <= y
<1> DEFINE Less == {ss \in Nat \X Nat : ss[1] < ss[2]}
<1>1. IsWellFoundedOn(Less, Nat)
  BY NatLessThanWellFounded DEF OpToRel
<1>2. PICK x \in xs : \A y \in xs : <<y, x>> \notin Less
  BY <1>1, WFMin
<1>3. ASSUME NEW y \in xs PROVE x <= y
  <2>1. ~ (y < x)
    BY <1>2, <1>3
  <2>2. QED
    BY <2>1
<1>4. QED
  BY <1>3

\* A set of naturals that is not empty and has a bound has a greatest element.
LEMMA GreatestNatural ==
  ASSUME NEW xs \in SUBSET Nat, xs # {}, NEW b \in Nat, \A x \in xs : x <= b
  PROVE  \E x \in xs : \A y \in xs : y <= x
<1> DEFINE Bounds == {c \in Nat : \A x \in xs : x <= c}
<1>1. Bounds \in SUBSET Nat /\ Bounds # {}
  OBVIOUS
<1> HIDE DEF Bounds
<1>2. PICK c \in Bounds : \A d \in Bounds : c <= d
  BY <1>1, LeastNatural
<1>3. c \in Nat /\ \A x \in xs : x <= c
  BY <1>2 DEF Bounds
<1>4. CASE c \in xs
  BY <1>3, <1>4
<1>5. CASE c \notin xs
  <2>1. \A x \in xs : x \in Nat /\ x < c
    BY <1>3, <1>5
  <2>2. c > 0
    <3>1. PICK x \in xs : TRUE
      OBVIOUS
    <3>2. x \in Nat /\ x < c
      BY <2>1, <3>1
    <3>3. QED
      BY <1>3, <3>2
  <2>3. c - 1 \in Bounds
    BY <1>3, <2>1, <2>2 DEF Bounds
  <2>4. QED
    BY <1>2, <1>3, <2>3
<1>6. QED
  BY <1>4, <1>5

-----------------------------------------------------------------------------
(* The profile: v1 is file, v2 tmp, v3 cache, v4 lock, v5 call, v6 acked     *)
(* and v7 overlapped.                                                       *)

UStages == {"new", "done"} \cup U!Thread
UText   == [key : Nat, text : SUBSET ProfileCalls]

UTyped ==
  /\ v1 \in UText /\ v1.key > 0 /\ v2 \in (SUBSET ProfileCalls) \cup {U!Gone}
  /\ v3 \in [ProfileStores -> UText] /\ v4 \in [ProfileStores -> ProfileCalls \cup {U!Free}]
  /\ v5 \in [ProfileCalls -> [at : UStages, key : Nat, text : SUBSET ProfileCalls, waited : BOOLEAN]]
  /\ v6 \in SUBSET ProfileCalls /\ v7 \in BOOLEAN

\* A thread whose call still waits for it has its process's lock.
UHolders == \A c \in U!Working : v5[c].waited => v4[ProfileStoreOf[c]] = c

\* Unless threads have met there is one at a time, what it and the caches know
\* of the file is what the file says, and no acknowledged change is missing.
UAlone == \A c, d \in U!Working : c = d

UKnown ==
  /\ \A s \in ProfileStores : v3[s].key = v1.key => v3[s].text = v1.text
  /\ \A c \in ProfileCalls :
       /\ v5[c].at = "read" => v5[c].key = v1.key
       /\ v5[c].at = "mutate" => v5[c].text = v1.text
       /\ v5[c].at = "rename" => v2 = v1.text \cup {c}
  /\ v6 \subseteq v1.text

UKept ==
  /\ UTyped /\ UHolders
  /\ \A s \in ProfileStores : v3[s].key <= v1.key
  /\ \A c \in ProfileCalls : v5[c].key <= v1.key
  /\ ~v7 => UAlone /\ UKnown

\* At the start nothing is told and no thread is at work.
LEMMA UKeptInit == U!Init => UKept
<1> SUFFICES ASSUME U!Init PROVE UKept
  OBVIOUS
<1>1. UTyped
  <2>1. v1 \in UText /\ v1.key > 0 /\ v2 \in (SUBSET ProfileCalls) \cup {U!Gone}
    BY DEF U!Init, UText
  <2>2. v3 \in [ProfileStores -> UText] /\ v4 \in [ProfileStores -> ProfileCalls \cup {U!Free}]
    BY DEF U!Init, UText, U!NoCache
  <2>3. v5 \in [ProfileCalls -> [at : UStages, key : Nat, text : SUBSET ProfileCalls, waited : BOOLEAN]]
    BY DEF U!Init, UStages
  <2>4. v6 \in SUBSET ProfileCalls /\ v7 \in BOOLEAN
    BY DEF U!Init
  <2>5. QED
    BY <2>1, <2>2, <2>3, <2>4 DEF UTyped
<1>2. U!Working = {}
  BY DEF U!Init, U!Working, U!Thread
<1>3. \A s \in ProfileStores : v3[s].key = 0
  BY DEF U!Init, U!NoCache
<1>4. v1.key = 1 /\ v6 = {} /\ \A c \in ProfileCalls : v5[c].at = "new" /\ v5[c].key = 0
  BY DEF U!Init
<1>5. QED
  BY <1>1, <1>2, <1>3, <1>4 DEF UKept, UHolders, UAlone, UKnown

\* A step of a thread moves it on, or ends it and lets go of its lock.
LEMMA UMoved ==
  ASSUME UKept, NEW c \in ProfileCalls, NEW at \in UStages \ {"new"},
         c \in U!Working, at \in U!Thread \/ (at = "done" /\ U!Release(c)),
         at \in U!Thread => v4' = v4,
         v5' \in [ProfileCalls -> [at : UStages, key : Nat, text : SUBSET ProfileCalls, waited : BOOLEAN]],
         v5'[c].at = at, v5'[c].waited = v5[c].waited,
         \A d \in ProfileCalls \ {c} : v5'[d] = v5[d]
  PROVE  /\ v4' \in [ProfileStores -> ProfileCalls \cup {U!Free}] /\ UHolders'
         /\ U!Working' \subseteq U!Working /\ (UAlone => UAlone')
<1>1. U!Working' \subseteq U!Working
  BY DEF U!Working
<1>2. v4' \in [ProfileStores -> ProfileCalls \cup {U!Free}]
  BY DEF UKept, UTyped, U!Release
<1>3. ASSUME NEW d \in U!Working', v5'[d].waited PROVE v4'[ProfileStoreOf[d]] = d
  <2>1. d \in U!Working /\ v5[d].waited /\ d \in ProfileCalls /\ ProfileStoreOf[d] \in ProfileStores
    BY <1>1, <1>3, ProfileAssumption DEF U!Working, U!Free
  <2>2. v4[ProfileStoreOf[d]] = d
    BY <2>1 DEF UKept, UHolders
  <2>3. CASE at \in U!Thread
    BY <2>2, <2>3
  <2>4. CASE at \notin U!Thread
    <3>1. d # c
      BY <1>3, <2>4 DEF U!Working
    <3>2. QED
      BY <2>1, <2>2, <2>4, <3>1 DEF U!Release
  <2>5. QED
    BY <2>3, <2>4
<1>4. QED
  BY <1>1, <1>2, <1>3 DEF UHolders, UAlone

\* A call that knows something else of the file, elsewhere.
LEMMA UCallChanged ==
  ASSUME NEW r \in [at : UStages, key : Nat, text : SUBSET ProfileCalls, waited : BOOLEAN],
         NEW at \in UStages, NEW key \in Nat, NEW text \in SUBSET ProfileCalls
  PROVE  LET u == [r EXCEPT !.at = at, !.key = key, !.text = text]
         IN  /\ u \in [at : UStages, key : Nat, text : SUBSET ProfileCalls, waited : BOOLEAN]
             /\ u.at = at /\ u.key = key /\ u.text = text /\ u.waited = r.waited
OBVIOUS

\* A call that has read the file.
LEMMA UCallRead ==
  ASSUME NEW r \in [at : UStages, key : Nat, text : SUBSET ProfileCalls, waited : BOOLEAN],
         NEW at \in UStages, NEW text \in SUBSET ProfileCalls
  PROVE  LET u == [r EXCEPT !.at = at, !.text = text]
         IN  /\ u \in [at : UStages, key : Nat, text : SUBSET ProfileCalls, waited : BOOLEAN]
             /\ u.at = at /\ u.key = r.key /\ u.text = text /\ u.waited = r.waited
OBVIOUS

\* Every step of a call keeps the invariant.
LEMMA UKeptStep ==
  UKept /\ [U!Next]_(U!upvars) => UKept'
<1> SUFFICES ASSUME UKept, [U!Next]_(U!upvars)
             PROVE  UKept'
  OBVIOUS
<1> DEFINE Call == [at : UStages, key : Nat, text : SUBSET ProfileCalls, waited : BOOLEAN]
<1>0. /\ UTyped /\ UHolders
      /\ v1.key \in Nat /\ v1.text \in SUBSET ProfileCalls
      /\ v5 \in [ProfileCalls -> Call] /\ \A d \in ProfileCalls : v5[d] \in Call
      /\ v4 \in [ProfileStores -> ProfileCalls \cup {U!Free}]
      /\ \A s \in ProfileStores : v3[s] \in UText /\ v3[s].key \in Nat /\ v3[s].key <= v1.key
      /\ \A d \in ProfileCalls : v5[d].key <= v1.key /\ ProfileStoreOf[d] \in ProfileStores
  BY ProfileAssumption DEF UKept, UTyped, UText, U!Free
<1>1. ASSUME NEW c \in ProfileCalls, U!Begin(c) PROVE UKept'
  <2> DEFINE meets == \E x \in U!Working : ProfileStoreOf[x] # ProfileStoreOf[c] \/ ~v5[x].waited
  <2>1. /\ v5' = [v5 EXCEPT ![c].at = "stat"] /\ v4[ProfileStoreOf[c]] = U!Free
        /\ v5[c].at = "new" /\ v4' = [v4 EXCEPT ![ProfileStoreOf[c]] = c]
        /\ v7' = (v7 \/ meets) /\ UNCHANGED <<v1, v2, v3, v6>>
    BY <1>1 DEF U!Begin, U!Goto
  <2>2. /\ v5' \in [ProfileCalls -> Call] /\ v5'[c] = [v5[c] EXCEPT !.at = "stat"]
        /\ \A d \in ProfileCalls \ {c} : v5'[d] = v5[d]
    BY <1>0, <2>1 DEF UStages, U!Thread
  <2>3. U!Working' = U!Working \cup {c} /\ c \notin U!Working
    BY <1>0, <2>1, <2>2 DEF U!Working, U!Thread
  <2>4. ~meets => U!Working = {}
    <3>1. ASSUME NEW x \in U!Working, ProfileStoreOf[x] = ProfileStoreOf[c], v5[x].waited PROVE FALSE
      BY <1>0, <2>1, <3>1, ProfileAssumption DEF UHolders, U!Working, U!Free
    <3>2. QED
      BY <3>1
  <2>5. UTyped'
    <3>1. v7' \in BOOLEAN
      BY <2>1
    <3>2. v4' \in [ProfileStores -> ProfileCalls \cup {U!Free}]
      BY <1>0, <2>1
    <3>3. QED
      BY <1>0, <2>1, <2>2, <3>1, <3>2 DEF UTyped
  <2>6. UHolders'
    <3>1. ASSUME NEW d \in U!Working', v5'[d].waited PROVE v4'[ProfileStoreOf[d]] = d
      <4>1. d \in ProfileCalls /\ ProfileStoreOf[d] \in ProfileStores
        BY <1>0 DEF U!Working
      <4>2. CASE d = c
        BY <1>0, <2>1, <4>2
      <4>3. CASE d # c
        <5>1. d \in U!Working /\ v5[d].waited
          BY <2>2, <2>3, <3>1, <4>1, <4>3
        <5>2. v4[ProfileStoreOf[d]] = d
          BY <1>0, <5>1 DEF UHolders
        <5>3. ProfileStoreOf[d] # ProfileStoreOf[c]
          BY <2>1, <4>1, <5>2, ProfileAssumption DEF U!Free
        <5>4. QED
          BY <1>0, <2>1, <4>1, <5>2, <5>3
      <4>4. QED
        BY <4>2, <4>3
    <3>2. QED
      BY <3>1 DEF UHolders
  <2>7. ~v7' => UAlone' /\ UKnown'
    <3>1. SUFFICES ASSUME ~v7, ~meets PROVE UAlone' /\ UKnown'
      BY <2>1
    <3>2. UKnown
      BY <3>1 DEF UKept
    <3>3. UAlone'
      BY <2>3, <2>4, <3>1 DEF UAlone
    <3>4. \A d \in ProfileCalls : v5'[d].at \in {"read", "mutate", "rename"} => v5'[d] = v5[d]
      BY <2>2, <1>0
    <3>5. QED
      BY <2>1, <3>2, <3>3, <3>4 DEF UKnown
  <2>8. \A d \in ProfileCalls : v5'[d].key <= v1'.key
    BY <1>0, <2>1, <2>2
  <2>9. QED
    BY <1>0, <2>1, <2>5, <2>6, <2>7, <2>8 DEF UKept
<1>2. ASSUME NEW c \in ProfileCalls, U!Stat(c) PROVE UKept'
  <2> DEFINE have == v3[ProfileStoreOf[c]]
             at == IF have.key = v1.key THEN "mutate" ELSE "read"
  <2>1. /\ v5' = [v5 EXCEPT ![c].at = at, ![c].key = v1.key, ![c].text = have.text]
        /\ v5[c].at = "stat" /\ UNCHANGED <<v1, v2, v3, v4, v6, v7>>
    BY <1>2 DEF U!Stat
  <2>2. have.text \in SUBSET ProfileCalls
    BY <1>0 DEF UText
  <2>3. /\ v5' \in [ProfileCalls -> Call] /\ \A d \in ProfileCalls \ {c} : v5'[d] = v5[d]
        /\ v5'[c].at = at /\ v5'[c].key = v1.key /\ v5'[c].text = have.text
        /\ v5'[c].waited = v5[c].waited
    <3> DEFINE r == [v5[c] EXCEPT !.at = at, !.key = v1.key, !.text = have.text]
    <3>1. v5' = [v5 EXCEPT ![c] = r]
      BY <1>0, <2>1
    <3>2. at \in UStages
      BY DEF UStages, U!Thread
    <3>3. /\ r \in Call /\ r.at = at /\ r.key = v1.key
          /\ r.text = have.text /\ r.waited = v5[c].waited
      <4>1. v5[c] \in Call /\ at \in UStages /\ v1.key \in Nat /\ have.text \in SUBSET ProfileCalls
        BY <1>0, <2>2, <3>2
      <4> HIDE DEF at, have
      <4>2. QED
        BY <4>1, UCallChanged, Zenon
    <3>4. QED
      BY <1>0, <3>1, <3>3
  <2>4. c \in U!Working /\ at \in U!Thread
    BY <2>1 DEF U!Working, U!Thread
  <2>5. UHolders' /\ (UAlone => UAlone')
    BY <2>1, <2>3, <2>4, UMoved, Zenon DEF UStages, U!Thread
  <2>6. ~v7' => UAlone' /\ UKnown'
    <3>1. SUFFICES ASSUME ~v7 PROVE UAlone' /\ UKnown'
      BY <2>1
    <3>2. UAlone /\ UKnown
      BY <3>1 DEF UKept
    <3>3. at = "mutate" => have.text = v1.text
      BY <1>0, <3>2 DEF UKnown
    <3>4. at # "rename" /\ (at = "read" \/ at = "mutate")
      OBVIOUS
    <3> HIDE DEF at, have
    <3>5. \A d \in ProfileCalls :
            /\ v5'[d].at = "read" => v5'[d].key = v1.key
            /\ v5'[d].at = "mutate" => v5'[d].text = v1.text
            /\ v5'[d].at = "rename" => v2 = v1.text \cup {d}
      BY <2>3, <3>2, <3>3, <3>4 DEF UKnown
    <3>6. QED
      BY <2>1, <2>5, <3>2, <3>5 DEF UKnown
  <2>7. \A d \in ProfileCalls : v5'[d].key <= v1'.key
    BY <1>0, <2>1, <2>3
  <2>8. QED
    BY <1>0, <2>1, <2>3, <2>5, <2>6, <2>7, Zenon DEF UKept, UTyped
<1>3. ASSUME NEW c \in ProfileCalls, U!Read(c) PROVE UKept'
  <2> DEFINE t == [key |-> v5[c].key, text |-> v1.text]
  <2>1. /\ v5' = [v5 EXCEPT ![c].at = "mutate", ![c].text = v1.text]
        /\ v3' = [v3 EXCEPT ![ProfileStoreOf[c]] = t]
        /\ v5[c].at = "read" /\ UNCHANGED <<v1, v2, v4, v6, v7>>
    BY <1>3 DEF U!Read
  <2>2. /\ v5' \in [ProfileCalls -> Call] /\ \A d \in ProfileCalls \ {c} : v5'[d] = v5[d]
        /\ v5'[c].at = "mutate" /\ v5'[c].key = v5[c].key
        /\ v5'[c].text = v1.text /\ v5'[c].waited = v5[c].waited
    <3> DEFINE r == [v5[c] EXCEPT !.at = "mutate", !.text = v1.text]
    <3>1. v5' = [v5 EXCEPT ![c] = r]
      BY <1>0, <2>1
    <3>2. /\ r \in Call /\ r.at = "mutate" /\ r.key = v5[c].key
          /\ r.text = v1.text /\ r.waited = v5[c].waited
      <4>1. v5[c] \in Call /\ "mutate" \in UStages /\ v1.text \in SUBSET ProfileCalls
        BY <1>0 DEF UStages, U!Thread
      <4>2. QED
        BY <4>1, UCallRead, Zenon
    <3>3. QED
      BY <1>0, <3>1, <3>2
  <2>3. t \in UText /\ t.key <= v1.key
    BY <1>0 DEF UText
  <2>4. /\ v3' \in [ProfileStores -> UText]
        /\ \A s \in ProfileStores : v3'[s].key <= v1.key
        /\ \A s \in ProfileStores : v3'[s] = t \/ v3'[s] = v3[s]
    BY <1>0, <2>1, <2>3 DEF UTyped
  <2>5. c \in U!Working
    BY <2>1 DEF U!Working, U!Thread
  <2>6. UHolders' /\ (UAlone => UAlone')
    BY <2>1, <2>2, <2>5, UMoved DEF UStages, U!Thread
  <2>7. ~v7' => UAlone' /\ UKnown'
    BY <1>0, <2>1, <2>2, <2>4, <2>6 DEF UKept, UKnown
  <2>8. \A d \in ProfileCalls : v5'[d].key <= v1'.key
    BY <1>0, <2>1, <2>2
  <2>9. QED
    BY <1>0, <2>1, <2>2, <2>4, <2>6, <2>7, <2>8 DEF UKept, UTyped
<1>4. ASSUME NEW c \in ProfileCalls, U!Refused(c) PROVE UKept'
  <2>1. /\ v5' = [v5 EXCEPT ![c].at = "done"] /\ U!Release(c)
        /\ v5[c].at = "mutate" /\ UNCHANGED <<v1, v2, v3, v6, v7>>
    BY <1>4 DEF U!Refused, U!Goto
  <2>2. /\ v5' \in [ProfileCalls -> Call] /\ \A d \in ProfileCalls \ {c} : v5'[d] = v5[d]
        /\ v5'[c].at = "done" /\ v5'[c].key = v5[c].key
        /\ v5'[c].waited = v5[c].waited
    BY <1>0, <2>1 DEF UStages
  <2>3. c \in U!Working
    BY <2>1 DEF U!Working, U!Thread
  <2>4. /\ v4' \in [ProfileStores -> ProfileCalls \cup {U!Free}]
        /\ UHolders' /\ (UAlone => UAlone')
    BY <2>1, <2>2, <2>3, UMoved DEF UStages, U!Thread
  <2>5. ~v7' => UAlone' /\ UKnown'
    BY <1>0, <2>1, <2>2, <2>4 DEF UKept, UKnown
  <2>6. \A d \in ProfileCalls : v5'[d].key <= v1'.key
    BY <1>0, <2>1, <2>2
  <2>7. QED
    BY <1>0, <2>1, <2>2, <2>4, <2>5, <2>6 DEF UKept, UTyped
<1>5. ASSUME NEW c \in ProfileCalls, U!WriteTmp(c) PROVE UKept'
  <2>1. /\ v5' = [v5 EXCEPT ![c].at = "rename"] /\ v2' = v5[c].text \cup {c}
        /\ v5[c].at = "mutate" /\ UNCHANGED <<v1, v3, v4, v6, v7>>
    BY <1>5 DEF U!WriteTmp, U!Goto
  <2>2. /\ v5' \in [ProfileCalls -> Call] /\ \A d \in ProfileCalls \ {c} : v5'[d] = v5[d]
        /\ v5'[c].at = "rename" /\ v5'[c].key = v5[c].key
        /\ v5'[c].waited = v5[c].waited
    BY <1>0, <2>1 DEF UStages, U!Thread
  <2>3. c \in U!Working
    BY <2>1 DEF U!Working, U!Thread
  <2>4. UHolders' /\ (UAlone => UAlone')
    BY <2>1, <2>2, <2>3, UMoved DEF UStages, U!Thread
  <2>5. ~v7' => UAlone' /\ UKnown'
    <3>1. SUFFICES ASSUME ~v7 PROVE UAlone' /\ UKnown'
      BY <2>1
    <3>2. UAlone /\ UKnown
      BY <3>1 DEF UKept
    <3>3. v2' = v1.text \cup {c}
      BY <2>1, <3>2 DEF UKnown
    <3>4. \A d \in ProfileCalls : d # c => v5[d].at # "rename"
      BY <2>3, <3>2 DEF UAlone, U!Working, U!Thread
    <3>5. QED
      BY <2>1, <2>2, <2>4, <3>2, <3>3, <3>4 DEF UKnown
  <2>6. \A d \in ProfileCalls : v5'[d].key <= v1'.key
    BY <1>0, <2>1, <2>2
  <2>7. v2' \in SUBSET ProfileCalls
    BY <1>0, <2>1
  <2>8. QED
    BY <1>0, <2>1, <2>2, <2>4, <2>5, <2>6, <2>7 DEF UKept, UTyped
<1>6. ASSUME NEW c \in ProfileCalls, U!Rename(c) PROVE UKept'
  <2>1. /\ v5' = [v5 EXCEPT ![c].at = "done"] /\ U!Release(c)
        /\ v5[c].at = "rename" /\ UNCHANGED v7
    BY <1>6 DEF U!Rename, U!Goto
  <2>2. /\ v5' \in [ProfileCalls -> Call] /\ \A d \in ProfileCalls \ {c} : v5'[d] = v5[d]
        /\ v5'[c].at = "done" /\ v5'[c].key = v5[c].key
        /\ v5'[c].waited = v5[c].waited
    BY <1>0, <2>1 DEF UStages
  <2>3. c \in U!Working
    BY <2>1 DEF U!Working, U!Thread
  <2>4. /\ v4' \in [ProfileStores -> ProfileCalls \cup {U!Free}]
        /\ UHolders' /\ (UAlone => UAlone')
    BY <2>1, <2>2, <2>3, UMoved DEF UStages, U!Thread
  <2>5. CASE v2 = U!Gone
    <3>1. UNCHANGED <<v1, v2, v3, v6>>
      BY <1>6, <2>5 DEF U!Rename
    <3>2. ~v7' => UAlone' /\ UKnown'
      BY <1>0, <2>1, <2>2, <2>4, <3>1 DEF UKept, UKnown
    <3>3. \A d \in ProfileCalls : v5'[d].key <= v1'.key
      BY <1>0, <2>2, <3>1
    <3>4. QED
      BY <1>0, <2>1, <2>2, <2>4, <3>1, <3>2, <3>3 DEF UKept, UTyped
  <2>6. CASE v2 # U!Gone
    <3>1. /\ v1' = [key |-> v1.key + 1, text |-> v2] /\ v2' = U!Gone
          /\ v3' = [v3 EXCEPT ![ProfileStoreOf[c]] = U!NoCache]
          /\ v6' = IF v5[c].waited THEN v6 \cup {c} ELSE v6
      BY <1>6, <2>6 DEF U!Rename
    <3>2. v1' \in UText /\ v1'.key = v1.key + 1 /\ v1'.text = v2 /\ v6' \in SUBSET ProfileCalls
      BY <1>0, <2>6, <3>1 DEF UTyped, UText
    <3>3. v3' \in [ProfileStores -> UText] /\ \A s \in ProfileStores : v3'[s].key < v1'.key
      <4>1. U!NoCache \in UText /\ U!NoCache.key = 0
        BY DEF U!NoCache, UText
      <4>2. \A s \in ProfileStores : v3'[s] = U!NoCache \/ v3'[s] = v3[s]
        BY <1>0, <3>1 DEF UTyped
      <4>3. QED
        BY <1>0, <3>1, <3>2, <4>1, <4>2 DEF UTyped
    <3>4. \A d \in ProfileCalls : v5'[d].key <= v1'.key
      <4>1. \A d \in ProfileCalls : v5'[d].key = v5[d].key /\ v5[d].key \in Nat
        BY <1>0, <2>2
      <4>2. QED
        BY <1>0, <3>2, <4>1
    <3>5. ~v7' => UAlone' /\ UKnown'
      <4>1. SUFFICES ASSUME ~v7 PROVE UAlone' /\ UKnown'
        BY <2>1
      <4>2. UAlone /\ UKnown
        BY <4>1 DEF UKept
      <4>3. v2 = v1.text \cup {c}
        BY <2>1, <4>2 DEF UKnown
      <4>4. \A d \in ProfileCalls : d # c => v5[d].at \notin U!Thread
        BY <2>3, <4>2 DEF UAlone, U!Working
      <4>5. \A d \in ProfileCalls : v5'[d].at \notin {"read", "mutate", "rename"}
        BY <2>2, <4>4 DEF U!Thread
      <4>6. \A s \in ProfileStores : v3'[s].key # v1'.key
        <5>1. \A s \in ProfileStores : v3'[s].key \in Nat
          BY <3>3 DEF UText
        <5>2. QED
          BY <1>0, <3>2, <3>3, <5>1
      <4>7. v6' \subseteq v1'.text
        BY <3>1, <3>2, <4>2, <4>3 DEF UKnown
      <4>8. QED
        BY <2>4, <4>2, <4>5, <4>6, <4>7 DEF UKnown
    <3>6. QED
      <4>1. v1'.key > 0 /\ \A s \in ProfileStores : v3'[s].key <= v1'.key
        <5>1. \A s \in ProfileStores : v3'[s].key \in Nat
          BY <3>3 DEF UText
        <5>2. QED
          BY <1>0, <3>2, <3>3, <5>1
      <4>2. UTyped'
        BY <1>0, <2>1, <2>2, <2>4, <3>1, <3>2, <3>3, <4>1 DEF UTyped
      <4>3. QED
        BY <2>4, <3>4, <3>5, <4>1, <4>2 DEF UKept
  <2>7. QED
    BY <2>5, <2>6
<1>7. ASSUME NEW c \in ProfileCalls, U!Interrupt(c) PROVE UKept'
  <2>1. /\ v5' = [v5 EXCEPT ![c].waited = FALSE] /\ U!Release(c)
        /\ UNCHANGED <<v1, v2, v3, v6, v7>>
    BY <1>7 DEF U!Interrupt
  <2>2. /\ v5' \in [ProfileCalls -> Call] /\ \A d \in ProfileCalls \ {c} : v5'[d] = v5[d]
        /\ v5'[c].at = v5[c].at /\ v5'[c].key = v5[c].key
        /\ v5'[c].text = v5[c].text /\ v5'[c].waited = FALSE
    BY <1>0, <2>1
  <2>3. U!Working' = U!Working
    BY <2>2 DEF U!Working
  <2>4. v4' \in [ProfileStores -> ProfileCalls \cup {U!Free}]
    BY <1>0, <2>1 DEF U!Release
  <2>5. UHolders'
    BY <1>0, <2>1, <2>2, <2>3 DEF UHolders, U!Release, U!Working
  <2>6. ~v7' => UAlone' /\ UKnown'
    BY <1>0, <2>1, <2>2, <2>3 DEF UKept, UAlone, UKnown
  <2>7. \A d \in ProfileCalls : v5'[d].key <= v1'.key
    BY <1>0, <2>1, <2>2
  <2>8. QED
    BY <1>0, <2>1, <2>2, <2>4, <2>5, <2>6, <2>7 DEF UKept, UTyped
<1>8. CASE UNCHANGED U!upvars
  BY <1>8 DEF U!upvars, UKept, UTyped, UHolders, U!Working, UAlone, UKnown
<1>9. QED
  BY <1>1, <1>2, <1>3, <1>4, <1>5, <1>6, <1>7, <1>8 DEF U!Next

-----------------------------------------------------------------------------
(* The set-up: v1 is home, v2 env, v3 yaml, v4 project and v5 cmd.          *)

OCopied    == {"env", "user.md", "onboarded"}
OProviders == SetupProviders \cup {SetupPackaged}
OWrites    == {"profile", "stage", "toggle", "marker"}

OHome    == [files : SUBSET O!Files, marked : {"none", "copied", "wizard"}]
OYaml    == [shape : {"packaged", "torn", "sparse"}, provider : OProviders, memory : BOOLEAN]
OProject == [files : SUBSET OCopied, keys : SUBSET SetupProviders, crumb : BOOLEAN]
OAnswers == [keys : SUBSET O!Keys, provider : OProviders, memory : BOOLEAN]
OCmd     == [at : {"idle", "offered", "gate", "copy", "app", "ask", "env"} \cup OWrites,
             force : BOOLEAN, copying : Nat, answers : OAnswers]

OTyped ==
  /\ v1 \in OHome /\ v2 \in SUBSET O!Keys /\ v3 \in OYaml /\ v4 \in OProject /\ v5 \in OCmd

\* Settings whose keys are there.
OServed(x, keys) == x.provider \in keys /\ (x.memory => "gemini" \in keys)

\* The answers' keys are among the answers, then in .env; app.yaml is there
\* before it is rewritten, and what it says is served by .env before the marker
\* is written, and after.
OOrdered ==
  /\ "env" \notin v1.files => v2 = {}
  /\ v5.at \in {"env"} \cup OWrites => OServed(v5.answers, v5.answers.keys)
  /\ v5.at \in OWrites => v5.answers.keys \subseteq v2
  /\ v5.at \in {"toggle", "marker"} \/ v1.marked = "wizard" => "app.yaml" \in v1.files
  /\ v1.marked = "wizard" => "onboarded" \in v1.files
  /\ (v5.at = "marker" \/ v1.marked = "wizard") /\ v3.shape = "packaged" => OServed(v3, v2)

OInv == OTyped /\ OOrdered

\* What the invariant says of the parts of the state.
LEMMA OParts ==
  ASSUME OInv
  PROVE  /\ v1.files \in SUBSET O!Files /\ v1.marked \in {"none", "copied", "wizard"}
         /\ v4.files \in SUBSET OCopied /\ v4.keys \in SUBSET O!Keys
         /\ v5.answers \in OAnswers /\ v5.answers.keys \in SUBSET O!Keys
         /\ v5.answers.provider \in OProviders /\ v5.answers.memory \in BOOLEAN
         /\ v5.copying \in Nat
BY DEF OInv, OTyped, OHome, OProject, OCmd, OAnswers, O!Keys

LEMMA ODefaults ==
  /\ O!Default \in OYaml /\ O!Default.shape = "packaged"
  /\ O!Idle \in OCmd /\ O!Idle.at = "idle"
  /\ O!NoAnswers \in OAnswers
<1>1. O!Default \in OYaml /\ O!Default.shape = "packaged"
  BY DEF O!Default, OYaml, OProviders
<1>2. O!NoAnswers \in OAnswers
  BY DEF O!NoAnswers, OAnswers, OProviders
<1>3. O!Idle \in OCmd /\ O!Idle.at = "idle"
  <2>1. PICK a \in OAnswers : a = O!NoAnswers
    BY <1>2
  <2>2. O!Idle = [at |-> "idle", force |-> FALSE, copying |-> 1, answers |-> a]
    BY <2>1 DEF O!Idle
  <2>3. QED
    BY <2>2 DEF OCmd
<1>4. QED
  BY <1>1, <1>2, <1>3

LEMMA OInit == O!Init => OInv
<1> SUFFICES ASSUME O!Init PROVE OInv
  OBVIOUS
<1>1. /\ v1 = [files |-> {}, marked |-> "none"] /\ v2 = {} /\ v3 = O!Default /\ v5 = O!Idle
  BY DEF O!Init
<1>2. PICK files \in SUBSET OCopied, keys \in SUBSET SetupProviders :
        v4 = [files |-> files, keys |-> keys, crumb |-> FALSE]
  BY DEF O!Init, OCopied
<1>3. v1 \in OHome /\ v2 \in SUBSET O!Keys /\ v4 \in OProject
  BY <1>1, <1>2 DEF OHome, OProject
<1>4. OTyped
  BY <1>1, <1>3, ODefaults DEF OTyped
<1>5. OOrdered
  BY <1>1, ODefaults DEF OOrdered, OWrites
<1>6. QED
  BY <1>4, <1>5 DEF OInv

\* The command goes on to a step that asks nothing of what is on disk.
LEMMA OGoes ==
  ASSUME OInv, v5' \in OCmd, v5'.at \notin {"env"} \cup OWrites, UNCHANGED <<v1, v2, v3>>,
         v4' \in OProject
  PROVE  OInv'
<1>1. OTyped'
  BY DEF OInv, OTyped
<1>2. OOrdered'
  BY DEF OInv, OOrdered, OWrites
<1>3. QED
  BY <1>1, <1>2 DEF OInv

LEMMA OAskStep ==
  ASSUME OInv,
         \/ \E force \in BOOLEAN : O!Launch(force)
         \/ \E b \in BOOLEAN : O!Decline(b) \/ O!Gate(b)
         \/ O!Accept \/ O!Breadcrumb \/ O!NoProvider \/ O!Die \/ O!CmdOnboard
  PROVE  OInv'
<1>1. CASE \E force \in BOOLEAN : O!Launch(force)
  <2>1. PICK force \in BOOLEAN : O!Launch(force)
    BY <1>1
  <2>2. PICK at \in {"offered", "gate"} : v5' = [O!Idle EXCEPT !.force = force, !.at = at]
    BY <2>1, Zenon DEF O!Launch
  <2>3. v5' \in OCmd /\ v5'.at = at
    BY <2>2, ODefaults DEF OCmd
  <2>4. v4' \in OProject /\ UNCHANGED <<v1, v2, v3>>
    BY <2>1, Zenon DEF O!Launch, OInv, OTyped
  <2>5. QED
    BY <2>3, <2>4, OGoes DEF OWrites
<1>2. CASE \/ \E b \in BOOLEAN : O!Decline(b) \/ O!Gate(b)
           \/ O!Accept \/ O!Breadcrumb
  <2>1. PICK at \in {"gate", "copy", "app", "ask"} : v5' = [v5 EXCEPT !.at = at]
    BY <1>2 DEF O!Decline, O!Gate, O!Accept, O!Breadcrumb, O!Goto
  <2>2. v5' \in OCmd /\ v5'.at = at
    BY <2>1 DEF OInv, OTyped, OCmd
  <2>3. v4' \in OProject /\ UNCHANGED <<v1, v2, v3>>
    BY <1>2 DEF O!Decline, O!Gate, O!Accept, O!Breadcrumb, OInv, OTyped, OProject
  <2>4. QED
    BY <2>2, <2>3, OGoes DEF OWrites
<1>3. CASE O!NoProvider \/ O!Die \/ O!CmdOnboard
  <2>1. v5' \in OCmd /\ v5'.at = "idle"
    BY <1>3, ODefaults DEF O!NoProvider, O!Die, O!CmdOnboard
  <2>2. v4' \in OProject /\ UNCHANGED <<v1, v2, v3>>
    BY <1>3 DEF O!NoProvider, O!Die, O!CmdOnboard, OInv, OTyped, OProject
  <2>3. QED
    BY <2>1, <2>2, OGoes DEF OWrites
<1>4. QED
  BY <1>1, <1>2, <1>3

\* A file is copied where it is not: .env takes away no key, and the marker
\* does not become the wizard's.
LEMMA OCopyKeeps ==
  ASSUME OInv, NEW f \in OCopied, NEW keys \in SUBSET O!Keys, O!Copy(f, keys), f \notin v1.files,
         v5' \in OCmd, v5'.at \notin {"env"} \cup OWrites, UNCHANGED <<v3, v4>>
  PROVE  OInv'
<1>1. PICK m \in {"none", "copied", "wizard"} : m = IF f = "onboarded" THEN "copied" ELSE v1.marked
  BY OParts
<1>2. v1' = [v1 EXCEPT !.files = v1.files \cup {f}, !.marked = m]
  BY <1>1 DEF O!Copy, OInv, OTyped, OHome
<1>3. f \in O!Files
  BY DEF O!Files, OCopied
<1>4. v1' \in OHome /\ v1'.files = v1.files \cup {f} /\ v1'.marked = m
  BY <1>2, <1>3, OParts DEF OInv, OTyped, OHome
<1>5. v2' \in SUBSET O!Keys /\ v2 \subseteq v2' /\ ("env" \notin v1'.files => v2' = {})
  <2>1. CASE f = "env"
    BY <1>4, <2>1 DEF O!Copy, OInv, OOrdered
  <2>2. CASE f # "env"
    BY <1>4, <2>2 DEF O!Copy, OInv, OTyped, OOrdered
  <2>3. QED
    BY <2>1, <2>2
<1>6. m = "wizard" => v1.marked = "wizard"
  BY <1>1
<1>7. OTyped'
  BY <1>4, <1>5 DEF OInv, OTyped
<1>8. OOrdered'
  BY <1>4, <1>5, <1>6 DEF OInv, OOrdered, OWrites, OServed
<1>9. QED
  BY <1>7, <1>8 DEF OInv

LEMMA OCopyStep ==
  ASSUME OInv, O!CopyNext \/ \E keys \in SUBSET SetupProviders : O!DieCopying(keys)
  PROVE  OInv'
<1>1. CASE O!CopyNext
  <2>1. /\ v5.at = "copy" /\ v5.copying <= 3 /\ UNCHANGED <<v3, v4>>
        /\ v5' = [v5 EXCEPT !.copying = v5.copying + 1]
    BY <1>1 DEF O!CopyNext, O!Copied
  <2>2. v5' \in OCmd /\ v5'.at = "copy"
    <3>1. v5 \in OCmd /\ v5.copying + 1 \in Nat
      BY OParts DEF OInv, OTyped
    <3>2. QED
      BY <2>1, <3>1 DEF OCmd
  <2>3. CASE UNCHANGED <<v1, v2>>
    <3>1. v4' \in OProject
      BY <2>1 DEF OInv, OTyped
    <3>2. QED
      BY <2>1, <2>2, <2>3, <3>1, OGoes DEF OWrites
  <2>4. CASE ~UNCHANGED <<v1, v2>>
    <3>1. PICK f \in v4.files : O!Copy(f, v4.keys) /\ f \notin v1.files
      BY <1>1, <2>4 DEF O!CopyNext, O!Has
    <3>2. f \in OCopied /\ v4.keys \in SUBSET O!Keys
      BY OParts
    <3>3. QED
      BY <2>1, <2>2, <3>1, <3>2, OCopyKeeps DEF OWrites
  <2>5. QED
    BY <2>3, <2>4
<1>2. CASE \E keys \in SUBSET SetupProviders : O!DieCopying(keys)
  <2>1. PICK keys \in SUBSET SetupProviders : O!DieCopying(keys)
    BY <1>2
  <2>2. PICK f : f = O!Copied[v5.copying]
    OBVIOUS
  <2>3. /\ O!Copy(f, keys) /\ f \in v4.files /\ f \notin v1.files
        /\ v5' = O!Idle /\ UNCHANGED <<v3, v4>>
    BY <2>1, <2>2 DEF O!DieCopying, O!Copy, O!Has
  <2>4. f \in OCopied /\ keys \in SUBSET O!Keys
    BY <2>3, OParts DEF O!Keys
  <2>5. QED
    BY <2>3, <2>4, OCopyKeeps, ODefaults DEF OWrites
<1>3. QED
  BY <1>1, <1>2

LEMMA OAnswerStep ==
  ASSUME OInv, NEW wired \in SUBSET SetupProviders, NEW provider \in SetupProviders,
         O!Answer(wired, provider)
  PROVE  OInv'
<1>1. PICK memory \in BOOLEAN : memory = ("memory" \in v1.files)
  <2>1. CASE "memory" \in v1.files
    <3>1. TRUE = ("memory" \in v1.files)
      BY <2>1
    <3>2. QED
      BY <3>1, Zenon
  <2>2. CASE "memory" \notin v1.files
    <3>1. FALSE = ("memory" \in v1.files)
      BY <2>2
    <3>2. QED
      BY <3>1, Zenon
  <2>3. QED
    BY <2>1, <2>2, Zenon
<1>2. PICK keys \in SUBSET O!Keys : keys = wired \cup (IF "memory" \in v1.files THEN {"gemini"} ELSE {})
  BY DEF O!Keys
<1>3. PICK a : a = [keys |-> keys, provider |-> provider, memory |-> memory]
  OBVIOUS
<1>4. /\ v5' = [v5 EXCEPT !.at = "env", !.answers = a] /\ provider \in wired
      /\ UNCHANGED <<v1, v2, v3, v4>>
  BY <1>1, <1>2, <1>3 DEF O!Answer, O!Has
<1>5. a \in OAnswers
  BY <1>3 DEF OAnswers, OProviders
<1>6. OServed(a, a.keys)
  BY <1>1, <1>2, <1>3, <1>4 DEF OServed
<1>7. v5' \in OCmd /\ v5'.at = "env" /\ v5'.answers = a
  BY <1>4, <1>5 DEF OInv, OTyped, OCmd
<1>8. OTyped'
  BY <1>4, <1>7 DEF OInv, OTyped
<1>9. OOrdered'
  BY <1>4, <1>6, <1>7 DEF OInv, OOrdered, OWrites
<1>10. QED
  BY <1>8, <1>9 DEF OInv

\* The command moves on and a file is added.
LEMMA OAdds ==
  ASSUME OInv, NEW f \in O!Files, NEW at \in OWrites, O!Goto(at), O!AddFile(f)
  PROVE  /\ v5' \in OCmd /\ v5'.at = at /\ v5'.answers = v5.answers
         /\ v1' \in OHome /\ v1'.files = v1.files \cup {f} /\ v1'.marked = v1.marked
<1>1. v5' \in OCmd /\ v5'.at = at /\ v5'.answers = v5.answers
  BY DEF O!Goto, OInv, OTyped, OCmd
<1>2. v1' \in OHome /\ v1'.files = v1.files \cup {f} /\ v1'.marked = v1.marked
  BY DEF O!AddFile, OInv, OTyped, OHome
<1>3. QED
  BY <1>1, <1>2

LEMMA OWriteStep ==
  ASSUME OInv, O!WriteEnv \/ O!WriteProfile \/ O!StageYaml
  PROVE  OInv'
<1>1. CASE O!WriteEnv
  <2>1. /\ v5.at = "env" /\ O!Goto("profile") /\ O!AddFile("env")
        /\ v2' = v2 \cup v5.answers.keys /\ UNCHANGED <<v3, v4>>
    BY <1>1 DEF O!WriteEnv
  <2>2. /\ v5' \in OCmd /\ v5'.at = "profile" /\ v5'.answers = v5.answers
        /\ v1' \in OHome /\ v1'.files = v1.files \cup {"env"} /\ v1'.marked = v1.marked
    BY <2>1, OAdds DEF O!Files, OWrites
  <2>3. OTyped'
    BY <2>1, <2>2, OParts DEF OInv, OTyped
  <2>4. OOrdered'
    BY <2>1, <2>2 DEF OInv, OOrdered, OWrites, OServed
  <2>5. QED
    BY <2>3, <2>4 DEF OInv
<1>2. CASE O!WriteProfile
  <2>1. /\ v5.at = "profile" /\ O!Goto("stage") /\ O!AddFile("user.md") /\ UNCHANGED <<v2, v3, v4>>
    BY <1>2 DEF O!WriteProfile
  <2>2. /\ v5' \in OCmd /\ v5'.at = "stage" /\ v5'.answers = v5.answers
        /\ v1' \in OHome /\ v1'.files = v1.files \cup {"user.md"} /\ v1'.marked = v1.marked
    BY <2>1, OAdds DEF O!Files, OWrites
  <2>3. OTyped'
    BY <2>1, <2>2 DEF OInv, OTyped
  <2>4. OOrdered'
    BY <2>1, <2>2 DEF OInv, OOrdered, OWrites
  <2>5. QED
    BY <2>3, <2>4 DEF OInv
<1>3. CASE O!StageYaml
  <2>1. /\ v5.at = "stage" /\ O!Goto("toggle") /\ O!AddFile("app.yaml") /\ UNCHANGED <<v2, v4>>
        /\ v3' = IF "app.yaml" \in v1.files THEN v3 ELSE O!Default
    BY <1>3 DEF O!StageYaml, O!Has
  <2>2. /\ v5' \in OCmd /\ v5'.at = "toggle" /\ v5'.answers = v5.answers
        /\ v1' \in OHome /\ v1'.files = v1.files \cup {"app.yaml"} /\ v1'.marked = v1.marked
    BY <2>1, OAdds DEF O!Files, OWrites
  <2>3. v3' \in OYaml
    BY <2>1, ODefaults DEF OInv, OTyped
  <2>4. OTyped'
    BY <2>1, <2>2, <2>3 DEF OInv, OTyped
  <2>5. OOrdered'
    BY <2>1, <2>2 DEF OInv, OOrdered, OWrites
  <2>6. QED
    BY <2>4, <2>5 DEF OInv
<1>4. QED
  BY <1>1, <1>2, <1>3

\* A wizard that is killed at app.yaml, and a setting that is saved without
\* one, find none: no wizard has completed.
LEMMA OYamlStep ==
  ASSUME OInv, O!DieStaging \/ O!SaveSetting
  PROVE  OInv'
<1>1. /\ "app.yaml" \notin v1.files /\ O!AddFile("app.yaml") /\ UNCHANGED <<v2, v4>>
      /\ \E s \in {"torn", "sparse"} : v3' = [O!Default EXCEPT !.shape = s]
  BY DEF O!DieStaging, O!SaveSetting, O!Has
<1>2. v5' \in OCmd /\ v5'.at \in {"idle", "app"}
  BY ODefaults DEF O!DieStaging, O!SaveSetting, OInv, OTyped
<1>3. v1' \in OHome /\ v1'.files = v1.files \cup {"app.yaml"} /\ v1'.marked = v1.marked
  BY <1>1 DEF O!AddFile, OInv, OTyped, OHome, O!Files
<1>4. v3' \in OYaml /\ v3'.shape # "packaged"
  BY <1>1, ODefaults DEF OYaml
<1>5. OTyped'
  BY <1>1, <1>2, <1>3, <1>4 DEF OInv, OTyped
<1>6. OOrdered'
  BY <1>1, <1>2, <1>3, <1>4 DEF OInv, OOrdered, OWrites
<1>7. QED
  BY <1>5, <1>6 DEF OInv

LEMMA OToggleStep ==
  ASSUME OInv, O!ToggleYaml
  PROVE  OInv'
<1>1. v5.at = "toggle" /\ O!Goto("marker") /\ UNCHANGED <<v1, v2, v4>>
  BY DEF O!ToggleYaml
<1>2. v5' \in OCmd /\ v5'.at = "marker" /\ v5'.answers = v5.answers
  BY <1>1 DEF O!Goto, OInv, OTyped, OCmd, OWrites
<1>3. OServed(v5.answers, v2)
  BY <1>1 DEF OInv, OOrdered, OServed, OWrites
<1>4. v3' \in OYaml /\ (v3'.shape = "packaged" => OServed(v3', v2))
  <2>1. CASE v3.shape = "packaged"
    <3>1. PICK a \in OAnswers : a = v5.answers
      BY OParts
    <3>2. v3' = [v3 EXCEPT !.provider = a.provider, !.memory = a.memory]
      BY <2>1, <3>1 DEF O!ToggleYaml
    <3>3. v3' \in OYaml /\ v3'.provider = a.provider /\ v3'.memory = a.memory
      BY <3>2 DEF OInv, OTyped, OYaml, OAnswers
    <3>4. QED
      BY <1>3, <3>1, <3>3 DEF OServed
  <2>2. CASE v3.shape # "packaged"
    BY <2>2 DEF O!ToggleYaml, OInv, OTyped
  <2>3. QED
    BY <2>1, <2>2
<1>5. OTyped'
  BY <1>1, <1>2, <1>4 DEF OInv, OTyped
<1>6. OOrdered'
  BY <1>1, <1>2, <1>4 DEF OInv, OOrdered, OWrites
<1>7. QED
  BY <1>5, <1>6 DEF OInv

LEMMA OMarkStep ==
  ASSUME OInv, O!MarkOnboarded
  PROVE  OInv'
<1>1. /\ v5.at = "marker" /\ v5' = [v5 EXCEPT !.at = "app"] /\ UNCHANGED <<v2, v3, v4>>
      /\ v1' = [files |-> v1.files \cup {"onboarded"}, marked |-> "wizard"]
  BY DEF O!MarkOnboarded, O!Goto
<1>2. v5' \in OCmd /\ v5'.at = "app"
  BY <1>1 DEF OInv, OTyped, OCmd
<1>3. v1' \in OHome /\ v1'.files = v1.files \cup {"onboarded"} /\ v1'.marked = "wizard"
  BY <1>1, OParts DEF OHome, O!Files
<1>4. OTyped'
  BY <1>1, <1>2, <1>3 DEF OInv, OTyped
<1>5. OOrdered'
  BY <1>1, <1>2, <1>3 DEF OInv, OOrdered, OWrites
<1>6. QED
  BY <1>4, <1>5 DEF OInv

\* The container's commands put the memory marker there, and take it away.
LEMMA ODockerStep ==
  ASSUME OInv,
         \/ \E what \in O!Commands : O!Begin(what)
         \/ O!DockerFails \/ O!Up \/ O!Ready \/ O!Stop \/ O!StopFirst \/ O!Remove \/ O!Unlink
  PROVE  OInv'
<1>1. /\ UNCHANGED <<v2, v3, v4, v5>>
      /\ \/ v1' = v1
         \/ v1' = [v1 EXCEPT !.files = v1.files \cup {"memory"}]
         \/ v1' = [v1 EXCEPT !.files = v1.files \ {"memory"}]
  BY DEF O!Begin, O!DockerFails, O!Up, O!Ready, O!Stop, O!StopFirst, O!Remove, O!Unlink, O!AddFile
<1>2. /\ v1' \in OHome /\ v1'.marked = v1.marked
      /\ \A f \in O!Files \ {"memory"} : f \in v1'.files <=> f \in v1.files
  BY <1>1 DEF OInv, OTyped, OHome, O!Files
<1>3. OTyped'
  BY <1>1, <1>2 DEF OInv, OTyped
<1>4. OOrdered'
  BY <1>1, <1>2 DEF OInv, OOrdered, O!Files
<1>5. QED
  BY <1>3, <1>4 DEF OInv

LEMMA OInvStep == OInv /\ [O!Next]_(O!obvars) => OInv'
<1> SUFFICES ASSUME OInv, [O!Next]_(O!obvars) PROVE OInv'
  OBVIOUS
<1>1. CASE UNCHANGED O!obvars
  BY <1>1 DEF O!obvars, OInv, OTyped, OOrdered
<1>2. QED
  BY <1>1, OAskStep, OCopyStep, OAnswerStep, OWriteStep, OYamlStep, OToggleStep, OMarkStep,
     ODockerStep DEF O!Next

LEMMA OInvUsable == OInv => O!SetUpIsUsable
BY DEF OInv, OOrdered, OServed, O!SetUpIsUsable

-----------------------------------------------------------------------------
(* The API: v1 is disk, v2 hub, v3 channels, v4 request, v5 line, v7        *)
(* overtaken and v8 counts.                                                 *)

HSteps    == {"new", "get", "make", "resume", "upsert", "open", "done"}
HDisk     == [yaml : BOOLEAN, session : Nat]
HLead     == [channel : Nat, session : Nat]
HChannel  == [session : Nat, status : {"idle", "driving", "awaiting_user"}, queue : Int]
HRequest  == [at : HSteps, session : Nat]
HCounts   == [sessions : Nat, messages : Nat, starts : Nat]

HTyped ==
  /\ v1 \in HDisk /\ v2 \in HLead /\ v3 \in Seq(HChannel)
  /\ v4 \in [HubRequests -> HRequest] /\ v5 \in Seq(HubRequests) /\ v8 \in HCounts

\* The requests that have written their row and not gone on are in the line,
\* once each, and the row is of the last of them.
HLined ==
  /\ \A r \in HubRequests : v4[r].at = "open" => \E i \in 1..Len(v5) : v5[i] = r
  /\ \A i \in 1..Len(v5) : v4[v5[i]].at = "open"
  /\ \A i, j \in 1..Len(v5) : v5[i] = v5[j] => i = j
  /\ v5 # <<>> => v4[v5[Len(v5)]].session = v1.session

\* With the line empty the lead has the session of the row, as a request that
\* resumes one does, unless it was overtaken; its channel has its session.
HShown ==
  /\ ~v7 /\ v5 = <<>> /\ v2.channel # 0 => v1.session = v2.session
  /\ ~v7 => \A r \in HubRequests : v4[r].at = "resume" => v4[r].session = v1.session
  /\ v2.channel # 0 => v2.channel \in 1..Len(v3) /\ v3[v2.channel].session = v2.session

HInv == HTyped /\ HLined /\ HShown

LEMMA HInit == H!Init => HInv
<1> SUFFICES ASSUME H!Init PROVE HInv
  OBVIOUS
<1>1. /\ v2 = [channel |-> 0, session |-> 0] /\ v3 = <<>> /\ v5 = <<>>
      /\ v4 = [r \in HubRequests |-> [at |-> "new", session |-> 0]]
      /\ v8 = [sessions |-> 0, messages |-> 0, starts |-> 0]
  BY DEF H!Init, H!NoLead, H!None, H!Arrived
<1>2. v1 \in HDisk
  BY DEF H!Init, H!None, HDisk
<1>3. v2 \in HLead /\ v8 \in HCounts
  BY <1>1 DEF HLead, HCounts
<1>4. v4 \in [HubRequests -> HRequest]
  BY <1>1 DEF HRequest, HSteps
<1>5. v3 \in Seq(HChannel) /\ v5 \in Seq(HubRequests)
  BY <1>1
<1>6. HTyped
  BY <1>2, <1>3, <1>4, <1>5 DEF HTyped
<1>7. Len(v5) = 0 /\ v2.channel = 0 /\ \A r \in HubRequests : v4[r].at = "new"
  BY <1>1
<1>8. HLined
  BY <1>1, <1>7 DEF HLined
<1>9. HShown
  BY <1>7 DEF HShown
<1>10. QED
  BY <1>6, <1>8, <1>9 DEF HInv

\* What the invariant says of the parts of the state.
LEMMA HParts ==
  ASSUME HInv
  PROVE  /\ v1.session \in Nat /\ v1.yaml \in BOOLEAN /\ v2.channel \in Nat /\ v2.session \in Nat
         /\ v8.sessions \in Nat /\ v8.messages \in Nat /\ v8.starts \in Nat
         /\ \A r \in HubRequests : v4[r] \in HRequest /\ v4[r].session \in Nat /\ v4[r].at \in HSteps
BY DEF HInv, HTyped, HDisk, HLead, HCounts, HRequest

LEMMA HNewChannel ==
  ASSUME NEW s \in Nat
  PROVE  H!NewChannel(s) \in HChannel /\ H!NewChannel(s).session = s
BY DEF H!NewChannel, HChannel

\* A channel that is opened is the last one.
LEMMA HChannels ==
  ASSUME NEW cs \in Seq(HChannel), NEW s \in Nat
  PROVE  /\ H!NewChannel(s) \in HChannel /\ H!NewChannel(s).session = s
         /\ Append(cs, H!NewChannel(s)) \in Seq(HChannel)
         /\ Len(Append(cs, H!NewChannel(s))) = Len(cs) + 1 /\ Len(cs) \in Nat
         /\ Append(cs, H!NewChannel(s))[Len(cs) + 1] = H!NewChannel(s)
BY HNewChannel

LEMMA HOpens ==
  ASSUME HInv, NEW s \in Nat, H!OpenChannel(s)
  PROVE  /\ v3' \in Seq(HChannel) /\ v2' \in HLead /\ v2'.session = s
         /\ v2'.channel \in 1..Len(v3') /\ v3'[v2'.channel].session = s
<1>1. v3 \in Seq(HChannel)
  BY DEF HInv, HTyped
<1>2. v3' = Append(v3, H!NewChannel(s)) /\ v2' = [channel |-> Len(v3) + 1, session |-> s]
  BY DEF H!OpenChannel
<1>3. QED
  BY <1>1, <1>2, HChannels DEF HLead

LEMMA HStartStep ==
  ASSUME HInv, H!Start
  PROVE  HInv'
<1>1. PICK new \in Nat : new = v8.sessions + 1
  BY HParts
<1>2. PICK s \in Nat : s = IF v1.session # 0 THEN v1.session ELSE new
  BY HParts
<1>3. /\ v5' = <<>>
      /\ v4' = [r \in HubRequests |-> IF v4[r].at = "new" THEN [at |-> "new", session |-> 0]
                                      ELSE [at |-> "done", session |-> 0]]
  BY DEF H!Start, H!Arrived, H!None
<1>4. v4' \in [HubRequests -> HRequest] /\ \A r \in HubRequests : v4'[r].at \in {"new", "done"}
  <2>1. ASSUME NEW r \in HubRequests
        PROVE  v4'[r] \in HRequest /\ v4'[r].at \in {"new", "done"}
    BY <1>3 DEF HRequest, HSteps
  <2>2. QED
    BY <1>3, <2>1
<1>5. /\ v1' \in HDisk /\ v2' \in HLead /\ v3' \in Seq(HChannel) /\ v8' \in HCounts
      /\ v2'.channel # 0 => v2'.channel \in 1..Len(v3') /\ v3'[v2'.channel].session = v2'.session
                            /\ v1'.session = v2'.session
  <2>1. v1 \in HDisk /\ v8 \in HCounts /\ v8.starts + 1 \in Nat
    BY HParts DEF HInv, HTyped
  <2>2. CASE v1.yaml
    <3>1. PICK n \in Nat : n = IF s = new THEN new ELSE v8.sessions
      BY HParts
    <3>2. /\ v1' = [v1 EXCEPT !.session = s] /\ v3' = <<H!NewChannel(s)>>
          /\ v2' = [channel |-> 1, session |-> s]
          /\ v8' = [v8 EXCEPT !.starts = v8.starts + 1, !.sessions = n]
      BY <1>1, <1>2, <2>1, <2>2, <3>1 DEF H!Start, H!None, HCounts
    <3>3. v1' \in HDisk /\ v1'.session = s
      BY <2>1, <3>2 DEF HDisk
    <3>4. v2' \in HLead /\ v2'.channel = 1 /\ v2'.session = s
      BY <3>2 DEF HLead
    <3>5. v8' \in HCounts
      BY <2>1, <3>2 DEF HCounts
    <3>6. v3' \in Seq(HChannel) /\ Len(v3') = 1 /\ v3'[1].session = s
      <4>1. PICK c \in HChannel : c = H!NewChannel(s) /\ c.session = s
        BY HNewChannel
      <4>2. v3' = <<c>>
        BY <3>2, <4>1
      <4>3. QED
        BY <4>1, <4>2
    <3>7. QED
      BY <3>3, <3>4, <3>5, <3>6
  <2>3. CASE ~v1.yaml
    <3>1. /\ v1' = v1 /\ v3' = <<>> /\ v2' = [channel |-> 0, session |-> 0]
          /\ v8' = [v8 EXCEPT !.starts = v8.starts + 1]
      BY <2>3 DEF H!Start, H!NoLead, H!None
    <3>2. v8' \in HCounts
      BY <2>1, <3>1 DEF HCounts
    <3>3. QED
      BY <2>1, <3>1, <3>2 DEF HLead
  <2>4. QED
    BY <2>2, <2>3
<1>6. HTyped'
  BY <1>3, <1>4, <1>5 DEF HTyped
<1>7. HLined'
  BY <1>3, <1>4 DEF HLined
<1>8. HShown'
  BY <1>4, <1>5 DEF HShown
<1>9. QED
  BY <1>6, <1>7, <1>8 DEF HInv

\* A request goes on, not into the line nor out of it.
LEMMA HMoves ==
  ASSUME HInv, NEW r \in HubRequests, NEW q \in HRequest, v4' = [v4 EXCEPT ![r] = q],
         v4[r].at # "open", q.at # "open", UNCHANGED v5
  PROVE  /\ v4' \in [HubRequests -> HRequest] /\ v4'[r] = q
         /\ \A x \in HubRequests \ {r} : v4'[x] = v4[x]
         /\ v1'.session = v1.session => HLined'
<1>1. /\ v4' \in [HubRequests -> HRequest] /\ v4'[r] = q
      /\ \A x \in HubRequests \ {r} : v4'[x] = v4[x]
  BY DEF HInv, HTyped
<1>2. v5 \in Seq(HubRequests)
  BY DEF HInv, HTyped
<1>3. \A i \in 1..Len(v5) : v5[i] \in HubRequests \ {r}
  BY <1>2 DEF HInv, HLined
<1>4. ASSUME v1'.session = v1.session PROVE HLined'
  <2>1. \A x \in HubRequests : v4'[x].at = "open" => \E i \in 1..Len(v5') : v5'[i] = x
    BY <1>1 DEF HInv, HLined
  <2>2. \A i \in 1..Len(v5') : v4'[v5'[i]].at = "open"
    BY <1>1, <1>3 DEF HInv, HLined
  <2>3. \A i, j \in 1..Len(v5') : v5'[i] = v5'[j] => i = j
    BY DEF HInv, HLined
  <2>4. v5' # <<>> => v4'[v5'[Len(v5')]].session = v1'.session
    <3>1. v5 # <<>> => Len(v5) \in 1..Len(v5)
      BY <1>2
    <3>2. QED
      BY <1>1, <1>3, <1>4, <3>1 DEF HInv, HLined
  <2>5. QED
    BY <2>1, <2>2, <2>3, <2>4 DEF HLined
<1>5. QED
  BY <1>1, <1>4

LEMMA HCreateStep ==
  ASSUME HInv, NEW r \in HubRequests, H!Create(r) \/ H!Get(r) \/ H!Make(r) \/ H!Fails(r)
  PROVE  HInv'
<1>1. PICK q : q = v4'[r]
  OBVIOUS
<1>2. PICK old \in HRequest : old = v4[r]
  BY HParts
<1>3. PICK at \in HSteps, s \in Nat :
        /\ v4' = [v4 EXCEPT ![r] = [old EXCEPT !.at = at, !.session = s]]
        /\ at \in {"done", "get", "make", "resume", "upsert"} /\ v4[r].at \in {"new", "get", "make"}
        /\ at = "resume" => s = v1.session
  <2>1. v4 \in [HubRequests -> HRequest] /\ old.session \in Nat
    BY <1>2, HParts DEF HInv, HTyped
  <2>2. CASE H!Create(r) \/ H!Fails(r)
    <3>1. PICK at \in {"done", "get"} : v4' = [v4 EXCEPT ![r].at = at]
      BY <2>2 DEF H!Create, H!Fails
    <3>2. [old EXCEPT !.at = at] = [old EXCEPT !.at = at, !.session = old.session]
      BY DEF HRequest
    <3>3. v4' = [v4 EXCEPT ![r] = [old EXCEPT !.at = at, !.session = old.session]]
      BY <1>2, <2>1, <3>1, <3>2
    <3>4. at \in HSteps /\ v4[r].at \in {"new", "get", "make"}
      BY <2>2 DEF H!Create, H!Fails, HSteps
    <3>5. QED
      BY <2>1, <3>3, <3>4, Zenon
  <2>3. CASE H!Get(r)
    <3>1. PICK at \in {"make", "resume"} :
            v4' = [v4 EXCEPT ![r].at = at, ![r].session = v1.session]
      BY <2>3 DEF H!Get
    <3>2. v4' = [v4 EXCEPT ![r] = [old EXCEPT !.at = at, !.session = v1.session]]
      BY <1>2, <2>1, <3>1
    <3>3. at \in HSteps /\ v4[r].at = "get" /\ v1.session \in Nat
      BY <2>3, HParts DEF H!Get, HSteps
    <3>4. QED
      BY <3>2, <3>3, Zenon
  <2>4. CASE H!Make(r)
    <3>1. v4' = [v4 EXCEPT ![r].at = "upsert", ![r].session = v8.sessions + 1]
      BY <2>4 DEF H!Make
    <3>2. v4' = [v4 EXCEPT ![r] = [old EXCEPT !.at = "upsert", !.session = v8.sessions + 1]]
      BY <1>2, <2>1, <3>1
    <3>3. "upsert" \in HSteps /\ v4[r].at = "make" /\ v8.sessions + 1 \in Nat
      BY <2>4, HParts DEF H!Make, HSteps
    <3>4. QED
      BY <3>2, <3>3, Zenon
  <2>5. QED
    BY <2>2, <2>3, <2>4, Zenon
<1>4. PICK n : n = [old EXCEPT !.at = at, !.session = s]
  OBVIOUS
<1>5. n \in HRequest /\ n.at = at /\ n.session = s /\ v4' = [v4 EXCEPT ![r] = n]
  BY <1>3, <1>4 DEF HRequest
<1>6. UNCHANGED <<v2, v3, v5, v7>>
  BY DEF H!Create, H!Get, H!Make, H!Fails
<1>7. v1' \in HDisk /\ v1'.session = v1.session
  BY DEF H!Create, H!Get, H!Make, H!Fails, H!Scaffold, HInv, HTyped, HDisk
<1>8. v8' \in HCounts
  <2>1. v8 \in HCounts /\ v8.sessions + 1 \in Nat
    BY HParts DEF HInv, HTyped
  <2>2. QED
    BY <2>1 DEF H!Create, H!Get, H!Make, H!Fails, HCounts
<1>9. /\ v4' \in [HubRequests -> HRequest] /\ v4'[r] = n
      /\ \A x \in HubRequests \ {r} : v4'[x] = v4[x]
      /\ HLined'
  BY <1>3, <1>5, <1>6, <1>7, HMoves
<1>10. HTyped'
  BY <1>6, <1>7, <1>8, <1>9 DEF HInv, HTyped
<1>11. HShown'
  BY <1>3, <1>5, <1>6, <1>7, <1>9 DEF HInv, HShown
<1>12. QED
  BY <1>9, <1>10, <1>11 DEF HInv

LEMMA HUpsertStep ==
  ASSUME HInv, NEW r \in HubRequests, H!Upsert(r)
  PROVE  HInv'
<1>1. /\ v4[r].at = "upsert" /\ v5' = Append(v5, r)
      /\ v1' = [v1 EXCEPT !.session = v4[r].session]
      /\ v4' = [v4 EXCEPT ![r].at = "open"] /\ UNCHANGED <<v2, v3, v8>>
      /\ ~v7' => ~v7 /\ \A x \in HubRequests : v4[x].at # "resume"
  BY DEF H!Upsert
<1>2. PICK old \in HRequest : old = v4[r]
  BY HParts
<1>3. PICK n : n = [old EXCEPT !.at = "open"]
  OBVIOUS
<1>4. n \in HRequest /\ n.at = "open" /\ n.session = v4[r].session
  BY <1>2, <1>3 DEF HRequest, HSteps
<1>5. /\ v4' \in [HubRequests -> HRequest] /\ v4'[r] = n
      /\ \A x \in HubRequests \ {r} : v4'[x] = v4[x]
  <2>1. v4' = [v4 EXCEPT ![r] = n]
    BY <1>1, <1>2, <1>3
  <2>2. QED
    BY <1>4, <2>1 DEF HInv, HTyped
<1>6. v1' \in HDisk /\ v1'.session = n.session
  BY <1>1, <1>4, HParts DEF HInv, HTyped, HDisk
<1>7. /\ v5 \in Seq(HubRequests) /\ v5' \in Seq(HubRequests) /\ Len(v5) \in Nat
      /\ Len(v5') = Len(v5) + 1 /\ v5'[Len(v5) + 1] = r
      /\ \A i \in 1..Len(v5) : v5'[i] = v5[i] /\ v5[i] \in HubRequests /\ i \in 1..Len(v5')
  BY <1>1 DEF HInv, HTyped
<1>8. \A i \in 1..Len(v5) : v5[i] # r
  BY <1>1 DEF HInv, HLined
<1>9. \A i \in 1..Len(v5') : i \in 1..Len(v5) \/ i = Len(v5) + 1
  BY <1>7
<1>10. Len(v5) + 1 \in 1..Len(v5') /\ v5' # <<>>
  BY <1>7
<1>11. HLined'
  <2>1. \A x \in HubRequests : v4'[x].at = "open" => \E i \in 1..Len(v5') : v5'[i] = x
    BY <1>5, <1>7, <1>10, SMTT(30) DEF HInv, HLined
  <2>2. \A i \in 1..Len(v5') : v4'[v5'[i]].at = "open"
    BY <1>4, <1>5, <1>7, <1>8, <1>9 DEF HInv, HLined
  <2>3. \A i, j \in 1..Len(v5') : v5'[i] = v5'[j] => i = j
    BY <1>7, <1>8, <1>9 DEF HInv, HLined
  <2>4. v4'[v5'[Len(v5')]].session = v1'.session
    BY <1>5, <1>6, <1>7
  <2>5. QED
    BY <2>1, <2>2, <2>3, <2>4 DEF HLined
<1>12. HTyped'
  BY <1>1, <1>5, <1>6, <1>7 DEF HInv, HTyped
<1>13. HShown'
  <2>1. ~v7' => \A x \in HubRequests : v4'[x].at # "resume"
    BY <1>1, <1>4, <1>5
  <2>2. v2'.channel # 0 => v2'.channel \in 1..Len(v3') /\ v3'[v2'.channel].session = v2'.session
    BY <1>1 DEF HInv, HShown
  <2>3. QED
    BY <1>10, <2>1, <2>2 DEF HShown
<1>14. QED
  BY <1>11, <1>12, <1>13 DEF HInv

LEMMA HOpenStep ==
  ASSUME HInv, NEW r \in HubRequests, H!Open(r)
  PROVE  HInv'
<1>1. /\ v4[r].at = "open" /\ v5 # <<>> /\ Head(v5) = r /\ H!OpenChannel(v4[r].session)
      /\ v5' = Tail(v5) /\ v4' = [v4 EXCEPT ![r].at = "done"] /\ UNCHANGED <<v1, v7, v8>>
  BY DEF H!Open
<1>2. PICK old \in HRequest : old = v4[r]
  BY HParts
<1>3. PICK n : n = [old EXCEPT !.at = "done"]
  OBVIOUS
<1>4. n \in HRequest /\ n.at = "done" /\ old.session \in Nat
  BY <1>2, <1>3 DEF HRequest, HSteps
<1>5. /\ v4' \in [HubRequests -> HRequest] /\ v4'[r] = n
      /\ \A x \in HubRequests \ {r} : v4'[x] = v4[x]
  <2>1. v4' = [v4 EXCEPT ![r] = n]
    BY <1>1, <1>2, <1>3
  <2>2. QED
    BY <1>4, <2>1 DEF HInv, HTyped
<1>6. /\ v3' \in Seq(HChannel) /\ v2' \in HLead /\ v2'.session = old.session
      /\ v2'.channel \in 1..Len(v3') /\ v3'[v2'.channel].session = v2'.session
  BY <1>1, <1>2, <1>4, HOpens
<1>7. /\ v5 \in Seq(HubRequests) /\ v5' \in Seq(HubRequests) /\ Len(v5) \in Nat \ {0}
      /\ Len(v5') = Len(v5) - 1 /\ v5[1] = r
      /\ \A i \in 1..Len(v5') : v5'[i] = v5[i + 1] /\ i + 1 \in 1..Len(v5) /\ v5[i + 1] \in HubRequests
  BY <1>1 DEF HInv, HTyped
<1>8. \A i \in 1..Len(v5') : v5[i + 1] # r
  <2>1. 1 \in 1..Len(v5) /\ \A i \in 1..Len(v5') : i + 1 # 1
    BY <1>7
  <2>2. QED
    BY <1>7, <2>1 DEF HInv, HLined
<1>9. \A j \in 1..Len(v5) : j = 1 \/ (j - 1 \in 1..Len(v5') /\ v5'[j - 1] = v5[j])
  BY <1>7
<1>10. HLined'
  <2>1. ASSUME NEW x \in HubRequests, v4'[x].at = "open"
        PROVE  \E i \in 1..Len(v5') : v5'[i] = x
    <3>1. x # r /\ v4[x].at = "open"
      BY <1>4, <1>5, <2>1
    <3>2. PICK j \in 1..Len(v5) : v5[j] = x
      BY <3>1 DEF HInv, HLined
    <3>3. QED
      BY <1>7, <1>9, <3>1, <3>2
  <2>2. \A i \in 1..Len(v5') : v4'[v5'[i]].at = "open"
    BY <1>5, <1>7, <1>8 DEF HInv, HLined
  <2>3. ASSUME NEW i \in 1..Len(v5'), NEW j \in 1..Len(v5'), v5'[i] = v5'[j]
        PROVE  i = j
    <3>1. i + 1 = j + 1
      BY <1>7, <2>3 DEF HInv, HLined
    <3>2. QED
      BY <3>1
  <2>4. ASSUME v5' # <<>> PROVE v4'[v5'[Len(v5')]].session = v1'.session
    <3>1. Len(v5') \in 1..Len(v5') /\ Len(v5') + 1 = Len(v5)
      BY <1>7, <2>4
    <3>2. v5'[Len(v5')] = v5[Len(v5)] /\ v5[Len(v5)] \in HubRequests \ {r}
      BY <1>7, <1>8, <3>1
    <3>3. QED
      BY <1>1, <1>5, <3>2 DEF HInv, HLined
  <2>5. QED
    BY <2>1, <2>2, <2>3, <2>4 DEF HLined
<1>11. HTyped'
  BY <1>1, <1>5, <1>6, <1>7 DEF HInv, HTyped
<1>12. HShown'
  <2>1. v5' = <<>> => v1'.session = v2'.session
    <3>1. v5' = <<>> => Len(v5) = 1
      BY <1>7
    <3>2. v5' = <<>> => v4[r].session = v1.session
      BY <1>1, <1>7, <3>1 DEF HInv, HLined
    <3>3. QED
      BY <1>1, <1>2, <1>6, <3>2
  <2>2. ~v7' => \A x \in HubRequests : v4'[x].at = "resume" => v4'[x].session = v1'.session
    BY <1>1, <1>4, <1>5 DEF HInv, HShown
  <2>3. QED
    BY <1>6, <2>1, <2>2 DEF HShown
<1>13. QED
  BY <1>10, <1>11, <1>12 DEF HInv

LEMMA HResumeStep ==
  ASSUME HInv, NEW r \in HubRequests, H!Resume(r)
  PROVE  HInv'
<1>1. /\ v4[r].at = "resume" /\ H!OpenChannel(v4[r].session)
      /\ v4' = [v4 EXCEPT ![r].at = "done"] /\ UNCHANGED <<v1, v5, v7, v8>>
  BY DEF H!Resume
<1>2. PICK old \in HRequest : old = v4[r]
  BY HParts
<1>3. PICK n : n = [old EXCEPT !.at = "done"]
  OBVIOUS
<1>4. n \in HRequest /\ n.at = "done" /\ old.session \in Nat
  BY <1>2, <1>3 DEF HRequest, HSteps
<1>5. v4' = [v4 EXCEPT ![r] = n]
  BY <1>1, <1>2, <1>3
<1>6. /\ v4' \in [HubRequests -> HRequest] /\ v4'[r] = n
      /\ \A x \in HubRequests \ {r} : v4'[x] = v4[x]
      /\ HLined'
  BY <1>1, <1>4, <1>5, HMoves
<1>7. /\ v3' \in Seq(HChannel) /\ v2' \in HLead /\ v2'.session = old.session
      /\ v2'.channel \in 1..Len(v3') /\ v3'[v2'.channel].session = v2'.session
  BY <1>1, <1>2, <1>4, HOpens
<1>8. HTyped'
  BY <1>1, <1>6, <1>7 DEF HInv, HTyped
<1>9. HShown'
  <2>1. ~v7' => v1'.session = v2'.session
    BY <1>1, <1>2, <1>7 DEF HInv, HShown
  <2>2. ~v7' => \A x \in HubRequests : v4'[x].at = "resume" => v4'[x].session = v1'.session
    BY <1>1, <1>4, <1>6 DEF HInv, HShown
  <2>3. QED
    BY <1>7, <2>1, <2>2 DEF HShown
<1>10. QED
  BY <1>6, <1>8, <1>9 DEF HInv

\* Nothing but what a channel does, and who listens to it, changes.
LEMMA HServes ==
  ASSUME HInv, UNCHANGED <<v1, v2, v4, v5, v7>>, v8' \in HCounts,
         \/ UNCHANGED v3
         \/ \E ch \in 1..Len(v3), c \in HChannel : v3' = [v3 EXCEPT ![ch] = c] /\ c.session = v3[ch].session
  PROVE  HInv'
<1>1. v3 \in Seq(HChannel)
  BY DEF HInv, HTyped
<1>2. /\ v3' \in Seq(HChannel) /\ Len(v3') = Len(v3)
      /\ \A ch \in 1..Len(v3) : v3'[ch].session = v3[ch].session
  BY <1>1
<1>3. HTyped'
  BY <1>2 DEF HInv, HTyped
<1>4. HLined'
  BY DEF HInv, HLined
<1>5. HShown'
  BY <1>2 DEF HInv, HShown
<1>6. QED
  BY <1>3, <1>4, <1>5 DEF HInv

LEMMA HServeStep ==
  ASSUME HInv,
         \/ H!Send
         \/ \E ch \in 1..Len(v3) :
              \/ H!DriverTakes(ch)
              \/ \E status \in {"idle", "awaiting_user"} : H!RunEnds(ch, status)
         \/ \E b \in HubBrowsers : H!Connect(b) \/ H!Pump(b) \/ H!Disconnect(b)
  PROVE  HInv'
<1>1. v3 \in Seq(HChannel) /\ v8 \in HCounts
  BY DEF HInv, HTyped
<1>2. CASE H!Send
  <2>1. PICK ch \in 1..Len(v3) : ch = v2.channel
    BY <1>2 DEF H!Send, H!None, HInv, HShown
  <2>2. PICK c \in HChannel : c = v3[ch]
    BY <1>1
  <2>3. v3' = [v3 EXCEPT ![ch] = [c EXCEPT !.queue = c.queue + 1]]
    BY <1>2, <2>1, <2>2 DEF H!Send
  <2>4. [c EXCEPT !.queue = c.queue + 1] \in HChannel /\ [c EXCEPT !.queue = c.queue + 1].session = c.session
    <3>1. c.queue + 1 \in Int
      BY DEF HChannel
    <3>2. QED
      BY <3>1 DEF HChannel
  <2>5. v8' \in HCounts
    <3>1. v8.messages + 1 \in Nat
      BY HParts
    <3>2. QED
      BY <1>1, <1>2, <3>1 DEF H!Send, HCounts
  <2>6. QED
    BY <1>2, <2>2, <2>3, <2>4, <2>5, HServes DEF H!Send
<1>3. CASE \E ch \in 1..Len(v3) : H!DriverTakes(ch)
  <2>1. PICK ch \in 1..Len(v3) : H!DriverTakes(ch)
    BY <1>3
  <2>2. PICK c \in HChannel : c = v3[ch]
    BY <1>1
  <2>3. v3' = [v3 EXCEPT ![ch] = [c EXCEPT !.status = "driving", !.queue = c.queue - 1]]
    BY <1>1, <2>1, <2>2 DEF H!DriverTakes
  <2>4. /\ [c EXCEPT !.status = "driving", !.queue = c.queue - 1] \in HChannel
        /\ [c EXCEPT !.status = "driving", !.queue = c.queue - 1].session = c.session
    <3>1. c.queue - 1 \in Int
      BY DEF HChannel
    <3>2. QED
      BY <3>1 DEF HChannel
  <2>5. QED
    BY <1>1, <2>1, <2>2, <2>3, <2>4, HServes DEF H!DriverTakes
<1>4. CASE \E ch \in 1..Len(v3), status \in {"idle", "awaiting_user"} : H!RunEnds(ch, status)
  <2>1. PICK ch \in 1..Len(v3), status \in {"idle", "awaiting_user"} : H!RunEnds(ch, status)
    BY <1>4
  <2>2. PICK c \in HChannel : c = v3[ch]
    BY <1>1
  <2>3. v3' = [v3 EXCEPT ![ch] = [c EXCEPT !.status = status]]
    BY <2>1, <2>2 DEF H!RunEnds, H!SetStatus
  <2>4. [c EXCEPT !.status = status] \in HChannel /\ [c EXCEPT !.status = status].session = c.session
    BY DEF HChannel
  <2>5. QED
    BY <1>1, <2>1, <2>2, <2>3, <2>4, HServes DEF H!RunEnds
<1>5. CASE \E b \in HubBrowsers : H!Connect(b) \/ H!Pump(b) \/ H!Disconnect(b)
  BY <1>1, <1>5, HServes DEF H!Connect, H!Pump, H!Disconnect
<1>6. QED
  BY <1>2, <1>3, <1>4, <1>5

LEMMA HInvStep == HInv /\ [H!Next]_(H!ahvars) => HInv'
<1> SUFFICES ASSUME HInv, [H!Next]_(H!ahvars) PROVE HInv'
  OBVIOUS
<1>1. CASE UNCHANGED H!ahvars
  BY <1>1 DEF H!ahvars, HInv, HTyped, HLined, HShown
<1>2. QED
  BY <1>1, HStartStep, HCreateStep, HUpsertStep, HOpenStep, HResumeStep, HServeStep DEF H!Next

LEMMA HInvResumes == HInv => H!RestartResumesShown
<1> SUFFICES ASSUME HInv, ~v7, v2.channel # 0, \A r \in HubRequests : v4[r].at # "open"
             PROVE  v1.session = v2.session /\ v3[v2.channel].session = v2.session
  BY DEF H!RestartResumesShown, H!None
<1>1. v5 = <<>>
  <2>1. v5 \in Seq(HubRequests)
    BY DEF HInv, HTyped
  <2>2. CASE v5 # <<>>
    <3>1. 1 \in 1..Len(v5) /\ v5[1] \in HubRequests
      BY <2>1, <2>2
    <3>2. QED
      BY <3>1 DEF HInv, HLined
  <2>3. QED
    BY <2>2
<1>2. QED
  BY <1>1 DEF HInv, HShown

-----------------------------------------------------------------------------
(* The configuration: v1 is inWorker, v2 files, v3 proc, v5 applies and v6  *)
(* writes.                                                                  *)

CApply == [paths : SUBSET C!Fields, after : Nat,
           at : {"asked", "worker", "late", "done"}, applied : BOOLEAN, modal : BOOLEAN]

\* A process's configuration: the record, whatever the files' values are.
CProcess(x) == x \in [config : {x.config}, seen : Nat, agent : {x.agent}]

CTyped ==
  /\ v1 \in BOOLEAN /\ v5 \in Seq(CApply) /\ v6 \in Nat
  /\ v3 = [p \in C!Procs |-> v3[p]]
  /\ \A p \in C!Procs : CProcess(v3[p]) /\ v3[p].seen <= v6

\* An apply the worker is asked for has been read here, one that is reported
\* everywhere.
CRead ==
  \A a \in 1..Len(v5) :
    /\ v5[a].after <= v6
    /\ v5[a].at \in {"worker", "late"} => v1 /\ v3["tui"].seen >= v5[a].after
    /\ v5[a].applied => /\ v3["tui"].seen >= v5[a].after
                        /\ v1 => v3["worker"].seen >= v5[a].after

CUsed ==
  \A a \in 1..Len(v5) :
    v5[a].applied /\ v5[a].after = v6 /\ "model" \in v5[a].paths
    => v3[C!Lead].agent["model"] = C!AppConfig(v2)["model"]

CInv == CTyped /\ CRead /\ CUsed

LEMMA CProcs == C!Procs = {"tui", "worker"} /\ C!Lead \in C!Procs
BY DEF C!Procs, C!Lead

LEMMA CInit == C!Init => CInv
<1> SUFFICES ASSUME C!Init PROVE CInv
  OBVIOUS
<1>1. /\ v1 \in BOOLEAN /\ v6 = 0 /\ v5 = <<>>
      /\ v3 = [x \in C!Procs |->
                 [config |-> [f \in {"model", "limit"} |-> "p"], seen |-> 0,
                  agent |-> [model |-> "p", agent |-> "p"]]]
  BY DEF C!Init
<1>2. CTyped
  BY <1>1 DEF CTyped, CProcess
<1>3. QED
  BY <1>1, <1>2 DEF CInv, CRead, CUsed

\* What is loaded is what the files say, and what was written last.
LEMMA CLoads ==
  ASSUME NEW x, CProcess(x), v6 \in Nat, NEW y, y \in {C!Load(x), C!Rebuilt(C!Load(x))}
  PROVE  /\ CProcess(y) /\ y.seen = v6
         /\ y = C!Load(x) => y.agent = x.agent
         /\ y = C!Rebuilt(C!Load(x)) => y.agent["model"] = C!AppConfig(v2)["model"]
<1>1. PICK k : k = C!AppConfig(v2)
  OBVIOUS
<1>2. PICK g : g = x.agent
  OBVIOUS
<1>3. PICK l : l = [x EXCEPT !.config = k, !.seen = v6]
  OBVIOUS
<1>4. /\ C!Load(x) = l /\ CProcess(l) /\ l.config = k /\ l.seen = v6 /\ l.agent = g
  <2>1. x \in [config : {x.config}, seen : Nat, agent : {g}]
    BY <1>2 DEF CProcess
  <2>2. l \in [config : {k}, seen : Nat, agent : {g}] /\ l.seen = v6
    BY <1>3, <2>1
  <2>3. QED
    BY <1>1, <1>3, <2>2 DEF CProcess, C!Load
<1>5. PICK a : a = [model |-> k["model"], agent |-> C!AgentBuilt(v2)]
  OBVIOUS
<1>6. PICK r : r = [l EXCEPT !.agent = a]
  OBVIOUS
<1>7. C!Rebuilt(C!Load(x)) = r /\ CProcess(r) /\ r.seen = v6 /\ r.agent = a
  <2>1. l \in [config : {k}, seen : Nat, agent : {g}]
    BY <1>4 DEF CProcess
  <2>2. r \in [config : {k}, seen : Nat, agent : {a}] /\ r.seen = v6
    BY <1>4, <1>6, <2>1
  <2>3. QED
    BY <1>4, <1>5, <1>6, <2>2 DEF CProcess, C!Rebuilt
<1>8. a["model"] = C!AppConfig(v2)["model"]
  BY <1>1, <1>5
<1>9. QED
  BY <1>2, <1>4, <1>7, <1>8

\* A write: what was applied before it is not the last change any more.
LEMMA CWrites ==
  ASSUME CInv, UNCHANGED <<v1, v3>>, v6' = v6 + 1,
         \/ v5' = v5
         \/ \E paths \in SUBSET C!Fields, modal \in BOOLEAN :
              v5' = Append(v5, [paths |-> paths, after |-> v6 + 1, at |-> "asked",
                                applied |-> FALSE, modal |-> modal])
  PROVE  CInv'
<1>1. v5 \in Seq(CApply) /\ v6 \in Nat /\ v6' \in Nat /\ v6 < v6' /\ Len(v5) \in Nat
  BY DEF CInv, CTyped
<1>2. /\ v5' \in Seq(CApply)
      /\ \A a \in 1..Len(v5') : \/ a \in 1..Len(v5) /\ v5'[a] = v5[a]
                                \/ v5'[a].after = v6' /\ v5'[a].at = "asked" /\ ~v5'[a].applied
  <2>1. CASE v5' = v5
    BY <1>1, <2>1
  <2>2. CASE v5' # v5
    <3>1. PICK e : /\ v5' = Append(v5, e) /\ e \in CApply
                   /\ e.after = v6' /\ e.at = "asked" /\ ~e.applied
      <4>1. PICK paths \in SUBSET C!Fields, modal \in BOOLEAN :
              v5' = Append(v5, [paths |-> paths, after |-> v6 + 1, at |-> "asked",
                                applied |-> FALSE, modal |-> modal])
        BY <2>2
      <4>2. [paths |-> paths, after |-> v6 + 1, at |-> "asked", applied |-> FALSE,
             modal |-> modal] \in CApply
        BY <1>1 DEF CApply
      <4>3. QED
        BY <4>1, <4>2
    <3>2. \A a \in 1..Len(v5) + 1 : a \in 1..Len(v5) \/ a = Len(v5) + 1
      BY <1>1
    <3>3. QED
      BY <1>1, <3>1, <3>2
  <2>3. QED
    BY <2>1, <2>2
<1>3. \A p \in C!Procs : v3[p].seen \in Nat /\ v3[p].seen <= v6 /\ v3[p].seen <= v6'
  BY <1>1 DEF CInv, CTyped, CProcess
<1>4. CTyped'
  BY <1>1, <1>2, <1>3 DEF CInv, CTyped, CProcess
<1>5. ASSUME NEW a \in 1..Len(v5)
      PROVE  v5[a].after \in Nat /\ v5[a].after <= v6 /\ v5[a].after < v6'
  <2>0. v5[a] \in CApply
    BY <1>1
  <2>1. v5[a].after \in Nat
    BY <2>0 DEF CApply
  <2>2. v5[a].after <= v6
    BY DEF CInv, CRead
  <2>3. QED
    BY <1>1, <2>1, <2>2
<1>6. CRead'
  BY <1>1, <1>2, <1>5 DEF CInv, CRead
<1>7. CUsed'
  BY <1>1, <1>2, <1>5 DEF CUsed
<1>8. QED
  BY <1>4, <1>6, <1>7 DEF CInv

LEMMA CWriteStep ==
  ASSUME CInv,
         \/ \E f \in C!Fields, scope \in C!Scopes :
              \/ C!Reset(f, scope)
              \/ \E v \in C!Takes(f) : C!Set(f, v, scope)
         \/ \E f \in C!Fields : C!ScreenReset(f)
         \/ \E saved \in SUBSET C!Fields \ {{}} :
              \E choice \in [saved -> C!Values \cup {C!Inherit}] : C!Save(saved, choice)
  PROVE  CInv'
<1>1. CASE \E f \in C!Fields, scope \in C!Scopes :
             \/ C!Reset(f, scope)
             \/ \E v \in C!Takes(f) : C!Set(f, v, scope)
  BY <1>1, CWrites DEF C!Reset, C!Set, C!Ask
<1>2. CASE \E f \in C!Fields : C!ScreenReset(f)
  BY <1>2, CWrites DEF C!ScreenReset
<1>3. CASE \E saved \in SUBSET C!Fields \ {{}} :
             \E choice \in [saved -> C!Values \cup {C!Inherit}] : C!Save(saved, choice)
  <2>1. PICK saved \in SUBSET C!Fields : \E choice : C!Save(saved, choice)
    BY <1>3
  <2>2. UNCHANGED <<v1, v3>> /\ v6' = v6 + 1 /\ C!Ask(saved, TRUE)
    BY <2>1, Zenon DEF C!Save
  <2>3. QED
    BY <2>2, CWrites DEF C!Ask
<1>4. QED
  BY <1>1, <1>2, <1>3

\* What an apply is, beside what has become of it.
CSame(d, e) == d.after = e.after /\ d.paths = e.paths

\* Nothing is written: processes load, and an apply that gets on or is reported
\* has been loaded where it says.
LEMMA CMoves ==
  ASSUME CInv, UNCHANGED <<v1, v2, v6>>,
         v3' = [p \in C!Procs |-> v3'[p]], v5' \in Seq(CApply), Len(v5') = Len(v5),
         \A p \in C!Procs :
           /\ CProcess(v3'[p]) /\ (v3'[p].seen = v3[p].seen \/ v3'[p].seen = v6)
           /\ v3'[p].agent = v3[p].agent \/ v3'[p].agent["model"] = C!AppConfig(v2)["model"],
         \A a \in 1..Len(v5) :
           /\ CSame(v5'[a], v5[a])
           /\ v5'[a].at \in {"worker", "late"} =>
                v5[a].at \in {"worker", "late"} \/ (v1 /\ v3'["tui"].seen = v6)
           /\ v5'[a].applied =>
                \/ v5[a].applied
                \/ /\ v3'["tui"].seen = v6 \/ v5[a].at \in {"worker", "late"}
                   /\ v1 => v3'["worker"].seen = v6
                   /\ "model" \in v5[a].paths =>
                        v3'[C!Lead].agent["model"] = C!AppConfig(v2)["model"]
  PROVE  CInv'
<1>1. v5 \in Seq(CApply) /\ v6 \in Nat /\ "tui" \in C!Procs /\ "worker" \in C!Procs
  BY CProcs DEF CInv, CTyped
<1>2. ASSUME NEW p \in C!Procs
      PROVE  v3[p].seen \in Nat /\ v3[p].seen <= v6 /\ v3'[p].seen \in Nat
             /\ v3'[p].seen <= v6 /\ v3[p].seen <= v3'[p].seen
  <2>1. v3[p].seen \in Nat /\ v3[p].seen <= v6
    BY DEF CInv, CTyped, CProcess
  <2>2. v3'[p].seen = v3[p].seen \/ v3'[p].seen = v6
    OBVIOUS
  <2>3. QED
    BY <1>1, <2>1, <2>2
<1>3. CTyped'
  BY <1>1, <1>2 DEF CInv, CTyped
<1>4. \A a \in 1..Len(v5) : v5[a].after \in Nat /\ v5[a].after <= v6
  <2>0. \A a \in 1..Len(v5) : v5[a] \in CApply
    BY <1>1
  <2>1. \A a \in 1..Len(v5) : v5[a].after \in Nat
    BY <2>0 DEF CApply
  <2>2. QED
    BY <2>1 DEF CInv, CRead
<1>5. CRead'
  <2>1. ASSUME NEW a \in 1..Len(v5), v5'[a].at \in {"worker", "late"}
        PROVE  v1 /\ v3'["tui"].seen >= v5[a].after
    <3>1. CASE v5[a].at \in {"worker", "late"}
      <4>1. v1 /\ v3["tui"].seen >= v5[a].after
        BY <3>1 DEF CInv, CRead
      <4>2. QED
        BY <1>1, <1>2, <1>4, <4>1
    <3>2. CASE v1 /\ v3'["tui"].seen = v6
      BY <1>1, <1>4, <3>2
    <3>3. QED
      BY <2>1, <3>1, <3>2
  <2>2. ASSUME NEW a \in 1..Len(v5), v5'[a].applied
        PROVE  v3'["tui"].seen >= v5[a].after /\ (v1 => v3'["worker"].seen >= v5[a].after)
    <3>1. CASE v5[a].applied
      <4>1. v3["tui"].seen >= v5[a].after /\ (v1 => v3["worker"].seen >= v5[a].after)
        BY <3>1 DEF CInv, CRead
      <4>2. QED
        BY <1>1, <1>2, <1>4, <4>1
    <3>2. CASE /\ v3'["tui"].seen = v6 \/ v5[a].at \in {"worker", "late"}
               /\ v1 => v3'["worker"].seen = v6
      <4>1. v5[a].at \in {"worker", "late"} => v3["tui"].seen >= v5[a].after
        BY DEF CInv, CRead
      <4>2. QED
        BY <1>1, <1>2, <1>4, <3>2, <4>1
    <3>3. QED
      BY <2>2, <3>1, <3>2
  <2>3. QED
    BY <1>4, <2>1, <2>2 DEF CRead, CSame
<1>6. CUsed'
  <2>1. C!Lead' = C!Lead /\ C!AppConfig(v2)' = C!AppConfig(v2)
    BY DEF C!Lead, C!AppConfig, C!AppBase
  <2>2. ASSUME NEW a \in 1..Len(v5), v5'[a].applied, v5[a].after = v6, "model" \in v5[a].paths
        PROVE  v3'[C!Lead].agent["model"] = C!AppConfig(v2)["model"]
    <3>1. CASE v5[a].applied
      <4>1. v3[C!Lead].agent["model"] = C!AppConfig(v2)["model"]
        BY <2>2, <3>1 DEF CInv, CUsed
      <4>2. QED
        BY <4>1, CProcs
    <3>2. CASE ~v5[a].applied
      BY <2>2, <3>2
    <3>3. QED
      BY <3>1, <3>2
  <2>3. QED
    BY <2>1, <2>2 DEF CUsed, CSame
<1>7. QED
  BY <1>3, <1>5, <1>6 DEF CInv

LEMMA CSets ==
  ASSUME NEW s \in Seq(CApply), NEW a \in 1..Len(s), NEW d \in CApply, NEW t, t = [s EXCEPT ![a] = d]
  PROVE  /\ t \in Seq(CApply) /\ Len(t) = Len(s) /\ t[a] = d
         /\ \A b \in 1..Len(s) : b # a => t[b] = s[b]
OBVIOUS

\* An apply that changes, beside the others.
LEMMA CChanges ==
  ASSUME CInv, NEW a \in DOMAIN v5, NEW at \in {"asked", "worker", "late", "done"},
         NEW applied \in BOOLEAN, v5' = [v5 EXCEPT ![a].at = at, ![a].applied = applied]
  PROVE  /\ a \in 1..Len(v5) /\ v5' \in Seq(CApply) /\ Len(v5') = Len(v5)
         /\ v5'[a].at = at /\ v5'[a].applied = applied
         /\ \A b \in 1..Len(v5) : CSame(v5'[b], v5[b]) /\ (b # a => v5'[b] = v5[b])
<1>1. v5 \in Seq(CApply) /\ a \in 1..Len(v5)
  BY DEF CInv, CTyped
<1>2. PICK e \in CApply : e = v5[a]
  BY <1>1
<1>3. PICK d : d = [e EXCEPT !.at = at, !.applied = applied]
  OBVIOUS
<1>4. d \in CApply /\ d.at = at /\ d.applied = applied /\ CSame(d, e)
  BY <1>3 DEF CApply, CSame
<1>5. v5' = [v5 EXCEPT ![a] = d]
  BY <1>1, <1>2, <1>3
<1>6. /\ v5' \in Seq(CApply) /\ Len(v5') = Len(v5) /\ v5'[a] = d
      /\ \A b \in 1..Len(v5) : b # a => v5'[b] = v5[b]
  BY ONLY <1>1, <1>4, <1>5, CSets
<1>7. \A b \in 1..Len(v5) : CSame(v5'[b], v5[b])
  BY <1>2, <1>4, <1>6 DEF CSame
<1>8. QED
  BY <1>1, <1>4, <1>6, <1>7

LEMMA CApplyHereStep ==
  ASSUME CInv, NEW a \in DOMAIN v5, C!ApplyHere(a)
  PROVE  CInv'
<1>1. PICK y : y = v3'["tui"]
  OBVIOUS
<1>2. PICK x : x = v3["tui"]
  OBVIOUS
<1>3. PICK rebuilds \in BOOLEAN : rebuilds <=> C!NextTurn(a) /\ ~v1
  OBVIOUS
<1>4. "tui" \in C!Procs /\ "worker" \in C!Procs /\ C!Procs = {"tui", "worker"}
  BY CProcs
<1>5. CProcess(x) /\ v6 \in Nat /\ v3 = [p \in C!Procs |-> v3[p]] /\ v1 \in BOOLEAN
  BY <1>2, <1>4 DEF CInv, CTyped
<1>6. UNCHANGED <<v1, v2, v6>>
  BY DEF C!ApplyHere
<1>7. \/ v3' = [v3 EXCEPT !["tui"] = x]
      \/ v3' = [v3 EXCEPT !["tui"] = C!Load(x)]
      \/ v3' = [v3 EXCEPT !["tui"] = C!Rebuilt(C!Load(x))]
  BY <1>2 DEF C!ApplyHere
<1>8. /\ v3' = [p \in C!Procs |-> v3'[p]] /\ v3'["worker"] = v3["worker"]
      /\ y \in {x, C!Load(x), C!Rebuilt(C!Load(x))}
  BY <1>1, <1>4, <1>5, <1>7
<1>9. /\ CProcess(y) /\ (y.seen = x.seen \/ y.seen = v6)
      /\ y.agent = x.agent \/ y.agent["model"] = C!AppConfig(v2)["model"]
  BY <1>5, <1>8, CLoads
<1>10. \A p \in C!Procs :
         /\ CProcess(v3'[p]) /\ (v3'[p].seen = v3[p].seen \/ v3'[p].seen = v6)
         /\ v3'[p].agent = v3[p].agent \/ v3'[p].agent["model"] = C!AppConfig(v2)["model"]
  BY <1>1, <1>2, <1>4, <1>8, <1>9 DEF CInv, CTyped
<1>11. PICK at \in {"worker", "done"}, applied \in BOOLEAN :
         /\ v5' = [v5 EXCEPT ![a].at = at, ![a].applied = applied]
         /\ at = "worker" => v1 /\ y = C!Load(x) /\ applied = v5[a].applied
         /\ at = "done" /\ applied =>
              ~v1 /\ (y = C!Rebuilt(C!Load(x)) \/ (~C!NextTurn(a) /\ y = C!Load(x)))
  <2>1. CASE C!Ended(a, FALSE)
    BY <2>1, Zenon DEF C!Ended
  <2>2. CASE ~C!Ended(a, FALSE)
    <3>1. /\ v3' = [v3 EXCEPT !["tui"] = IF C!NextTurn(a) /\ ~v1 THEN C!Rebuilt(C!Load(x)) ELSE C!Load(x)]
          /\ IF v1 THEN v5' = [v5 EXCEPT ![a].at = "worker"] ELSE C!Ended(a, TRUE)
      BY <1>2, <2>2 DEF C!ApplyHere
    <3>2. y = IF C!NextTurn(a) /\ ~v1 THEN C!Rebuilt(C!Load(x)) ELSE C!Load(x)
      BY <1>1, <1>4, <1>5, <3>1
    <3>3. CASE v1
      <4>1. v5 \in Seq(CApply) /\ a \in 1..Len(v5) /\ v5[a] \in CApply
        BY DEF CInv, CTyped
      <4>2. PICK e \in CApply : e = v5[a]
        BY <4>1
      <4>3. [e EXCEPT !.at = "worker"] = [e EXCEPT !.at = "worker", !.applied = e.applied] /\ e.applied \in BOOLEAN
        BY DEF CApply
      <4>4. v5' = [v5 EXCEPT ![a].at = "worker", ![a].applied = e.applied]
        BY <3>1, <3>3, <4>1, <4>2, <4>3
      <4>5. QED
        BY <3>2, <3>3, <4>2, <4>3, <4>4, Zenon
    <3>4. CASE ~v1
      <4>1. v5' = [v5 EXCEPT ![a].at = "done", ![a].applied = TRUE]
        BY <3>1, <3>4 DEF C!Ended
      <4>2. QED
        BY <3>2, <3>4, <4>1, Zenon
    <3>5. QED
      BY <3>3, <3>4
  <2>3. QED
    BY <2>1, <2>2
<1>12. /\ a \in 1..Len(v5) /\ v5' \in Seq(CApply) /\ Len(v5') = Len(v5)
       /\ v5'[a].at = at /\ v5'[a].applied = applied
       /\ \A b \in 1..Len(v5) : CSame(v5'[b], v5[b]) /\ (b # a => v5'[b] = v5[b])
  BY <1>11, CChanges, Zenon
<1>13. "model" \in v5[a].paths => C!NextTurn(a)
  BY DEF C!NextTurn, C!Reload
<1>14. at = "worker" => v1 /\ y.seen = v6
  BY <1>5, <1>11, CLoads
<1>15. at = "done" /\ applied =>
         ~v1 /\ y.seen = v6 /\ ("model" \in v5[a].paths => y.agent["model"] = C!AppConfig(v2)["model"])
  BY <1>5, <1>11, <1>13, CLoads
<1>16. ~v1 => C!Lead = "tui"
  BY DEF C!Lead
<1>17. v5'[a].at \in {"worker", "late"} => v1 /\ v3'["tui"].seen = v6
  BY <1>1, <1>11, <1>12, <1>14
<1>18. v5'[a].applied =>
         \/ v5[a].applied
         \/ /\ v3'["tui"].seen = v6 \/ v5[a].at \in {"worker", "late"}
            /\ v1 => v3'["worker"].seen = v6
            /\ "model" \in v5[a].paths =>
                 v3'[C!Lead].agent["model"] = C!AppConfig(v2)["model"]
  <2>1. CASE at = "worker"
    BY <1>11, <1>12, <2>1
  <2>2. CASE at = "done"
    BY <1>1, <1>12, <1>15, <1>16, <2>2
  <2>3. QED
    BY <1>11, <2>1, <2>2
<1>19. \A b \in 1..Len(v5) :
         /\ CSame(v5'[b], v5[b])
         /\ v5'[b].at \in {"worker", "late"} =>
              v5[b].at \in {"worker", "late"} \/ (v1 /\ v3'["tui"].seen = v6)
         /\ v5'[b].applied =>
              \/ v5[b].applied
              \/ /\ v3'["tui"].seen = v6 \/ v5[b].at \in {"worker", "late"}
                 /\ v1 => v3'["worker"].seen = v6
                 /\ "model" \in v5[b].paths =>
                      v3'[C!Lead].agent["model"] = C!AppConfig(v2)["model"]
  BY <1>12, <1>17, <1>18
<1>20. QED
  BY <1>6, <1>8, <1>10, <1>12, <1>19, CMoves

LEMMA CApplyInWorkerStep ==
  ASSUME CInv, NEW a \in DOMAIN v5, C!ApplyInWorker(a)
  PROVE  CInv'
<1>1. PICK y : y = v3'["worker"]
  OBVIOUS
<1>2. PICK x : x = v3["worker"]
  OBVIOUS
<1>3. PICK w : w = C!WorkerReloads(a)
  OBVIOUS
<1>4. "tui" \in C!Procs /\ "worker" \in C!Procs /\ C!Procs = {"tui", "worker"}
  BY CProcs
<1>5. CProcess(x) /\ v6 \in Nat /\ v3 = [p \in C!Procs |-> v3[p]]
  BY <1>2, <1>4 DEF CInv, CTyped
<1>6. UNCHANGED <<v1, v2, v6>> /\ v5[a].at \in {"worker", "late"}
      /\ v3' = [v3 EXCEPT !["worker"] = w.proc]
  BY <1>3 DEF C!ApplyInWorker
<1>7. /\ ~w.ok => w.proc = x
      /\ w.ok => w.proc = C!Rebuilt(C!Load(x)) \/ (~C!NextTurn(a) /\ w.proc = C!Load(x))
      /\ w.ok \in BOOLEAN
  BY <1>2, <1>3 DEF C!WorkerReloads
<1>8. v3' = [p \in C!Procs |-> v3'[p]] /\ v3'["tui"] = v3["tui"] /\ y = w.proc
  BY <1>1, <1>4, <1>5, <1>6
<1>9. /\ CProcess(y) /\ (y.seen = x.seen \/ y.seen = v6)
      /\ y.agent = x.agent \/ y.agent["model"] = C!AppConfig(v2)["model"]
  BY <1>5, <1>7, <1>8, CLoads
<1>10. \A p \in C!Procs :
         /\ CProcess(v3'[p]) /\ (v3'[p].seen = v3[p].seen \/ v3'[p].seen = v6)
         /\ v3'[p].agent = v3[p].agent \/ v3'[p].agent["model"] = C!AppConfig(v2)["model"]
  BY <1>1, <1>2, <1>4, <1>8, <1>9 DEF CInv, CTyped
<1>11. "model" \in v5[a].paths => C!NextTurn(a)
  BY DEF C!NextTurn, C!Reload
<1>12. w.ok => y.seen = v6 /\ ("model" \in v5[a].paths => y.agent["model"] = C!AppConfig(v2)["model"])
  BY <1>5, <1>7, <1>8, <1>11, CLoads
<1>13. PICK applied \in BOOLEAN :
         /\ v5' = [v5 EXCEPT ![a].at = "done", ![a].applied = applied]
         /\ applied => w.ok \/ v5[a].applied
  <2>1. CASE v5[a].at = "worker"
    BY <1>3, <1>7, <2>1, Zenon DEF C!ApplyInWorker, C!EndedWithAck, C!Ended
  <2>2. CASE v5[a].at = "late"
    <3>1. v5 \in Seq(CApply) /\ a \in 1..Len(v5) /\ v5[a] \in CApply
      BY DEF CInv, CTyped
    <3>2. PICK e \in CApply : e = v5[a]
      BY <3>1
    <3>3. [e EXCEPT !.at = "done"] = [e EXCEPT !.at = "done", !.applied = e.applied] /\ e.applied \in BOOLEAN
      BY DEF CApply
    <3>4. v5' = [v5 EXCEPT ![a].at = "done"]
      BY <2>2 DEF C!ApplyInWorker
    <3>5. v5' = [v5 EXCEPT ![a].at = "done", ![a].applied = e.applied]
      BY <3>1, <3>2, <3>3, <3>4
    <3>6. QED
      BY <3>2, <3>3, <3>5, Zenon
  <2>3. QED
    BY <1>6, <2>1, <2>2, Zenon
<1>14. /\ a \in 1..Len(v5) /\ v5' \in Seq(CApply) /\ Len(v5') = Len(v5)
       /\ v5'[a].at = "done" /\ v5'[a].applied = applied
       /\ \A b \in 1..Len(v5) : CSame(v5'[b], v5[b]) /\ (b # a => v5'[b] = v5[b])
  BY <1>13, CChanges, Zenon
<1>15. v1 /\ C!Lead = "worker"
  BY <1>6, <1>14 DEF CInv, CRead, C!Lead
<1>16. \A b \in 1..Len(v5) :
         /\ CSame(v5'[b], v5[b])
         /\ v5'[b].at \in {"worker", "late"} =>
              v5[b].at \in {"worker", "late"} \/ (v1 /\ v3'["tui"].seen = v6)
         /\ v5'[b].applied =>
              \/ v5[b].applied
              \/ /\ v3'["tui"].seen = v6 \/ v5[b].at \in {"worker", "late"}
                 /\ v1 => v3'["worker"].seen = v6
                 /\ "model" \in v5[b].paths =>
                      v3'[C!Lead].agent["model"] = C!AppConfig(v2)["model"]
  BY <1>1, <1>6, <1>12, <1>13, <1>14, <1>15
<1>17. QED
  BY <1>6, <1>8, <1>10, <1>14, <1>16, CMoves

LEMMA CGivesUpStep ==
  ASSUME CInv, NEW a \in DOMAIN v5, C!GivesUp(a)
  PROVE  CInv'
<1>1. /\ v5[a].at = "worker" /\ v5' = [v5 EXCEPT ![a].at = "late"]
      /\ UNCHANGED <<v1, v2, v3, v6>>
  BY DEF C!GivesUp
<1>2. v5 \in Seq(CApply) /\ a \in 1..Len(v5) /\ v5[a] \in CApply
  BY DEF CInv, CTyped
<1>3. PICK e \in CApply : e = v5[a]
  BY <1>2
<1>4. [e EXCEPT !.at = "late"] = [e EXCEPT !.at = "late", !.applied = e.applied] /\ e.applied \in BOOLEAN
  BY DEF CApply
<1>5. v5' = [v5 EXCEPT ![a].at = "late", ![a].applied = e.applied]
  BY <1>1, <1>2, <1>3, <1>4
<1>6. /\ v5' \in Seq(CApply) /\ Len(v5') = Len(v5)
      /\ v5'[a].at = "late" /\ v5'[a].applied = v5[a].applied
      /\ \A b \in 1..Len(v5) : CSame(v5'[b], v5[b]) /\ (b # a => v5'[b] = v5[b])
  BY <1>3, <1>4, <1>5, CChanges, Zenon
<1>7. \A b \in 1..Len(v5) :
        /\ CSame(v5'[b], v5[b])
        /\ v5'[b].at \in {"worker", "late"} => v5[b].at \in {"worker", "late"}
        /\ v5'[b].applied => v5[b].applied
  BY <1>1, <1>6
<1>8. /\ v3' = [p \in C!Procs |-> v3'[p]]
      /\ \A p \in C!Procs : CProcess(v3'[p]) /\ v3'[p].seen = v3[p].seen /\ v3'[p].agent = v3[p].agent
  BY <1>1 DEF CInv, CTyped
<1>9. QED
  BY <1>1, <1>6, <1>7, <1>8, CMoves

LEMMA CRestartStep ==
  ASSUME CInv, C!RestartLead
  PROVE  CInv'
<1>1. /\ v1 /\ v3' = [v3 EXCEPT !["worker"] = C!Fresh] /\ UNCHANGED <<v1, v2, v6>>
      /\ v5' = [a \in DOMAIN v5 |->
                  IF v5[a].at = "late" THEN [v5[a] EXCEPT !.at = "done"] ELSE v5[a]]
  BY DEF C!RestartLead
<1>2. C!Procs = {"tui", "worker"} /\ v3 = [p \in C!Procs |-> v3[p]] /\ v6 \in Nat /\ v5 \in Seq(CApply)
  BY CProcs DEF CInv, CTyped
<1>3. PICK y : y = C!Fresh
  OBVIOUS
<1>4. CProcess(y) /\ y.seen = v6 /\ y.agent["model"] = C!AppConfig(v2)["model"]
  BY <1>2, <1>3 DEF C!Fresh, CProcess
<1>5. v3' = [p \in C!Procs |-> v3'[p]] /\ v3'["worker"] = y /\ v3'["tui"] = v3["tui"]
  BY <1>1, <1>2, <1>3
<1>6. \A p \in C!Procs :
        /\ CProcess(v3'[p]) /\ (v3'[p].seen = v3[p].seen \/ v3'[p].seen = v6)
        /\ v3'[p].agent = v3[p].agent \/ v3'[p].agent["model"] = C!AppConfig(v2)["model"]
  BY <1>2, <1>4, <1>5 DEF CInv, CTyped
<1>7. ASSUME NEW a \in 1..Len(v5)
      PROVE  /\ v5'[a] \in CApply /\ CSame(v5'[a], v5[a]) /\ v5'[a].applied = v5[a].applied
             /\ v5'[a].at \in {"worker", "late"} => v5[a].at \in {"worker", "late"}
  <2>1. PICK e \in CApply : e = v5[a]
    BY <1>2
  <2>2. v5'[a] = IF e.at = "late" THEN [e EXCEPT !.at = "done"] ELSE e
    BY <1>1, <1>2, <2>1
  <2>3. PICK d : d = IF e.at = "late" THEN [e EXCEPT !.at = "done"] ELSE e
    OBVIOUS
  <2>4. d \in CApply /\ CSame(d, e) /\ d.applied = e.applied
        /\ (d.at \in {"worker", "late"} => e.at \in {"worker", "late"})
    BY <2>3 DEF CApply, CSame
  <2>5. QED
    BY <2>1, <2>2, <2>3, <2>4
<1>8. v5' \in Seq(CApply) /\ Len(v5') = Len(v5)
  <2>1. DOMAIN v5 = 1..Len(v5) /\ Len(v5) \in Nat
    BY <1>2
  <2>2. v5' \in [1..Len(v5) -> CApply]
    BY <1>1, <1>7, <2>1
  <2>3. QED
    BY <2>1, <2>2
<1>9. QED
  BY <1>1, <1>5, <1>6, <1>7, <1>8, CMoves

LEMMA CInvStep == CInv /\ [C!Next]_(C!cvars) => CInv'
<1> SUFFICES ASSUME CInv, [C!Next]_(C!cvars) PROVE CInv'
  OBVIOUS
<1>1. CASE UNCHANGED C!cvars
  <2>1. CTyped' /\ CRead'
    BY <1>1 DEF C!cvars, CInv, CTyped, CRead
  <2>2. CUsed'
    BY <1>1 DEF C!cvars, CInv, CUsed, C!Lead, C!AppConfig, C!AppBase
  <2>3. QED
    BY <2>1, <2>2 DEF CInv
<1>2. QED
  BY <1>1, CWriteStep, CRestartStep, CApplyHereStep, CApplyInWorkerStep, CGivesUpStep DEF C!Next

LEMMA CInvApplied == CInv => C!AppliedWasRead /\ C!AppliedIsInUse
<1> SUFFICES ASSUME CInv PROVE C!AppliedWasRead /\ C!AppliedIsInUse
  OBVIOUS
<1>1. DOMAIN v5 = 1..Len(v5)
  BY DEF CInv, CTyped
<1>2. C!AppliedWasRead
  BY <1>1, CProcs DEF CInv, CRead, C!AppliedWasRead
<1>3. C!AppliedIsInUse
  BY <1>1 DEF CInv, CUsed, C!AppliedIsInUse
<1>4. QED
  BY <1>2, <1>3

-----------------------------------------------------------------------------
(* The settings screen: v2 is stored, v3 dirty and v4 editor.               *)

SAgents == {"agent.provider", "agent.model"}

\* Only the two fields of an agent may be told to inherit, by an edit; what is
\* stored never says so.
SInherits ==
  /\ v2 = [f \in S!Fields |-> v2[f]] /\ v3 = [f \in S!Fields |-> v3[f]]
  /\ \A f \in S!Fields : v2[f] # S!Inherit
  /\ \A f \in S!Fields : v3[f] = S!Inherit => f \in SAgents
  /\ v4.field \in S!Fields \/ v4.offers = {}
  /\ S!Inherit \in v4.offers => v4.field \in SAgents
  /\ S!None \notin v4.offers

LEMMA SNoEdits ==
  /\ S!NoEdits = [f \in S!Fields |-> S!NoEdits[f]]
  /\ \A f \in S!Fields : S!NoEdits[f] = S!None
  /\ S!None # S!Inherit
  /\ S!Closed.offers = {}
BY DEF S!NoEdits, S!None, S!Inherit, S!Closed

LEMMA SInit == S!Init => SInherits
BY SNoEdits DEF S!Init, SInherits

\* What an editor offers.
LEMMA SOffers ==
  ASSUME NEW f \in S!Fields, NEW d, NEW s
  PROVE  /\ S!Inherit \in S!Choices(f, d, s) => f \in SAgents
         /\ S!None \notin S!Choices(f, d, s)
BY DEF S!Choices, S!Fields, S!Inherit, S!None, S!Providers, S!SlugsFor, SAgents

\* One key of the stored settings or of the edits.
LEMMA SPut ==
  ASSUME NEW x, NEW y, NEW f \in S!Fields, NEW v,
         x = [g \in S!Fields |-> x[g]], y = [x EXCEPT ![f] = v]
  PROVE  /\ y = [g \in S!Fields |-> y[g]]
         /\ y[f] = v /\ \A g \in S!Fields \ {f} : y[g] = x[g]
OBVIOUS

LEMMA SInvStep == SInherits /\ [S!Next]_(S!cfvars) => SInherits'
<1> SUFFICES ASSUME SInherits, [S!Next]_(S!cfvars) PROVE SInherits'
  OBVIOUS
<1>1. CASE UNCHANGED <<v2, v3, v4>>
  BY <1>1 DEF SInherits
<1>2. CASE S!OtherKey \/ S!ConfirmAhead \/ S!ApplyEnds \/ S!Reopen \/ UNCHANGED S!cfvars
  <2>1. UNCHANGED <<v2, v3, v4>>
    BY <1>2 DEF S!OtherKey, S!ConfirmAhead, S!ApplyEnds, S!Reopen, S!cfvars
  <2>2. QED
    BY <1>1, <2>1
<1>3. CASE S!Invalid
  BY <1>3, SNoEdits DEF S!Invalid, SInherits
<1>4. CASE S!Escape
  <2>1. v2' = v2 /\ v4' \in {v4, S!Closed} /\ v3' \in {v3, S!NoEdits}
    BY <1>4 DEF S!Escape
  <2>2. QED
    BY <2>1, SNoEdits DEF SInherits
<1>5. ASSUME NEW f \in S!Fields, S!EditField(f) PROVE SInherits'
  <2>1. v2' = v2 /\ v3' = v3
    BY <1>5 DEF S!EditField
  <2>2. v4'.field = f /\ v4'.offers = S!Choices(f, v3, v2)
    BY <1>5 DEF S!EditField
  <2>3. /\ S!Inherit \in v4'.offers => v4'.field \in SAgents
        /\ S!None \notin v4'.offers
    BY <2>2, SOffers
  <2>4. QED
    BY <1>5, <2>1, <2>2, <2>3 DEF SInherits
<1>6. ASSUME NEW f \in S!Fields, S!ResetField(f) PROVE SInherits'
  <2>1. v2' = [v2 EXCEPT ![f] = S!None] /\ v3' = [v3 EXCEPT ![f] = S!None] /\ v4' = v4
    BY <1>6 DEF S!ResetField
  <2>2. v2 = [g \in S!Fields |-> v2[g]] /\ v3 = [g \in S!Fields |-> v3[g]]
    BY DEF SInherits
  <2>3. /\ v2' = [g \in S!Fields |-> v2'[g]]
        /\ v2'[f] = S!None /\ \A g \in S!Fields \ {f} : v2'[g] = v2[g]
    BY <2>1, <2>2, SPut
  <2>4. /\ v3' = [g \in S!Fields |-> v3'[g]]
        /\ v3'[f] = S!None /\ \A g \in S!Fields \ {f} : v3'[g] = v3[g]
    BY <2>1, <2>2, SPut
  <2>5. \A g \in S!Fields : v2'[g] # S!Inherit /\ (v3'[g] = S!Inherit => g \in SAgents)
    BY <2>3, <2>4, SNoEdits DEF SInherits
  <2>6. QED
    BY <2>1, <2>3, <2>4, <2>5 DEF SInherits
<1>7. ASSUME NEW v \in v4.offers, S!Submit(v) PROVE SInherits'
  <2>1. v2' = v2 /\ v3' = [v3 EXCEPT ![v4.field] = v] /\ v4' = S!Closed
    BY <1>7 DEF S!Submit
  <2>2. v4.field \in S!Fields /\ v3 = [g \in S!Fields |-> v3[g]]
    BY <1>7 DEF SInherits
  <2>3. /\ v3' = [g \in S!Fields |-> v3'[g]]
        /\ v3'[v4.field] = v /\ \A g \in S!Fields \ {v4.field} : v3'[g] = v3[g]
    BY <2>1, <2>2, SPut
  <2>4. \A g \in S!Fields : v3'[g] = S!Inherit => g \in SAgents
    BY <1>7, <2>3 DEF SInherits
  <2>5. QED
    BY <2>1, <2>3, <2>4, SNoEdits DEF SInherits
<1>8. ASSUME NEW failed \in SUBSET {f \in S!Fields : v3[f] # S!None},
             NEW confirmed, S!Write(failed, confirmed)
      PROVE  SInherits'
  <2>1. /\ v2' = S!Applied(v3, v2, S!Fields \ failed)
        /\ v3' = [f \in S!Fields |-> IF f \in failed THEN v3[f] ELSE S!None]
        /\ v4' = v4
    BY <1>8 DEF S!Write
  <2>2. /\ v2' = [f \in S!Fields |-> v2'[f]]
        /\ \A f \in S!Fields : v2'[f] \in {v2[f], S!None, v3[f]}
        /\ \A f \in S!Fields : v3[f] = S!Inherit => v2'[f] \in {v2[f], S!None}
    BY <2>1 DEF S!Applied
  <2>3. \A f \in S!Fields : v2'[f] # S!Inherit
    BY <2>2, SNoEdits DEF SInherits
  <2>4. /\ v3' = [f \in S!Fields |-> v3'[f]]
        /\ \A f \in S!Fields : v3'[f] \in {v3[f], S!None}
    BY <2>1
  <2>5. \A f \in S!Fields : v3'[f] = S!Inherit => f \in SAgents
    BY <2>4, SNoEdits DEF SInherits
  <2>6. QED
    BY <2>1, <2>2, <2>3, <2>4, <2>5 DEF SInherits
<1>9. QED
  BY <1>2, <1>3, <1>4, <1>5, <1>6, <1>7, <1>8 DEF S!Next, S!Save, S!ConfirmAndSave

\* What a field is worth once the edits are saved.
LEMMA SSaved ==
  ASSUME SInherits, NEW f \in S!Fields
  PROVE  S!Applied(v3, v2, S!Fields)[f]
           = IF v3[f] = S!None THEN v2[f]
             ELSE IF v3[f] = S!Inherit THEN S!None ELSE v3[f]
BY DEF S!Applied

\* An edit that does not inherit is what the field will be worth, and so is
\* what is stored, when there is no edit; the project's file sets none.
LEMMA SGet ==
  ASSUME SInherits, NEW f \in S!Fields, ~v1,
         NEW saved, saved = S!Applied(v3, v2, S!Fields)
  PROVE  /\ v3[f] = S!None => S!Get(f, saved) = S!Get(f, v2)
         /\ v3[f] \notin {S!None, S!Inherit} => S!Get(f, saved) = v3[f]
         /\ v3[f] = S!Inherit => S!Get(f, saved) = S!Default(f)
<1>1. saved[f] = IF v3[f] = S!None THEN v2[f]
                 ELSE IF v3[f] = S!Inherit THEN S!None ELSE v3[f]
  BY SSaved
<1>2. S!None # S!Inherit
  BY SNoEdits
<1>3. /\ S!Get(f, saved) = IF saved[f] # S!None THEN saved[f] ELSE S!Default(f)
      /\ S!Get(f, v2) = IF v2[f] # S!None THEN v2[f] ELSE S!Default(f)
  BY DEF S!Get
<1>4. QED
  BY ONLY <1>1, <1>2, <1>3

LEMMA SInvForesees == SInherits => S!ForeseesSave
<1> SUFFICES ASSUME SInherits, v3["active"] = S!None, ~v1,
                    NEW saved, saved = S!Applied(v3, v2, S!Fields)
             PROVE  /\ S!AgentProvider(v3, v2) = S!AgentProvider(S!NoEdits, saved)
                    /\ S!AgentModel(v3, v2) = S!AgentModel(S!NoEdits, saved)
  BY DEF S!ForeseesSave
<1>1. /\ {"active", "agent.provider", "agent.model", "openai.model", "claude.model"}
           \subseteq S!Fields
      /\ S!Default("agent.provider") = S!None /\ S!Default("agent.model") = S!None
  BY DEF S!Fields, S!Default
<1>2. S!ActiveProvider(saved) = S!ActiveProvider(v2)
  BY <1>1, SGet DEF S!ActiveProvider
<1>3. S!AgentProvider(v3, v2) = S!AgentProvider(S!NoEdits, saved)
  <2>1. /\ v3["agent.provider"] = S!None =>
             S!Get("agent.provider", saved) = S!Get("agent.provider", v2)
        /\ v3["agent.provider"] \notin {S!None, S!Inherit} =>
             S!Get("agent.provider", saved) = v3["agent.provider"]
        /\ v3["agent.provider"] = S!Inherit => S!Get("agent.provider", saved) = S!None
    BY <1>1, SGet
  <2>2. S!NoEdits["agent.provider"] = S!None
    BY <1>1, SNoEdits
  <2>3. QED
    BY <1>2, <2>1, <2>2, SNoEdits DEF S!AgentProvider
<1>4. ASSUME NEW p PROVE S!AppModelOf(p, v3, v2) = S!AppModelOf(p, S!NoEdits, saved)
  <2>1. S!AppModel(p) \in S!Fields \ SAgents
    BY <1>1 DEF S!AppModel, SAgents
  <2>2. v3[S!AppModel(p)] # S!Inherit /\ S!NoEdits[S!AppModel(p)] = S!None
    BY <2>1, SNoEdits DEF SInherits
  <2>3. /\ v3[S!AppModel(p)] = S!None =>
             S!Get(S!AppModel(p), saved) = S!Get(S!AppModel(p), v2)
        /\ v3[S!AppModel(p)] \notin {S!None, S!Inherit} =>
             S!Get(S!AppModel(p), saved) = v3[S!AppModel(p)]
    BY <2>1, SGet
  <2>4. QED
    BY <2>2, <2>3 DEF S!AppModelOf
<1>5. S!AgentModel(v3, v2) = S!AgentModel(S!NoEdits, saved)
  <2>1. /\ v3["agent.model"] = S!None =>
             S!Get("agent.model", saved) = S!Get("agent.model", v2)
        /\ v3["agent.model"] \notin {S!None, S!Inherit} =>
             S!Get("agent.model", saved) = v3["agent.model"]
        /\ v3["agent.model"] = S!Inherit => S!Get("agent.model", saved) = S!None
    BY <1>1, SGet
  <2>2. S!NoEdits["agent.model"] = S!None
    BY <1>1, SNoEdits
  <2>3. QED
    BY <1>3, <1>4, <2>1, <2>2, SNoEdits DEF S!AgentModel
<1>6. QED
  BY <1>3, <1>5

-----------------------------------------------------------------------------
(* Attachments: what there is of a message, its rows and its copies.          *)

FAts    == {"new", "message", "publish", "copy", "copying", "insert", "record", "build",
            "waiting", "list", "delete", "settle", "unlink", "started", "refused", "cut",
            "gone", "died", "died_discarding"}
FDrafts == {<<>>} \cup {F!Draft(tokens) : tokens \in FileDrops}
FRows   == FileTurns \X Nat
FRec    == [at : FAts, files : FDrafts, i : Nat, found : SUBSET FRows]

\* The numbers of a turn's rows in a set of rows.
FOf(rows, t) == {j \in Nat : <<t, j>> \in rows}

\* A turn's rows and copies, by where it is: it has those of the files before
\* the one it is at, and none of the files after; on its way out what is on disk
\* has a row that is listed, then rows go before copies.
FState(t, r, view, db, disk, copying, isLeft) ==
  /\ r.i <= Len(r.files)
  /\ \A j \in view \cup db \cup disk \cup copying : j <= r.i
  /\ r.at \in {"new", "message", "refused"} => view \cup db \cup disk \cup copying = {}
  /\ r.at \in {"new", "message", "publish", "refused", "cut"} => r.i = 0
  /\ r.at = "publish" => 0 \in view
  /\ r.at \in {"copy", "copying", "insert", "record", "waiting"} =>
       r.i >= 1 /\ \A j \in 0..(r.i - 1) : j \in view /\ j \in db /\ (j # 0 => j \in disk)
  /\ r.at \in {"copy", "copying", "insert", "waiting"} => r.i \notin view /\ r.i \notin db
  /\ r.at \in {"copy", "copying"} => r.i \notin disk
  /\ r.at \in {"insert", "record"} => r.i \in disk
  /\ r.at = "record" => r.i \in view
  /\ r.at = "build" => r.i = Len(r.files)
  /\ r.at \in {"build", "started"} =>
       \A j \in 0..Len(r.files) : j \in view /\ j \in db /\ (j # 0 => j \in disk)
  /\ r.at = "list" /\ isLeft = 0 => disk \subseteq view
  /\ r.at \in {"delete", "settle", "unlink"} =>
       /\ r.found \subseteq {t} \X Nat
       /\ isLeft = 0 => disk \subseteq FOf(r.found, t)
  /\ r.at = "settle" => view = {}
  /\ r.at = "unlink" => view = {} /\ db = {}
  /\ r.at = "gone" /\ isLeft = 0 => view \cup db \cup disk \cup copying = {}
  /\ r.at = "died" => \A j \in view \cup db : j # 0 => j \in disk
  /\ isLeft = 1 => r.at \in {"list", "delete", "settle", "unlink", "gone", "died_discarding"}
  /\ \A j \in copying :
       j # 0 /\ j \notin disk /\ (isLeft = 1 \/ (j = r.i /\ r.at \in {"copying", "waiting"}))
  /\ 0 \notin disk

FLeft(t) == IF t \in v7 THEN 1 ELSE 0

FTurn(t) ==
  FState(t, v5[t], FOf(v1, t), FOf(v2, t), FOf(v3, t), FOf(v4, t), FLeft(t))

FIndexed ==
  \A a \in v6.doing \cup v6.done : a[1] \in FileTurns /\ v5[a[1]].at = "started"

FTyped ==
  /\ v1 \subseteq FRows /\ v2 \subseteq FRows /\ v3 \subseteq FRows /\ v4 \subseteq FRows
  /\ v5 \in [FileTurns -> FRec] /\ v6 \in [doing : {v6.doing}, done : {v6.done}]
  /\ v7 \subseteq FileTurns

FInv == FTyped /\ FIndexed /\ \A t \in FileTurns : FTurn(t)

\* A message has a number of files.
LEMMA FSizes == <<>> \in FDrafts /\ Len(<<>>) = 0 /\ \A f \in FDrafts : Len(f) \in Nat
<1>1. ASSUME NEW tokens \in FileDrops PROVE Len(F!Draft(tokens)) \in Nat
  <2> DEFINE dropped == UNION {{i} \X F!Recovered(tokens[i]) : i \in DOMAIN tokens}
             Spots(f) == {p \in dropped : tokens[p[1]][p[2]] = f}
             files == {f \in DOMAIN F!Files : Spots(f) # {}}
             Sooner(f, g) == \E p \in Spots(f) : \A q \in Spots(g) :
                               p[1] < q[1] \/ (p[1] = q[1] /\ p[2] < q[2])
             File(n) == CHOOSE f \in files : F!Cardinality({g \in files : Sooner(g, f)}) = n - 1
  <2>1. F!Draft(tokens) = [n \in 1..F!Cardinality(files) |-> File(n)]
    BY DEF F!Draft
  <2>2. IsFiniteSet(DOMAIN F!Files)
    <3>1. DOMAIN F!Files = {"photo", "drawing", "notes", "odd", "log", "key"}
      BY DEF F!Files
    <3>2. IsFiniteSet({"photo", "drawing", "notes", "odd", "log", "key"})
      <4>1. IsFiniteSet({}) /\ {} \cup {"photo"} = {"photo"}
        BY FS_EmptySet
      <4>2. IsFiniteSet({"photo"} \cup {"drawing"})
        BY FS_Singleton, FS_AddElement
      <4>3. IsFiniteSet(({"photo"} \cup {"drawing"}) \cup {"notes"})
        BY <4>2, FS_AddElement
      <4>4. IsFiniteSet((({"photo"} \cup {"drawing"}) \cup {"notes"}) \cup {"odd"})
        BY <4>3, FS_AddElement
      <4>5. IsFiniteSet(((({"photo"} \cup {"drawing"}) \cup {"notes"}) \cup {"odd"}) \cup {"log"})
        BY <4>4, FS_AddElement
      <4>6. IsFiniteSet((((({"photo"} \cup {"drawing"}) \cup {"notes"}) \cup {"odd"}) \cup {"log"})
                        \cup {"key"})
        BY <4>5, FS_AddElement
      <4>7. {"photo", "drawing", "notes", "odd", "log", "key"} =
            (((({"photo"} \cup {"drawing"}) \cup {"notes"}) \cup {"odd"}) \cup {"log"}) \cup {"key"}
        OBVIOUS
      <4>8. QED
        BY <4>6, <4>7
    <3>3. QED
      BY <3>1, <3>2
  <2>3. F!Cardinality(files) \in Nat
    <3>1. files \subseteq DOMAIN F!Files
      OBVIOUS
    <3> HIDE DEF files
    <3>2. Cardinality(files) \in Nat
      BY <2>2, <3>1, FS_Subset, FS_CardinalityType
    <3>3. QED
      BY <3>2 DEF F!Cardinality, Cardinality
  <2> HIDE DEF files, File
  <2>4. Len([n \in 1..F!Cardinality(files) |-> File(n)]) = F!Cardinality(files)
    BY <2>3
  <2>5. QED
    BY <2>1, <2>3, <2>4
<1>2. Len(<<>>) = 0
  OBVIOUS
<1>3. QED
  BY <1>1, <1>2 DEF FDrafts

\* Two sets of rows that differ at most in those of one turn.
FOnly(xs, ys, t) == \A s \in FileTurns \ {t} : FOf(xs, s) = FOf(ys, s)

\* A set of rows with, and without, one more.
FAdds(ys, xs, t, k)    == ys = xs \cup {<<t, k>>}
FRemoves(ys, xs, t, k) == ys = xs \ {<<t, k>>}

LEMMA FPlus ==
  ASSUME NEW xs, NEW ys, xs \in SUBSET FRows, NEW t \in FileTurns, NEW k \in Nat,
         FAdds(ys, xs, t, k)
  PROVE  ys \in SUBSET FRows /\ FOnly(ys, xs, t) /\ FOf(ys, t) = FOf(xs, t) \cup {k}
BY DEF FAdds, FRows, FOnly, FOf

LEMMA FMinus ==
  ASSUME NEW xs, NEW ys, xs \in SUBSET FRows, NEW t \in FileTurns, NEW k \in Nat,
         FRemoves(ys, xs, t, k)
  PROVE  ys \in SUBSET FRows /\ FOnly(ys, xs, t) /\ FOf(ys, t) = FOf(xs, t) \ {k}
BY DEF FRemoves, FRows, FOnly, FOf

LEMMA FHas ==
  ASSUME NEW xs, NEW t, NEW k \in Nat
  PROVE  k \in FOf(xs, t) <=> <<t, k>> \in xs
BY DEF FOf

LEMMA FParts ==
  ASSUME FInv
  PROVE  /\ v1 \in SUBSET FRows /\ v2 \in SUBSET FRows /\ v3 \in SUBSET FRows
         /\ v4 \in SUBSET FRows /\ v7 \subseteq FileTurns /\ v5 \in [FileTurns -> FRec]
         /\ \A t \in FileTurns :
              /\ v5[t] \in FRec /\ v5[t].at \in FAts /\ v5[t].i \in Nat
              /\ v5[t].files \in FDrafts /\ Len(v5[t].files) \in Nat /\ FTurn(t)
<1>1. /\ v1 \in SUBSET FRows /\ v2 \in SUBSET FRows /\ v3 \in SUBSET FRows
      /\ v4 \in SUBSET FRows /\ v7 \subseteq FileTurns /\ v5 \in [FileTurns -> FRec]
  BY DEF FInv, FTyped
<1>2. ASSUME NEW t \in FileTurns
      PROVE  /\ v5[t] \in FRec /\ v5[t].at \in FAts /\ v5[t].i \in Nat
             /\ v5[t].files \in FDrafts /\ Len(v5[t].files) \in Nat /\ FTurn(t)
  <2>1. v5[t] \in FRec
    BY <1>1
  <2>2. v5[t].at \in FAts /\ v5[t].i \in Nat /\ v5[t].files \in FDrafts
    BY <2>1 DEF FRec
  <2>3. QED
    BY <2>1, <2>2, FSizes DEF FInv
<1>3. QED
  BY <1>1, <1>2

LEMMA FInit == F!Init => FInv
<1> SUFFICES ASSUME F!Init PROVE FInv
  OBVIOUS
<1>1. PICK r : r = [at |-> "new", files |-> <<>>, i |-> 0, found |-> {}]
  OBVIOUS
<1>2. r \in FRec /\ r.at = "new" /\ r.i = 0 /\ Len(r.files) = 0
  <2>1. PICK f \in FDrafts : f = <<>> /\ Len(f) = 0
    BY FSizes, Zenon
  <2>2. r = [at |-> "new", files |-> f, i |-> 0, found |-> {}]
    BY <1>1, <2>1
  <2>3. r \in FRec
    BY <2>2 DEF FRec, FAts
  <2>4. r.at = "new" /\ r.i = 0 /\ r.files = f
    BY <2>2
  <2>5. QED
    BY <2>1, <2>3, <2>4
<1>3. v5 = [t \in FileTurns |-> r]
  BY <1>1 DEF F!Init
<1>4. v5 \in [FileTurns -> FRec] /\ \A t \in FileTurns : v5[t] = r
  BY <1>2, <1>3
<1>5. /\ v1 = {} /\ v2 = {} /\ v3 = {} /\ v4 = {} /\ v7 = {}
      /\ v6 = [doing |-> {}, done |-> {}]
  BY DEF F!Init
<1>6. FTyped /\ FIndexed
  BY <1>4, <1>5 DEF FTyped, FIndexed
<1>7. ASSUME NEW t \in FileTurns PROVE FTurn(t)
  <2>1. FOf(v1, t) = {} /\ FOf(v2, t) = {} /\ FOf(v3, t) = {} /\ FOf(v4, t) = {} /\ FLeft(t) = 0
    BY <1>5 DEF FOf, FLeft
  <2>2. FState(t, r, {}, {}, {}, {}, 0)
    BY <1>2 DEF FState
  <2>3. QED
    BY <1>4, <2>1, <2>2 DEF FTurn
<1>8. QED
  BY <1>6, <1>7 DEF FInv

\* What other turns do leaves a turn as it is, even a commit that publishes all.
LEMMA FCommitted ==
  ASSUME NEW t, NEW r \in FRec, NEW view \in SUBSET Nat, NEW db \in SUBSET Nat,
         NEW disk \in SUBSET Nat, NEW copying \in SUBSET Nat, NEW isLeft,
         FState(t, r, view, db, disk, copying, isLeft)
  PROVE  FState(t, r, view, view, disk, copying, isLeft)
BY DEF FState

\* A step of one turn.
LEMMA FStep ==
  ASSUME FInv, NEW t \in FileTurns, v5[t].at # "started",
         v5' \in [FileTurns -> FRec], \A s \in FileTurns \ {t} : v5'[s] = v5[s],
         v1' \in SUBSET FRows, v3' \in SUBSET FRows, v4' \in SUBSET FRows,
         v7' \subseteq FileTurns, v2' = v2 \/ v2' = v1,
         FOnly(v1', v1, t), FOnly(v3', v3, t), FOnly(v4', v4, t),
         \A s \in FileTurns \ {t} : s \in v7' <=> s \in v7,
         v6' = v6, FTurn(t)'
  PROVE  FInv'
<1>1. FTyped'
  BY DEF FInv, FTyped
<1>2. FIndexed'
  BY DEF FInv, FIndexed
<1>3. ASSUME NEW s \in FileTurns \ {t} PROVE FTurn(s)'
  <2>1. FTurn(s) /\ v5'[s] = v5[s] /\ FLeft(s)' = FLeft(s) /\ v5[s] \in FRec
    BY FParts DEF FLeft
  <2>2. FOf(v1', s) = FOf(v1, s) /\ FOf(v3', s) = FOf(v3, s) /\ FOf(v4', s) = FOf(v4, s)
    BY DEF FOnly
  <2>3. CASE v2' = v2
    BY <2>1, <2>2, <2>3 DEF FTurn
  <2>4. CASE v2' = v1
    <3>1. /\ FOf(v1, s) \in SUBSET Nat /\ FOf(v2, s) \in SUBSET Nat
          /\ FOf(v3, s) \in SUBSET Nat /\ FOf(v4, s) \in SUBSET Nat
      BY DEF FOf
    <3>2. FState(s, v5[s], FOf(v1, s), FOf(v1, s), FOf(v3, s), FOf(v4, s), FLeft(s))
      BY <2>1, <3>1, FCommitted DEF FTurn
    <3>3. QED
      BY <2>1, <2>2, <2>4, <3>2 DEF FTurn
  <2>5. QED
    BY <2>3, <2>4
<1>4. QED
  BY <1>1, <1>2, <1>3 DEF FInv

\* A turn that goes on to another place.
FMoved(t, at) ==
  /\ v5' \in [FileTurns -> FRec] /\ \A s \in FileTurns \ {t} : v5'[s] = v5[s]
  /\ v5'[t].at = at /\ v5'[t].i = v5[t].i /\ v5'[t].files = v5[t].files
  /\ v5'[t].found = v5[t].found

LEMMA FGoes ==
  ASSUME FInv, NEW t \in FileTurns, NEW at \in FAts, F!Goto(t, at)
  PROVE  FMoved(t, at)
<1>1. PICK r \in FRec : r = v5[t]
  BY FParts
<1>2. PICK n : n = [r EXCEPT !.at = at]
  OBVIOUS
<1>3. n \in FRec /\ n.at = at /\ n.i = r.i /\ n.files = r.files /\ n.found = r.found
  BY <1>2 DEF FRec
<1>4. v5' = [v5 EXCEPT ![t] = n]
  BY <1>1, <1>2 DEF F!Goto
<1>5. QED
  BY <1>1, <1>3, <1>4, FParts DEF FMoved

\* Steps that change nothing but where a turn is.
LEMMA FMovesOn ==
  ASSUME FInv, NEW t \in FileTurns, NEW at \in FAts, F!Goto(t, at),
         UNCHANGED <<v1, v2, v3, v4, v6>>,
         v7' = v7 \/ v7' = v7 \cup {t},
         v5[t].at # "started",
         FMoved(t, at) => FTurn(t)'
  PROVE  FInv'
<1>1. FMoved(t, at)
  BY FGoes
<1>2. /\ v5' \in [FileTurns -> FRec] /\ \A s \in FileTurns \ {t} : v5'[s] = v5[s]
  BY <1>1 DEF FMoved
<1>3. /\ FOnly(v1', v1, t) /\ FOnly(v3', v3, t) /\ FOnly(v4', v4, t)
      /\ v1' \in SUBSET FRows /\ v3' \in SUBSET FRows /\ v4' \in SUBSET FRows
      /\ v7' \subseteq FileTurns
  BY FParts DEF FOnly
<1>4. \A s \in FileTurns \ {t} : s \in v7' <=> s \in v7
  OBVIOUS
<1>5. QED
  BY <1>1, <1>2, <1>3, <1>4, FStep

\* A turn's part of the state.
LEMMA FNow ==
  ASSUME FInv, NEW t \in FileTurns
  PROVE  \E r \in FRec, view \in SUBSET Nat, db \in SUBSET Nat, disk \in SUBSET Nat,
            copying \in SUBSET Nat, l \in {0, 1} :
           /\ r = v5[t] /\ view = FOf(v1, t) /\ db = FOf(v2, t) /\ disk = FOf(v3, t)
           /\ copying = FOf(v4, t) /\ l = FLeft(t) /\ (l = 1 <=> t \in v7)
           /\ FState(t, r, view, db, disk, copying, l)
           /\ r.i \in Nat /\ Len(r.files) \in Nat
<1>1. /\ FOf(v1, t) \in SUBSET Nat /\ FOf(v2, t) \in SUBSET Nat
      /\ FOf(v3, t) \in SUBSET Nat /\ FOf(v4, t) \in SUBSET Nat
  BY DEF FOf
<1>2. FLeft(t) \in {0, 1} /\ (FLeft(t) = 1 <=> t \in v7)
  BY DEF FLeft
<1>3. /\ v5[t] \in FRec /\ v5[t].i \in Nat /\ Len(v5[t].files) \in Nat
      /\ FState(t, v5[t], FOf(v1, t), FOf(v2, t), FOf(v3, t), FOf(v4, t), FLeft(t))
  BY FParts DEF FTurn
<1>4. QED
  BY <1>1, <1>2, <1>3

\* A turn's part of the state after it went on.
LEMMA FThen ==
  ASSUME NEW t \in FileTurns, NEW at, FMoved(t, at),
         NEW view, NEW db, NEW disk, NEW copying, NEW l,
         view = FOf(v1', t), db = FOf(v2', t), disk = FOf(v3', t), copying = FOf(v4', t),
         l = FLeft(t)',
         \A n \in FRec : /\ n.at = at /\ n.i = v5[t].i /\ n.files = v5[t].files
                         /\ n.found = v5[t].found
                         => FState(t, n, view, db, disk, copying, l)
  PROVE  FTurn(t)'
<1>1. /\ v5'[t] \in FRec /\ v5'[t].at = at /\ v5'[t].i = v5[t].i
      /\ v5'[t].files = v5[t].files /\ v5'[t].found = v5[t].found
  BY DEF FMoved
<1>2. FState(t, v5'[t], view, db, disk, copying, l)
  BY <1>1
<1>3. QED
  BY <1>2 DEF FTurn

\* The steps that change nothing else, or leave the turn's clean-up undone.
LEMMA FPlainStep ==
  ASSUME FInv, NEW t \in FileTurns,
         \/ F!RefuseMessage(t) \/ F!SourceGone(t) \/ F!BuildFails(t) \/ F!InterruptCopy(t)
         \/ F!InterruptBuild(t) \/ F!InterruptAgain(t) \/ F!DeleteFails(t) \/ F!UnlinkFails(t)
  PROVE  FInv'
<1>1. PICK r \in FRec, view \in SUBSET Nat, db \in SUBSET Nat, disk \in SUBSET Nat,
           copying \in SUBSET Nat, l \in {0, 1} :
        /\ r = v5[t] /\ view = FOf(v1, t) /\ db = FOf(v2, t) /\ disk = FOf(v3, t)
        /\ copying = FOf(v4, t) /\ l = FLeft(t) /\ (l = 1 <=> t \in v7)
        /\ FState(t, r, view, db, disk, copying, l)
        /\ r.i \in Nat /\ Len(r.files) \in Nat
  BY FNow
<1>2. UNCHANGED <<v1, v2, v3, v4, v6>> /\ (v7' = v7 \/ v7' = v7 \cup {t})
  BY DEF F!RefuseMessage, F!SourceGone, F!BuildFails, F!InterruptCopy, F!InterruptBuild,
     F!InterruptAgain, F!DeleteFails, F!UnlinkFails
<1>3. PICK at \in FAts :
        /\ F!Goto(t, at)
        /\ \/ r.at = "message" /\ at = "refused" /\ v7' = v7
           \/ r.at \in {"copy", "build"} /\ at = "list" /\ v7' = v7
           \/ r.at = "copying" /\ at = "waiting" /\ v7' = v7
           \/ r.at = "waiting" /\ at = "list" /\ v7' = v7 \cup {t}
           \/ r.at \in {"delete", "unlink"} /\ at = "gone" /\ v7' = v7 \cup {t}
  BY <1>1 DEF F!RefuseMessage, F!SourceGone, F!BuildFails, F!InterruptCopy, F!InterruptBuild,
     F!InterruptAgain, F!DeleteFails, F!UnlinkFails, F!At, FAts
<1>4. PICK k \in {0, 1} : /\ k = FLeft(t)'
                          /\ v7' = v7 => k = l
                          /\ v7' = v7 \cup {t} => k = 1
  BY <1>1, <1>2 DEF FLeft
<1>5. ASSUME NEW n \in FRec, n.at = at, n.i = r.i, n.files = r.files, n.found = r.found
      PROVE  FState(t, n, view, db, disk, copying, k)
  <2>1. CASE r.at = "message" /\ at = "refused" /\ k = l
    BY <1>1, <1>5, <2>1 DEF FState
  <2>2. CASE r.at = "copy" /\ at = "list" /\ k = l
    <3>1. disk \subseteq view
      BY <1>1, <2>2 DEF FState
    <3>2. QED
      BY <1>1, <1>5, <2>2, <3>1 DEF FState
  <2>3. CASE r.at = "build" /\ at = "list" /\ k = l
    <3>1. disk \subseteq view
      BY <1>1, <2>3 DEF FState
    <3>2. QED
      BY <1>1, <1>5, <2>3, <3>1 DEF FState
  <2>4. CASE r.at = "copying" /\ at = "waiting" /\ k = l
    BY <1>1, <1>5, <2>4 DEF FState
  <2>5. CASE r.at = "waiting" /\ at = "list" /\ k = 1
    BY <1>1, <1>5, <2>5 DEF FState
  <2>6. CASE r.at \in {"delete", "unlink"} /\ at = "gone" /\ k = 1
    BY <1>1, <1>5, <2>6 DEF FState
  <2>7. QED
    BY <1>3, <1>4, <2>1, <2>2, <2>3, <2>4, <2>5, <2>6
<1>6. FMoved(t, at) => FTurn(t)'
  <2>1. /\ view = FOf(v1', t) /\ db = FOf(v2', t) /\ disk = FOf(v3', t) /\ copying = FOf(v4', t)
    BY <1>1, <1>2
  <2>2. QED
    BY <1>1, <1>4, <1>5, <2>1, FThen
<1>7. v5[t].at # "started"
  BY <1>1, <1>3
<1>8. QED
  BY <1>2, <1>3, <1>6, <1>7, FMovesOn

\* What a turn becomes fits its rows and copies.
FFits(t, at, view, db, disk, copying) ==
  \A n \in FRec :
    n.at = at /\ n.i = v5[t].i /\ n.files = v5[t].files /\ n.found = v5[t].found
      => FState(t, n, view, db, disk, copying, FLeft(t))

\* A turn that goes on and changes rows or copies of its own.
LEMMA FRowStep ==
  ASSUME FInv, NEW t \in FileTurns, NEW at \in FAts, F!Goto(t, at), v5[t].at # "started",
         v6' = v6, v7' = v7, v2' = v2 \/ v2' = v1,
         v1' \in SUBSET FRows, v3' \in SUBSET FRows, v4' \in SUBSET FRows,
         FOnly(v1', v1, t), FOnly(v3', v3, t), FOnly(v4', v4, t),
         FFits(t, at, FOf(v1', t), FOf(v2', t), FOf(v3', t), FOf(v4', t))
  PROVE  FInv'
<1>1. FMoved(t, at)
  BY FGoes
<1>2. /\ v5' \in [FileTurns -> FRec] /\ \A s \in FileTurns \ {t} : v5'[s] = v5[s]
  BY <1>1 DEF FMoved
<1>3. FLeft(t)' = FLeft(t)
  BY DEF FLeft
<1>4. FTurn(t)'
  BY <1>1, <1>3, FThen DEF FFits
<1>5. v7' \subseteq FileTurns /\ \A s \in FileTurns \ {t} : s \in v7' <=> s \in v7
  BY FParts
<1>6. QED
  BY <1>2, <1>4, <1>5, FStep

LEMMA FAddMessageStep ==
  ASSUME FInv, NEW t \in FileTurns,
         F!AddMessage(t) \/ (F!InterruptMessage(t) /\ F!At(t, "message"))
  PROVE  FInv'
<1>1. PICK r \in FRec, view \in SUBSET Nat, db \in SUBSET Nat, disk \in SUBSET Nat,
           copying \in SUBSET Nat, l \in {0, 1} :
        /\ r = v5[t] /\ view = FOf(v1, t) /\ db = FOf(v2, t) /\ disk = FOf(v3, t)
        /\ copying = FOf(v4, t) /\ l = FLeft(t) /\ (l = 1 <=> t \in v7)
        /\ FState(t, r, view, db, disk, copying, l)
        /\ r.i \in Nat /\ Len(r.files) \in Nat
  BY FNow
<1>2. PICK at \in {"publish", "cut"} :
        /\ F!Goto(t, at) /\ r.at = "message" /\ UNCHANGED <<v2, v3, v4, v6, v7>>
        /\ v1' = v1 \cup {<<t, 0>>}
  BY <1>1 DEF F!AddMessage, F!InterruptMessage, F!At
<1>3. /\ v3' \in SUBSET FRows /\ FOnly(v3', v3, t) /\ v4' \in SUBSET FRows /\ FOnly(v4', v4, t)
  BY <1>2, FParts DEF FOnly
<1>9. v1' \in SUBSET FRows /\ FOnly(v1', v1, t) /\ FOf(v1', t) = view \cup {0}
  <2>1. v1 \in SUBSET FRows /\ FOf(v1, t) = view
    BY <1>1, FParts
  <2>2. PICK k \in Nat : k = 0
    OBVIOUS
  <2>3. FAdds(v1', v1, t, k)
    BY <1>2, <2>2 DEF FAdds
  <2>4. v1' \in SUBSET FRows /\ FOnly(v1', v1, t) /\ FOf(v1', t) = FOf(v1, t) \cup {k}
    BY <2>1, <2>3, FPlus
  <2>5. QED
    BY <2>1, <2>2, <2>4
<1>10. PICK v : v = FOf(v1', t)
  OBVIOUS
<1>11. v = view \cup {0}
  BY <1>9, <1>10
<1>4. ASSUME NEW n \in FRec, n.at = at, n.i = r.i, n.files = r.files, n.found = r.found
      PROVE  FState(t, n, v, db, disk, copying, l)
  BY <1>1, <1>2, <1>4, <1>11 DEF FState
<1>5. at \in FAts
  BY DEF FAts
<1>6. FOf(v2', t) = db /\ FOf(v3', t) = disk /\ FOf(v4', t) = copying
  BY <1>1, <1>2
<1>7. QED
  <2>1. FFits(t, at, FOf(v1', t), FOf(v2', t), FOf(v3', t), FOf(v4', t))
    BY <1>1, <1>4, <1>6, <1>10 DEF FFits
  <2>2. /\ v6' = v6 /\ v7' = v7 /\ (v2' = v2 \/ v2' = v1)
        /\ F!Goto(t, at) /\ v5[t].at # "started"
    BY <1>1, <1>2
  <2>3. QED
    BY <1>3, <1>5, <1>9, <2>1, <2>2, FRowStep

LEMMA FInterruptMessageStep ==
  ASSUME FInv, NEW t \in FileTurns, F!InterruptMessage(t), F!At(t, "publish")
  PROVE  FInv'
<1>1. PICK r \in FRec, view \in SUBSET Nat, db \in SUBSET Nat, disk \in SUBSET Nat,
           copying \in SUBSET Nat, l \in {0, 1} :
        /\ r = v5[t] /\ view = FOf(v1, t) /\ db = FOf(v2, t) /\ disk = FOf(v3, t)
        /\ copying = FOf(v4, t) /\ l = FLeft(t) /\ (l = 1 <=> t \in v7)
        /\ FState(t, r, view, db, disk, copying, l)
        /\ r.i \in Nat /\ Len(r.files) \in Nat
  BY FNow
<1>2. /\ F!Goto(t, "cut") /\ r.at = "publish" /\ UNCHANGED <<v1, v3, v4, v6, v7>>
      /\ v2' = v2 \/ v2' = v1
  BY <1>1 DEF F!InterruptMessage, F!At
<1>3. /\ v1' \in SUBSET FRows /\ FOnly(v1', v1, t) /\ v3' \in SUBSET FRows
      /\ FOnly(v3', v3, t) /\ v4' \in SUBSET FRows /\ FOnly(v4', v4, t)
  BY <1>2, FParts DEF FOnly
<1>4. PICK d \in SUBSET Nat : d = FOf(v2', t) /\ d \in {db, view}
  BY <1>1, <1>2
<1>5. ASSUME NEW n \in FRec, n.at = "cut", n.i = r.i, n.files = r.files, n.found = r.found
      PROVE  FState(t, n, view, d, disk, copying, l)
  BY <1>1, <1>2, <1>4, <1>5 DEF FState
<1>6. "cut" \in FAts
  BY DEF FAts
<1>7. FOf(v1', t) = view /\ FOf(v3', t) = disk /\ FOf(v4', t) = copying
  BY <1>1, <1>2
<1>8. QED
  <2>1. FFits(t, "cut", FOf(v1', t), FOf(v2', t), FOf(v3', t), FOf(v4', t))
    BY <1>1, <1>4, <1>5, <1>7 DEF FFits
  <2>2. v6' = v6 /\ v7' = v7 /\ v5[t].at # "started"
    BY <1>1, <1>2
  <2>3. QED
    BY <1>2, <1>3, <1>6, <2>1, <2>2, FRowStep

LEMMA FStartCopyStep ==
  ASSUME FInv, NEW t \in FileTurns, F!StartCopy(t)
  PROVE  FInv'
<1>1. PICK r \in FRec, view \in SUBSET Nat, db \in SUBSET Nat, disk \in SUBSET Nat,
           copying \in SUBSET Nat, l \in {0, 1} :
        /\ r = v5[t] /\ view = FOf(v1, t) /\ db = FOf(v2, t) /\ disk = FOf(v3, t)
        /\ copying = FOf(v4, t) /\ l = FLeft(t) /\ (l = 1 <=> t \in v7)
        /\ FState(t, r, view, db, disk, copying, l)
        /\ r.i \in Nat /\ Len(r.files) \in Nat
  BY FNow
<1>2. /\ F!Goto(t, "copying") /\ r.at = "copy" /\ UNCHANGED <<v1, v2, v3, v6, v7>>
      /\ v4' = v4 \cup {<<t, r.i>>}
  BY <1>1 DEF F!StartCopy, F!At, F!Current
<1>3. /\ v1' \in SUBSET FRows /\ FOnly(v1', v1, t) /\ v3' \in SUBSET FRows /\ FOnly(v3', v3, t)
  BY <1>2, FParts DEF FOnly
<1>9. v4' \in SUBSET FRows /\ FOnly(v4', v4, t) /\ FOf(v4', t) = copying \cup {r.i}
  <2>1. v4 \in SUBSET FRows /\ FOf(v4, t) = copying
    BY <1>1, FParts
  <2>2. PICK k \in Nat : k = r.i
    BY <1>1
  <2>3. FAdds(v4', v4, t, k)
    BY <1>2, <2>2 DEF FAdds
  <2>4. v4' \in SUBSET FRows /\ FOnly(v4', v4, t) /\ FOf(v4', t) = FOf(v4, t) \cup {k}
    BY <2>1, <2>3, FPlus
  <2>5. QED
    BY <2>1, <2>2, <2>4
<1>10. PICK c : c = FOf(v4', t)
  OBVIOUS
<1>11. c = copying \cup {r.i}
  BY <1>9, <1>10
<1>4. ASSUME NEW n \in FRec, n.at = "copying", n.i = r.i, n.files = r.files, n.found = r.found
      PROVE  FState(t, n, view, db, disk, c, l)
  BY <1>1, <1>2, <1>4, <1>11 DEF FState
<1>5. "copying" \in FAts
  BY DEF FAts
<1>6. FOf(v1', t) = view /\ FOf(v2', t) = db /\ FOf(v3', t) = disk
  BY <1>1, <1>2
<1>7. QED
  <2>1. FFits(t, "copying", FOf(v1', t), FOf(v2', t), FOf(v3', t), FOf(v4', t))
    BY <1>1, <1>4, <1>6, <1>10 DEF FFits
  <2>2. /\ v6' = v6 /\ v7' = v7 /\ (v2' = v2 \/ v2' = v1)
        /\ F!Goto(t, "copying") /\ v5[t].at # "started"
    BY <1>1, <1>2
  <2>3. QED
    BY <1>3, <1>5, <1>9, <2>1, <2>2, FRowStep

LEMMA FInsertStep ==
  ASSUME FInv, NEW t \in FileTurns, F!Insert(t)
  PROVE  FInv'
<1>1. PICK r \in FRec, view \in SUBSET Nat, db \in SUBSET Nat, disk \in SUBSET Nat,
           copying \in SUBSET Nat, l \in {0, 1} :
        /\ r = v5[t] /\ view = FOf(v1, t) /\ db = FOf(v2, t) /\ disk = FOf(v3, t)
        /\ copying = FOf(v4, t) /\ l = FLeft(t) /\ (l = 1 <=> t \in v7)
        /\ FState(t, r, view, db, disk, copying, l)
        /\ r.i \in Nat /\ Len(r.files) \in Nat
  BY FNow
<1>2. /\ F!Goto(t, "record") /\ r.at = "insert" /\ UNCHANGED <<v2, v3, v4, v6, v7>>
      /\ v1' = v1 \cup {<<t, r.i>>}
  BY <1>1 DEF F!Insert, F!At, F!Current
<1>3. /\ v3' \in SUBSET FRows /\ FOnly(v3', v3, t) /\ v4' \in SUBSET FRows /\ FOnly(v4', v4, t)
  BY <1>2, FParts DEF FOnly
<1>9. v1' \in SUBSET FRows /\ FOnly(v1', v1, t) /\ FOf(v1', t) = view \cup {r.i}
  <2>1. v1 \in SUBSET FRows /\ FOf(v1, t) = view
    BY <1>1, FParts
  <2>2. PICK k \in Nat : k = r.i
    BY <1>1
  <2>3. FAdds(v1', v1, t, k)
    BY <1>2, <2>2 DEF FAdds
  <2>4. v1' \in SUBSET FRows /\ FOnly(v1', v1, t) /\ FOf(v1', t) = FOf(v1, t) \cup {k}
    BY <2>1, <2>3, FPlus
  <2>5. QED
    BY <2>1, <2>2, <2>4
<1>10. PICK v : v = FOf(v1', t)
  OBVIOUS
<1>11. v = view \cup {r.i}
  BY <1>9, <1>10
<1>4. ASSUME NEW n \in FRec, n.at = "record", n.i = r.i, n.files = r.files, n.found = r.found
      PROVE  FState(t, n, v, db, disk, copying, l)
  BY <1>1, <1>2, <1>4, <1>11 DEF FState
<1>5. "record" \in FAts
  BY DEF FAts
<1>6. FOf(v2', t) = db /\ FOf(v3', t) = disk /\ FOf(v4', t) = copying
  BY <1>1, <1>2
<1>7. QED
  <2>1. FFits(t, "record", FOf(v1', t), FOf(v2', t), FOf(v3', t), FOf(v4', t))
    BY <1>1, <1>4, <1>6, <1>10 DEF FFits
  <2>2. /\ v6' = v6 /\ v7' = v7 /\ (v2' = v2 \/ v2' = v1)
        /\ F!Goto(t, "record") /\ v5[t].at # "started"
    BY <1>1, <1>2
  <2>3. QED
    BY <1>3, <1>5, <1>9, <2>1, <2>2, FRowStep

\* A copy that goes with its turn's insertion, or after the wait for its thread.
LEMMA FRemoveStep ==
  ASSUME FInv, NEW t \in FileTurns, F!InsertFails(t) \/ F!RemoveCopy(t) \/ F!InterruptRow(t)
  PROVE  FInv'
<1>1. PICK r \in FRec, view \in SUBSET Nat, db \in SUBSET Nat, disk \in SUBSET Nat,
           copying \in SUBSET Nat, l \in {0, 1} :
        /\ r = v5[t] /\ view = FOf(v1, t) /\ db = FOf(v2, t) /\ disk = FOf(v3, t)
        /\ copying = FOf(v4, t) /\ l = FLeft(t) /\ (l = 1 <=> t \in v7)
        /\ FState(t, r, view, db, disk, copying, l)
        /\ r.i \in Nat /\ Len(r.files) \in Nat
  BY FNow
<1>2. /\ F!Goto(t, "list") /\ UNCHANGED <<v4, v6, v7>> /\ v3' = v3 \ {<<t, r.i>>}
  BY <1>1 DEF F!InsertFails, F!RemoveCopy, F!InterruptRow, F!Current
<1>3. \/ r.at = "waiting" /\ <<t, r.i>> \notin v4 /\ UNCHANGED <<v1, v2>>
      \/ r.at = "insert" /\ UNCHANGED <<v1, v2>>
      \/ r.at = "insert" /\ v1' = v1 \cup {<<t, r.i>>} /\ v2' = v2
      \/ r.at = "record" /\ v1' = v1 /\ (v2' = v2 \/ v2' = v1)
  BY <1>1 DEF F!InsertFails, F!RemoveCopy, F!InterruptRow, F!At, F!Current
<1>10. PICK k \in Nat : k = r.i
  BY <1>1
<1>11. /\ v1 \in SUBSET FRows /\ v3 \in SUBSET FRows /\ v4 \in SUBSET FRows
       /\ FOf(v1, t) = view /\ FOf(v3, t) = disk /\ FOf(v4, t) = copying
  BY <1>1, FParts
<1>12. PICK o : o = disk \ {k} /\ o = FOf(v3', t) /\ v3' \in SUBSET FRows /\ FOnly(v3', v3, t)
  <2>1. FRemoves(v3', v3, t, k)
    BY <1>2, <1>10 DEF FRemoves
  <2>2. v3' \in SUBSET FRows /\ FOnly(v3', v3, t) /\ FOf(v3', t) = FOf(v3, t) \ {k}
    BY <1>11, <2>1, FMinus
  <2>3. QED
    BY <1>11, <2>2
<1>13. v4' \in SUBSET FRows /\ FOnly(v4', v4, t)
  BY <1>2, <1>11 DEF FOnly
<1>14. k \in copying <=> <<t, k>> \in v4
  BY <1>11, FHas
<1>15. v1' = v1 \/ v1' = v1 \cup {<<t, k>>}
  BY <1>3, <1>10
<1>16. /\ v1' \in SUBSET FRows /\ FOnly(v1', v1, t)
       /\ v1' = v1 \cup {<<t, k>>} => FOf(v1', t) = view \cup {k}
  <2>1. CASE v1' = v1
    <3>1. FOnly(v1', v1, t)
      BY <2>1 DEF FOnly
    <3>2. FAdds(v1', v1, t, k) => FOf(v1', t) = FOf(v1, t) \cup {k}
      BY <1>11, FPlus
    <3>3. QED
      BY <1>11, <2>1, <3>1, <3>2 DEF FAdds
  <2>2. CASE v1' = v1 \cup {<<t, k>>}
    <3>3. FAdds(v1', v1, t, k)
      BY <2>2 DEF FAdds
    <3>1. v1' \in SUBSET FRows /\ FOnly(v1', v1, t) /\ FOf(v1', t) = FOf(v1, t) \cup {k}
      BY <1>11, <3>3, FPlus
    <3>2. QED
      BY <1>11, <3>1
  <2>3. QED
    BY <1>15, <2>1, <2>2
<1>5. PICK v \in SUBSET Nat, d \in SUBSET Nat :
        /\ v = FOf(v1', t) /\ d = FOf(v2', t)
        /\ \/ r.at = "waiting" /\ r.i \notin copying /\ v = view /\ d = db
           \/ r.at = "insert" /\ d = db /\ v = view
           \/ r.at = "insert" /\ d = db /\ v = view \cup {r.i}
           \/ r.at = "record" /\ v = view /\ d \in {db, view}
  <2>1. CASE r.at = "waiting" /\ <<t, r.i>> \notin v4 /\ UNCHANGED <<v1, v2>>
    BY <1>1, <1>10, <1>14, <2>1
  <2>2. CASE r.at = "insert" /\ UNCHANGED <<v1, v2>>
    BY <1>1, <2>2
  <2>3. CASE r.at = "insert" /\ v1' = v1 \cup {<<t, r.i>>} /\ v2' = v2
    BY <1>1, <1>10, <1>16, <2>3
  <2>4. CASE r.at = "record" /\ v1' = v1 /\ (v2' = v2 \/ v2' = v1)
    BY <1>1, <2>4
  <2>5. QED
    BY <1>3, <2>1, <2>2, <2>3, <2>4
<1>6. ASSUME NEW n \in FRec, n.at = "list", n.i = r.i, n.files = r.files, n.found = r.found
      PROVE  FState(t, n, v, d, o, copying, l)
  <2>1. l = 0 /\ copying \subseteq {} \cup copying
    BY <1>1, <1>5 DEF FState
  <2>2. \A j \in v \cup d \cup disk \cup copying : j <= r.i
    BY <1>1, <1>5 DEF FState
  <2>3. copying = {}
    BY <1>1, <1>5, <2>1 DEF FState
  <2>4. o \subseteq v /\ o \subseteq disk
    <3>1. ASSUME NEW j \in disk, j # r.i PROVE j \in view
      <4>1. j \in 0..(r.i - 1)
        BY <1>1, <2>2, <3>1
      <4>2. QED
        BY <1>1, <1>5, <4>1 DEF FState
    <3>2. QED
      BY <1>5, <1>10, <1>12, <3>1
  <2>5. n.i <= Len(n.files) /\ 0 \notin disk
    BY <1>1, <1>6 DEF FState
  <2>6. QED
    BY <1>6, <2>1, <2>2, <2>3, <2>4, <2>5 DEF FState
<1>7. "list" \in FAts /\ v5[t].at # "started" /\ (v2' = v2 \/ v2' = v1)
  BY <1>1, <1>3 DEF FAts
<1>8. FOf(v4', t) = copying
  BY <1>1, <1>2
<1>9. QED
  <2>1. FFits(t, "list", FOf(v1', t), FOf(v2', t), FOf(v3', t), FOf(v4', t))
    BY <1>1, <1>5, <1>6, <1>8, <1>12 DEF FFits
  <2>2. v6' = v6 /\ v7' = v7 /\ F!Goto(t, "list")
    BY <1>2
  <2>3. QED
    BY <1>7, <1>12, <1>13, <1>16, <2>1, <2>2, FRowStep

\* The steps of a clean-up after its rows are listed.
LEMMA FDeleteStep ==
  ASSUME FInv, NEW t \in FileTurns, F!Delete(t)
  PROVE  FInv'
<1>1. PICK r \in FRec, view \in SUBSET Nat, db \in SUBSET Nat, disk \in SUBSET Nat,
           copying \in SUBSET Nat, l \in {0, 1} :
        /\ r = v5[t] /\ view = FOf(v1, t) /\ db = FOf(v2, t) /\ disk = FOf(v3, t)
        /\ copying = FOf(v4, t) /\ l = FLeft(t) /\ (l = 1 <=> t \in v7)
        /\ FState(t, r, view, db, disk, copying, l)
        /\ r.i \in Nat /\ Len(r.files) \in Nat
  BY FNow
<1>2. /\ F!Goto(t, "settle") /\ r.at = "delete" /\ UNCHANGED <<v2, v3, v4, v6, v7>>
      /\ v1' = v1 \ ({t} \X (0..Len(r.files)))
  BY <1>1 DEF F!Delete, F!At, F!RowsOf
<1>3. /\ v3' \in SUBSET FRows /\ FOnly(v3', v3, t) /\ v4' \in SUBSET FRows /\ FOnly(v4', v4, t)
  BY <1>2, FParts DEF FOnly
<1>4. v1' \in SUBSET FRows
  BY <1>2, FParts
<1>5. FOnly(v1', v1, t)
  BY <1>2 DEF FOnly, FOf
<1>6. FOf(v1', t) = {}
  <2>1. \A j \in view : j \in 0..Len(r.files)
    BY <1>1 DEF FState
  <2>2. QED
    BY <1>1, <1>2, <2>1 DEF FOf
<1>7. ASSUME NEW n \in FRec, n.at = "settle", n.i = r.i, n.files = r.files, n.found = r.found
      PROVE  FState(t, n, {}, db, disk, copying, l)
  BY <1>1, <1>2, <1>7 DEF FState
<1>8. FOf(v2', t) = db /\ FOf(v3', t) = disk /\ FOf(v4', t) = copying
  BY <1>1, <1>2
<1>9. QED
  <2>1. FFits(t, "settle", FOf(v1', t), FOf(v2', t), FOf(v3', t), FOf(v4', t))
    BY <1>1, <1>6, <1>7, <1>8 DEF FFits
  <2>2. /\ v6' = v6 /\ v7' = v7 /\ v2' = v2 /\ v5[t].at # "started" /\ "settle" \in FAts
    BY <1>1, <1>2 DEF FAts
  <2>3. QED
    BY <1>2, <1>3, <1>4, <1>5, <2>1, <2>2, FRowStep

LEMMA FSettleStep ==
  ASSUME FInv, NEW t \in FileTurns, F!Settle(t)
  PROVE  FInv'
<1>1. PICK r \in FRec, view \in SUBSET Nat, db \in SUBSET Nat, disk \in SUBSET Nat,
           copying \in SUBSET Nat, l \in {0, 1} :
        /\ r = v5[t] /\ view = FOf(v1, t) /\ db = FOf(v2, t) /\ disk = FOf(v3, t)
        /\ copying = FOf(v4, t) /\ l = FLeft(t) /\ (l = 1 <=> t \in v7)
        /\ FState(t, r, view, db, disk, copying, l)
        /\ r.i \in Nat /\ Len(r.files) \in Nat
  BY FNow
<1>2. /\ F!Goto(t, "unlink") /\ r.at = "settle" /\ UNCHANGED <<v1, v3, v4, v6, v7>> /\ v2' = v1
  BY <1>1 DEF F!Settle, F!At
<1>3. /\ v1' \in SUBSET FRows /\ FOnly(v1', v1, t) /\ v3' \in SUBSET FRows
      /\ FOnly(v3', v3, t) /\ v4' \in SUBSET FRows /\ FOnly(v4', v4, t)
  BY <1>2, FParts DEF FOnly
<1>4. ASSUME NEW n \in FRec, n.at = "unlink", n.i = r.i, n.files = r.files, n.found = r.found
      PROVE  FState(t, n, view, view, disk, copying, l)
  BY <1>1, <1>2, <1>4 DEF FState
<1>5. FOf(v1', t) = view /\ FOf(v2', t) = view /\ FOf(v3', t) = disk /\ FOf(v4', t) = copying
  BY <1>1, <1>2
<1>6. QED
  <2>1. FFits(t, "unlink", FOf(v1', t), FOf(v2', t), FOf(v3', t), FOf(v4', t))
    BY <1>1, <1>4, <1>5 DEF FFits
  <2>2. v6' = v6 /\ v7' = v7 /\ v5[t].at # "started" /\ "unlink" \in FAts
    BY <1>1, <1>2 DEF FAts
  <2>3. QED
    BY <1>2, <1>3, <2>1, <2>2, FRowStep

LEMMA FUnlinkStep ==
  ASSUME FInv, NEW t \in FileTurns, F!Unlink(t)
  PROVE  FInv'
<1>1. PICK r \in FRec, view \in SUBSET Nat, db \in SUBSET Nat, disk \in SUBSET Nat,
           copying \in SUBSET Nat, l \in {0, 1} :
        /\ r = v5[t] /\ view = FOf(v1, t) /\ db = FOf(v2, t) /\ disk = FOf(v3, t)
        /\ copying = FOf(v4, t) /\ l = FLeft(t) /\ (l = 1 <=> t \in v7)
        /\ FState(t, r, view, db, disk, copying, l)
        /\ r.i \in Nat /\ Len(r.files) \in Nat
  BY FNow
<1>2. /\ F!Goto(t, "gone") /\ r.at = "unlink" /\ UNCHANGED <<v1, v2, v4, v6, v7>>
      /\ v3' = v3 \ r.found
  BY <1>1 DEF F!Unlink, F!At
<1>3. /\ v1' \in SUBSET FRows /\ FOnly(v1', v1, t) /\ v4' \in SUBSET FRows /\ FOnly(v4', v4, t)
  BY <1>2, FParts DEF FOnly
<1>4. r.found \subseteq {t} \X Nat /\ (l = 0 => disk \subseteq FOf(r.found, t))
  BY <1>1, <1>2 DEF FState
<1>5. v3' \in SUBSET FRows
  BY <1>2, FParts
<1>6. FOnly(v3', v3, t)
  BY <1>2, <1>4 DEF FOnly, FOf
<1>7. PICK o : o = FOf(v3', t)
  OBVIOUS
<1>8. o \subseteq disk /\ (l = 0 => o = {})
  BY <1>1, <1>2, <1>4, <1>7 DEF FOf
<1>9. ASSUME NEW n \in FRec, n.at = "gone", n.i = r.i, n.files = r.files, n.found = r.found
      PROVE  FState(t, n, view, db, o, copying, l)
  <2>1. view = {} /\ db = {} /\ (l = 0 => copying = {})
    BY <1>1, <1>2 DEF FState
  <2>2. QED
    BY <1>1, <1>2, <1>8, <1>9, <2>1 DEF FState
<1>10. FOf(v1', t) = view /\ FOf(v2', t) = db /\ FOf(v4', t) = copying
  BY <1>1, <1>2
<1>11. QED
  <2>1. FFits(t, "gone", FOf(v1', t), FOf(v2', t), FOf(v3', t), FOf(v4', t))
    BY <1>1, <1>7, <1>9, <1>10 DEF FFits
  <2>2. v6' = v6 /\ v7' = v7 /\ v2' = v2 /\ v5[t].at # "started" /\ "gone" \in FAts
    BY <1>1, <1>2 DEF FAts
  <2>3. QED
    BY <1>2, <1>3, <1>5, <1>6, <2>1, <2>2, FRowStep

LEMMA FListStep ==
  ASSUME FInv, NEW t \in FileTurns, F!List(t)
  PROVE  FInv'
<1>1. PICK r \in FRec, view \in SUBSET Nat, db \in SUBSET Nat, disk \in SUBSET Nat,
           copying \in SUBSET Nat, l \in {0, 1} :
        /\ r = v5[t] /\ view = FOf(v1, t) /\ db = FOf(v2, t) /\ disk = FOf(v3, t)
        /\ copying = FOf(v4, t) /\ l = FLeft(t) /\ (l = 1 <=> t \in v7)
        /\ FState(t, r, view, db, disk, copying, l)
        /\ r.i \in Nat /\ Len(r.files) \in Nat
  BY FNow
<1>2. PICK found \in SUBSET FRows : found = v1 \cap ({t} \X (1..Len(r.files)))
  BY FParts
<1>3. PICK n : n = [r EXCEPT !.at = "delete", !.found = found]
  OBVIOUS
<1>4. /\ n \in FRec /\ n.at = "delete" /\ n.i = r.i /\ n.files = r.files /\ n.found = found
  BY <1>3 DEF FRec, FAts
<1>5. /\ r.at = "list" /\ UNCHANGED <<v1, v2, v3, v4, v6, v7>> /\ v5' = [v5 EXCEPT ![t] = n]
  BY <1>1, <1>2, <1>3 DEF F!List, F!At, F!CopiesOf
<1>6. /\ v1' \in SUBSET FRows /\ FOnly(v1', v1, t) /\ v3' \in SUBSET FRows /\ FOnly(v3', v3, t)
      /\ v4' \in SUBSET FRows /\ FOnly(v4', v4, t) /\ v7' \subseteq FileTurns
  BY <1>5, FParts DEF FOnly
<1>7. found \subseteq {t} \X Nat
  BY <1>2
<1>8. l = 0 => disk \subseteq FOf(found, t)
  <2>1. ASSUME l = 0, NEW j \in disk PROVE <<t, j>> \in found
    <3>1. j \in view /\ j \in 1..Len(r.files)
      BY <1>1, <1>5, <2>1 DEF FState
    <3>2. <<t, j>> \in v1
      BY <1>1, <3>1 DEF FOf
    <3>3. QED
      BY <1>2, <3>1, <3>2
  <2>2. QED
    BY <2>1 DEF FOf
<1>9. FState(t, n, view, db, disk, copying, l)
  BY <1>1, <1>4, <1>5, <1>7, <1>8 DEF FState
<1>10. v5' \in [FileTurns -> FRec] /\ v5'[t] = n /\ \A s \in FileTurns \ {t} : v5'[s] = v5[s]
  BY <1>4, <1>5, FParts
<1>11. FTurn(t)'
  <2>1. /\ view = FOf(v1', t) /\ db = FOf(v2', t) /\ disk = FOf(v3', t) /\ copying = FOf(v4', t)
        /\ l = FLeft(t)'
    BY <1>1, <1>5 DEF FLeft
  <2>2. QED
    BY <1>9, <1>10, <2>1 DEF FTurn
<1>12. v5[t].at # "started" /\ v6' = v6 /\ v2' = v2 /\ v7' = v7
  BY <1>1, <1>5
<1>13. QED
  BY <1>6, <1>10, <1>11, <1>12, FStep

LEMMA FDropStep ==
  ASSUME FInv, NEW t \in FileTurns, NEW tokens \in FileDrops, F!Drop(t, tokens)
  PROVE  FInv'
<1>1. PICK r \in FRec, view \in SUBSET Nat, db \in SUBSET Nat, disk \in SUBSET Nat,
           copying \in SUBSET Nat, l \in {0, 1} :
        /\ r = v5[t] /\ view = FOf(v1, t) /\ db = FOf(v2, t) /\ disk = FOf(v3, t)
        /\ copying = FOf(v4, t) /\ l = FLeft(t) /\ (l = 1 <=> t \in v7)
        /\ FState(t, r, view, db, disk, copying, l)
        /\ r.i \in Nat /\ Len(r.files) \in Nat
  BY FNow
<1>2. PICK f \in FDrafts : f = F!Draft(tokens)
  BY DEF FDrafts
<1>3. PICK at \in {"message", "refused"} : at = IF F!Acceptable(f) THEN "message" ELSE "refused"
  OBVIOUS
<1>4. PICK n : n = [r EXCEPT !.files = f, !.at = at]
  OBVIOUS
<1>5. /\ n \in FRec /\ n.at = at /\ n.i = r.i /\ n.files = f /\ Len(f) \in Nat
  BY <1>4, FSizes DEF FRec, FAts
<1>6. /\ r.at = "new" /\ UNCHANGED <<v1, v2, v3, v4, v6, v7>> /\ v5' = [v5 EXCEPT ![t] = n]
  BY <1>1, <1>2, <1>3, <1>4 DEF F!Drop, F!At
<1>7. /\ v1' \in SUBSET FRows /\ FOnly(v1', v1, t) /\ v3' \in SUBSET FRows /\ FOnly(v3', v3, t)
      /\ v4' \in SUBSET FRows /\ FOnly(v4', v4, t) /\ v7' \subseteq FileTurns
  BY <1>6, FParts DEF FOnly
<1>8. FState(t, n, view, db, disk, copying, l)
  <2>1. view \cup db \cup disk \cup copying = {} /\ r.i = 0 /\ l = 0
    BY <1>1, <1>6 DEF FState
  <2>2. QED
    BY <1>1, <1>3, <1>5, <2>1 DEF FState
<1>9. v5' \in [FileTurns -> FRec] /\ v5'[t] = n /\ \A s \in FileTurns \ {t} : v5'[s] = v5[s]
  BY <1>5, <1>6, FParts
<1>10. FTurn(t)'
  <2>1. /\ view = FOf(v1', t) /\ db = FOf(v2', t) /\ disk = FOf(v3', t) /\ copying = FOf(v4', t)
        /\ l = FLeft(t)'
    BY <1>1, <1>6 DEF FLeft
  <2>2. QED
    BY <1>8, <1>9, <2>1 DEF FTurn
<1>11. v5[t].at # "started" /\ v6' = v6 /\ v2' = v2 /\ v7' = v7
  BY <1>1, <1>6
<1>12. QED
  BY <1>7, <1>9, <1>10, <1>11, FStep

\* The commit of the message, or of an attachment's row.
LEMMA FCommitStep ==
  ASSUME FInv, NEW t \in FileTurns, F!Commit(t)
  PROVE  FInv'
<1>1. PICK r \in FRec, view \in SUBSET Nat, db \in SUBSET Nat, disk \in SUBSET Nat,
           copying \in SUBSET Nat, l \in {0, 1} :
        /\ r = v5[t] /\ view = FOf(v1, t) /\ db = FOf(v2, t) /\ disk = FOf(v3, t)
        /\ copying = FOf(v4, t) /\ l = FLeft(t) /\ (l = 1 <=> t \in v7)
        /\ FState(t, r, view, db, disk, copying, l)
        /\ r.i \in Nat /\ Len(r.files) \in Nat
  BY FNow
<1>2. PICK at \in {"started", "build", "copy"} :
        at = IF r.files = <<>> THEN "started" ELSE IF r.i = Len(r.files) THEN "build" ELSE "copy"
  OBVIOUS
<1>3. PICK i : i = IF r.i < Len(r.files) THEN r.i + 1 ELSE r.i
  OBVIOUS
<1>4. PICK n : n = [r EXCEPT !.at = at, !.i = i]
  OBVIOUS
<1>5. i \in Nat
  BY <1>1, <1>3
<1>6. /\ n \in FRec /\ n.at = at /\ n.i = i /\ n.files = r.files
  BY <1>4, <1>5 DEF FRec, FAts
<1>7. /\ r.at \in {"publish", "record"} /\ UNCHANGED <<v1, v3, v4, v6, v7>> /\ v2' = v1
      /\ v5' = [v5 EXCEPT ![t] = n]
  BY <1>1, <1>2, <1>3, <1>4 DEF F!Commit, F!Proceed, F!At
<1>8. /\ v1' \in SUBSET FRows /\ FOnly(v1', v1, t) /\ v3' \in SUBSET FRows /\ FOnly(v3', v3, t)
      /\ v4' \in SUBSET FRows /\ FOnly(v4', v4, t) /\ v7' \subseteq FileTurns
  BY <1>7, FParts DEF FOnly
<1>9. FState(t, n, view, view, disk, copying, l)
  <2>1. /\ r.i <= Len(r.files) /\ \A j \in view \cup disk : j <= r.i
        /\ copying = {} /\ l = 0 /\ 0 \notin disk
    BY <1>1, <1>7 DEF FState
  <2>2. \A j \in 0..r.i : j \in view /\ (j # 0 => j \in disk)
    <3>1. CASE r.at = "publish"
      <4>1. r.i = 0 /\ 0 \in view
        BY <1>1, <3>1 DEF FState
      <4>2. QED
        BY <4>1
    <3>2. CASE r.at = "record"
      <4>1. /\ \A j \in 0..(r.i - 1) : j \in view /\ (j # 0 => j \in disk)
            /\ r.i \in view /\ r.i \in disk
        BY <1>1, <3>2 DEF FState
      <4>2. \A j \in 0..r.i : j = r.i \/ j \in 0..(r.i - 1)
        BY <1>1
      <4>3. QED
        BY <4>1, <4>2
    <3>3. QED
      BY <1>7, <3>1, <3>2
  <2>3. CASE r.files = <<>>
    <3>1. Len(r.files) = 0 /\ r.i = 0 /\ i = 0 /\ at = "started"
      BY <1>1, <1>2, <1>3, <2>1, <2>3, FSizes
    <3>2. QED
      BY <1>1, <1>6, <2>1, <2>2, <3>1 DEF FState
  <2>4. CASE r.files # <<>> /\ r.i = Len(r.files)
    <3>1. i = r.i /\ at = "build"
      BY <1>1, <1>2, <1>3, <2>4
    <3>2. QED
      BY <1>1, <1>6, <2>1, <2>2, <2>4, <3>1 DEF FState
  <2>5. CASE r.files # <<>> /\ r.i # Len(r.files)
    <3>1. i = r.i + 1 /\ at = "copy" /\ i <= Len(r.files) /\ i >= 1 /\ i - 1 = r.i
      BY <1>1, <1>2, <1>3, <2>1, <2>5
    <3>2. i \notin view /\ i \notin disk /\ \A j \in view \cup disk : j <= i
      BY <1>1, <2>1, <3>1
    <3>3. QED
      BY <1>1, <1>5, <1>6, <2>1, <2>2, <3>1, <3>2 DEF FState
  <2>6. QED
    BY <2>3, <2>4, <2>5
<1>10. v5' \in [FileTurns -> FRec] /\ v5'[t] = n /\ \A s \in FileTurns \ {t} : v5'[s] = v5[s]
  BY <1>6, <1>7, FParts
<1>11. FTurn(t)'
  <2>1. /\ view = FOf(v1', t) /\ view = FOf(v2', t) /\ disk = FOf(v3', t)
        /\ copying = FOf(v4', t) /\ l = FLeft(t)'
    BY <1>1, <1>7 DEF FLeft
  <2>2. QED
    BY <1>9, <1>10, <2>1 DEF FTurn
<1>12. v5[t].at # "started" /\ v6' = v6 /\ v2' = v1 /\ v7' = v7
  BY <1>1, <1>7
<1>13. QED
  BY <1>8, <1>10, <1>11, <1>12, FStep

\* The run starts, and the attachments are to be indexed.
LEMMA FBuildStep ==
  ASSUME FInv, NEW t \in FileTurns, F!Build(t)
  PROVE  FInv'
<1>1. PICK r \in FRec, view \in SUBSET Nat, db \in SUBSET Nat, disk \in SUBSET Nat,
           copying \in SUBSET Nat, l \in {0, 1} :
        /\ r = v5[t] /\ view = FOf(v1, t) /\ db = FOf(v2, t) /\ disk = FOf(v3, t)
        /\ copying = FOf(v4, t) /\ l = FLeft(t) /\ (l = 1 <=> t \in v7)
        /\ FState(t, r, view, db, disk, copying, l)
        /\ r.i \in Nat /\ Len(r.files) \in Nat
  BY FNow
<1>2. /\ F!Goto(t, "started") /\ r.at = "build" /\ UNCHANGED <<v1, v2, v3, v4, v7>>
      /\ v6' = [v6 EXCEPT !.doing = @ \cup ({t} \X (1..Len(r.files)))]
  BY <1>1 DEF F!Build, F!At, F!CopiesOf
<1>3. "started" \in FAts
  BY DEF FAts
<1>4. FMoved(t, "started")
  BY <1>2, <1>3, FGoes
<1>5. /\ v1' \in SUBSET FRows /\ FOnly(v1', v1, t) /\ v3' \in SUBSET FRows /\ FOnly(v3', v3, t)
      /\ v4' \in SUBSET FRows /\ FOnly(v4', v4, t) /\ v7' \subseteq FileTurns
  BY <1>2, FParts DEF FOnly
<1>6. ASSUME NEW n \in FRec, n.at = "started", n.i = r.i, n.files = r.files, n.found = r.found
      PROVE  FState(t, n, view, db, disk, copying, l)
  BY <1>1, <1>2, <1>6 DEF FState
<1>7. FTurn(t)'
  <2>1. /\ view = FOf(v1', t) /\ db = FOf(v2', t) /\ disk = FOf(v3', t) /\ copying = FOf(v4', t)
        /\ l = FLeft(t)'
    BY <1>1, <1>2 DEF FLeft
  <2>2. QED
    BY <1>1, <1>4, <1>6, <2>1, FThen
<1>8. v5' \in [FileTurns -> FRec] /\ \A s \in FileTurns \ {t} : v5'[s] = v5[s]
  BY <1>4 DEF FMoved
<1>9. v6 \in [doing : {v6.doing}, done : {v6.done}]
  BY DEF FInv, FTyped
<1>10. /\ v6'.doing = v6.doing \cup ({t} \X (1..Len(r.files))) /\ v6'.done = v6.done
       /\ v6' \in [doing : {v6'.doing}, done : {v6'.done}]
  BY <1>2, <1>9
<1>11. FIndexed'
  <2>1. v5'[t].at = "started"
    BY <1>4 DEF FMoved
  <2>2. ASSUME NEW a \in v6'.doing \cup v6'.done PROVE a[1] \in FileTurns /\ v5'[a[1]].at = "started"
    <3>1. CASE a \in {t} \X (1..Len(r.files))
      BY <2>1, <3>1
    <3>2. CASE a \in v6.doing \cup v6.done
      <4>1. a[1] \in FileTurns /\ v5[a[1]].at = "started"
        BY <3>2 DEF FInv, FIndexed
      <4>2. QED
        BY <1>8, <2>1, <4>1
    <3>3. QED
      BY <1>10, <2>2, <3>1, <3>2
  <2>3. QED
    BY <2>2 DEF FIndexed
<1>12. ASSUME NEW s \in FileTurns \ {t} PROVE FTurn(s)'
  <2>1. FTurn(s) /\ v5'[s] = v5[s] /\ FLeft(s)' = FLeft(s)
    BY <1>2, <1>8, FParts DEF FLeft
  <2>2. QED
    BY <1>2, <2>1 DEF FTurn
<1>13. FTyped'
  BY <1>2, <1>5, <1>8, <1>10, FParts DEF FTyped
<1>14. QED
  BY <1>7, <1>11, <1>12, <1>13 DEF FInv

\* The memory learns of an attachment.
LEMMA FIndexStep ==
  ASSUME FInv, NEW a \in v6.doing, F!Index(a)
  PROVE  FInv'
<1>1. /\ UNCHANGED <<v1, v2, v3, v4, v5, v7>>
      /\ v6' = [doing |-> v6.doing \ {a}, done |-> v6.done \cup {a}]
  BY DEF F!Index
<1>2. /\ v6'.doing = v6.doing \ {a} /\ v6'.done = v6.done \cup {a}
      /\ v6' \in [doing : {v6'.doing}, done : {v6'.done}]
  BY <1>1
<1>3. FTyped'
  BY <1>1, <1>2 DEF FInv, FTyped
<1>4. FIndexed'
  BY <1>1, <1>2 DEF FInv, FIndexed
<1>5. ASSUME NEW t \in FileTurns PROVE FTurn(t)'
  <2>1. FTurn(t) /\ FLeft(t)' = FLeft(t)
    BY <1>1 DEF FInv, FLeft
  <2>2. QED
    BY <1>1, <2>1 DEF FTurn
<1>6. QED
  BY <1>3, <1>4, <1>5 DEF FInv

\* A copy is made.
LEMMA FEndCopyStep ==
  ASSUME FInv, NEW t \in FileTurns, NEW k \in Nat, <<t, k>> \in v4, F!EndCopy(<<t, k>>)
  PROVE  FInv'
<1>1. PICK r \in FRec, view \in SUBSET Nat, db \in SUBSET Nat, disk \in SUBSET Nat,
           copying \in SUBSET Nat, l \in {0, 1} :
        /\ r = v5[t] /\ view = FOf(v1, t) /\ db = FOf(v2, t) /\ disk = FOf(v3, t)
        /\ copying = FOf(v4, t) /\ l = FLeft(t) /\ (l = 1 <=> t \in v7)
        /\ FState(t, r, view, db, disk, copying, l)
        /\ r.i \in Nat /\ Len(r.files) \in Nat
  BY FNow
<1>2. k \in copying /\ k # 0 /\ k \notin disk /\ k <= r.i
      /\ (l = 1 \/ (k = r.i /\ r.at \in {"copying", "waiting"}))
  <2>1. k \in copying
    BY <1>1, FHas
  <2>2. QED
    BY <1>1, <2>1 DEF FState
<1>3. v1 \in SUBSET FRows /\ v3 \in SUBSET FRows /\ v4 \in SUBSET FRows /\ v7 \subseteq FileTurns
  BY FParts
<1>4. v4' \in SUBSET FRows /\ FOnly(v4', v4, t) /\ FOf(v4', t) = copying \ {k}
  <2>1. FRemoves(v4', v4, t, k)
    BY DEF F!EndCopy, F!CopyFails, FRemoves
  <2>2. v4' \in SUBSET FRows /\ FOnly(v4', v4, t) /\ FOf(v4', t) = FOf(v4, t) \ {k}
    <3>1. v4 \in SUBSET FRows /\ t \in FileTurns /\ k \in Nat
      BY <1>3
    <3>2. v4' \in SUBSET FRows /\ FOnly(v4', v4, t)
      BY ONLY <2>1, <3>1, FMinus
    <3>3. FOf(v4', t) = FOf(v4, t) \ {k}
      BY ONLY <2>1, <3>1, FMinus
    <3>4. QED
      BY <3>2, <3>3
  <2>3. QED
    BY <1>1, <2>2
<1>5. v1' \in SUBSET FRows /\ FOnly(v1', v1, t) /\ v2' = v2 /\ v6' = v6 /\ v7' = v7
  <2>1. v1' = v1 /\ v2' = v2 /\ v6' = v6 /\ v7' = v7
    BY DEF F!EndCopy, F!CopyFails
  <2>2. QED
    BY <1>3, <2>1 DEF FOnly
<1>6. FOf(v1', t) = view /\ FOf(v2', t) = db
  <2>1. v1' = v1 /\ v2' = v2
    BY DEF F!EndCopy, F!CopyFails
  <2>2. QED
    BY <1>1, <2>1
<1>7. PICK c : c = FOf(v4', t)
  OBVIOUS
<1>8. c = copying \ {k}
  BY <1>4, <1>7
<1>9. v5[t].at # "started"
  BY <1>1, <1>2 DEF FState
<1>10. v3' \in SUBSET FRows /\ FOnly(v3', v3, t) /\ FOf(v3', t) = disk \cup {k}
  <2>1. FAdds(v3', v3, t, k)
    BY DEF F!EndCopy, FAdds
  <2>2. v3' \in SUBSET FRows /\ FOnly(v3', v3, t) /\ FOf(v3', t) = FOf(v3, t) \cup {k}
    <3>1. v3 \in SUBSET FRows /\ t \in FileTurns /\ k \in Nat
      BY <1>3
    <3>2. QED
      BY ONLY <2>1, <3>1, FPlus
  <2>3. QED
    BY <1>1, <2>2
<1>11. PICK o : o = FOf(v3', t)
  OBVIOUS
<1>12. o = disk \cup {k}
  BY <1>10, <1>11
<1>13. \/ r.at = "copying" /\ r.i = k /\ F!Goto(t, "insert")
       \/ v5' = v5 /\ ~(r.at = "copying" /\ r.i = k)
  BY <1>1 DEF F!EndCopy, F!At, F!Current
<1>14. QED
  <2>1. CASE r.at = "copying" /\ r.i = k /\ F!Goto(t, "insert")
    <3>1. ASSUME NEW n \in FRec, n.at = "insert", n.i = r.i, n.files = r.files, n.found = r.found
          PROVE  FState(t, n, view, db, o, c, l)
      <4>1. l = 0 /\ c = {}
        BY <1>1, <1>8, <2>1 DEF FState
      <4>2. QED
        BY <1>1, <1>2, <1>12, <2>1, <3>1, <4>1 DEF FState
    <3>2. FFits(t, "insert", FOf(v1', t), FOf(v2', t), FOf(v3', t), FOf(v4', t))
      BY <1>1, <1>6, <1>7, <1>11, <3>1 DEF FFits
    <3>3. "insert" \in FAts
      BY DEF FAts
    <3>4. QED
      BY <1>4, <1>5, <1>9, <1>10, <2>1, <3>2, <3>3, FRowStep
  <2>2. CASE v5' = v5 /\ ~(r.at = "copying" /\ r.i = k)
    <3>1. FState(t, r, view, db, o, c, l)
      BY <1>1, <1>2, <1>8, <1>12, <2>2 DEF FState
    <3>2. FTurn(t)'
      <4>1. FLeft(t)' = l /\ v5'[t] = r
        BY <1>1, <1>5, <2>2 DEF FLeft
      <4>2. QED
        BY <1>6, <1>7, <1>11, <3>1, <4>1 DEF FTurn
    <3>3. v5' \in [FileTurns -> FRec] /\ \A s \in FileTurns \ {t} : v5'[s] = v5[s]
      BY <2>2, FParts
    <3>4. v7' \subseteq FileTurns /\ \A s \in FileTurns \ {t} : s \in v7' <=> s \in v7
      BY <1>3, <1>5
    <3>5. QED
      BY <1>4, <1>5, <1>9, <1>10, <3>2, <3>3, <3>4, FStep
  <2>3. QED
    BY <1>13, <2>1, <2>2

\* A copy fails, seen by the turn that waits for it or by nobody.
LEMMA FCopyFailsStep ==
  ASSUME FInv, NEW t \in FileTurns, NEW k \in Nat, <<t, k>> \in v4, F!CopyFails(<<t, k>>)
  PROVE  FInv'
<1>1. PICK r \in FRec, view \in SUBSET Nat, db \in SUBSET Nat, disk \in SUBSET Nat,
           copying \in SUBSET Nat, l \in {0, 1} :
        /\ r = v5[t] /\ view = FOf(v1, t) /\ db = FOf(v2, t) /\ disk = FOf(v3, t)
        /\ copying = FOf(v4, t) /\ l = FLeft(t) /\ (l = 1 <=> t \in v7)
        /\ FState(t, r, view, db, disk, copying, l)
        /\ r.i \in Nat /\ Len(r.files) \in Nat
  BY FNow
<1>2. k \in copying /\ k # 0 /\ k \notin disk /\ k <= r.i
      /\ (l = 1 \/ (k = r.i /\ r.at \in {"copying", "waiting"}))
  <2>1. k \in copying
    BY <1>1, FHas
  <2>2. QED
    BY <1>1, <2>1 DEF FState
<1>3. v1 \in SUBSET FRows /\ v3 \in SUBSET FRows /\ v4 \in SUBSET FRows /\ v7 \subseteq FileTurns
  BY FParts
<1>4. v4' \in SUBSET FRows /\ FOnly(v4', v4, t) /\ FOf(v4', t) = copying \ {k}
  <2>1. FRemoves(v4', v4, t, k)
    BY DEF F!EndCopy, F!CopyFails, FRemoves
  <2>2. v4' \in SUBSET FRows /\ FOnly(v4', v4, t) /\ FOf(v4', t) = FOf(v4, t) \ {k}
    <3>1. v4 \in SUBSET FRows /\ t \in FileTurns /\ k \in Nat
      BY <1>3
    <3>2. v4' \in SUBSET FRows /\ FOnly(v4', v4, t)
      BY ONLY <2>1, <3>1, FMinus
    <3>3. FOf(v4', t) = FOf(v4, t) \ {k}
      BY ONLY <2>1, <3>1, FMinus
    <3>4. QED
      BY <3>2, <3>3
  <2>3. QED
    BY <1>1, <2>2
<1>5. v1' \in SUBSET FRows /\ FOnly(v1', v1, t) /\ v2' = v2 /\ v6' = v6 /\ v7' = v7
  <2>1. v1' = v1 /\ v2' = v2 /\ v6' = v6 /\ v7' = v7
    BY DEF F!EndCopy, F!CopyFails
  <2>2. QED
    BY <1>3, <2>1 DEF FOnly
<1>6. FOf(v1', t) = view /\ FOf(v2', t) = db
  <2>1. v1' = v1 /\ v2' = v2
    BY DEF F!EndCopy, F!CopyFails
  <2>2. QED
    BY <1>1, <2>1
<1>7. PICK c : c = FOf(v4', t)
  OBVIOUS
<1>8. c = copying \ {k}
  BY <1>4, <1>7
<1>9. v5[t].at # "started"
  BY <1>1, <1>2 DEF FState
<1>10. \/ r.at \in {"copying", "waiting"} /\ r.i = k /\ F!Goto(t, "list") /\ v3' = v3
       \/ v5' = v5 /\ ~(r.at \in {"copying", "waiting"} /\ r.i = k)
            /\ (v3' = v3 \/ v3' = v3 \cup {<<t, k>>})
  BY <1>1 DEF F!CopyFails, F!At, F!Current
<1>11. v3' \in SUBSET FRows /\ FOnly(v3', v3, t) /\ FOf(v3', t) \in {disk, disk \cup {k}}
  <2>1. CASE v3' = v3
    BY <1>1, <1>3, <2>1 DEF FOnly
  <2>2. CASE v3' = v3 \cup {<<t, k>>}
    <3>1. FAdds(v3', v3, t, k)
      BY <2>2 DEF FAdds
    <3>2. v3' \in SUBSET FRows /\ FOnly(v3', v3, t) /\ FOf(v3', t) = FOf(v3, t) \cup {k}
      <4>1. v3 \in SUBSET FRows /\ t \in FileTurns /\ k \in Nat
        BY <1>3
      <4>2. QED
        BY ONLY <3>1, <4>1, FPlus
    <3>3. QED
      BY <1>1, <3>2
  <2>3. QED
    BY <1>10, <2>1, <2>2
<1>12. PICK o : o = FOf(v3', t)
  OBVIOUS
<1>13. disk \subseteq o /\ o \subseteq disk \cup {k}
  BY <1>11, <1>12
<1>14. CASE r.at \in {"copying", "waiting"} /\ r.i = k /\ F!Goto(t, "list") /\ v3' = v3
  <2>1. o = disk
    BY <1>1, <1>12, <1>14
  <2>2. ASSUME NEW n \in FRec, n.at = "list", n.i = r.i, n.files = r.files, n.found = r.found
        PROVE  FState(t, n, view, db, o, c, l)
    <3>1. l = 0 /\ c = {}
      BY <1>1, <1>8, <1>14 DEF FState
    <3>2. disk \subseteq view
      <4>1. ASSUME NEW j \in disk PROVE j \in view
        <5>1. j # r.i /\ j <= r.i
          BY <1>1, <1>2, <1>14, <4>1 DEF FState
        <5>2. j \in 0..(r.i - 1)
          BY <1>1, <5>1
        <5>3. QED
          BY <1>1, <1>14, <5>2 DEF FState
      <4>2. QED
        BY <4>1
    <3>3. QED
      BY <1>1, <1>14, <2>1, <2>2, <3>1, <3>2 DEF FState
  <2>3. FFits(t, "list", FOf(v1', t), FOf(v2', t), FOf(v3', t), FOf(v4', t))
    BY <1>1, <1>6, <1>7, <1>12, <2>2 DEF FFits
  <2>4. "list" \in FAts
    BY DEF FAts
  <2>5. QED
    BY <1>4, <1>5, <1>9, <1>11, <1>14, <2>3, <2>4, FRowStep
<1>15. CASE v5' = v5 /\ ~(r.at \in {"copying", "waiting"} /\ r.i = k)
  <2>1. FState(t, r, view, db, o, c, l)
    <3>1. l = 1
      BY <1>2, <1>15
    <3>2. r.at \in {"list", "delete", "settle", "unlink", "gone", "died_discarding"}
      BY <1>1, <3>1 DEF FState
    <3>3. \A j \in view \cup db \cup o \cup c : j <= r.i
      BY <1>1, <1>2, <1>8, <1>13 DEF FState
    <3>4. (\A j \in c : j # 0 /\ j \notin o) /\ 0 \notin o
      BY <1>1, <1>2, <1>8, <1>13 DEF FState
    <3>5. /\ r.i <= Len(r.files) /\ (r.at = "settle" => view = {})
          /\ (r.at = "unlink" => view = {} /\ db = {})
          /\ (r.at \in {"delete", "settle", "unlink"} => r.found \subseteq {t} \X Nat)
      BY <1>1 DEF FState
    <3>6. /\ r.at \notin {"new", "message", "refused", "publish", "cut", "copy", "copying",
                        "insert", "record", "waiting", "build", "started", "died"}
          /\ l # 0
      BY ONLY <3>1, <3>2
    <3>7. QED
      BY ONLY <3>1, <3>2, <3>3, <3>4, <3>5, <3>6, ZenonT(60) DEF FState
  <2>2. FTurn(t)'
    <3>1. FLeft(t)' = l /\ v5'[t] = r
      BY <1>1, <1>5, <1>15 DEF FLeft
    <3>2. QED
      BY <1>6, <1>7, <1>12, <2>1, <3>1 DEF FTurn
  <2>3. v5' \in [FileTurns -> FRec] /\ \A s \in FileTurns \ {t} : v5'[s] = v5[s]
    BY <1>15, FParts
  <2>4. v7' \subseteq FileTurns /\ \A s \in FileTurns \ {t} : s \in v7' <=> s \in v7
    BY <1>3, <1>5
  <2>5. QED
    BY <1>4, <1>5, <1>9, <1>11, <2>2, <2>3, <2>4, FStep
<1>16. QED
  BY <1>10, <1>14, <1>15

\* The process dies.
LEMMA FKillStep ==
  ASSUME FInv, F!Kill
  PROVE  FInv'
<1>1. PICK part \in SUBSET v4 : v3' = v3 \cup part
  BY DEF F!Kill
<1>2. /\ v1' = v2 /\ v2' = v2 /\ v4' = {} /\ v7' = v7 /\ v6' = [v6 EXCEPT !.doing = {}]
  BY DEF F!Kill
<1>3. v5' = [t \in FileTurns |->
               IF v5[t].at \in {"new"} \cup F!Ended THEN v5[t]
               ELSE [v5[t] EXCEPT !.at = IF F!Discarding(t) THEN "died_discarding" ELSE "died"]]
  BY DEF F!Kill
<1>4. ASSUME NEW t \in FileTurns PROVE v5'[t] \in FRec /\ FTurn(t)' /\ (v5[t].at = "started" => v5'[t] = v5[t])
  <2>1. PICK r \in FRec, view \in SUBSET Nat, db \in SUBSET Nat, disk \in SUBSET Nat,
             copying \in SUBSET Nat, l \in {0, 1} :
          /\ r = v5[t] /\ view = FOf(v1, t) /\ db = FOf(v2, t) /\ disk = FOf(v3, t)
          /\ copying = FOf(v4, t) /\ l = FLeft(t) /\ (l = 1 <=> t \in v7)
          /\ FState(t, r, view, db, disk, copying, l)
          /\ r.i \in Nat /\ Len(r.files) \in Nat
    BY FNow
  <2>2. PICK n : n = v5'[t]
    OBVIOUS
  <2>3. \/ r.at \in {"new"} \cup F!Ended /\ n = r
        \/ /\ r.at \notin {"new"} \cup F!Ended
           /\ n = [r EXCEPT !.at = IF F!Discarding(t) THEN "died_discarding" ELSE "died"]
    BY <1>3, <2>1, <2>2
  <2>4. r.at \in FAts
    BY DEF FRec
  <2>5. \/ r.at \in {"new", "started", "refused", "cut", "gone", "died", "died_discarding"} /\ n = r
        \/ /\ r.at \in {"waiting", "list", "delete", "settle", "unlink"}
           /\ n = [r EXCEPT !.at = "died_discarding"]
        \/ /\ r.at \in {"message", "publish", "copy", "copying", "insert", "record", "build"}
           /\ n = [r EXCEPT !.at = "died"]
    BY <2>1, <2>3, <2>4 DEF F!Ended, F!Discarding, FAts
  <2>6. /\ n \in FRec /\ n.i = r.i /\ n.files = r.files
        /\ \/ r.at \in {"new", "started", "refused", "cut", "gone", "died", "died_discarding"}
               /\ n.at = r.at
           \/ /\ r.at \in {"waiting", "list", "delete", "settle", "unlink"}
              /\ n.at = "died_discarding"
           \/ /\ r.at \in {"message", "publish", "copy", "copying", "insert", "record", "build"}
              /\ n.at = "died"
    BY <2>5 DEF FRec, FAts
  <2>7. FOf(v1', t) = db /\ FOf(v2', t) = db /\ FOf(v4', t) = {} /\ FLeft(t)' = l
    BY <1>2, <2>1 DEF FOf, FLeft
  <2>8. PICK o : o = FOf(v3', t) /\ o \in SUBSET Nat
    BY DEF FOf
  <2>9. disk \subseteq o /\ o \subseteq disk \cup copying
    BY <1>1, <2>1, <2>8 DEF FOf
  <2>10. FState(t, n, db, db, o, {}, l)
    <3>1. /\ n.i <= Len(n.files) /\ 0 \notin o /\ \A j \in db \cup o : j <= n.i
      BY <2>1, <2>6, <2>9 DEF FState
    <3>2. CASE r.at \in {"new", "started", "refused", "cut", "gone", "died", "died_discarding"}
                 /\ n.at = r.at
      BY <2>1, <2>6, <2>9, <3>1, <3>2 DEF FState
    <3>3. CASE r.at \in {"waiting", "list", "delete", "settle", "unlink"} /\ n.at = "died_discarding"
      BY <2>1, <2>6, <2>9, <3>1, <3>3 DEF FState
    <3>4. CASE /\ r.at \in {"message", "publish", "copy", "copying", "insert", "record", "build"}
               /\ n.at = "died"
      <4>1. l = 0
        BY <2>1, <3>4 DEF FState
      <4>2. ASSUME NEW j \in db, j # 0 PROVE j \in disk
        <5>1. j <= r.i
          BY <2>1, <4>2 DEF FState
        <5>2. r.at \in {"copy", "copying", "insert", "record"} => j = r.i \/ j \in 0..(r.i - 1)
          BY <2>1, <4>2, <5>1
        <5>3. r.at = "build" => j \in 0..Len(r.files)
          BY <2>1, <4>2, <5>1 DEF FState
        <5>4. QED
          BY <2>1, <3>4, <4>2, <5>1, <5>2, <5>3 DEF FState
      <4>3. QED
        BY <2>6, <2>9, <3>1, <3>4, <4>1, <4>2 DEF FState
    <3>5. QED
      BY <2>6, <3>2, <3>3, <3>4
  <2>11. FTurn(t)'
    BY <2>2, <2>7, <2>8, <2>10 DEF FTurn
  <2>12. QED
    BY <2>1, <2>2, <2>5, <2>6, <2>11
<1>5. v5' \in [FileTurns -> FRec]
  BY <1>3, <1>4
<1>6. v6 \in [doing : {v6.doing}, done : {v6.done}]
  BY DEF FInv, FTyped
<1>7. v6'.doing = {} /\ v6'.done = v6.done /\ v6' \in [doing : {v6'.doing}, done : {v6'.done}]
  BY <1>2, <1>6
<1>8. FIndexed'
  BY <1>4, <1>7 DEF FInv, FIndexed
<1>9. FTyped'
  BY <1>1, <1>2, <1>5, <1>7, FParts DEF FTyped
<1>10. QED
  BY <1>4, <1>8, <1>9 DEF FInv

LEMMA FInvStep == FInv /\ [F!Next]_(F!atvars) => FInv'
<1> SUFFICES ASSUME FInv, [F!Next]_(F!atvars) PROVE FInv'
  OBVIOUS
<1>1. CASE UNCHANGED F!atvars
  <2>1. UNCHANGED <<v1, v2, v3, v4, v5, v6, v7>>
    BY <1>1 DEF F!atvars
  <2>2. FTyped' /\ FIndexed'
    BY <2>1 DEF FInv, FTyped, FIndexed
  <2>3. ASSUME NEW t \in FileTurns PROVE FTurn(t)'
    <3>1. FTurn(t) /\ FLeft(t)' = FLeft(t)
      BY <2>1 DEF FInv, FLeft
    <3>2. QED
      BY <2>1, <3>1 DEF FTurn
  <2>4. QED
    BY <2>2, <2>3 DEF FInv
<1>2. ASSUME NEW t \in FileTurns, F!TurnStep(t) PROVE FInv'
  <2>1. CASE \E tokens \in FileDrops : F!Drop(t, tokens)
    BY <2>1, FDropStep
  <2>2. CASE F!AddMessage(t)
    BY <2>2, FAddMessageStep
  <2>3. CASE F!RefuseMessage(t) \/ F!SourceGone(t) \/ F!BuildFails(t)
    BY <2>3, FPlainStep
  <2>4. CASE F!Commit(t)
    BY <2>4, FCommitStep
  <2>5. CASE F!StartCopy(t)
    BY <2>5, FStartCopyStep
  <2>6. CASE F!Insert(t)
    BY <2>6, FInsertStep
  <2>7. CASE F!InsertFails(t)
    BY <2>7, FRemoveStep
  <2>8. CASE F!Build(t)
    BY <2>8, FBuildStep
  <2>9. QED
    BY <1>2, <2>1, <2>2, <2>3, <2>4, <2>5, <2>6, <2>7, <2>8 DEF F!TurnStep
<1>3. ASSUME NEW t \in FileTurns, F!DiscardStep(t) PROVE FInv'
  <2>1. CASE F!RemoveCopy(t)
    BY <2>1, FRemoveStep
  <2>2. CASE F!InterruptAgain(t) \/ F!DeleteFails(t) \/ F!UnlinkFails(t)
    BY <2>2, FPlainStep
  <2>3. CASE F!List(t)
    BY <2>3, FListStep
  <2>4. CASE F!Delete(t)
    BY <2>4, FDeleteStep
  <2>5. CASE F!Settle(t)
    BY <2>5, FSettleStep
  <2>6. CASE F!Unlink(t)
    BY <2>6, FUnlinkStep
  <2>7. QED
    BY <1>3, <2>1, <2>2, <2>3, <2>4, <2>5, <2>6 DEF F!DiscardStep
<1>4. ASSUME NEW t \in FileTurns, F!Interrupt(t) PROVE FInv'
  <2>1. CASE F!InterruptMessage(t)
    <3>1. F!At(t, "message") \/ F!At(t, "publish")
      BY <2>1 DEF F!InterruptMessage
    <3>2. QED
      BY <2>1, <3>1, FAddMessageStep, FInterruptMessageStep
  <2>2. CASE F!InterruptCopy(t) \/ F!InterruptBuild(t)
    BY <2>2, FPlainStep
  <2>3. CASE F!InterruptRow(t)
    BY <2>3, FRemoveStep
  <2>4. QED
    BY <1>4, <2>1, <2>2, <2>3 DEF F!Interrupt
<1>5. ASSUME NEW a \in v4, F!EndCopy(a) \/ F!CopyFails(a) PROVE FInv'
  <2>1. PICK t \in FileTurns, k \in Nat : a = <<t, k>>
    BY FParts DEF FRows
  <2>2. <<t, k>> \in v4 /\ (F!EndCopy(<<t, k>>) \/ F!CopyFails(<<t, k>>))
    BY <1>5, <2>1
  <2>3. QED
    BY <2>2, FEndCopyStep, FCopyFailsStep
<1>6. ASSUME NEW a \in v6.doing, F!Index(a) PROVE FInv'
  BY <1>6, FIndexStep
<1>7. CASE F!Kill
  BY <1>7, FKillStep
<1>8. QED
  BY <1>1, <1>2, <1>3, <1>4, <1>5, <1>6, <1>7 DEF F!Next

LEMMA FInvFollows == FInv => F!AttachmentsFollowMessage
<1> SUFFICES ASSUME FInv PROVE F!AttachmentsFollowMessage
  OBVIOUS
<1>1. ASSUME NEW t \in FileTurns
      PROVE  /\ v5[t].at = "started" =>
                  F!RowsOf(t) \subseteq v2 /\ F!CopiesOf(t) \subseteq v3
             /\ v5[t].at = "gone" /\ t \notin v7 => (v1 \cup v2 \cup v3 \cup v4) \cap F!RowsOf(t) = {}
             /\ (v2 \cap F!CopiesOf(t)) \ v3 # {} =>
                  F!Discarding(t) \/ v5[t].at = "died_discarding" \/ t \in v7
             /\ v5[t].at = "cut" =>
                  (v1 \cup v2 \cup v3 \cup v4) \cap F!RowsOf(t) \subseteq {<<t, 0>>}
  <2>1. PICK r \in FRec, view \in SUBSET Nat, db \in SUBSET Nat, disk \in SUBSET Nat,
             copying \in SUBSET Nat, l \in {0, 1} :
          /\ r = v5[t] /\ view = FOf(v1, t) /\ db = FOf(v2, t) /\ disk = FOf(v3, t)
          /\ copying = FOf(v4, t) /\ l = FLeft(t) /\ (l = 1 <=> t \in v7)
          /\ FState(t, r, view, db, disk, copying, l)
          /\ r.i \in Nat /\ Len(r.files) \in Nat
    BY FNow
  <2>2. F!RowsOf(t) = {t} \X (0..Len(r.files)) /\ F!CopiesOf(t) = {t} \X (1..Len(r.files))
    BY <2>1 DEF F!RowsOf, F!CopiesOf
  <2>3. ASSUME r.at = "started" PROVE F!RowsOf(t) \subseteq v2 /\ F!CopiesOf(t) \subseteq v3
    <3>1. \A j \in 0..Len(r.files) : j \in db /\ (j # 0 => j \in disk)
      BY <2>1, <2>3 DEF FState
    <3>2. \A j \in 0..Len(r.files) : <<t, j>> \in v2 /\ (j # 0 => <<t, j>> \in v3)
      BY <2>1, <3>1 DEF FOf
    <3>3. \A j \in 1..Len(r.files) : j \in 0..Len(r.files) /\ j # 0
      BY <2>1
    <3>4. QED
      BY <2>2, <3>2, <3>3
  <2>4. ASSUME r.at = "gone", t \notin v7 PROVE (v1 \cup v2 \cup v3 \cup v4) \cap F!RowsOf(t) = {}
    <3>1. view \cup db \cup disk \cup copying = {}
      BY <2>1, <2>4 DEF FState
    <3>2. QED
      BY <2>1, <2>2, <3>1 DEF FOf
  <2>5. ASSUME (v2 \cap F!CopiesOf(t)) \ v3 # {}, t \notin v7
        PROVE  F!Discarding(t) \/ r.at = "died_discarding"
    <3>1. PICK j \in 1..Len(r.files) : <<t, j>> \in v2 /\ <<t, j>> \notin v3
      BY <2>2, <2>5
    <3>2. j \in db /\ j \notin disk /\ j # 0 /\ j \in Nat
      BY <2>1, <3>1 DEF FOf
    <3>3. l = 0 /\ j <= r.i /\ r.i <= Len(r.files)
      BY <2>1, <2>5, <3>2 DEF FState
    <3>4. r.at \in FAts
      BY DEF FRec
    <3>5. SUFFICES ASSUME r.at \notin {"waiting", "list", "delete", "settle", "unlink", "died_discarding"}
                   PROVE  FALSE
      BY <2>1 DEF F!Discarding
    <3>6. CASE r.at \in {"new", "message", "refused", "gone"}
      BY <2>1, <3>2, <3>3, <3>6 DEF FState
    <3>7. CASE r.at \in {"publish", "cut"}
      BY <2>1, <3>2, <3>3, <3>7 DEF FState
    <3>8. CASE r.at \in {"copy", "copying", "insert", "record"}
      <4>1. j = r.i \/ j \in 0..(r.i - 1)
        BY <2>1, <3>2, <3>3
      <4>2. QED
        BY <2>1, <3>2, <3>8, <4>1 DEF FState
    <3>9. CASE r.at \in {"build", "started"}
      <4>1. j \in 0..Len(r.files)
        BY <2>1, <3>2, <3>3
      <4>2. QED
        BY <2>1, <3>2, <3>9, <4>1 DEF FState
    <3>10. CASE r.at = "died"
      BY <2>1, <3>2, <3>10 DEF FState
    <3>11. QED
      BY <3>4, <3>5, <3>6, <3>7, <3>8, <3>9, <3>10 DEF FAts
  <2>6. ASSUME r.at = "cut"
        PROVE  (v1 \cup v2 \cup v3 \cup v4) \cap F!RowsOf(t) \subseteq {<<t, 0>>}
    <3>1. \A j \in view \cup db \cup disk \cup copying : j <= 0
      BY <2>1, <2>6 DEF FState
    <3>2. ASSUME NEW j \in 0..Len(r.files), <<t, j>> \in v1 \cup v2 \cup v3 \cup v4
          PROVE  j = 0
      <4>1. j \in Nat /\ j \in view \cup db \cup disk \cup copying
        BY <2>1, <3>2 DEF FOf
      <4>2. QED
        BY <3>1, <4>1
    <3>3. QED
      BY <2>2, <3>2
  <2>7. QED
    BY <2>1, <2>3, <2>4, <2>5, <2>6
<1>2. F!StartedIsWhole
  BY <1>1 DEF F!StartedIsWhole, F!At
<1>3. F!DiscardedIsGone
  BY <1>1 DEF F!DiscardedIsGone, F!At
<1>4. F!RowHasCopy
  BY <1>1 DEF F!RowHasCopy, F!At
<1>5. F!IndexedIsKept
  BY DEF FInv, FIndexed, F!IndexedIsKept, F!At
<1>6. F!CutIsBare
  BY <1>1 DEF F!CutIsBare, F!At
<1>7. QED
  BY <1>2, <1>3, <1>4, <1>5, <1>6 DEF F!AttachmentsFollowMessage

-----------------------------------------------------------------------------
(* The ledger: v1 is plans, v2 tasks, v3 events, v4 call and v5 blurred.    *)

BStatus == {"queued", "running", "stopped"}
BPaths  == LedgerPaths \cup {B!None}

BPlan  == [path : BPaths, by : B!Calls]
BTask  == [plan : Nat, status : BStatus]
BEvent == [task : Nat, says : BStatus \cup {"created"}]
BCall  == [op : {"none", "create", "update"},
           at : {"new", "find", "plan", "insert", "created", "update", "reread", "log", "done", "cut"},
           path : BPaths, task : Nat, plan : Nat, status : BStatus \cup {B!None}, seen : Nat]

BTyped ==
  /\ v1 \in Seq(BPlan) /\ v2 \in Seq(BTask) /\ v3 \in Seq(BEvent)
  /\ v4 \in [B!Calls -> BCall]

\* A call that makes a plan found none; those that are there began with it.
BPlanned ==
  /\ \A c \in B!Calls : v4[c].seen <= Len(v1)
  /\ \A p \in 1..Len(v1) : v4[v1[p].by].at # "new"
  /\ \A p, q \in 1..Len(v1) : p < q /\ v1[p].path = v1[q].path => v4[v1[q].by].seen < p
  /\ \A c \in B!Calls, p \in 1..Len(v1) :
       v4[c].op = "create" /\ v4[c].plan # 0 /\ v1[p].path = v4[c].path
         => p <= v4[c].plan \/ v4[c].seen < p
  /\ \A c \in B!Calls, p \in 1..Len(v1) :
       v4[c].at = "plan" /\ v1[p].path = v4[c].path => v4[c].seen < p

BLogs(c, k) == v4[c].task = k /\ v4[c].at \in {"reread", "log"}

\* The last status that was logged of a task is its own.
BTold(k) ==
  \/ /\ v2[k].status = "queued"
     /\ \A e \in 1..Len(v3) : v3[e].task = k => v3[e].says = "created"
  \/ \E e \in 1..Len(v3) :
       /\ v3[e].task = k /\ v3[e].says # "created" /\ v3[e].says = v2[k].status
       /\ \A f \in 1..Len(v3) : v3[f].task = k /\ v3[f].says # "created" => f <= e

\* One call at most is logging what it made of a task, and knows it.
BLogging(k) ==
  /\ \A c, d \in B!Calls : BLogs(c, k) /\ BLogs(d, k) => c = d
  /\ \A c \in B!Calls : BLogs(c, k) /\ v4[c].at = "log" => v4[c].status = v2[k].status
  /\ (\A c \in B!Calls : ~BLogs(c, k)) => BTold(k)

BTimed ==
  /\ \A e \in 1..Len(v3) : v3[e].task \in 1..Len(v2)
  /\ \A c \in B!Calls :
       /\ v4[c].at \in {"created", "update", "reread", "log"} => v4[c].task \in 1..Len(v2)
       /\ v4[c].at \in {"update", "log"} => v4[c].status \in BStatus
  /\ \A k \in 1..Len(v2) : k \notin v5 => BLogging(k)

BInv == BTyped /\ BPlanned /\ BTimed

\* What the invariant says of the parts of the state.
LEMMA BParts ==
  ASSUME BInv
  PROVE  /\ v1 \in Seq(BPlan) /\ v2 \in Seq(BTask) /\ v3 \in Seq(BEvent)
         /\ Len(v1) \in Nat /\ Len(v2) \in Nat /\ Len(v3) \in Nat
         /\ v4 \in [B!Calls -> BCall]
         /\ \A p \in 1..Len(v1) : v1[p] \in BPlan /\ v1[p].by \in B!Calls
         /\ \A c \in B!Calls : v4[c] \in BCall /\ v4[c].seen \in Nat /\ v4[c].task \in Nat
                               /\ v4[c].plan \in Nat /\ v4[c].path \in BPaths
<1>1. /\ v1 \in Seq(BPlan) /\ v2 \in Seq(BTask) /\ v3 \in Seq(BEvent)
      /\ Len(v1) \in Nat /\ Len(v2) \in Nat /\ Len(v3) \in Nat
      /\ v4 \in [B!Calls -> BCall]
  BY DEF BInv, BTyped
<1>2. \A p \in 1..Len(v1) : v1[p] \in BPlan /\ v1[p].by \in B!Calls
  <2>1. \A p \in 1..Len(v1) : v1[p] \in BPlan
    BY <1>1
  <2>2. \A p \in BPlan : p.by \in B!Calls
    BY DEF BPlan
  <2>3. QED
    BY <2>1, <2>2
<1>3. \A c \in B!Calls : v4[c] \in BCall /\ v4[c].seen \in Nat /\ v4[c].task \in Nat
                         /\ v4[c].plan \in Nat /\ v4[c].path \in BPaths
  BY <1>1 DEF BCall
<1>4. QED
  BY <1>1, <1>2, <1>3

LEMMA BNoCall ==
  /\ B!NoCall \in BCall /\ B!NoCall.at = "new" /\ B!NoCall.op = "none" /\ B!NoCall.seen = 0
  /\ B!NoCall.plan = 0
BY DEF B!NoCall, BCall, BPaths, B!None

LEMMA BInit == B!Init => BInv
<1> SUFFICES ASSUME B!Init PROVE BInv
  OBVIOUS
<1>1. v1 = <<>> /\ v2 = <<>> /\ v3 = <<>> /\ v4 = [c \in B!Calls |-> B!NoCall]
  BY DEF B!Init
<1>2. Len(v1) = 0 /\ Len(v2) = 0 /\ Len(v3) = 0 /\ \A c \in B!Calls : v4[c] = B!NoCall
  BY <1>1
<1>3. BTyped
  BY <1>1, BNoCall DEF BTyped
<1>4. BPlanned
  BY <1>2, BNoCall DEF BPlanned
<1>5. BTimed
  BY <1>2, BNoCall DEF BTimed
<1>6. QED
  BY <1>3, <1>4, <1>5 DEF BInv

\* A call gets on: what the others are stays.
LEMMA BMoves ==
  ASSUME BInv, NEW c \in B!Calls, NEW n \in BCall, v4' = [v4 EXCEPT ![c] = n]
  PROVE  v4' \in [B!Calls -> BCall] /\ v4'[c] = n /\ \A d \in B!Calls \ {c} : v4'[d] = v4[d]
BY DEF BInv, BTyped

\* What a step does to the plans: nothing, or one more that a call made.
LEMMA BPlanStep ==
  ASSUME BInv, NEW c \in B!Calls, NEW n \in BCall, v4' = [v4 EXCEPT ![c] = n],
         UNCHANGED v1, n.at # "new",
         \/ n.seen = v4[c].seen /\ n.op = v4[c].op /\ n.path = v4[c].path /\ n.plan = v4[c].plan
              /\ n.at # "plan"
         \/ v4[c].at = "new" /\ n.seen \in {0, Len(v1)} /\ n.plan = 0 /\ n.at # "plan"
         \/ /\ v4[c].at = "find" /\ n.seen = v4[c].seen /\ n.path = v4[c].path
            /\ \A p \in 1..Len(v1) : v1[p].path = n.path => n.at # "plan" /\ p <= n.plan
  PROVE  BPlanned'
<1>1. v4'[c] = n /\ \A d \in B!Calls \ {c} : v4'[d] = v4[d]
  BY BMoves
<1>2. Len(v1) \in Nat
  BY BParts
<1>3. \A d \in B!Calls : v4'[d].seen <= Len(v1)
  <2>1. \A d \in B!Calls : v4[d].seen <= Len(v1)
    BY DEF BInv, BPlanned
  <2>2. n.seen <= Len(v1)
    BY <1>2, <2>1
  <2>3. QED
    BY <1>1, <2>1, <2>2
<1>4. \A p \in 1..Len(v1) : v4'[v1[p].by].at # "new"
  BY <1>1, BParts DEF BInv, BPlanned
<1>5. ASSUME NEW p \in 1..Len(v1) PROVE v4'[v1[p].by].seen = v4[v1[p].by].seen
  <2>1. v1[p].by \in B!Calls /\ v4[v1[p].by].at # "new"
    BY BParts DEF BInv, BPlanned
  <2>2. QED
    BY <1>1, <2>1
<1>6. \A p, q \in 1..Len(v1) : p < q /\ v1[p].path = v1[q].path => v4'[v1[q].by].seen < p
  BY <1>5 DEF BInv, BPlanned
<1>7. ASSUME NEW d \in B!Calls, NEW p \in 1..Len(v1),
             v4'[d].op = "create", v4'[d].plan # 0, v1[p].path = v4'[d].path
      PROVE  p <= v4'[d].plan \/ v4'[d].seen < p
  BY <1>1, <1>7 DEF BInv, BPlanned
<1>8. ASSUME NEW d \in B!Calls, NEW p \in 1..Len(v1), v4'[d].at = "plan", v1[p].path = v4'[d].path
      PROVE  v4'[d].seen < p
  BY <1>1, <1>8 DEF BInv, BPlanned
<1>9. QED
  BY <1>3, <1>4, <1>6, <1>7, <1>8 DEF BPlanned

\* A step that writes no row of a task and logs nothing, of a call that was not
\* logging and does not begin to.
LEMMA BQuiet ==
  ASSUME BInv, NEW c \in B!Calls, NEW n \in BCall, v4' = [v4 EXCEPT ![c] = n],
         UNCHANGED <<v2, v3, v5>>,
         v4[c].at \notin {"reread", "log"}, n.at \notin {"reread", "log"},
         n.at \in {"created", "update"} => n.task \in 1..Len(v2),
         n.at = "update" => n.status \in BStatus
  PROVE  BTimed'
<1>1. v4'[c] = n /\ \A d \in B!Calls \ {c} : v4'[d] = v4[d]
  BY BMoves
<1>2. \A d \in B!Calls, k \in 1..Len(v2) : BLogs(d, k)' <=> BLogs(d, k)
  BY <1>1 DEF BLogs
<1>3. \A d \in B!Calls : v4'[d].at \in {"reread", "log"} => v4'[d] = v4[d]
  BY <1>1
<1>4. ASSUME NEW k \in 1..Len(v2), k \notin v5 PROVE BLogging(k)'
  <2>1. BLogging(k)
    BY <1>4 DEF BInv, BTimed
  <2>2. BTold(k)' <=> BTold(k)
    BY DEF BTold
  <2>3. \A d, e \in B!Calls : BLogs(d, k)' /\ BLogs(e, k)' => d = e
    BY <1>2, <2>1 DEF BLogging
  <2>4. \A d \in B!Calls : BLogs(d, k)' /\ v4'[d].at = "log" => v4'[d].status = v2'[k].status
    BY <1>2, <1>3, <2>1 DEF BLogging
  <2>5. (\A d \in B!Calls : ~BLogs(d, k)') => BTold(k)'
    BY <1>2, <2>1, <2>2 DEF BLogging
  <2>6. QED
    BY <2>3, <2>4, <2>5 DEF BLogging
<1>5. \A d \in B!Calls :
        /\ v4'[d].at \in {"created", "update", "reread", "log"} => v4'[d].task \in 1..Len(v2)
        /\ v4'[d].at \in {"update", "log"} => v4'[d].status \in BStatus
  BY <1>1 DEF BInv, BTimed
<1>6. QED
  BY <1>4, <1>5 DEF BInv, BTimed

LEMMA BBeginStep ==
  ASSUME BInv, NEW c \in B!Calls,
         \/ \E path \in LedgerPaths \cup {B!None} : B!BeginCreate(c, path)
         \/ \E k \in DOMAIN v2, status \in {"running", "stopped"} : B!Begin(c, k, status)
  PROVE  BInv'
<1>1. v4[c].at = "new" /\ UNCHANGED <<v1, v2, v3, v5>>
  BY Zenon DEF B!BeginCreate, B!Begin, B!Fresh
<1>2. Len(v1) \in Nat /\ DOMAIN v2 = 1..Len(v2) /\ Len(v2) \in Nat
  BY BParts
<1>3. PICK n \in BCall :
        /\ v4' = [v4 EXCEPT ![c] = n] /\ n.seen \in {0, Len(v1)} /\ n.plan = 0
        /\ n.at \in {"find", "insert", "update"}
        /\ n.at = "update" => n.task \in 1..Len(v2) /\ n.status \in BStatus
  <2>1. CASE \E path \in LedgerPaths \cup {B!None} : B!BeginCreate(c, path)
    <3>1. PICK path \in BPaths : B!BeginCreate(c, path)
      BY <2>1 DEF BPaths
    <3>2. PICK at \in {"find", "insert"} : at = IF path = B!None THEN "insert" ELSE "find"
      OBVIOUS
    <3>3. PICK n : n = [B!NoCall EXCEPT !.op = "create", !.path = path, !.seen = Len(v1), !.at = at]
      OBVIOUS
    <3>4. n \in BCall /\ n.seen = Len(v1) /\ n.plan = 0 /\ n.at = at
      BY <1>2, <3>3, BNoCall DEF BCall
    <3>5. v4' = [v4 EXCEPT ![c] = n]
      BY <3>1, <3>2, <3>3, Zenon DEF B!BeginCreate
    <3>6. QED
      BY <3>4, <3>5
  <2>2. CASE \E k \in DOMAIN v2, status \in {"running", "stopped"} : B!Begin(c, k, status)
    <3>1. PICK k \in 1..Len(v2), status \in {"running", "stopped"} : B!Begin(c, k, status)
      BY <1>2, <2>2
    <3>2. k \in Nat
      BY <1>2
    <3>3. PICK n : n = [B!NoCall EXCEPT !.op = "update", !.at = "update", !.task = k, !.status = status]
      OBVIOUS
    <3>4. n \in BCall /\ n.seen = 0 /\ n.plan = 0 /\ n.at = "update" /\ n.task = k /\ n.status \in BStatus
      BY <3>2, <3>3, BNoCall DEF BCall, BStatus
    <3>5. v4' = [v4 EXCEPT ![c] = n]
      BY <3>1, <3>3, Zenon DEF B!Begin
    <3>6. QED
      BY <3>4, <3>5
  <2>3. QED
    BY <2>1, <2>2
<1>4. BPlanned'
  BY <1>1, <1>3, BPlanStep
<1>5. BTimed'
  BY <1>1, <1>3, BQuiet
<1>6. BTyped'
  BY <1>1, <1>3, BMoves DEF BInv, BTyped
<1>7. QED
  BY <1>4, <1>5, <1>6 DEF BInv

LEMMA BFindStep ==
  ASSUME BInv, NEW c \in B!Calls, B!FindPlan(c)
  PROVE  BInv'
<1> DEFINE ps == B!Of(v4[c].path)
<1>1. v4[c].at = "find" /\ UNCHANGED <<v1, v2, v3, v5>>
  BY DEF B!FindPlan, B!At
<1>2. PICK r \in BCall : r = v4[c]
  BY BParts
<1>3. Len(v1) \in Nat /\ ps = {p \in 1..Len(v1) : v1[p].path = r.path}
  BY <1>2, BParts DEF B!Of
<1>4. PICK at \in {"plan", "insert"}, plan \in Nat :
        /\ v4' = [v4 EXCEPT ![c] = [r EXCEPT !.at = at, !.plan = plan]]
        /\ \A p \in 1..Len(v1) : v1[p].path = r.path => at # "plan" /\ p <= plan
  <2>1. CASE ps = {}
    <3>1. v4' = [v4 EXCEPT ![c].at = "plan", ![c].plan = 0]
      BY <2>1 DEF B!FindPlan
    <3>2. v4' = [v4 EXCEPT ![c] = [r EXCEPT !.at = "plan", !.plan = 0]]
      BY <1>2, <3>1, BParts
    <3>3. \A p \in 1..Len(v1) : v1[p].path # r.path
      BY <1>3, <2>1
    <3>4. QED
      BY <3>2, <3>3, Zenon
  <2>2. CASE ps # {}
    <3>1. PICK m : m = B!Newest(ps)
      OBVIOUS
    <3>2. v4' = [v4 EXCEPT ![c].at = "insert", ![c].plan = m]
      BY <2>2, <3>1 DEF B!FindPlan
    <3>3. \E p \in ps : \A q \in ps : q <= p
      <4>1. ps \in SUBSET Nat /\ \A p \in ps : p <= Len(v1)
        BY <1>3
      <4> HIDE DEF ps
      <4>2. QED
        BY <1>3, <2>2, <4>1, GreatestNatural
    <3>4. m \in ps /\ \A q \in ps : q <= m
      BY <3>1, <3>3 DEF B!Newest
    <3>5. m \in Nat /\ \A p \in 1..Len(v1) : v1[p].path = r.path => p <= m
      BY <1>3, <3>4
    <3>6. v4' = [v4 EXCEPT ![c] = [r EXCEPT !.at = "insert", !.plan = m]]
      BY <1>2, <3>2, BParts
    <3>7. QED
      BY <3>5, <3>6, Zenon
  <2>3. QED
    BY <2>1, <2>2, Zenon
<1>5. PICK n : n = [r EXCEPT !.at = at, !.plan = plan]
  OBVIOUS
<1>6. /\ n \in BCall /\ n.at = at /\ n.plan = plan /\ n.seen = r.seen /\ n.path = r.path
      /\ v4' = [v4 EXCEPT ![c] = n]
  BY <1>4, <1>5 DEF BCall
<1>7. BPlanned'
  BY <1>1, <1>2, <1>4, <1>6, BPlanStep
<1>8. BTimed'
  BY <1>1, <1>6, BQuiet
<1>9. BTyped'
  BY <1>1, <1>6, BMoves DEF BInv, BTyped
<1>10. QED
  BY <1>7, <1>8, <1>9 DEF BInv

LEMMA BCreatePlanStep ==
  ASSUME BInv, NEW c \in B!Calls, B!CreatePlan(c)
  PROVE  BInv'
<1>1. /\ v4[c].at = "plan" /\ UNCHANGED <<v2, v3, v5>>
      /\ v4' = [v4 EXCEPT ![c].at = "insert", ![c].plan = Len(v1) + 1]
      /\ v1' = Append(v1, [path |-> v4[c].path, by |-> c])
  BY DEF B!CreatePlan, B!At
<1>2. PICK r \in BCall : r = v4[c]
  BY BParts
<1>3. PICK m \in Nat : m = Len(v1) + 1
  BY BParts
<1>4. PICK n : n = [r EXCEPT !.at = "insert", !.plan = m]
  OBVIOUS
<1>5. /\ n \in BCall /\ n.at = "insert" /\ n.plan = m /\ n.seen = r.seen /\ n.path = r.path
  BY <1>4 DEF BCall
<1>6. v4' = [v4 EXCEPT ![c] = n]
  BY <1>1, <1>2, <1>3, <1>4, BParts
<1>7. v4'[c] = n /\ \A d \in B!Calls \ {c} : v4'[d] = v4[d]
  BY <1>5, <1>6, BMoves
<1>8. PICK e : e = [path |-> r.path, by |-> c]
  OBVIOUS
<1>9. e \in BPlan /\ e.path = r.path /\ e.by = c
  BY <1>2, <1>8 DEF BPlan, BCall
<1>10. /\ v1' \in Seq(BPlan) /\ Len(v1') = m /\ v1'[m] = e
       /\ \A p \in 1..Len(v1) : v1'[p] = v1[p]
       /\ \A p \in 1..Len(v1') : p \in 1..Len(v1) \/ p = m
       /\ \A p \in 1..Len(v1) : p < m
       /\ Len(v1) \in Nat
  <2>1. v1 \in Seq(BPlan) /\ Len(v1) \in Nat
    BY BParts
  <2>2. v1' = Append(v1, e)
    BY <1>1, <1>2, <1>8
  <2>3. QED
    BY <1>3, <1>9, <2>1, <2>2
<1>11. \A d \in B!Calls : v4'[d].seen = v4[d].seen /\ v4[d].seen <= Len(v1) /\ v4[d].seen \in Nat
  BY <1>2, <1>5, <1>7, BParts DEF BInv, BPlanned
<1>12. BPlanned'
  <2>1. \A d \in B!Calls : v4'[d].seen <= Len(v1')
    BY <1>3, <1>10, <1>11
  <2>2. \A p \in 1..Len(v1') : v4'[v1'[p].by].at # "new"
    BY <1>5, <1>7, <1>9, <1>10, BParts DEF BInv, BPlanned
  <2>3. ASSUME NEW p \in 1..Len(v1'), NEW q \in 1..Len(v1'), p < q, v1'[p].path = v1'[q].path
        PROVE  v4'[v1'[q].by].seen < p
    <3>1. p \in 1..Len(v1)
      BY <1>10, <2>3
    <3>2. CASE q \in 1..Len(v1)
      BY <1>10, <1>11, <2>3, <3>1, <3>2, BParts, ZenonT(40) DEF BInv, BPlanned
    <3>3. CASE q = m
      <4>1. v1[p].path = v4[c].path /\ v1'[q].by = c
        BY <1>2, <1>9, <1>10, <2>3, <3>1, <3>3
      <4>2. v4[c].seen < p
        BY <1>1, <3>1, <4>1 DEF BInv, BPlanned
      <4>3. QED
        BY <1>11, <4>1, <4>2
    <3>4. QED
      BY <1>10, <3>2, <3>3
  <2>4. ASSUME NEW d \in B!Calls, NEW p \in 1..Len(v1'),
               v4'[d].op = "create", v4'[d].plan # 0, v1'[p].path = v4'[d].path
        PROVE  p <= v4'[d].plan \/ v4'[d].seen < p
    <3>1. CASE p = m
      BY <1>3, <1>11, <3>1
    <3>2. CASE p \in 1..Len(v1) /\ d = c
      BY <1>5, <1>7, <1>10, <3>2
    <3>3. CASE p \in 1..Len(v1) /\ d # c
      BY <1>7, <1>10, <2>4, <3>3 DEF BInv, BPlanned
    <3>4. QED
      BY <1>10, <3>1, <3>2, <3>3
  <2>5. ASSUME NEW d \in B!Calls, NEW p \in 1..Len(v1'), v4'[d].at = "plan", v1'[p].path = v4'[d].path
        PROVE  v4'[d].seen < p
    <3>1. d # c
      BY <1>5, <1>7, <2>5
    <3>2. CASE p = m
      BY <1>3, <1>11, <3>2
    <3>3. CASE p \in 1..Len(v1)
      BY <1>7, <1>10, <2>5, <3>1, <3>3 DEF BInv, BPlanned
    <3>4. QED
      BY <1>10, <3>2, <3>3
  <2>6. QED
    BY <2>1, <2>2, <2>3, <2>4, <2>5 DEF BPlanned
<1>13. BTimed'
  BY <1>1, <1>5, <1>6, BQuiet
<1>14. BTyped'
  BY <1>1, <1>5, <1>6, <1>10, BMoves DEF BInv, BTyped
<1>15. QED
  BY <1>12, <1>13, <1>14 DEF BInv

LEMMA BInsertTaskStep ==
  ASSUME BInv, NEW c \in B!Calls, B!InsertTask(c)
  PROVE  BInv'
<1>1. /\ v4[c].at = "insert" /\ UNCHANGED <<v1, v3, v5>>
      /\ v2' = Append(v2, [plan |-> v4[c].plan, status |-> "queued"])
      /\ v4' = [v4 EXCEPT ![c].at = "created", ![c].task = Len(v2) + 1]
  BY DEF B!InsertTask, B!At
<1>2. PICK r \in BCall : r = v4[c]
  BY BParts
<1>3. PICK m \in Nat : m = Len(v2) + 1
  BY BParts
<1>4. PICK n : n = [r EXCEPT !.at = "created", !.task = m]
  OBVIOUS
<1>5. /\ n \in BCall /\ n.at = "created" /\ n.task = m /\ n.seen = r.seen /\ n.path = r.path
      /\ n.op = r.op /\ n.plan = r.plan
  BY <1>4 DEF BCall
<1>6. v4' = [v4 EXCEPT ![c] = n]
  BY <1>1, <1>2, <1>3, <1>4, BParts
<1>7. v4'[c] = n /\ \A d \in B!Calls \ {c} : v4'[d] = v4[d]
  BY <1>5, <1>6, BMoves
<1>8. PICK e : e = [plan |-> r.plan, status |-> "queued"]
  OBVIOUS
<1>9. e \in BTask /\ e.status = "queued"
  BY <1>8 DEF BTask, BCall, BStatus
<1>10. /\ v2' \in Seq(BTask) /\ Len(v2') = m /\ v2'[m] = e
       /\ \A k \in 1..Len(v2) : v2'[k] = v2[k] /\ k \in 1..Len(v2') /\ k # m
       /\ \A k \in 1..Len(v2') : k \in 1..Len(v2) \/ k = m
       /\ m \in 1..Len(v2')
  <2>1. v2 \in Seq(BTask) /\ Len(v2) \in Nat
    BY BParts
  <2>2. v2' = Append(v2, e)
    BY <1>1, <1>2, <1>8
  <2>3. QED
    BY <1>3, <1>9, <2>1, <2>2
<1>11. \A d \in B!Calls : v4'[d].at \in {"update", "reread", "log"} => v4'[d] = v4[d]
  BY <1>5, <1>7
<1>12. ASSUME NEW k \in 1..Len(v2'), k \notin v5 PROVE BLogging(k)'
  <2>1. CASE k = m
    <3>1. \A d \in B!Calls : ~BLogs(d, k)'
      <4>1. ASSUME NEW d \in B!Calls, v4'[d].at \in {"reread", "log"}, v4'[d].task = k PROVE FALSE
        <5>1. v4[d].task \in 1..Len(v2)
          BY <1>11, <4>1 DEF BInv, BTimed
        <5>2. QED
          BY <1>10, <1>11, <2>1, <4>1, <5>1
      <4>2. QED
        BY <4>1 DEF BLogs
    <3>2. \A f \in 1..Len(v3) : v3[f].task # k
      BY <1>10, <2>1 DEF BInv, BTimed
    <3>3. v2'[k].status = "queued" /\ v3' = v3
      BY <1>1, <1>9, <1>10, <2>1
    <3>4. BTold(k)'
      BY <3>2, <3>3 DEF BTold
    <3>5. QED
      BY <3>1, <3>4 DEF BLogging
  <2>2. CASE k \in 1..Len(v2)
    <3>1. BLogging(k)
      BY <1>12, <2>2 DEF BInv, BTimed
    <3>2. \A d \in B!Calls : BLogs(d, k)' <=> BLogs(d, k)
      BY <1>1, <1>5, <1>7 DEF BLogs
    <3>3. BTold(k)' <=> BTold(k)
      BY <1>1, <1>10, <2>2 DEF BTold
    <3>4. \A d, f \in B!Calls : BLogs(d, k)' /\ BLogs(f, k)' => d = f
      BY <3>1, <3>2 DEF BLogging
    <3>5. \A d \in B!Calls : BLogs(d, k)' /\ v4'[d].at = "log" => v4'[d].status = v2'[k].status
      BY <1>10, <1>11, <2>2, <3>1, <3>2 DEF BLogging
    <3>6. (\A d \in B!Calls : ~BLogs(d, k)') => BTold(k)'
      BY <3>1, <3>2, <3>3 DEF BLogging
    <3>7. QED
      BY <3>4, <3>5, <3>6 DEF BLogging
  <2>3. QED
    BY <1>10, <2>1, <2>2
<1>13. BTimed'
  <2>1. \A f \in 1..Len(v3) : v3[f].task \in 1..Len(v2')
    BY <1>10 DEF BInv, BTimed
  <2>2. \A d \in B!Calls :
          /\ v4'[d].at \in {"created", "update", "reread", "log"} => v4'[d].task \in 1..Len(v2')
          /\ v4'[d].at \in {"update", "log"} => v4'[d].status \in BStatus
    BY <1>5, <1>7, <1>10 DEF BInv, BTimed
  <2>3. v3' = v3 /\ v5' = v5
    BY <1>1
  <2>4. QED
    BY <1>12, <2>1, <2>2, <2>3 DEF BTimed
<1>14. BPlanned'
  BY <1>1, <1>2, <1>5, <1>6, BPlanStep
<1>15. BTyped'
  BY <1>1, <1>5, <1>6, <1>10, BMoves DEF BInv, BTyped
<1>16. QED
  BY <1>13, <1>14, <1>15 DEF BInv

\* One event more: what there was stays.
LEMMA BAppended ==
  ASSUME BInv, NEW e \in BEvent, v3' = Append(v3, e)
  PROVE  /\ v3' \in Seq(BEvent) /\ Len(v3') = Len(v3) + 1 /\ Len(v3) \in Nat /\ v3'[Len(v3) + 1] = e
         /\ Len(v3) + 1 \in 1..Len(v3')
         /\ \A f \in 1..Len(v3) : v3'[f] = v3[f] /\ f \in 1..Len(v3') /\ f <= Len(v3) + 1
         /\ \A f \in 1..Len(v3') : f \in 1..Len(v3) \/ f = Len(v3) + 1
<1>1. v3 \in Seq(BEvent) /\ Len(v3) \in Nat
  BY BParts
<1>2. QED
  BY <1>1

\* An event that tells no status of a task leaves what is told of it.
LEMMA BStillTold ==
  ASSUME BInv, NEW e \in BEvent, v3' = Append(v3, e), NEW k \in 1..Len(v2),
         v2'[k] = v2[k], e.task # k \/ e.says = "created", BTold(k)
  PROVE  BTold(k)'
<1>1. /\ Len(v3') = Len(v3) + 1 /\ Len(v3) \in Nat /\ v3'[Len(v3) + 1] = e
      /\ \A f \in 1..Len(v3) : v3'[f] = v3[f] /\ f \in 1..Len(v3')
      /\ \A f \in 1..Len(v3') : f \in 1..Len(v3) \/ f = Len(v3) + 1
  BY BAppended
<1>2. \A f \in 1..Len(v3') : v3'[f].task = k /\ v3'[f].says # "created" =>
        f \in 1..Len(v3) /\ v3'[f] = v3[f]
  BY <1>1
<1>3. CASE v2[k].status = "queued" /\ \A f \in 1..Len(v3) : v3[f].task = k => v3[f].says = "created"
  BY <1>2, <1>3 DEF BTold
<1>4. CASE \E f \in 1..Len(v3) :
             /\ v3[f].task = k /\ v3[f].says # "created" /\ v3[f].says = v2[k].status
             /\ \A g \in 1..Len(v3) : v3[g].task = k /\ v3[g].says # "created" => g <= f
  <2>1. PICK f \in 1..Len(v3) :
             /\ v3[f].task = k /\ v3[f].says # "created" /\ v3[f].says = v2[k].status
             /\ \A g \in 1..Len(v3) : v3[g].task = k /\ v3[g].says # "created" => g <= f
    BY <1>4
  <2>2. f \in 1..Len(v3') /\ v3'[f] = v3[f]
    BY <1>1
  <2>3. \A g \in 1..Len(v3') : v3'[g].task = k /\ v3'[g].says # "created" => g <= f
    BY <1>2, <2>1
  <2>4. QED
    BY <2>1, <2>2, <2>3 DEF BTold
<1>5. QED
  BY <1>3, <1>4 DEF BTold

\* The call that logs is done: of a status that is its task's, or of none.
LEMMA BLogStep ==
  ASSUME BInv, NEW c \in B!Calls, B!LogCreated(c) \/ B!LogStatus(c)
  PROVE  BInv'
<1>1. PICK r \in BCall : r = v4[c]
  BY BParts
<1>2. PICK says \in BStatus \cup {"created"} :
        /\ v3' = Append(v3, [task |-> r.task, says |-> says])
        /\ \/ r.at = "created" /\ says = "created"
           \/ r.at = "log" /\ says = r.status /\ says # "created"
  <2>1. CASE B!LogCreated(c)
    BY <1>1, <2>1 DEF B!LogCreated, B!At
  <2>2. CASE B!LogStatus(c)
    <3>1. r.at = "log" /\ v3' = Append(v3, [task |-> r.task, says |-> r.status])
      BY <1>1, <2>2 DEF B!LogStatus, B!At
    <3>2. r.status \in BStatus
      BY <1>1, <3>1 DEF BInv, BTimed
    <3>3. QED
      BY <3>1, <3>2 DEF BStatus
  <2>3. QED
    BY <2>1, <2>2
<1>3. /\ UNCHANGED <<v1, v2, v5>> /\ v4' = [v4 EXCEPT ![c].at = "done"]
  BY DEF B!LogCreated, B!LogStatus, B!Goto
<1>4. PICK n : n = [r EXCEPT !.at = "done"]
  OBVIOUS
<1>5. /\ n \in BCall /\ n.at = "done" /\ n.seen = r.seen /\ n.path = r.path
      /\ n.op = r.op /\ n.plan = r.plan
  BY <1>4 DEF BCall
<1>6. v4' = [v4 EXCEPT ![c] = n]
  BY <1>1, <1>3, <1>4, BParts
<1>7. v4'[c] = n /\ \A d \in B!Calls \ {c} : v4'[d] = v4[d]
  BY <1>5, <1>6, BMoves
<1>8. PICK e : e = [task |-> r.task, says |-> says]
  OBVIOUS
<1>9. e \in BEvent /\ e.task = r.task /\ e.says = says /\ v3' = Append(v3, e)
  BY <1>2, <1>8 DEF BEvent, BCall
<1>10. r.task \in 1..Len(v2)
  BY <1>1, <1>2 DEF BInv, BTimed
<1>11. /\ v3' \in Seq(BEvent) /\ Len(v3') = Len(v3) + 1 /\ Len(v3) \in Nat /\ v3'[Len(v3) + 1] = e
       /\ Len(v3) + 1 \in 1..Len(v3')
       /\ \A f \in 1..Len(v3) : v3'[f] = v3[f] /\ f \in 1..Len(v3') /\ f <= Len(v3) + 1
       /\ \A f \in 1..Len(v3') : f \in 1..Len(v3) \/ f = Len(v3) + 1
  BY <1>9, BAppended
<1>12. \A d \in B!Calls, k \in 1..Len(v2) : BLogs(d, k)' <=> BLogs(d, k) /\ d # c
  BY <1>5, <1>7 DEF BLogs
<1>13. ASSUME NEW k \in 1..Len(v2), k \notin v5 PROVE BLogging(k)'
  <2>1. BLogging(k)
    BY <1>13 DEF BInv, BTimed
  <2>2. \A d, f \in B!Calls : BLogs(d, k)' /\ BLogs(f, k)' => d = f
    BY <1>12, <2>1 DEF BLogging
  <2>3. \A d \in B!Calls : BLogs(d, k)' /\ v4'[d].at = "log" => v4'[d].status = v2'[k].status
    BY <1>3, <1>7, <1>12, <2>1 DEF BLogging
  <2>4. ASSUME \A d \in B!Calls : ~BLogs(d, k)' PROVE BTold(k)'
    <3>1. CASE BLogs(c, k) /\ says # "created"
      <4>1. v4[c].status = v2[k].status /\ r.task = k
        BY <1>1, <1>2, <2>1, <3>1 DEF BLogs, BLogging
      <4>2. v3'[Len(v3) + 1].task = k /\ v3'[Len(v3) + 1].says = v2'[k].status
            /\ v3'[Len(v3) + 1].says # "created"
        BY <1>1, <1>2, <1>3, <1>9, <1>11, <3>1, <4>1
      <4>3. \A g \in 1..Len(v3') : g <= Len(v3) + 1
        BY <1>11
      <4>4. QED
        BY <1>11, <4>2, <4>3 DEF BTold
    <3>2. CASE ~BLogs(c, k)
      <4>1. e.task # k \/ e.says = "created"
        BY <1>1, <1>2, <1>9, <3>2 DEF BLogs
      <4>2. BTold(k)
        BY <1>12, <2>1, <2>4, <3>2 DEF BLogging
      <4>3. QED
        BY <1>3, <1>9, <4>1, <4>2, BStillTold
    <3>3. CASE BLogs(c, k) /\ says = "created"
      BY <1>1, <1>2, <3>3 DEF BLogs
    <3>4. QED
      BY <3>1, <3>2, <3>3
  <2>5. QED
    BY <2>2, <2>3, <2>4 DEF BLogging
<1>14. BTimed'
  <2>1. \A f \in 1..Len(v3') : v3'[f].task \in 1..Len(v2)
    BY <1>9, <1>10, <1>11 DEF BInv, BTimed
  <2>2. \A d \in B!Calls :
          /\ v4'[d].at \in {"created", "update", "reread", "log"} => v4'[d].task \in 1..Len(v2)
          /\ v4'[d].at \in {"update", "log"} => v4'[d].status \in BStatus
    BY <1>5, <1>7 DEF BInv, BTimed
  <2>3. QED
    BY <1>3, <1>13, <2>1, <2>2 DEF BTimed
<1>15. BPlanned'
  BY <1>1, <1>3, <1>5, <1>6, BPlanStep
<1>16. BTyped'
  BY <1>3, <1>5, <1>6, <1>11, BMoves DEF BInv, BTyped
<1>17. QED
  BY <1>14, <1>15, <1>16 DEF BInv

LEMMA BUpdateStep ==
  ASSUME BInv, NEW c \in B!Calls, B!Update(c)
  PROVE  BInv'
<1>1. PICK r \in BCall : r = v4[c]
  BY BParts
<1>2. PICK k : k = r.task
  OBVIOUS
<1>3. /\ r.at = "update" /\ UNCHANGED <<v1, v3>> /\ v4' = [v4 EXCEPT ![c].at = "reread"]
      /\ v2' = [v2 EXCEPT ![k].status = r.status]
      /\ v5' = IF B!Logging(k) # {} THEN v5 \cup {k} ELSE v5 \ {k}
  BY <1>1, <1>2 DEF B!Update, B!At, B!Goto
<1>4. k \in 1..Len(v2) /\ r.status \in BStatus
  BY <1>1, <1>2, <1>3 DEF BInv, BTimed
<1>5. PICK n : n = [r EXCEPT !.at = "reread"]
  OBVIOUS
<1>6. /\ n \in BCall /\ n.at = "reread" /\ n.task = k /\ n.seen = r.seen /\ n.path = r.path
      /\ n.op = r.op /\ n.plan = r.plan
  BY <1>2, <1>5 DEF BCall
<1>7. v4' = [v4 EXCEPT ![c] = n]
  BY <1>1, <1>3, <1>5, BParts
<1>8. v4'[c] = n /\ \A d \in B!Calls \ {c} : v4'[d] = v4[d]
  BY <1>6, <1>7, BMoves
<1>9. v2' \in Seq(BTask) /\ Len(v2') = Len(v2) /\ \A j \in 1..Len(v2) : j # k => v2'[j] = v2[j]
  <2>1. PICK s \in Seq(BTask) : s = v2
    BY BParts
  <2>2. PICK x \in BTask : x = s[k]
    BY <1>4, <2>1
  <2>3. PICK y : y = [x EXCEPT !.status = r.status]
    OBVIOUS
  <2>4. y \in BTask
    BY <1>4, <2>3 DEF BTask
  <2>5. v2' = [s EXCEPT ![k] = y]
    BY <1>3, <2>1, <2>2, <2>3
  <2>6. QED
    BY <1>4, <2>1, <2>4, <2>5
<1>10. \A d \in B!Calls, j \in 1..Len(v2) : BLogs(d, j)' <=> BLogs(d, j) \/ (d = c /\ j = k)
  BY <1>1, <1>2, <1>3, <1>6, <1>8 DEF BLogs
<1>11. ASSUME NEW j \in 1..Len(v2), j \notin v5' PROVE BLogging(j)'
  <2>2. ASSUME j # k PROVE BLogging(j)
    <3>1. j \notin v5
      BY <1>3, <1>11, <2>2
    <3>2. QED
      BY <3>1 DEF BInv, BTimed
  <2>3. CASE j = k
    <3>1. \A d \in B!Calls : ~BLogs(d, k)
      BY <1>3, <1>11, <2>3 DEF B!Logging, BLogs
    <3>2. \A d \in B!Calls : BLogs(d, k)' <=> d = c
      BY <1>4, <1>10, <3>1
    <3>3. QED
      BY <1>6, <1>8, <2>3, <3>2 DEF BLogging
  <2>4. CASE j # k
    <3>1. \A d \in B!Calls : BLogs(d, j)' <=> BLogs(d, j)
      BY <1>10, <2>4
    <3>2. v2'[j] = v2[j] /\ v3' = v3
      BY <1>3, <1>9, <2>4
    <3>3. BTold(j)' <=> BTold(j)
      BY <3>2 DEF BTold
    <3>4. \A d, f \in B!Calls : BLogs(d, j)' /\ BLogs(f, j)' => d = f
      BY <2>2, <2>4, <3>1 DEF BLogging
    <3>5. \A d \in B!Calls : BLogs(d, j)' /\ v4'[d].at = "log" => v4'[d].status = v2'[j].status
      BY <1>6, <1>8, <2>2, <2>4, <3>1, <3>2 DEF BLogging
    <3>6. (\A d \in B!Calls : ~BLogs(d, j)') => BTold(j)'
      BY <2>2, <2>4, <3>1, <3>3 DEF BLogging
    <3>7. QED
      BY <3>4, <3>5, <3>6 DEF BLogging
  <2>5. QED
    BY <2>3, <2>4
<1>12. BTimed'
  <2>1. \A f \in 1..Len(v3') : v3'[f].task \in 1..Len(v2')
    BY <1>3, <1>9 DEF BInv, BTimed
  <2>2. \A d \in B!Calls :
          /\ v4'[d].at \in {"created", "update", "reread", "log"} => v4'[d].task \in 1..Len(v2')
          /\ v4'[d].at \in {"update", "log"} => v4'[d].status \in BStatus
    BY <1>4, <1>6, <1>8, <1>9 DEF BInv, BTimed
  <2>3. QED
    BY <1>9, <1>11, <2>1, <2>2 DEF BTimed
<1>13. BPlanned'
  BY <1>1, <1>3, <1>6, <1>7, BPlanStep
<1>14. BTyped'
  BY <1>3, <1>6, <1>7, <1>9, BMoves DEF BInv, BTyped
<1>15. QED
  BY <1>12, <1>13, <1>14 DEF BInv

LEMMA BRereadStep ==
  ASSUME BInv, NEW c \in B!Calls, B!Reread(c)
  PROVE  BInv'
<1>1. PICK r \in BCall : r = v4[c]
  BY BParts
<1>2. r.at = "reread" /\ r.task \in 1..Len(v2) /\ UNCHANGED <<v1, v2, v3, v5>>
  BY <1>1 DEF B!Reread, B!At, BInv, BTimed
<1>3. PICK st \in BStatus : st = v2[r.task].status
  <2>1. v2[r.task] \in BTask
    BY <1>2, BParts
  <2>2. QED
    BY <2>1 DEF BTask
<1>4. v4' = [v4 EXCEPT ![c].at = "log", ![c].status = st]
  BY <1>1, <1>3 DEF B!Reread
<1>5. PICK n : n = [r EXCEPT !.at = "log", !.status = st]
  OBVIOUS
<1>6. /\ n \in BCall /\ n.at = "log" /\ n.task = r.task /\ n.seen = r.seen /\ n.path = r.path
      /\ n.op = r.op /\ n.plan = r.plan /\ n.status = st
  BY <1>5 DEF BCall
<1>7. v4' = [v4 EXCEPT ![c] = n]
  BY <1>1, <1>4, <1>5, BParts
<1>8. v4'[c] = n /\ \A d \in B!Calls \ {c} : v4'[d] = v4[d]
  BY <1>6, <1>7, BMoves
<1>9. \A d \in B!Calls, k \in 1..Len(v2) : BLogs(d, k)' <=> BLogs(d, k)
  BY <1>1, <1>2, <1>6, <1>8 DEF BLogs
<1>10. ASSUME NEW k \in 1..Len(v2), k \notin v5 PROVE BLogging(k)'
  <2>1. BLogging(k)
    BY <1>10 DEF BInv, BTimed
  <2>2. BTold(k)' <=> BTold(k)
    BY <1>2 DEF BTold
  <2>3. \A d, e \in B!Calls : BLogs(d, k)' /\ BLogs(e, k)' => d = e
    BY <1>9, <2>1 DEF BLogging
  <2>4. ASSUME NEW d \in B!Calls, BLogs(d, k), v4'[d].at = "log" PROVE v4'[d].status = v2[k].status
    <3>1. CASE d = c
      BY <1>1, <1>3, <1>6, <1>8, <2>4, <3>1 DEF BLogs
    <3>2. CASE d # c
      BY <1>8, <2>1, <2>4, <3>2 DEF BLogging
    <3>3. QED
      BY <3>1, <3>2
  <2>5. (\A d \in B!Calls : ~BLogs(d, k)') => BTold(k)'
    BY <1>9, <2>1, <2>2 DEF BLogging
  <2>6. QED
    BY <1>2, <1>9, <2>3, <2>4, <2>5 DEF BLogging
<1>11. \A d \in B!Calls :
         /\ v4'[d].at \in {"created", "update", "reread", "log"} => v4'[d].task \in 1..Len(v2)
         /\ v4'[d].at \in {"update", "log"} => v4'[d].status \in BStatus
  BY <1>2, <1>6, <1>8 DEF BInv, BTimed
<1>12. BTimed'
  BY <1>2, <1>10, <1>11 DEF BInv, BTimed
<1>13. BPlanned'
  BY <1>1, <1>2, <1>6, <1>7, BPlanStep
<1>14. BTyped'
  BY <1>2, <1>6, <1>7, BMoves DEF BInv, BTyped
<1>15. QED
  BY <1>12, <1>13, <1>14 DEF BInv

LEMMA BCutStep ==
  ASSUME BInv, NEW c \in B!Calls, B!Cut(c)
  PROVE  BInv'
<1>1. PICK r \in BCall : r = v4[c]
  BY BParts
<1>2. /\ r.at # "new" /\ UNCHANGED <<v1, v2, v3>> /\ v4' = [v4 EXCEPT ![c].at = "cut"]
      /\ v5' = IF r.at \in {"reread", "log"} THEN v5 \cup {r.task} ELSE v5
  BY <1>1 DEF B!Cut, B!Goto
<1>3. PICK n : n = [r EXCEPT !.at = "cut"]
  OBVIOUS
<1>4. /\ n \in BCall /\ n.at = "cut" /\ n.seen = r.seen /\ n.path = r.path
      /\ n.op = r.op /\ n.plan = r.plan
  BY <1>3 DEF BCall
<1>5. v4' = [v4 EXCEPT ![c] = n]
  BY <1>1, <1>2, <1>3, BParts
<1>6. v4'[c] = n /\ \A d \in B!Calls \ {c} : v4'[d] = v4[d]
  BY <1>4, <1>5, BMoves
<1>7. ASSUME NEW k \in 1..Len(v2), k \notin v5' PROVE BLogging(k)'
  <2>1. k \notin v5 /\ (r.at \in {"reread", "log"} => r.task # k)
    BY <1>2, <1>7
  <2>2. BLogging(k)
    BY <2>1 DEF BInv, BTimed
  <2>3. \A d \in B!Calls : BLogs(d, k)' <=> BLogs(d, k)
    BY <1>1, <1>4, <1>6, <2>1 DEF BLogs
  <2>4. BTold(k)' <=> BTold(k)
    BY <1>2 DEF BTold
  <2>5. \A d, e \in B!Calls : BLogs(d, k)' /\ BLogs(e, k)' => d = e
    BY <2>2, <2>3 DEF BLogging
  <2>6. \A d \in B!Calls : BLogs(d, k)' /\ v4'[d].at = "log" => v4'[d].status = v2'[k].status
    BY <1>2, <1>4, <1>6, <2>2, <2>3 DEF BLogging
  <2>7. (\A d \in B!Calls : ~BLogs(d, k)') => BTold(k)'
    BY <2>2, <2>3, <2>4 DEF BLogging
  <2>8. QED
    BY <2>5, <2>6, <2>7 DEF BLogging
<1>8. \A d \in B!Calls :
        /\ v4'[d].at \in {"created", "update", "reread", "log"} => v4'[d].task \in 1..Len(v2)
        /\ v4'[d].at \in {"update", "log"} => v4'[d].status \in BStatus
  BY <1>4, <1>6 DEF BInv, BTimed
<1>9. BTimed'
  BY <1>2, <1>7, <1>8 DEF BInv, BTimed
<1>10. BPlanned'
  BY <1>1, <1>2, <1>4, <1>5, BPlanStep
<1>11. BTyped'
  BY <1>2, <1>4, <1>5, BMoves DEF BInv, BTyped
<1>12. QED
  BY <1>9, <1>10, <1>11 DEF BInv

LEMMA BInvStep == BInv /\ [B!Next]_(B!tlvars) => BInv'
<1> SUFFICES ASSUME BInv, [B!Next]_(B!tlvars) PROVE BInv'
  OBVIOUS
<1>1. CASE UNCHANGED B!tlvars
  <2>1. UNCHANGED <<v1, v2, v3, v4, v5>>
    BY <1>1 DEF B!tlvars
  <2>2. BTyped' /\ BPlanned'
    BY <2>1 DEF BInv, BTyped, BPlanned
  <2>3. BTimed'
    BY <2>1 DEF BInv, BTimed, BLogging, BLogs, BTold
  <2>4. QED
    BY <2>2, <2>3 DEF BInv
<1>2. ASSUME NEW c \in B!Calls, B!CallStep(c) PROVE BInv'
  BY <1>2, BBeginStep, BFindStep, BCreatePlanStep, BInsertTaskStep, BLogStep, BUpdateStep,
     BRereadStep, BCutStep DEF B!CallStep
<1>3. QED
  BY <1>1, <1>2 DEF B!Next

LEMMA BInvTells == BInv => B!LedgerTellsTheStory
<1> SUFFICES ASSUME BInv PROVE B!LedgerTellsTheStory
  OBVIOUS
<1>1. DOMAIN v1 = 1..Len(v1) /\ DOMAIN v2 = 1..Len(v2) /\ DOMAIN v3 = 1..Len(v3)
  BY BParts
<1>2. B!PlanIsReused
  BY <1>1 DEF BInv, BPlanned, B!PlanIsReused
<1>3. ASSUME NEW k \in 1..Len(v2), k \notin v5, B!Logging(k) = {},
             NEW told, told = {e \in 1..Len(v3) : v3[e].task = k /\ v3[e].says # "created"}
      PROVE  v2[k].status = IF told = {} THEN "queued" ELSE v3[B!Newest(told)].says
  <2>1. BTold(k)
    BY <1>3 DEF BInv, BTimed, BLogging, BLogs, B!Logging
  <2>2. CASE told = {}
    BY <1>3, <2>1, <2>2 DEF BTold
  <2>3. CASE told # {}
    <3>1. PICK e \in told : v3[e].says = v2[k].status /\ \A f \in told : f <= e
      BY <1>3, <2>1, <2>3 DEF BTold
    <3>2. PICK m : m = B!Newest(told)
      OBVIOUS
    <3>3. m \in told /\ \A f \in told : f <= m
      BY <3>1, <3>2 DEF B!Newest
    <3>4. m = e
      BY <1>3, <3>1, <3>3, BParts
    <3>5. QED
      BY <2>3, <3>1, <3>2, <3>4
  <2>4. QED
    BY <2>2, <2>3
<1>4. B!TimelineIsTrue
  <2>1. ASSUME NEW k \in 1..Len(v2), k \notin v5 PROVE B!EndsWithStatus(k)
    BY <1>1, <1>3, <2>1 DEF B!EndsWithStatus
  <2>2. QED
    BY <1>1, <2>1 DEF B!TimelineIsTrue
<1>5. QED
  BY <1>2, <1>4 DEF B!LedgerTellsTheStory

UService == service = "profile" => UKept

LEMMA UServiceInit == KeptInit => UService
<1> SUFFICES ASSUME KeptInit, service = "profile" PROVE UKept
  BY DEF UService
<1>1. U!Init
  BY DEF KeptInit
<1>2. QED
  BY <1>1, UKeptInit

LEMMA UServiceStep == UService /\ [UNCHANGED service /\ KeptNext]_svars => UService'
<1> SUFFICES ASSUME UService, [UNCHANGED service /\ KeptNext]_svars, service' = "profile" PROVE UKept'
  BY DEF UService
<1>1. service = "profile"
  BY DEF KeptNext, svars
<1>2. [U!Next]_(U!upvars)
  BY <1>1 DEF KeptNext, svars, U!upvars
<1>3. QED
  BY <1>1, <1>2, UKeptStep DEF UService

\* The profile's part of KeptIsUsable: a change the model was told is made stays
\* in user.md, for any number of processes and calls, unless threads met that
\* no lock keeps apart: the lock of each process and its cache, which is tried
\* against the file's key, are enough while one process writes and nothing is
\* interrupted (storage/user_profile.py).
THEOREM ToldAlwaysKept == KeptSpec => [](service = "profile" => U!ToldIsKept)
<1>1. UService => (service = "profile" => U!ToldIsKept)
  BY DEF UService, UKept, UKnown, U!ToldIsKept
<1>2. QED
  BY <1>1, UServiceInit, UServiceStep, PTL DEF KeptSpec

OService == service = "setup" => OInv

LEMMA OServiceInit == KeptInit => OService
<1> SUFFICES ASSUME KeptInit, service = "setup" PROVE OInv
  BY DEF OService
<1>1. O!Init
  BY DEF KeptInit
<1>2. QED
  BY <1>1, OInit

LEMMA OServiceStep == OService /\ [UNCHANGED service /\ KeptNext]_svars => OService'
<1> SUFFICES ASSUME OService, [UNCHANGED service /\ KeptNext]_svars, service' = "setup"
             PROVE  OInv'
  BY DEF OService
<1>1. service = "setup"
  BY DEF KeptNext, svars
<1>2. [O!Next]_(O!obvars)
  BY <1>1 DEF KeptNext, svars, O!obvars
<1>3. QED
  BY <1>1, <1>2, OInvStep DEF OService

HService == service = "hub" => HInv

LEMMA HServiceInit == KeptInit => HService
<1> SUFFICES ASSUME KeptInit, service = "hub" PROVE HInv
  BY DEF HService
<1>1. H!Init
  BY DEF KeptInit
<1>2. QED
  BY <1>1, HInit

LEMMA HServiceStep == HService /\ [UNCHANGED service /\ KeptNext]_svars => HService'
<1> SUFFICES ASSUME HService, [UNCHANGED service /\ KeptNext]_svars, service' = "hub"
             PROVE  HInv'
  BY DEF HService
<1>1. service = "hub"
  BY DEF KeptNext, svars
<1>2. [H!Next]_(H!ahvars)
  BY <1>1 DEF KeptNext, svars, H!ahvars
<1>3. QED
  BY <1>1, <1>2, HInvStep DEF HService

CService == service = "config" => CInv

LEMMA CServiceInit == KeptInit => CService
<1> SUFFICES ASSUME KeptInit, service = "config" PROVE CInv
  BY DEF CService
<1>1. C!Init
  BY DEF KeptInit
<1>2. QED
  BY <1>1, CInit

LEMMA CServiceStep == CService /\ [UNCHANGED service /\ KeptNext]_svars => CService'
<1> SUFFICES ASSUME CService, [UNCHANGED service /\ KeptNext]_svars, service' = "config"
             PROVE  CInv'
  BY DEF CService
<1>1. service = "config"
  BY DEF KeptNext, svars
<1>2. [C!Next]_(C!cvars)
  BY <1>1 DEF KeptNext, svars, C!cvars
<1>3. QED
  BY <1>1, <1>2, CInvStep DEF CService

SService == service = "screen" => SInherits

LEMMA SServiceInit == KeptInit => SService
<1> SUFFICES ASSUME KeptInit, service = "screen" PROVE SInherits
  BY DEF SService
<1>1. S!Init
  BY DEF KeptInit
<1>2. QED
  BY <1>1, SInit

LEMMA SServiceStep == SService /\ [UNCHANGED service /\ KeptNext]_svars => SService'
<1> SUFFICES ASSUME SService, [UNCHANGED service /\ KeptNext]_svars, service' = "screen"
             PROVE  SInherits'
  BY DEF SService
<1>1. service = "screen"
  BY DEF KeptNext, svars
<1>2. [S!Next]_(S!cfvars)
  BY <1>1 DEF KeptNext, svars, S!cfvars
<1>3. QED
  BY <1>1, <1>2, SInvStep DEF SService

FService == service = "files" => FInv

LEMMA FServiceInit == KeptInit => FService
<1> SUFFICES ASSUME KeptInit, service = "files" PROVE FInv
  BY DEF FService
<1>1. F!Init
  BY DEF KeptInit
<1>2. QED
  BY <1>1, FInit

LEMMA FServiceStep == FService /\ [UNCHANGED service /\ KeptNext]_svars => FService'
<1> SUFFICES ASSUME FService, [UNCHANGED service /\ KeptNext]_svars, service' = "files"
             PROVE  FInv'
  BY DEF FService
<1>1. service = "files"
  BY DEF KeptNext, svars
<1>2. [F!Next]_(F!atvars)
  BY <1>1 DEF KeptNext, svars, F!atvars
<1>3. QED
  BY <1>1, <1>2, FInvStep DEF FService

BService == service = "ledger" => BInv

LEMMA BServiceInit == KeptInit => BService
<1> SUFFICES ASSUME KeptInit, service = "ledger" PROVE BInv
  BY DEF BService
<1>1. B!Init
  BY DEF KeptInit
<1>2. QED
  BY <1>1, BInit

LEMMA BServiceStep == BService /\ [UNCHANGED service /\ KeptNext]_svars => BService'
<1> SUFFICES ASSUME BService, [UNCHANGED service /\ KeptNext]_svars, service' = "ledger"
             PROVE  BInv'
  BY DEF BService
<1>1. service = "ledger"
  BY DEF KeptNext, svars
<1>2. [B!Next]_(B!tlvars)
  BY <1>1 DEF KeptNext, svars, B!tlvars
<1>3. QED
  BY <1>1, <1>2, BInvStep DEF BService

\* Once a wizard has completed, and as long as the packaged yaml has its lines,
\* the routed provider and memory have their keys, for any providers and any
\* set-ups that stop half way (setup/wizard.py:865-943). A profile's change that
\* was acknowledged stays unless a thread that an interrupt left, or another
\* process, was at the file meanwhile (storage/user_profile.py). A restarted hub
\* goes on with the session a browser was shown unless a request wrote its
\* session while another was resuming one (core/leads/manager.py:165-192).
THEOREM KeptAlwaysUsable == KeptSpec => []KeptIsUsable
<1>1. OService /\ UService /\ HService => KeptIsUsable
  <2>1. UService => (service = "profile" => U!ToldIsKept)
    BY DEF UService, UKept, UKnown, U!ToldIsKept
  <2>2. QED
    BY <2>1, OInvUsable, HInvResumes DEF OService, HService, KeptIsUsable
<1>2. QED
  BY <1>1, OServiceInit, OServiceStep, UServiceInit, UServiceStep, HServiceInit, HServiceStep,
     PTL DEF KeptSpec

\* However saves, reloads and restarts of supervisor and worker interleave: a
\* setting reported as applied was read by every process it is for, and is what
\* the agent runs on (runtime/root.py:619-690).  However fields are edited,
\* reset, saved in part and abandoned, with a cursor that moves under an open
\* editor: the provider and the model a field is gated by are those the agent
\* will have once the edits are saved, "(inherit)" included, unless the active
\* provider is being edited or the project's file sets the agent's
\* (tui/config_screen.py:779-922).
THEOREM SettingsAlwaysAsTold == KeptSpec => []SettingsAreAsTold
<1>1. CService /\ SService => SettingsAreAsTold
  BY CInvApplied, SInvForesees DEF CService, SService, SettingsAreAsTold
<1>2. QED
  BY <1>1, CServiceInit, CServiceStep, SServiceInit, SServiceStep, PTL DEF KeptSpec

\* For any number of turns that share the connection, any files and any number
\* of interrupts, errors and kills: a message whose run starts has all its rows
\* and copies, one that was discarded and not disturbed again has none, one that
\* an interrupt met while it was stored has no rows, and one that a kill met has
\* a copy for each row it has (storage/attachment_store.py:91-165).  For any
\* calls that interleave and are cut short: a path has a second plan only from
\* calls that overlapped, and a task's timeline ends with its status after each
\* change that no other overlapped or cut (storage/task_store.py:88-290).
THEOREM AlwaysWrittenWhole == KeptSpec => []WrittenWhole
<1>1. FService /\ BService => WrittenWhole
  BY FInvFollows, BInvTells DEF FService, BService, WrittenWhole
<1>2. QED
  BY <1>1, FServiceInit, FServiceStep, BServiceInit, BServiceStep, PTL DEF KeptSpec
=============================================================================

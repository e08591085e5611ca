----------------------------- MODULE ConsoleProofs -----------------------------
(***************************************************************************)
(* Proofs about what the console has behind it: the ingest key, for any    *)
(* number of pages, concurrent requests and rotations, and any ttl; and    *)
(* the alerts, for any number of them and of starts.                       *)
(***************************************************************************)
EXTENDS Console, Sequences, TLAPS

\* Whoever holds a hash that is not current read it before the last rotation, and
\* began before that: what it caches is over a ttl after the rotation.
StaleInv ==
    /\ rotatedAt <= clock
    /\ cache.expiresAt <= clock + TTL
    /\ cache.hash # current => cache.expiresAt <= rotatedAt + TTL
    /\ \A c \in Callers : req[c].now <= clock
    /\ \A c \in Callers :
          req[c].stage = "store" /\ req[c].hash # current
          => req[c].now <= rotatedAt
    /\ \A c \in Callers :
          req[c].stage = "compare" /\ req[c].hash # current
          => req[c].now < rotatedAt + TTL

\* A page waits for one rotation; while it waits for one that is committed, the
\* current key is none it was told of.
WaitInv ==
    /\ \A n \in Keys : n > made => rotation[n] = NoRotation
    /\ \A n \in Keys : rotation[n].page # None => rotation[n].page \in rotating
    /\ \A n, m \in Keys :
          rotation[n].page # None /\ rotation[n].page = rotation[m].page => n = m
    /\ \A p \in Owners : \A n \in got[p] : rotation[n].stage = "over"
    /\ \A n \in Keys : \A p \in Owners :
          rotation[n].page = p /\ rotation[n].stage = "committed"
          => current \notin got[p]

------------------------------------------------------------------------------
\* The types of a rotation and of a request.
Stages == {"unused", "sent", "selected", "committed", "over"}
Rotations == [page : Owners \union {None}, stage : Stages, found : BOOLEAN]
Requests == [stage : {"free", "begun", "query", "store", "compare"},
             now : Nat, hash : 0..MaxRotations]

\* A rotation keeps its type when its fields are set.
LEMMA RotationType ==
    ASSUME NEW r \in Rotations, NEW s \in Stages, NEW f \in BOOLEAN
    PROVE  /\ [r EXCEPT !.page = None] \in Rotations
           /\ [r EXCEPT !.page = None, !.stage = s] \in Rotations
           /\ [r EXCEPT !.stage = s] \in Rotations
           /\ [r EXCEPT !.stage = s, !.found = f] \in Rotations
BY DEF Rotations

\* A request keeps its type when its stage and hash are set.
LEMMA RequestType ==
    ASSUME NEW r \in Requests, NEW h \in 0..MaxRotations,
           NEW s \in {"free", "begun", "query", "store", "compare"}
    PROVE  /\ [r EXCEPT !.stage = s] \in Requests
           /\ [r EXCEPT !.stage = s, !.hash = h] \in Requests
BY DEF Requests

\* One rotation is set, or one request.
LEMMA SetOne ==
    ASSUME TypeOK
    PROVE  /\ rotation \in [Keys -> Rotations] /\ req \in [Callers -> Requests]
           /\ \A n \in Keys : \A r \in Rotations :
                [rotation EXCEPT ![n] = r] \in [Keys -> Rotations]
           /\ \A c \in Callers : \A r \in Requests :
                [req EXCEPT ![c] = r] \in [Callers -> Requests]
BY DEF TypeOK, Rotations, Stages, Requests

\* The variables keep their types.
THEOREM IngestKeyTypes == Spec => []TypeOK
<1> USE IngestKeyAssumption
<1> DEFINE RotationOK == rotation \in [Keys -> Rotations]
           ReqOK == req \in [Callers -> Requests]
           RestOK ==
             /\ current \in 0..MaxRotations
             /\ made \in 0..MaxRotations
             /\ shown \in [Owners -> 0..MaxRotations]
             /\ rotating \subseteq Owners
             /\ got \in [Owners -> SUBSET Keys]
             /\ clock \in Nat /\ rotatedAt \in Nat
             /\ cache \in [hash : 0..MaxRotations, expiresAt : Nat]
<1>1. TypeOK <=> RotationOK /\ ReqOK /\ RestOK
  BY DEF TypeOK, Rotations, Stages, Requests
<1>2. Init => RotationOK /\ ReqOK /\ RestOK
  <2> SUFFICES ASSUME Init PROVE RotationOK /\ ReqOK /\ RestOK
    OBVIOUS
  <2>1. NoRotation \in Rotations /\ NoReq \in Requests
    BY DEF NoRotation, Rotations, Stages, NoReq, Requests
  <2>2. RotationOK /\ ReqOK
    BY <2>1 DEF Init
  <2>3. RestOK
    BY DEF Init, NoEntry
  <2>4. QED BY <2>2, <2>3
<1>3. TypeOK /\ [Next]_vars => TypeOK'
  <2> SUFFICES ASSUME TypeOK, RotationOK, ReqOK, RestOK, [Next]_vars
               PROVE  RotationOK' /\ ReqOK' /\ RestOK'
    BY <1>1, PTL
  <2> USE DEF tableVars, pageVars, ingestVars, Keys
  <2>1. CASE Tick BY <2>1 DEF Tick
  <2>2. ASSUME NEW p \in Owners, Rotate(p)
        PROVE  RotationOK' /\ ReqOK' /\ RestOK'
    <3>1. [page |-> p, stage |-> "sent", found |-> FALSE] \in Rotations
      BY DEF Rotations, Stages
    <3>2. made + 1 \in Keys
      BY <2>2 DEF Rotate, SendRotation
    <3>3. RotationOK'
      BY <2>2, <3>1, <3>2, SetOne DEF Rotate, SendRotation
    <3>4. QED BY <2>2, <3>2, <3>3 DEF Rotate, SendRotation
  <2>3. ASSUME NEW p \in Owners, Reopen(p)
        PROVE  RotationOK' /\ ReqOK' /\ RestOK'
    <3>1. \A n \in Keys : [rotation[n] EXCEPT !.page = None] \in Rotations
      BY RotationType DEF Stages
    <3>2. RotationOK'
      BY <2>3, <3>1 DEF Reopen
    <3>3. QED BY <2>3, <3>2 DEF Reopen
  <2>4. ASSUME NEW n \in Keys, RotationAnswered(n)
        PROVE  RotationOK' /\ ReqOK' /\ RestOK'
    <3>1. [rotation[n] EXCEPT !.page = None, !.stage = "over"] \in Rotations
      BY RotationType DEF Stages
    <3>2. RotationOK'
      BY <2>4, <3>1, SetOne DEF RotationAnswered
    <3>3. got' \in [Owners -> SUBSET Keys] /\ shown' \in [Owners -> 0..MaxRotations]
      <4>1. PICK p \in Owners : /\ shown' = [shown EXCEPT ![p] = n]
                              /\ got' = [got EXCEPT ![p] = got[p] \union {n}]
        BY <2>4 DEF RotationAnswered, Rotations
      <4>2. got[p] \union {n} \in SUBSET Keys /\ n \in 0..MaxRotations
        BY <2>4
      <4>3. QED BY <4>1, <4>2
    <3>4. rotating' \subseteq Owners
      BY <2>4 DEF RotationAnswered
    <3>5. QED BY <2>4, <3>2, <3>3, <3>4 DEF RotationAnswered
  <2>5. ASSUME NEW n \in Keys, RotationFails(n)
        PROVE  RotationOK' /\ ReqOK' /\ RestOK'
    <3>1. [rotation[n] EXCEPT !.page = None] \in Rotations
      BY RotationType DEF Stages
    <3>2. RotationOK'
      BY <2>5, <3>1, SetOne DEF RotationFails
    <3>3. QED BY <2>5, <3>2 DEF RotationFails
  <2>6. ASSUME NEW n \in Keys, SelectRecord(n)
        PROVE  RotationOK' /\ ReqOK' /\ RestOK'
    <3>1. [rotation[n] EXCEPT !.stage = "selected", !.found = (current # 0)]
            \in Rotations
      BY RotationType DEF Stages
    <3>2. RotationOK'
      BY <2>6, <3>1, SetOne DEF SelectRecord
    <3>3. QED BY <2>6, <3>2 DEF SelectRecord
  <2>7. ASSUME NEW n \in Keys, CommitRecord(n)
        PROVE  RotationOK' /\ ReqOK' /\ RestOK'
    <3>1. /\ [rotation[n] EXCEPT !.stage = "committed"] \in Rotations
          /\ [rotation[n] EXCEPT !.stage = "over"] \in Rotations
      BY RotationType DEF Stages
    <3>2. RotationOK'
      BY <2>7, <3>1, SetOne DEF CommitRecord
    <3>3. QED BY <2>7, <3>2 DEF CommitRecord
  <2>8. ASSUME NEW c \in Callers, Begin(c)
        PROVE  RotationOK' /\ ReqOK' /\ RestOK'
    <3>1. [stage |-> "begun", now |-> clock, hash |-> 0] \in Requests
      BY DEF Requests
    <3>2. QED BY <2>8, <3>1, SetOne DEF Begin
  <2>9. ASSUME NEW c \in Callers, LookUp(c)
        PROVE  RotationOK' /\ ReqOK' /\ RestOK'
    <3>1. /\ [req[c] EXCEPT !.stage = "compare", !.hash = cache.hash] \in Requests
          /\ [req[c] EXCEPT !.stage = "query"] \in Requests
      BY RequestType
    <3>2. ReqOK'
      <4>1. CASE cache.expiresAt > req[c].now
        BY <2>9, <3>1, <4>1, SetOne DEF LookUp
      <4>2. CASE ~(cache.expiresAt > req[c].now)
        BY <2>9, <3>1, <4>2, SetOne DEF LookUp
      <4>3. QED BY <4>1, <4>2
    <3>3. UNCHANGED <<tableVars, pageVars, clock, cache>>
      BY <2>9 DEF LookUp
    <3>4. QED BY <3>2, <3>3
  <2>10. ASSUME NEW c \in Callers, Query(c)
         PROVE  RotationOK' /\ ReqOK' /\ RestOK'
    <3>1. [req[c] EXCEPT !.stage = "store", !.hash = current] \in Requests
      BY RequestType
    <3>2. QED BY <2>10, <3>1, SetOne DEF Query
  <2>11. ASSUME NEW c \in Callers, Store(c)
         PROVE  RotationOK' /\ ReqOK' /\ RestOK'
    <3>1. [req[c] EXCEPT !.stage = "compare"] \in Requests
      BY RequestType
    <3>2. req[c].hash \in 0..MaxRotations /\ req[c].now + TTL \in Nat
      BY DEF Requests
    <3>3. cache' \in [hash : 0..MaxRotations, expiresAt : Nat]
      BY <2>11, <3>2 DEF Store
    <3>4. QED BY <2>11, <3>1, <3>3, SetOne DEF Store
  <2>12. ASSUME NEW c \in Callers, Decide(c)
         PROVE  RotationOK' /\ ReqOK' /\ RestOK'
    <3>1. NoReq \in Requests
      BY DEF NoReq, Requests
    <3>2. QED BY <2>12, <3>1, SetOne DEF Decide
  <2>13. CASE UNCHANGED vars BY <2>13 DEF vars
  <2>14. QED
    BY <2>1, <2>2, <2>3, <2>4, <2>5, <2>6, <2>7, <2>8, <2>9, <2>10, <2>11,
       <2>12, <2>13 DEF Next
<1>4. QED BY <1>1, <1>2, <1>3, PTL DEF Spec

------------------------------------------------------------------------------
\* What is cached or held of an older key has a time before the last rotation.
LEMMA StaleInductive == Spec => []StaleInv
<1> USE IngestKeyAssumption DEF StaleInv
<1>1. Init => StaleInv
  BY DEF Init, NoEntry, NoReq
<1>2. TypeOK /\ StaleInv /\ [Next]_vars => StaleInv'
  <2> SUFFICES ASSUME TypeOK, StaleInv, [Next]_vars PROVE StaleInv'
    OBVIOUS
  <2> USE DEF TypeOK, tableVars, pageVars, ingestVars
  <2>1. CASE Tick BY <2>1 DEF Tick
  <2>2. CASE UNCHANGED <<tableVars, clock, ingestVars>>
    BY <2>2
  <2>3. ASSUME NEW n \in Keys, CommitRecord(n) PROVE StaleInv'
    <3>1. CASE UNCHANGED tableVars
      BY <2>2, <2>3, <3>1 DEF CommitRecord
    <3>2. CASE current' = n /\ rotatedAt' = clock
      <4>1. UNCHANGED <<clock, ingestVars>>
        BY <2>3 DEF CommitRecord
      <4>2. QED BY <3>2, <4>1
    <3>3. QED BY <2>3, <3>1, <3>2 DEF CommitRecord
  <2>4. ASSUME NEW c \in Callers, Begin(c) PROVE StaleInv'
    BY <2>4 DEF Begin
  <2>5. ASSUME NEW c \in Callers, LookUp(c) PROVE StaleInv'
    <3>1. CASE cache.expiresAt > req[c].now
      <4>1. req' = [req EXCEPT ![c] =
                      [@ EXCEPT !.stage = "compare", !.hash = cache.hash]]
        BY <2>5, <3>1 DEF LookUp
      <4>2. UNCHANGED <<tableVars, clock, cache>>
        BY <2>5 DEF LookUp
      <4>3. cache.hash # current => req[c].now < rotatedAt + TTL
        BY <3>1
      <4>4. QED BY <4>1, <4>2, <4>3
    <3>2. CASE ~(cache.expiresAt > req[c].now)
      <4>1. req' = [req EXCEPT ![c] = [@ EXCEPT !.stage = "query"]]
        BY <2>5, <3>2 DEF LookUp
      <4>2. UNCHANGED <<tableVars, clock, cache>>
        BY <2>5 DEF LookUp
      <4>3. QED BY <4>1, <4>2
    <3>3. QED BY <3>1, <3>2
  <2>6. ASSUME NEW c \in Callers, Query(c) PROVE StaleInv'
    BY <2>6 DEF Query
  <2>7. ASSUME NEW c \in Callers, Store(c) PROVE StaleInv'
    <3>1. /\ cache'.hash = req[c].hash
          /\ cache'.expiresAt = req[c].now + TTL
          /\ req' = [req EXCEPT ![c] = [@ EXCEPT !.stage = "compare"]]
          /\ UNCHANGED <<tableVars, clock>>
          /\ req[c].stage = "store"
      <4>1. cache' = [hash |-> req[c].hash, expiresAt |-> req[c].now + TTL]
        BY <2>7 DEF Store
      <4>2. QED BY <2>7, <4>1 DEF Store
    <3>2. req[c].hash # current => req[c].now < rotatedAt + TTL
      <4>1. req[c].hash # current => req[c].now <= rotatedAt
        BY <3>1
      <4>2. req[c].now \in Nat /\ rotatedAt \in Nat /\ TTL \in Nat /\ TTL > 0
        OBVIOUS
      <4>3. QED BY <4>1, <4>2
    <3>3. req[c].now <= clock /\ req[c].now \in Nat
      OBVIOUS
    <3>4. /\ cache'.expiresAt <= clock' + TTL
          /\ cache'.hash # current' => cache'.expiresAt <= rotatedAt' + TTL
      BY <3>1, <3>3
    <3>5. QED BY <3>1, <3>2, <3>4
  <2>8. ASSUME NEW c \in Callers, Decide(c) PROVE StaleInv'
    BY <2>8 DEF Decide, NoReq
  <2>9. ASSUME NEW p \in Owners, Rotate(p) \/ Reopen(p) PROVE StaleInv'
    BY <2>2, <2>9 DEF Rotate, SendRotation, Reopen
  <2>10. ASSUME NEW n \in Keys,
                RotationAnswered(n) \/ RotationFails(n) \/ SelectRecord(n)
         PROVE  StaleInv'
    BY <2>2, <2>10 DEF RotationAnswered, RotationFails, SelectRecord
  <2>11. CASE UNCHANGED vars BY <2>2, <2>11 DEF vars
  <2>12. QED
    BY <2>1, <2>3, <2>4, <2>5, <2>6, <2>7, <2>8, <2>9, <2>10, <2>11 DEF Next
<1>3. QED BY <1>1, <1>2, IngestKeyTypes, PTL DEF Spec

\* A ttl after a rotation only its key is accepted, however the lookups overlap
\* (ValidateIngestKey).
THEOREM RotationTakesEffect == Spec => []VerdictIsCurrent
<1>1. TypeOK /\ StaleInv => VerdictIsCurrent
  <2> SUFFICES ASSUME TypeOK, StaleInv, NEW c \in Callers,
                      req[c].stage = "compare", req[c].now >= rotatedAt + TTL,
                      NEW key \in Keys
               PROVE  Accepted(c, key) <=> key = current
    BY DEF VerdictIsCurrent
  <2>1. req[c].hash = current
    BY IngestKeyAssumption DEF StaleInv, TypeOK
  <2>2. key # 0
    BY IngestKeyAssumption DEF Keys
  <2>3. QED BY <2>1, <2>2 DEF Accepted
<1>2. QED BY <1>1, IngestKeyTypes, StaleInductive, PTL

------------------------------------------------------------------------------
\* A rotation that a page waits for makes a key the page was not told of, and no
\* key becomes current twice.
LEMMA WaitInductive == Spec => [](WaitInv /\ ShownKeyIsCurrent)
<1> USE IngestKeyAssumption DEF WaitInv, ShownKeyIsCurrent
<1>1. Init => WaitInv /\ ShownKeyIsCurrent
  BY DEF Init, NoRotation, Keys
<1>2. TypeOK /\ WaitInv /\ ShownKeyIsCurrent /\ [Next]_vars
      => WaitInv' /\ ShownKeyIsCurrent'
  <2> SUFFICES ASSUME TypeOK, WaitInv, ShownKeyIsCurrent, [Next]_vars
               PROVE  WaitInv' /\ ShownKeyIsCurrent'
    OBVIOUS
  <2> USE DEF tableVars, pageVars, ingestVars
  <2>1. /\ rotation \in [Keys -> Rotations]
        /\ got \in [Owners -> SUBSET Keys] /\ shown \in [Owners -> 0..MaxRotations]
        /\ made \in 0..MaxRotations /\ current \in 0..MaxRotations
    BY SetOne DEF TypeOK
  <2>2. CASE UNCHANGED <<current, pageVars>>
    BY <2>2
  <2>3. ASSUME NEW p \in Owners, Rotate(p)
        PROVE  WaitInv' /\ ShownKeyIsCurrent'
    <3>1. /\ made + 1 \in Keys /\ made' = made + 1
          /\ rotation[made + 1] = NoRotation
      BY <2>1, <2>3 DEF Rotate, SendRotation, Keys
    <3>2. /\ rotation' = [rotation EXCEPT ![made + 1] =
                            [page |-> p, stage |-> "sent", found |-> FALSE]]
          /\ rotating' = rotating \union {p}
          /\ p \notin rotating
          /\ UNCHANGED <<shown, got, current>>
      BY <2>3 DEF Rotate, SendRotation
    <3>3. \A q \in Owners : made + 1 \notin got[q]
      BY <3>1 DEF NoRotation
    <3>4. \A n \in Keys : rotation[n].page # p
      BY <2>1, <3>2
    <3>5. \A n \in Keys : n > made' => rotation'[n] = NoRotation
      BY <2>1, <3>1, <3>2 DEF Keys
    <3>6. \A n, m \in Keys :
            rotation'[n].page # None /\ rotation'[n].page = rotation'[m].page => n = m
      BY <2>1, <3>1, <3>2, <3>4
    <3>7. \A q \in Owners : \A n \in got'[q] : rotation'[n].stage = "over"
      BY <2>1, <3>1, <3>2, <3>3
    <3>8. QED BY <2>1, <3>1, <3>2, <3>5, <3>6, <3>7
  <2>4. ASSUME NEW p \in Owners, Reopen(p)
        PROVE  WaitInv' /\ ShownKeyIsCurrent'
    <3>1. /\ \A n \in Keys : /\ rotation'[n].page =
                                  IF rotation[n].page = p THEN None ELSE rotation[n].page
                             /\ rotation'[n].stage = rotation[n].stage
          /\ \A n \in Keys : rotation[n].page # p => rotation'[n] = rotation[n]
      BY <2>1, <2>4 DEF Reopen, Rotations
    <3>2. /\ shown' = [shown EXCEPT ![p] = 0] /\ got' = [got EXCEPT ![p] = {}]
          /\ rotating' = rotating \ {p} /\ UNCHANGED <<made, current>>
      BY <2>4 DEF Reopen
    <3>3. \A n \in Keys : n > made' => rotation'[n] = NoRotation
      <4>1. NoRotation.page # p
        BY DEF NoRotation
      <4>2. SUFFICES ASSUME NEW n \in Keys, n > made
                     PROVE  rotation'[n] = NoRotation
        BY <3>2
      <4>3. rotation[n] = NoRotation
        BY <4>2
      <4>4. QED BY <3>1, <4>1, <4>3
    <3>4. QED BY <2>1, <3>1, <3>2, <3>3
  <2>5. ASSUME NEW n \in Keys, RotationAnswered(n)
        PROVE  WaitInv' /\ ShownKeyIsCurrent'
    <3>1. PICK p \in Owners :
            /\ p = rotation[n].page
            /\ shown' = [shown EXCEPT ![p] = n]
            /\ got' = [got EXCEPT ![p] = got[p] \union {n}]
            /\ rotating' = rotating \ {p}
      BY <2>1, <2>5 DEF RotationAnswered, Rotations
    <3>2. /\ rotation[n].stage = "committed" /\ rotation[n].page # None
          /\ UNCHANGED <<made, current>>
          /\ rotation'[n].page = None /\ rotation'[n].stage = "over"
          /\ \A m \in Keys \ {n} : rotation'[m] = rotation[m]
      BY <2>1, <2>5 DEF RotationAnswered, Rotations
    <3>3. current \notin got[p]
      BY <3>1, <3>2
    <3>4. ~(n > made)
      BY <3>2 DEF NoRotation
    <3>5. \A m \in Keys \ {n} : rotation'[m].page # p
      BY <3>1, <3>2
    <3>6. \A m \in Keys : m > made' => rotation'[m] = NoRotation
      BY <3>2, <3>4
    <3>7. \A m \in Keys : rotation'[m].page # None => rotation'[m].page \in rotating'
      BY <3>1, <3>2, <3>5
    <3>8. \A m, l \in Keys :
            rotation'[m].page # None /\ rotation'[m].page = rotation'[l].page => m = l
      BY <3>2
    <3>9. \A q \in Owners : \A m \in got'[q] : rotation'[m].stage = "over"
      BY <2>1, <3>1, <3>2
    <3>10. \A m \in Keys : \A q \in Owners :
             rotation'[m].page = q /\ rotation'[m].stage = "committed"
             => current' \notin got'[q]
      BY <2>1, <3>1, <3>2, <3>5
    <3>11. ShownKeyIsCurrent'
      BY <2>1, <3>1, <3>2, <3>3
    <3>12. QED BY <3>6, <3>7, <3>8, <3>9, <3>10, <3>11
  <2>6. ASSUME NEW n \in Keys, RotationFails(n)
        PROVE  WaitInv' /\ ShownKeyIsCurrent'
    <3>1. /\ rotation[n].page # None
          /\ UNCHANGED <<made, shown, got, current>>
          /\ rotating' = rotating \ {rotation[n].page}
          /\ rotation'[n].page = None /\ rotation'[n].stage = rotation[n].stage
          /\ \A m \in Keys \ {n} : rotation'[m] = rotation[m]
      BY <2>1, <2>6 DEF RotationFails, Rotations
    <3>2. ~(n > made)
      BY <3>1 DEF NoRotation
    <3>3. \A m \in Keys : m > made' => rotation'[m] = NoRotation
      BY <3>1, <3>2
    <3>4. \A m \in Keys : rotation'[m].page # None => rotation'[m].page \in rotating'
      BY <3>1
    <3>5. QED BY <2>1, <3>1, <3>3, <3>4
  <2>7. ASSUME NEW n \in Keys, SelectRecord(n)
        PROVE  WaitInv' /\ ShownKeyIsCurrent'
    <3>1. /\ rotation[n].stage = "sent"
          /\ UNCHANGED <<made, shown, got, current, rotating>>
          /\ rotation'[n].page = rotation[n].page /\ rotation'[n].stage = "selected"
          /\ \A m \in Keys \ {n} : rotation'[m] = rotation[m]
      BY <2>1, <2>7 DEF SelectRecord, Rotations
    <3>2. ~(n > made)
      BY <3>1 DEF NoRotation
    <3>3. \A m \in Keys : m > made' => rotation'[m] = NoRotation
      BY <3>1, <3>2
    <3>4. \A q \in Owners : n \notin got[q]
      BY <3>1
    <3>5. \A q \in Owners : \A m \in got'[q] : rotation'[m].stage = "over"
      BY <2>1, <3>1, <3>4
    <3>6. QED BY <2>1, <3>1, <3>3, <3>5
  <2>8. ASSUME NEW n \in Keys, CommitRecord(n)
        PROVE  WaitInv' /\ ShownKeyIsCurrent'
    <3>1. /\ rotation[n].stage = "selected"
          /\ UNCHANGED <<made, shown, got, rotating>>
          /\ rotation'[n].page = rotation[n].page
          /\ \A m \in Keys \ {n} : rotation'[m] = rotation[m]
          /\ \/ current' = n
             \/ UNCHANGED current /\ rotation'[n].stage = "over"
      BY <2>1, <2>8 DEF CommitRecord, Rotations
    <3>2. ~(n > made)
      BY <3>1 DEF NoRotation
    <3>3. \A m \in Keys : m > made' => rotation'[m] = NoRotation
      BY <3>1, <3>2
    <3>4. \A q \in Owners : n \notin got[q]
      BY <3>1
    <3>5. \A q \in Owners : \A m \in got'[q] : rotation'[m].stage = "over"
      BY <2>1, <3>1, <3>4
    <3>6. \A m \in Keys : \A q \in Owners :
            rotation'[m].page = q /\ rotation'[m].stage = "committed"
            => current' \notin got'[q]
      BY <3>1, <3>4
    <3>7. ShownKeyIsCurrent'
      BY <3>1, <3>4
    <3>8. QED BY <3>1, <3>3, <3>5, <3>6, <3>7
  <2>9. CASE Tick BY <2>2, <2>9 DEF Tick
  <2>10. ASSUME NEW c \in Callers,
                Begin(c) \/ LookUp(c) \/ Query(c) \/ Store(c) \/ Decide(c)
         PROVE  WaitInv' /\ ShownKeyIsCurrent'
    BY <2>2, <2>10 DEF Begin, LookUp, Query, Store, Decide
  <2>11. CASE UNCHANGED vars BY <2>2, <2>11 DEF vars
  <2>12. QED
    BY <2>3, <2>4, <2>5, <2>6, <2>7, <2>8, <2>9, <2>10, <2>11 DEF Next
<1>3. QED BY <1>1, <1>2, IngestKeyTypes, PTL DEF Spec

\* A page that was told the current key shows it, whatever rotations of its own or
\* of other pages came before and after (rotateIngestKey).
THEOREM ShownKeyCorrect == Spec => []ShownKeyIsCurrent
BY WaitInductive, PTL

\* The console works the key as IngestKey says, so that what is proved of it is true
\* of the console.
THEOREM ConsoleWorksTheKey == ConsoleSpec => Spec
<1>1. ConsoleInit => Init
  BY DEF ConsoleInit
<1>2. [ConsoleNext]_consoleVars => [Next]_vars
  BY DEF ConsoleNext, consoleVars, KeyStep, AlertStep, TesterStep,
         CatalogueStep, AccountStep, BoardStep, FrameStep
<1>3. QED BY <1>1, <1>2, PTL DEF ConsoleSpec, Spec

------------------------------------------------------------------------------
(* The alerts *)

\* What became of these alerts is settled.
AlertSettled == Alerts!Stored \union dropped \union unseen

\* The types of the variables that the argument is about.
AlertTyped ==
    /\ log \in Nat /\ committed \in Nat /\ position \in Nat
    /\ thread \in {"down", "polling", "dispatched", "died"}
    /\ table \in Seq(Nat)

\* Neither the committed offset nor the position of a running consumer has an
\* alert behind it that is not settled, and neither is ahead of the topic: an alert
\* that is raised later is not behind them.
NothingIsBehind ==
    /\ committed <= log + 1
    /\ \A a \in 1..log : a < committed => a \in AlertSettled
    /\ thread \in {"polling", "dispatched"} =>
         /\ position <= log + 1
         /\ \A a \in 1..log : a < position => a \in AlertSettled
    /\ thread = "dispatched" => position <= log /\ position \in AlertSettled

AlertInv == AlertTyped /\ NothingIsBehind

------------------------------------------------------------------------------

\* An inserted row is stored besides those that were.
LEMMA StoredAppend ==
    ASSUME AlertTyped, NEW a \in Nat, table' = Append(table, a)
    PROVE  Alerts!Stored' = Alerts!Stored \union {a} /\ table' \in Seq(Nat)
<1>1. table' \in Seq(Nat) /\ DOMAIN table' = DOMAIN table \union {Len(table) + 1}
  BY DEF AlertTyped
<1>2. \A i \in DOMAIN table : table'[i] = table[i]
  BY DEF AlertTyped
<1>3. table'[Len(table) + 1] = a
  BY DEF AlertTyped
<1>4. QED BY <1>1, <1>2, <1>3 DEF Alerts!Stored

\* A row that stays is settled for good: no step takes an alert back.
LEMMA SettledGrows ==
    ASSUME AlertTyped, [Alerts!Next]_alertVars
    PROVE  AlertSettled \subseteq AlertSettled'
<1>1. CASE Alerts!Dispatch
  <2>1. CASE table' = Append(table, position)
    BY <1>1, <2>1, StoredAppend DEF AlertTyped, Alerts!Dispatch, AlertSettled
  <2>2. CASE UNCHANGED table
    BY <1>1, <2>2 DEF Alerts!Dispatch, AlertSettled, Alerts!Stored
  <2>3. QED BY <1>1, <2>1, <2>2 DEF Alerts!Dispatch
<1>2. CASE Alerts!Start
  BY <1>2 DEF Alerts!Start, AlertSettled, Alerts!Stored
<1>3. CASE UNCHANGED <<table, dropped, unseen>>
  BY <1>3 DEF AlertSettled, Alerts!Stored
<1>4. QED BY <1>1, <1>2, <1>3
          DEF Alerts!Next, Alerts!Raise, Alerts!Commit, Alerts!CommitFails, Alerts!ProcessEnds, alertVars

\* Nothing behind the committed offset or the consumer's position is unsettled.
LEMMA AlertKeeps == AlertInv /\ [Alerts!Next]_alertVars => AlertInv'
<1> SUFFICES ASSUME AlertTyped, NothingIsBehind, [Alerts!Next]_alertVars PROVE AlertInv'
  BY DEF AlertInv
<1>0. AlertSettled \subseteq AlertSettled'
  BY SettledGrows
<1>1. CASE Alerts!Raise
  BY <1>0, <1>1 DEF Alerts!Raise, AlertInv, AlertTyped, NothingIsBehind
<1>2. CASE Alerts!Start
  <2>1. CASE committed # 0
    BY <1>0, <1>2, <2>1 DEF Alerts!Start, AlertInv, AlertTyped, NothingIsBehind
  <2>2. CASE committed = 0
    <3>1. 1..log \subseteq AlertSettled'
      BY <1>2, <2>2 DEF Alerts!Start, AlertSettled
    <3>2. QED BY <1>2, <2>2, <3>1 DEF Alerts!Start, AlertInv, AlertTyped, NothingIsBehind
  <2>3. QED BY <2>1, <2>2
<1>3. CASE Alerts!Dispatch
  <2>1. position \in AlertSettled' /\ table' \in Seq(Nat)
    <3>1. CASE table' = Append(table, position)
      BY <1>3, <3>1, StoredAppend DEF AlertTyped, AlertSettled
    <3>2. CASE dropped' = dropped \union {position} /\ UNCHANGED table
      BY <3>2 DEF AlertTyped, AlertSettled
    <3>3. QED BY <1>3, <3>1, <3>2 DEF Alerts!Dispatch
  <2>2. QED BY <1>0, <1>3, <2>1 DEF Alerts!Dispatch, AlertInv, AlertTyped, NothingIsBehind
<1>4. CASE Alerts!Commit
  BY <1>0, <1>4 DEF Alerts!Commit, AlertInv, AlertTyped, NothingIsBehind
<1>5. CASE Alerts!CommitFails \/ Alerts!ProcessEnds
  BY <1>0, <1>5 DEF Alerts!CommitFails, Alerts!ProcessEnds, AlertInv, AlertTyped, NothingIsBehind
<1>6. CASE UNCHANGED alertVars
  BY <1>0, <1>6 DEF alertVars, AlertInv, AlertTyped, NothingIsBehind
<1>7. QED BY <1>1, <1>2, <1>3, <1>4, <1>5, <1>6 DEF Alerts!Next

\* Neither the group's offset nor the position of a running thread has an alert
\* behind it that was neither tried nor older than the first commit.
THEOREM NothingBehind == ConsoleSpec => [](part = "alerts" => AlertInv)
<1> DEFINE IInv == part = "alerts" => AlertInv
<1>1. ConsoleInit => IInv
  BY DEF ConsoleInit, Alerts!Init, AlertInv, AlertTyped, NothingIsBehind
<1>2. IInv /\ [ConsoleNext]_consoleVars => IInv'
  <2> SUFFICES ASSUME IInv, [ConsoleNext]_consoleVars, part' = "alerts"
               PROVE AlertInv'
    OBVIOUS
  <2>1. part' = part /\ [Alerts!Next]_alertVars
    BY DEF ConsoleNext, consoleVars, KeyStep, AlertStep, TesterStep,
           CatalogueStep, AccountStep, BoardStep, FrameStep
  <2>2. QED BY <2>1, AlertKeeps
<1>3. QED BY <1>1, <1>2, PTL DEF ConsoleSpec

\* The group's offset passes no alert that was neither inserted nor tried, wherever
\* the process or the thread ends (dispatch before commit in _run).
THEOREM NoAlertSkipped == ConsoleSpec => []AlertsAreNotSkipped
<1>1. (part = "alerts" => AlertInv) => AlertsAreNotSkipped
  BY DEF AlertInv, NothingIsBehind, AlertsAreNotSkipped, Alerts!AlertsAreNotSkipped,
         AlertSettled
<1>2. QED BY <1>1, NothingBehind, PTL

================================================================================

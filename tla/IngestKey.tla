------------------------------- MODULE IngestKey -------------------------------
(***************************************************************************)
(* The ingest key of an organisation, from the settings page that rotates  *)
(* it (settings/page.tsx), over the control plane that stores its hash     *)
(* (ingest_key_service.py), to the ingest service that accepts events by   *)
(* it (orgvalidator/validator.go), which caches the hash.                  *)
(*                                                                         *)
(* A key is the number of the rotation that made it, and stands for its    *)
(* hash as well; 0 is no key.  The clock is the ingest service's.          *)
(***************************************************************************)
EXTENDS Naturals

CONSTANTS
    Owners,         \* owners of the organisation, each with the settings page open
    Callers,        \* requests the ingest service handles at the same time
    TTL,            \* ttl of the validator's cache
    None,
    MaxRotations,   \* bound: how many keys are made
    MaxTime         \* bound of the clock

ASSUME IngestKeyAssumption ==
    /\ TTL \in Nat \ {0}
    /\ None \notin Owners
    /\ MaxRotations \in Nat /\ MaxTime \in Nat

VARIABLES
    current,     \* the key in organization_ingest_keys
    rotation,    \* rotation[n]: the request that makes key n
    made,        \* how many keys were made
    shown,       \* shown[p]: latestIngestKey
    rotating,    \* pages with rotatingIngestKey
    got,         \* history: got[p], keys whose answer reached page p
    clock,
    rotatedAt,   \* history: when current was last replaced
    cache,       \* keyCache of the organisation
    req          \* req[c]: a request that is being authenticated

tableVars == <<current, rotatedAt>>
pageVars == <<rotation, made, shown, rotating, got>>
ingestVars == <<cache, req>>
vars == <<tableVars, pageVars, clock, ingestVars>>

Keys == 1..MaxRotations

NoRotation == [page |-> None, stage |-> "unused", found |-> FALSE]

\* keyOk is false: nothing is cached.
NoEntry == [hash |-> 0, expiresAt |-> 0]

NoReq == [stage |-> "free", now |-> 0, hash |-> 0]

Init ==
    /\ current = 0 /\ rotatedAt = 0
    /\ rotation = [n \in Keys |-> NoRotation]
    /\ made = 0
    /\ shown = [p \in Owners |-> 0]
    /\ rotating = {}
    /\ got = [p \in Owners |-> {}]
    /\ clock = 0
    /\ cache = NoEntry
    /\ req = [c \in Callers |-> NoReq]

Tick ==
    /\ clock < MaxTime
    /\ clock' = clock + 1
    /\ UNCHANGED <<tableVars, pageVars, ingestVars>>

------------------------------------------------------------------------------
(* The settings page *)

\* A rotation is sent; the control plane generates the key as it begins.
SendRotation(p) ==
    /\ made < MaxRotations
    /\ made' = made + 1
    /\ rotation' = [rotation EXCEPT ![made + 1] =
                      [page |-> p, stage |-> "sent", found |-> FALSE]]
    /\ rotating' = rotating \union {p}
    /\ UNCHANGED <<shown, got, clock, tableVars, ingestVars>>

\* Slip: the button stays enabled.
RotateAnyTime(p) == SendRotation(p)

\* rotateIngestKey; its button is disabled while one runs.
Rotate(p) ==
    /\ p \notin rotating
    /\ SendRotation(p)

\* The answer reaches the page that asked.
RotationAnswered(n) ==
    LET p == rotation[n].page
    IN  /\ rotation[n].stage = "committed"
        /\ p # None
        /\ rotation' = [rotation EXCEPT ![n] =
                            [@ EXCEPT !.page = None, !.stage = "over"]]
        /\ shown' = [shown EXCEPT ![p] = n]
        /\ got' = [got EXCEPT ![p] = @ \union {n}]
        /\ rotating' = rotating \ {p}
        /\ UNCHANGED <<made, clock, tableVars, ingestVars>>

\* An error, or no answer: a toast.  The control plane may be at work still.
RotationFails(n) ==
    LET p == rotation[n].page
    IN  /\ p # None
        /\ rotation' = [rotation EXCEPT ![n] = [@ EXCEPT !.page = None]]
        /\ rotating' = rotating \ {p}
        /\ UNCHANGED <<made, shown, got, clock, tableVars, ingestVars>>

\* The page is left and opened again: the key is not shown any more, and a
\* rotation that is running answers to nobody.
Reopen(p) ==
    /\ p \in rotating \/ got[p] # {}
    /\ rotation' = [n \in Keys |-> IF rotation[n].page = p
                                   THEN [rotation[n] EXCEPT !.page = None]
                                   ELSE rotation[n]]
    /\ shown' = [shown EXCEPT ![p] = 0]
    /\ got' = [got EXCEPT ![p] = {}]
    /\ rotating' = rotating \ {p}
    /\ UNCHANGED <<made, clock, tableVars, ingestVars>>

------------------------------------------------------------------------------
(* The control plane *)

\* rotate_org_key: get_org_key.
SelectRecord(n) ==
    /\ rotation[n].stage = "sent"
    /\ rotation' = [rotation EXCEPT ![n] =
                      [@ EXCEPT !.stage = "selected", !.found = (current # 0)]]
    /\ UNCHANGED <<made, shown, rotating, got, clock, tableVars, ingestVars>>

\* The update, or the insert, which fails when there is a row by now.
CommitRecord(n) ==
    /\ rotation[n].stage = "selected"
    /\ IF rotation[n].found \/ current = 0
       THEN /\ current' = n /\ rotatedAt' = clock
            /\ rotation' = [rotation EXCEPT ![n] = [@ EXCEPT !.stage = "committed"]]
       ELSE /\ rotation' = [rotation EXCEPT ![n] = [@ EXCEPT !.stage = "over"]]
            /\ UNCHANGED tableVars
    /\ UNCHANGED <<made, shown, rotating, got, clock, ingestVars>>

------------------------------------------------------------------------------
(* The ingest service *)

\* ValidateIngestKey begins: it takes the time.
Begin(c) ==
    /\ req[c].stage = "free"
    /\ req' = [req EXCEPT ![c] = [stage |-> "begun", now |-> clock, hash |-> 0]]
    /\ UNCHANGED <<tableVars, pageVars, clock, cache>>

\* It looks into the cache, and takes the hash if the entry is good at that time.
LookUp(c) ==
    /\ req[c].stage = "begun"
    /\ IF cache.expiresAt > req[c].now
       THEN req' = [req EXCEPT ![c] =
                      [@ EXCEPT !.stage = "compare", !.hash = cache.hash]]
       ELSE req' = [req EXCEPT ![c] = [@ EXCEPT !.stage = "query"]]
    /\ UNCHANGED <<tableVars, pageVars, clock, cache>>

\* The query reads the row.
Query(c) ==
    /\ req[c].stage = "query"
    /\ req' = [req EXCEPT ![c] = [@ EXCEPT !.stage = "store", !.hash = current]]
    /\ UNCHANGED <<tableVars, pageVars, clock, cache>>

\* Slip: the entry lives for the ttl from when it is stored.
StoreFromNow(c) ==
    /\ req[c].stage = "store"
    /\ cache' = [hash |-> req[c].hash, expiresAt |-> clock + TTL]
    /\ req' = [req EXCEPT ![c] = [@ EXCEPT !.stage = "compare"]]
    /\ UNCHANGED <<tableVars, pageVars, clock>>

\* The hash is cached, over whatever is there, until the ttl has passed from
\* when the request began; that there is no row is cached as well.
Store(c) ==
    /\ req[c].stage = "store"
    /\ cache' = [hash |-> req[c].hash, expiresAt |-> req[c].now + TTL]
    /\ req' = [req EXCEPT ![c] = [@ EXCEPT !.stage = "compare"]]
    /\ UNCHANGED <<tableVars, pageVars, clock>>

\* The verdict is given; or the query failed, or the client went away.
Decide(c) ==
    /\ req[c].stage \in {"compare", "query"}
    /\ req' = [req EXCEPT ![c] = NoReq]
    /\ UNCHANGED <<tableVars, pageVars, clock, cache>>

\* CompareHashAndPassword: would the request pass with this key?
Accepted(c, key) == req[c].hash # 0 /\ key = req[c].hash

------------------------------------------------------------------------------

Next ==
    \/ Tick
    \/ \E p \in Owners : Rotate(p) \/ Reopen(p)
    \/ \E n \in Keys :
          \/ RotationAnswered(n) \/ RotationFails(n)
          \/ SelectRecord(n) \/ CommitRecord(n)
    \/ \E c \in Callers :
          \/ Begin(c) \/ LookUp(c) \/ Query(c) \/ Store(c) \/ Decide(c)

Spec == Init /\ [][Next]_vars

------------------------------------------------------------------------------
(* Properties *)

\* Every variable has its type.
TypeOK ==
    /\ current \in 0..MaxRotations
    /\ rotation \in [Keys ->
         [page : Owners \union {None},
          stage : {"unused", "sent", "selected", "committed", "over"},
          found : BOOLEAN]]
    /\ made \in 0..MaxRotations
    /\ shown \in [Owners -> 0..MaxRotations]
    /\ rotating \subseteq Owners
    /\ got \in [Owners -> SUBSET Keys]
    /\ clock \in Nat /\ rotatedAt \in Nat
    /\ cache \in [hash : 0..MaxRotations, expiresAt : Nat]
    /\ req \in [Callers ->
         [stage : {"free", "begun", "query", "store", "compare"},
          now : Nat, hash : 0..MaxRotations]]

\* A rotation takes effect within the ttl: a request that begins at least that
\* long after the last one is accepted exactly if it carries the current key,
\* however slow the lookups are whose answers are cached over one another
\* (ValidateIngestKey takes the time before it queries).
VerdictIsCurrent ==
    \A c \in Callers :
        req[c].stage = "compare" /\ req[c].now >= rotatedAt + TTL
        => \A key \in Keys : Accepted(c, key) <=> key = current

\* A page that was told the current key shows it, and not the key of another
\* rotation of its own (rotateIngestKey and its disabled button).
ShownKeyIsCurrent ==
    \A p \in Owners : current \in got[p] => shown[p] = current

==============================================================================

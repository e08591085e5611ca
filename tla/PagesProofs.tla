------------------------------ MODULE PagesProofs ------------------------------
(***************************************************************************)
(* Proofs about the pages of the console: the dashboard, the pages of APIs *)
(* and endpoints, those of the account, and the tester.  Each part has an  *)
(* inductive invariant about its own variables; a step of the console is   *)
(* one of the part or leaves it alone.                                     *)
(***************************************************************************)
EXTENDS Console, Sequences, FiniteSets, Functions, FiniteSetTheorems,
        SequenceTheorems, TLAPS

------------------------------------------------------------------------------
(* The dashboard *)

Cards == {"apis", "endpoints", "errors", "latency"}

(* A counter without a frame and without a reason to be off shows its      *)
(* target, and its next animation would start there; with reduced motion   *)
(* the latter holds of all of them, so that motion may be allowed again.   *)
Settled(c) ==
    /\ reduce => ~frame[c] /\ start[c] = Dashboard!Target(c)
                 /\ (lost[c] \/ value[c] = Dashboard!Target(c))
    /\ ~reduce /\ ~frame[c] /\ ~lost[c]
          => value[c] = Dashboard!Target(c) /\ start[c] = Dashboard!Target(c)

BoardTyped ==
    /\ reduce \in BOOLEAN
    /\ DOMAIN value = Cards /\ value = [c \in Cards |-> value[c]]
    /\ DOMAIN start = Cards /\ start = [c \in Cards |-> start[c]]
    /\ frame \in [Cards -> BOOLEAN]
    /\ lost \in [Cards -> BOOLEAN]

BoardInv == BoardTyped /\ \A c \in Cards : Settled(c)

\* The invariant holds when the page is opened with nothing cached.
LEMMA BoardStarts == Dashboard!Init => BoardInv
BY DEF Dashboard!Init, BoardInv, BoardTyped, Settled, Cards, Dashboard!Target,
       Dashboard!NoData

\* A step of the effect: whatever the targets and the preference become, as long as
\* not both change.
LEMMA RestartSettles ==
    ASSUME BoardInv, Dashboard!Restart, reduce' \in BOOLEAN,
           reduce' = reduce \/ \A c \in Cards : Dashboard!Target(c)' = Dashboard!Target(c)
    PROVE  BoardInv'
<1>1. BoardTyped'
    BY DEF BoardInv, BoardTyped, Dashboard!Restart, Dashboard!Animates,
           Dashboard!Changed, Cards
<1>2. ASSUME NEW c \in Cards PROVE Settled(c)'
    BY <1>2 DEF BoardInv, BoardTyped, Settled, Dashboard!Restart, Dashboard!Animates,
           Dashboard!Stands, Dashboard!Changed, Cards
<1> QED BY <1>1, <1>2 DEF BoardInv

\* A frame moves a counter that is not at rest, and the last one takes it to its
\* target.
LEMMA FramesSettle ==
    ASSUME BoardInv, NEW c \in Cards,
           Dashboard!Frame(c) \/ Dashboard!LastFrame(c)
    PROVE  BoardInv'
<1>1. /\ UNCHANGED <<reduce, lost>>
      /\ \A d \in Cards : Dashboard!Target(d)' = Dashboard!Target(d)
      /\ \A d \in Cards \ {c} :
            value'[d] = value[d] /\ start'[d] = start[d] /\ frame'[d] = frame[d]
      /\ frame[c]
      /\ frame'[c] \/ (value'[c] = Dashboard!Target(c) /\ start'[c] = Dashboard!Target(c))
      /\ BoardTyped'
    <2>1. CASE Dashboard!Frame(c)
        BY <2>1 DEF Dashboard!Frame, BoardInv, BoardTyped, Dashboard!queryVars,
                    Dashboard!Target
    <2>2. CASE Dashboard!LastFrame(c)
        BY <2>2 DEF Dashboard!LastFrame, BoardInv, BoardTyped, Dashboard!queryVars,
                    Dashboard!Target
    <2> QED BY <2>1, <2>2
<1>2. ASSUME NEW d \in Cards PROVE Settled(d)'
    BY <1>1, <1>2 DEF BoardInv, BoardTyped, Settled
<1> QED BY <1>1, <1>2 DEF BoardInv

\* Every step of the dashboard keeps the invariant.
LEMMA BoardKeeps == BoardInv /\ [Dashboard!Next]_boardVars => BoardInv'
<1> SUFFICES ASSUME BoardInv, [Dashboard!Next]_boardVars PROVE BoardInv'
    OBVIOUS
<1>1. ASSUME NEW c \in Cards, Dashboard!Frame(c) \/ Dashboard!LastFrame(c)
      PROVE BoardInv'
    BY <1>1, FramesSettle
<1>2. CASE Dashboard!SwitchMotion
    <2>1. /\ Dashboard!Restart /\ reduce' \in BOOLEAN
          /\ \A c \in Cards : Dashboard!Target(c)' = Dashboard!Target(c)
        BY <1>2 DEF Dashboard!SwitchMotion, Dashboard!queryVars, Dashboard!Target
    <2> QED BY <2>1, RestartSettles
<1>3. CASE Dashboard!Retarget
    <2>1. Dashboard!Restart /\ reduce' \in BOOLEAN /\ reduce' = reduce
        BY <1>3 DEF Dashboard!Retarget, BoardInv, BoardTyped
    <2> QED BY <2>1, RestartSettles
<1>4. CASE Dashboard!Reopen
    <2>1. \A c \in Cards : Dashboard!Target(c)' = Dashboard!Target(c)
        BY <1>4 DEF Dashboard!Reopen, Dashboard!queryVars, Dashboard!Target
    <2>2. \A c \in Cards :
            /\ value'[c] = Dashboard!Target(c) /\ start'[c] = Dashboard!Target(c)
            /\ frame'[c] = (~reduce /\ Dashboard!Target(c) # 0) /\ lost'[c] = FALSE
        BY <1>4 DEF Dashboard!Reopen, Dashboard!targets, Cards
    <2>3. reduce' = reduce /\ BoardTyped'
        BY <1>4 DEF Dashboard!Reopen, Dashboard!targets, Cards, BoardInv, BoardTyped
    <2> QED BY <2>1, <2>2, <2>3 DEF BoardInv, BoardTyped, Settled
<1>5. CASE Dashboard!Change \/ UNCHANGED boardVars
    <2>1. UNCHANGED <<list, count, metrics, reduce, value, start, frame, lost>>
        BY <1>5 DEF Dashboard!Change, boardVars, Dashboard!counterVars
    <2>2. \A c \in Cards : Dashboard!Target(c)' = Dashboard!Target(c)
        BY <2>1 DEF Dashboard!Target
    <2> QED BY <2>1, <2>2 DEF BoardInv, BoardTyped, Settled
<1> QED
    BY <1>1, <1>2, <1>3, <1>4, <1>5
    DEF Dashboard!Next, Dashboard!ListArrives, Dashboard!CountArrives,
        Dashboard!MetricsArrive, Dashboard!QueryFails, Dashboard!QueryRetries, Cards

\* A counter that stands still shows the count that the queries give, whatever the
\* order in which lists, counts, metrics and the preference change; the badge of
\* the health agrees with the cards (useCountUp).
LEMMA BoardShows == BoardInv => Dashboard!CountSettles
<1> SUFFICES ASSUME BoardInv PROVE Dashboard!CountSettles
    OBVIOUS
<1>1. ASSUME NEW c \in Cards, Dashboard!AtRest(c)
      PROVE Dashboard!Shown(c) = Dashboard!Target(c)
    BY <1>1 DEF BoardInv, BoardTyped, Settled, Dashboard!AtRest, Dashboard!Shown
<1>2. ASSUME Dashboard!AtRest("errors"), Dashboard!AtRest("latency")
      PROVE Dashboard!Badge = Dashboard!Health(Dashboard!Shown("errors"),
                                               Dashboard!Shown("latency"))
    <2>1. /\ Dashboard!Shown("errors") = Dashboard!Target("errors")
          /\ Dashboard!Shown("latency") = Dashboard!Target("latency")
        BY <1>1, <1>2 DEF Cards
    <2>2. CASE metrics \in Dashboard!NoData
        BY <2>1, <2>2 DEF Dashboard!Target, Dashboard!Badge
    <2>3. CASE metrics \notin Dashboard!NoData
        BY <2>1, <2>3 DEF Dashboard!Target, Dashboard!Badge
    <2> QED BY <2>2, <2>3
<1> QED BY <1>1, <1>2 DEF Dashboard!CountSettles, Cards

\* CountSettles of every behaviour of the console.
THEOREM ConsoleCountSettles == ConsoleSpec => []CountSettles
<1> DEFINE IInv == part \in {"counts", "health"} => BoardInv
<1>1. ConsoleInit => IInv
    BY BoardStarts DEF ConsoleInit
<1>2. IInv /\ [ConsoleNext]_consoleVars => IInv'
    <2> SUFFICES ASSUME IInv, [ConsoleNext]_consoleVars,
                        part' \in {"counts", "health"}
                 PROVE BoardInv'
        OBVIOUS
    <2>1. part' = part /\ [Dashboard!Next]_boardVars
        BY DEF ConsoleNext, consoleVars, KeyStep, AlertStep, TesterStep,
               CatalogueStep, AccountStep, BoardStep, FrameStep
    <2> QED BY <2>1, BoardKeeps
<1>3. IInv => CountSettles
    BY BoardShows DEF CountSettles
<1> QED BY <1>1, <1>2, <1>3, PTL DEF ConsoleSpec

------------------------------------------------------------------------------
(* The pages of APIs and endpoints *)

\* An operation on key k that the server did and the page does not know of yet.
Unheard(k) == \E n \in Catalogue!Slots : op[n].key = k /\ op[n].stage = "done"

(* What was read or is cached equals what the server has, unless somebody  *)
(* else changed it or the page is about to hear that it did itself.        *)
ReadIsCurrent(k) ==
    fetch[k] = "answered" /\ k \notin elsewhere /\ ~Unheard(k)
       => answer[k] = Catalogue!Read(k)

DataIsCurrent(k) ==
    /\ data[k] # None /\ fetch[k] = "idle"
    /\ k \notin invalid \union elsewhere
    /\ ~Unheard(k)
    => data[k] = Catalogue!Read(k)

OpsTyped ==
    /\ used \in Nat
    /\ op = [n \in Catalogue!Slots |-> op[n]]
    /\ \A n \in Catalogue!Slots :
          /\ op[n] = [kind |-> op[n].kind, item |-> op[n].item,
                      version |-> op[n].version, key |-> op[n].key,
                      stage |-> op[n].stage, here |-> op[n].here]
          /\ n > used => op[n].stage = "over"

CatalogueTyped ==
    /\ OpsTyped
    /\ data = [k \in Catalogue!Keys |-> data[k]]
    /\ fetch = [k \in Catalogue!Keys |-> fetch[k]]
    /\ answer = [k \in Catalogue!Keys |-> answer[k]]

CatalogueInv ==
    /\ CatalogueTyped
    /\ \A k \in Catalogue!OwnKeys : ReadIsCurrent(k) /\ DataIsCurrent(k)

CatalogueQuiet == <<server, data, fetch, answer, invalid, op, used, elsewhere>>

\* Nothing is read, nothing was changed and nobody waits when the first page opens.
LEMMA CatalogueStarts == Catalogue!Init => CatalogueInv
<1> SUFFICES ASSUME Catalogue!Init PROVE CatalogueInv
    OBVIOUS
<1>1. OpsTyped
    BY DEF Catalogue!Init, OpsTyped, Catalogue!NoOp
<1>2. \A k \in Catalogue!Keys : data[k] = None /\ fetch[k] # "answered"
    BY DEF Catalogue!Init
<1>3. CatalogueTyped
    BY <1>1 DEF Catalogue!Init, CatalogueTyped
<1> QED BY <1>2, <1>3 DEF CatalogueInv, ReadIsCurrent, DataIsCurrent, Catalogue!OwnKeys

\* A key keeps what is said of it when its entry, what the server has of it, and the
\* operations that are done stay the same, or its fetch starts.
LEMMA KeyKeeps ==
    ASSUME NEW k, ReadIsCurrent(k), DataIsCurrent(k),
           UNCHANGED <<server, data, answer, invalid>>,
           fetch'[k] = fetch[k] \/ fetch'[k] = "sent",
           k \in elsewhere => k \in elsewhere',
           Unheard(k) => Unheard(k)'
    PROVE  ReadIsCurrent(k)' /\ DataIsCurrent(k)'
BY DEF ReadIsCurrent, DataIsCurrent, Catalogue!Read

\* The handlers that go on are done with their request.
LEMMA ProceedHears ==
    ASSUME OpsTyped, NEW R, NEW W, Catalogue!Proceed(R, W), UNCHANGED used,
           \A n \in R \union W : n \in Catalogue!Slots => op[n].stage # "over"
    PROVE  /\ OpsTyped'
           /\ \A n \in Catalogue!Slots :
                 IF n \in R \union W THEN op'[n].stage \in {"over", "refetching"}
                 ELSE op'[n] = op[n]
<1>1. \A n \in Catalogue!Slots :
         op'[n] = IF n \in R THEN Catalogue!NoOp
                  ELSE IF n \in W THEN [op[n] EXCEPT !.stage = "refetching"]
                  ELSE op[n]
    BY DEF Catalogue!Proceed
<1>2. op' = [n \in Catalogue!Slots |-> op'[n]]
    BY DEF Catalogue!Proceed
<1>3. ASSUME NEW n \in Catalogue!Slots
      PROVE /\ op'[n] = [kind |-> op'[n].kind, item |-> op'[n].item,
                         version |-> op'[n].version, key |-> op'[n].key,
                         stage |-> op'[n].stage, here |-> op'[n].here]
            /\ n > used => op'[n].stage = "over"
            /\ IF n \in R \union W THEN op'[n].stage \in {"over", "refetching"}
               ELSE op'[n] = op[n]
    <2>1. CASE n \in R
        <3>1. op'[n] = Catalogue!NoOp
            BY <1>1, <2>1
        <3>2. op'[n].stage = "over"
            BY <3>1 DEF Catalogue!NoOp
        <3>3. op'[n] = [kind |-> op'[n].kind, item |-> op'[n].item,
                        version |-> op'[n].version, key |-> op'[n].key,
                        stage |-> op'[n].stage, here |-> op'[n].here]
            BY <3>1 DEF Catalogue!NoOp
        <3> QED BY <2>1, <3>2, <3>3
    <2>2. CASE n \notin R /\ n \in W
        <3>1. op'[n] = [op[n] EXCEPT !.stage = "refetching"]
            BY <1>1, <2>2
        <3>2. ~(n > used)
            BY <2>2 DEF OpsTyped
        <3> QED BY <2>2, <3>1, <3>2 DEF OpsTyped
    <2>3. CASE n \notin R \union W
        BY <1>1, <2>3 DEF OpsTyped
    <2> QED BY <2>1, <2>2, <2>3
<1> QED BY <1>2, <1>3 DEF OpsTyped

\* The operation is made by a page: nobody has heard of it.
LEMMA StartKeeps ==
    ASSUME CatalogueInv, NEW kind, NEW i, NEW v, Catalogue!Start(kind, i, v)
    PROVE  CatalogueInv'
<1>1. used \in Nat /\ used' = used + 1
    BY DEF CatalogueInv, CatalogueTyped, OpsTyped, Catalogue!Start
<1>2. \A n \in Catalogue!Slots :
         IF n = used + 1 THEN op'[n].stage = "sent" ELSE op'[n] = op[n]
    BY DEF CatalogueInv, CatalogueTyped, OpsTyped, Catalogue!Start
<1>3. OpsTyped'
    <2>1. op' = [n \in Catalogue!Slots |-> op'[n]]
        BY DEF CatalogueInv, CatalogueTyped, OpsTyped, Catalogue!Start
    <2>2. \A n \in Catalogue!Slots :
            op'[n] = [kind |-> op'[n].kind, item |-> op'[n].item,
                      version |-> op'[n].version, key |-> op'[n].key,
                      stage |-> op'[n].stage, here |-> op'[n].here]
        BY DEF CatalogueInv, CatalogueTyped, OpsTyped, Catalogue!Start
    <2>3. \A n \in Catalogue!Slots : n > used' => op'[n].stage = "over"
        BY <1>1, <1>2 DEF CatalogueInv, CatalogueTyped, OpsTyped, Catalogue!Slots
    <2> QED BY <1>1, <2>1, <2>2, <2>3 DEF OpsTyped
<1>4. UNCHANGED <<server, data, fetch, answer, invalid, elsewhere>>
    BY DEF Catalogue!Start, Catalogue!cacheVars
<1>5. ASSUME NEW k PROVE Unheard(k) => Unheard(k)'
    <2> SUFFICES ASSUME NEW n \in Catalogue!Slots,
                        op[n].key = k, op[n].stage = "done"
                 PROVE Unheard(k)'
        BY DEF Unheard
    <2>1. n # used + 1
        BY <1>1 DEF CatalogueInv, CatalogueTyped, OpsTyped, Catalogue!Slots
    <2> QED BY <1>2, <2>1 DEF Unheard
<1> QED
    BY <1>3, <1>4, <1>5, KeyKeeps DEF CatalogueInv, CatalogueTyped

LEMMA OpenKeeps ==
    ASSUME CatalogueInv, NEW p, Catalogue!Open(p)
    PROVE  CatalogueInv'
<1>1. /\ UNCHANGED <<server, data, answer, invalid, used, elsewhere>>
      /\ op' = [n \in Catalogue!Slots |-> [op[n] EXCEPT !.here = FALSE]]
      /\ fetch' = [k \in Catalogue!Keys |-> fetch'[k]]
      /\ \A k \in Catalogue!Keys : fetch'[k] = fetch[k] \/ fetch'[k] = "sent"
    BY DEF Catalogue!Open
<1>2. ASSUME NEW n \in Catalogue!Slots
      PROVE /\ op'[n].key = op[n].key /\ op'[n].stage = op[n].stage
            /\ op'[n] = [kind |-> op'[n].kind, item |-> op'[n].item,
                         version |-> op'[n].version, key |-> op'[n].key,
                         stage |-> op'[n].stage, here |-> op'[n].here]
    <2>1. op'[n] = [op[n] EXCEPT !.here = FALSE]
        BY <1>1
    <2> QED BY <2>1 DEF CatalogueInv, CatalogueTyped, OpsTyped
<1>3. OpsTyped'
    BY <1>1, <1>2 DEF CatalogueInv, CatalogueTyped, OpsTyped
<1>4. ASSUME NEW k PROVE Unheard(k)' = Unheard(k)
    BY <1>2 DEF Unheard
<1> QED
    BY <1>1, <1>3, <1>4, KeyKeeps DEF CatalogueInv, CatalogueTyped, Catalogue!OwnKeys

\* The key of the tester is none that an operation invalidates.
LEMMA TestingIsNotOwn == Catalogue!TestingDomains \notin Catalogue!OwnKeys
BY DEF Catalogue!TestingDomains, Catalogue!OwnKeys

\* A page's own key is answered at once, with what the server has by now.
LEMMA AnswerKeeps ==
    ASSUME CatalogueInv, NEW k \in Catalogue!Keys, Catalogue!Answer(k)
    PROVE  CatalogueInv'
<1> DEFINE wanted == {i \in Catalogue!Scope(k) :
                       /\ k.query = "testing-domains"
                       /\ i \in Endpoints /\ server[ApiOf[i]] # 0}
           part1 == [i \in Catalogue!Scope(k) \ wanted |-> server[i]]
<1>1. /\ UNCHANGED <<server, data, invalid, op, used>>
      /\ answer' = [answer EXCEPT ![k] = part1]
      /\ fetch' = [fetch EXCEPT ![k] = IF DOMAIN part1 = Catalogue!Scope(k)
                                       THEN "answered" ELSE "reading"]
      /\ elsewhere' = elsewhere \ {k}
    BY DEF Catalogue!Answer, Catalogue!Receive, Catalogue!opVars
<1>2. k \in Catalogue!OwnKeys => part1 = Catalogue!Read(k)
    <2> SUFFICES ASSUME k \in Catalogue!OwnKeys PROVE part1 = Catalogue!Read(k)
        OBVIOUS
    <2>1. k.query # "testing-domains"
        BY DEF Catalogue!OwnKeys
    <2>2. wanted = {}
        BY <2>1
    <2> QED BY <2>2 DEF Catalogue!Read
<1> HIDE DEF wanted, part1
<1>3. CatalogueTyped'
    BY <1>1 DEF CatalogueInv, CatalogueTyped, OpsTyped
<1>4. ASSUME NEW h \in Catalogue!OwnKeys, h # k
      PROVE ReadIsCurrent(h)' /\ DataIsCurrent(h)'
    BY <1>1, <1>4 DEF CatalogueInv, CatalogueTyped, ReadIsCurrent, DataIsCurrent,
                      Unheard, Catalogue!Read, Catalogue!OwnKeys
<1>5. k \in Catalogue!OwnKeys => ReadIsCurrent(k)' /\ DataIsCurrent(k)'
    BY <1>1, <1>2 DEF CatalogueInv, CatalogueTyped, ReadIsCurrent, DataIsCurrent,
                      Catalogue!Read
<1> QED BY <1>3, <1>4, <1>5 DEF CatalogueInv

\* The tester's requests go on: no key of a page's own is touched.
LEMMA AnswerEndpointsKeeps ==
    ASSUME CatalogueInv, NEW a, Catalogue!AnswerEndpoints(a)
    PROVE  CatalogueInv'
<1> DEFINE k == Catalogue!TestingDomains
<1>1. /\ UNCHANGED <<server, data, invalid, op, used, elsewhere>>
      /\ \E part1, stage : /\ answer' = [answer EXCEPT ![k] = part1]
                           /\ fetch' = [fetch EXCEPT ![k] = stage]
    BY DEF Catalogue!AnswerEndpoints, Catalogue!Receive, Catalogue!opVars
<1> HIDE DEF k
<1>2. CatalogueTyped'
    BY <1>1 DEF CatalogueInv, CatalogueTyped, OpsTyped
<1>3. ASSUME NEW h \in Catalogue!OwnKeys
      PROVE ReadIsCurrent(h)' /\ DataIsCurrent(h)'
    <2>1. h # k /\ h \in Catalogue!Keys
        BY TestingIsNotOwn DEF k, Catalogue!OwnKeys
    <2>2. fetch'[h] = fetch[h] /\ answer'[h] = answer[h]
        BY <1>1, <2>1 DEF CatalogueInv, CatalogueTyped
    <2>3. Unheard(h)' <=> Unheard(h)
        BY <1>1 DEF Unheard
    <2> QED BY <1>1, <2>2, <2>3 DEF CatalogueInv, ReadIsCurrent, DataIsCurrent,
                                    Catalogue!Read
<1> QED BY <1>2, <1>3 DEF CatalogueInv

\* What arrives was read after the last change that the page made.
LEMMA ArriveKeeps ==
    ASSUME CatalogueInv, NEW k \in Catalogue!Keys,
           Catalogue!Arrive(k) \/ Catalogue!FetchFails(k)
    PROVE  CatalogueInv'
<1>1. /\ UNCHANGED <<server, used, elsewhere>>
      /\ Catalogue!Proceed(Catalogue!Awaiting(k), {})
      /\ fetch' = [fetch EXCEPT ![k] = "idle"]
      /\ answer' = [answer EXCEPT ![k] = None]
    BY DEF Catalogue!Arrive, Catalogue!FetchFails
<1>2. \/ /\ fetch[k] = "answered" /\ data' = [data EXCEPT ![k] = answer[k]]
         /\ invalid' = invalid \ {k}
      \/ data' = data /\ invalid' = invalid \union {k}
    BY DEF Catalogue!Arrive, Catalogue!FetchFails
<1>3. /\ OpsTyped'
      /\ \A n \in Catalogue!Slots :
            IF n \in Catalogue!Awaiting(k)
            THEN op'[n].stage \in {"over", "refetching"} ELSE op'[n] = op[n]
    BY <1>1, ProceedHears DEF CatalogueInv, CatalogueTyped, Catalogue!Awaiting
<1>4. \A h : Unheard(h) => Unheard(h)'
    BY <1>3 DEF Unheard, Catalogue!Awaiting
<1>5. CatalogueTyped'
    BY <1>1, <1>2, <1>3 DEF CatalogueInv, CatalogueTyped
<1>6. ASSUME NEW h \in Catalogue!OwnKeys, h # k
      PROVE ReadIsCurrent(h)' /\ DataIsCurrent(h)'
    <2>1. /\ fetch'[h] = fetch[h] /\ answer'[h] = answer[h] /\ data'[h] = data[h]
          /\ h \in invalid => h \in invalid'
        BY <1>1, <1>2, <1>6 DEF CatalogueInv, CatalogueTyped, Catalogue!OwnKeys
    <2> QED BY <1>1, <1>4, <2>1
            DEF CatalogueInv, ReadIsCurrent, DataIsCurrent, Catalogue!Read
<1>7. k \in Catalogue!OwnKeys => ReadIsCurrent(k)' /\ DataIsCurrent(k)'
    <2>1. fetch'[k] = "idle"
        BY <1>1 DEF CatalogueInv, CatalogueTyped, Catalogue!OwnKeys
    <2>2. \/ fetch[k] = "answered" /\ data'[k] = answer[k]
          \/ k \in invalid'
        BY <1>2 DEF CatalogueInv, CatalogueTyped, Catalogue!OwnKeys
    <2> QED BY <1>1, <1>4, <2>1, <2>2
            DEF CatalogueInv, ReadIsCurrent, DataIsCurrent, Catalogue!Read
<1> QED BY <1>5, <1>6, <1>7 DEF CatalogueInv

\* What the server changes is of the operation's own key, which hears of it, or is
\* noted.
LEMMA ExecuteKeeps ==
    ASSUME CatalogueInv, NEW n \in Catalogue!Slots, Catalogue!Execute(n)
    PROVE  CatalogueInv'
<1>1. /\ UNCHANGED <<data, fetch, answer, invalid, used>>
      /\ op[n].stage = "sent"
      /\ op' = [op EXCEPT ![n].stage = "done"]
      /\ elsewhere' = elsewhere \union
           {k \in Catalogue!Held \ {op[n].key} :
               \E i \in Catalogue!Scope(k) : server'[i] # server[i]}
    BY DEF Catalogue!Execute, Catalogue!cacheVars
<1>2. \A m \in Catalogue!Slots : m # n => op'[m] = op[m]
    BY <1>1 DEF CatalogueInv, CatalogueTyped, OpsTyped
<1>3. /\ op'[n] = [op[n] EXCEPT !.stage = "done"]
      /\ op'[n].stage = "done" /\ op'[n].key = op[n].key
    BY <1>1 DEF CatalogueInv, CatalogueTyped, OpsTyped
<1>4. OpsTyped'
    <2>1. op' = [m \in Catalogue!Slots |-> op'[m]]
        BY <1>1 DEF CatalogueInv, CatalogueTyped, OpsTyped
    <2>2. n <= used
        BY <1>1 DEF CatalogueInv, CatalogueTyped, OpsTyped, Catalogue!Slots
    <2> QED BY <1>1, <1>2, <1>3, <2>1, <2>2
            DEF CatalogueInv, CatalogueTyped, OpsTyped, Catalogue!Slots
<1>5. \A k : Unheard(k) => Unheard(k)'
    BY <1>1, <1>2 DEF Unheard
<1>6. ASSUME NEW k \in Catalogue!OwnKeys, k = op[n].key
      PROVE ReadIsCurrent(k)' /\ DataIsCurrent(k)'
    BY <1>3, <1>6 DEF ReadIsCurrent, DataIsCurrent, Unheard
<1>7. ASSUME NEW k \in Catalogue!OwnKeys, k # op[n].key
      PROVE ReadIsCurrent(k)' /\ DataIsCurrent(k)'
    <2>1. CASE k \notin Catalogue!Held
        BY <1>1, <2>1 DEF ReadIsCurrent, DataIsCurrent, Catalogue!Held
    <2>2. CASE \E i \in Catalogue!Scope(k) : server'[i] # server[i]
        BY <1>1, <1>7, <2>1, <2>2 DEF ReadIsCurrent, DataIsCurrent
    <2>3. CASE \A i \in Catalogue!Scope(k) : server'[i] = server[i]
        <3>1. Catalogue!Read(k)' = Catalogue!Read(k)
            BY <2>3 DEF Catalogue!Read
        <3> QED BY <1>1, <1>5, <3>1
                DEF CatalogueInv, ReadIsCurrent, DataIsCurrent
    <2> QED BY <2>1, <2>2, <2>3
<1> QED
    BY <1>1, <1>4, <1>6, <1>7 DEF CatalogueInv, CatalogueTyped

\* The page hears of it: the entry of its key is no longer taken for valid.
LEMMA SucceedKeeps ==
    ASSUME CatalogueInv, NEW n \in Catalogue!Slots, Catalogue!Succeed(n)
    PROVE  CatalogueInv'
<1> PICK k : k = op[n].key
    OBVIOUS
<1> DEFINE open == k \in Catalogue!KeysOf(tab)
           R == IF ~open THEN {n}
                ELSE IF data[k] = None THEN {} ELSE Catalogue!Awaiting(k)
           W == IF open THEN {n} ELSE {}
<1>1. /\ UNCHANGED <<server, used, data>>
      /\ op[n].stage = "done"
      /\ Catalogue!Proceed(R, W)
      /\ elsewhere' = IF (~open \/ data[k] = None) /\ fetch[k] = "answered"
                      THEN elsewhere \union {k} ELSE elsewhere
      /\ invalid' = invalid \union {k}
    BY DEF Catalogue!Succeed, Catalogue!Invalidate
<1>2. IF open /\ (data[k] # None \/ fetch[k] = "idle")
      THEN /\ fetch' = [fetch EXCEPT ![k] = "sent"]
           /\ answer' = [answer EXCEPT ![k] = None]
      ELSE UNCHANGED <<fetch, answer>>
    BY DEF Catalogue!Succeed, Catalogue!Invalidate
<1>3. \A m \in R \union W : m \in Catalogue!Slots => op[m].stage # "over"
    BY <1>1 DEF Catalogue!Awaiting
<1>4. /\ OpsTyped'
      /\ \A m \in Catalogue!Slots :
            IF m \in R \union W THEN op'[m].stage \in {"over", "refetching"}
            ELSE op'[m] = op[m]
    <2> HIDE DEF R, W
    <2> QED BY <1>1, <1>3, ProceedHears DEF CatalogueInv, CatalogueTyped
<1>5. \A h : h # k /\ Unheard(h) => Unheard(h)'
    BY <1>4 DEF Unheard, Catalogue!Awaiting
<1>6. CatalogueTyped'
    BY <1>1, <1>2, <1>4 DEF CatalogueInv, CatalogueTyped
<1>7. ASSUME NEW h \in Catalogue!OwnKeys, h # k
      PROVE ReadIsCurrent(h)' /\ DataIsCurrent(h)'
    <2>1. /\ fetch'[h] = fetch[h] /\ answer'[h] = answer[h]
          /\ h \in invalid => h \in invalid'
          /\ h \in elsewhere => h \in elsewhere'
        BY <1>1, <1>2, <1>7 DEF CatalogueInv, CatalogueTyped, Catalogue!OwnKeys
    <2> QED BY <1>1, <1>5, <1>7, <2>1
            DEF CatalogueInv, ReadIsCurrent, DataIsCurrent, Catalogue!Read
<1>8. ASSUME k \in Catalogue!OwnKeys PROVE ReadIsCurrent(k)' /\ DataIsCurrent(k)'
    <2>1. fetch'[k] = "answered" => k \in elsewhere'
        BY <1>1, <1>2, <1>8 DEF CatalogueInv, CatalogueTyped, Catalogue!OwnKeys
    <2>2. k \in invalid'
        BY <1>1
    <2> QED BY <2>1, <2>2 DEF ReadIsCurrent, DataIsCurrent
<1> QED
    <2>1. ASSUME NEW h \in Catalogue!OwnKeys PROVE ReadIsCurrent(h)' /\ DataIsCurrent(h)'
        BY <1>7, <1>8
    <2> QED BY <1>6, <2>1 DEF CatalogueInv

\* An operation that was done and is taken for failed is noted.
LEMMA FailKeeps ==
    ASSUME CatalogueInv, NEW n \in Catalogue!Slots, Catalogue!Fail(n)
    PROVE  CatalogueInv'
<1>1. /\ UNCHANGED <<server, data, fetch, answer, invalid, used>>
      /\ op' = [op EXCEPT ![n] = Catalogue!NoOp]
      /\ elsewhere' = IF op[n].stage = "done"
                      THEN elsewhere \union ({op[n].key} \intersect Catalogue!Held)
                      ELSE elsewhere
    BY DEF Catalogue!Fail, Catalogue!cacheVars
<1>2. \A m \in Catalogue!Slots :
         op'[m] = IF m = n THEN Catalogue!NoOp ELSE op[m]
    BY <1>1 DEF CatalogueInv, CatalogueTyped, OpsTyped
<1>3. OpsTyped'
    BY <1>1, <1>2 DEF CatalogueInv, CatalogueTyped, OpsTyped, Catalogue!NoOp
<1>4. ASSUME NEW k \in Catalogue!OwnKeys
      PROVE ReadIsCurrent(k)' /\ DataIsCurrent(k)'
    <2>1. CASE op[n].stage # "done" \/ op[n].key # k
        <3>1. Unheard(k) => Unheard(k)'
            BY <1>2, <2>1 DEF Unheard
        <3>2. k \in elsewhere => k \in elsewhere'
            BY <1>1
        <3> QED BY <1>1, <3>1, <3>2, KeyKeeps DEF CatalogueInv
    <2>2. CASE op[n].stage = "done" /\ op[n].key = k
        BY <1>1, <1>4, <2>2 DEF ReadIsCurrent, DataIsCurrent, Catalogue!Held
    <2> QED BY <2>1, <2>2
<1> QED
    BY <1>1, <1>3, <1>4 DEF CatalogueInv, CatalogueTyped

\* Every step of the pages keeps the invariant.
LEMMA CatalogueKeeps ==
    CatalogueInv /\ [Catalogue!Next]_catalogueVars => CatalogueInv'
<1> SUFFICES ASSUME CatalogueInv, [Catalogue!Next]_catalogueVars PROVE CatalogueInv'
    OBVIOUS
<1>1. CASE UNCHANGED CatalogueQuiet
    BY <1>1, KeyKeeps DEF CatalogueQuiet, CatalogueInv, CatalogueTyped, OpsTyped,
       ReadIsCurrent, DataIsCurrent, Unheard, Catalogue!Read
<1>2. ASSUME NEW kind, NEW i, NEW v, Catalogue!Start(kind, i, v) PROVE CatalogueInv'
    BY <1>2, StartKeeps
<1>3. CASE \E i \in Catalogue!Items \union {None} : Catalogue!OpenForm(i)
    BY <1>1, <1>3 DEF CatalogueQuiet, Catalogue!OpenForm, Catalogue!cacheVars,
                      Catalogue!opVars
<1>4. CASE \E a \in Apis \union {None} : Catalogue!OpenDelete(a) \/ Catalogue!OpenImport(a)
    BY <1>1, <1>4 DEF CatalogueQuiet, Catalogue!OpenDelete, Catalogue!OpenImport,
                      Catalogue!cacheVars, Catalogue!opVars
<1>5. CASE Catalogue!Cancel
    BY <1>1, <1>5 DEF CatalogueQuiet, Catalogue!Cancel, Catalogue!cacheVars,
                      Catalogue!opVars
<1>6. CASE Catalogue!Save \/ Catalogue!ConfirmDelete
    BY <1>2, <1>6 DEF Catalogue!Save, Catalogue!ConfirmDelete
<1>7. CASE Catalogue!Import \/ Catalogue!RowAction
    BY <1>2, <1>7 DEF Catalogue!Import, Catalogue!RowAction
<1>8. CASE UNCHANGED catalogueVars
    BY <1>1, <1>8 DEF CatalogueQuiet, catalogueVars
<1> QED
    BY <1>3, <1>4, <1>5, <1>6, <1>7, <1>8, OpenKeeps, AnswerKeeps, ArriveKeeps,
       AnswerEndpointsKeeps, ExecuteKeeps, SucceedKeeps, FailKeeps DEF Catalogue!Next

\* ShowsOwnWrites of every behaviour of the console, for all sets of APIs, endpoints
\* and pages and any number of operations (invalidateQueries in both pages).
THEOREM ConsoleShowsOwnWrites == ConsoleSpec => []ShowsOwnWrites
<1> DEFINE IInv == part \in {"domains", "domain"} => CatalogueInv
<1>1. ConsoleInit => IInv
    BY CatalogueStarts DEF ConsoleInit
<1>2. IInv /\ [ConsoleNext]_consoleVars => IInv'
    <2> SUFFICES ASSUME IInv, [ConsoleNext]_consoleVars,
                        part' \in {"domains", "domain"}
                 PROVE CatalogueInv'
        OBVIOUS
    <2>1. part' = part /\ [Catalogue!Next]_catalogueVars
        BY DEF ConsoleNext, consoleVars, KeyStep, AlertStep, TesterStep,
               CatalogueStep, AccountStep, BoardStep, FrameStep
    <2> QED BY <2>1, CatalogueKeeps
<1>3. IInv => ShowsOwnWrites
    BY DEF ShowsOwnWrites, Catalogue!ShowsOwnWrites, CatalogueInv, DataIsCurrent,
           Unheard
<1> QED BY <1>1, <1>2, <1>3, PTL DEF ConsoleSpec

------------------------------------------------------------------------------
(* The pages of the account *)

AcPages == {"settings", "profile"}
AcForms == {"profile", "org"}
Requests == 1..MaxRequests

Request ==
    [kind : {"none", "save", "invite", "role", "remove"},
     item : Account!Items \union {None}, value : {0, 1, 2},
     stage : {"sent", "done", "refetching", "over"}, here : BOOLEAN]

\* A request of the page that is open, which it did not hear of yet.
Pending(n) == acOp[n].here /\ acOp[n].stage \in {"sent", "done"}

\* What the page is about to hear is stored; a role is of a member that it lists, or
\* will be refused.
Carries(n) ==
    acOp[n].item \notin doubtful
    => /\ acOp[n].stage = "done" => acOp[n].value = stored[acOp[n].item]
       /\ acOp[n].kind = "role" /\ acShown[acOp[n].item] = 0
             => acOp[n].stage = "sent" /\ stored[acOp[n].item] = 0

RequestInv(n) ==
    /\ acOp[n] \in Request
    /\ acOp[n].kind = "save" => acOp[n].item \in AcForms
    /\ acOp[n].kind \in {"invite", "role", "remove"} => acOp[n].item \in Members
    /\ acOp[n].kind = "role" => acOp[n].value # 0
    /\ n > acUsed => acOp[n].stage = "over"
    /\ Pending(n) =>
          /\ acTab \in AcPages /\ acOp[n].item \in Account!ItemsOf(acTab)
          /\ acOp[n].kind # "none"
          /\ acOp[n].kind = "invite" => acTab = "settings"
          /\ acOp[n].kind = "save" => acOp[n].item \in busy
          /\ Carries(n)

\* Nothing else is pending on a form that is being saved.
OneSave ==
    \A n, m \in Requests :
       Pending(n) /\ Pending(m) /\ acOp[n].kind = "save" /\ acOp[n].item = acOp[m].item
       => n = m

\* The server did what the page is about to hear.
Untold(i) == \E n \in Requests : acOp[n].item = i /\ acOp[n].here /\ acOp[n].stage = "done"

(* What is shown is stored, if the data are valid; of what arrives and what *)
(* is shown one is.                                                        *)
Shows(i) ==
    /\ acTab \notin acInvalid => acShown[i] = stored[i]
    /\ i \in Account!Got(acTab) => stored[i] \in {acAnswer[acTab][i], acShown[i]}

ShownInv ==
    acTab \in AcPages /\ acData[acTab] # None
    => \A i \in Account!ItemsOf(acTab) \ doubtful : ~Untold(i) => Shows(i)

AccountTyped ==
    /\ DOMAIN acOp = Requests /\ acOp = [n \in Requests |-> acOp[n]]
    /\ stored = [i \in Account!Items |-> stored[i]]
    /\ acShown = [i \in Account!Items |-> acShown[i]]
    /\ acData = [p \in AcPages |-> acData[p]]
    /\ acFetch = [p \in AcPages |-> acFetch[p]]
    /\ acAnswer = [p \in AcPages |-> acAnswer[p]]
    /\ \A p \in AcPages : acFetch[p] = "answered" => Account!Got(p) = Account!ItemsOf(p)
    /\ acUsed \in Nat

AccountInv ==
    AccountTyped /\ (\A n \in Requests : RequestInv(n)) /\ OneSave /\ ShownInv

\* The items and the pages, as the console names them.
LEMMA AccountSets ==
    /\ Account!Items = Members \union AcForms
    /\ Account!Pages = AcPages /\ Account!Slots = Requests
    /\ Account!Invite = "invite" /\ Account!Refresh = "refresh"
    /\ Account!Values = {1, 2}
    /\ \A p : Account!ItemsOf(p) \subseteq Account!Items
    /\ Account!Free \in Request
    /\ Account!Free.kind = "none" /\ Account!Free.stage = "over" /\ ~Account!Free.here
    /\ Members \intersect AcForms = {}
BY ConsoleAssumption
   DEF Account!Items, Account!Pages, Account!Slots, Account!Invite, Account!Refresh,
       Account!Values, Account!ItemsOf, Account!Free, Request, AcPages, AcForms, Requests

\* The invariant at the start.
LEMMA AccountStarts == Account!Init => AccountInv
<1> SUFFICES ASSUME Account!Init PROVE AccountInv
    OBVIOUS
<1>1. /\ acOp = [n \in Requests |-> Account!Free] /\ acUsed = 0
      /\ stored = [i \in Account!Items |-> 1] /\ acShown = [i \in Account!Items |-> 0]
      /\ acData = [p \in AcPages |-> None]
      /\ acFetch = [p \in AcPages |-> IF p = acTab THEN "sent" ELSE "idle"]
      /\ acAnswer = [p \in AcPages |-> None]
    BY AccountSets DEF Account!Init
<1>2. AccountTyped
    BY <1>1 DEF AccountTyped
<1>3. \A n \in Requests : RequestInv(n)
    BY <1>1, AccountSets DEF RequestInv, Pending
<1>4. OneSave
    BY <1>1, AccountSets DEF OneSave, Pending
<1>5. ShownInv
    BY <1>1 DEF ShownInv
<1> QED BY <1>2, <1>3, <1>4, <1>5 DEF AccountInv

\* Nothing changes.
LEMMA AccountStutters ==
    ASSUME AccountInv, UNCHANGED accountVars
    PROVE  AccountInv'
<1>1. /\ stored' = stored /\ acTab' = acTab /\ acData' = acData /\ acFetch' = acFetch
      /\ acAnswer' = acAnswer /\ acInvalid' = acInvalid /\ acShown' = acShown
      /\ busy' = busy /\ acOp' = acOp /\ acUsed' = acUsed /\ doubtful' = doubtful
    BY DEF accountVars
<1>2. AccountTyped'
    BY <1>1 DEF AccountInv, AccountTyped, Account!Got
<1>3. (\A n \in Requests : RequestInv(n)') /\ OneSave'
    BY <1>1 DEF AccountInv, RequestInv, Pending, Carries, OneSave
<1>4. ShownInv'
    BY <1>1 DEF AccountInv, ShownInv, Untold, Shows, Account!Got
<1> QED BY <1>2, <1>3, <1>4 DEF AccountInv

\* A page is opened.
LEMMA AccountOpenKeeps ==
    ASSUME AccountInv, NEW p \in {"settings", "profile", "other"}, Account!Open(p)
    PROVE  AccountInv'
<1>1. /\ acTab' = p /\ acOp' = [n \in Requests |-> [acOp[n] EXCEPT !.here = FALSE]]
      /\ stored' = stored /\ acData' = acData /\ acAnswer' = acAnswer
      /\ acInvalid' = acInvalid /\ acUsed' = acUsed
      /\ \E aged \in BOOLEAN :
            acFetch' = [q \in AcPages |->
                          IF /\ q = p /\ acFetch[q] = "idle"
                             /\ aged \/ acData[q] = None \/ q \in acInvalid
                          THEN "sent" ELSE acFetch[q]]
      /\ IF p \in AcPages /\ acData[p] # None
         THEN Account!Copy(p, acData[p])
         ELSE acShown' = [i \in Account!Items |-> 0] /\ doubtful' = {}
    BY AccountSets DEF Account!Open
<1>2. \A n \in Requests : acOp[n] \in Request
    BY DEF AccountInv, RequestInv
<1>3. ASSUME NEW n \in Requests
      PROVE  /\ acOp'[n] \in Request /\ acOp'[n].here = FALSE
             /\ acOp'[n].kind = acOp[n].kind /\ acOp'[n].item = acOp[n].item
             /\ acOp'[n].value = acOp[n].value /\ acOp'[n].stage = acOp[n].stage
    <2>1. acOp'[n] = [acOp[n] EXCEPT !.here = FALSE]
        BY <1>1
    <2> QED BY <1>2, <2>1 DEF Request
<1>4. AccountTyped'
    <2>1. acFetch' = [q \in AcPages |-> acFetch'[q]]
        BY <1>1
    <2>2. acShown' = [i \in Account!Items |-> acShown'[i]]
        BY <1>1 DEF Account!Copy
    <2>3. DOMAIN acOp' = Requests /\ acOp' = [n \in Requests |-> acOp'[n]]
        BY <1>1
    <2> QED BY <1>1, <2>1, <2>2, <2>3 DEF AccountInv, AccountTyped, Account!Got
<1>5. ASSUME NEW n \in Requests PROVE RequestInv(n)'
    <2>1. RequestInv(n) /\ acUsed' = acUsed
        BY <1>1 DEF AccountInv
    <2>2. ~Pending(n)'
        BY <1>3 DEF Pending
    <2> QED BY <1>3, <2>1, <2>2 DEF RequestInv
<1>6. OneSave'
    BY <1>3 DEF OneSave, Pending
<1>7. ShownInv'
    <2> SUFFICES ASSUME p \in AcPages, acData[p] # None,
                        NEW i \in Account!ItemsOf(p), i \notin doubtful'
                 PROVE  Shows(i)'
        BY <1>1 DEF ShownInv
    <2>1. acShown'[i] = acData[p][i] /\ acData[p][i] = stored[i]
        BY <1>1, AccountSets DEF Account!Copy
    <2> QED BY <1>1, <2>1 DEF Shows
<1> QED BY <1>4, <1>5, <1>6, <1>7 DEF AccountInv

\* The server answers one of the requests of a query: what is read is stored, and what
\* was read before is as it was.
LEMMA AccountAnswerKeeps ==
    ASSUME AccountInv, NEW p \in AcPages, Account!Answer(p)
    PROVE  AccountInv'
<1> PICK I : /\ acAnswer' = [acAnswer EXCEPT ![p] =
                   [i \in Account!Got(p) \union I |-> IF i \in I THEN stored[i] ELSE @[i]]]
             /\ acFetch' = [acFetch EXCEPT ![p] =
                   IF Account!Got(p) \union I = Account!ItemsOf(p)
                   THEN "answered" ELSE "reading"]
    BY DEF Account!Answer
<1>1. /\ stored' = stored /\ acTab' = acTab /\ acData' = acData
      /\ acInvalid' = acInvalid /\ acShown' = acShown
      /\ busy' = busy /\ acOp' = acOp /\ acUsed' = acUsed /\ doubtful' = doubtful
    BY DEF Account!Answer, Account!pageVars, Account!opVars
<1>2. /\ acFetch' = [q \in AcPages |-> acFetch'[q]]
      /\ acAnswer' = [q \in AcPages |-> acAnswer'[q]]
      /\ \A q \in AcPages \ {p} : acFetch'[q] = acFetch[q] /\ acAnswer'[q] = acAnswer[q]
    BY DEF AccountInv, AccountTyped
<1>3. /\ acAnswer'[p] = [i \in Account!Got(p) \union I |->
                            IF i \in I THEN stored[i] ELSE acAnswer[p][i]]
      /\ acFetch'[p] \in {"reading", "answered"}
      /\ acFetch'[p] = "answered" => Account!Got(p) \union I = Account!ItemsOf(p)
    BY DEF AccountInv, AccountTyped
<1>4. /\ Account!Got(p)' = Account!Got(p) \union I
      /\ \A q \in AcPages \ {p} : Account!Got(q)' = Account!Got(q)
    BY <1>2, <1>3 DEF Account!Got
<1>5. AccountTyped'
    <2>1. \A q \in AcPages : acFetch'[q] = "answered"
                             => Account!Got(q)' = Account!ItemsOf(q)
        BY <1>2, <1>3, <1>4 DEF AccountInv, AccountTyped
    <2>2. Account!ItemsOf(p)' = Account!ItemsOf(p)
        OBVIOUS
    <2> QED BY <1>1, <1>2, <2>1, <2>2 DEF AccountInv, AccountTyped
<1>6. (\A n \in Requests : RequestInv(n)') /\ OneSave'
    BY <1>1 DEF AccountInv, RequestInv, Pending, Carries, OneSave
<1>7. ShownInv'
    <2> SUFFICES ASSUME acTab \in AcPages, acData[acTab] # None,
                        NEW i \in Account!ItemsOf(acTab), i \notin doubtful, ~Untold(i)
                 PROVE  Shows(i)'
        BY <1>1 DEF ShownInv, Untold
    <2>1. Shows(i)
        BY DEF AccountInv, ShownInv
    <2>2. ASSUME i \in Account!Got(acTab)'
          PROVE  stored[i] \in {acAnswer'[acTab][i], acShown[i]}
        <3>1. CASE p # acTab
            <4>1. /\ acAnswer'[acTab] = acAnswer[acTab]
                  /\ Account!Got(acTab)' = Account!Got(acTab)
                <5>1. acTab \in AcPages \ {p}
                    BY <3>1
                <5>2. acFetch'[acTab] = acFetch[acTab] /\ acAnswer'[acTab] = acAnswer[acTab]
                    BY <1>2, <5>1
                <5> QED BY <1>1, <5>2 DEF Account!Got
            <4> QED BY <2>1, <2>2, <4>1 DEF Shows
        <3>2. CASE p = acTab /\ i \in I
            BY <1>3, <2>2, <3>2
        <3>3. CASE p = acTab /\ i \notin I
            <4>1. i \in Account!Got(acTab) /\ acAnswer'[acTab][i] = acAnswer[acTab][i]
                <5>1. i \in Account!Got(p)
                    BY <1>1, <1>4, <2>2, <3>3
                <5> QED BY <1>3, <3>3, <5>1
            <4> QED BY <2>1, <4>1 DEF Shows
        <3> QED BY <3>1, <3>2, <3>3
    <2> QED BY <1>1, <2>1, <2>2 DEF Shows
<1> QED BY <1>5, <1>6, <1>7 DEF AccountInv

\* The handlers that awaited a refetch end: no pending request is one, and the button
\* of no form.
LEMMA SettleFacts ==
    ASSUME AccountInv, NEW p \in AcPages, Account!Settle(p)
    PROVE  /\ \A n \in Requests : /\ acOp'[n] \in Request
                                  /\ Pending(n)' <=> Pending(n)
                                  /\ acOp'[n] \in {acOp[n], Account!Free}
                                  /\ Pending(n) => acOp'[n] = acOp[n]
           /\ \A i : Untold(i)' <=> Untold(i)
           /\ DOMAIN acOp' = Requests /\ acOp' = [n \in Requests |-> acOp'[n]]
           /\ \A f \in AcForms : f \in busy => f \in busy'
           /\ acFetch' = [q \in AcPages |-> IF q = p THEN "idle" ELSE acFetch[q]]
           /\ acAnswer' = [q \in AcPages |-> IF q = p THEN None ELSE acAnswer[q]]
<1>1. /\ acOp' = [n \in Requests |-> IF acOp[n].stage = "refetching" /\ p = "settings"
                                     THEN Account!Free ELSE acOp[n]]
      /\ busy' = IF p = acTab
                 THEN busy \ {IF p = "settings" THEN "invite" ELSE "refresh"} ELSE busy
    BY AccountSets DEF Account!Settle
<1>2. ASSUME NEW n \in Requests
      PROVE  /\ acOp'[n] \in Request
             /\ Pending(n)' <=> Pending(n)
             /\ acOp'[n] \in {acOp[n], Account!Free}
             /\ Pending(n) => acOp'[n] = acOp[n]
    <2>1. acOp[n] \in Request
        BY DEF AccountInv, RequestInv
    <2>2. acOp'[n] = IF acOp[n].stage = "refetching" /\ p = "settings"
                     THEN Account!Free ELSE acOp[n]
        BY <1>1
    <2> QED BY <2>1, <2>2, AccountSets DEF Pending
<1>3. ASSUME NEW i PROVE Untold(i)' <=> Untold(i)
    BY <1>1, AccountSets DEF Untold
<1>4. \A f \in AcForms : f \in busy => f \in busy'
    BY <1>1 DEF AcForms
<1>5. /\ acFetch' = [q \in AcPages |-> IF q = p THEN "idle" ELSE acFetch[q]]
      /\ acAnswer' = [q \in AcPages |-> IF q = p THEN None ELSE acAnswer[q]]
    BY DEF Account!Settle, AccountInv, AccountTyped
<1> QED BY <1>1, <1>2, <1>3, <1>4, <1>5

\* When a query ends, the requests stay as they were, as what they carry does.
LEMMA AccountSettleKeeps ==
    ASSUME AccountInv, NEW p \in AcPages, Account!Settle(p),
           stored' = stored, acTab' = acTab, acUsed' = acUsed,
           \A n \in Requests : Pending(n) /\ Carries(n) => Carries(n)'
    PROVE  (\A n \in Requests : RequestInv(n)') /\ OneSave'
<1>1. /\ \A n \in Requests : /\ acOp'[n] \in Request
                             /\ Pending(n)' <=> Pending(n)
                             /\ acOp'[n] \in {acOp[n], Account!Free}
                             /\ Pending(n) => acOp'[n] = acOp[n]
      /\ \A f \in AcForms : f \in busy => f \in busy'
    BY SettleFacts
<1>2. ASSUME NEW n \in Requests PROVE RequestInv(n)'
    <2>1. RequestInv(n)
        BY DEF AccountInv
    <2>2. /\ acOp'[n].kind = "save" => acOp'[n].item \in AcForms
          /\ acOp'[n].kind \in {"invite", "role", "remove"} => acOp'[n].item \in Members
          /\ acOp'[n].kind = "role" => acOp'[n].value # 0
          /\ n > acUsed => acOp'[n].stage = "over"
        BY <1>1, <2>1, AccountSets DEF RequestInv
    <2>3. Pending(n) => Carries(n)'
        BY <2>1 DEF RequestInv
    <2> QED BY <1>1, <2>1, <2>2, <2>3 DEF RequestInv
<1>3. OneSave'
    BY <1>1 DEF AccountInv, OneSave
<1> QED BY <1>2, <1>3

\* The answer of a query arrives.
LEMMA AccountArriveKeeps ==
    ASSUME AccountInv, NEW p \in AcPages, Account!Arrive(p)
    PROVE  AccountInv'
<1>1. /\ acFetch[p] = "answered" /\ acData' = [acData EXCEPT ![p] = acAnswer[p]]
      /\ acInvalid' = acInvalid \ {p} /\ Account!Settle(p)
      /\ stored' = stored /\ acTab' = acTab /\ acUsed' = acUsed
    BY DEF Account!Arrive
<1>2. /\ \A i : Untold(i)' <=> Untold(i)
      /\ DOMAIN acOp' = Requests /\ acOp' = [n \in Requests |-> acOp'[n]]
      /\ acFetch' = [q \in AcPages |-> IF q = p THEN "idle" ELSE acFetch[q]]
      /\ acAnswer' = [q \in AcPages |-> IF q = p THEN None ELSE acAnswer[q]]
      /\ \A n \in Requests : Pending(n) => acOp'[n] = acOp[n]
    BY <1>1, SettleFacts
<1>3. acData' = [q \in AcPages |-> IF q = p THEN acAnswer[p] ELSE acData[q]]
    BY <1>1 DEF AccountInv, AccountTyped
<1>4. ASSUME acShown' = [i \in Account!Items |-> acShown'[i]],
             \A n \in Requests : Pending(n) /\ Carries(n) => Carries(n)',
             ShownInv'
      PROVE  AccountInv'
    <2>1. AccountTyped'
        BY <1>1, <1>2, <1>3, <1>4 DEF AccountInv, AccountTyped, Account!Got
    <2>2. (\A n \in Requests : RequestInv(n)') /\ OneSave'
        BY <1>1, <1>4, AccountSettleKeeps
    <2> QED BY <1>4, <2>1, <2>2 DEF AccountInv
<1>5. CASE p = acTab /\ Account!Copy(p, acAnswer[p])
    <2>1. /\ acShown' = [i \in Account!Items |->
                           IF i \in Account!ItemsOf(p) THEN acAnswer[p][i] ELSE 0]
          /\ doubtful' = {i \in Account!ItemsOf(p) :
                            \/ acAnswer[p][i] # stored[i]
                            \/ i \in doubtful /\ Account!InFlight(i) # {}}
        BY <1>5 DEF Account!Copy
    <2>2. ASSUME NEW i \in Account!ItemsOf(p), i \notin doubtful'
          PROVE  /\ acShown'[i] = stored[i]
                 /\ i \in doubtful => Account!InFlight(i) = {}
        BY <2>1, <2>2, AccountSets
    <2>3. ASSUME NEW n \in Requests, Pending(n), Carries(n) PROVE Carries(n)'
        <3>1. /\ acOp[n] \in Request /\ acOp[n].item \in Account!ItemsOf(p)
              /\ acOp[n].kind = "role" => acOp[n].value # 0
            BY <1>5, <2>3 DEF AccountInv, RequestInv
        <3>2. acOp'[n] = acOp[n]
            BY <1>2, <2>3
        <3>3. n \in Account!InFlight(acOp[n].item)
            BY <2>3, AccountSets DEF Account!InFlight, Pending
        <3>4. acOp[n].item \notin doubtful'
              => acShown'[acOp[n].item] = stored[acOp[n].item]
                 /\ acOp[n].item \notin doubtful
            BY <2>2, <3>1, <3>3
        <3>5. acOp[n].stage = "sent" \/ acOp[n].stage = "done"
            BY <2>3 DEF Pending
        <3> QED BY <1>1, <2>3, <3>1, <3>2, <3>4, <3>5 DEF Carries
    <2>4. ShownInv'
        <3>1. \A i \in Account!ItemsOf(p) : i \notin doubtful' => acShown'[i] = stored[i]
            BY <2>2
        <3> QED BY <1>1, <1>2, <1>5, <3>1 DEF ShownInv, Shows
    <2>5. acShown' = [i \in Account!Items |-> acShown'[i]]
        BY <2>1
    <2> QED BY <1>4, <2>3, <2>4, <2>5
<1>6. CASE /\ p = acTab /\ acAnswer[p] = acData[p] /\ acShown' = acShown
           /\ doubtful' = doubtful \union
                            {i \in Account!ItemsOf(p) : acShown[i] # acAnswer[p][i]}
    <2>1. ASSUME NEW n \in Requests, Pending(n), Carries(n) PROVE Carries(n)'
        <3>1. acOp'[n] = acOp[n]
            BY <1>2, <2>1
        <3> QED BY <1>1, <1>6, <2>1, <3>1 DEF Carries
    <2>2. ShownInv'
        <3> SUFFICES ASSUME acData'[acTab] # None, NEW i \in Account!ItemsOf(acTab),
                            i \notin doubtful', ~Untold(i)
                     PROVE  Shows(i)'
            BY <1>1, <1>2 DEF ShownInv
        <3>1. acData[acTab] # None
            BY <1>3, <1>6
        <3>2. acShown[i] = acAnswer[p][i] /\ i \notin doubtful
            BY <1>6
        <3>3. stored[i] = acShown[i]
            <4>1. i \in Account!Got(acTab) /\ acTab \in AcPages
                BY <1>1, <1>6 DEF AccountInv, AccountTyped
            <4>2. Shows(i)
                BY <3>1, <3>2, <4>1 DEF AccountInv, ShownInv
            <4> QED BY <1>6, <3>2, <4>1, <4>2 DEF Shows
        <3>4. acFetch'[acTab] = "idle"
            BY <1>2, <1>6
        <3> QED BY <1>1, <1>6, <3>3, <3>4 DEF Shows
    <2> QED BY <1>4, <1>6, <2>1, <2>2 DEF AccountInv, AccountTyped
<1>7. CASE p # acTab /\ acShown' = acShown /\ doubtful' = doubtful
    <2>1. ASSUME NEW n \in Requests, Pending(n), Carries(n) PROVE Carries(n)'
        <3>1. acOp'[n] = acOp[n]
            BY <1>2, <2>1
        <3> QED BY <1>1, <1>7, <2>1, <3>1 DEF Carries
    <2>2. ShownInv'
        <3> SUFFICES ASSUME acTab \in AcPages, acData'[acTab] # None,
                            NEW i \in Account!ItemsOf(acTab),
                            i \notin doubtful, ~Untold(i)
                     PROVE  Shows(i)'
            BY <1>1, <1>2, <1>7 DEF ShownInv
        <3>1. /\ acData'[acTab] = acData[acTab] /\ acFetch'[acTab] = acFetch[acTab]
              /\ acAnswer'[acTab] = acAnswer[acTab]
            BY <1>2, <1>3, <1>7
        <3>2. Shows(i)
            BY <3>1 DEF AccountInv, ShownInv
        <3> QED BY <1>1, <1>7, <3>1, <3>2 DEF Shows, Account!Got
    <2> QED BY <1>4, <1>7, <2>1, <2>2 DEF AccountInv, AccountTyped
<1> QED BY <1>5, <1>6, <1>7 DEF Account!Arrive

\* A query fails.
LEMMA AccountFetchFailsKeeps ==
    ASSUME AccountInv, NEW p \in AcPages, Account!FetchFails(p)
    PROVE  AccountInv'
<1>1. /\ acInvalid' = acInvalid \union {p} /\ Account!Settle(p)
      /\ stored' = stored /\ acTab' = acTab /\ acUsed' = acUsed /\ acData' = acData
      /\ acShown' = acShown /\ doubtful' = doubtful
    BY DEF Account!FetchFails
<1>2. /\ \A i : Untold(i)' <=> Untold(i)
      /\ DOMAIN acOp' = Requests /\ acOp' = [n \in Requests |-> acOp'[n]]
      /\ acFetch' = [q \in AcPages |-> IF q = p THEN "idle" ELSE acFetch[q]]
      /\ acAnswer' = [q \in AcPages |-> IF q = p THEN None ELSE acAnswer[q]]
      /\ \A n \in Requests : Pending(n) => acOp'[n] = acOp[n]
    BY <1>1, SettleFacts
<1>3. AccountTyped'
    BY <1>1, <1>2 DEF AccountInv, AccountTyped, Account!Got
<1>4. ASSUME NEW n \in Requests, Pending(n), Carries(n) PROVE Carries(n)'
    <2>1. acOp'[n] = acOp[n]
        BY <1>2, <1>4
    <2> QED BY <1>1, <1>4, <2>1 DEF Carries
<1>5. (\A n \in Requests : RequestInv(n)') /\ OneSave'
    BY <1>1, <1>4, AccountSettleKeeps
<1>6. ShownInv'
    <2> SUFFICES ASSUME acTab \in AcPages, acData[acTab] # None,
                        NEW i \in Account!ItemsOf(acTab), i \notin doubtful, ~Untold(i)
                 PROVE  Shows(i)'
        BY <1>1, <1>2 DEF ShownInv
    <2>1. Shows(i)
        BY DEF AccountInv, ShownInv
    <2>2. CASE p = acTab
        <3>1. acFetch'[acTab] = "idle" /\ acTab \in acInvalid'
            BY <1>1, <1>2, <2>2
        <3> QED BY <1>1, <3>1 DEF Shows, Account!Got
    <2>3. CASE p # acTab
        <3>1. acAnswer'[acTab] = acAnswer[acTab] /\ acFetch'[acTab] = acFetch[acTab]
            BY <1>2, <2>3
        <3> QED BY <1>1, <2>1, <3>1 DEF Shows, Account!Got
    <2> QED BY <2>2, <2>3
<1> QED BY <1>3, <1>5, <1>6 DEF AccountInv

\* A request is made, on a form only if the form is not being saved.
LEMMA AccountStartKeeps ==
    ASSUME AccountInv, NEW kind \in {"save", "invite", "role", "remove"}, NEW i,
           NEW v \in {0, 1, 2}, Account!Start(kind, i, v),
           kind = "save" => i \in AcForms /\ i \notin busy /\ i \in busy',
           kind # "save" => i \in Members,
           kind = "invite" => acTab = "settings",
           kind = "role" => v # 0 /\ acShown[i] # 0,
           \A f \in AcForms : f \in busy => f \in busy'
    PROVE  AccountInv'
<1> PICK N : N = acUsed + 1
    OBVIOUS
<1> DEFINE new == [kind |-> kind, item |-> i, value |-> v, stage |-> "sent", here |-> TRUE]
<1>1. /\ acTab \in AcPages /\ i \in Account!ItemsOf(acTab) /\ acUsed < MaxRequests
      /\ acUsed' = acUsed + 1 /\ acOp' = [acOp EXCEPT ![N] = new]
      /\ stored' = stored /\ acTab' = acTab /\ acData' = acData /\ acFetch' = acFetch
      /\ acAnswer' = acAnswer /\ acInvalid' = acInvalid /\ acShown' = acShown
      /\ doubtful' = doubtful
    BY AccountSets DEF Account!Start, Account!Editable, Account!cacheVars
<1>2. N \in Requests /\ N > acUsed /\ acUsed \in Nat
    BY <1>1, ConsoleAssumption DEF AccountInv, AccountTyped, Requests
<1>3. new \in Request
    BY <1>1, AccountSets DEF Request
<1>4. /\ acOp'[N] = new /\ \A n \in Requests : n # N => acOp'[n] = acOp[n]
      /\ DOMAIN acOp' = Requests /\ acOp' = [n \in Requests |-> acOp'[n]]
    BY <1>1, <1>2 DEF AccountInv, AccountTyped
<1>5. acOp[N].stage = "over" /\ ~Pending(N)
    <2>1. acOp[N].stage = "over"
        BY <1>2 DEF AccountInv, RequestInv
    <2> QED BY <2>1 DEF Pending
<1>6. /\ new.kind = kind /\ new.item = i /\ new.value = v /\ new.stage = "sent"
      /\ new.here = TRUE
    OBVIOUS
<1> HIDE DEF new
<1>7. AccountTyped'
    BY <1>1, <1>2, <1>4 DEF AccountInv, AccountTyped, Account!Got
<1>8. \A n \in Requests : n # N => (Pending(n)' <=> Pending(n))
    BY <1>4 DEF Pending
<1>9. ASSUME NEW n \in Requests PROVE RequestInv(n)'
    <2>1. CASE n = N
        <3>1. Carries(N)'
            BY <1>1, <1>4, <1>6 DEF Carries
        <3>2. ~(N > acUsed')
            BY <1>1, <1>2
        <3> QED BY <1>1, <1>3, <1>4, <1>6, <2>1, <3>1, <3>2 DEF RequestInv
    <2>2. CASE n # N
        <3>1. acOp'[n] = acOp[n] /\ (Pending(n)' <=> Pending(n)) /\ RequestInv(n)
            BY <1>4, <1>8, <2>2 DEF AccountInv
        <3>2. n > acUsed' => n > acUsed
            BY <1>1, <1>2 DEF Requests
        <3>3. Carries(n) => Carries(n)'
            BY <1>1, <3>1 DEF Carries
        <3> QED BY <1>1, <3>1, <3>2, <3>3 DEF RequestInv
    <2> QED BY <2>1, <2>2
<1>10. OneSave'
    <2> SUFFICES ASSUME NEW n \in Requests, NEW m \in Requests,
                        Pending(n)', Pending(m)', acOp'[n].kind = "save",
                        acOp'[n].item = acOp'[m].item, n # m
                 PROVE  FALSE
        BY DEF OneSave
    <2>1. CASE n = N
        <3>1. acOp'[m] = acOp[m] /\ Pending(m) /\ RequestInv(m)
            BY <1>4, <1>8, <2>1 DEF AccountInv
        <3>2. kind = "save" /\ acOp[m].item = i
            BY <1>4, <1>6, <2>1, <3>1
        <3>3. acOp[m].kind = "save"
            BY <3>1, <3>2, AccountSets DEF RequestInv, Request
        <3> QED BY <3>1, <3>2, <3>3 DEF RequestInv
    <2>2. CASE m = N
        <3>1. acOp'[n] = acOp[n] /\ Pending(n) /\ RequestInv(n)
            BY <1>4, <1>8, <2>2 DEF AccountInv
        <3>2. acOp[n].kind = "save" /\ acOp[n].item = i
            BY <1>4, <1>6, <2>2, <3>1
        <3>3. i \in AcForms /\ i \in busy
            BY <3>1, <3>2 DEF RequestInv
        <3>4. kind = "save"
            BY <3>3, AccountSets
        <3> QED BY <3>3, <3>4
    <2>3. CASE n # N /\ m # N
        <3>1. /\ acOp'[n] = acOp[n] /\ Pending(n) /\ acOp'[m] = acOp[m] /\ Pending(m)
            BY <1>4, <1>8, <2>3
        <3> QED BY <3>1 DEF AccountInv, OneSave
    <2> QED BY <2>1, <2>2, <2>3
<1>11. \A j : Untold(j)' <=> Untold(j)
    <2>1. acOp'[N].stage # "done" /\ acOp[N].stage # "done"
        BY <1>4, <1>5, <1>6
    <2> QED BY <1>4, <2>1 DEF Untold
<1>12. ShownInv'
    BY <1>1, <1>11 DEF AccountInv, ShownInv, Shows, Account!Got
<1> QED BY <1>7, <1>9, <1>10, <1>12 DEF AccountInv

\* The user saves a form, or changes the members.
LEMMA AccountUserKeeps ==
    ASSUME AccountInv,
           \/ \E f \in {"profile", "org"} : Account!Save(f)
           \/ \E m \in Members : Account!InviteMember(m) \/ Account!UpdateRole(m)
                                 \/ Account!RemoveMember(m)
    PROVE  AccountInv'
<1>1. ASSUME NEW f \in AcForms, Account!Save(f) PROVE AccountInv'
    <2>1. f \notin busy /\ busy' = busy \union {f}
        BY <1>1 DEF Account!Save
    <2>2. PICK v \in {1, 2} : Account!Start("save", f, v)
        BY <1>1, AccountSets DEF Account!Save
    <2> QED BY <2>1, <2>2, AccountStartKeeps
<1>2. ASSUME NEW m \in Members, Account!InviteMember(m) PROVE AccountInv'
    <2>1. acTab = "settings" /\ busy' = busy \union {"invite"}
        BY <1>2, AccountSets DEF Account!InviteMember
    <2>2. PICK v \in {1, 2} : Account!Start("invite", m, v)
        BY <1>2, AccountSets DEF Account!InviteMember
    <2> QED BY <2>1, <2>2, AccountStartKeeps
<1>3. ASSUME NEW m \in Members, Account!UpdateRole(m) PROVE AccountInv'
    <2>1. acShown[m] # 0 /\ busy' = busy
        BY <1>3 DEF Account!UpdateRole
    <2>2. PICK v \in {1, 2} : Account!Start("role", m, v)
        BY <1>3, AccountSets DEF Account!UpdateRole
    <2> QED BY <2>1, <2>2, AccountStartKeeps
<1>4. ASSUME NEW m \in Members, Account!RemoveMember(m) PROVE AccountInv'
    <2>1. Account!Start("remove", m, 0) /\ busy' = busy
        BY <1>4 DEF Account!RemoveMember
    <2> QED BY <2>1, AccountStartKeeps
<1> QED BY <1>1, <1>2, <1>3, <1>4 DEF AcForms

\* The refresh button: the data are invalid until they arrive.
LEMMA AccountRefreshKeeps ==
    ASSUME AccountInv, Account!RefreshIdentity
    PROVE  AccountInv'
<1>1. /\ acTab = "profile" /\ busy' = busy \union {"refresh"}
      /\ acInvalid' = acInvalid \union {acTab}
      /\ acFetch' = [acFetch EXCEPT ![acTab] = "sent"]
      /\ acAnswer' = [acAnswer EXCEPT ![acTab] = None] /\ acData' = acData
      /\ stored' = stored /\ acTab' = acTab /\ acShown' = acShown
      /\ acOp' = acOp /\ acUsed' = acUsed /\ doubtful' = doubtful
    BY AccountSets DEF Account!RefreshIdentity, Account!ProfileShown,
                       Account!Invalidate, Account!opVars
<1>2. /\ acFetch' = [q \in AcPages |-> acFetch'[q]] /\ acFetch'[acTab] = "sent"
      /\ acAnswer' = [q \in AcPages |-> acAnswer'[q]]
    BY <1>1 DEF AccountInv, AccountTyped, AcPages
<1>3. AccountTyped'
    BY <1>1, <1>2 DEF AccountInv, AccountTyped, Account!Got
<1>4. (\A n \in Requests : RequestInv(n)') /\ OneSave'
    BY <1>1 DEF AccountInv, RequestInv, Pending, Carries, OneSave
<1>5. ShownInv'
    BY <1>1, <1>2 DEF ShownInv, Shows, Account!Got
<1> QED BY <1>3, <1>4, <1>5 DEF AccountInv

\* The server does what is requested.
LEMMA AccountExecuteKeeps ==
    ASSUME AccountInv, NEW n \in Requests, Account!Execute(n)
    PROVE  AccountInv'
<1>1. PICK i : i = acOp[n].item
    OBVIOUS
<1>2. /\ acOp[n].stage = "sent"
      /\ acOp[n].kind \in {"role", "remove"} => stored[i] # 0
      /\ stored' = [stored EXCEPT ![i] = acOp[n].value]
      /\ acOp' = [acOp EXCEPT ![n].stage = "done"]
      /\ doubtful' = IF ~acOp[n].here \/ (i \in Members /\ Account!InFlight(i) # {n})
                     THEN doubtful \union {i} ELSE doubtful
      /\ acTab' = acTab /\ acData' = acData /\ acFetch' = acFetch
      /\ acAnswer' = acAnswer /\ acInvalid' = acInvalid /\ acShown' = acShown
      /\ busy' = busy /\ acUsed' = acUsed
    BY <1>1 DEF Account!Execute, Account!cacheVars, Account!pageVars
<1>3. acOp[n] \in Request /\ RequestInv(n)
    BY DEF AccountInv, RequestInv
<1>4. /\ acOp'[n] = [acOp[n] EXCEPT !.stage = "done"]
      /\ \A m \in Requests : m # n => acOp'[m] = acOp[m]
      /\ DOMAIN acOp' = Requests /\ acOp' = [m \in Requests |-> acOp'[m]]
    BY <1>2 DEF AccountInv, AccountTyped
<1>5. /\ acOp'[n] \in Request /\ acOp'[n].kind = acOp[n].kind /\ acOp'[n].item = i
      /\ acOp'[n].value = acOp[n].value /\ acOp'[n].stage = "done"
      /\ acOp'[n].here = acOp[n].here
    BY <1>1, <1>3, <1>4 DEF Request
<1>6. \A m \in Requests : Pending(m)' <=> Pending(m)
    BY <1>2, <1>4, <1>5 DEF Pending
<1>7. AccountTyped'
    <2>1. stored' = [j \in Account!Items |-> stored'[j]]
        BY <1>2 DEF AccountInv, AccountTyped
    <2> QED BY <1>2, <1>4, <2>1 DEF AccountInv, AccountTyped, Account!Got
<1>8. /\ i \in Account!Items => stored'[i] = acOp[n].value
      /\ \A j \in Account!Items : j # i => stored'[j] = stored[j]
    BY <1>2 DEF AccountInv, AccountTyped
<1>9. ASSUME NEW m \in Requests PROVE RequestInv(m)'
    <2>1. CASE m = n
        <3>1. Pending(n) => Carries(n)'
            <4> SUFFICES ASSUME Pending(n), i \notin doubtful'
                         PROVE  /\ acOp[n].value = stored'[i]
                                /\ ~(acOp[n].kind = "role" /\ acShown[i] = 0)
                BY <1>2, <1>5 DEF Carries
            <4>1. i \in Account!Items /\ i \notin doubtful /\ Carries(n)
                BY <1>1, <1>2, <1>3, AccountSets DEF RequestInv
            <4>2. ~(acOp[n].kind = "role" /\ acShown[i] = 0)
                BY <1>1, <1>2, <4>1 DEF Carries
            <4> QED BY <1>8, <4>1, <4>2
        <3> QED BY <1>1, <1>2, <1>3, <1>5, <1>6, <2>1, <3>1 DEF RequestInv
    <2>2. CASE m # n
        <3>1. acOp'[m] = acOp[m] /\ (Pending(m)' <=> Pending(m)) /\ RequestInv(m)
            BY <1>4, <1>6, <2>2 DEF AccountInv
        <3>2. Pending(m) => Carries(m)'
            <4> SUFFICES ASSUME Pending(m), acOp[m].item \notin doubtful'
                         PROVE  /\ acOp[m].stage = "done"
                                     => acOp[m].value = stored'[acOp[m].item]
                                /\ acOp[m].kind = "role" /\ acShown[acOp[m].item] = 0
                                     => acOp[m].stage = "sent"
                                        /\ stored'[acOp[m].item] = 0
                BY <1>2, <3>1 DEF Carries
            <4>1. /\ acOp[m].item \notin doubtful /\ Carries(m)
                  /\ acOp[m].item \in Account!Items
                BY <1>2, <3>1, AccountSets DEF RequestInv
            <4>2. acOp[m].item # i
                <5> SUFFICES ASSUME acOp[m].item = i PROVE FALSE
                    OBVIOUS
                <5>1. acOp[n].here /\ (i \in Members => Account!InFlight(i) = {n})
                    BY <1>2
                <5>2. m \in Account!InFlight(i)
                    BY AccountSets DEF Account!InFlight, Pending
                <5>3. i \notin Members
                    BY <2>2, <5>1, <5>2
                <5>4. Pending(n)
                    BY <1>2, <5>1 DEF Pending
                <5>5. acOp[n].kind = "save"
                    BY <1>1, <1>3, <5>3, <5>4 DEF RequestInv, Request
                <5> QED BY <1>1, <2>2, <5>4, <5>5 DEF AccountInv, OneSave
            <4>3. stored'[acOp[m].item] = stored[acOp[m].item]
                BY <1>8, <4>1, <4>2
            <4> QED BY <4>1, <4>3 DEF Carries
        <3> QED BY <1>2, <3>1, <3>2 DEF RequestInv
    <2> QED BY <2>1, <2>2
<1>10. OneSave'
    <2>1. \A m \in Requests : acOp'[m].kind = acOp[m].kind /\ acOp'[m].item = acOp[m].item
        BY <1>1, <1>4, <1>5
    <2> QED BY <1>6, <2>1 DEF AccountInv, OneSave
<1>11. ShownInv'
    <2> SUFFICES ASSUME acTab \in AcPages, acData[acTab] # None,
                        NEW j \in Account!ItemsOf(acTab), j \notin doubtful', ~Untold(j)'
                 PROVE  Shows(j)'
        BY <1>2 DEF ShownInv
    <2>1. j # i
        <3> SUFFICES ASSUME j = i PROVE FALSE
            OBVIOUS
        <3>1. acOp[n].here
            BY <1>2
        <3> QED BY <1>5, <3>1 DEF Untold
    <2>2. j \notin doubtful /\ j \in Account!Items
        BY <1>2, AccountSets
    <2>3. ~Untold(j)
        <3> SUFFICES ASSUME NEW m \in Requests, acOp[m].item = j, acOp[m].here,
                            acOp[m].stage = "done"
                     PROVE  FALSE
            BY DEF Untold
        <3>1. m # n
            BY <1>2
        <3> QED BY <1>4, <3>1 DEF Untold
    <2>4. Shows(j)
        BY <2>2, <2>3 DEF AccountInv, ShownInv
    <2>5. stored'[j] = stored[j]
        BY <1>8, <2>1, <2>2
    <2> QED BY <1>2, <2>4, <2>5 DEF Shows, Account!Got
<1> QED BY <1>7, <1>9, <1>10, <1>11 DEF AccountInv

\* A request that ends is pending no more; of the others nothing changes.
LEMMA EndFacts ==
    ASSUME AccountInv, NEW n \in Requests, NEW r \in Request,
           acOp' = [acOp EXCEPT ![n] = r],
           \/ /\ r.kind = acOp[n].kind
              /\ r.item = acOp[n].item
              /\ r.value = acOp[n].value
           \/ r = Account!Free,
           r.stage \notin {"sent", "done"},
           acOp[n].stage # "over"
    PROVE  /\ acOp'[n] = r /\ \A m \in Requests : m # n => acOp'[m] = acOp[m]
           /\ DOMAIN acOp' = Requests /\ acOp' = [m \in Requests |-> acOp'[m]]
           /\ ~Pending(n)' /\ \A m \in Requests : m # n => (Pending(m)' <=> Pending(m))
           /\ ~(n > acUsed)
           /\ \A j : Untold(j)' <=> (\E m \in Requests \ {n} : acOp[m].item = j
                                         /\ acOp[m].here /\ acOp[m].stage = "done")
<1>1. /\ acOp'[n] = r /\ \A m \in Requests : m # n => acOp'[m] = acOp[m]
      /\ DOMAIN acOp' = Requests /\ acOp' = [m \in Requests |-> acOp'[m]]
    BY DEF AccountInv, AccountTyped
<1>2. ~(n > acUsed)
    BY DEF AccountInv, RequestInv
<1> QED BY <1>1, <1>2 DEF Pending, Untold

\* The requests after one has ended, if what the others carry stays so.
LEMMA AccountEndKeeps ==
    ASSUME AccountInv, NEW n \in Requests, NEW r \in Request,
           acOp' = [acOp EXCEPT ![n] = r],
           \/ /\ r.kind = acOp[n].kind
              /\ r.item = acOp[n].item
              /\ r.value = acOp[n].value
           \/ r = Account!Free,
           r.stage \notin {"sent", "done"},
           acOp[n].stage # "over",
           acTab' = acTab, acUsed' = acUsed,
           \A m \in Requests : m # n /\ Pending(m) /\ acOp[m].kind = "save"
                               /\ acOp[m].item \in busy => acOp[m].item \in busy',
           \A m \in Requests : m # n /\ Pending(m) /\ RequestInv(m) => Carries(m)'
    PROVE  (\A m \in Requests : RequestInv(m)') /\ OneSave'
<1>1. /\ acOp'[n] = r /\ \A m \in Requests : m # n => acOp'[m] = acOp[m]
      /\ ~Pending(n)' /\ \A m \in Requests : m # n => (Pending(m)' <=> Pending(m))
      /\ ~(n > acUsed)
    BY EndFacts
<1>2. ASSUME NEW m \in Requests PROVE RequestInv(m)'
    <2>1. RequestInv(m)
        BY DEF AccountInv
    <2>2. CASE m = n
        <3>1. /\ r.kind = "save" => r.item \in AcForms
              /\ r.kind \in {"invite", "role", "remove"} => r.item \in Members
              /\ r.kind = "role" => r.value # 0
            BY <2>1, <2>2, AccountSets DEF RequestInv
        <3> QED BY <1>1, <2>2, <3>1 DEF RequestInv
    <2>3. CASE m # n
        <3>1. acOp'[m] = acOp[m] /\ (Pending(m)' <=> Pending(m))
            BY <1>1, <2>3
        <3>2. Pending(m) => Carries(m)'
            BY <2>1, <2>3
        <3>3. Pending(m) /\ acOp[m].kind = "save" => acOp[m].item \in busy'
            BY <2>1, <2>3 DEF RequestInv
        <3> QED BY <2>1, <3>1, <3>2, <3>3 DEF RequestInv
    <2> QED BY <2>2, <2>3
<1>3. OneSave'
    <2> SUFFICES ASSUME NEW m \in Requests, NEW k \in Requests, Pending(m)', Pending(k)',
                        acOp'[m].kind = "save", acOp'[m].item = acOp'[k].item
                 PROVE  m = k
        BY DEF OneSave
    <2>1. m # n /\ k # n
        BY <1>1
    <2>2. acOp'[m] = acOp[m] /\ acOp'[k] = acOp[k] /\ Pending(m) /\ Pending(k)
        BY <1>1, <2>1
    <2> QED BY <2>2 DEF AccountInv, OneSave
<1> QED BY <1>2, <1>3

\* A request succeeds, and the page hears of it.
LEMMA AccountSucceedKeeps ==
    ASSUME AccountInv, NEW n \in Requests, Account!Succeed(n)
    PROVE  AccountInv'
<1>1. PICK i : i = acOp[n].item
    OBVIOUS
<1>2. /\ acOp[n].stage = "done" /\ stored' = stored /\ acTab' = acTab
      /\ acUsed' = acUsed /\ doubtful' = doubtful
    BY DEF Account!Succeed
<1>3. RequestInv(n) /\ acOp[n] \in Request
    BY DEF AccountInv, RequestInv
<1>4. CASE acOp[n].kind = "invite"
    <2>1. /\ acOp' = [acOp EXCEPT ![n] =
                        IF acTab = "settings" THEN [@ EXCEPT !.stage = "refetching"]
                        ELSE Account!Free]
          /\ IF acTab = "settings" THEN Account!Invalidate("settings")
             ELSE /\ acInvalid' = acInvalid \union {"settings"}
                  /\ acData' = acData /\ acFetch' = acFetch /\ acAnswer' = acAnswer
          /\ acShown' = acShown /\ busy' = busy
        BY <1>4 DEF Account!Succeed
    <2>2. PICK r : r = IF acTab = "settings" THEN [acOp[n] EXCEPT !.stage = "refetching"]
                       ELSE Account!Free
        OBVIOUS
    <2>3. /\ r \in Request /\ r.stage \notin {"sent", "done"}
          /\ \/ r.kind = acOp[n].kind /\ r.item = acOp[n].item /\ r.value = acOp[n].value
             \/ r = Account!Free
        BY <1>3, <2>2, AccountSets DEF Request
    <2>4. acOp' = [acOp EXCEPT ![n] = r]
        BY <2>1, <2>2
    <2>5. /\ \A m \in Requests : m # n => acOp'[m] = acOp[m]
          /\ DOMAIN acOp' = Requests /\ acOp' = [m \in Requests |-> acOp'[m]]
          /\ \A j : Untold(j)' <=> (\E m \in Requests \ {n} : acOp[m].item = j
                                        /\ acOp[m].here /\ acOp[m].stage = "done")
        BY <1>2, <2>3, <2>4, EndFacts
    <2>6. ASSUME NEW m \in Requests, m # n, Pending(m), RequestInv(m)
          PROVE  Carries(m)'
        <3>1. acOp'[m] = acOp[m]
            BY <2>5, <2>6
        <3> QED BY <1>2, <2>1, <2>6, <3>1 DEF RequestInv, Carries
    <2>7. (\A m \in Requests : RequestInv(m)') /\ OneSave'
        BY <1>2, <2>1, <2>3, <2>4, <2>6, AccountEndKeeps
    <2>8. AccountTyped' /\ acData' = acData
        <3>1. /\ acData' = acData /\ acFetch' = [q \in AcPages |-> acFetch'[q]]
              /\ acAnswer' = [q \in AcPages |-> acAnswer'[q]]
            BY <2>1 DEF Account!Invalidate, AccountInv, AccountTyped
        <3>2. ASSUME NEW q \in AcPages, acFetch'[q] = "answered"
              PROVE  Account!Got(q)' = Account!ItemsOf(q)
            <4>1. acFetch'[q] = acFetch[q] /\ acAnswer'[q] = acAnswer[q]
                BY <2>1, <3>2 DEF Account!Invalidate, AccountInv, AccountTyped, AcPages
            <4> QED BY <3>2, <4>1 DEF AccountInv, AccountTyped, Account!Got
        <3> QED BY <1>2, <2>1, <2>5, <3>1, <3>2 DEF AccountInv, AccountTyped
    <2>9. ShownInv'
        <3>1. CASE acTab = "settings"
            <4>1. acTab \in acInvalid' /\ acFetch'[acTab] = "sent"
                BY <2>1, <3>1 DEF Account!Invalidate, AccountInv, AccountTyped, AcPages
            <4> QED BY <1>2, <4>1 DEF ShownInv, Shows, Account!Got
        <3>2. CASE acTab # "settings"
            <4>1. ~acOp[n].here
                BY <1>2, <1>3, <1>4, <3>2 DEF RequestInv, Pending
            <4>2. \A j : Untold(j)' <=> Untold(j)
                BY <2>5, <4>1 DEF Untold
            <4>3. acTab \in acInvalid' <=> acTab \in acInvalid
                BY <2>1, <3>2
            <4> QED BY <1>2, <2>1, <3>2, <4>2, <4>3
               DEF AccountInv, ShownInv, Shows, Account!Got
        <3> QED BY <3>1, <3>2
    <2> QED BY <2>7, <2>8, <2>9 DEF AccountInv
<1>5. CASE acOp[n].kind # "invite"
    <2>1. /\ acOp' = [acOp EXCEPT ![n] = Account!Free]
          /\ acShown' = IF acOp[n].here THEN Account!Patched(acOp[n]) ELSE acShown
          /\ busy' = IF acOp[n].here THEN busy \ {i} ELSE busy
          /\ acData' = acData /\ acFetch' = acFetch /\ acAnswer' = acAnswer
          /\ acInvalid' = acInvalid
        BY <1>1, <1>5 DEF Account!Succeed, Account!cacheVars
    <2>2. Account!Free \in Request /\ Account!Free.stage \notin {"sent", "done"}
        BY AccountSets
    <2>3. /\ \A m \in Requests : m # n => acOp'[m] = acOp[m]
          /\ DOMAIN acOp' = Requests /\ acOp' = [m \in Requests |-> acOp'[m]]
          /\ \A j : Untold(j)' <=> (\E m \in Requests \ {n} : acOp[m].item = j
                                        /\ acOp[m].here /\ acOp[m].stage = "done")
        BY <1>2, <2>1, <2>2, EndFacts
    <2>4. ASSUME acOp[n].here
          PROVE  /\ acShown' = [j \in Account!Items |-> acShown'[j]]
                 /\ i \notin doubtful => acShown'[i] = stored[i]
                 /\ \A j \in Account!Items : j # i => acShown'[j] = acShown[j]
        <3>1. acShown' = [acShown EXCEPT ![i] = IF acOp[n].kind = "role" /\ @ = 0
                                                THEN 0 ELSE acOp[n].value]
            BY <1>1, <2>1, <2>4 DEF Account!Patched
        <3>2. i \in Account!Items /\ Carries(n)
            BY <1>1, <1>2, <1>3, <2>4, AccountSets DEF RequestInv, Pending
        <3>3. acShown'[i] = IF acOp[n].kind = "role" /\ acShown[i] = 0
                            THEN 0 ELSE acOp[n].value
            BY <3>1, <3>2 DEF AccountInv, AccountTyped
        <3>4. i \notin doubtful => acShown'[i] = stored[i]
            BY <1>1, <1>2, <3>2, <3>3 DEF Carries
        <3> QED BY <3>1, <3>4 DEF AccountInv, AccountTyped
    <2>5. acShown' = [j \in Account!Items |-> acShown'[j]]
        BY <2>1, <2>4 DEF AccountInv, AccountTyped
    <2>6. ASSUME NEW m \in Requests, m # n, Pending(m), RequestInv(m)
          PROVE  Carries(m)'
        <3>1. acOp'[m] = acOp[m] /\ Carries(m) /\ acOp[m].item \in Account!Items
            BY <2>3, <2>6, AccountSets DEF RequestInv
        <3>2. CASE acOp[n].here /\ acOp[m].item = i
            <4> SUFFICES ASSUME i \notin doubtful, acOp[m].kind = "role", acShown'[i] = 0
                         PROVE  acOp[m].stage = "sent" /\ stored[i] = 0
                BY <1>2, <3>1, <3>2 DEF Carries
            <4>1. stored[i] = 0
                BY <2>4, <3>2
            <4>2. acOp[m].value # 0 /\ acOp[m].stage \in {"sent", "done"}
                BY <2>6 DEF RequestInv, Pending
            <4>3. acOp[m].stage = "done" => acOp[m].value = stored[i]
                BY <3>1, <3>2 DEF Carries
            <4> QED BY <4>1, <4>2, <4>3
        <3>3. CASE ~(acOp[n].here /\ acOp[m].item = i)
            <4>1. acShown'[acOp[m].item] = acShown[acOp[m].item]
                BY <2>1, <2>4, <3>1, <3>3
            <4> QED BY <1>2, <3>1, <4>1 DEF Carries
        <3> QED BY <3>2, <3>3
    <2>7. ASSUME NEW m \in Requests, m # n, Pending(m), acOp[m].kind = "save",
                 acOp[m].item \in busy
          PROVE  acOp[m].item \in busy'
        <3>1. acOp[n].here => acOp[m].item # i
            BY <1>1, <1>2, <2>7 DEF AccountInv, OneSave, Pending
        <3> QED BY <2>1, <2>7, <3>1
    <2>8. (\A m \in Requests : RequestInv(m)') /\ OneSave'
        BY <1>2, <2>1, <2>2, <2>6, <2>7, AccountEndKeeps
    <2>9. AccountTyped'
        BY <1>2, <2>1, <2>3, <2>5 DEF AccountInv, AccountTyped, Account!Got
    <2>10. ShownInv'
        <3> SUFFICES ASSUME acTab \in AcPages, acData[acTab] # None,
                            NEW j \in Account!ItemsOf(acTab), j \notin doubtful,
                            ~Untold(j)'
                     PROVE  Shows(j)'
            BY <1>2, <2>1 DEF ShownInv
        <3>1. CASE acOp[n].here /\ j = i
            BY <1>2, <2>1, <2>4, <3>1 DEF Shows
        <3>2. CASE ~(acOp[n].here /\ j = i)
            <4>1. ~Untold(j)
                BY <1>1, <2>3, <3>2 DEF Untold
            <4>2. Shows(j)
                BY <4>1 DEF AccountInv, ShownInv
            <4>3. acShown'[j] = acShown[j]
                BY <2>1, <2>4, <3>2, AccountSets
            <4> QED BY <1>2, <2>1, <4>2, <4>3 DEF Shows, Account!Got
        <3> QED BY <3>1, <3>2
    <2> QED BY <2>8, <2>9, <2>10 DEF AccountInv
<1> QED BY <1>4, <1>5

\* A request fails, or its answer is lost.
LEMMA AccountFailKeeps ==
    ASSUME AccountInv, NEW n \in Requests, Account!Fail(n)
    PROVE  AccountInv'
<1>1. PICK i : i = acOp[n].item
    OBVIOUS
<1>2. /\ acOp[n].stage \in {"sent", "done"} /\ acOp' = [acOp EXCEPT ![n] = Account!Free]
      /\ busy' = IF ~acOp[n].here THEN busy
                 ELSE busy \ {IF acOp[n].kind = "invite" THEN "invite" ELSE i}
      /\ doubtful' = IF acOp[n].stage = "done" THEN doubtful \union {i} ELSE doubtful
      /\ stored' = stored /\ acTab' = acTab /\ acData' = acData /\ acFetch' = acFetch
      /\ acAnswer' = acAnswer /\ acInvalid' = acInvalid /\ acShown' = acShown
      /\ acUsed' = acUsed
    BY <1>1, AccountSets DEF Account!Fail, Account!cacheVars
<1>3. Account!Free \in Request /\ Account!Free.stage \notin {"sent", "done"}
    BY AccountSets
<1>4. acOp[n].stage # "over"
    BY <1>2
<1>5. /\ \A m \in Requests : m # n => acOp'[m] = acOp[m]
      /\ DOMAIN acOp' = Requests /\ acOp' = [m \in Requests |-> acOp'[m]]
      /\ \A j : Untold(j)' <=> (\E m \in Requests \ {n} : acOp[m].item = j
                                    /\ acOp[m].here /\ acOp[m].stage = "done")
    BY <1>2, <1>3, <1>4, EndFacts
<1>6. ASSUME NEW m \in Requests, m # n, Pending(m), RequestInv(m)
      PROVE  Carries(m)'
    <2>1. acOp'[m] = acOp[m] /\ Carries(m)
        BY <1>5, <1>6 DEF RequestInv
    <2> QED BY <1>2, <2>1 DEF Carries
<1>7. ASSUME NEW m \in Requests, m # n, Pending(m), acOp[m].kind = "save",
             acOp[m].item \in busy
      PROVE  acOp[m].item \in busy'
    <2>1. acOp[n].here => acOp[m].item # i
        BY <1>1, <1>2, <1>7 DEF AccountInv, OneSave, Pending
    <2>2. acOp[m].item # "invite"
        BY <1>7 DEF AccountInv, RequestInv, AcForms
    <2> QED BY <1>2, <1>7, <2>1, <2>2
<1>8. (\A m \in Requests : RequestInv(m)') /\ OneSave'
    BY <1>2, <1>3, <1>4, <1>6, <1>7, AccountEndKeeps
<1>9. AccountTyped'
    BY <1>2, <1>5 DEF AccountInv, AccountTyped, Account!Got
<1>10. ShownInv'
    <2> SUFFICES ASSUME acTab \in AcPages, acData[acTab] # None,
                        NEW j \in Account!ItemsOf(acTab), j \notin doubtful',
                        ~Untold(j)'
                 PROVE  Shows(j)'
        BY <1>2 DEF ShownInv
    <2>1. j \notin doubtful /\ ~Untold(j)
        BY <1>1, <1>2, <1>5 DEF Untold
    <2> QED BY <1>2, <2>1 DEF AccountInv, ShownInv, Shows, Account!Got
<1> QED BY <1>8, <1>9, <1>10 DEF AccountInv

\* Every step of the pages keeps the invariant.
LEMMA AccountKeeps ==
    ASSUME AccountInv, [Account!Next]_accountVars
    PROVE  AccountInv'
<1>1. CASE Account!RefreshIdentity
    BY <1>1, AccountRefreshKeeps
<1>2. CASE UNCHANGED accountVars
    BY <1>2, AccountStutters
<1>3. CASE \E p \in {"settings", "profile", "other"} : Account!Open(p)
    BY <1>3, AccountOpenKeeps
<1>4. CASE \E p \in AcPages : Account!Answer(p) \/ Account!Arrive(p)
                              \/ Account!FetchFails(p)
    BY <1>4, AccountAnswerKeeps, AccountArriveKeeps, AccountFetchFailsKeeps
<1>5. CASE \/ \E f \in {"profile", "org"} : Account!Save(f)
           \/ \E m \in Members : Account!InviteMember(m) \/ Account!UpdateRole(m)
                                 \/ Account!RemoveMember(m)
    BY <1>5, AccountUserKeeps
<1>6. CASE \E n \in Requests : Account!Execute(n) \/ Account!Succeed(n)
                               \/ Account!Fail(n)
    BY <1>6, AccountExecuteKeeps, AccountSucceedKeeps, AccountFailKeeps
<1> QED BY <1>1, <1>2, <1>3, <1>4, <1>5, <1>6, AccountSets DEF Account!Next

\* The pages of the account show what is stored, in every behaviour of the console.
THEOREM ConsoleShowsWhatIsStored == ConsoleSpec => []ShowsWhatIsStored
<1> DEFINE IInv == part \in {"team", "person"} => AccountInv
<1>1. ConsoleInit => IInv
    BY AccountStarts DEF ConsoleInit
<1>2. IInv /\ [ConsoleNext]_consoleVars => IInv'
    <2> SUFFICES ASSUME IInv, [ConsoleNext]_consoleVars, part' \in {"team", "person"}
                 PROVE AccountInv'
        OBVIOUS
    <2>1. part' = part /\ [Account!Next]_accountVars
        BY DEF ConsoleNext, consoleVars, KeyStep, AlertStep, TesterStep,
               CatalogueStep, AccountStep, BoardStep, FrameStep
    <2> QED BY <2>1, AccountKeeps
<1>3. IInv => ShowsWhatIsStored
    <2> SUFFICES ASSUME AccountInv, acTab \in AcPages, acTab \notin acInvalid,
                        acData[acTab] # None,
                        NEW i \in Account!ItemsOf(acTab), i \notin doubtful,
                        Account!InFlight(i) = {}
                 PROVE  acShown[i] = stored[i]
        BY AccountSets DEF ShowsWhatIsStored, Account!ShowsWhatIsStored
    <2>1. ~Untold(i)
        BY AccountSets DEF Untold, Account!InFlight
    <2> QED BY <2>1 DEF AccountInv, ShownInv, Shows
<1> QED BY <1>1, <1>2, <1>3, PTL DEF ConsoleSpec

------------------------------------------------------------------------------
(* The tester *)

\* Cardinality is the same from either module.
LEMMA SameCardinality == \A T : Tester!Cardinality(T) = Cardinality(T)
BY DEF Tester!Cardinality, Cardinality

\* There are n numbers from 1 to n.
LEMMA UpToCardinality ==
    ASSUME NEW n \in Nat
    PROVE  IsFiniteSet(1..n) /\ Cardinality(1..n) = n
<1>1. 1 \in Int /\ n \in Int
    OBVIOUS
<1>2. IsFiniteSet(1..n) /\ Cardinality(1..n) = IF 1 > n THEN 0 ELSE n - 1 + 1
    BY <1>1, FS_Interval
<1> QED BY <1>2

\* The rank of an element of a set of numbers, counted from below: one element has
\* each rank.
LEMMA RankFacts ==
    ASSUME NEW n \in Nat, NEW I \in SUBSET (1..n)
    PROVE  /\ IsFiniteSet(I) /\ Cardinality(I) \in 0..n
           /\ \A i \in I : Tester!Rank(I, i) \in 1..Cardinality(I)
           /\ \A i, j \in I : i < j => Tester!Rank(I, i) < Tester!Rank(I, j)
           /\ \A k \in 1..Cardinality(I) : \E i \in I : Tester!Rank(I, i) = k
<1> DEFINE c == Cardinality(I)
           Upto(i) == {j \in I : j <= i}
<1>1. IsFiniteSet(I) /\ c \in 0..n
    <2>1. IsFiniteSet(1..n) /\ Cardinality(1..n) = n
        BY UpToCardinality
    <2>2. IsFiniteSet(I) /\ c <= n
        BY <2>1, FS_Subset
    <2>3. c \in Nat
        BY <2>2, FS_CardinalityType
    <2> QED BY <2>2, <2>3
<1>2. \A i \in I : i \in Int
    OBVIOUS
<1>3. ASSUME NEW i \in I
      PROVE /\ IsFiniteSet(Upto(i)) /\ Tester!Rank(I, i) = Cardinality(Upto(i))
            /\ Tester!Rank(I, i) \in 1..c
    <2>1. IsFiniteSet(Upto(i)) /\ Cardinality(Upto(i)) <= c
        BY <1>1, FS_Subset
    <2>2. Cardinality(Upto(i)) \in Nat
        BY <2>1, FS_CardinalityType
    <2>3. i \in Upto(i)
        BY <1>2
    <2>4. Cardinality(Upto(i)) # 0
        BY <2>1, <2>3, FS_EmptySet
    <2>5. Tester!Rank(I, i) = Cardinality(Upto(i))
        BY SameCardinality DEF Tester!Rank
    <2> QED BY <1>1, <2>1, <2>2, <2>4, <2>5
<1>4. ASSUME NEW i \in I, NEW j \in I, i < j
      PROVE Tester!Rank(I, i) < Tester!Rank(I, j)
    <2>1. Upto(i) \subseteq Upto(j)
        <3> SUFFICES ASSUME NEW h \in I, h <= i PROVE h <= j
            OBVIOUS
        <3>1. h \in Int /\ i \in Int /\ j \in Int
            BY <1>2
        <3> QED BY <1>4, <3>1
    <2>2. j \in Upto(j) /\ j \notin Upto(i)
        <3>1. i \in Int /\ j \in Int
            BY <1>2
        <3> QED BY <1>4, <3>1
    <2> HIDE DEF Upto
    <2>3. /\ IsFiniteSet(Upto(j)) /\ Tester!Rank(I, i) = Cardinality(Upto(i))
          /\ Tester!Rank(I, j) = Cardinality(Upto(j))
        BY <1>3
    <2>4. /\ Cardinality(Upto(i)) <= Cardinality(Upto(j))
          /\ Cardinality(Upto(j)) = Cardinality(Upto(i)) => Upto(j) = Upto(i)
        BY <2>1, <2>3, FS_Subset
    <2>5. Tester!Rank(I, i) \in Int /\ Tester!Rank(I, j) \in Int
        BY <1>1, <1>3
    <2>6. /\ Tester!Rank(I, i) <= Tester!Rank(I, j)
          /\ Tester!Rank(I, i) # Tester!Rank(I, j)
        BY <2>2, <2>3, <2>4
    <2> QED BY <2>5, <2>6
<1>5. \A k \in 1..c : \E i \in I : Tester!Rank(I, i) = k
    <2> HIDE DEF Upto
    <2> DEFINE rank == [i \in I |-> Tester!Rank(I, i)]
    <2>1. rank \in [I -> 1..c]
        BY <1>3
    <2>2. ASSUME NEW i \in I, NEW j \in I, rank[i] = rank[j] PROVE i = j
        <3>1. i \in Int /\ j \in Int /\ Tester!Rank(I, i) \in Int
            BY <1>1, <1>2, <1>3
        <3>2. Tester!Rank(I, i) = Tester!Rank(I, j)
            BY <2>2
        <3>3. i < j \/ j < i \/ i = j
            BY <3>1
        <3> QED BY <1>4, <3>1, <3>2, <3>3
    <2> HIDE DEF rank
    <2>3. rank \in Injection(I, 1..c)
        BY <2>1, <2>2 DEF Injection, IsInjective
    <2>4. IsFiniteSet(1..c) /\ Cardinality(1..c) = c
        BY <1>1, UpToCardinality
    <2>5. rank \in Surjection(I, 1..c)
        BY <2>3, <2>4, FS_Injection
    <2>6. \A k \in 1..c : \E i \in I : rank[i] = k
        BY <2>5 DEF Surjection
    <2> QED BY <2>6 DEF rank
<1> QED BY <1>1, <1>3, <1>4, <1>5

\* The c elements of t are those of s at the positions in I, in their order.
Picks(s, I, c, t) ==
    \E pos \in [1..c -> I] :
       /\ \A k \in 1..c : t[k] = s[pos[k]]
       /\ \A k, m \in 1..c : k < m => pos[k] < pos[m]
       /\ \A i \in I : \E k \in 1..c : pos[k] = i

\* The elements that a filter keeps stand at increasing positions of what it is given.
LEMMA FilteredFacts ==
    ASSUME NEW S, NEW s \in Seq(S), NEW I \in SUBSET (1..Len(s))
    PROVE  /\ Cardinality(I) \in 0..Len(s)
           /\ Tester!Filtered(s, I) \in Seq(S)
           /\ Len(Tester!Filtered(s, I)) = Cardinality(I)
           /\ Picks(s, I, Cardinality(I), Tester!Filtered(s, I))
<1> PICK n \in Nat : n = Len(s)
    OBVIOUS
<1> DEFINE c == Cardinality(I)
<1>1. /\ c \in 0..n
      /\ \A i \in I : Tester!Rank(I, i) \in 1..c
      /\ \A i, j \in I : i < j => Tester!Rank(I, i) < Tester!Rank(I, j)
      /\ \A k \in 1..c : \E i \in I : Tester!Rank(I, i) = k
    BY RankFacts
<1>2. PICK pos : pos = [k \in 1..c |-> CHOOSE i \in I : Tester!Rank(I, i) = k]
    OBVIOUS
<1>3. Tester!Filtered(s, I) = [k \in 1..c |-> s[pos[k]]]
    <2>1. Tester!Filtered(s, I)
            = [k \in 1..c |-> s[CHOOSE i \in I : Tester!Rank(I, i) = k]]
        BY SameCardinality DEF Tester!Filtered
    <2> QED BY <1>2, <2>1
<1>4. ASSUME NEW k \in 1..c PROVE pos[k] \in I /\ Tester!Rank(I, pos[k]) = k
    BY <1>1, <1>2
<1>5. /\ \A i \in I : i \in Int /\ Tester!Rank(I, i) \in Int
      /\ \A i, j \in I : i < j \/ j < i \/ i = j
    <2>1. \A i \in I : i \in Int
        OBVIOUS
    <2> QED BY <1>1, <2>1
<1>6. ASSUME NEW k \in 1..c, NEW m \in 1..c, k < m PROVE pos[k] < pos[m]
    <2>1. /\ pos[k] \in I /\ pos[m] \in I
          /\ Tester!Rank(I, pos[k]) = k /\ Tester!Rank(I, pos[m]) = m
        BY <1>4
    <2>2. CASE pos[m] < pos[k]
        <3>1. m < k
            BY <1>1, <2>1, <2>2
        <3> QED BY <1>1, <1>6, <3>1
    <2>3. CASE pos[m] = pos[k]
        BY <1>6, <2>1, <2>3
    <2> QED BY <1>5, <2>1, <2>2, <2>3
<1>7. ASSUME NEW i \in I PROVE \E k \in 1..c : pos[k] = i
    <2>1. PICK k \in 1..c : k = Tester!Rank(I, i)
        BY <1>1
    <2>2. pos[k] \in I /\ Tester!Rank(I, pos[k]) = k
        BY <1>4
    <2>3. CASE pos[k] < i
        <3>1. k < k
            BY <1>1, <2>1, <2>2, <2>3
        <3> QED BY <1>1, <3>1
    <2>4. CASE i < pos[k]
        <3>1. k < k
            BY <1>1, <2>1, <2>2, <2>4
        <3> QED BY <1>1, <3>1
    <2> QED BY <1>5, <2>2, <2>3, <2>4
<1>8. pos \in [1..c -> I]
    BY <1>2, <1>4
<1>9. ASSUME NEW k \in 1..c PROVE s[pos[k]] \in S
    <2>1. pos[k] \in 1..Len(s)
        BY <1>8
    <2> QED BY <2>1
<1>10. Tester!Filtered(s, I) \in Seq(S) /\ Len(Tester!Filtered(s, I)) = c
    <2>1. c \in Nat
        BY <1>1
    <2>2. Tester!Filtered(s, I) \in [1..c -> S]
        BY <1>3, <1>9
    <2>3. Tester!Filtered(s, I) \in Seq(S)
        BY <2>1, <2>2
    <2>4. DOMAIN Tester!Filtered(s, I) = 1..Len(Tester!Filtered(s, I))
          /\ Len(Tester!Filtered(s, I)) \in Nat
        BY <2>3
    <2> QED BY <2>1, <2>2, <2>3, <2>4
<1>11. \A k \in 1..c : Tester!Filtered(s, I)[k] = s[pos[k]]
    BY <1>3
<1>12. /\ \A k, m \in 1..c : k < m => pos[k] < pos[m]
       /\ \A i \in I : \E k \in 1..c : pos[k] = i
    BY <1>6, <1>7
<1> QED
    <2>1. \E f \in [1..c -> I] :
             /\ \A k \in 1..c : Tester!Filtered(s, I)[k] = s[f[k]]
             /\ \A k, m \in 1..c : k < m => f[k] < f[m]
             /\ \A i \in I : \E k \in 1..c : f[k] = i
        BY <1>8, <1>11, <1>12
    <2>2. c \in 0..Len(s)
        BY <1>1
    <2>3. Picks(s, I, c, Tester!Filtered(s, I))
        BY <2>1 DEF Picks
    <2> QED BY <1>10, <2>2, <2>3, Zenon

\* The ids of the rows differ, and the next one will differ from them; what an older
\* version left is as it was, or gone.
RowInv ==
    /\ counter \in Nat
    /\ rows \in Seq(Nat)
    /\ \A i \in 1..Len(rows) : rows[i] < counter
    /\ \A i, j \in 1..Len(rows) : rows[i] = rows[j] => i = j
    /\ local \in Tester!Legacy \union {None}

\* Filtering keeps ids different, and below what they were below.
LEMMA FilteredIds ==
    ASSUME NEW s \in Seq(Nat), NEW I \in SUBSET (1..Len(s)),
           NEW t, t = Tester!Filtered(s, I)
    PROVE  /\ t \in Seq(Nat) /\ Len(t) <= Len(s)
           /\ (\A i, j \in I : s[i] = s[j] => i = j)
                 => \A i, j \in 1..Len(t) : t[i] = t[j] => i = j
           /\ \A n \in Nat : (\A i \in I : s[i] < n) => \A i \in 1..Len(t) : t[i] < n
<1> DEFINE c == Cardinality(I)
<1>1. /\ c \in 0..Len(s) /\ t \in Seq(Nat) /\ Len(t) = c
      /\ Picks(s, I, c, t)
    BY FilteredFacts
<1>2. PICK pos \in [1..c -> I] :
            /\ \A k \in 1..c : t[k] = s[pos[k]]
            /\ \A k, m \in 1..c : k < m => pos[k] < pos[m]
    BY <1>1 DEF Picks
<1> HIDE DEF c
<1>3. ASSUME \A i, j \in I : s[i] = s[j] => i = j,
             NEW i \in 1..c, NEW j \in 1..c, t[i] = t[j]
      PROVE  i = j
    <2>1. pos[i] \in I /\ pos[j] \in I
        BY <1>2
    <2>2. pos[i] = pos[j]
        BY <1>2, <1>3, <2>1
    <2>3. pos[i] \in Int
        <3>1. pos[i] \in 1..Len(s)
            BY <2>1
        <3> QED BY <3>1
    <2>4. ~(i < j) /\ ~(j < i)
        BY <1>2, <2>2, <2>3
    <2> QED BY <1>1, <2>4
<1>4. ASSUME NEW n \in Nat, \A h \in I : s[h] < n, NEW i \in 1..c PROVE t[i] < n
    BY <1>2, <1>4
<1>5. Len(t) = c /\ t \in Seq(Nat) /\ Len(t) <= Len(s)
    <2>1. Len(s) \in Nat
        OBVIOUS
    <2> QED BY <1>1, <2>1
<1>6. (\A i, j \in I : s[i] = s[j] => i = j)
         => \A i, j \in 1..Len(t) : t[i] = t[j] => i = j
    BY <1>3, <1>5
<1>7. \A n \in Nat : (\A i \in I : s[i] < n) => \A i \in 1..Len(t) : t[i] < n
    BY <1>4, <1>5
<1> QED BY <1>5, <1>6, <1>7

\* The rows of an older version, without the secret ones: at most two, and different.
LEMMA LegacyRows ==
    ASSUME NEW l \in Tester!Legacy
    PROVE  /\ Tester!Sanitized(l.rows) \in Seq(Nat)
           /\ Len(Tester!Sanitized(l.rows)) <= 2
           /\ \A i, j \in 1..Len(Tester!Sanitized(l.rows)) :
                 Tester!Sanitized(l.rows)[i] = Tester!Sanitized(l.rows)[j] => i = j
<1> PICK rs : rs = l.rows
    OBVIOUS
<1> DEFINE ids == [i \in DOMAIN rs |-> rs[i].id]
           I == {i \in DOMAIN rs : ~rs[i].secret}
<1>1. \/ rs = <<[id |-> 0, secret |-> FALSE], [id |-> 1, secret |-> FALSE]>>
      \/ rs = <<[id |-> 2, secret |-> FALSE], [id |-> 1, secret |-> TRUE]>>
      \/ rs = <<[id |-> 0, secret |-> TRUE]>>
    BY DEF Tester!Legacy
<1>2. /\ ids \in Seq(Nat) /\ Len(ids) <= 2 /\ I \in SUBSET (1..Len(ids))
      /\ \A i, j \in I : ids[i] = ids[j] => i = j
    <2>1. CASE rs = <<[id |-> 0, secret |-> FALSE], [id |-> 1, secret |-> FALSE]>>
        <3>1. /\ DOMAIN rs = 1..2 /\ rs[1].id = 0 /\ rs[2].id = 1
            BY <2>1
        <3>2. ids \in Seq(Nat) /\ Len(ids) = 2 /\ ids[1] = 0 /\ ids[2] = 1
            <4>1. ids = <<0, 1>>
                BY <3>1
            <4> QED BY <4>1
        <3> QED BY <3>1, <3>2
    <2>2. CASE rs = <<[id |-> 2, secret |-> FALSE], [id |-> 1, secret |-> TRUE]>>
        <3>1. /\ DOMAIN rs = 1..2 /\ rs[1].id = 2 /\ rs[2].id = 1
            BY <2>2
        <3>2. ids \in Seq(Nat) /\ Len(ids) = 2 /\ ids[1] = 2 /\ ids[2] = 1
            <4>1. ids = <<2, 1>>
                BY <3>1
            <4> QED BY <4>1
        <3> QED BY <3>1, <3>2
    <2>3. CASE rs = <<[id |-> 0, secret |-> TRUE]>>
        <3>1. /\ DOMAIN rs = 1..1 /\ rs[1].id = 0
            BY <2>3
        <3>2. ids \in Seq(Nat) /\ Len(ids) = 1 /\ ids[1] = 0
            <4>1. ids = <<0>>
                BY <3>1
            <4> QED BY <4>1
        <3> QED BY <3>1, <3>2
    <2> QED BY <1>1, <2>1, <2>2, <2>3
<1> HIDE DEF ids, I
<1> PICK t : t = Tester!Filtered(ids, I)
    OBVIOUS
<1>3. /\ t \in Seq(Nat) /\ Len(t) <= Len(ids)
      /\ \A i, j \in 1..Len(t) : t[i] = t[j] => i = j
    <2>1. ids \in Seq(Nat) /\ I \in SUBSET (1..Len(ids)) /\ t = Tester!Filtered(ids, I)
        BY <1>2
    <2>2. /\ t \in Seq(Nat) /\ Len(t) <= Len(ids)
          /\ (\A i, j \in I : ids[i] = ids[j] => i = j)
                => \A i, j \in 1..Len(t) : t[i] = t[j] => i = j
        BY <2>1, FilteredIds
    <2> QED BY <1>2, <2>2
<1>4. Tester!Sanitized(l.rows) = t
    BY DEF Tester!Sanitized, ids, I
<1>5. Len(t) \in Nat /\ Len(ids) \in Nat
    BY <1>2, <1>3
<1> QED BY <1>2, <1>3, <1>4, <1>5

\* One or two numbers have a largest.
LEMMA LargestId ==
    ASSUME NEW rs \in Seq(Nat), Len(rs) = 1 \/ Len(rs) = 2
    PROVE  \E m \in Nat :
              /\ m = CHOOSE k \in Tester!ToSet(rs) : \A i \in Tester!ToSet(rs) : i <= k
              /\ \A i \in 1..Len(rs) : rs[i] \in Nat /\ rs[i] <= m
<1> PICK a : a = rs[1]
    OBVIOUS
<1> PICK b : b = rs[Len(rs)]
    OBVIOUS
<1>1. a \in Nat /\ b \in Nat
    BY ElementOfSeq
<1>2. \A i \in 1..Len(rs) : rs[i] = a \/ rs[i] = b
    OBVIOUS
<1>3. DOMAIN rs = 1..Len(rs)
    OBVIOUS
<1>4. Tester!ToSet(rs) = {a, b}
    BY <1>2, <1>3 DEF Tester!ToSet
<1> PICK m : m = IF a <= b THEN b ELSE a
    OBVIOUS
<1>5. m \in {a, b} /\ m \in Nat /\ \A i \in {a, b} : i <= m
    BY <1>1
<1>6. ASSUME NEW k \in {a, b}, \A i \in {a, b} : i <= k PROVE k = m
    BY <1>1, <1>5, <1>6
<1>7. m = CHOOSE k \in {a, b} : \A i \in {a, b} : i <= k
    BY <1>5, <1>6
<1> QED BY <1>1, <1>2, <1>4, <1>5, <1>7

\* Rows that are taken over are followed by a new id (headerIdCounter in the restore
\* effect).
LEMMA RestoredRows ==
    ASSUME NEW rs \in Seq(Nat), Len(rs) <= 2,
           \A i, j \in 1..Len(rs) : rs[i] = rs[j] => i = j,
           Tester!RestoreRows(rs), local' \in Tester!Legacy \union {None}
    PROVE  RowInv'
<1>1. CASE rs = << >>
    <2>1. rows' = <<0>> /\ counter' = 1
        BY <1>1 DEF Tester!RestoreRows
    <2> QED BY <2>1 DEF RowInv
<1>2. CASE rs # << >>
    <2>1. Len(rs) = 1 \/ Len(rs) = 2
        <3>1. PICK n \in Nat \ {0} : n = Len(rs) /\ n <= 2
            BY <1>2, EmptySeq
        <3>2. n = 1 \/ n = 2
            BY <3>1
        <3> QED BY <3>1, <3>2
    <2>2. PICK m \in Nat :
              /\ m = CHOOSE k \in Tester!ToSet(rs) : \A i \in Tester!ToSet(rs) : i <= k
              /\ \A i \in 1..Len(rs) : rs[i] \in Nat /\ rs[i] <= m
        BY <2>1, LargestId
    <2>3. rows' = rs /\ counter' = 1 + m
        BY <1>2, <2>2 DEF Tester!RestoreRows
    <2>4. ASSUME NEW i \in 1..Len(rs) PROVE rs[i] < 1 + m
        <3>1. rs[i] \in Nat /\ rs[i] <= m
            BY <2>2
        <3> QED BY <3>1
    <2> QED BY <2>2, <2>3, <2>4 DEF RowInv
<1> QED BY <1>1, <1>2

\* Every step of the tester keeps the ids different.
LEMMA RowsKeep == RowInv /\ [Tester!Next]_testerVars => RowInv'
<1> SUFFICES ASSUME RowInv, [Tester!Next]_testerVars PROVE RowInv'
    OBVIOUS
<1>1. CASE UNCHANGED <<rows, counter>> /\ local' \in {local, None}
    BY <1>1 DEF RowInv
<1>2. ASSUME NEW link, Tester!Mount(link) PROVE RowInv'
    <2>1. CASE session # None \/ local = None
        <3>1. Tester!RestoreRows(<< >>) /\ UNCHANGED local
            BY <1>2, <2>1 DEF Tester!Mount
        <3>2. local' \in Tester!Legacy \union {None}
            BY <3>1 DEF RowInv
        <3>3. rows' = <<0>> /\ counter' = 1
            BY <3>1 DEF Tester!RestoreRows
        <3> QED BY <3>2, <3>3 DEF RowInv
    <2>2. CASE session = None /\ local # None
        <3>1. Tester!RestoreRows(Tester!Sanitized(local.rows)) /\ local' = None
            BY <1>2, <2>2 DEF Tester!Mount
        <3>2. PICK l \in Tester!Legacy : l = local
            BY <2>2 DEF RowInv
        <3>3. PICK t : t = Tester!Sanitized(l.rows)
            OBVIOUS
        <3>4. /\ t \in Seq(Nat) /\ Len(t) <= 2
              /\ \A i, j \in 1..Len(t) : t[i] = t[j] => i = j
            BY <3>3, LegacyRows
        <3>5. Tester!RestoreRows(t)
            BY <3>1, <3>2, <3>3
        <3> QED BY <3>1, <3>4, <3>5, RestoredRows
    <2> QED BY <2>1, <2>2
<1>3. CASE Tester!AddHeaderRow
    <2>1. rows' = Append(rows, counter) /\ counter' = counter + 1 /\ local' = local
        BY <1>3 DEF Tester!AddHeaderRow, Tester!storageVars
    <2>2. /\ rows' \in Seq(Nat) /\ Len(rows') = Len(rows) + 1 /\ Len(rows) \in Nat
          /\ \A i \in 1..Len(rows) : rows'[i] = rows[i] /\ rows[i] \in Nat
          /\ rows'[Len(rows) + 1] = counter
        BY <2>1 DEF RowInv
    <2>3. counter \in Nat /\ counter' \in Nat /\ counter < counter'
        BY <2>1 DEF RowInv
    <2>4. ASSUME NEW i \in 1..Len(rows')
          PROVE  rows'[i] < counter'
        BY <2>1, <2>2, <2>3, <2>4 DEF RowInv
    <2>5. ASSUME NEW i \in 1..Len(rows'), NEW j \in 1..Len(rows'), rows'[i] = rows'[j]
          PROVE  i = j
        <3>1. \A h \in 1..Len(rows) : rows'[h] \in Nat /\ rows'[h] < counter
            BY <2>2 DEF RowInv
        <3>2. CASE i = Len(rows) + 1 \/ j = Len(rows) + 1
            <4>1. rows'[i] = counter /\ rows'[j] = counter
                BY <2>2, <2>5, <3>2
            <4>2. i \notin 1..Len(rows) /\ j \notin 1..Len(rows)
                BY <2>3, <3>1, <4>1
            <4> QED BY <2>2, <4>2
        <3>3. CASE i \in 1..Len(rows) /\ j \in 1..Len(rows)
            BY <2>2, <2>5, <3>3 DEF RowInv
        <3> QED BY <2>2, <3>2, <3>3
    <2> QED BY <2>1, <2>2, <2>3, <2>4, <2>5 DEF RowInv
<1>4. ASSUME NEW id, Tester!RemoveHeaderRow(id) PROVE RowInv'
    <2> DEFINE rest == {i \in DOMAIN rows : rows[i] # id}
    <2>1. local' = local
        BY <1>4 DEF Tester!RemoveHeaderRow, Tester!storageVars
    <2>2. CASE rest = {}
        <3>1. rows' = <<counter>> /\ counter' = counter + 1
            BY <1>4, <2>2 DEF Tester!RemoveHeaderRow
        <3> QED BY <2>1, <3>1 DEF RowInv
    <2>3. CASE rest # {}
        <3>1. rows' = Tester!Filtered(rows, rest) /\ counter' = counter
            BY <1>4, <2>3 DEF Tester!RemoveHeaderRow
        <3>2. rest \in SUBSET (1..Len(rows)) /\ rows \in Seq(Nat)
            BY DEF RowInv
        <3>3. /\ \A i, j \in rest : rows[i] = rows[j] => i = j
              /\ \A i \in rest : rows[i] < counter
            BY <3>2 DEF RowInv
        <3> HIDE DEF rest
        <3>4. /\ rows' \in Seq(Nat)
              /\ \A i, j \in 1..Len(rows') : rows'[i] = rows'[j] => i = j
              /\ \A i \in 1..Len(rows') : rows'[i] < counter
            <4>1. PICK t : t = Tester!Filtered(rows, rest)
                OBVIOUS
            <4>2. rows \in Seq(Nat) /\ rest \in SUBSET (1..Len(rows))
                BY <3>2
            <4>3. /\ t \in Seq(Nat)
                  /\ (\A i, j \in rest : rows[i] = rows[j] => i = j)
                        => \A i, j \in 1..Len(t) : t[i] = t[j] => i = j
                  /\ \A n \in Nat : (\A i \in rest : rows[i] < n)
                                    => \A i \in 1..Len(t) : t[i] < n
                BY <4>1, <4>2, FilteredIds
            <4>4. counter \in Nat
                BY DEF RowInv
            <4> QED BY <3>1, <3>3, <4>1, <4>3, <4>4
        <3> QED BY <2>1, <3>1, <3>4 DEF RowInv
    <2> QED BY <2>2, <2>3
<1>5. ASSUME NEW f, Tester!SetForm(f) PROVE RowInv'
    BY <1>1, <1>5 DEF Tester!SetForm, Tester!rowVars, Tester!storageVars
<1>6. CASE \/ \E p \in Tester!Protocols : Tester!ChooseProtocol(p)
           \/ \E m \in Tester!Methods : Tester!ChooseMethod(m)
           \/ \E u \in Urls \union {Tester!Blank} : Tester!TypeUrl(u)
           \/ \E c \in Tester!ToSet(Collections) : \E u \in Urls, m \in Tester!Methods :
                 Tester!SelectEndpoint(c, u, m)
           \/ \E i \in 1..HistorySize : Tester!Recall(i)
    BY <1>5, <1>6 DEF Tester!ChooseProtocol, Tester!ChooseMethod, Tester!TypeUrl,
                      Tester!SelectEndpoint, Tester!Recall
<1>7. CASE \/ \E c \in Tester!ToSet(Collections) : Tester!ToggleCollection(c)
           \/ Tester!SaveState \/ Tester!Send
           \/ \E n \in 1..MaxSends : Tester!Respond(n)
           \/ UNCHANGED testerVars
    BY <1>1, <1>7 DEF Tester!ToggleCollection, Tester!SaveState, Tester!Send,
       Tester!Respond, Tester!rowVars, Tester!storageVars, testerVars
<1> QED
    BY <1>2, <1>3, <1>4, <1>6, <1>7 DEF Tester!Next, Tester!Open

\* No two header rows have one id, in every behaviour of the console.
THEOREM ConsoleRowIdsUnique == ConsoleSpec => []RowIdsUnique
<1> DEFINE IInv == part = "tester" => RowInv
<1>1. ConsoleInit => IInv
    <2> SUFFICES ASSUME Tester!Init PROVE RowInv
        BY DEF ConsoleInit
    <2>1. rows = <<0>> /\ counter = 1 /\ local \in Tester!Legacy \union {None}
        BY DEF Tester!Init
    <2> QED BY <2>1 DEF RowInv
<1>2. IInv /\ [ConsoleNext]_consoleVars => IInv'
    <2> SUFFICES ASSUME IInv, [ConsoleNext]_consoleVars, part' = "tester"
                 PROVE RowInv'
        OBVIOUS
    <2>1. part' = part /\ [Tester!Next]_testerVars
        BY DEF ConsoleNext, consoleVars, KeyStep, AlertStep, TesterStep,
               CatalogueStep, AccountStep, BoardStep, FrameStep
    <2> QED BY <2>1, RowsKeep
<1>3. IInv => RowIdsUnique
    BY DEF RowIdsUnique, Tester!RowIdsUnique, Tester!IsInjective, RowInv
<1> QED BY <1>1, <1>2, <1>3, PTL DEF ConsoleSpec

\* The requests that no later one of the same url and method follows.
LastOnes(s) ==
    {i \in 1..Len(s) : ~\E j \in (i + 1)..Len(s) : Tester!SamePair(s[i], s[j])}

\* The entries of h are such requests of s, pos[k] that of the k-th, the newest first,
\* and the newest of them all, unless h is full.
Places(s, h, pos) ==
    /\ \A k \in 1..Len(h) : h[k] = s[pos[k]]
    /\ \A k, m \in 1..Len(h) : k < m => pos[m] < pos[k]
    /\ \A j \in LastOnes(s) :
          \/ \E k \in 1..Len(h) : pos[k] = j
          \/ Len(h) = HistorySize /\ \A k \in 1..Len(h) : j < pos[k]

Recent(s, h) ==
    /\ Len(h) <= HistorySize
    /\ \E pos \in [1..Len(h) -> LastOnes(s)] : Places(s, h, pos)

\* Only the newest request can be running or answered.
HistoryInv ==
    /\ \E S : sent \in Seq(S) /\ history \in Seq(S)
    /\ Recent(sent, history)
    /\ flight \subseteq {Len(sent)}
    /\ ~sending => flight = {}
    /\ response # 0 => response = Len(sent)

\* Of the entries of a history at most one has a given url and method.
LEMMA OthersCardinality ==
    ASSUME NEW S, NEW s \in Seq(S), NEW h \in Seq(S), NEW f, NEW pos, NEW I
    PROVE  (/\ pos \in [1..Len(h) -> LastOnes(s)] /\ Places(s, h, pos)
            /\ I \in SUBSET (1..Len(h))
            /\ \A i \in 1..Len(h) : i \in I <=> ~Tester!SamePair(h[i], f))
           => Cardinality(I) \in {Len(h) - 1, Len(h)}
<1> SUFFICES ASSUME
            pos \in [1..Len(h) -> LastOnes(s)], Places(s, h, pos),
            I \in SUBSET (1..Len(h)),
            \A i \in 1..Len(h) : i \in I <=> ~Tester!SamePair(h[i], f)
      PROVE Cardinality(I) \in {Len(h) - 1, Len(h)}
    OBVIOUS
<1> PICK m \in Nat : m = Len(h)
    OBVIOUS
<1>1. IsFiniteSet(1..m) /\ Cardinality(1..m) = m
    BY UpToCardinality
<1>2. ASSUME NEW i \in 1..m, NEW j \in 1..m, i < j,
             Tester!SamePair(h[i], f), Tester!SamePair(h[j], f)
      PROVE FALSE
    <2>1. h[i] = s[pos[i]] /\ h[j] = s[pos[j]] /\ pos[j] < pos[i]
        BY <1>2 DEF Places
    <2>2. pos[i] \in 1..Len(s) /\ pos[j] \in LastOnes(s) /\ Len(s) \in Nat
        BY DEF LastOnes
    <2>3. pos[i] \in (pos[j] + 1)..Len(s)
        BY <2>1, <2>2 DEF LastOnes
    <2>4. Tester!SamePair(s[pos[j]], s[pos[i]])
        BY <1>2, <2>1 DEF Tester!SamePair
    <2> QED BY <2>2, <2>3, <2>4 DEF LastOnes
<1>3. I \in SUBSET (1..m)
    OBVIOUS
<1>4. CASE I = 1..m
    BY <1>1, <1>3, <1>4
<1>5. CASE I # 1..m
    <2>1. PICK x \in 1..m : Tester!SamePair(h[x], f)
        BY <1>5
    <2>2. ASSUME NEW i \in 1..m, i # x PROVE i \in I
        <3>1. i < x \/ x < i
            BY <2>2
        <3> QED BY <1>2, <2>1, <3>1
    <2>3. I = (1..m) \ {x}
        BY <1>3, <2>1, <2>2
    <2>4. Cardinality((1..m) \ {x}) = m - 1
        BY <1>1, FS_RemoveElement
    <2>5. Cardinality(I) = m - 1
        BY <2>3, <2>4
    <2>6. m - 1 # m /\ m = Len(h)
        OBVIOUS
    <2> QED BY <1>3, <2>5, <2>6
<1> QED BY <1>4, <1>5

\* A sequence with one element more has the last ones that are not of its pair, and
\* the new one.
LEMMA LastOnesAppend ==
    ASSUME NEW S, NEW s \in Seq(S), NEW f \in S
    PROVE  /\ Append(s, f) \in Seq(S) /\ Len(Append(s, f)) = Len(s) + 1
           /\ \A i \in 1..Len(s) : Append(s, f)[i] = s[i]
           /\ Append(s, f)[Len(s) + 1] = f
           /\ Len(s) + 1 \in LastOnes(Append(s, f))
           /\ \A j \in LastOnes(s) : ~Tester!SamePair(s[j], f)
                                     => j \in LastOnes(Append(s, f))
           /\ \A j \in LastOnes(Append(s, f)) :
                 j # Len(s) + 1 => j \in LastOnes(s) /\ ~Tester!SamePair(s[j], f)
<1> PICK n \in Nat : n = Len(s)
    OBVIOUS
<1> PICK t : t = Append(s, f)
    OBVIOUS
<1>1. /\ t \in Seq(S) /\ Len(t) = n + 1 /\ t[n + 1] = f
      /\ \A i \in 1..n : t[i] = s[i]
    OBVIOUS
<1>2. n + 1 \in LastOnes(t)
    BY <1>1 DEF LastOnes
<1>3. ASSUME NEW j \in LastOnes(s), ~Tester!SamePair(s[j], f)
      PROVE  j \in LastOnes(t)
    <2>1. j \in 1..n
        BY DEF LastOnes
    <2>2. ASSUME NEW i \in (j + 1)..(n + 1) PROVE ~Tester!SamePair(t[j], t[i])
        <3>1. CASE i = n + 1
            BY <1>1, <1>3, <2>1, <3>1
        <3>2. CASE i # n + 1
            <4>1. i \in (j + 1)..n /\ i \in 1..n
                BY <2>1, <3>2
            <4> QED BY <1>1, <2>1, <4>1 DEF LastOnes
        <3> QED BY <3>1, <3>2
    <2> QED BY <1>1, <2>1, <2>2 DEF LastOnes
<1>4. ASSUME NEW j \in LastOnes(t), j # n + 1
      PROVE  j \in LastOnes(s) /\ ~Tester!SamePair(s[j], f)
    <2>1. j \in 1..n
        BY <1>1, <1>4 DEF LastOnes
    <2>2. \A i \in (j + 1)..(n + 1) : ~Tester!SamePair(t[j], t[i])
        BY <1>1 DEF LastOnes
    <2>3. ASSUME NEW i \in (j + 1)..n PROVE ~Tester!SamePair(s[j], s[i])
        <3>1. i \in (j + 1)..(n + 1) /\ i \in 1..n
            BY <2>1
        <3> QED BY <1>1, <2>1, <2>2, <3>1
    <2>4. n + 1 \in (j + 1)..(n + 1)
        BY <2>1
    <2> QED BY <1>1, <2>1, <2>2, <2>3, <2>4 DEF LastOnes
<1> QED BY <1>1, <1>2, <1>3, <1>4

\* A sequence with an element in front, cut off after l elements.
LEMMA FrontFacts ==
    ASSUME NEW S, NEW f \in S, NEW others \in Seq(S), NEW l \in 1..(Len(others) + 1)
    PROVE  /\ SubSeq(<<f>> \o others, 1, l) \in Seq(S)
           /\ Len(SubSeq(<<f>> \o others, 1, l)) = l
           /\ SubSeq(<<f>> \o others, 1, l)[1] = f
           /\ \A k \in 1..Len(others) :
                 k + 1 <= l => SubSeq(<<f>> \o others, 1, l)[k + 1] = others[k]
<1> PICK c \in Nat : c = Len(others)
    OBVIOUS
<1> PICK v : v = <<f>> \o others
    OBVIOUS
<1>1. <<f>> \in Seq(S) /\ Len(<<f>>) = 1 /\ <<f>>[1] = f
    OBVIOUS
<1>2. /\ v \in Seq(S) /\ Len(v) = 1 + c
      /\ \A i \in 1..(1 + c) : v[i] = IF i <= 1 THEN <<f>>[i] ELSE others[i - 1]
    BY <1>1, ConcatProperties
<1>3. v[1] = f
    <2>1. 1 \in 1..(1 + c) /\ 1 <= 1
        OBVIOUS
    <2> QED BY <1>1, <1>2, <2>1
<1>4. ASSUME NEW k \in 1..c PROVE v[k + 1] = others[k]
    <2>1. k + 1 \in 1..(1 + c) /\ ~(k + 1 <= 1) /\ (k + 1) - 1 = k
        OBVIOUS
    <2> QED BY <1>2, <2>1
<1> PICK t : t = SubSeq(v, 1, l)
    OBVIOUS
<1>5. /\ t \in Seq(S) /\ Len(t) = l
      /\ \A i \in 1..l : t[i] = v[i]
    <2>1. v \in Seq(S) /\ Len(v) = 1 + c /\ l \in 1..(c + 1)
        BY <1>2
    <2> QED BY <2>1
<1>6. \A k \in 1..c : k + 1 <= l => k + 1 \in 1..l
    OBVIOUS
<1>7. 1 \in 1..l
    OBVIOUS
<1> QED BY <1>3, <1>4, <1>5, <1>6, <1>7

\* h becomes t with a request f more: f, and in their order the entries q that are
\* not of its pair, as many as there is room for.
Moved(s, h, f, t, pos, c, q, l) ==
    /\ pos \in [1..Len(h) -> LastOnes(s)] /\ Places(s, h, pos)
    /\ Len(h) <= HistorySize
    /\ c \in Nat /\ c \in {Len(h) - 1, Len(h)}
    /\ q \in [1..c -> 1..Len(h)]
    /\ \A k, j \in 1..c : k < j => q[k] < q[j]
    /\ \A k \in 1..c : ~Tester!SamePair(h[q[k]], f)
    /\ \A i \in 1..Len(h) : ~Tester!SamePair(h[i], f) => \E k \in 1..c : q[k] = i
    /\ l \in 1..(c + 1) /\ l = IF c < HistorySize THEN c + 1 ELSE HistorySize
    /\ Len(t) = l /\ t[1] = f
    /\ \A k \in 1..c : k + 1 <= l => t[k + 1] = h[q[k]]

\* Such a history stays recent.
LEMMA HistoryMoves ==
    ASSUME NEW S, NEW s \in Seq(S), NEW h \in Seq(S), NEW f \in S, NEW t \in Seq(S),
           NEW pos, NEW c, NEW q, NEW l
    PROVE  Moved(s, h, f, t, pos, c, q, l) => Recent(Append(s, f), t)
<1> PICK n \in Nat : n = Len(s)
    OBVIOUS
<1> PICK m \in Nat : m = Len(h)
    OBVIOUS
<1> DEFINE u == Append(s, f)
<1>8. /\ u \in Seq(S) /\ Len(u) = n + 1 /\ u[n + 1] = f
      /\ \A i \in 1..n : u[i] = s[i]
      /\ n + 1 \in LastOnes(u)
      /\ \A j \in LastOnes(s) : ~Tester!SamePair(s[j], f) => j \in LastOnes(u)
      /\ \A j \in LastOnes(u) : j # n + 1 => j \in LastOnes(s) /\ ~Tester!SamePair(s[j], f)
    BY LastOnesAppend
<1> HIDE DEF u
<1>3. \A k, j \in Int : 1 <= k /\ k + 1 <= j
                        => k + 1 \in 1..j /\ k + 1 # 1 /\ (k + 1) - 1 = k
    OBVIOUS
<1> SUFFICES ASSUME
            pos \in [1..Len(h) -> LastOnes(s)], Places(s, h, pos),
            Len(h) <= HistorySize,
            c \in Nat, c \in {Len(h) - 1, Len(h)},
            q \in [1..c -> 1..Len(h)],
            \A k, j \in 1..c : k < j => q[k] < q[j],
            \A k \in 1..c : ~Tester!SamePair(h[q[k]], f),
            \A i \in 1..Len(h) : ~Tester!SamePair(h[i], f) => \E k \in 1..c : q[k] = i,
            l \in 1..(c + 1), l = IF c < HistorySize THEN c + 1 ELSE HistorySize,
            Len(t) = l, t[1] = f,
            \A k \in 1..c : k + 1 <= l => t[k + 1] = h[q[k]]
      PROVE Recent(u, t)
    BY DEF u, Moved
<1>2. c \in {m - 1, m} /\ c \in Nat
    OBVIOUS
<1>5. /\ q \in [1..c -> 1..m]
      /\ \A k, j \in 1..c : k < j => q[k] < q[j]
      /\ \A k \in 1..c : ~Tester!SamePair(h[q[k]], f)
      /\ \A i \in 1..m : ~Tester!SamePair(h[i], f) => \E k \in 1..c : q[k] = i
    OBVIOUS
<1>6. HistorySize \in Nat \ {0} /\ m <= HistorySize
      /\ l = (IF c < HistorySize THEN c + 1 ELSE HistorySize) /\ l \in Nat
    BY ConsoleAssumption
<1>7. /\ Len(t) = l /\ t[1] = f
      /\ \A k \in 1..c : k + 1 <= l => t[k + 1] = h[q[k]]
    OBVIOUS
<1>9. /\ \A k \in 1..m : h[k] = s[pos[k]]
      /\ \A k, j \in 1..m : k < j => pos[j] < pos[k]
      /\ \A j \in LastOnes(s) : \/ \E k \in 1..m : pos[k] = j
                                \/ m = HistorySize /\ \A k \in 1..m : j < pos[k]
    BY DEF Places
<1>10. LastOnes(s) \subseteq 1..n
    BY DEF LastOnes
<1>11. PICK new : new = [k \in 1..l |-> IF k = 1 THEN n + 1 ELSE pos[q[k - 1]]]
    OBVIOUS
<1>12. ASSUME NEW k \in 1..c, k + 1 <= l
       PROVE  /\ k + 1 \in 1..l /\ new[k + 1] = pos[q[k]] /\ q[k] \in 1..m
              /\ pos[q[k]] \in LastOnes(s) /\ pos[q[k]] \in 1..n
              /\ ~Tester!SamePair(s[pos[q[k]]], f)
    <2>1. q[k] \in 1..m /\ ~Tester!SamePair(h[q[k]], f)
        BY <1>5
    <2>2. k + 1 \in 1..l /\ k + 1 # 1 /\ (k + 1) - 1 = k
        <3>1. k \in Int /\ 1 <= k /\ k + 1 <= l /\ l \in Int
            BY <1>2, <1>6, <1>12
        <3> QED BY <1>3, <3>1
    <2>3. pos[q[k]] \in LastOnes(s) /\ h[q[k]] = s[pos[q[k]]]
        BY <1>9, <2>1
    <2> QED BY <1>10, <1>11, <2>1, <2>2, <2>3
<1>13. new[1] = n + 1 /\ 1 \in 1..l
    BY <1>11
<1>14. \A k \in 1..l : k = 1 \/ \E r \in 1..c : k = r + 1 /\ r + 1 <= l
    <2> TAKE k \in 1..l
    <2>1. CASE k # 1
        <3>1. k - 1 \in 1..c /\ k = (k - 1) + 1 /\ (k - 1) + 1 <= l
            BY <2>1
        <3> QED BY <3>1
    <2> QED BY <2>1
<1>15. ASSUME NEW k \in 1..l PROVE new[k] \in LastOnes(u) /\ t[k] = u[new[k]]
    <2>1. CASE k = 1
        BY <1>7, <1>8, <1>13, <2>1
    <2>2. ASSUME NEW r \in 1..c, k = r + 1, r + 1 <= l
          PROVE  new[k] \in LastOnes(u) /\ t[k] = u[new[k]]
        <3>1. /\ new[k] = pos[q[r]] /\ q[r] \in 1..m /\ pos[q[r]] \in LastOnes(s)
              /\ pos[q[r]] \in 1..n /\ ~Tester!SamePair(s[pos[q[r]]], f)
            BY <1>12, <2>2
        <3>2. t[k] = h[q[r]] /\ h[q[r]] = s[pos[q[r]]]
            BY <1>7, <1>9, <2>2, <3>1
        <3> QED BY <1>8, <3>1, <3>2
    <2> QED BY <1>14, <2>1, <2>2
<1>16. ASSUME NEW k \in 1..l, NEW j \in 1..l, k < j PROVE new[j] < new[k]
    <2>1. PICK r \in 1..c : j = r + 1 /\ r + 1 <= l
        BY <1>14, <1>16
    <2>2. new[j] = pos[q[r]] /\ pos[q[r]] \in 1..n /\ q[r] \in 1..m
        BY <1>12, <2>1
    <2>3. CASE k = 1
        BY <1>13, <2>2, <2>3
    <2>4. ASSUME NEW x \in 1..c, k = x + 1, x + 1 <= l PROVE new[j] < new[k]
        <3>1. new[k] = pos[q[x]] /\ q[x] \in 1..m
            BY <1>12, <2>4
        <3>2. x < r
            BY <1>16, <2>1, <2>4
        <3>3. q[x] < q[r]
            BY <1>5, <3>2
        <3> QED BY <1>9, <2>2, <3>1, <3>3
    <2> QED BY <1>14, <2>3, <2>4
<1>17. ASSUME NEW j \in LastOnes(u)
       PROVE  \/ \E k \in 1..l : new[k] = j
              \/ l = HistorySize /\ \A k \in 1..l : j < new[k]
    <2>1. CASE j = n + 1
        BY <1>13, <2>1
    <2>2. CASE j # n + 1
        <3>1. j \in LastOnes(s) /\ j \in 1..n /\ ~Tester!SamePair(s[j], f)
            BY <1>8, <1>10, <2>2
        <3>2. CASE \E k \in 1..m : pos[k] = j
            <4>1. PICK k \in 1..m : pos[k] = j
                BY <3>2
            <4>2. ~Tester!SamePair(h[k], f)
                <5>1. h[k] = s[j]
                    BY <1>9, <4>1
                <5> QED BY <3>1, <5>1
            <4>3. PICK r \in 1..c : q[r] = k
                BY <1>5, <4>2
            <4>4. CASE r + 1 <= l
                BY <1>12, <4>1, <4>3, <4>4
            <4>5. CASE ~(r + 1 <= l)
                <5>1. l = HistorySize /\ l <= r
                    BY <1>6, <4>5
                <5>2. ASSUME NEW i \in 1..l PROVE j < new[i]
                    <6>1. CASE i = 1
                        BY <1>13, <3>1, <6>1
                    <6>2. ASSUME NEW x \in 1..c, i = x + 1, x + 1 <= l
                          PROVE  j < new[i]
                        <7>1. x < r
                            BY <5>1, <6>2
                        <7>2. new[i] = pos[q[x]] /\ q[x] \in 1..m
                            BY <1>12, <6>2
                        <7>3. q[x] < q[r]
                            BY <1>5, <7>1
                        <7> QED BY <1>9, <4>1, <4>3, <7>2, <7>3
                    <6> QED BY <1>14, <6>1, <6>2
                <5> QED BY <5>1, <5>2
            <4> QED BY <4>4, <4>5
        <3>3. CASE m = HistorySize /\ \A k \in 1..m : j < pos[k]
            <4>1. l = HistorySize
                BY <1>2, <1>6, <3>3
            <4>2. ASSUME NEW i \in 1..l PROVE j < new[i]
                <5>1. CASE i = 1
                    BY <1>13, <3>1, <5>1
                <5>2. ASSUME NEW x \in 1..c, i = x + 1, x + 1 <= l PROVE j < new[i]
                    BY <1>12, <3>3, <5>2
                <5> QED BY <1>14, <5>1, <5>2
            <4> QED BY <4>1, <4>2
        <3> QED BY <1>9, <3>1, <3>2, <3>3
    <2> QED BY <2>1, <2>2
<1>18. new \in [1..l -> LastOnes(u)]
    BY <1>11, <1>15
<1>19. Places(u, t, new)
    BY <1>7, <1>15, <1>16, <1>17, <1>18 DEF Places
<1>20. Len(t) <= HistorySize
    BY <1>6, <1>7
<1> QED BY <1>7, <1>18, <1>19, <1>20 DEF Recent

\* What Remember makes of the history.
Remembered(h, f) ==
    LET others == Tester!Filtered(h, {i \in 1..Len(h) : ~Tester!SamePair(h[i], f)})
    IN  SubSeq(<<f>> \o others, 1,
               IF Len(others) < HistorySize THEN Len(others) + 1 ELSE HistorySize)

\* The history after a request more, from handleSend.
LEMMA RememberKeeps ==
    ASSUME NEW S, NEW s \in Seq(S), NEW h \in Seq(S), NEW f \in S
    PROVE  Recent(s, h) => /\ Remembered(h, f) \in Seq(S)
                           /\ Recent(Append(s, f), Remembered(h, f))
<1> DEFINE I == {i \in 1..Len(h) : ~Tester!SamePair(h[i], f)}
           others == Tester!Filtered(h, I)
           c == Cardinality(I)
           l == IF c < HistorySize THEN c + 1 ELSE HistorySize
           t == SubSeq(<<f>> \o others, 1, l)
<1>1. I \in SUBSET (1..Len(h))
    OBVIOUS
<1>2. /\ \A i \in I : ~Tester!SamePair(h[i], f)
      /\ \A i \in 1..Len(h) : ~Tester!SamePair(h[i], f) => i \in I
    OBVIOUS
<1>3. ASSUME NEW pos \in [1..Len(h) -> LastOnes(s)], Places(s, h, pos)
      PROVE  c \in {Len(h) - 1, Len(h)}
    <2>1. \A i \in 1..Len(h) : i \in I <=> ~Tester!SamePair(h[i], f)
        BY <1>2
    <2> HIDE DEF I
    <2> QED BY <1>1, <1>3, <2>1, OthersCardinality
<1> HIDE DEF I
<1>4. /\ c \in 0..Len(h) /\ others \in Seq(S) /\ Len(others) = c
      /\ Picks(h, I, c, others)
    BY <1>1, FilteredFacts
<1>5. c \in Nat /\ l \in 1..(c + 1)
    <2>1. c \in Nat
        BY <1>4
    <2> HIDE DEF c
    <2> QED BY <2>1, ConsoleAssumption
<1> HIDE DEF others, c
<1>6. /\ t \in Seq(S) /\ Len(t) = l /\ t[1] = f
      /\ \A k \in 1..c : k + 1 <= l => t[k + 1] = others[k]
    <2> HIDE DEF l
    <2>1. f \in S /\ others \in Seq(S) /\ l \in 1..(Len(others) + 1)
        BY <1>4, <1>5
    <2>2. c = Len(others)
        BY <1>4
    <2> QED BY <2>1, <2>2, FrontFacts
<1> HIDE DEF t
<1> SUFFICES ASSUME Recent(s, h) PROVE t \in Seq(S) /\ Recent(Append(s, f), t)
    <2>1. t = SubSeq(<<f>> \o others, 1,
                     IF Len(others) < HistorySize THEN Len(others) + 1
                     ELSE HistorySize)
        BY <1>4 DEF t
    <2> QED BY <2>1 DEF others, I, Remembered
<1>7. Len(h) <= HistorySize /\ \E pos \in [1..Len(h) -> LastOnes(s)] : Places(s, h, pos)
    BY DEF Recent
<1>8. PICK pos \in [1..Len(h) -> LastOnes(s)] : Places(s, h, pos)
    BY <1>7
<1>9. PICK q \in [1..c -> I] :
            /\ \A k \in 1..c : others[k] = h[q[k]]
            /\ \A k, j \in 1..c : k < j => q[k] < q[j]
            /\ \A i \in I : \E k \in 1..c : q[k] = i
    BY <1>4 DEF Picks
<1>10. /\ q \in [1..c -> 1..Len(h)]
       /\ \A k, j \in 1..c : k < j => q[k] < q[j]
       /\ \A k \in 1..c : ~Tester!SamePair(h[q[k]], f)
       /\ \A i \in 1..Len(h) : ~Tester!SamePair(h[i], f) => \E k \in 1..c : q[k] = i
    <2>1. \A k \in 1..c : q[k] \in I /\ q[k] \in 1..Len(h)
        BY <1>1, <1>9
    <2> QED BY <1>2, <1>9, <2>1
<1>11. \A k \in 1..c : k + 1 <= l => t[k + 1] = h[q[k]]
    BY <1>6, <1>9
<1>12. s \in Seq(S) /\ h \in Seq(S) /\ f \in S /\ t \in Seq(S)
    BY <1>6
<1>13. c \in {Len(h) - 1, Len(h)}
    BY <1>3, <1>8
<1>14. l = IF c < HistorySize THEN c + 1 ELSE HistorySize
    OBVIOUS
<1> HIDE DEF l
<1>15. Moved(s, h, f, t, pos, c, q, l)
    BY <1>5, <1>6, <1>7, <1>8, <1>10, <1>11, <1>13, <1>14 DEF Moved
<1> QED BY <1>12, <1>15, HistoryMoves

\* Nothing was sent, and the history is empty.
LEMMA EmptyIsRecent == Recent(<< >>, << >>)
<1>1. LastOnes(<< >>) = {}
    BY DEF LastOnes
<1>2. Len(<< >>) <= HistorySize
    BY ConsoleAssumption
<1> PICK pos : pos = [k \in 1..Len(<< >>) |-> k]
    OBVIOUS
<1>3. 1..Len(<< >>) = {}
    OBVIOUS
<1>4. pos \in [1..Len(<< >>) -> LastOnes(<< >>)]
    BY <1>1, <1>3
<1>5. Places(<< >>, << >>, pos)
    BY <1>1, <1>3 DEF Places
<1> QED BY <1>2, <1>4, <1>5 DEF Recent

\* A recent history is the newest HistorySize of the last ones.
LEMMA RecentIsNewest ==
    ASSUME NEW S, NEW s \in Seq(S), NEW h \in Seq(S), Recent(s, h)
    PROVE  LET rank(i) == Cardinality({j \in LastOnes(s) : j >= i})
               kept == {i \in LastOnes(s) : rank(i) <= HistorySize}
           IN  /\ Len(h) = Cardinality(kept)
               /\ \A i \in kept : h[rank(i)] = s[i]
               /\ s # << >> => h[1] = s[Len(s)]
<1> PICK n \in Nat : n = Len(s)
    OBVIOUS
<1> PICK m \in Nat : m = Len(h)
    OBVIOUS
<1> DEFINE From(i) == {j \in LastOnes(s) : j >= i}
           kept == {i \in LastOnes(s) : Cardinality(From(i)) <= HistorySize}
<1>1. PICK pos \in [1..m -> LastOnes(s)] : Places(s, h, pos)
    BY DEF Recent
<1>2. m <= HistorySize /\ HistorySize \in Nat \ {0}
    BY ConsoleAssumption DEF Recent
<1>3. /\ \A k \in 1..m : h[k] = s[pos[k]]
      /\ \A k, j \in 1..m : k < j => pos[j] < pos[k]
      /\ \A j \in LastOnes(s) : \/ \E k \in 1..m : pos[k] = j
                                \/ m = HistorySize /\ \A k \in 1..m : j < pos[k]
    BY <1>1 DEF Places
<1>4. /\ LastOnes(s) \subseteq 1..n
      /\ \A k \in 1..m : pos[k] \in LastOnes(s) /\ pos[k] \in 1..n
    BY <1>1 DEF LastOnes
<1>5. /\ IsFiniteSet(LastOnes(s))
      /\ \A i : IsFiniteSet(From(i))
    <2>1. IsFiniteSet(1..n)
        BY UpToCardinality
    <2>2. IsFiniteSet(LastOnes(s))
        BY <1>4, <2>1, FS_Subset
    <2>3. \A i : From(i) \in SUBSET LastOnes(s)
        OBVIOUS
    <2> HIDE DEF From
    <2> QED BY <2>2, <2>3, FS_Subset
<1>6. ASSUME NEW k \in 1..m
      PROVE  /\ \A j : j \in From(pos[k]) <=> \E x \in 1..k : pos[x] = j
    <2>1. ASSUME NEW x \in 1..k PROVE pos[x] \in From(pos[k])
        <3>1. x \in 1..m /\ (x = k \/ x < k)
            OBVIOUS
        <3>2. pos[x] \in 1..n /\ pos[k] \in 1..n /\ pos[x] \in LastOnes(s)
            BY <1>4, <3>1
        <3> QED BY <1>3, <3>1, <3>2
    <2>2. ASSUME NEW j \in From(pos[k]) PROVE \E x \in 1..k : pos[x] = j
        <3>1. j \in LastOnes(s) /\ j >= pos[k] /\ j \in 1..n /\ pos[k] \in 1..n
            BY <1>4
        <3>2. PICK x \in 1..m : pos[x] = j
            BY <1>3, <3>1
        <3>3. ~(k < x)
            BY <1>3, <3>1, <3>2
        <3> QED BY <3>2, <3>3
    <2> QED BY <2>1, <2>2
<1> HIDE DEF From
<1>7. ASSUME NEW k \in 1..m PROVE Cardinality(From(pos[k])) = k
    <2> DEFINE f == [x \in 1..k |-> pos[x]]
    <2>1. ASSUME NEW x \in 1..k PROVE f[x] = pos[x] /\ f[x] \in From(pos[k]) /\ x \in 1..m
        BY <1>6
    <2>2. f \in [1..k -> From(pos[k])]
        BY <2>1
    <2>3. ASSUME NEW x \in 1..k, NEW y \in 1..k, f[x] = f[y] PROVE x = y
        <3>1. pos[x] = pos[y] /\ x \in 1..m /\ y \in 1..m /\ pos[x] \in 1..n
            BY <1>4, <2>1, <2>3
        <3>2. ~(x < y) /\ ~(y < x)
            BY <1>3, <3>1
        <3> QED BY <3>2
    <2>4. \A j \in From(pos[k]) : \E x \in 1..k : f[x] = j
        BY <1>6, <2>1
    <2> HIDE DEF f
    <2>5. ExistsBijection(1..k, From(pos[k]))
        BY <2>2, <2>3, <2>4
           DEF ExistsBijection, Bijection, Injection, Surjection, IsInjective
    <2>6. k \in Nat
        OBVIOUS
    <2>7. IsFiniteSet(1..k) /\ Cardinality(1..k) = k
        BY <2>6, UpToCardinality
    <2> QED BY <2>5, <2>7, FS_Bijection
<1>8. ASSUME NEW i \in kept PROVE \E k \in 1..m : pos[k] = i
    <2>1. i \in LastOnes(s) /\ Cardinality(From(i)) <= HistorySize
        OBVIOUS
    <2>2. CASE m = HistorySize /\ \A k \in 1..m : i < pos[k]
        <3>1. m \in 1..m
            BY <1>2, <2>2
        <3>2. i \in Int /\ pos[m] \in Int /\ i < pos[m]
            BY <1>4, <2>1, <2>2, <3>1
        <3>3. From(pos[m]) \subseteq From(i) /\ i \in From(i) /\ i \notin From(pos[m])
            <4>1. \A j \in LastOnes(s) : j \in Int
                BY <1>4
            <4>2. ASSUME NEW j \in From(pos[m]) PROVE j \in From(i)
                <5>1. j \in LastOnes(s) /\ j >= pos[m]
                    BY DEF From
                <5> QED BY <3>2, <4>1, <5>1 DEF From
            <4>3. i \in From(i) /\ i \notin From(pos[m])
                BY <2>1, <3>2 DEF From
            <4> QED BY <4>2, <4>3
        <3>4. Cardinality(From(pos[m])) = m
            BY <1>7, <3>1
        <3>5. /\ Cardinality(From(pos[m])) <= Cardinality(From(i))
              /\ Cardinality(From(i)) = Cardinality(From(pos[m]))
                    => From(i) = From(pos[m])
            BY <1>5, <3>3, FS_Subset
        <3>6. Cardinality(From(i)) \in Nat
            BY <1>5, FS_CardinalityType
        <3>7. Cardinality(From(i)) = m
            BY <2>1, <2>2, <3>4, <3>5, <3>6
        <3> QED BY <3>3, <3>4, <3>5, <3>7
    <2> QED BY <1>3, <2>1, <2>2
<1>9. ASSUME NEW k \in 1..m PROVE pos[k] \in kept
    BY <1>2, <1>4, <1>7
<1> HIDE DEF kept
<1>10. Len(h) = Cardinality(kept)
    <2>1. pos \in [1..m -> kept]
        BY <1>9
    <2>2. ASSUME NEW x \in 1..m, NEW y \in 1..m, pos[x] = pos[y] PROVE x = y
        <3>1. ~(x < y) /\ ~(y < x)
            BY <1>3, <1>4, <2>2
        <3> QED BY <3>1
    <2>3. ExistsBijection(1..m, kept)
        BY <1>8, <2>1, <2>2
           DEF ExistsBijection, Bijection, Injection, Surjection, IsInjective
    <2>4. IsFiniteSet(1..m) /\ Cardinality(1..m) = m
        BY UpToCardinality
    <2> QED BY <2>3, <2>4, FS_Bijection
<1>11. ASSUME NEW i \in kept PROVE h[Cardinality(From(i))] = s[i]
    BY <1>3, <1>7, <1>8
<1>12. s # << >> => h[1] = s[Len(s)]
    <2> SUFFICES ASSUME s # << >> PROVE h[1] = s[n]
        OBVIOUS
    <2>1. n # 0
        OBVIOUS
    <2>2. n \in LastOnes(s)
        BY <2>1 DEF LastOnes
    <2>3. \A k \in 1..m : ~(n < pos[k])
        BY <1>4
    <2>4. PICK k \in 1..m : pos[k] = n
        BY <1>2, <1>3, <2>2, <2>3
    <2>5. k = 1
        <3>1. 1 \in 1..m /\ (k = 1 \/ 1 < k)
            OBVIOUS
        <3> QED BY <1>3, <2>3, <2>4, <3>1
    <2> QED BY <1>3, <2>4, <2>5
<1> QED BY <1>10, <1>11, <1>12 DEF From, kept

\* Every step of the tester keeps its history.
LEMMA HistoryKeeps ==
    ASSUME HistoryInv, [Tester!Next]_testerVars
    PROVE  HistoryInv'
<1>1. PICK S : sent \in Seq(S) /\ history \in Seq(S)
    BY DEF HistoryInv
<1>2. ASSUME UNCHANGED Tester!sendVars PROVE HistoryInv'
    <2>1. /\ sent' = sent /\ history' = history /\ flight' = flight
          /\ sending' = sending /\ response' = response
        BY <1>2 DEF Tester!sendVars
    <2> QED BY <2>1 DEF HistoryInv
<1>3. ASSUME NEW link, Tester!Mount(link) PROVE HistoryInv'
    <2>1. /\ sent' = << >> /\ history' = << >> /\ flight' = {}
          /\ sending' = FALSE /\ response' = 0
        BY <1>3 DEF Tester!Mount
    <2>2. Recent(<< >>, << >>)
        BY EmptyIsRecent
    <2>3. << >> \in Seq({})
        OBVIOUS
    <2> QED BY <2>1, <2>2, <2>3 DEF HistoryInv
<1>4. CASE Tester!Send
    <2>1. /\ sending' = TRUE /\ response' = 0 /\ sent' = Append(sent, form)
          /\ flight' = flight \union {Len(sent) + 1} /\ ~sending
          /\ Tester!Remember(form)
        BY <1>4 DEF Tester!Send
    <2> PICK T : T = S \union {form}
        OBVIOUS
    <2>2. sent \in Seq(T) /\ history \in Seq(T) /\ form \in T
        BY <1>1
    <2>3. DOMAIN history = 1..Len(history)
        BY <1>1
    <2>4. history' \in Seq(T) /\ Recent(Append(sent, form), history')
        <3>1. Recent(sent, history)
            BY DEF HistoryInv
        <3>2. history' = Remembered(history, form)
            BY <2>1, <2>3 DEF Tester!Remember, Remembered
        <3> QED BY <2>2, <3>1, <3>2, RememberKeeps
    <2>5. sent' \in Seq(T) /\ Len(sent') = Len(sent) + 1
        BY <2>1, <2>2
    <2>6. flight' \subseteq {Len(sent')}
        BY <2>1, <2>5 DEF HistoryInv
    <2> QED BY <2>1, <2>4, <2>5, <2>6 DEF HistoryInv
<1>5. ASSUME NEW n, Tester!Respond(n) PROVE HistoryInv'
    <2>1. /\ n \in flight /\ response' = n /\ sending' = FALSE
          /\ flight' = flight \ {n} /\ history' = history /\ sent' = sent
        BY <1>5 DEF Tester!Respond
    <2> QED BY <2>1 DEF HistoryInv
<1>6. ASSUME NEW f, Tester!SetForm(f) PROVE HistoryInv'
    BY <1>2, <1>6 DEF Tester!SetForm
<1>7. CASE \/ \E p \in Tester!Protocols : Tester!ChooseProtocol(p)
           \/ \E m \in Tester!Methods : Tester!ChooseMethod(m)
           \/ \E u \in Urls \union {Tester!Blank} : Tester!TypeUrl(u)
           \/ \E c \in Tester!ToSet(Collections) : \E u \in Urls, m \in Tester!Methods :
                 Tester!SelectEndpoint(c, u, m)
           \/ \E i \in 1..HistorySize : Tester!Recall(i)
    BY <1>6, <1>7 DEF Tester!ChooseProtocol, Tester!ChooseMethod, Tester!TypeUrl,
                      Tester!SelectEndpoint, Tester!Recall
<1>8. CASE \/ \E c \in Tester!ToSet(Collections) : Tester!ToggleCollection(c)
           \/ Tester!SaveState \/ Tester!AddHeaderRow
           \/ \E id \in Tester!Rendered : Tester!RemoveHeaderRow(id)
           \/ UNCHANGED testerVars
    BY <1>2, <1>8 DEF Tester!ToggleCollection, Tester!SaveState, Tester!AddHeaderRow,
       Tester!RemoveHeaderRow, Tester!sendVars, testerVars
<1> QED
    BY <1>3, <1>4, <1>5, <1>7, <1>8 DEF Tester!Next, Tester!Open

\* The history is the newest pairs of url and method, and the response that of the
\* newest, in every behaviour of the console.
THEOREM ConsoleHistoryIsRecent == ConsoleSpec => []HistoryIsRecent
<1> DEFINE IInv == part = "tester" => HistoryInv
<1>1. ConsoleInit => IInv
    <2> SUFFICES ASSUME Tester!Init PROVE HistoryInv
        BY DEF ConsoleInit
    <2>1. sent = << >> /\ history = << >> /\ flight = {} /\ response = 0
        BY DEF Tester!Init
    <2>2. Recent(<< >>, << >>)
        BY EmptyIsRecent
    <2>3. << >> \in Seq({})
        OBVIOUS
    <2> QED BY <2>1, <2>2, <2>3 DEF HistoryInv
<1>2. IInv /\ [ConsoleNext]_consoleVars => IInv'
    <2> SUFFICES ASSUME IInv, [ConsoleNext]_consoleVars, part' = "tester"
                 PROVE HistoryInv'
        OBVIOUS
    <2>1. part' = part /\ [Tester!Next]_testerVars
        BY DEF ConsoleNext, consoleVars, KeyStep, AlertStep, TesterStep,
               CatalogueStep, AccountStep, BoardStep, FrameStep
    <2> QED BY <2>1, HistoryKeeps
<1>3. IInv => HistoryIsRecent
    <2> SUFFICES ASSUME HistoryInv PROVE Tester!HistoryIsRecent
        BY DEF HistoryIsRecent
    <2>1. PICK S : sent \in Seq(S) /\ history \in Seq(S)
        BY DEF HistoryInv
    <2>2. LastOnes(sent) = {i \in DOMAIN sent :
              ~\E j \in (i + 1)..Len(sent) : Tester!SamePair(sent[i], sent[j])}
        BY <2>1 DEF LastOnes
    <2>3. Recent(sent, history)
        BY DEF HistoryInv
    <2>4. Tester!ResponseShown => sent # << >> /\ response = Len(sent)
        BY <2>1 DEF Tester!ResponseShown, HistoryInv
    <2> DEFINE rank(i) == Cardinality({j \in LastOnes(sent) : j >= i})
               kept == {i \in LastOnes(sent) : rank(i) <= HistorySize}
    <2>5. /\ Len(history) = Cardinality(kept)
          /\ \A i \in kept : history[rank(i)] = sent[i]
          /\ sent # << >> => history[1] = sent[Len(sent)]
        BY <2>1, <2>3, RecentIsNewest
    <2> QED BY <2>2, <2>4, <2>5, SameCardinality DEF Tester!HistoryIsRecent
<1> QED BY <1>1, <1>2, <1>3, PTL DEF ConsoleSpec

==============================================================================

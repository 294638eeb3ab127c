------------------------ MODULE TrafficChannelProofs ------------------------
(***************************************************************************)
(* Theorems of TrafficChannel for any reports, notices, readers and        *)
(* worlds: what 511's reports may be announced again for, what becomes of  *)
(* the pages of a list that changes, and, for notices that the code's      *)
(* comparisons tell apart and recognise, what of a closure listeners are   *)
(* told by either source.                                                  *)
(***************************************************************************)
EXTENDS TrafficChannel, FiniteSetTheorems, NaturalsInduction, WellFoundedInduction, TLAPS

-----------------------------------------------------------------------------
(* The announcements of 511's reports *)

(* A receipt that the present scheme wrote for what an event looked like.  *)
Remembered(e, r) == seen[e] # None /\ seen[e].version /\ seen[e].report = r

(* What was attempted is in the receipts; before the first snapshot there  *)
(* is nothing, and what it showed has a receipt until it was attempted.    *)
ReceiptsInv ==
  /\ now \in Nat /\ world \in Worlds
  /\ DOMAIN seen = Event /\ DOMAIN tried = Event
  /\ \A e \in Event : tried[e] # None => seen[e] = tried[e] /\ tried[e].version /\ tried[e].attempted
  /\ fetched # None => initialized
  /\ ~initialized => existing = {} /\ \A e \in Event : seen[e] = None
  /\ existing \subseteq Report
  /\ ~AnnounceExisting =>
       \A r \in existing : tried[EventOf[r]] # None \/ Remembered(EventOf[r], r)

(* What a step of the channel is to the announcements of 511's reports:    *)
(* nothing, or one of TrafficAlerts' steps in its place.                   *)
LEMMA AlertSteps ==
  ASSUME world \in Worlds, [ChannelNext]_channelVars
  PROVE  /\ world' = world
         /\ \/ \E snapshot \in SUBSET Report : IsSnapshot(snapshot) /\ Refresh(snapshot)
            \/ \E r \in Report : ReportEligible(r) /\ Claim(r)
            \/ \E r \in Report : Reject(r)
            \/ FinishPost \/ Start \/ Stop \/ Tick \/ UNCHANGED vars
<1>1. CASE BeginPoll \/ (poll # None /\ \E source \in poll.left : PollFails(source))
  BY <1>1 DEF BeginPoll, PollFails
<1>2. CASE \E snapshot \in SUBSET world.reports : Poll511(snapshot)
  BY <1>2, ChannelAssumption DEF Poll511
<1>3. CASE \E notices \in Readings : PollCity(notices)
  BY <1>3 DEF PollCity
<1>4. CASE \E r \in Report : PublishReport(r) \/ RejectReport(r)
  BY <1>4 DEF PublishReport, RejectReport, TurnOfReport
<1>5. CASE \E p \in Pending : PublishPlan(p) \/ RejectPlan(p)
  BY <1>5 DEF PublishPlan, RejectPlan
<1>6. CASE PlanPosted
  BY <1>6 DEF PlanPosted
<1>7. CASE \E q \in world.requests : Ask(q)
  BY <1>7 DEF Ask
<1>8. CASE TransmitPage \/ PageSent \/ NextPage
  BY <1>8 DEF TransmitPage, PageSent, NextPage
<1>9. CASE Finish \/ Begin \/ End \/ Pass
  BY <1>9 DEF Finish, Begin, End, Pass
<1>10. CASE UNCHANGED channelVars
  BY <1>10 DEF channelVars
<1> QED BY <1>1, <1>2, <1>3, <1>4, <1>5, <1>6, <1>7, <1>8, <1>9, <1>10 DEF ChannelNext

LEMMA ReceiptIs ==
  ASSUME NEW r \in Report, NEW at \in Nat, NEW attempted \in BOOLEAN
  PROVE  /\ Receipt(r, at, attempted) # None /\ Receipt(r, at, attempted).version
         /\ Receipt(r, at, attempted).report = r /\ Receipt(r, at, attempted).attempted = attempted
<1>1. Receipt(r, at, attempted) \in [report : Report, at : Nat, attempted : BOOLEAN, version : BOOLEAN]
  BY DEF Receipt
<1>2. Receipt(r, at, attempted) # None
  BY <1>1, AlertsAssumption
<1> QED BY <1>2 DEF Receipt

(* A step that leaves the receipts alone.                                  *)
LEMMA ReceiptsStay ==
  ASSUME ReceiptsInv, world' = world, seen' = seen, tried' = tried, existing' = existing,
         initialized' = initialized, now' \in Nat, fetched' \in {fetched, None}
  PROVE  ReceiptsInv'
BY DEF ReceiptsInv, Remembered

LEMMA RefreshKeeps ==
  ASSUME ReceiptsInv, world' = world,
         NEW snapshot \in SUBSET Report, IsSnapshot(snapshot), Refresh(snapshot)
  PROVE  ReceiptsInv'
<1>1. /\ seen' = Baseline(snapshot) /\ initialized' = TRUE /\ tried' = tried /\ now' = now
      /\ existing' = IF initialized THEN existing ELSE snapshot
  BY DEF Refresh
<1>2. DOMAIN seen' = Event
  BY <1>1 DEF Baseline
<1>3. ASSUME NEW e \in Event, seen[e] # None, seen[e].version PROVE seen'[e] = seen[e]
  <2>1. CASE initialized
    BY <1>1, <1>3, <2>1 DEF Baseline
  <2>2. CASE ~initialized
    BY <1>3, <2>2 DEF ReceiptsInv
  <2> QED BY <2>1, <2>2
<1>4. ASSUME NEW e \in Event, tried[e] # None
      PROVE  seen'[e] = tried'[e] /\ tried'[e].version /\ tried'[e].attempted
  BY <1>1, <1>3, <1>4 DEF ReceiptsInv
<1>5. ASSUME ~AnnounceExisting, NEW r \in existing'
      PROVE  tried'[EventOf[r]] # None \/ Remembered(EventOf[r], r)'
  <2>1. CASE initialized
    <3>1. r \in existing /\ EventOf[r] \in Event
      BY <1>1, <2>1, AlertsAssumption DEF ReceiptsInv
    <3> QED BY <1>1, <1>3, <1>5, <3>1 DEF ReceiptsInv, Remembered
  <2>2. CASE ~initialized
    <3>1. r \in snapshot /\ r \in Report /\ EventOf[r] \in Event
      BY <1>1, <2>2, AlertsAssumption
    <3>2. (CHOOSE q \in snapshot : EventOf[q] = EventOf[r]) = r
      BY <3>1 DEF IsSnapshot
    <3>3. seen[EventOf[r]] = None
      BY <2>2, <3>1 DEF ReceiptsInv
    <3>4. seen'[EventOf[r]] = Receipt(r, now, FALSE)
      BY <1>1, <1>5, <2>2, <3>1, <3>2, <3>3 DEF Baseline
    <3>5. seen'[EventOf[r]] # None /\ seen'[EventOf[r]].version /\ seen'[EventOf[r]].report = r
      <4>1. PICK no \in BOOLEAN : no = FALSE
        OBVIOUS
      <4>2. /\ Receipt(r, now, no) # None /\ Receipt(r, now, no).version
            /\ Receipt(r, now, no).report = r
        BY <3>1, ReceiptIs DEF ReceiptsInv
      <4> QED BY <3>4, <4>1, <4>2
    <3> QED BY <3>5 DEF Remembered
  <2> QED BY <2>1, <2>2
<1>6. existing' \subseteq Report
  BY <1>1 DEF ReceiptsInv
<1> QED BY <1>1, <1>2, <1>4, <1>5, <1>6 DEF ReceiptsInv

LEMMA ClaimKeeps ==
  ASSUME ReceiptsInv, world' = world, NEW r \in Report, ReportEligible(r), Claim(r)
  PROVE  ReceiptsInv'
<1>1. PICK receipt : receipt = Receipt(r, now, TRUE)
  OBVIOUS
<1>2. receipt # None /\ receipt.version /\ receipt.attempted
  BY <1>1, ReceiptIs DEF ReceiptsInv
<1>3. EventOf[r] \in Event
  BY AlertsAssumption
<1>4. /\ seen' = [seen EXCEPT ![EventOf[r]] = receipt] /\ tried' = [tried EXCEPT ![EventOf[r]] = receipt]
      /\ UNCHANGED <<now, initialized, fetched, existing>>
  BY <1>1 DEF Claim, memory
<1>5. initialized
  BY DEF ReportEligible, Eligible, FreshFeed, ReceiptsInv
<1>6. /\ DOMAIN seen' = Event /\ DOMAIN tried' = Event
      /\ seen'[EventOf[r]] = receipt /\ tried'[EventOf[r]] = receipt
      /\ \A e \in Event \ {EventOf[r]} : seen'[e] = seen[e] /\ tried'[e] = tried[e]
  BY <1>3, <1>4 DEF ReceiptsInv
<1>7. \A e \in Event : tried'[e] # None =>
        seen'[e] = tried'[e] /\ tried'[e].version /\ tried'[e].attempted
  BY <1>2, <1>6 DEF ReceiptsInv
<1>8. ASSUME ~AnnounceExisting, NEW q \in existing'
      PROVE  tried'[EventOf[q]] # None \/ Remembered(EventOf[q], q)'
  <2>1. q \in existing /\ EventOf[q] \in Event
    BY <1>4, AlertsAssumption DEF ReceiptsInv
  <2>2. CASE EventOf[q] = EventOf[r]
    BY <1>2, <1>6, <2>2
  <2>3. CASE EventOf[q] # EventOf[r]
    BY <1>6, <1>8, <2>1, <2>3 DEF ReceiptsInv, Remembered
  <2> QED BY <2>2, <2>3
<1> QED BY <1>4, <1>5, <1>6, <1>7, <1>8 DEF ReceiptsInv

LEMMA ReceiptsNext == ReceiptsInv /\ [ChannelNext]_channelVars => ReceiptsInv'
<1> SUFFICES ASSUME ReceiptsInv, [ChannelNext]_channelVars PROVE ReceiptsInv'
  OBVIOUS
<1>1. world \in Worlds /\ now \in Nat
  BY DEF ReceiptsInv
<1>2. world' = world
  BY <1>1, AlertSteps
<1>3. ASSUME NEW r \in Report, Reject(r) PROVE ReceiptsInv'
  BY <1>1, <1>2, <1>3, ReceiptsStay DEF Reject
<1>4. CASE FinishPost \/ Start \/ Stop \/ UNCHANGED vars
  BY <1>1, <1>2, <1>4, ReceiptsStay DEF FinishPost, Start, Stop, vars, memory
<1>5. CASE Tick
  <2>1. now' \in Nat
    BY <1>1, <1>5 DEF Tick
  <2> QED BY <1>2, <1>5, <2>1, ReceiptsStay DEF Tick, memory
<1> QED BY <1>1, <1>2, <1>3, <1>4, <1>5, AlertSteps, RefreshKeeps, ClaimKeeps

LEMMA ReceiptsInit == ChannelInit => ReceiptsInv
<1> SUFFICES ASSUME ChannelInit PROVE ReceiptsInv
  OBVIOUS
<1>1. /\ now = 0 /\ world \in Worlds /\ existing = {} /\ fetched = None
      /\ tried = [e \in Event |-> None]
  BY DEF ChannelInit, Init
<1>2. PICK upgraded \in SUBSET Event :
        /\ seen = [e \in Event |-> IF e \in upgraded
                     THEN [report |-> None, at |-> 0, attempted |-> TRUE, version |-> FALSE] ELSE None]
        /\ initialized = (upgraded # {})
  BY DEF ChannelInit, Init
<1>3. DOMAIN seen = Event /\ (~initialized => \A e \in Event : seen[e] = None)
  BY <1>2
<1> QED BY <1>1, <1>3 DEF ReceiptsInv

LEMMA ReceiptsInvariant == ChannelSpec => []ReceiptsInv
BY ReceiptsInit, ReceiptsNext, PTL DEF ChannelSpec

(* An event is announced again only with other facts, and only after the   *)
(* interval or if it became worse; none repeats an equivalent one, and     *)
(* with traffic_announce_existing off nothing of the first snapshot is     *)
(* announced as it was (_claim, _repeat_allowed, _refresh_511): over any   *)
(* number of crashes and for any reports of the feed.                      *)
THEOREM OnlyNewsAlways == ChannelSpec => OnlyNews
<1> DEFINE Body ==
      \A r \in Report : Posts(r) =>
        /\ r \in existing => AnnounceExisting \/ tried[EventOf[r]] # None
        /\ \A e \in Event : tried[e] # None => KeyOf[tried[e].report] # KeyOf[r]
        /\ LET p == tried[EventOf[r]]
           IN  p # None =>
                 /\ PrintOf[r] # PrintOf[p.report]
                 /\ \/ now - p.at >= Gap
                    \/ FullOf[r] # FullOf[p.report]
                    \/ HazardsOf[r] # HazardsOf[p.report]
                    \/ LanesOf[r] > LanesOf[p.report]
<1>1. ReceiptsInv /\ [ChannelNext]_channelVars => Body
  <2> SUFFICES ASSUME ReceiptsInv, [ChannelNext]_channelVars, NEW r \in Report, Posts(r)
               PROVE  /\ r \in existing => AnnounceExisting \/ tried[EventOf[r]] # None
                      /\ \A e \in Event : tried[e] # None => KeyOf[tried[e].report] # KeyOf[r]
                      /\ tried[EventOf[r]] # None =>
                           /\ PrintOf[r] # PrintOf[tried[EventOf[r]].report]
                           /\ \/ now - tried[EventOf[r]].at >= Gap
                              \/ FullOf[r] # FullOf[tried[EventOf[r]].report]
                              \/ HazardsOf[r] # HazardsOf[tried[EventOf[r]].report]
                              \/ LanesOf[r] > LanesOf[tried[EventOf[r]].report]
    BY Zenon
  <2>1. posting = None /\ posting' = r /\ r # None
    BY AlertsAssumption DEF Posts
  <2>2. \E q \in Report : ReportEligible(q) /\ Claim(q)
    BY <2>1, AlertSteps DEF ReceiptsInv, Refresh, Reject, FinishPost, Start, Stop, Tick, vars
  <2>3. ReportEligible(r)
    BY <2>1, <2>2 DEF Claim
  <2>4. EventOf[r] \in Event
    BY AlertsAssumption
  <2>5. ~SamePrint(seen[EventOf[r]], r) /\ RepeatAllowed(r)
        /\ ~\E p \in Receipts : p.version /\ p.attempted /\ KeyOf[p.report] = KeyOf[r]
    BY <2>3 DEF ReportEligible, Eligible
  <2>6. r \in existing => AnnounceExisting \/ tried[EventOf[r]] # None
    BY <2>5 DEF ReceiptsInv, Remembered, SamePrint
  <2>7. ASSUME NEW e \in Event, tried[e] # None PROVE KeyOf[tried[e].report] # KeyOf[r]
    <3>1. seen[e] \in Receipts /\ seen[e] = tried[e] /\ tried[e].version /\ tried[e].attempted
      BY <2>7 DEF ReceiptsInv, Receipts
    <3> QED BY <2>5, <3>1
  <2>8. ASSUME tried[EventOf[r]] # None
        PROVE  /\ PrintOf[r] # PrintOf[tried[EventOf[r]].report]
               /\ \/ now - tried[EventOf[r]].at >= Gap
                  \/ FullOf[r] # FullOf[tried[EventOf[r]].report]
                  \/ HazardsOf[r] # HazardsOf[tried[EventOf[r]].report]
                  \/ LanesOf[r] > LanesOf[tried[EventOf[r]].report]
    BY <2>4, <2>5, <2>8 DEF ReceiptsInv, SamePrint, RepeatAllowed
  <2> QED BY <2>6, <2>7, <2>8
<1>2. ChannelSpec => [][Body]_vars
  BY <1>1, ReceiptsInvariant, PTL DEF ChannelSpec
<1> QED BY <1>2 DEF OnlyNews

-----------------------------------------------------------------------------
(* The pages of the list *)

(* A page of a reader that may be on its way to him.                       *)
Underway(p) ==
  batch # NoBatch /\ batch.person = p /\ batch.place # "between" /\ batch.text # None

(* The pages before the one under way, or up to the cursor, that he lacks. *)
Lacking(p) ==
  (1 .. (IF Underway(p) THEN cursors[p].index - 1 ELSE cursors[p].index)) \ got[p]

(* A batch has all its parts.                                              *)
Batch(b) ==
  /\ b = [person |-> b.person, list |-> b.list, expected |-> b.expected, page |-> b.page,
          count |-> b.count, text |-> b.text, place |-> b.place]
  /\ b.person \in Person /\ b.place \in {"hold", "sending", "between"}

(* Its page is one of its list.                                            *)
Shows(b) ==
  b.text # None => b.text.of = Len(b.list) /\ b.text.item = b.list[b.text.index]

PagesInv ==
  /\ DOMAIN cursors = Person /\ DOMAIN got = Person /\ lost \in [Person -> Nat]
  /\ batch # NoBatch => Batch(batch) /\ Shows(batch)
  /\ \A p \in Person :
       /\ cursors[p] # None => /\ cursors[p].index \in Nat \ {0}
                               /\ Cardinality(Lacking(p)) <= lost[p]
       /\ Underway(p) => cursors[p].index = batch.text.index

(* What a step of the channel is to the readers.                           *)
LEMMA PageSteps ==
  ASSUME world \in Worlds, [ChannelNext]_channelVars
  PROVE  \/ \E q \in world.requests : Ask(q)
         \/ TransmitPage \/ PageSent \/ NextPage \/ End \/ UNCHANGED pages
<1>1. CASE BeginPoll \/ (poll # None /\ \E source \in poll.left : PollFails(source))
  BY <1>1 DEF BeginPoll, PollFails
<1>2. CASE \E snapshot \in SUBSET world.reports : Poll511(snapshot)
  BY <1>2 DEF Poll511
<1>3. CASE \E notices \in Readings : PollCity(notices)
  BY <1>3 DEF PollCity
<1>4. CASE \E r \in Report : PublishReport(r) \/ RejectReport(r)
  BY <1>4 DEF PublishReport, RejectReport
<1>5. CASE \E p \in Pending : PublishPlan(p) \/ RejectPlan(p)
  BY <1>5 DEF PublishPlan, RejectPlan
<1>6. CASE PlanPosted \/ Finish \/ Begin \/ Pass
  BY <1>6 DEF PlanPosted, Finish, Begin, Pass
<1>7. CASE UNCHANGED channelVars
  BY <1>7 DEF channelVars
<1> QED BY <1>1, <1>2, <1>3, <1>4, <1>5, <1>6, <1>7 DEF ChannelNext

(* Pages up to one more.                                                   *)
LEMMA OneMore ==
  ASSUME NEW n \in Nat \ {0}, NEW received, NEW k \in Nat,
         Cardinality((1 .. n - 1) \ received) <= k
  PROVE  /\ Cardinality((1 .. n) \ received) <= k + 1
         /\ Cardinality((1 .. n) \ (received \cup {n})) <= k
<1> DEFINE before == (1 .. n - 1) \ received
<1>1. IsFiniteSet(before)
  <2>1. 1 \in Int /\ n - 1 \in Int
    OBVIOUS
  <2>2. IsFiniteSet(1 .. n - 1)
    BY <2>1, FS_Interval
  <2> QED BY <2>2, FS_Subset
<1>2. (1 .. n) \ (received \cup {n}) = before \ {n} /\ before \ {n} = before
  OBVIOUS
<1>3. (1 .. n) \ received \subseteq before \cup {n}
  OBVIOUS
<1>4. Cardinality(before) \in Nat
  BY <1>1, FS_CardinalityType
<1>5. IsFiniteSet(before \cup {n}) /\ Cardinality(before \cup {n}) <= Cardinality(before) + 1
  <2> HIDE DEF before
  <2>1. IsFiniteSet(before \cup {n}) /\ Cardinality(before \cup {n}) =
          IF n \in before THEN Cardinality(before) ELSE Cardinality(before) + 1
    BY <1>1, FS_AddElement
  <2> QED BY <1>4, <2>1
<1>6. Cardinality((1 .. n) \ received) <= Cardinality(before \cup {n})
  BY <1>3, <1>5, FS_Subset
<1>7. Cardinality((1 .. n) \ received) \in Nat /\ Cardinality(before \cup {n}) \in Nat
  BY <1>3, <1>5, FS_Subset, FS_CardinalityType
<1>8. Cardinality(before) <= k /\ Cardinality((1 .. n) \ (received \cup {n})) = Cardinality(before)
  BY <1>2
<1>9. PICK x \in Nat, y \in Nat, z \in Nat :
        x = Cardinality(before) /\ y = Cardinality(before \cup {n}) /\ z = Cardinality((1 .. n) \ received)
  BY <1>4, <1>7
<1>10. x <= k /\ y <= x + 1 /\ z <= y
  BY <1>5, <1>6, <1>8, <1>9
<1>11. z <= k + 1
  BY <1>10
<1> QED BY <1>8, <1>9, <1>10, <1>11

(* A batch in a new place, with the same page or another.                  *)
Moved(b, place, page) == [b EXCEPT !.place = place, !.page = page]

LEMMA BatchMoved ==
  ASSUME NEW b, Batch(b), NEW place \in {"hold", "sending", "between"}, NEW page
  PROVE  LET c == Moved(b, place, page)
         IN  /\ Batch(c) /\ c.person = b.person /\ c.list = b.list /\ c.text = b.text
             /\ c.place = place
<1>1. PICK person, list, expected, at, count, text, there :
        person \in Person /\
        b = [person |-> person, list |-> list, expected |-> expected, page |-> at,
             count |-> count, text |-> text, place |-> there]
  BY DEF Batch
<1>2. PICK c : c = Moved(b, place, page)
  OBVIOUS
<1>3. c = [person |-> person, list |-> list, expected |-> expected, page |-> page,
           count |-> count, text |-> text, place |-> place]
  BY <1>1, <1>2 DEF Moved
<1>4. /\ c.person = person /\ c.list = list /\ c.expected = expected /\ c.page = page
      /\ c.count = count /\ c.text = text /\ c.place = place
  BY <1>3
<1>5. Batch(c)
  BY <1>1, <1>3, <1>4 DEF Batch
<1> QED BY <1>1, <1>2, <1>4, <1>5

(* A batch with the page that is sent next.                                *)
Prepared(b, text, expected) == [b EXCEPT !.text = text, !.place = "hold", !.expected = expected]

LEMMA BatchPrepared ==
  ASSUME NEW b, Batch(b), NEW text, NEW expected
  PROVE  LET c == Prepared(b, text, expected)
         IN  /\ Batch(c) /\ c.person = b.person /\ c.list = b.list /\ c.text = text
             /\ c.place = "hold"
<1>1. PICK person, list, before, page, count, old, there :
        person \in Person /\
        b = [person |-> person, list |-> list, expected |-> before, page |-> page,
             count |-> count, text |-> old, place |-> there]
  BY DEF Batch
<1>2. PICK c : c = Prepared(b, text, expected)
  OBVIOUS
<1>3. c = [person |-> person, list |-> list, expected |-> expected, page |-> page,
           count |-> count, text |-> text, place |-> "hold"]
  BY <1>1, <1>2 DEF Prepared
<1>4. /\ c.person = person /\ c.list = list /\ c.expected = expected /\ c.page = page
      /\ c.count = count /\ c.text = text /\ c.place = "hold"
  BY <1>3
<1>5. Batch(c)
  BY <1>1, <1>3, <1>4 DEF Batch
<1> QED BY <1>1, <1>2, <1>4, <1>5

(* Where the cursor of a reader goes with the page that answers him, and   *)
(* what he lacks of the pages before.                                      *)
LEMMA PrepareKeeps ==
  ASSUME PagesInv, NEW b, Batch(b), b.list = Items, NEW command, Prepare(b, command),
         batch = NoBatch \/ batch.place = "between"
  PROVE  PagesInv'
<1> DEFINE p == b.person
<1>1. p \in Person
  BY DEF Batch
<1>2. PICK page, again, moved :
        /\ page = PageFor(command, p)
        /\ again = (page # None /\ (page.index = 1 \/ cursors[p] = None))
        /\ moved = IF page = None THEN cursors
                   ELSE [cursors EXCEPT ![p] = [list |-> Items, index |-> page.index]]
  OBVIOUS
<1>3. /\ cursors' = moved
      /\ batch' = [b EXCEPT !.text = page, !.place = "hold", !.expected = moved[p]]
      /\ got' = IF again THEN [got EXCEPT ![p] = {}] ELSE got
      /\ lost' = IF again THEN [lost EXCEPT ![p] = 0] ELSE lost
  BY <1>2 DEF Prepare
<1>4. /\ Batch(batch') /\ batch'.person = p /\ batch'.list = Items /\ batch'.text = page
      /\ batch'.place = "hold" /\ batch' # NoBatch
  <2>1. PICK e : e = moved[p]
    OBVIOUS
  <2>2. batch' = Prepared(b, page, e)
    BY <1>3, <2>1 DEF Prepared
  <2>3. /\ Batch(batch') /\ batch'.person = p /\ batch'.list = Items /\ batch'.text = page
        /\ batch'.place = "hold"
    BY <2>2, BatchPrepared
  <2> QED BY <2>3 DEF NoBatch
<1>5. \A q \in Person : ~Underway(q)
  BY DEF Underway
<1>6. /\ DOMAIN cursors' = Person /\ DOMAIN got' = Person /\ lost' \in [Person -> Nat]
      /\ \A q \in Person \ {p} : cursors'[q] = cursors[q] /\ got'[q] = got[q] /\ lost'[q] = lost[q]
  BY <1>1, <1>2, <1>3 DEF PagesInv
<1>7. page # None =>
        /\ page.of = Len(Items) /\ page.item = Items[page.index]
        /\ page.index = IF command = "cont" /\ cursors[p] # None /\ cursors[p].list = Items
                         THEN cursors[p].index + 1 ELSE 1
  BY <1>2 DEF PageFor
<1>8. Shows(batch')
  BY <1>4, <1>7 DEF Shows
<1>9. ASSUME NEW q \in Person, q # p
      PROVE  /\ cursors'[q] # None => /\ cursors'[q].index \in Nat \ {0}
                                      /\ Cardinality(Lacking(q)') <= lost'[q]
             /\ ~Underway(q)'
  <2>1. ~Underway(q)'
    BY <1>4, <1>9 DEF Underway
  <2>2. Lacking(q)' = Lacking(q)
    BY <1>5, <1>6, <1>9, <2>1 DEF Lacking
  <2> QED BY <1>6, <1>9, <2>1, <2>2 DEF PagesInv
<1>10. CASE page = None
  <2>1. cursors' = cursors /\ got' = got /\ lost' = lost /\ ~Underway(p)'
    BY <1>2, <1>3, <1>4, <1>10 DEF Underway
  <2>2. Lacking(p)' = Lacking(p)
    BY <1>1, <1>5, <2>1 DEF Lacking
  <2> QED BY <1>1, <1>4, <1>6, <1>8, <1>9, <2>1, <2>2 DEF PagesInv
<1>11. CASE page # None
  <2>1. cursors'[p].index = page.index /\ cursors'[p] = [list |-> Items, index |-> page.index]
    BY <1>1, <1>2, <1>3, <1>11 DEF PagesInv
  <2>2. Lacking(p)' = (1 .. page.index - 1) \ got'[p]
    <3>1. Underway(p)'
      BY <1>4, <1>11 DEF Underway
    <3> QED BY <2>1, <3>1 DEF Lacking
  <2>3. page.index \in Nat \ {0} /\ Cardinality(Lacking(p)') <= lost'[p]
    <3>1. CASE again
      <4>1. got'[p] = {} /\ lost'[p] = 0
        BY <1>1, <1>3, <3>1 DEF PagesInv
      <4>2. page.index = 1
        BY <1>2, <1>7, <1>11, <3>1
      <4>3. Lacking(p)' = {}
        BY <2>2, <4>1, <4>2
      <4> QED BY <4>1, <4>2, <4>3, FS_EmptySet
    <3>2. CASE ~again
      <4>1. cursors[p] # None /\ page.index = cursors[p].index + 1 /\ cursors[p].index \in Nat
        BY <1>1, <1>2, <1>7, <1>11, <3>2 DEF PagesInv
      <4>2. got'[p] = got[p] /\ lost'[p] = lost[p]
        BY <1>3, <3>2
      <4>3. Lacking(p) = (1 .. cursors[p].index) \ got[p]
        BY <1>1, <1>5 DEF Lacking
      <4>4. page.index - 1 = cursors[p].index
        BY <4>1
      <4>5. Lacking(p)' = Lacking(p)
        BY <2>2, <4>2, <4>3, <4>4
      <4> QED BY <1>1, <4>1, <4>2, <4>5 DEF PagesInv
    <3> QED BY <1>2, <3>1, <3>2
  <2> QED BY <1>1, <1>4, <1>6, <1>8, <1>9, <2>1, <2>3 DEF PagesInv
<1> QED BY <1>10, <1>11

(* A batch that ends: a page that was prepared may be lost.                *)
LEMMA OverKeeps ==
  ASSUME PagesInv, batch # NoBatch, Over(FALSE), UNCHANGED <<cursors, got>>
  PROVE  PagesInv'
<1> DEFINE p == batch.person
<1>1. p \in Person /\ p \in DOMAIN got /\ lost[p] \in Nat /\ batch' = NoBatch
  BY DEF PagesInv, Batch, Over
<1>2. /\ lost' = IF batch.text = None THEN lost ELSE [lost EXCEPT ![p] = @ + 1]
      /\ cursors' = cursors /\ got' = got
  BY DEF Over
<1>3. lost[p] + 1 \in Nat
  BY <1>1
<1>4. /\ lost' \in [Person -> Nat]
      /\ \A q \in Person \ {p} : lost'[q] = lost[q]
      /\ lost'[p] = IF batch.text = None THEN lost[p] ELSE lost[p] + 1
  BY <1>1, <1>2, <1>3 DEF PagesInv
<1>5. \A q \in Person : ~Underway(q)'
  BY <1>1 DEF Underway
<1>6. \A q \in Person : Lacking(q)' = (1 .. cursors[q].index) \ got[q]
  BY <1>2, <1>5 DEF Lacking
<1>7. ASSUME NEW q \in Person, ~Underway(q), cursors[q] # None
      PROVE  /\ cursors'[q].index \in Nat \ {0}
             /\ Cardinality(Lacking(q)') <= lost'[q]
  <2>1. Lacking(q)' = Lacking(q)
    BY <1>6, <1>7 DEF Lacking
  <2>2. Cardinality(Lacking(q)) <= lost[q] /\ lost[q] \in Nat /\ cursors[q].index \in Nat \ {0}
    BY <1>7 DEF PagesInv
  <2>3. IsFiniteSet(Lacking(q))
    <3>1. 1 \in Int /\ cursors[q].index \in Int
      BY <2>2
    <3>2. IsFiniteSet(1 .. cursors[q].index)
      BY <3>1, FS_Interval
    <3> QED BY <1>7, <3>2, FS_Subset DEF Lacking
  <2>4. Cardinality(Lacking(q)) \in Nat
    BY <2>3, FS_CardinalityType
  <2>5. PICK n \in Nat : n = Cardinality(Lacking(q))
    BY <2>4
  <2>6. n <= lost[q] /\ (lost'[q] = lost[q] \/ lost'[q] = lost[q] + 1)
    BY <1>4, <2>2, <2>5
  <2>7. n <= lost'[q]
    BY <2>2, <2>6
  <2> QED BY <1>2, <2>1, <2>2, <2>5, <2>7
<1>8. ASSUME NEW q \in Person, Underway(q), cursors[q] # None
      PROVE  /\ cursors'[q].index \in Nat \ {0}
             /\ Cardinality(Lacking(q)') <= lost'[q]
  <2>1. q = p /\ batch.text # None /\ lost'[q] = lost[q] + 1
    BY <1>4, <1>8 DEF Underway
  <2>2. PICK n \in Nat \ {0} : n = cursors[q].index
    BY <1>8 DEF PagesInv
  <2>3. Cardinality((1 .. n - 1) \ got[q]) <= lost[q] /\ lost[q] \in Nat
    BY <1>8, <2>2 DEF PagesInv, Lacking
  <2>4. Cardinality((1 .. n) \ got[q]) <= lost[q] + 1
    BY <2>3, OneMore
  <2> QED BY <1>2, <1>6, <2>1, <2>2, <2>4
<1> QED BY <1>1, <1>2, <1>4, <1>5, <1>7, <1>8 DEF PagesInv

(* A batch that ends before the next page is prepared.                     *)
LEMMA EndsBetween ==
  ASSUME PagesInv, batch # NoBatch, batch.place = "between", Over(TRUE), UNCHANGED <<cursors, got>>
  PROVE  PagesInv'
<1>1. batch' = NoBatch /\ lost' = lost /\ cursors' = cursors /\ got' = got
  BY DEF Over
<1>2. \A q \in Person : ~Underway(q) /\ ~Underway(q)'
  BY <1>1 DEF Underway
<1>3. \A q \in Person : Lacking(q)' = Lacking(q)
  BY <1>1, <1>2 DEF Lacking
<1> QED BY <1>1, <1>2, <1>3 DEF PagesInv

LEMMA TransmitKeeps ==
  ASSUME PagesInv, TransmitPage
  PROVE  PagesInv'
<1>1. CASE Over(FALSE)
  BY <1>1, OverKeeps DEF TransmitPage
<1>2. CASE batch' = [batch EXCEPT !.place = "sending"] /\ lost' = lost
  <2>1. batch # NoBatch /\ batch.place = "hold" /\ cursors' = cursors /\ got' = got /\ lost' = lost
    BY <1>2 DEF TransmitPage
  <2>2. batch' = Moved(batch, "sending", batch.page)
    <3>1. Batch(batch)
      BY <2>1 DEF PagesInv
    <3>2. DOMAIN batch = {"person", "list", "expected", "page", "count", "text", "place"}
      BY <3>1 DEF Batch
    <3> QED BY <1>2, <3>2 DEF Moved
  <2>3. /\ Batch(batch') /\ batch'.person = batch.person /\ batch'.list = batch.list
        /\ batch'.text = batch.text /\ batch'.place = "sending"
    BY <2>1, <2>2, BatchMoved DEF PagesInv
  <2>4. Shows(batch') /\ batch' # NoBatch
    BY <2>1, <2>3 DEF PagesInv, Shows, NoBatch
  <2>5. \A q \in Person : Underway(q)' = Underway(q)
    BY <2>1, <2>3, <2>4 DEF Underway
  <2>6. \A q \in Person : Lacking(q)' = Lacking(q)
    BY <2>1, <2>5 DEF Lacking
  <2> QED BY <2>1, <2>3, <2>4, <2>5, <2>6 DEF PagesInv
<1> QED BY <1>1, <1>2 DEF TransmitPage

(* The page arrived, whether the batch goes on or not.                     *)
LEMMA SentKeeps ==
  ASSUME PagesInv, PageSent
  PROVE  PagesInv'
<1> DEFINE p == batch.person
<1>1. CASE Over(FALSE) /\ UNCHANGED got
  BY <1>1, OverKeeps DEF PageSent
<1>2. CASE /\ got' = IF batch.text = None THEN got ELSE [got EXCEPT ![p] = @ \cup {batch.text.index}]
           /\ IF batch.page = batch.count THEN Over(TRUE)
              ELSE batch' = [batch EXCEPT !.place = "between", !.page = @ + 1] /\ UNCHANGED lost
  <2>1. /\ batch # NoBatch /\ batch.place = "sending" /\ cursors' = cursors /\ lost' = lost
        /\ p \in Person
    BY <1>2 DEF PageSent, Over, PagesInv, Batch
  <2>2. batch' = NoBatch \/ (Batch(batch') /\ Shows(batch') /\ batch'.place = "between")
    <3>1. CASE batch.page = batch.count
      BY <1>2, <3>1 DEF Over
    <3>2. CASE batch.page # batch.count
      <4>1. PICK next : next = batch.page + 1
        OBVIOUS
      <4>2. batch' = Moved(batch, "between", next)
        BY <1>2, <3>2, <4>1 DEF Moved
      <4>3. /\ Batch(batch') /\ batch'.list = batch.list /\ batch'.text = batch.text
            /\ batch'.place = "between"
        BY <2>1, <4>2, BatchMoved DEF PagesInv
      <4> QED BY <2>1, <4>3 DEF PagesInv, Shows
    <3> QED BY <3>1, <3>2
  <2>3. \A q \in Person : ~Underway(q)'
    BY <2>2 DEF Underway
  <2>4. \A q \in Person : Lacking(q)' = (1 .. cursors[q].index) \ got'[q]
    BY <2>1, <2>3 DEF Lacking
  <2>5. DOMAIN got' = Person
    BY <1>2 DEF PagesInv
  <2>6. ASSUME NEW q \in Person, ~Underway(q) PROVE Lacking(q)' = Lacking(q)
    <3>1. got'[q] = got[q]
      BY <1>2, <2>1, <2>6 DEF PagesInv, Underway
    <3> QED BY <2>4, <2>6, <3>1 DEF Lacking
  <2>7. ASSUME NEW q \in Person, Underway(q), cursors[q] # None
        PROVE  Cardinality(Lacking(q)') <= lost'[q]
    <3>1. PICK n \in Nat \ {0} : n = cursors[q].index /\ n = batch.text.index
      BY <2>7 DEF PagesInv
    <3>2. q = p /\ got'[q] = got[q] \cup {n}
      BY <1>2, <2>7, <3>1 DEF PagesInv, Underway
    <3>3. Cardinality((1 .. n - 1) \ got[q]) <= lost[q] /\ lost[q] \in Nat
      BY <2>7, <3>1 DEF PagesInv, Lacking
    <3>4. Cardinality((1 .. n) \ (got[q] \cup {n})) <= lost[q]
      BY <3>3, OneMore
    <3> QED BY <2>1, <2>4, <3>1, <3>2, <3>4
  <2> QED BY <2>1, <2>2, <2>3, <2>5, <2>6, <2>7 DEF PagesInv
<1> QED BY <1>1, <1>2 DEF PageSent

LEMMA NextKeeps ==
  ASSUME PagesInv, NextPage
  PROVE  PagesInv'
<1>1. CASE Unchanged /\ Prepare(batch, "cont")
  <2>1. batch.list = Items /\ Batch(batch) /\ batch.place = "between"
    BY <1>1 DEF NextPage, Unchanged, PagesInv
  <2> QED BY <1>1, <2>1, PrepareKeeps
<1>2. CASE Over(TRUE) /\ UNCHANGED <<cursors, got>>
  BY <1>2, EndsBetween DEF NextPage
<1> QED BY <1>1, <1>2 DEF NextPage

LEMMA AskKeeps ==
  ASSUME PagesInv, world \in Worlds, NEW q \in world.requests, Ask(q)
  PROVE  PagesInv'
<1>1. PICK person, count, expected, b :
        /\ person = AskerOf[q]
        /\ b = [person |-> person, list |-> Items, expected |-> expected, page |-> 1,
                count |-> count, text |-> None, place |-> "hold"]
        /\ Prepare(b, CommandOf[q])
  BY DEF Ask
<1>2. person \in Person
  BY <1>1, ChannelAssumption
<1>3. Batch(b) /\ b.list = Items
  <2>1. /\ b.person = person /\ b.list = Items /\ b.expected = expected /\ b.page = 1
        /\ b.count = count /\ b.text = None /\ b.place = "hold"
    BY <1>1
  <2> QED BY <1>1, <1>2, <2>1 DEF Batch
<1>4. batch = NoBatch
  BY DEF Ask
<1> QED BY <1>1, <1>3, <1>4, PrepareKeeps

LEMMA PagesNext == ReceiptsInv /\ PagesInv /\ [ChannelNext]_channelVars => PagesInv'
<1> SUFFICES ASSUME ReceiptsInv, PagesInv, [ChannelNext]_channelVars PROVE PagesInv'
  OBVIOUS
<1>1. world \in Worlds
  BY DEF ReceiptsInv
<1>2. ASSUME NEW q \in world.requests, Ask(q) PROVE PagesInv'
  BY <1>1, <1>2, AskKeeps
<1>3. CASE End
  <2>1. /\ batch' = NoBatch /\ cursors' = [p \in Person |-> None]
        /\ got' = [p \in Person |-> {}] /\ lost' = [p \in Person |-> 0]
    BY <1>3 DEF End
  <2>2. \A p \in Person : ~Underway(p)'
    BY <2>1 DEF Underway
  <2> QED BY <2>1, <2>2 DEF PagesInv
<1>4. CASE UNCHANGED pages
  BY <1>4 DEF pages, PagesInv, Lacking, Underway
<1> QED BY <1>1, <1>2, <1>3, <1>4, PageSteps, TransmitKeeps, SentKeeps, NextKeeps

LEMMA PagesInit == ChannelInit => PagesInv
<1> SUFFICES ASSUME ChannelInit PROVE PagesInv
  OBVIOUS
<1>1. /\ batch = NoBatch /\ cursors = [p \in Person |-> None]
      /\ got = [p \in Person |-> {}] /\ lost = [p \in Person |-> 0]
  BY DEF ChannelInit
<1>2. \A p \in Person : ~Underway(p)
  BY <1>1 DEF Underway
<1> QED BY <1>1, <1>2 DEF PagesInv

LEMMA PagesInvariant == ChannelSpec => []PagesInv
BY PagesInit, PagesNext, ReceiptsInvariant, PTL DEF ChannelSpec

(* Of the pages up to his cursor a reader lacks no more than one for each  *)
(* batch that broke off, and the one under way: for any list, however it   *)
(* changes, and any number of readers (TrafficChannel.answer, which moves  *)
(* the cursor before the transmission).                                    *)
THEOREM NothingSkippedAlways == ChannelSpec => []NothingSkipped
<1>1. PagesInv => NothingSkipped
  <2> SUFFICES ASSUME PagesInv, NEW p \in Person, cursors[p] # None
               PROVE  Cardinality((1 .. cursors[p].index) \ got[p])
                        <= lost[p] + (IF batch # NoBatch /\ batch.person = p /\ batch.place # "between" THEN 1 ELSE 0)
    BY DEF NothingSkipped
  <2>1. PICK n \in Nat \ {0} : n = cursors[p].index
    BY DEF PagesInv
  <2>2. Cardinality(Lacking(p)) <= lost[p] /\ lost[p] \in Nat
    BY DEF PagesInv
  <2>3. CASE Underway(p)
    <3>1. Cardinality((1 .. n - 1) \ got[p]) <= lost[p]
      BY <2>1, <2>2, <2>3 DEF Lacking
    <3>2. Cardinality((1 .. n) \ got[p]) <= lost[p] + 1
      BY <2>2, <3>1, OneMore
    <3> QED BY <2>1, <2>3, <3>2 DEF Underway
  <2>4. CASE ~Underway(p)
    <3>1. Cardinality((1 .. n) \ got[p]) <= lost[p]
      BY <2>1, <2>2, <2>4 DEF Lacking
    <3>2. Cardinality((1 .. n) \ got[p]) \in Nat
      <4>1. 1 \in Int /\ n \in Int
        OBVIOUS
      <4>2. IsFiniteSet(1 .. n)
        BY <4>1, FS_Interval
      <4> QED BY <4>2, FS_Subset, FS_CardinalityType
    <3>3. PICK m \in Nat : m = Cardinality((1 .. n) \ got[p])
      BY <3>2
    <3>4. m <= lost[p] /\ m <= lost[p] + 1
      BY <2>2, <3>1, <3>3
    <3> QED BY <2>1, <2>2, <3>3, <3>4
  <2> QED BY <2>3, <2>4
<1> QED BY <1>1, PagesInvariant, PTL

(* A page goes to the radio only as the list is at that moment: its number *)
(* still counts the same reports (_handle_traffic_channel,                 *)
(* validate_report).                                                       *)
THEOREM OneListAlways == ChannelSpec => OneList
<1> DEFINE Body ==
      batch # NoBatch /\ batch.place = "hold" /\ batch.text # None /\ batch' # NoBatch /\ batch'.place = "sending" =>
        /\ batch.text.of = Len(Items)
        /\ batch.text.item = Items[batch.text.index]
<1>1. ReceiptsInv /\ PagesInv /\ [ChannelNext]_channelVars => Body
  <2> SUFFICES ASSUME ReceiptsInv, PagesInv, [ChannelNext]_channelVars,
                      batch # NoBatch, batch.place = "hold", batch.text # None,
                      batch' # NoBatch, batch'.place = "sending"
               PROVE  batch.text.of = Len(Items) /\ batch.text.item = Items[batch.text.index]
    BY Zenon
  <2>1. TransmitPage
    BY PageSteps DEF ReceiptsInv, Ask, PageSent, NextPage, End, pages
  <2>2. batch.list = Items
    BY <2>1 DEF TransmitPage, Over, Unchanged
  <2>3. Shows(batch)
    BY DEF PagesInv
  <2> QED BY <2>2, <2>3 DEF Shows
<1>2. ChannelSpec => [][Body]_channelVars
  BY <1>1, ReceiptsInvariant, PagesInvariant, PTL DEF ChannelSpec
<1> QED BY <1>2 DEF OneList


-----------------------------------------------------------------------------
(* What listeners are told *)

Pair(record) == [latest |-> record.latest, aliases |-> record.aliases]

RecordParts ==
  {"latest", "aliases", "announced", "at", "baseline", "reminded", "conflict", "order", "observations"}

(* A record says of its closure only what the notices do, and is where the *)
(* first of them put it.                                                   *)
Says(N, k, record) ==
  /\ record.latest.about \in Closure
  /\ DOMAIN record = RecordParts
  /\ Pair(record) \in Records(N, record.latest.about)
  /\ \E n \in About(N, record.latest.about) : k = EventKey(n)

Consistent(N, h) == \A k \in DOMAIN h : Says(N, k, h[k])

(* The record without a schedule, and the one with.                        *)
Dated(record) == record.latest.start # None

Undated(N, k, record) == k[2] = None /\ Pair(record) \in Records(CalledOff(N), record.latest.about)

Single(N, h) ==
  /\ \A k \in DOMAIN h : Dated(h[k]) \/ Undated(N, k, h[k])
  /\ \A k, l \in DOMAIN h : Dated(h[k]) /\ Dated(h[l]) /\ h[k].latest.about = h[l].latest.about => k = l

(* What was announced of a record stays, and what it is about.             *)
Continues(h, g) ==
  /\ DOMAIN h \subseteq DOMAIN g
  /\ \A k \in DOMAIN h : /\ g[k].announced = h[k].announced /\ g[k].at = h[k].at
                         /\ g[k].latest.about = h[k].latest.about
  /\ \A k \in DOMAIN g \ DOMAIN h : g[k].announced = None

StaysDated(h, g) == \A k \in DOMAIN h : Dated(h[k]) => Dated(g[k])

(* The notices of a world.                                                 *)
Notices(N) == IsFiniteSet(N) /\ \A n \in N : IsNotice(n) /\ n.about \in Closure

LEMMA AccountIs ==
  ASSUME NEW N, Notices(N), NEW c, NEW n \in About(N, c), NEW s \in About(N, c), NEW g \in About(N, c),
         NEW a, a = Account(n, s, g)
  PROVE  /\ a \in Accounts(N, c) /\ DOMAIN a = Parts
         /\ a.about = c /\ a.source = n.source
         /\ a.published = n.published /\ a.status = n.status /\ a.reinstated = n.reinstated
         /\ a.start = s.start /\ a.end = s.end /\ a.timing = s.timing /\ a.precise = s.precise
         /\ a.restriction = g.restriction /\ a.segment = g.segment
<1>1. DOMAIN n = Parts /\ n.about = c
  BY DEF About, Notices, IsNotice
<1>2. a \in Accounts(N, c)
  BY DEF Accounts
<1> QED BY <1>1, <1>2 DEF Account, Parts

(* A notice that needs no completion is an account of its own.             *)
LEMMA NoticeIsAccount ==
  ASSUME NEW N, Notices(N), NEW c, NEW n \in About(N, c), ~n.inherit
  PROVE  n \in Accounts(N, c) /\ n.about = c /\ n = Account(n, n, n)
<1>1. /\ DOMAIN n = Parts /\ n = [part \in Parts |-> n[part]] /\ n.about = c /\ n.inherit = FALSE
  BY DEF About, Notices, IsNotice
<1>2. \A part \in Parts : Account(n, n, n)[part] = n[part]
  BY <1>1 DEF Account
<1>3. Account(n, n, n) = [part \in Parts |-> Account(n, n, n)[part]]
  BY <1>1 DEF Account
<1>4. n = Account(n, n, n)
  BY <1>1, <1>2, <1>3
<1> QED BY <1>1, <1>4 DEF Accounts

LEMMA CompletedIs ==
  ASSUME NEW N, Notices(N), NEW c, NEW n \in About(N, c), NEW old \in Accounts(N, c)
  PROVE  /\ Completed(n, old) \in Accounts(N, c)
         /\ Completed(n, old).source = n.source /\ Completed(n, old).status = n.status
         /\ Completed(n, old).published = n.published /\ Completed(n, old).reinstated = n.reinstated
         /\ old.start # None /\ (n.start # None \/ n.status \in Terminal \/ n.inherit)
              => Completed(n, old).start # None
<1>1. PICK m, s, g \in About(N, c) : old = Account(m, s, g)
  BY DEF Accounts
<1>2. /\ old.start = s.start /\ old.end = s.end /\ old.timing = s.timing /\ old.precise = s.precise
      /\ old.restriction = g.restriction /\ old.segment = g.segment
  BY <1>1, AccountIs
<1>3. /\ DOMAIN n = Parts /\ n = [part \in Parts |-> n[part]] /\ n.about = c /\ n.inherit \in BOOLEAN
  BY DEF About, Notices, IsNotice
<1> DEFINE off == n.status \in Terminal /\ n.start = None
<1>4. CASE off /\ n.inherit
  <2>1. Completed(n, old) = Account(n, s, g)
    BY <1>2, <1>3, <1>4, ZenonT(60) DEF Completed, Account, Parts
  <2>2. PICK a : a = Completed(n, old)
    OBVIOUS
  <2> QED BY <1>2, <2>1, <2>2, AccountIs
<1>5. CASE off /\ ~n.inherit
  <2>1. Completed(n, old) = Account(n, s, g)
    BY <1>2, <1>3, <1>5, ZenonT(60) DEF Completed, Account, Parts
  <2>2. PICK a : a = Completed(n, old)
    OBVIOUS
  <2> QED BY <1>2, <2>1, <2>2, AccountIs
<1>6. CASE ~off /\ n.inherit
  <2>1. Completed(n, old) = Account(n, s, n)
    BY <1>2, <1>3, <1>6, ZenonT(60) DEF Completed, Account, Parts
  <2>2. PICK a : a = Completed(n, old)
    OBVIOUS
  <2> QED BY <1>2, <2>1, <2>2, AccountIs
<1>7. CASE ~off /\ ~n.inherit
  <2>1. Completed(n, old) = n
    BY <1>7 DEF Completed
  <2>2. n \in Accounts(N, c)
    BY <1>7, NoticeIsAccount
  <2> QED BY <1>7, <2>1, <2>2
<1> QED BY <1>3, <1>4, <1>5, <1>6, <1>7


(* What it takes to be a record of a closure.                              *)
LEMMA RecordsAre ==
  ASSUME NEW N, NEW c, NEW latest, NEW aliases
  PROVE  [latest |-> latest, aliases |-> aliases] \in Records(N, c)
           <=> /\ latest \in Accounts(N, c) /\ latest.source \in aliases
               /\ aliases \in SUBSET {n.source : n \in About(N, c)}
<1> PICK known : known = [latest |-> latest, aliases |-> aliases]
  OBVIOUS
<1>1. known.latest = latest /\ known.aliases = aliases
  OBVIOUS
<1>2. known \in [latest : Accounts(N, c), aliases : SUBSET {n.source : n \in About(N, c)}]
        <=> latest \in Accounts(N, c) /\ aliases \in SUBSET {n.source : n \in About(N, c)}
  OBVIOUS
<1> QED BY <1>1, <1>2 DEF Records

LEMMA AccountsAre ==
  ASSUME NEW N, Notices(N), NEW c, NEW a \in Accounts(N, c)
  PROVE  a.about = c /\ a.source \in {n.source : n \in About(N, c)}
<1>1. PICK n, s, g \in About(N, c) : a = Account(n, s, g)
  BY DEF Accounts
<1> QED BY <1>1, AccountIs

(* A notice is read into a record of its closure.                          *)
LEMMA RevisedIs ==
  ASSUME NEW record, DOMAIN record = RecordParts, NEW m, NEW t, NEW r, r = Revised(record, m, t)
  PROVE  /\ DOMAIN r = RecordParts
         /\ r.announced = record.announced /\ r.at = record.at
         /\ r.aliases = record.aliases \cup {m.source}
         /\ r.latest \in {record.latest, m}
<1> DEFINE known == [record EXCEPT !.aliases = @ \cup {m.source}]
<1>1. /\ DOMAIN known = RecordParts
      /\ known.announced = record.announced /\ known.at = record.at /\ known.latest = record.latest
      /\ known.aliases = record.aliases \cup {m.source}
  BY DEF RecordParts
<1> HIDE DEF known
<1>2. PICK order : order = OrderOf(m, record, t)
  OBVIOUS
<1>3. PICK seen1 : seen1 = (m.source :> [print |-> FactsOf(m), order |-> order]) @@ known.observations
  OBVIOUS
<1> DEFINE noted == [known EXCEPT !.observations = seen1]
<1>4. /\ DOMAIN noted = RecordParts
      /\ noted.announced = record.announced /\ noted.at = record.at /\ noted.latest = record.latest
      /\ noted.aliases = record.aliases \cup {m.source}
  BY <1>1 DEF RecordParts
<1>5. r \in {known, noted, [noted EXCEPT !.conflict = TRUE],
             [noted EXCEPT !.latest = m, !.order = order, !.conflict = FALSE]}
  BY <1>2, <1>3 DEF Revised, known
<1> HIDE DEF noted
<1> QED BY <1>1, <1>4, <1>5 DEF RecordParts

LEMMA RevisedSays ==
  ASSUME NEW N, Notices(N), NEW k, NEW record, Says(N, k, record),
         NEW m \in Accounts(N, record.latest.about), NEW t, NEW r, r = Revised(record, m, t)
  PROVE  /\ Says(N, k, r)
         /\ r.announced = record.announced /\ r.at = record.at
         /\ r.latest.about = record.latest.about /\ r.latest \in {record.latest, m}
         /\ r.aliases = record.aliases \cup {m.source}
<1> PICK c : c = record.latest.about
  OBVIOUS
<1>1. /\ DOMAIN r = RecordParts
      /\ r.announced = record.announced /\ r.at = record.at
      /\ r.aliases = record.aliases \cup {m.source} /\ r.latest \in {record.latest, m}
  BY RevisedIs DEF Says
<1>2. /\ record.latest \in Accounts(N, c) /\ record.latest.source \in record.aliases
      /\ record.aliases \in SUBSET {n.source : n \in About(N, c)}
  BY RecordsAre DEF Says, Pair
<1>3. m.about = c /\ m.source \in {n.source : n \in About(N, c)}
  BY AccountsAre
<1>4. r.latest \in Accounts(N, c) /\ r.latest.about = c /\ r.latest.source \in r.aliases
      /\ r.aliases \in SUBSET {n.source : n \in About(N, c)}
  BY <1>1, <1>2, <1>3
<1>5. Pair(r) \in Records(N, c)
  BY <1>4, RecordsAre DEF Pair
<1> QED BY <1>1, <1>4, <1>5 DEF Says

LEMMA FoundedSays ==
  ASSUME NEW N, Notices(N), NEW c \in Closure, NEW n \in About(N, c), ~n.inherit, NEW silent,
         NEW f, f = Founded(n, silent)
  PROVE  /\ Says(N, EventKey(n), f)
         /\ f.announced = None /\ f.latest = n /\ f.aliases = {n.source} /\ f.latest.about = c
<1>1. /\ DOMAIN f = RecordParts
      /\ f.announced = None /\ f.latest = n /\ f.aliases = {n.source}
  BY DEF Founded, RecordParts
<1>2. n \in Accounts(N, c) /\ n.about = c
  BY NoticeIsAccount
<1>3. Pair(f) \in Records(N, c)
  BY <1>1, <1>2, RecordsAre DEF Pair
<1> QED BY <1>1, <1>2, <1>3 DEF Says


LEMMA CalledOffNotices ==
  ASSUME NEW N, Notices(N)
  PROVE  Notices(CalledOff(N)) /\ \A c : About(CalledOff(N), c) \subseteq About(N, c)
<1>1. CalledOff(N) \subseteq N
  BY DEF CalledOff
<1>2. IsFiniteSet(CalledOff(N))
  BY <1>1, FS_Subset DEF Notices
<1> QED BY <1>1, <1>2 DEF Notices, About

(* Records that say the same are as consistent.                            *)
LEMMA SameWords ==
  ASSUME NEW N, NEW h, NEW g, Consistent(N, h), DOMAIN g = DOMAIN h,
         \A k \in DOMAIN h : /\ DOMAIN g[k] = DOMAIN h[k]
                             /\ g[k].latest = h[k].latest /\ g[k].aliases = h[k].aliases
  PROVE  /\ Consistent(N, g)
         /\ Single(N, h) => Single(N, g) /\ StaysDated(h, g)
<1>1. Consistent(N, g)
  BY DEF Consistent, Says, Pair
<1>2. ASSUME Single(N, h) PROVE Single(N, g) /\ StaysDated(h, g)
  BY <1>2 DEF Single, StaysDated, Dated, Undated, Pair
<1> QED BY <1>1, <1>2

(* A notice, or what completes it, is read into a record of its closure.   *)
LEMMA ReadsInto ==
  ASSUME NEW N, Notices(N), NEW h, Consistent(N, h), NEW key \in DOMAIN h,
         NEW m \in Accounts(N, h[key].latest.about), NEW t, NEW g,
         g = [h EXCEPT ![key] = Revised(@, m, t)]
  PROVE  /\ DOMAIN g = DOMAIN h /\ Consistent(N, g) /\ Continues(h, g)
         /\ Single(N, h) /\ (IF Dated(h[key]) THEN m.start # None
                             ELSE m \in Accounts(CalledOff(N), h[key].latest.about))
              => Single(N, g) /\ StaysDated(h, g)
<1>1. PICK record, r : record = h[key] /\ r = Revised(record, m, t)
  OBVIOUS
<1>2. DOMAIN g = DOMAIN h /\ g[key] = r /\ \A k \in DOMAIN h : k # key => g[k] = h[k]
  BY <1>1
<1>3. PICK c : c = record.latest.about
  OBVIOUS
<1>4. Says(N, key, record)
  BY <1>1 DEF Consistent
<1>5. /\ Says(N, key, r) /\ r.announced = record.announced /\ r.at = record.at
      /\ r.latest.about = record.latest.about /\ r.latest \in {record.latest, m}
      /\ r.aliases = record.aliases \cup {m.source}
  BY <1>1, <1>4, RevisedSays
<1>6. Consistent(N, g)
  BY <1>1, <1>2, <1>5 DEF Consistent
<1>7. Continues(h, g)
  BY <1>1, <1>2, <1>5 DEF Continues
<1>8. ASSUME Single(N, h),
             IF Dated(h[key]) THEN m.start # None ELSE m \in Accounts(CalledOff(N), h[key].latest.about)
      PROVE  Single(N, g) /\ StaysDated(h, g)
  <2>1. CASE Dated(record)
    <3>1. Dated(r)
      BY <1>1, <1>5, <1>8, <2>1 DEF Dated
    <3>2. \A k \in DOMAIN h : (Dated(g[k]) <=> Dated(h[k])) /\ g[k].latest.about = h[k].latest.about
      BY <1>1, <1>2, <1>5, <2>1, <3>1
    <3>3. \A k \in DOMAIN h : Dated(g[k]) \/ Undated(N, k, g[k])
      BY <1>1, <1>2, <1>8, <2>1, <3>1 DEF Single
    <3> QED BY <1>2, <1>8, <3>2, <3>3 DEF Single, StaysDated
  <2>2. CASE ~Dated(record)
    <3>1. m \in Accounts(CalledOff(N), c) /\ Undated(N, key, record)
      BY <1>1, <1>3, <1>8, <2>2 DEF Single
    <3>2. /\ record.latest \in Accounts(CalledOff(N), c) /\ record.latest.source \in record.aliases
          /\ record.aliases \in SUBSET {n.source : n \in About(CalledOff(N), c)}
      BY <1>3, <3>1, RecordsAre DEF Undated, Pair
    <3>3. m.source \in {n.source : n \in About(CalledOff(N), c)}
      BY <3>1, CalledOffNotices, AccountsAre
    <3>4. Pair(r) \in Records(CalledOff(N), c)
      <4>1. /\ r.latest \in Accounts(CalledOff(N), c) /\ r.latest.source \in r.aliases
            /\ r.aliases \in SUBSET {n.source : n \in About(CalledOff(N), c)}
        BY <1>5, <3>1, <3>2, <3>3
      <4> QED BY <4>1, RecordsAre DEF Pair
    <3>5. ~Dated(r)
      <4>1. \A a \in Accounts(CalledOff(N), c) : a.start = None
        <5> SUFFICES ASSUME NEW a \in Accounts(CalledOff(N), c) PROVE a.start = None
          OBVIOUS
        <5>1. PICK n, s, f \in About(CalledOff(N), c) : a = Account(n, s, f)
          BY DEF Accounts
        <5>2. a.start = s.start
          BY <5>1, CalledOffNotices, AccountIs
        <5> QED BY <5>2 DEF About, CalledOff
      <4> QED BY <1>5, <3>1, <3>2, <4>1 DEF Dated
    <3>6. \A k \in DOMAIN h : (Dated(g[k]) <=> Dated(h[k])) /\ g[k].latest.about = h[k].latest.about
      BY <1>1, <1>2, <1>5, <2>2, <3>5
    <3>7. Undated(N, key, r)
      BY <1>3, <1>5, <3>1, <3>4 DEF Undated
    <3>8. \A k \in DOMAIN h : Dated(g[k]) \/ Undated(N, k, g[k])
      BY <1>2, <1>8, <3>6, <3>7 DEF Single
    <3> QED BY <1>2, <1>8, <3>6, <3>8 DEF Single, StaysDated
  <2> QED BY <2>1, <2>2
<1> QED BY <1>2, <1>6, <1>7, <1>8

(* A notice founds a record.                                               *)
LEMMA Founds ==
  ASSUME NEW N, Notices(N), NEW h, Consistent(N, h), NEW n \in N, ~n.inherit,
         EventKey(n) \notin DOMAIN h, NEW silent, NEW g,
         g = [k \in DOMAIN h \cup {EventKey(n)} |-> IF k = EventKey(n) THEN Founded(n, silent) ELSE h[k]]
  PROVE  /\ DOMAIN g = DOMAIN h \cup {EventKey(n)} /\ Consistent(N, g) /\ Continues(h, g)
         /\ /\ Single(N, h) 
            /\ IF n.start # None THEN \A k \in DOMAIN h : Dated(h[k]) => h[k].latest.about # n.about
               ELSE n \in CalledOff(N)
            => Single(N, g) /\ StaysDated(h, g)
<1>1. PICK key, f, c : key = EventKey(n) /\ f = Founded(n, silent) /\ c = n.about
  OBVIOUS
<1>2. c \in Closure /\ n \in About(N, c)
  BY <1>1 DEF Notices, About
<1>3. /\ Says(N, key, f)
      /\ f.announced = None /\ f.latest = n /\ f.aliases = {n.source} /\ f.latest.about = c
  BY <1>1, <1>2, FoundedSays
<1>4. DOMAIN g = DOMAIN h \cup {key} /\ key \notin DOMAIN h /\ g[key] = f /\ \A k \in DOMAIN h : g[k] = h[k]
  BY <1>1
<1>5. Consistent(N, g)
  BY <1>3, <1>4 DEF Consistent
<1>6. Continues(h, g)
  BY <1>3, <1>4 DEF Continues
<1>7. ASSUME Single(N, h),
             IF n.start # None THEN \A k \in DOMAIN h : Dated(h[k]) => h[k].latest.about # n.about
             ELSE n \in CalledOff(N)
      PROVE  Single(N, g) /\ StaysDated(h, g)
  <2>1. Dated(f) \/ Undated(N, key, f)
    <3>1. CASE n.start # None
      BY <1>3, <3>1 DEF Dated
    <3>2. CASE n.start = None
      <4>1. n \in About(CalledOff(N), c)
        BY <1>1, <1>7, <3>2 DEF About
      <4>2. n \in Accounts(CalledOff(N), c)
        BY <4>1, CalledOffNotices, NoticeIsAccount
      <4>3. Pair(f) \in Records(CalledOff(N), c)
        BY <1>3, <4>1, <4>2, RecordsAre DEF Pair
      <4>4. key[2] = None
        BY <1>1, <3>2 DEF EventKey
      <4> QED BY <1>3, <4>3, <4>4 DEF Undated
    <3> QED BY <3>1, <3>2
  <2>2. \A k \in DOMAIN g : Dated(g[k]) \/ Undated(N, k, g[k])
    BY <1>4, <1>7, <2>1 DEF Single
  <2>3. ASSUME NEW k \in DOMAIN g, NEW l \in DOMAIN g, Dated(g[k]), Dated(g[l]),
               g[k].latest.about = g[l].latest.about
        PROVE  k = l
    <3>1. \A x \in DOMAIN h : Dated(h[x]) /\ Dated(f) => h[x].latest.about # c
      BY <1>1, <1>3, <1>7 DEF Dated
    <3> QED BY <1>3, <1>4, <1>7, <2>3, <3>1 DEF Single
  <2> QED BY <1>4, <2>2, <2>3 DEF Single, StaysDated
<1> QED BY <1>1, <1>4, <1>5, <1>6, <1>7


(* Records that differ at most in what the city has yet to say of them.    *)
SameRecords(h, g) ==
  /\ DOMAIN g = DOMAIN h
  /\ \A k \in DOMAIN h : /\ DOMAIN g[k] = DOMAIN h[k]
                         /\ g[k].latest = h[k].latest /\ g[k].aliases = h[k].aliases
                         /\ g[k].announced = h[k].announced /\ g[k].at = h[k].at

(* A notice is read into a record, as it is or completed from it.          *)
ReadAs(N, record, n, m) ==
  /\ n \in About(N, record.latest.about) /\ m \in Accounts(N, record.latest.about)
  /\ m.source = n.source /\ m.status = n.status
  /\ m.published = n.published /\ m.reinstated = n.reinstated

KeepsDate(N, record, m) ==
  IF Dated(record) THEN m.start # None ELSE m \in Accounts(CalledOff(N), record.latest.about)

Reads(N, h, g, key, n, m, t) == ReadAs(N, h[key], n, m) /\ g = [h EXCEPT ![key] = Revised(@, m, t)]

(* Or it founds a record.                                                  *)
Begins(N, h, g, n, silent) ==
  /\ ~n.inherit /\ EventKey(n) \notin DOMAIN h
  /\ g = [k \in DOMAIN h \cup {EventKey(n)} |-> IF k = EventKey(n) THEN Founded(n, silent) ELSE h[k]]
  /\ n.start = None => n \in CalledOff(N)

(* One notice is read: it contradicts, or is not used, or is read into a   *)
(* record, or founds one.                                                  *)
Merges(w, N, h, g, n, t, silent) ==
  \/ SameRecords(h, g)
  \/ \E key \in DOMAIN h, m \in Accounts(N, n.about) :
       /\ Reads(N, h, g, key, n, m, t)
       /\ Recognised(w) /\ Single(N, h) => KeepsDate(N, h[key], m)
  \/ /\ Begins(N, h, g, n, silent)
     /\ Recognised(w) => \A k \in DOMAIN h : Dated(h[k]) => h[k].latest.about # n.about

LEMMA MergeIs ==
  ASSUME NEW w \in Worlds, Identified(w), NEW N, N = w.notices, Notices(N), NEW n \in N,
         NEW t, NEW silent, Readable(n, t),
         NEW known, NEW h, h = known.history, Consistent(N, h), known.active \subseteq DOMAIN h,
         NEW out, out = Merge(known, n, t, silent), NEW g, g = out.history
  PROVE  /\ out.active \subseteq DOMAIN g
         /\ Merges(w, N, h, g, n, t, silent)
<1> DEFINE matches == {k \in DOMAIN h : SameEvent(n, h[k])}
<1>1. PICK c \in Closure : c = n.about /\ n \in About(N, c)
  BY DEF Notices, About
<1>2. ASSUME NEW k \in DOMAIN h
      PROVE  /\ Says(N, k, h[k]) /\ Pair(h[k]) \in Records(N, h[k].latest.about)
             /\ h[k].latest.about \in Closure
             /\ SameEvent(n, h[k]) <=> SameEvent(n, Pair(h[k]))
             /\ SameEvent(n, h[k]) => h[k].latest.about = c
  <2>1. Says(N, k, h[k])
    BY DEF Consistent
  <2>2. SameEvent(n, h[k]) <=> SameEvent(n, Pair(h[k]))
    BY DEF SameEvent, Pair
  <2>3. Pair(h[k]) \in Records(N, h[k].latest.about) /\ h[k].latest.about \in Closure
    BY <2>1 DEF Says
  <2> QED BY <1>1, <2>1, <2>2, <2>3 DEF Identified
<1>3. ASSUME Recognised(w), NEW k \in DOMAIN h, Dated(h[k]), h[k].latest.about = c
      PROVE  k \in matches
  <2>1. PICK rec : rec = Pair(h[k])
    OBVIOUS
  <2>2. rec \in Records(N, c) /\ rec.latest = h[k].latest
    BY <1>2, <1>3, <2>1 DEF Pair
  <2>3. SameEvent(n, rec)
    BY <1>1, <1>3, <2>2 DEF Recognised, Dated
  <2> QED BY <1>2, <2>1, <2>3
<1>4. CASE Cardinality(matches) > 1
  <2>1. /\ g = [k \in DOMAIN h |-> IF k \in matches THEN [h[k] EXCEPT !.conflict = TRUE] ELSE h[k]]
        /\ out.active = known.active \cup matches
    BY <1>4 DEF Merge
  <2>2. ASSUME NEW k \in DOMAIN h
        PROVE  /\ DOMAIN g[k] = DOMAIN h[k]
               /\ g[k].latest = h[k].latest /\ g[k].aliases = h[k].aliases
               /\ g[k].announced = h[k].announced /\ g[k].at = h[k].at
    <3>1. DOMAIN h[k] = RecordParts
      BY <1>2 DEF Says
    <3>2. g[k] = h[k] \/ g[k] = [h[k] EXCEPT !.conflict = TRUE]
      BY <2>1
    <3> QED BY <3>1, <3>2 DEF RecordParts
  <2>3. DOMAIN g = DOMAIN h
    BY <2>1
  <2> HIDE DEF matches
  <2>4. out.active \subseteq DOMAIN g
    BY <2>1, <2>3 DEF matches
  <2> QED BY <2>2, <2>3, <2>4 DEF SameRecords, Merges
<1>5. CASE ~(Cardinality(matches) > 1) /\ matches = {}
  <2>1. CASE n.inherit
    <3>1. out = known
      BY <1>5, <2>1 DEF Merge
    <3> QED BY <3>1 DEF SameRecords, Merges
  <2>2. CASE ~n.inherit /\ EventKey(n) \in DOMAIN h
    <3>1. PICK key \in DOMAIN h : key = EventKey(n)
      BY <2>2
    <3>2. g = [h EXCEPT ![key] = Revised(@, n, t)] /\ out.active \subseteq known.active \cup {key}
      BY <1>5, <2>2, <3>1 DEF Merge
    <3>3. h[key].latest.about = c
      <4>1. PICK m \in About(N, h[key].latest.about) : key = EventKey(m)
        BY <1>2 DEF Says
      <4>2. PICK d \in Closure : d = h[key].latest.about
        BY <1>2
      <4>3. n.about = d
        <5>1. n \in w.notices /\ m \in About(w.notices, d) /\ EventKey(n) = EventKey(m)
          BY <3>1, <4>1, <4>2
        <5> HIDE DEF matches
        <5>2. \A x \in w.notices, y \in About(w.notices, d) : EventKey(x) = EventKey(y) => x.about = d
          BY DEF Identified
        <5> QED BY <5>1, <5>2
      <4> QED BY <1>1, <4>2, <4>3
    <3>4. n \in Accounts(N, c)
      BY <1>1, <2>2, NoticeIsAccount
    <3>5. ASSUME Recognised(w), Single(N, h)
          PROVE  KeepsDate(N, h[key], n)
      <4>1. ~Dated(h[key])
        BY <1>3, <1>5, <3>3, <3>5
      <4>2. n.start = None
        BY <3>1, <3>5, <4>1 DEF Single, Undated, EventKey
      <4>3. n \in About(CalledOff(N), c)
        <5>1. n.status \in Terminal
          BY <1>1, <2>2, <4>2 DEF Readable, NoticeRelevant
        <5> QED BY <1>1, <4>2, <5>1 DEF CalledOff, About
      <4> QED BY <2>2, <3>3, <4>1, <4>3, CalledOffNotices, NoticeIsAccount DEF KeepsDate
    <3> HIDE DEF matches
    <3>6. Reads(N, h, g, key, n, n, t)
      BY <1>1, <3>2, <3>3, <3>4 DEF Reads, ReadAs
    <3>7. out.active \subseteq DOMAIN g
      BY <3>2
    <3> QED BY <1>1, <3>4, <3>5, <3>6, <3>7 DEF Merges
  <2>3. CASE ~n.inherit /\ EventKey(n) \notin DOMAIN h
    <3>1. /\ g = [k \in DOMAIN h \cup {EventKey(n)} |-> IF k = EventKey(n) THEN Founded(n, silent) ELSE h[k]]
          /\ out.active = known.active \cup {EventKey(n)}
      BY <1>5, <2>3 DEF Merge
    <3>2. Recognised(w) => \A k \in DOMAIN h : Dated(h[k]) => h[k].latest.about # n.about
      BY <1>1, <1>3, <1>5
    <3>3. n.start = None => n \in CalledOff(N)
      BY <2>3 DEF Readable, NoticeRelevant, CalledOff
    <3>4. out.active \subseteq DOMAIN g
      BY <3>1
    <3> HIDE DEF matches
    <3>5. Begins(N, h, g, n, silent)
      BY <2>3, <3>1, <3>3 DEF Begins
    <3> QED BY <3>2, <3>4, <3>5 DEF Merges
  <2> QED BY <2>1, <2>2, <2>3
<1>6. CASE ~(Cardinality(matches) > 1) /\ matches # {}
  <2>1. PICK key \in matches : key = (CHOOSE k \in matches : TRUE)
    BY <1>6
  <2>2. PICK m : m = Completed(n, h[key].latest)
    OBVIOUS
  <2>3. g = [h EXCEPT ![key] = Revised(@, m, t)] /\ out.active \subseteq known.active \cup {key}
    BY <1>6, <2>1, <2>2 DEF Merge
  <2>4. key \in DOMAIN h /\ SameEvent(n, h[key]) /\ h[key].latest.about = c
    BY <1>2, <2>1
  <2>5. h[key].latest \in Accounts(N, c)
    BY <1>2, <2>4, RecordsAre DEF Pair
  <2>6. m \in Accounts(N, c) /\ ReadAs(N, h[key], n, m)
    BY <1>1, <2>2, <2>4, <2>5, CompletedIs DEF ReadAs
  <2>7. ASSUME Recognised(w), Single(N, h)
        PROVE  KeepsDate(N, h[key], m)
    <3>1. CASE Dated(h[key])
      <4>1. n.start # None \/ n.status \in Terminal \/ n.inherit
        BY DEF Readable, NoticeRelevant
      <4> QED BY <1>1, <2>2, <2>5, <3>1, <4>1, CompletedIs DEF Dated, KeepsDate
    <3>2. CASE ~Dated(h[key])
      <4>1. Pair(h[key]) \in Records(CalledOff(N), c)
        BY <2>4, <2>7, <3>2 DEF Single, Undated
      <4>2. n \in About(CalledOff(N), c)
        BY <1>1, <1>2, <2>4, <2>7, <4>1 DEF Recognised, About
      <4>3. h[key].latest \in Accounts(CalledOff(N), c)
        BY <4>1, RecordsAre DEF Pair
      <4> QED BY <2>2, <2>4, <3>2, <4>2, <4>3, CalledOffNotices, CompletedIs DEF KeepsDate
    <3> QED BY <3>1, <3>2
  <2> HIDE DEF matches
  <2>8. out.active \subseteq DOMAIN g
    BY <2>3, <2>4
  <2>9. Reads(N, h, g, key, n, m, t)
    BY <2>3, <2>6 DEF Reads
  <2> QED BY <1>1, <2>4, <2>6, <2>7, <2>8, <2>9 DEF Merges
<1> QED BY <1>4, <1>5, <1>6


LEMMA MergeKeeps ==
  ASSUME NEW w \in Worlds, Identified(w), NEW N, N = w.notices, Notices(N), NEW n \in N,
         NEW t, NEW silent, Readable(n, t),
         NEW known, NEW h, h = known.history, Consistent(N, h), known.active \subseteq DOMAIN h,
         NEW out, out = Merge(known, n, t, silent), NEW g, g = out.history
  PROVE  /\ Consistent(N, g) /\ Continues(h, g) /\ out.active \subseteq DOMAIN g
         /\ Recognised(w) /\ Single(N, h) => Single(N, g) /\ StaysDated(h, g)
<1>1. out.active \subseteq DOMAIN g
  BY MergeIs
<1>2. CASE SameRecords(h, g)
  <2>1. Continues(h, g)
    BY <1>2 DEF SameRecords, Continues
  <2> QED BY <1>1, <1>2, <2>1, SameWords DEF SameRecords
<1>3. ASSUME NEW key \in DOMAIN h, NEW m \in Accounts(N, n.about), Reads(N, h, g, key, n, m, t),
             Recognised(w) /\ Single(N, h) => KeepsDate(N, h[key], m)
      PROVE  /\ Consistent(N, g) /\ Continues(h, g)
             /\ Recognised(w) /\ Single(N, h) => Single(N, g) /\ StaysDated(h, g)
  BY <1>3, ReadsInto DEF Reads, ReadAs, KeepsDate
<1>4. ASSUME Begins(N, h, g, n, silent),
             Recognised(w) => \A k \in DOMAIN h : Dated(h[k]) => h[k].latest.about # n.about
      PROVE  /\ Consistent(N, g) /\ Continues(h, g)
             /\ Recognised(w) /\ Single(N, h) => Single(N, g) /\ StaysDated(h, g)
  BY <1>4, Founds DEF Begins
<1>5. Merges(w, N, h, g, n, t, silent)
  BY MergeIs
<1> QED BY <1>1, <1>2, <1>3, <1>4, <1>5 DEF Merges

(* That listeners were told last that a closure is called off.             *)
ToldOff(tells) == tells # None /\ tells.status \in Terminal

(* Articles in the record of which one takes back the cancellation by the  *)
(* other.                                                                  *)
Back(N, record) ==
  \E n, m \in About(N, record.latest.about) :
    /\ {n.source, m.source} \subseteq record.aliases
    /\ n.status = "scheduled" /\ m.status \in Terminal
    /\ n.published > m.published \/ n.reinstated

(* A record that says again that a closure is to come has such articles,   *)
(* whatever of the closures was told (T).                                  *)
Justified(N, h, T) ==
  \A k \in DOMAIN h :
    LET n == h[k].latest
    IN  n.status = "scheduled" /\ ToldOff(T[n.about]) => Back(N, h[k])

(* What was called off was so by the city.                                 *)
ByCity(T) == \A c \in Closure : ToldOff(T[c]) => T[c].by = "city"

HasDated(h, T) ==
  \A c \in Closure : ToldOff(T[c]) => \E k \in DOMAIN h : Dated(h[k]) /\ h[k].latest.about = c

LEMMA OutdatedStays ==
  ASSUME NEW record, DOMAIN record = RecordParts, NEW m, NEW t, Outdated(m, record.latest),
         NEW r, r = Revised(record, m, t)
  PROVE  r.latest = record.latest
BY DEF Revised, RecordParts

LEMMA AccountFields ==
  ASSUME NEW N, Notices(N), NEW c, NEW a \in Accounts(N, c)
  PROVE  /\ a.published \in Nat /\ a.status \in Terminal \cup {"scheduled"}
         /\ \E n \in About(N, c) : n.published = a.published /\ n.status = a.status /\ n.source = a.source
<1>1. PICK n, s, g \in About(N, c) : a = Account(n, s, g)
  BY DEF Accounts
<1>2. a.published = n.published /\ a.status = n.status /\ a.source = n.source
  BY <1>1, AccountIs
<1>3. IsNotice(n)
  BY DEF Notices, About
<1> QED BY <1>2, <1>3 DEF IsNotice

SameTexts(h, g) ==
  DOMAIN g = DOMAIN h /\ \A k \in DOMAIN h : g[k].latest = h[k].latest /\ g[k].aliases = h[k].aliases

LEMMA SameBack ==
  ASSUME NEW N, NEW h, NEW g, NEW T, SameTexts(h, g), Justified(N, h, T)
  PROVE  Justified(N, g, T)
<1> SUFFICES ASSUME NEW k \in DOMAIN g, g[k].latest.status = "scheduled", ToldOff(T[g[k].latest.about])
             PROVE  Back(N, g[k])
  BY DEF Justified
<1>1. k \in DOMAIN h /\ g[k].latest = h[k].latest /\ g[k].aliases = h[k].aliases
  BY DEF SameTexts
<1>2. Back(N, h[k])
  BY <1>1 DEF Justified
<1> QED BY <1>1, <1>2 DEF Back

LEMMA ReadsBack ==
  ASSUME NEW N, Notices(N), NEW h, Consistent(N, h), NEW T, Justified(N, h, T),
         NEW key \in DOMAIN h, NEW n, NEW m, NEW t, NEW g, Reads(N, h, g, key, n, m, t)
  PROVE  Justified(N, g, T)
<1>1. PICK record, r, c : record = h[key] /\ r = Revised(record, m, t) /\ c = record.latest.about
  OBVIOUS
<1>2. DOMAIN g = DOMAIN h /\ g[key] = r /\ \A k \in DOMAIN h : k # key => g[k] = h[k]
  BY <1>1 DEF Reads
<1>3. /\ n \in About(N, c) /\ m \in Accounts(N, c) /\ m.source = n.source /\ m.status = n.status
      /\ m.published = n.published /\ m.reinstated = n.reinstated
  BY <1>1 DEF Reads, ReadAs
<1>4. Says(N, key, record) /\ DOMAIN record = RecordParts /\ c \in Closure /\ record.latest \in Accounts(N, c)
  BY <1>1, RecordsAre DEF Consistent, Says, Pair
<1>5. r.latest.about = c /\ r.latest \in {record.latest, m} /\ r.aliases = record.aliases \cup {m.source}
  BY <1>1, <1>3, <1>4, RevisedSays
<1>6. ASSUME r.latest.status = "scheduled", ToldOff(T[c]) PROVE Back(N, r)
  <2>1. CASE record.latest.status = "scheduled"
    <3>1. Back(N, record)
      BY <1>1, <1>6, <2>1 DEF Justified
    <3> QED BY <1>1, <1>5, <3>1 DEF Back
  <2>2. CASE record.latest.status # "scheduled"
    <3>1. r.latest = m /\ m.status = "scheduled" /\ r.latest # record.latest
      BY <1>5, <1>6, <2>2
    <3>2. ~Outdated(m, record.latest)
      BY <1>1, <1>4, <3>1, OutdatedStays
    <3>3. record.latest.status \in Terminal /\ record.latest.published \in Nat /\ m.published \in Nat
      BY <1>3, <1>4, <2>2, AccountFields
    <3>4. m.published > record.latest.published \/ m.reinstated
      BY <3>1, <3>2, <3>3 DEF Outdated
    <3>5. PICK y \in About(N, c) :
            /\ y.status \in Terminal /\ y.published = record.latest.published
            /\ y.source = record.latest.source /\ y.source \in record.aliases
      BY <1>4, <3>3, AccountFields, RecordsAre DEF Says, Pair
    <3>6. {n.source, y.source} \subseteq r.aliases /\ n.status = "scheduled"
      BY <1>3, <1>5, <3>1, <3>5
    <3>7. n.published > y.published \/ n.reinstated
      BY <1>3, <3>4, <3>5
    <3> QED BY <1>3, <1>5, <3>5, <3>6, <3>7 DEF Back
  <2> QED BY <2>1, <2>2
<1>7. ASSUME NEW k \in DOMAIN g, g[k].latest.status = "scheduled", ToldOff(T[g[k].latest.about])
      PROVE  Back(N, g[k])
  <2>1. CASE k = key
    BY <1>2, <1>5, <1>6, <1>7, <2>1
  <2>2. CASE k # key
    BY <1>2, <1>7, <2>2 DEF Justified
  <2> QED BY <2>1, <2>2
<1> QED BY <1>7 DEF Justified

LEMMA MergeBack ==
  ASSUME NEW w \in Worlds, Identified(w), Recognised(w),
         NEW N, N = w.notices, Notices(N), NEW n \in N, NEW t, NEW silent, Readable(n, t),
         NEW known, NEW h, h = known.history, Consistent(N, h), known.active \subseteq DOMAIN h,
         NEW T, HasDated(h, T), Justified(N, h, T),
         NEW out, out = Merge(known, n, t, silent), NEW g, g = out.history
  PROVE  Justified(N, g, T)
<1>1. Merges(w, N, h, g, n, t, silent)
  BY MergeIs
<1>2. CASE SameRecords(h, g)
  BY <1>2, SameBack DEF SameRecords, SameTexts
<1>3. ASSUME NEW key \in DOMAIN h, NEW m \in Accounts(N, n.about), Reads(N, h, g, key, n, m, t)
      PROVE  Justified(N, g, T)
  BY <1>3, ReadsBack
<1>4. ASSUME Begins(N, h, g, n, silent), \A k \in DOMAIN h : Dated(h[k]) => h[k].latest.about # n.about
      PROVE  Justified(N, g, T)
  <2>1. PICK key, f, c : key = EventKey(n) /\ f = Founded(n, silent) /\ c = n.about
    OBVIOUS
  <2>2. ~n.inherit /\ key \notin DOMAIN h /\ DOMAIN g = DOMAIN h \cup {key}
    BY <1>4, <2>1 DEF Begins
  <2>3. g[key] = f /\ \A k \in DOMAIN h : g[k] = h[k]
    BY <1>4, <2>1 DEF Begins
  <2>4. c \in Closure /\ n \in About(N, c)
    BY <2>1 DEF Notices, About
  <2>5. f.latest = n
    BY <2>1, <2>2, <2>4, FoundedSays
  <2>6. ~ToldOff(T[c])
    BY <1>4, <2>1, <2>4 DEF HasDated
  <2> QED BY <2>1, <2>2, <2>3, <2>5, <2>6 DEF Justified
<1> QED BY <1>1, <1>2, <1>3, <1>4 DEF Merges

(* The least of some numbers.                                              *)
LEMMA Least ==
  ASSUME NEW I \in SUBSET Nat, I # {}
  PROVE  \E m \in I : \A x \in I : m <= x
<1>1. PICK m \in I : \A x \in I : ~ (<<x, m>> \in OpToRel(<, Nat))
  BY NatLessThanWellFounded, WFMin
<1>2. \A x \in I : ~ (x < m)
  BY <1>1 DEF OpToRel
<1>3. \A x \in I : m <= x
  BY <1>2
<1> QED BY <1>3

LEMMA FirstIs ==
  ASSUME NEW S, S # {}, \A n \in S : n.published \in Nat /\ n.source \in Nat
  PROVE  First(S) \in S
<1> DEFINE days == {n.published : n \in S}
<1>1. PICK day \in days : \A x \in days : day <= x
  <2>1. days \in SUBSET Nat /\ days # {}
    OBVIOUS
  <2> HIDE DEF days
  <2> QED BY <2>1, Least
<1> DEFINE sources == {n.source : n \in {m \in S : m.published = day}}
<1>2. PICK source \in sources : \A x \in sources : source <= x
  <2>1. sources \in SUBSET Nat /\ sources # {}
    BY <1>1
  <2> HIDE DEF sources
  <2> QED BY <2>1, Least
<1>3. PICK n \in S : n.published = day /\ n.source = source
  BY <1>2
<1>4. \A m \in S : n.published < m.published \/ (n.published = m.published /\ n.source <= m.source)
  <2> SUFFICES ASSUME NEW m \in S
               PROVE  n.published < m.published \/ (n.published = m.published /\ n.source <= m.source)
    OBVIOUS
  <2>1. day <= m.published /\ day \in Nat /\ m.published \in Nat
    BY <1>1
  <2>2. m.published = day => source <= m.source
    BY <1>2
  <2> QED BY <1>3, <2>1, <2>2
<1> QED BY <1>4 DEF First

(* One more notice of a snapshot.                                          *)
ReadOn(before, t, silent) ==
  [known |-> Merge(before.known, First(before.unread), t, silent), unread |-> before.unread \ {First(before.unread)}]

After(f, i, start, t, silent) == IF i = 0 THEN start ELSE ReadOn(f[i - 1], t, silent)

Reading(f, n, start, t, silent) == f = [i \in 0 .. n |-> After(f, i, start, t, silent)]

LEMMA ReadingExists ==
  ASSUME NEW start, NEW t, NEW silent, NEW n \in Nat
  PROVE  \E f : Reading(f, n, start, t, silent)
<1> DEFINE Good(m) == \E f : f = [i \in 0 .. m |-> After(f, i, start, t, silent)]
<1> DEFINE Bad == {m \in Nat : ~Good(m)}
<1> SUFFICES ASSUME n \in Bad PROVE FALSE
  BY DEF Reading
<1>1. Good(0)
  <2> DEFINE f == [i \in 0 .. 0 |-> start]
  <2>1. f = [i \in 0 .. 0 |-> After(f, i, start, t, silent)]
    BY DEF After
  <2> QED BY <2>1
<1>2. PICK m \in Bad : \A x \in Bad : m <= x
  <2> HIDE DEF Good
  <2>1. Bad \in SUBSET Nat /\ Bad # {}
    OBVIOUS
  <2> QED BY <2>1, Least
<1>3. m - 1 \in Nat /\ Good(m - 1)
  <2>1. m \in Nat /\ m # 0
    BY <1>1, <1>2
  <2>2. m - 1 \in Nat /\ ~(m <= m - 1)
    BY <2>1
  <2> HIDE DEF Good
  <2> QED BY <1>2, <2>2
<1>4. PICK f : f = [i \in 0 .. m - 1 |-> After(f, i, start, t, silent)]
  BY <1>3
<1> DEFINE g == [i \in 0 .. m |-> IF i = m THEN After(f, m, start, t, silent) ELSE f[i]]
<1>5. g = [i \in 0 .. m |-> After(g, i, start, t, silent)]
  <2>1. m \in Nat
    BY <1>2
  <2>2. ASSUME NEW i \in 0 .. m PROVE g[i] = After(g, i, start, t, silent)
    <3>1. CASE i = 0 /\ i # m
      <4>1. g[i] = f[i] /\ i \in 0 .. m - 1
        BY <2>1, <3>1
      <4>2. f[i] = After(f, i, start, t, silent)
        BY <1>4, <4>1
      <4> QED BY <3>1, <4>1, <4>2 DEF After
    <3>2. CASE i # 0 /\ i # m
      <4>1. g[i] = f[i] /\ i \in 0 .. m - 1 /\ i - 1 \in 0 .. m /\ i - 1 # m
        BY <2>1, <3>2
      <4>2. f[i] = After(f, i, start, t, silent) /\ g[i - 1] = f[i - 1]
        BY <1>4, <4>1
      <4> QED BY <3>2, <4>1, <4>2 DEF After
    <3>3. CASE i = m
      <4>1. m # 0 => m - 1 \in 0 .. m /\ m - 1 # m
        BY <2>1
      <4>2. m # 0 => g[m - 1] = f[m - 1]
        BY <4>1
      <4> QED BY <3>3, <4>2 DEF After
    <3> QED BY <3>1, <3>2, <3>3
  <2> HIDE DEF g
  <2>3. g = [i \in 0 .. m |-> g[i]]
    BY DEF g
  <2> QED BY <2>2, <2>3
<1>6. Good(m)
  <2> HIDE DEF g
  <2> QED BY <1>5
<1> QED BY <1>2, <1>6

ToRead(S, t) == {n \in S : Readable(n, t)}

Unread(h, R) == [known |-> [history |-> h, active |-> {}], unread |-> R]

LEMMA ObserveIs ==
  ASSUME NEW h, NEW S, NEW t, NEW silent, NEW R, R = ToRead(S, t),
         NEW size \in Nat, size = Cardinality(R), NEW start,
         start = Unread(h, R),
         NEW out, out = Observe(h, S, t, silent)
  PROVE  \E f : /\ Reading(f, size, start, t, silent)
                /\ out = f[size].known
<1>1. \E f : f = [i \in 0 .. size |-> After(f, i, start, t, silent)]
  <2>1. \E f : Reading(f, size, start, t, silent)
    BY ReadingExists
  <2> QED BY <2>1 DEF Reading
<1> DEFINE after[i \in 0 .. Cardinality({n \in S : Readable(n, t)})] ==
      IF i = 0 THEN [known |-> [history |-> h, active |-> {}], unread |-> {n \in S : Readable(n, t)}]
      ELSE LET before == after[i - 1]
               n == First(before.unread)
           IN  [known |-> Merge(before.known, n, t, silent), unread |-> before.unread \ {n}]
<1>2. \E f : f = [i \in 0 .. Cardinality({n \in S : Readable(n, t)}) |->
        IF i = 0 THEN [known |-> [history |-> h, active |-> {}], unread |-> {n \in S : Readable(n, t)}]
        ELSE LET before == f[i - 1]
                 n == First(before.unread)
             IN  [known |-> Merge(before.known, n, t, silent), unread |-> before.unread \ {n}]]
  <2>1. PICK f : f = [i \in 0 .. size |-> After(f, i, start, t, silent)]
    BY <1>1
  <2>2. f = [i \in 0 .. size |->
             IF i = 0 THEN Unread(h, R)
             ELSE [known |-> Merge(f[i - 1].known, First(f[i - 1].unread), t, silent),
                   unread |-> f[i - 1].unread \ {First(f[i - 1].unread)}]]
    BY <2>1, Zenon DEF After, ReadOn
  <2>3. R = {n \in S : Readable(n, t)} /\ Unread(h, R) = [known |-> [history |-> h, active |-> {}], unread |-> R]
    BY DEF ToRead, Unread
  <2>4. size = Cardinality({n \in S : Readable(n, t)}) /\ R = {n \in S : Readable(n, t)}
    BY DEF ToRead
  <2>5. f = [i \in 0 .. Cardinality({n \in S : Readable(n, t)}) |->
              IF i = 0 THEN [known |-> [history |-> h, active |-> {}], unread |-> {n \in S : Readable(n, t)}]
              ELSE LET before == f[i - 1]
                       n == First(before.unread)
                   IN  [known |-> Merge(before.known, n, t, silent), unread |-> before.unread \ {n}]]
    BY <2>2, <2>3, <2>4, Zenon
  <2> QED BY <2>5
<1>3. after = [i \in 0 .. Cardinality({n \in S : Readable(n, t)}) |->
        IF i = 0 THEN [known |-> [history |-> h, active |-> {}], unread |-> {n \in S : Readable(n, t)}]
        ELSE LET before == after[i - 1]
                 n == First(before.unread)
             IN  [known |-> Merge(before.known, n, t, silent), unread |-> before.unread \ {n}]]
  BY <1>2, Zenon
<1>4. Observe(h, S, t, silent) = after[Cardinality({n \in S : Readable(n, t)})].known
  BY DEF Observe
<1> HIDE DEF after
<1>5. after = [i \in 0 .. size |-> After(after, i, start, t, silent)]
  BY <1>3 DEF After, ReadOn, ToRead, Unread
<1> QED BY <1>4, <1>5 DEF Reading, ToRead


LEMMA ContinuesOn ==
  ASSUME NEW h, NEW g, NEW f, Continues(h, g), Continues(g, f)
  PROVE  Continues(h, f) /\ (StaysDated(h, g) /\ StaysDated(g, f) => StaysDated(h, f))
BY DEF Continues, StaysDated

(* What is known after some notices of a snapshot.                         *)
Learned(w, h, T, known) ==
  /\ Consistent(w.notices, known.history) /\ Continues(h, known.history)
  /\ known.active \subseteq DOMAIN known.history
  /\ Recognised(w) /\ Single(w.notices, h)
       => Single(w.notices, known.history) /\ StaysDated(h, known.history)
  /\ Recognised(w) /\ Single(w.notices, h) /\ HasDated(h, T) /\ Justified(w.notices, h, T)
       => Justified(w.notices, known.history, T)

LEMMA LearnsNothing ==
  ASSUME NEW w, NEW h, Consistent(w.notices, h), NEW T, NEW known, known.history = h, known.active = {}
  PROVE  Learned(w, h, T, known)
<1>1. Continues(h, h) /\ StaysDated(h, h)
  BY DEF Continues, StaysDated
<1>2. Continues(h, known.history) /\ StaysDated(h, known.history)
  BY <1>1
<1>3. Consistent(w.notices, known.history) /\ known.active \subseteq DOMAIN known.history
  OBVIOUS
<1>4. Recognised(w) /\ Single(w.notices, h) => Single(w.notices, known.history) /\ StaysDated(h, known.history)
  BY <1>2
<1>5. Justified(w.notices, h, T) => Justified(w.notices, known.history, T)
  OBVIOUS
<1> QED BY <1>2, <1>3, <1>4, <1>5 DEF Learned

LEMMA LearnsMore ==
  ASSUME NEW w \in Worlds, Identified(w), Notices(w.notices), NEW h, NEW T, NEW known, Learned(w, h, T, known),
         NEW n \in w.notices, NEW t, NEW silent, Readable(n, t), NEW out, out = Merge(known, n, t, silent)
  PROVE  Learned(w, h, T, out)
<1>1. PICK N, g, f : N = w.notices /\ g = known.history /\ f = out.history
  OBVIOUS
<1>2. Notices(N) /\ n \in N /\ Consistent(N, g) /\ known.active \subseteq DOMAIN g /\ Continues(h, g)
  BY <1>1 DEF Learned
<1>3. /\ Consistent(N, f) /\ Continues(g, f) /\ out.active \subseteq DOMAIN f
      /\ Recognised(w) /\ Single(N, g) => Single(N, f) /\ StaysDated(g, f)
  BY <1>1, <1>2, MergeKeeps
<1>4. Continues(h, f) /\ (StaysDated(h, g) /\ StaysDated(g, f) => StaysDated(h, f))
  BY <1>2, <1>3, ContinuesOn
<1>5. ASSUME Recognised(w), Single(N, h), HasDated(h, T), Justified(N, h, T)
      PROVE  Justified(N, f, T)
  <2>1. Justified(N, g, T) /\ StaysDated(h, g)
    BY <1>1, <1>5 DEF Learned
  <2>2. HasDated(g, T)
    BY <1>2, <1>5, <2>1 DEF HasDated, Continues, StaysDated
  <2> QED BY <1>1, <1>2, <1>5, <2>1, <2>2, MergeBack
<1> QED BY <1>1, <1>3, <1>4, <1>5 DEF Learned

(* A snapshot is read, one notice after the other.                         *)
LEMMA ObserveKeeps ==
  ASSUME NEW w \in Worlds, Identified(w), Notices(w.notices), NEW S \in SUBSET w.notices,
         NEW t, NEW silent, NEW h, Consistent(w.notices, h), NEW T,
         NEW out, out = Observe(h, S, t, silent)
  PROVE  Learned(w, h, T, out)
<1>1. PICK R : R = ToRead(S, t)
  OBVIOUS
<1>2. R \subseteq w.notices /\ IsFiniteSet(R)
  BY <1>1, FS_Subset DEF Notices, ToRead
<1>3. PICK size \in Nat : size = Cardinality(R)
  BY <1>2, FS_CardinalityType
<1>4. PICK start : start = Unread(h, R)
  OBVIOUS
<1>5. PICK f : Reading(f, size, start, t, silent) /\ out = f[size].known
  <2>1. \E f : Reading(f, size, start, t, silent) /\ out = f[size].known
    BY <1>1, <1>3, <1>4, ObserveIs
  <2> QED BY <2>1
<1>6. \A i \in 0 .. size : f[i] = After(f, i, start, t, silent)
  BY <1>5 DEF Reading
<1> DEFINE Good(i) == /\ Learned(w, h, T, f[i].known)
                      /\ f[i].unread \subseteq R /\ Cardinality(f[i].unread) = size - i
<1> DEFINE Bad == {i \in 0 .. size : ~Good(i)}
<1>7. Bad = {}
  <2> SUFFICES ASSUME Bad # {} PROVE FALSE
    OBVIOUS
  <2>1. PICK m \in Bad : \A x \in Bad : m <= x
    <3> HIDE DEF Good
    <3>1. Bad \in SUBSET Nat
      OBVIOUS
    <3> QED BY <3>1, Least
  <2>2. Good(0)
    <3>1. f[0] = start
      BY <1>6 DEF After
    <3>2. start.known.history = h /\ start.known.active = {} /\ start.unread = R
      BY <1>4 DEF Unread
    <3>3. Learned(w, h, T, start.known)
      BY <3>2, LearnsNothing
    <3> QED BY <1>3, <3>1, <3>2, <3>3
  <2>3. m \in 1 .. size
    BY <2>1, <2>2
  <2>4. m - 1 \in 0 .. size /\ ~(m <= m - 1) /\ m \in 0 .. size /\ m # 0
    BY <2>3
  <2>5. Good(m - 1)
    <3> HIDE DEF Good
    <3> QED BY <2>1, <2>4
  <2>6. PICK before : before = f[m - 1]
    OBVIOUS
  <2>7. PICK n : n = First(before.unread)
    OBVIOUS
  <2>8. f[m] = [known |-> Merge(before.known, n, t, silent), unread |-> before.unread \ {n}]
    BY <1>6, <2>4, <2>6, <2>7 DEF After, ReadOn
  <2>9. /\ Learned(w, h, T, before.known)
        /\ before.unread \subseteq R /\ Cardinality(before.unread) = size - (m - 1)
    BY <2>5, <2>6
  <2>10. n \in before.unread
    <3>1. before.unread # {}
      <4>1. size - (m - 1) # 0
        BY <2>3
      <4> QED BY <2>9, <4>1, FS_EmptySet
    <3>2. \A x \in before.unread : x.published \in Nat /\ x.source \in Nat
      BY <1>2, <2>9 DEF Notices, IsNotice
    <3> QED BY <2>7, <3>1, <3>2, FirstIs
  <2>11. Learned(w, h, T, f[m].known)
    <3>1. n \in w.notices /\ Readable(n, t)
      BY <1>1, <1>2, <2>9, <2>10 DEF ToRead
    <3>2. PICK known, next : known = before.known /\ next = Merge(known, n, t, silent)
      OBVIOUS
    <3>3. Learned(w, h, T, next)
      BY <2>9, <3>1, <3>2, LearnsMore
    <3> QED BY <2>8, <3>2, <3>3
  <2>12. f[m].unread \subseteq R /\ Cardinality(f[m].unread) = size - m
    <3>1. PICK unread : unread = before.unread
      OBVIOUS
    <3>2. IsFiniteSet(unread)
      BY <1>2, <2>9, <3>1, FS_Subset
    <3>3. Cardinality(unread \ {n}) = Cardinality(unread) - 1
      BY <2>10, <3>1, <3>2, FS_RemoveElement
    <3>4. size - (m - 1) - 1 = size - m
      BY <2>3
    <3> QED BY <2>8, <2>9, <3>1, <3>3, <3>4
  <2>13. Good(m)
    BY <2>11, <2>12
  <2> HIDE DEF Good
  <2> QED BY <2>1, <2>13
<1>8. size \in 0 .. size
  BY <1>3
<1>9. Good(size)
  <2> HIDE DEF Good
  <2> QED BY <1>7, <1>8
<1> QED BY <1>5, <1>9


(* What a step of the channel is to what listeners are told.               *)
LEMMA NewsSteps ==
  ASSUME world \in Worlds, [ChannelNext]_channelVars
  PROVE  /\ world' = world
         /\ \/ UNCHANGED <<seen, current, plans, active, told>>
            \/ \E snapshot \in SUBSET world.reports :
                 Refresh(snapshot) /\ UNCHANGED <<plans, active, told>>
            \/ \E notices \in Readings : PollCity(notices)
            \/ \E r \in Report : PublishReport(r)
            \/ \E p \in Pending : PublishPlan(p)
            \/ current' = {} /\ active' = {} /\ UNCHANGED <<seen, plans, told>>
<1>1. CASE BeginPoll \/ (poll # None /\ \E source \in poll.left : PollFails(source))
  BY <1>1 DEF BeginPoll, PollFails, vars, memory, city
<1>2. CASE \E snapshot \in SUBSET world.reports : Poll511(snapshot)
  BY <1>2 DEF Poll511, city
<1>3. CASE \E notices \in Readings : PollCity(notices)
  BY <1>3 DEF PollCity
<1>4. CASE \E r \in Report : PublishReport(r)
  BY <1>4 DEF PublishReport
<1>5. CASE \E r \in Report : RejectReport(r)
  BY <1>5 DEF RejectReport, Reject, city
<1>6. CASE \E p \in Pending : PublishPlan(p)
  BY <1>6 DEF PublishPlan
<1>7. CASE \E p \in Pending : RejectPlan(p)
  BY <1>7 DEF RejectPlan, vars, memory
<1>8. CASE PlanPosted \/ TransmitPage \/ PageSent \/ NextPage \/ \E q \in world.requests : Ask(q)
  BY <1>8 DEF PlanPosted, TransmitPage, PageSent, NextPage, Ask, vars, memory, city
<1>9. CASE Finish \/ Begin \/ Pass
  BY <1>9 DEF Finish, FinishPost, Begin, Start, Pass, Tick, memory, city
<1>10. CASE End
  BY <1>10 DEF End, Stop
<1>11. CASE UNCHANGED channelVars
  BY <1>11 DEF channelVars, vars, memory, city
<1> QED BY <1>1, <1>2, <1>3, <1>4, <1>5, <1>6, <1>7, <1>8, <1>9, <1>10, <1>11 DEF ChannelNext

LEMMA WorldNotices ==
  ASSUME NEW w \in Worlds
  PROVE  Notices(w.notices) /\ \A c \in Closure : None \notin Accounts(w.notices, c)
BY ChannelAssumption DEF Notices

(* What is told is something.                                              *)
LEMMA SomethingTold ==
  ASSUME NEW w \in Worlds, NEW c \in Closure, NEW status \in Terminal \cup {"scheduled"},
         NEW facts, facts = None \/ \E a \in Accounts(w.notices, c) : facts = FactsOf(a),
         NEW published \in Nat, NEW at \in Nat, NEW by \in {"511", "city"},
         NEW tells, tells = [status |-> status, facts |-> facts, published |-> published, at |-> at, by |-> by]
  PROVE  tells # None
<1>1. tells \in [status : Terminal \cup {"scheduled"}, published : Nat, at : Nat, by : {"511", "city"},
                facts : {None} \cup {FactsOf(a) : a \in Accounts(w.notices, c)}]
  OBVIOUS
<1> QED BY <1>1, ChannelAssumption

(* A record that counts as announced since 511's equivalent was.           *)
LEMMA InheritedIs ==
  ASSUME NEW record, DOMAIN record = RecordParts, NEW alert, NEW at, NEW out, out = Inherited(record, alert, at)
  PROVE  /\ DOMAIN out = RecordParts /\ out.latest = record.latest /\ out.aliases = record.aliases
         /\ record.announced # None => out = record
         /\ out = record \/ Equivalent(record.latest, alert)
BY DEF Inherited, RecordParts

LEMMA HeardIs ==
  ASSUME NEW record, DOMAIN record = RecordParts, NEW out, out = Heard(record)
  PROVE  /\ DOMAIN out = RecordParts /\ out.latest = record.latest /\ out.aliases = record.aliases
         /\ record.announced # None => out = record
         /\ out = record \/ \E r \in Attempted : Equivalent(record.latest, AlertOf[r])
<1>1. CASE \E r \in Attempted : Equivalent(record.latest, AlertOf[r])
  <2>1. PICK r : r = (CHOOSE q \in Attempted : Equivalent(record.latest, AlertOf[q]))
    OBVIOUS
  <2>2. out = Inherited(record, AlertOf[r], seen[EventOf[r]].at)
    BY <1>1, <2>1 DEF Heard
  <2>3. PICK alert, at : alert = AlertOf[r] /\ at = seen[EventOf[r]].at
    OBVIOUS
  <2>4. out = Inherited(record, alert, at)
    BY <2>2, <2>3
  <2> QED BY <1>1, <2>4, InheritedIs
<1>2. CASE ~\E r \in Attempted : Equivalent(record.latest, AlertOf[r])
  BY <1>2 DEF Heard
<1> QED BY <1>1, <1>2


(* Some records inherit what 511 announced.                                *)
Takes(g, f, R) ==
  /\ DOMAIN f = DOMAIN g
  /\ \A k \in DOMAIN g :
       /\ DOMAIN f[k] = DOMAIN g[k] /\ f[k].latest = g[k].latest /\ f[k].aliases = g[k].aliases
       /\ g[k].announced # None => f[k] = g[k]
       /\ f[k] = g[k] \/ \E r \in R : Equivalent(g[k].latest, AlertOf[r])

LEMMA TakesKeeps ==
  ASSUME NEW w \in Worlds, Identified(w), NEW N, N = w.notices, NEW g, Consistent(N, g),
         NEW R \in SUBSET w.reports, NEW f, Takes(g, f, R)
  PROVE  /\ Consistent(N, f)
         /\ Single(N, g) => Single(N, f) /\ StaysDated(g, f)
         /\ \A k \in DOMAIN g : \/ f[k] = g[k]
                                \/ \E r \in R : AboutOf[r] = g[k].latest.about /\ g[k].latest.status = "scheduled"
<1>1. Consistent(N, f) /\ (Single(N, g) => Single(N, f) /\ StaysDated(g, f))
  BY SameWords DEF Takes
<1>2. ASSUME NEW k \in DOMAIN g, f[k] # g[k]
      PROVE  \E r \in R : AboutOf[r] = g[k].latest.about /\ g[k].latest.status = "scheduled"
  <2>1. PICK r \in R : Equivalent(g[k].latest, AlertOf[r])
    BY <1>2 DEF Takes
  <2>2. PICK a, c : a = g[k].latest /\ c = g[k].latest.about
    OBVIOUS
  <2>3. c \in Closure /\ a \in Accounts(N, c)
    BY <2>2, RecordsAre DEF Consistent, Says, Pair
  <2>4. AboutOf[r] = c
    BY <2>1, <2>2, <2>3 DEF Identified
  <2>5. a.status = "scheduled"
    BY <2>1, <2>2 DEF Equivalent
  <2> QED BY <2>2, <2>4, <2>5
<1> QED BY <1>1, <1>2

(* Whatever 511 or the city announced of a closure, listeners were told.   *)
NewsInv ==
  /\ Consistent(world.notices, plans) /\ active \subseteq DOMAIN plans /\ current \subseteq world.reports
  /\ DOMAIN told = Closure
  /\ \A r \in Report : seen[EventOf[r]] # None /\ seen[EventOf[r]].attempted => told[AboutOf[r]] # None
  /\ \A k \in DOMAIN plans : plans[k].announced # None => told[plans[k].latest.about] # None

(* And what the city told last is what the record of it says; one without  *)
(* a schedule was never announced.                                         *)
CityInv ==
  /\ Single(world.notices, plans)
  /\ \A k \in DOMAIN plans : ~Dated(plans[k]) => plans[k].announced = None
  /\ \A c \in Closure : told[c] # None /\ told[c].by = "city" =>
       \E k \in DOMAIN plans :
         /\ Dated(plans[k]) /\ plans[k].latest.about = c /\ plans[k].announced # None
         /\ FactsOf(plans[k].announced) = told[c].facts /\ plans[k].at = told[c].at

LEMMA UndatedIs ==
  ASSUME NEW N, Notices(N), NEW k, NEW record, Undated(N, k, record)
  PROVE  record.latest.status \in Terminal
<1>1. PICK a, c : a = record.latest /\ c = record.latest.about
  OBVIOUS
<1>2. a \in Accounts(CalledOff(N), c)
  BY <1>1, RecordsAre DEF Undated, Pair
<1>3. PICK m, s, g \in About(CalledOff(N), c) : a = Account(m, s, g)
  BY <1>2 DEF Accounts
<1>4. a.status = m.status
  BY <1>3, CalledOffNotices, AccountIs
<1> QED BY <1>1, <1>4 DEF About, CalledOff

(* The city is asked.                                                      *)
LEMMA PollKeeps ==
  ASSUME ReceiptsInv, NewsInv, Identified(world), world' = world, NEW notices \in Readings, PollCity(notices)
  PROVE  NewsInv' /\ (Recognised(world) /\ CityInv => CityInv')
<1>1. PICK N, t, silent, merged, g, f :
        /\ N = world.notices /\ t = poll.asked /\ silent = (~plansSeen /\ ~AnnounceExisting)
        /\ merged = Observe(plans, notices, t, silent) /\ g = merged.history
        /\ f = [k \in DOMAIN g |-> Heard(g[k])]
  OBVIOUS
<1>2. /\ plans' = f /\ active' = merged.active
      /\ UNCHANGED <<seen, current, told>>
  BY <1>1 DEF PollCity, vars, memory
<1>3. world \in Worlds /\ Notices(world.notices) /\ notices \in SUBSET world.notices
  BY WorldNotices DEF ReceiptsInv, Readings
<1>4. Learned(world, plans, told, merged)
  BY <1>1, <1>3, ObserveKeeps DEF NewsInv
<1>5. /\ Consistent(N, g) /\ Continues(plans, g) /\ merged.active \subseteq DOMAIN g
      /\ Recognised(world) /\ Single(N, plans) => Single(N, g) /\ StaysDated(plans, g)
  BY <1>1, <1>4 DEF Learned
<1>6. Attempted \in SUBSET world.reports
  BY DEF Attempted, NewsInv
<1>7. Takes(g, f, Attempted)
  <2>1. DOMAIN f = DOMAIN g /\ \A k \in DOMAIN g : f[k] = Heard(g[k]) /\ DOMAIN g[k] = RecordParts
    BY <1>1, <1>5 DEF Consistent, Says
  <2>2. ASSUME NEW k \in DOMAIN g
        PROVE  /\ DOMAIN f[k] = DOMAIN g[k] /\ f[k].latest = g[k].latest /\ f[k].aliases = g[k].aliases
               /\ g[k].announced # None => f[k] = g[k]
               /\ f[k] = g[k] \/ \E r \in Attempted : Equivalent(g[k].latest, AlertOf[r])
    <3>1. PICK record, out : record = g[k] /\ out = f[k]
      OBVIOUS
    <3>2. DOMAIN record = RecordParts /\ out = Heard(record)
      BY <2>1, <3>1
    <3> QED BY <3>1, <3>2, HeardIs
  <2> QED BY <2>1, <2>2 DEF Takes
<1>8. /\ Consistent(N, f)
      /\ Single(N, g) => Single(N, f) /\ StaysDated(g, f)
      /\ \A k \in DOMAIN g : \/ f[k] = g[k]
                             \/ \E r \in Attempted : AboutOf[r] = g[k].latest.about /\ g[k].latest.status = "scheduled"
  BY <1>1, <1>3, <1>5, <1>6, <1>7, TakesKeeps
<1>9. \A r \in Attempted : r \in Report /\ told[AboutOf[r]] # None
  BY <1>3, <1>6, ChannelAssumption DEF Attempted, SamePrint, NewsInv
<1>10. \A k \in DOMAIN f : f[k].announced # None => told[f[k].latest.about] # None
  <2> SUFFICES ASSUME NEW k \in DOMAIN f, f[k].announced # None PROVE told[f[k].latest.about] # None
    OBVIOUS
  <2>1. k \in DOMAIN g /\ f[k].latest = g[k].latest
    BY <1>7 DEF Takes
  <2>2. CASE f[k] = g[k]
    <3>1. k \in DOMAIN plans
      BY <1>5, <2>1, <2>2 DEF Continues
    <3>2. plans[k].announced # None /\ plans[k].latest.about = g[k].latest.about
      BY <1>5, <2>2, <3>1 DEF Continues
    <3> QED BY <2>1, <3>1, <3>2 DEF NewsInv
  <2>3. CASE f[k] # g[k]
    BY <1>8, <1>9, <2>1, <2>3
  <2> QED BY <2>2, <2>3
<1>11. NewsInv'
  <2>1. Consistent(world.notices, plans)' /\ (active \subseteq DOMAIN plans)'
    BY <1>1, <1>2, <1>5, <1>7, <1>8 DEF Takes
  <2>2. (current \subseteq world.reports)' /\ (DOMAIN told = Closure)'
    BY <1>2, <1>3 DEF NewsInv
  <2>3. \A r \in Report : seen'[EventOf[r]] # None /\ seen'[EventOf[r]].attempted => told'[AboutOf[r]] # None
    BY <1>2, <1>3 DEF NewsInv
  <2> QED BY <1>2, <1>10, <2>1, <2>2, <2>3 DEF NewsInv
<1>12. ASSUME Recognised(world), CityInv PROVE CityInv'
  <2>1. Single(N, g) /\ StaysDated(plans, g) /\ Single(N, f) /\ StaysDated(g, f)
    BY <1>1, <1>5, <1>8, <1>12 DEF CityInv
  <2>2. ASSUME NEW k \in DOMAIN f, ~Dated(f[k]) PROVE f[k].announced = None
    <3>1. k \in DOMAIN g /\ f[k].latest = g[k].latest /\ ~Dated(g[k])
      BY <1>7, <2>2 DEF Takes, Dated
    <3>2. g[k].announced = None
      <4>1. CASE k \in DOMAIN plans
        BY <1>5, <1>12, <2>1, <3>1, <4>1 DEF StaysDated, CityInv, Continues
      <4>2. CASE k \notin DOMAIN plans
        BY <1>5, <3>1, <4>2 DEF Continues
      <4> QED BY <4>1, <4>2
    <3>3. g[k].latest.status \in Terminal
      BY <1>1, <1>3, <2>1, <3>1, UndatedIs DEF Single
    <3>4. f[k] = g[k]
      BY <1>8, <3>1, <3>3 DEF Terminal
    <3> QED BY <3>2, <3>4
  <2>3. ASSUME NEW c \in Closure, told[c] # None, told[c].by = "city"
        PROVE  \E k \in DOMAIN f :
                 /\ Dated(f[k]) /\ f[k].latest.about = c /\ f[k].announced # None
                 /\ FactsOf(f[k].announced) = told[c].facts /\ f[k].at = told[c].at
    <3>1. PICK k \in DOMAIN plans :
            /\ Dated(plans[k]) /\ plans[k].latest.about = c /\ plans[k].announced # None
            /\ FactsOf(plans[k].announced) = told[c].facts /\ plans[k].at = told[c].at
      BY <1>12, <2>3 DEF CityInv
    <3>2. /\ k \in DOMAIN g /\ Dated(g[k]) /\ g[k].latest.about = c
          /\ g[k].announced = plans[k].announced /\ g[k].at = plans[k].at
      BY <1>5, <2>1, <3>1 DEF Continues, StaysDated
    <3>3. k \in DOMAIN f /\ f[k] = g[k]
      BY <1>7, <3>1, <3>2 DEF Takes
    <3> QED BY <3>1, <3>2, <3>3
  <2>4. plans' = f /\ told' = told /\ world'.notices = N
    BY <1>1, <1>2
  <2>5. Single(world'.notices, plans')
    BY <2>1, <2>4
  <2>6. \A k \in DOMAIN plans' : ~Dated(plans'[k]) => plans'[k].announced = None
    BY <2>2, <2>4
  <2>7. \A c \in Closure : told'[c] # None /\ told'[c].by = "city" =>
          \E k \in DOMAIN plans' :
            /\ Dated(plans'[k]) /\ plans'[k].latest.about = c /\ plans'[k].announced # None
            /\ FactsOf(plans'[k].announced) = told'[c].facts /\ plans'[k].at = told'[c].at
    BY <2>3, <2>4
  <2> QED BY <2>5, <2>6, <2>7 DEF CityInv
<1> QED BY <1>11, <1>12


(* 511 is asked: receipts of an earlier scheme stay receipts.              *)
LEMMA RefreshNews ==
  ASSUME ReceiptsInv, NewsInv, world' = world, NEW snapshot \in SUBSET world.reports, Refresh(snapshot),
         UNCHANGED <<plans, active, told>>
  PROVE  NewsInv' /\ (CityInv => CityInv')
<1>1. seen' = Baseline(snapshot) /\ current' = Merged(snapshot)
  BY DEF Refresh, Take
<1>2. current' \subseteq world.reports
  BY <1>1 DEF Merged
<1>3. ASSUME NEW r \in Report, seen'[EventOf[r]] # None, seen'[EventOf[r]].attempted
      PROVE  told[AboutOf[r]] # None
  <2>1. EventOf[r] \in Event
    BY AlertsAssumption
  <2>2. PICK e \in Event : e = EventOf[r]
    BY <2>1
  <2>3. CASE seen'[e] = seen[e]
    BY <1>3, <2>2, <2>3 DEF NewsInv
  <2>4. CASE seen'[e] # seen[e]
    <3>1. PICK q : \/ seen[e] # None /\ seen'[e] = Receipt(q, seen[e].at, seen[e].attempted)
                   \/ seen'[e] = Receipt(q, now, FALSE)
      BY <1>1, <2>4 DEF Baseline
    <3>2. CASE seen[e] # None /\ seen'[e] = Receipt(q, seen[e].at, seen[e].attempted)
      BY <1>3, <2>2, <3>2 DEF Receipt, NewsInv
    <3>3. CASE seen'[e] = Receipt(q, now, FALSE)
      BY <1>3, <2>2, <3>3 DEF Receipt
    <3> QED BY <3>1, <3>2, <3>3
  <2> QED BY <2>3, <2>4
<1> QED BY <1>2, <1>3 DEF NewsInv, CityInv

(* A report of 511 is announced, and with it what the city has of it.      *)
LEMMA ReportNews ==
  ASSUME ReceiptsInv, NewsInv, Identified(world), world' = world, NEW r \in Report, PublishReport(r)
  PROVE  /\ NewsInv' /\ (CityInv => CityInv') /\ SameTexts(plans, plans')
         /\ told'[AboutOf[r]].by = "511" /\ told'[AboutOf[r]].status = "scheduled"
         /\ \A c \in Closure \ {AboutOf[r]} : told'[c] = told[c]
<1>1. PICK N, g, f, tells, c :
        /\ N = world.notices /\ g = plans /\ f = [k \in DOMAIN plans |-> Inherited(plans[k], AlertOf[r], now)]
        /\ tells = By511 /\ c = AboutOf[r]
  OBVIOUS
<1>2. /\ plans' = f /\ told' = [told EXCEPT ![c] = tells] /\ UNCHANGED <<active, current>>
      /\ seen' = [seen EXCEPT ![EventOf[r]] = Receipt(r, now, TRUE)]
  BY <1>1 DEF PublishReport, Claim, memory
<1>3. world \in Worlds /\ Notices(N) /\ c \in Closure /\ now \in Nat
  BY <1>1, WorldNotices, ChannelAssumption DEF ReceiptsInv
<1>4. tells # None /\ tells.by = "511" /\ tells.status = "scheduled"
  <2>1. tells = [status |-> "scheduled", facts |-> None, published |-> now, at |-> now, by |-> "511"]
    BY <1>1 DEF By511
  <2> QED BY <1>3, <2>1, SomethingTold
<1>5. told'[c] = tells /\ \A x \in Closure : x # c => told'[x] = told[x]
  BY <1>2, <1>3 DEF NewsInv
<1>6. DOMAIN told' = Closure
  BY <1>2 DEF NewsInv
<1>7. Takes(g, f, {r})
  <2>1. ASSUME NEW k \in DOMAIN g
        PROVE  /\ DOMAIN f[k] = DOMAIN g[k] /\ f[k].latest = g[k].latest /\ f[k].aliases = g[k].aliases
               /\ g[k].announced # None => f[k] = g[k]
               /\ f[k] = g[k] \/ \E q \in {r} : Equivalent(g[k].latest, AlertOf[q])
    <3>1. PICK record, out, alert, at : record = g[k] /\ out = f[k] /\ alert = AlertOf[r] /\ at = now
      OBVIOUS
    <3>2. out = Inherited(record, alert, at)
      BY <1>1, <3>1
    <3>3. DOMAIN record = RecordParts
      BY <1>1, <3>1 DEF NewsInv, Consistent, Says
    <3> QED BY <3>1, <3>2, <3>3, InheritedIs
  <2>2. DOMAIN f = DOMAIN g
    BY <1>1
  <2> QED BY <2>1, <2>2 DEF Takes
<1>8. {r} \in SUBSET world.reports
  BY DEF PublishReport, TurnOfReport, ReportEligible, NewsInv
<1>9. /\ Consistent(N, f) /\ (Single(N, g) => Single(N, f))
      /\ \A k \in DOMAIN g : f[k] = g[k] \/ (c = g[k].latest.about /\ g[k].latest.status = "scheduled")
  <2>1. PICK R : R = {r}
    OBVIOUS
  <2>2. /\ Consistent(N, f) /\ (Single(N, g) => Single(N, f))
        /\ \A k \in DOMAIN g : \/ f[k] = g[k]
                               \/ \E q \in R : AboutOf[q] = g[k].latest.about /\ g[k].latest.status = "scheduled"
    BY <1>1, <1>3, <1>7, <1>8, <2>1, TakesKeeps DEF NewsInv
  <2> QED BY <1>1, <2>1, <2>2
<1>10. ASSUME NEW q \in Report, seen'[EventOf[q]] # None, seen'[EventOf[q]].attempted
       PROVE  told'[AboutOf[q]] # None
  <2>1. AboutOf[q] \in Closure /\ EventOf[q] \in Event /\ EventOf[r] \in Event
    BY ChannelAssumption, AlertsAssumption
  <2>2. CASE EventOf[q] = EventOf[r]
    <3>1. AboutOf[q] = AboutOf[r]
      BY <2>2 DEF Identified
    <3> QED BY <1>1, <1>4, <1>5, <3>1
  <2>3. CASE EventOf[q] # EventOf[r]
    <3>1. seen'[EventOf[q]] = seen[EventOf[q]]
      BY <1>2, <2>1, <2>3 DEF ReceiptsInv
    <3>2. told[AboutOf[q]] # None
      BY <1>10, <3>1 DEF NewsInv
    <3> QED BY <1>4, <1>5, <2>1, <3>2
  <2> QED BY <2>2, <2>3
<1>11. \A k \in DOMAIN f : f[k].latest = g[k].latest /\ k \in DOMAIN g
  BY <1>7 DEF Takes
<1>12. \A k \in DOMAIN f : f[k].announced # None => told'[f[k].latest.about] # None
  <2> SUFFICES ASSUME NEW k \in DOMAIN f, f[k].announced # None PROVE told'[f[k].latest.about] # None
    OBVIOUS
  <2>1. g[k].latest.about \in Closure
    BY <1>1, <1>11 DEF NewsInv, Consistent, Says
  <2>2. CASE f[k] = g[k]
    BY <1>1, <1>4, <1>5, <1>11, <2>1, <2>2 DEF NewsInv
  <2>3. CASE f[k] # g[k]
    BY <1>4, <1>5, <1>9, <1>11, <2>3
  <2> QED BY <2>2, <2>3
<1>13. NewsInv'
  <2>1. active' \subseteq DOMAIN plans' /\ current' \subseteq world'.reports
    BY <1>1, <1>2 DEF NewsInv
  <2>2. Consistent(world'.notices, plans')
    BY <1>1, <1>2, <1>9
  <2>3. \A k \in DOMAIN plans' : plans'[k].announced # None => told'[plans'[k].latest.about] # None
    BY <1>2, <1>12
  <2> QED BY <1>6, <1>10, <2>1, <2>2, <2>3 DEF NewsInv
<1>14. ASSUME CityInv PROVE CityInv'
  <2>1. Single(world'.notices, plans')
    BY <1>1, <1>2, <1>9, <1>14 DEF CityInv
  <2>2. ASSUME NEW k \in DOMAIN f, ~Dated(f[k]) PROVE f[k].announced = None
    <3>1. k \in DOMAIN g /\ ~Dated(g[k])
      BY <1>11, <2>2 DEF Dated
    <3>2. Undated(N, k, g[k]) /\ g[k].announced = None
      BY <1>1, <1>14, <3>1 DEF CityInv, Single
    <3>3. g[k].latest.status \in Terminal
      BY <1>3, <3>2, UndatedIs
    <3> QED BY <1>9, <3>1, <3>2, <3>3 DEF Terminal
  <2>3. ASSUME NEW x \in Closure, told'[x] # None, told'[x].by = "city"
        PROVE  \E k \in DOMAIN f :
                 /\ Dated(f[k]) /\ f[k].latest.about = x /\ f[k].announced # None
                 /\ FactsOf(f[k].announced) = told'[x].facts /\ f[k].at = told'[x].at
    <3>1. told'[x] = told[x]
      BY <1>4, <1>5, <2>3
    <3>2. PICK k \in DOMAIN g :
            /\ Dated(g[k]) /\ g[k].latest.about = x /\ g[k].announced # None
            /\ FactsOf(g[k].announced) = told[x].facts /\ g[k].at = told[x].at
      BY <1>1, <1>14, <2>3, <3>1 DEF CityInv
    <3>3. k \in DOMAIN f /\ f[k] = g[k]
      BY <1>7, <3>2 DEF Takes
    <3> QED BY <3>1, <3>2, <3>3
  <2>4. plans' = f
    BY <1>2
  <2> QED BY <2>1, <2>2, <2>3, <2>4 DEF CityInv
<1>15. SameTexts(plans, plans')
  BY <1>1, <1>2, <1>7 DEF Takes, SameTexts
<1> QED BY <1>1, <1>4, <1>5, <1>13, <1>14, <1>15


(* What a decision to announce a record means.                             *)
LEMMA DecisionIs ==
  ASSUME NEW record, NEW t, Decision(record, t) # None
  PROVE  /\ record.latest.status \in Terminal => record.announced # None
         /\ record.announced # None =>
              \/ FactsOf(record.latest) # FactsOf(record.announced)
              \/ record.latest.published > record.at /\ t - record.at >= 2 * Day
<1>1. ASSUME record.latest.status \in Terminal PROVE record.announced # None
  BY <1>1 DEF Decision
<1>2. ASSUME record.announced # None, FactsOf(record.latest) = FactsOf(record.announced)
      PROVE  record.latest.published > record.at /\ t - record.at >= 2 * Day
  <2>1. Or(record.announced, record.baseline) = record.announced
    BY <1>2 DEF Or
  <2>2. record.latest.status \notin Terminal
    BY <1>2 DEF Decision
  <2>3. record.latest.status = record.announced.status
    BY <1>2 DEF FactsOf
  <2>4. Reminds(record, t)
    BY <1>2, <2>1, <2>2, <2>3 DEF Decision
  <2> QED BY <2>4 DEF Reminds
<1> QED BY <1>1, <1>2

LEMMA PendingIs ==
  ASSUME active \subseteq DOMAIN plans, NEW p \in Pending
  PROVE  p.key \in DOMAIN plans /\ Decision(plans[p.key], now) # None
<1>1. p \in Candidates(plans, active, now)
  BY DEF Pending
<1>2. PICK k \in {x \in active : Decision(plans[x], now) # None} :
        p = [key |-> k, decision |-> Decision(plans[k], now),
             print |-> FactsOf(plans[k].latest), publication |-> Publication(plans[k].latest)]
  BY <1>1 DEF Candidates
<1> QED BY <1>2

(* What is announced is dated: what is not is a cancellation of something  *)
(* that was not announced.                                                 *)
LEMMA AnnouncedDated ==
  ASSUME ReceiptsInv, CityInv, NEW k \in DOMAIN plans, Decision(plans[k], now) # None
  PROVE  Dated(plans[k])
<1> SUFFICES ASSUME ~Dated(plans[k]) PROVE FALSE
  OBVIOUS
<1>1. PICK record, t : record = plans[k] /\ t = now
  OBVIOUS
<1>2. record.announced = None /\ Undated(world.notices, k, record)
  BY <1>1 DEF CityInv, Single
<1>3. record.latest.status \in Terminal
  BY <1>2, WorldNotices, UndatedIs DEF ReceiptsInv
<1> QED BY <1>1, <1>2, <1>3, DecisionIs

(* A notice of the city is announced.                                      *)
LEMMA PlanNews ==
  ASSUME ReceiptsInv, NewsInv, world' = world, NEW p \in Pending, PublishPlan(p)
  PROVE  /\ NewsInv' /\ (CityInv => CityInv')
         /\ LET record == plans[p.key]
                n == record.latest
            IN  /\ p.key \in DOMAIN plans /\ Decision(record, now) # None /\ n.about \in Closure
                /\ told'[n.about].status = n.status /\ told'[n.about].facts = FactsOf(n)
                /\ told'[n.about].published = n.published /\ told'[n.about].by = "city"
                /\ \A c \in Closure \ {n.about} : told'[c] = told[c]
         /\ SameTexts(plans, plans')
<1>1. PICK N, key, record, n, c, out, tells :
        /\ N = world.notices /\ key = p.key /\ record = plans[key] /\ n = record.latest /\ c = n.about
        /\ out = Claimed(record, now, p.decision)
        /\ tells = [status |-> n.status, facts |-> FactsOf(n), published |-> n.published, at |-> now, by |-> "city"]
  OBVIOUS
<1>2. key \in DOMAIN plans /\ Decision(record, now) # None
  BY <1>1, PendingIs DEF NewsInv
<1>3. /\ plans' = [plans EXCEPT ![key] = out] /\ told' = [told EXCEPT ![c] = tells]
      /\ UNCHANGED <<active, current, seen>>
  BY <1>1 DEF PublishPlan, Tell, vars, memory
<1>4. world \in Worlds /\ Notices(N) /\ now \in Nat
  BY <1>1, WorldNotices DEF ReceiptsInv
<1>5. Says(N, key, record) /\ c \in Closure /\ DOMAIN record = RecordParts /\ n \in Accounts(N, c)
  BY <1>1, <1>2, RecordsAre DEF NewsInv, Consistent, Says, Pair
<1>6. n # None /\ n.status \in Terminal \cup {"scheduled"} /\ n.published \in Nat
  <2>1. PICK m, s, g \in About(N, c) : n = Account(m, s, g)
    BY <1>5 DEF Accounts
  <2>2. n.status = m.status /\ n.published = m.published
    BY <1>4, <2>1, AccountIs
  <2>3. IsNotice(m)
    BY <1>4 DEF Notices, About
  <2>4. n # None
    BY <1>1, <1>4, <1>5, WorldNotices
  <2> QED BY <2>2, <2>3, <2>4 DEF IsNotice
<1>7. tells # None
  <2>1. PICK facts : facts = FactsOf(n)
    OBVIOUS
  <2>2. \E a \in Accounts(world.notices, c) : facts = FactsOf(a)
    BY <1>1, <1>5, <2>1
  <2>3. tells = [status |-> n.status, facts |-> facts, published |-> n.published, at |-> now, by |-> "city"]
    BY <1>1, <2>1
  <2> QED BY <1>4, <1>5, <1>6, <2>2, <2>3, SomethingTold
<1>8. /\ tells.status = n.status /\ tells.facts = FactsOf(n) /\ tells.published = n.published
      /\ tells.at = now /\ tells.by = "city"
  BY <1>1
<1>9. DOMAIN told' = Closure /\ told'[c] = tells /\ \A x \in Closure : x # c => told'[x] = told[x]
  BY <1>3, <1>5 DEF NewsInv
<1>10. /\ DOMAIN out = RecordParts /\ out.latest = n /\ out.aliases = record.aliases
       /\ out.announced = n /\ out.at = now
  BY <1>1, <1>5 DEF Claimed, RecordParts
<1>11. DOMAIN plans' = DOMAIN plans /\ plans'[key] = out /\ \A k \in DOMAIN plans : k # key => plans'[k] = plans[k]
  BY <1>2, <1>3
<1>12. \A k \in DOMAIN plans : /\ DOMAIN plans'[k] = DOMAIN plans[k]
                               /\ plans'[k].latest = plans[k].latest /\ plans'[k].aliases = plans[k].aliases
  BY <1>1, <1>5, <1>10, <1>11
<1>13. Consistent(N, plans') /\ (Single(N, plans) => Single(N, plans'))
  <2>1. PICK g, f : g = plans /\ f = plans'
    OBVIOUS
  <2>2. /\ Consistent(N, g) /\ DOMAIN f = DOMAIN g
        /\ \A k \in DOMAIN g : /\ DOMAIN f[k] = DOMAIN g[k]
                               /\ f[k].latest = g[k].latest /\ f[k].aliases = g[k].aliases
    BY <1>1, <1>11, <1>12, <2>1 DEF NewsInv
  <2>3. Consistent(N, f) /\ (Single(N, g) => Single(N, f))
    BY <2>2, SameWords
  <2> QED BY <2>1, <2>3
<1>14. NewsInv'
  <2>1. /\ Consistent(world'.notices, plans') /\ active' \subseteq DOMAIN plans' /\ current' \subseteq world'.reports
    BY <1>1, <1>3, <1>11, <1>13 DEF NewsInv
  <2>2. ASSUME NEW r \in Report, seen'[EventOf[r]] # None, seen'[EventOf[r]].attempted
        PROVE  told'[AboutOf[r]] # None
    <3>1. told[AboutOf[r]] # None /\ AboutOf[r] \in Closure
      BY <1>3, <2>2, ChannelAssumption DEF NewsInv
    <3> QED BY <1>7, <1>9, <3>1
  <2>3. ASSUME NEW k \in DOMAIN plans', plans'[k].announced # None
        PROVE  told'[plans'[k].latest.about] # None
    <3>1. CASE k = key
      BY <1>1, <1>7, <1>9, <1>10, <1>11, <3>1
    <3>2. CASE k # key
      <4>1. plans'[k] = plans[k] /\ k \in DOMAIN plans
        BY <1>11, <3>2
      <4>2. told[plans[k].latest.about] # None /\ plans[k].latest.about \in Closure
        BY <2>3, <4>1 DEF NewsInv, Consistent, Says
      <4> QED BY <1>7, <1>9, <4>1, <4>2
    <3> QED BY <3>1, <3>2
  <2> QED BY <1>9, <2>1, <2>2, <2>3 DEF NewsInv
<1>15. ASSUME CityInv PROVE CityInv'
  <2>1. Single(world'.notices, plans')
    BY <1>1, <1>13, <1>15 DEF CityInv
  <2>2. Dated(record)
    BY <1>1, <1>2, <1>15, AnnouncedDated
  <2>3. ASSUME NEW k \in DOMAIN plans', ~Dated(plans'[k]) PROVE plans'[k].announced = None
    <3>1. k \in DOMAIN plans /\ ~Dated(plans[k])
      BY <1>11, <1>12, <2>3 DEF Dated
    <3>2. k # key
      BY <1>1, <2>2, <3>1
    <3> QED BY <1>11, <1>15, <3>1, <3>2 DEF CityInv
  <2>4. ASSUME NEW x \in Closure, told'[x] # None, told'[x].by = "city"
        PROVE  \E k \in DOMAIN plans' :
                 /\ Dated(plans'[k]) /\ plans'[k].latest.about = x /\ plans'[k].announced # None
                 /\ FactsOf(plans'[k].announced) = told'[x].facts /\ plans'[k].at = told'[x].at
    <3>1. CASE x = c
      <4>1. Dated(out)
        BY <1>1, <1>10, <2>2 DEF Dated
      <4>2. key \in DOMAIN plans' /\ plans'[key] = out /\ told'[x] = tells
        BY <1>2, <1>9, <1>11, <3>1
      <4> QED BY <1>1, <1>6, <1>8, <1>10, <3>1, <4>1, <4>2
    <3>2. CASE x # c
      <4>1. told'[x] = told[x]
        BY <1>9, <3>2
      <4>2. PICK k \in DOMAIN plans :
              /\ Dated(plans[k]) /\ plans[k].latest.about = x /\ plans[k].announced # None
              /\ FactsOf(plans[k].announced) = told[x].facts /\ plans[k].at = told[x].at
        BY <1>15, <2>4, <4>1 DEF CityInv
      <4>3. k \in DOMAIN plans' /\ plans'[k] = plans[k]
        BY <1>1, <1>11, <3>2, <4>2
      <4> QED BY <4>1, <4>2, <4>3
    <3> QED BY <3>1, <3>2
  <2> QED BY <2>1, <2>3, <2>4 DEF CityInv
<1>16. SameTexts(plans, plans')
  BY <1>11, <1>12 DEF SameTexts
<1> QED BY <1>1, <1>2, <1>5, <1>8, <1>9, <1>14, <1>15, <1>16


LEMMA NewsStays ==
  ASSUME NewsInv, world' = world, plans' = plans, told' = told, seen' = seen,
         active' \in {active, {}}, current' \in {current, {}}
  PROVE  NewsInv' /\ (CityInv => CityInv')
<1>1. NewsInv'
  BY DEF NewsInv
<1>2. CityInv => CityInv'
  BY DEF CityInv
<1> QED BY <1>1, <1>2

LEMMA NewsNext ==
  ASSUME \A w \in Worlds : Identified(w), ReceiptsInv, NewsInv, [ChannelNext]_channelVars
  PROVE  NewsInv' /\ (Recognised(world) /\ CityInv => CityInv')
<1>1. world \in Worlds /\ Identified(world)
  BY DEF ReceiptsInv
<1>2. world' = world
  BY <1>1, NewsSteps
<1>3. ASSUME NEW snapshot \in SUBSET world.reports, Refresh(snapshot), UNCHANGED <<plans, active, told>>
      PROVE  NewsInv' /\ (CityInv => CityInv')
  BY <1>2, <1>3, RefreshNews
<1>4. ASSUME NEW notices \in Readings, PollCity(notices)
      PROVE  NewsInv' /\ (Recognised(world) /\ CityInv => CityInv')
  BY <1>1, <1>2, <1>4, PollKeeps
<1>5. ASSUME NEW r \in Report, PublishReport(r) PROVE NewsInv' /\ (CityInv => CityInv')
  BY <1>1, <1>2, <1>5, ReportNews
<1>6. ASSUME NEW p \in Pending, PublishPlan(p) PROVE NewsInv' /\ (CityInv => CityInv')
  BY <1>2, <1>6, PlanNews
<1>7. CASE UNCHANGED <<seen, plans, told>> /\ active' \in {active, {}} /\ current' \in {current, {}}
  BY <1>2, <1>7, NewsStays
<1> QED BY <1>1, <1>3, <1>4, <1>5, <1>6, <1>7, NewsSteps

LEMMA NewsInit == ChannelInit => NewsInv /\ CityInv
<1> SUFFICES ASSUME ChannelInit PROVE NewsInv /\ CityInv
  OBVIOUS
<1>1. /\ plans = << >> /\ active = {} /\ current = {} /\ now = 0 /\ world \in Worlds
      /\ told = [c \in Closure |-> IF \E r \in Report : AboutOf[r] = c /\ seen[EventOf[r]] # None
                                   THEN By511 ELSE None]
  BY DEF ChannelInit, Init
<1>2. DOMAIN plans = {}
  BY <1>1
<1>3. ASSUME NEW c \in Closure PROVE By511 # None /\ By511.by # "city"
  <2>1. PICK tells : tells = By511
    OBVIOUS
  <2>2. tells = [status |-> "scheduled", facts |-> None, published |-> now, at |-> now, by |-> "511"]
    BY <2>1 DEF By511
  <2>3. tells # None
    BY <1>1, <2>2, SomethingTold
  <2> QED BY <2>1, <2>2, <2>3
<1>4. ASSUME NEW r \in Report, seen[EventOf[r]] # None PROVE told[AboutOf[r]] # None
  <2>1. AboutOf[r] \in Closure
    BY ChannelAssumption
  <2> QED BY <1>1, <1>3, <1>4, <2>1
<1>5. NewsInv
  BY <1>1, <1>2, <1>4 DEF NewsInv, Consistent
<1>6. CityInv
  <2>1. \A c \in Closure : told[c] # None => told[c].by # "city"
    BY <1>1, <1>3
  <2> QED BY <1>2, <2>1 DEF CityInv, Single
<1> QED BY <1>5, <1>6

LEMMA NewsInvariant == ASSUME \A w \in Worlds : Identified(w) PROVE ChannelSpec => []NewsInv
<1>1. ReceiptsInv /\ NewsInv /\ [ChannelNext]_channelVars => NewsInv'
  BY NewsNext
<1> QED BY <1>1, NewsInit, ReceiptsInvariant, PTL DEF ChannelSpec

LEMMA CityInvariant ==
  ASSUME \A w \in Worlds : Identified(w) /\ Recognised(w) PROVE ChannelSpec => []CityInv
<1>1. ReceiptsInv /\ NewsInv /\ CityInv /\ [ChannelNext]_channelVars => CityInv'
  BY NewsNext DEF ReceiptsInv
<1>2. \A w \in Worlds : Identified(w)
  OBVIOUS
<1>3. ChannelSpec => []NewsInv
  BY <1>2, NewsInvariant
<1> QED BY <1>1, <1>3, NewsInit, ReceiptsInvariant, PTL DEF ChannelSpec

(* What the city tells is told by a step that announces a record.          *)
LEMMA TellsPlan ==
  ASSUME \A w \in Worlds : Identified(w), ReceiptsInv, NewsInv, [ChannelNext]_channelVars,
         NEW c \in Closure, Told(c, "city")
  PROVE  \E k \in DOMAIN plans :
           LET n == plans[k].latest
           IN  /\ n.about = c /\ Decision(plans[k], now) # None
               /\ told'[c].status = n.status /\ told'[c].facts = FactsOf(n)
               /\ told'[c].published = n.published
<1>1. told'[c] # told[c] /\ told'[c].by = "city" /\ world \in Worlds /\ Identified(world)
  BY DEF Told, ReceiptsInv
<1>2. world' = world
  BY <1>1, NewsSteps
<1>3. ASSUME NEW r \in Report, PublishReport(r) PROVE FALSE
  BY <1>1, <1>2, <1>3, ReportNews
<1>4. PICK p \in Pending : PublishPlan(p)
  <2>1. \A notices \in Readings : PollCity(notices) => told' = told
    BY DEF PollCity
  <2> QED BY <1>1, <1>3, <2>1, NewsSteps
<1>5. PICK k, n : k = p.key /\ n = plans[k].latest
  OBVIOUS
<1>6. /\ k \in DOMAIN plans /\ Decision(plans[k], now) # None
      /\ told'[n.about].status = n.status /\ told'[n.about].facts = FactsOf(n)
      /\ told'[n.about].published = n.published
      /\ \A x \in Closure \ {n.about} : told'[x] = told[x]
  BY <1>2, <1>4, <1>5, PlanNews
<1>7. n.about = c
  BY <1>1, <1>6
<1> QED BY <1>5, <1>6, <1>7

(* A cancellation, postponement or reopening is announced only to those    *)
(* who were told of the closure, by the city or by 511: for any notices    *)
(* whose texts let no two closures be taken for one (Identified), however  *)
(* they are edited, late, contradictory or unread, and over any number of  *)
(* crashes (planned.observe, decision, inherit_511).                       *)
THEOREM CancelledToToldAlways ==
  ASSUME \A w \in Worlds : Identified(w)
  PROVE  ChannelSpec => CancelledToTold
<1> DEFINE Body == \A c \in Closure : Told(c, "city") /\ told'[c].status \in Terminal => told[c] # None
<1>1. ReceiptsInv /\ NewsInv /\ [ChannelNext]_channelVars => Body
  <2> SUFFICES ASSUME ReceiptsInv, NewsInv, [ChannelNext]_channelVars,
                      NEW c \in Closure, Told(c, "city"), told'[c].status \in Terminal
               PROVE  told[c] # None
    OBVIOUS
  <2>1. PICK k \in DOMAIN plans :
          /\ plans[k].latest.about = c /\ Decision(plans[k], now) # None
          /\ told'[c].status = plans[k].latest.status
    BY TellsPlan
  <2>2. PICK record, t : record = plans[k] /\ t = now
    OBVIOUS
  <2>3. record.announced # None
    BY <2>1, <2>2, DecisionIs
  <2> QED BY <2>1, <2>2, <2>3 DEF NewsInv
<1>2. ChannelSpec => [][Body]_channelVars
  BY <1>1, ReceiptsInvariant, NewsInvariant, PTL DEF ChannelSpec
<1> QED BY <1>2 DEF CancelledToTold

(* The city's notices do not announce again what they told last of a       *)
(* closure, but once, of the day before, as a reminder: for any notices    *)
(* that are neither taken for another closure's (Identified) nor, but for  *)
(* a cancellation without a schedule, for none of their own (Recognised),  *)
(* over any number of crashes (planned.observe, decision, claim).          *)
THEOREM CityNewsAlways ==
  ASSUME \A w \in Worlds : Identified(w) /\ Recognised(w)
  PROVE  ChannelSpec => CityNews
<1> DEFINE Body ==
      \A c \in Closure : Told(c, "city") /\ told[c] # None /\ told[c].by = "city" =>
        \/ told'[c].facts # told[c].facts
        \/ told'[c].published > told[c].at /\ now - told[c].at >= 2 * Day
<1>1. \A w \in Worlds : Identified(w)
  OBVIOUS
<1>2. ReceiptsInv /\ NewsInv /\ CityInv /\ [ChannelNext]_channelVars => Body
  <2> SUFFICES ASSUME ReceiptsInv, NewsInv, CityInv, [ChannelNext]_channelVars,
                      NEW c \in Closure, Told(c, "city"), told[c] # None, told[c].by = "city"
               PROVE  \/ told'[c].facts # told[c].facts
                      \/ told'[c].published > told[c].at /\ now - told[c].at >= 2 * Day
    OBVIOUS
  <2>1. PICK k \in DOMAIN plans :
          /\ plans[k].latest.about = c /\ Decision(plans[k], now) # None
          /\ told'[c].facts = FactsOf(plans[k].latest)
          /\ told'[c].published = plans[k].latest.published
    BY <1>1, TellsPlan
  <2>2. PICK l \in DOMAIN plans :
          /\ Dated(plans[l]) /\ plans[l].latest.about = c /\ plans[l].announced # None
          /\ FactsOf(plans[l].announced) = told[c].facts /\ plans[l].at = told[c].at
    BY DEF CityInv
  <2>3. PICK record, t : record = plans[k] /\ t = now
    OBVIOUS
  <2>4. Dated(record)
    BY <2>1, <2>3, AnnouncedDated
  <2>5. k = l
    BY <2>1, <2>2, <2>3, <2>4 DEF CityInv, Single
  <2>6. \/ FactsOf(record.latest) # FactsOf(record.announced)
        \/ record.latest.published > record.at /\ t - record.at >= 2 * Day
    BY <2>1, <2>2, <2>3, <2>5, DecisionIs
  <2> QED BY <2>1, <2>2, <2>3, <2>5, <2>6
<1>3. ChannelSpec => []NewsInv
  BY <1>1, NewsInvariant
<1>4. ChannelSpec => [][Body]_channelVars
  BY <1>2, <1>3, ReceiptsInvariant, CityInvariant, PTL DEF ChannelSpec
<1> QED BY <1>4 DEF CityNews

(* Who was told that a closure is called off has it from the city, and a   *)
(* record that says otherwise has it from an article that takes it back.   *)
RevivalInv == ByCity(told) /\ Justified(world.notices, plans, told)

LEMMA HasDatedNow == CityInv /\ ByCity(told) => HasDated(plans, told)
<1> SUFFICES ASSUME CityInv, ByCity(told), NEW c \in Closure, ToldOff(told[c])
             PROVE  \E k \in DOMAIN plans : Dated(plans[k]) /\ plans[k].latest.about = c
  BY DEF HasDated
<1>1. told[c] # None /\ told[c].by = "city"
  BY DEF ByCity, ToldOff
<1> QED BY <1>1 DEF CityInv

LEMMA PollBack ==
  ASSUME ReceiptsInv, NewsInv, CityInv, RevivalInv,
         Identified(world), Recognised(world), world' = world,
         NEW notices \in Readings, PollCity(notices)
  PROVE  RevivalInv'
<1>1. PICK N, t, silent, merged, g, f :
        /\ N = world.notices /\ t = poll.asked /\ silent = (~plansSeen /\ ~AnnounceExisting)
        /\ merged = Observe(plans, notices, t, silent) /\ g = merged.history
        /\ f = [k \in DOMAIN g |-> Heard(g[k])]
  OBVIOUS
<1>2. plans' = f /\ told' = told
  BY <1>1 DEF PollCity
<1>3. world \in Worlds /\ Notices(world.notices) /\ notices \in SUBSET world.notices
  BY WorldNotices DEF ReceiptsInv, Readings
<1>4. Learned(world, plans, told, merged)
  BY <1>1, <1>3, ObserveKeeps DEF NewsInv
<1>5. ByCity(told) /\ HasDated(plans, told) /\ Justified(N, plans, told) /\ Single(N, plans)
  BY <1>1, HasDatedNow DEF RevivalInv, CityInv
<1>6. Consistent(N, g) /\ Justified(N, g, told)
  BY <1>1, <1>4, <1>5 DEF Learned
<1>7. SameTexts(g, f)
  <2>1. DOMAIN f = DOMAIN g /\ \A k \in DOMAIN g : f[k] = Heard(g[k]) /\ DOMAIN g[k] = RecordParts
    BY <1>1, <1>6 DEF Consistent, Says
  <2>2. ASSUME NEW k \in DOMAIN g PROVE f[k].latest = g[k].latest /\ f[k].aliases = g[k].aliases
    <3>1. PICK record, out : record = g[k] /\ out = f[k]
      OBVIOUS
    <3>2. DOMAIN record = RecordParts /\ out = Heard(record)
      BY <2>1, <3>1
    <3> QED BY <3>1, <3>2, HeardIs
  <2> QED BY <2>1, <2>2 DEF SameTexts
<1>8. Justified(N, f, told)
  BY <1>6, <1>7, SameBack
<1>9. N = world'.notices
  BY <1>1
<1> QED BY <1>2, <1>5, <1>8, <1>9 DEF RevivalInv

LEMMA ReportBack ==
  ASSUME ReceiptsInv, NewsInv, Identified(world), RevivalInv, world' = world, NEW r \in Report, PublishReport(r)
  PROVE  RevivalInv'
<1>1. PICK N, c, tells, g, f : N = world.notices /\ c = AboutOf[r] /\ tells = told' /\ g = plans /\ f = plans'
  OBVIOUS
<1>2. /\ SameTexts(g, f) /\ tells[c].by = "511" /\ tells[c].status = "scheduled"
      /\ \A x \in Closure \ {c} : tells[x] = told[x]
  BY <1>1, ReportNews
<1>3. ~ToldOff(tells[c])
  BY <1>2 DEF ToldOff, Terminal
<1>4. ByCity(tells)
  BY <1>1, <1>2, <1>3 DEF RevivalInv, ByCity
<1>5. Justified(N, g, tells)
  <2>1. \A k \in DOMAIN g : g[k].latest.about \in Closure
    BY <1>1 DEF NewsInv, Consistent, Says
  <2> QED BY <1>1, <1>2, <1>3, <2>1 DEF RevivalInv, Justified
<1>6. Justified(N, f, tells)
  BY <1>2, <1>5, SameBack
<1> QED BY <1>1, <1>4, <1>6 DEF RevivalInv

LEMMA PlanBack ==
  ASSUME ReceiptsInv, NewsInv, CityInv, RevivalInv, world' = world, NEW p \in Pending, PublishPlan(p)
  PROVE  RevivalInv'
<1>1. PICK N, key, n, c, tells, g, f :
        /\ N = world.notices /\ key = p.key /\ n = plans[key].latest /\ c = n.about
        /\ tells = told' /\ g = plans /\ f = plans'
  OBVIOUS
<1>2. /\ key \in DOMAIN g /\ Decision(plans[key], now) # None /\ c \in Closure
      /\ tells[c].status = n.status /\ tells[c].published = n.published /\ tells[c].by = "city"
      /\ \A x \in Closure \ {c} : tells[x] = told[x]
      /\ SameTexts(g, f)
  BY <1>1, PlanNews
<1>3. Dated(g[key])
  BY <1>1, <1>2, AnnouncedDated
<1>4. Notices(N)
  BY <1>1, WorldNotices DEF ReceiptsInv
<1>5. ByCity(tells)
  BY <1>1, <1>2 DEF RevivalInv, ByCity
<1>6. Justified(N, g, tells)
  <2> SUFFICES ASSUME NEW k \in DOMAIN g, g[k].latest.status = "scheduled", ToldOff(tells[g[k].latest.about])
               PROVE  Back(N, g[k])
    BY DEF Justified
  <2>1. g[k].latest.about \in Closure
    BY <1>1 DEF NewsInv, Consistent, Says
  <2>2. CASE g[k].latest.about = c
    <3>1. Dated(g[k])
      <4>1. CASE ~Dated(g[k])
        <5>1. PICK record : record = g[k]
          OBVIOUS
        <5>2. Undated(N, k, record)
          BY <1>1, <4>1, <5>1 DEF CityInv, Single
        <5>3. record.latest.status \in Terminal
          BY <1>4, <5>2, UndatedIs
        <5> QED BY <5>1, <5>3 DEF Terminal
      <4> QED BY <4>1
    <3>2. k = key
      BY <1>1, <1>2, <1>3, <2>2, <3>1 DEF CityInv, Single
    <3> QED BY <1>1, <1>2, <2>2, <3>2 DEF ToldOff, Terminal
  <2>3. CASE g[k].latest.about # c
    BY <1>1, <1>2, <2>1, <2>3 DEF RevivalInv, Justified
  <2> QED BY <2>2, <2>3
<1>7. Justified(N, f, tells)
  BY <1>2, <1>6, SameBack
<1> QED BY <1>1, <1>5, <1>7 DEF RevivalInv

LEMMA RevivalNext ==
  ASSUME \A w \in Worlds : Identified(w) /\ Recognised(w),
         ReceiptsInv, NewsInv, CityInv, RevivalInv, [ChannelNext]_channelVars
  PROVE  RevivalInv'
<1>1. world \in Worlds /\ Identified(world) /\ Recognised(world)
  BY DEF ReceiptsInv
<1>2. world' = world
  BY <1>1, NewsSteps
<1>3. CASE UNCHANGED <<plans, told>>
  BY <1>2, <1>3 DEF RevivalInv
<1>4. ASSUME NEW notices \in Readings, PollCity(notices) PROVE RevivalInv'
  BY <1>1, <1>2, <1>4, PollBack
<1>5. ASSUME NEW r \in Report, PublishReport(r) PROVE RevivalInv'
  BY <1>1, <1>2, <1>5, ReportBack
<1>6. ASSUME NEW p \in Pending, PublishPlan(p) PROVE RevivalInv'
  BY <1>2, <1>6, PlanBack
<1> QED BY <1>1, <1>3, <1>4, <1>5, <1>6, NewsSteps

LEMMA RevivalInit == ChannelInit => RevivalInv
<1> SUFFICES ASSUME ChannelInit PROVE RevivalInv
  OBVIOUS
<1>1. /\ plans = << >>
      /\ told = [c \in Closure |-> IF \E r \in Report : AboutOf[r] = c /\ seen[EventOf[r]] # None
                                   THEN By511 ELSE None]
  BY DEF ChannelInit
<1>2. By511.status = "scheduled"
  BY DEF By511
<1>3. \A c \in Closure : ~ToldOff(told[c])
  BY <1>1, <1>2 DEF ToldOff, Terminal
<1> QED BY <1>1, <1>3 DEF RevivalInv, ByCity, Justified

(* 511's report of a closure that the city has called off is held back,    *)
(* unless it shows it apart from the city.                                 *)
LEMMA HeldBack ==
  ASSUME ReceiptsInv, NewsInv, CityInv, RevivalInv, NEW r \in Report, PublishReport(r),
         NEW c, c = AboutOf[r], ToldOff(told[c])
  PROVE  \E k \in DOMAIN plans :
           \/ plans[k].latest.about = c /\ plans[k].latest.status = "scheduled"
           \/ ShownApart(plans[k], c, r)
<1>1. c \in Closure /\ ~CityCancels(r)
  BY ChannelAssumption DEF PublishReport, TurnOfReport, ReportEligible
<1>2. PICK k \in DOMAIN plans : Dated(plans[k]) /\ plans[k].latest.about = c
  BY <1>1, HasDatedNow DEF HasDated, RevivalInv
<1>3. PICK a : a = plans[k].latest
  OBVIOUS
<1>4. a.start # None /\ a.status \in Terminal \cup {"scheduled"}
  <2>1. Says(world.notices, k, plans[k])
    BY DEF NewsInv, Consistent
  <2> QED BY <1>2, <1>3, <2>1, AccountFields, RecordsAre, WorldNotices DEF Says, Pair, ReceiptsInv, Dated
<1>5. CASE a.status \in Terminal
  <2>1. ~Equivalent([a EXCEPT !.status = "scheduled"], AlertOf[r])
    BY <1>1, <1>3, <1>5 DEF CityCancels
  <2> QED BY <1>2, <1>3, <1>4, <1>5, <2>1 DEF ShownApart
<1> QED BY <1>2, <1>3, <1>4, <1>5

(* What was called off is announced again only on the word of an article   *)
(* that says so or is later than a cancellation of it that was read, or by *)
(* 511 if it shows the closure at other times or another segment than the  *)
(* city: for any notices that the comparisons tell apart and recognise     *)
(* (Identified, Recognised), over edits, late articles, several            *)
(* cancellations, repeated readings and crashes (planned.observe,          *)
(* _city_conflicts_511).                                                   *)
THEOREM NoRevivalAlways ==
  ASSUME \A w \in Worlds : Identified(w) /\ Recognised(w)
  PROVE  ChannelSpec => NoRevival
<1> DEFINE Body ==
      \A c \in Closure :
        told[c] # None /\ told[c].status \in Terminal /\ told'[c] # told[c] /\ told'[c].status = "scheduled" =>
          \E k \in DOMAIN plans :
            \/ TakenBack(plans[k], c)
            \/ told'[c].by = "511" /\ ShownApart(plans[k], c, posting')
<1>1. \A w \in Worlds : Identified(w)
  OBVIOUS
<1>2. ReceiptsInv /\ NewsInv /\ CityInv /\ RevivalInv /\ [ChannelNext]_channelVars => Body
  <2> SUFFICES ASSUME ReceiptsInv, NewsInv, CityInv, RevivalInv, [ChannelNext]_channelVars,
                      NEW c \in Closure, told[c] # None, told[c].status \in Terminal,
                      told'[c] # told[c], told'[c].status = "scheduled"
               PROVE  \E k \in DOMAIN plans :
                        \/ TakenBack(plans[k], c)
                        \/ told'[c].by = "511" /\ ShownApart(plans[k], c, posting')
    OBVIOUS
  <2>1. world \in Worlds /\ Identified(world) /\ ToldOff(told[c])
    BY DEF ReceiptsInv, ToldOff
  <2>2. PICK k \in DOMAIN plans :
          \/ plans[k].latest.about = c /\ plans[k].latest.status = "scheduled"
          \/ told'[c].by = "511" /\ ShownApart(plans[k], c, posting')
    <3>1. CASE told'[c].by = "city"
      BY <1>1, <3>1, TellsPlan DEF Told
    <3>2. CASE told'[c].by # "city"
      <4>1. world' = world
        BY <2>1, NewsSteps
      <4>2. \A notices \in Readings : PollCity(notices) => told' = told
        BY DEF PollCity
      <4>3. ASSUME NEW p \in Pending, PublishPlan(p) PROVE FALSE
        <5>1. PICK x : x = plans[p.key].latest.about
          OBVIOUS
        <5>2. told'[x].by = "city" /\ \A y \in Closure \ {x} : told'[y] = told[y]
          BY <4>1, <4>3, <5>1, PlanNews
        <5> QED BY <3>2, <5>2
      <4>4. PICK r \in Report : PublishReport(r)
        BY <2>1, <4>2, <4>3, NewsSteps
      <4>5. c = AboutOf[r] /\ told'[c].by = "511"
        BY <2>1, <4>1, <4>4, ReportNews
      <4>6. posting' = r
        BY <4>4 DEF PublishReport, Claim
      <4> QED BY <2>1, <4>4, <4>5, <4>6, HeldBack
    <3> QED BY <3>1, <3>2
  <2>3. plans[k].latest.about = c /\ plans[k].latest.status = "scheduled" => TakenBack(plans[k], c)
    BY <2>1 DEF RevivalInv, Justified, Back, TakenBack
  <2> QED BY <2>2, <2>3
<1>3. ReceiptsInv /\ NewsInv /\ CityInv /\ RevivalInv /\ [ChannelNext]_channelVars => RevivalInv'
  BY RevivalNext
<1>4. ChannelSpec => []NewsInv
  BY <1>1, NewsInvariant
<1>5. ChannelSpec => []CityInv
  BY CityInvariant
<1>6. ChannelSpec => [][Body]_channelVars
  BY <1>2, <1>3, <1>4, <1>5, RevivalInit, ReceiptsInvariant, PTL DEF ChannelSpec
<1> QED BY <1>6 DEF NoRevival
=============================================================================

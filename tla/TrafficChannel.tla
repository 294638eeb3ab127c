---------------------------- MODULE TrafficChannel ---------------------------
(***************************************************************************)
(* The traffic channel: bot/traffic/channel.py, the pages of its reports   *)
(* in bot/service.py and the snapshots of bot/traffic/madison.py.  One     *)
(* task polls 511 and the city at once, then publishes, one announcement   *)
(* at a time, 511's reports and the city's notices in one order; readers   *)
(* page through the list of both while it changes.                         *)
(*                                                                         *)
(* The ways of the radio are ReplyQueue's: here a request is at work from  *)
(* its admission on, alone.  The city's preview mode, texts without a list *)
(* (help, status, details) and their wording are left out.                 *)
(***************************************************************************)
EXTENDS TrafficAlerts

CONSTANTS
  Worlds,      (* what there is to report, to read and to answer, which    *)
               (* events an earlier installation announced, how many       *)
               (* crashes there are, and until when                        *)
  Closure,     (* the closures as the listeners know them                  *)
  AlertOf,     (* source, segment, start and end of a 511 report           *)
  AboutOf,     (* the closure a 511 report is about                        *)
  Person,
  AskerOf,     (* who sends each request                                   *)
  CommandOf,   (* "reports" or "cont"                                      *)
  PageMax      (* pages in a row: 5                                        *)

ASSUME ChannelAssumption ==
  /\ \A w \in Worlds : w.reports \subseteq Report
  /\ \A w \in Worlds : \A q \in w.requests : AskerOf[q] \in Person
  /\ AboutOf \in [Report -> Closure]
  /\ \A w \in Worlds : \A c \in Closure :
       /\ None \notin Accounts(w.notices, c)
       /\ None \notin [status : Terminal \cup {"scheduled"}, published : Nat, at : Nat, by : {"511", "city"},
                     facts : {None} \cup {FactsOf(a) : a \in Accounts(w.notices, c)}]
  /\ \A w \in Worlds : IsFiniteSet(w.notices) /\ \A n \in w.notices : IsNotice(n) /\ n.about \in Closure
  /\ PageMax \in Nat \ {0}

VARIABLES
  world,
  plans,         (* state['plans'], in memory and in the file              *)
  plansSeen,     (* state['plans_initialized']                             *)
  active,        (* city_active                                            *)
  cityAt,        (* city_success                                           *)
  cityRejected,  (* announcements of notices that do not fit or are blocked*)
  poll,          (* when the poll under way began, and who has yet to      *)
                 (* answer                                                 *)
  announcing,    (* the notice that is claimed and goes to the radio       *)
  told,          (* history: what was last announced of each closure       *)
  asked,         (* requests that were received                            *)
  batch,         (* the request at work                                    *)
  cursors,
  got,           (* history: pages of the present list each reader received*)
  lost           (* history: and how often one of his batches broke off    *)

city == <<plans, plansSeen, active, cityAt, cityRejected>>
pages == <<asked, batch, cursors, got, lost>>
channelVars == <<vars, world, city, poll, announcing, told, pages>>

NoBatch == [place |-> "none"]

By511 == [status |-> "scheduled", facts |-> None, published |-> now, at |-> now, by |-> "511"]

ChannelInit ==
  /\ Init
  /\ world \in Worlds
  /\ \A e \in Event : seen[e] # None => e \in world.upgraded
  /\ plans = << >> /\ plansSeen = FALSE
  /\ active = {} /\ cityAt = None /\ cityRejected = {}
  /\ poll = None /\ announcing = None
  /\ told = [c \in Closure |-> IF \E r \in Report : AboutOf[r] = c /\ seen[EventOf[r]] # None
                               THEN By511 ELSE None]
  /\ asked = {} /\ batch = NoBatch
  /\ cursors = [p \in Person |-> None]
  /\ got = [p \in Person |-> {}] /\ lost = [p \in Person |-> 0]

CityFresh == cityAt # None /\ now - cityAt < FreshFor

-----------------------------------------------------------------------------
(* refresh: both sources are asked at once.  The city may not be           *)
(* configured; a source with nothing to show is left out of a world.       *)

BeginPoll ==
  /\ up /\ poll = None /\ posting = None /\ announcing = None
  /\ poll' = [asked |-> now, left |-> world.sources]
  /\ UNCHANGED <<vars, world, city, announcing, told, pages>>

AnsweredBy(source) ==
  /\ poll # None /\ source \in poll.left
  /\ poll' = IF poll.left = {source} THEN None ELSE [poll EXCEPT !.left = @ \ {source}]

Poll511(snapshot) ==
  /\ AnsweredBy("511")
  /\ IsSnapshot(snapshot)
  /\ Refresh(snapshot)
  /\ UNCHANGED <<world, city, announcing, told, pages>>

(* The articles that could be read of those the city shows now, each as it *)
(* is now.                                                                 *)
Readings == {s \in SUBSET {n \in world.notices : n.shown <= now /\ now < n.gone} :
               \A m, n \in s : m.source = n.source => m = n}

(* Reports of 511 that were attempted as they are.                         *)
Attempted == {r \in current : /\ SamePrint(seen[EventOf[r]], r) /\ seen[EventOf[r]].attempted}

(* A record of what 511 announced before counts as announced.              *)
Heard(record) ==
  IF \E r \in Attempted : Equivalent(record.latest, AlertOf[r])
    THEN LET r == CHOOSE q \in Attempted : Equivalent(record.latest, AlertOf[q])
         IN  Inherited(record, AlertOf[r], seen[EventOf[r]].at)
    ELSE record

(* The notices are judged by the time at which they were asked for.  A     *)
(* save that fails is a poll that failed.                                  *)
PollCity(notices) ==
  LET merged == Observe(plans, notices, poll.asked, ~plansSeen /\ ~AnnounceExisting)
  IN  /\ AnsweredBy("city")
      /\ plans' = [k \in DOMAIN merged.history |-> Heard(merged.history[k])]
      /\ plansSeen' = TRUE
      /\ active' = merged.active
      /\ cityAt' = now
      /\ cityRejected' = cityRejected \cap Candidates(plans', active', poll.asked)
      /\ UNCHANGED <<vars, world, announcing, told, pages>>

PollFails(source) ==
  /\ AnsweredBy(source)
  /\ UNCHANGED <<vars, world, city, announcing, told, pages>>

-----------------------------------------------------------------------------
(* publish_pending *)

Pending == IF CityFresh THEN Candidates(plans, active, now) ELSE {}

(* Mutant: a cancellation by the city does not keep 511's report back.     *)
CityCancelsNone(r) == FALSE

(* _city_conflicts_511 *)
CityCancels(r) ==
  \E k \in DOMAIN plans :
    plans[k].latest.status \in Terminal
      /\ Equivalent([plans[k].latest EXCEPT !.status = "scheduled"], AlertOf[r])

CityAnnounced(r) ==
  \E k \in DOMAIN plans : plans[k].announced # None /\ Equivalent(plans[k].announced, AlertOf[r])

ReportEligible(r) == r \in current /\ Eligible(r) /\ ~CityCancels(r) /\ ~CityAnnounced(r)
PlanEligible(p) == p \in Pending \ cityRejected

(* Nothing is published during a poll or while a request is at work.       *)
Quiet == up /\ poll = None /\ posting = None /\ announcing = None /\ batch = NoBatch

(* The first in the order of priority; of equals, 511's.                   *)
TurnOfReport(r) ==
  /\ Quiet /\ ReportEligible(r)
  /\ \A q \in current : ReportEligible(q) => PriorityOf[r] <= PriorityOf[q]
  /\ \A p \in Pending : PlanEligible(p) => PriorityOf[r] <= Urgency(p)

TurnOfPlan(p) ==
  /\ Quiet /\ PlanEligible(p)
  /\ \A q \in current : ReportEligible(q) => Urgency(p) < PriorityOf[q]
  /\ \A q \in Pending : PlanEligible(q) => Urgency(p) <= Urgency(q)

(* The claim for a report is also one for the notices of the same closure. *)
PublishReport(r) ==
  /\ TurnOfReport(r)
  /\ Claim(r)
  /\ plans' = [k \in DOMAIN plans |-> Inherited(plans[k], AlertOf[r], now)]
  /\ told' = [told EXCEPT ![AboutOf[r]] = By511]
  /\ UNCHANGED <<world, plansSeen, active, cityAt, cityRejected, poll, announcing, pages>>

RejectReport(r) ==
  /\ TurnOfReport(r)
  /\ Reject(r)
  /\ UNCHANGED <<world, city, poll, announcing, told, pages>>

(* What the listeners now know of a closure.                               *)
Tell(n, by) ==
  told' = [told EXCEPT ![n.about] =
    [status |-> n.status, facts |-> FactsOf(n), published |-> n.published, at |-> now, by |-> by]]

(* Mutant: the record is saved after the radio attempt.                    *)
PublishLate(p) ==
  /\ TurnOfPlan(p)
  /\ announcing' = p
  /\ Tell(plans[p.key].latest, "city")
  /\ UNCHANGED <<vars, world, city, poll, pages>>

(* The record is saved in one step with the start of the attempt.          *)
PublishPlan(p) ==
  /\ TurnOfPlan(p)
  /\ announcing' = p
  /\ plans' = [plans EXCEPT ![p.key] = Claimed(@, now, p.decision)]
  /\ Tell(plans[p.key].latest, "city")
  /\ UNCHANGED <<vars, world, plansSeen, active, cityAt, cityRejected, poll, pages>>

RejectPlan(p) ==
  /\ TurnOfPlan(p)
  /\ cityRejected' = cityRejected \cup {p}
  /\ UNCHANGED <<vars, world, plans, plansSeen, active, cityAt, poll, announcing, told, pages>>

PlanPosted ==
  /\ announcing # None /\ announcing' = None
  /\ UNCHANGED <<vars, world, city, poll, told, pages>>

-----------------------------------------------------------------------------
(* The pages of _handle_traffic_channel *)

(* _reports: 511's in their order, then the city's.                        *)
Items ==
  LET shown == {r \in current : FreshFeed /\ Relevant(r) /\ ~CityCancels(r)}
      notices == {k \in active : /\ CityFresh
                                 /\ plans[k].latest.status = "scheduled" \/ plans[k].announced # None
                                 /\ NoticeRelevant(plans[k].latest, now)}
      Notice(k) == [key |-> k, print |-> FactsOf(plans[k].latest),
                    publication |-> Publication(plans[k].latest), conflict |-> plans[k].conflict]
      first == SetToSortSeq(shown, LAMBDA r, q : PriorityOf[r] < PriorityOf[q])
      second == SetToSortSeq(notices, LAMBDA k, l : \/ k[1] < l[1]
                                                    \/ k[1] = l[1] /\ Or(k[2], 0) < Or(l[2], 0))
  IN  [i \in 1 .. Len(first) |-> [event |-> EventOf[first[i]], print |-> PrintOf[first[i]]]]
        \o [i \in 1 .. Len(second) |-> Notice(second[i])]

(* Mutant: the cursor is taken for the index of the next page, not of the  *)
(* last one.                                                               *)
PageForSkips(command, person) ==
  LET c == cursors[person]
      index == IF command = "cont" /\ c # None /\ c.list = Items THEN c.index + 2 ELSE 1
  IN  IF (FreshFeed \/ CityFresh) /\ index <= Len(Items) THEN [index |-> index, of |-> Len(Items), item |-> Items[index]]
      ELSE None

(* The page that answers a command, None for a text without a report.      *)
PageFor(command, person) ==
  LET c == cursors[person]
      index == IF command = "cont" /\ c # None /\ c.list = Items THEN c.index + 1 ELSE 1
  IN  IF (FreshFeed \/ CityFresh) /\ index <= Len(Items) THEN [index |-> index, of |-> Len(Items), item |-> Items[index]]
      ELSE None

(* answer: the cursor moves before the page is sent.                       *)
Prepare(b, command) ==
  LET page == PageFor(command, b.person)
      again == page # None /\ (page.index = 1 \/ cursors[b.person] = None)
      moved == IF page = None THEN cursors
               ELSE [cursors EXCEPT ![b.person] = [list |-> Items, index |-> page.index]]
  IN  /\ cursors' = moved
      /\ batch' = [b EXCEPT !.text = page, !.place = "hold", !.expected = moved[b.person]]
      /\ got' = IF again THEN [got EXCEPT ![b.person] = {}] ELSE got
      /\ lost' = IF again THEN [lost EXCEPT ![b.person] = 0] ELSE lost

(* A batch is for the list as it is now.                                   *)
Ask(q) ==
  LET person == AskerOf[q]
      c == cursors[person]
      start == IF CommandOf[q] = "cont" /\ c # None /\ c.list = Items THEN c.index ELSE 0
      room == IF Len(Items) - start < PageMax THEN Len(Items) - start ELSE PageMax
  IN  /\ up /\ posting = None /\ announcing = None /\ batch = NoBatch
      /\ q \in world.requests \ asked
      /\ asked' = asked \cup {q}
      /\ Prepare([person |-> person, list |-> Items, expected |-> c, page |-> 1,
                  count |-> IF room > 1 THEN room ELSE 1, text |-> None, place |-> "hold"], CommandOf[q])
      /\ UNCHANGED <<vars, world, city, poll, announcing, told>>

(* It ends; a page that was prepared may not have been received.           *)
Over(received) ==
  /\ batch' = NoBatch
  /\ lost' = IF received \/ batch.text = None THEN lost ELSE [lost EXCEPT ![batch.person] = @ + 1]

Unchanged == batch.list = Items /\ batch.expected = cursors[batch.person]

(* Mutant: no last look at the list after the hold and a pause.            *)
TransmitPageBlind ==
  /\ batch # NoBatch /\ batch.place = "hold"
  /\ \/ batch' = [batch EXCEPT !.place = "sending"] /\ UNCHANGED lost
     \/ Over(FALSE)
  /\ UNCHANGED <<vars, world, city, poll, announcing, told, asked, cursors, got>>

(* After the hold and any pause the list must still be the same, or the    *)
(* batch ends, as it does when it waited too long or a check failed.       *)
TransmitPage ==
  /\ batch # NoBatch /\ batch.place = "hold"
  /\ \/ Unchanged /\ batch' = [batch EXCEPT !.place = "sending"] /\ UNCHANGED lost
     \/ Over(FALSE)
  /\ UNCHANGED <<vars, world, city, poll, announcing, told, asked, cursors, got>>

(* Each page is transmitted once.                                          *)
PageSent ==
  /\ batch # NoBatch /\ batch.place = "sending"
  /\ \/ /\ got' = IF batch.text = None THEN got ELSE [got EXCEPT ![batch.person] = @ \cup {batch.text.index}]
        /\ IF batch.page = batch.count THEN Over(TRUE)
           ELSE batch' = [batch EXCEPT !.place = "between", !.page = @ + 1] /\ UNCHANGED lost
     \/ Over(FALSE) /\ UNCHANGED got
  /\ UNCHANGED <<vars, world, city, poll, announcing, told, asked, cursors>>

(* Two seconds later, unless the list changed or the wait was too long.    *)
NextPage ==
  /\ batch # NoBatch /\ batch.place = "between"
  /\ \/ Unchanged /\ Prepare(batch, "cont")
     \/ Over(TRUE) /\ UNCHANGED <<cursors, got>>
  /\ UNCHANGED <<vars, world, city, poll, announcing, told, asked>>

-----------------------------------------------------------------------------
Begin == Start /\ UNCHANGED <<world, city, poll, announcing, told, pages>>

Finish == FinishPost /\ UNCHANGED <<world, city, poll, announcing, told, pages>>

(* A crash, or stop(): what is not in the file is gone.                    *)
End ==
  /\ crashes < world.crashes /\ Stop
  /\ active' = {} /\ cityAt' = None /\ cityRejected' = {}
  /\ poll' = None /\ announcing' = None /\ batch' = NoBatch
  /\ cursors' = [p \in Person |-> None]
  /\ got' = [p \in Person |-> {}] /\ lost' = [p \in Person |-> 0]
  /\ UNCHANGED <<world, plans, plansSeen, told, asked>>

(* The unit of time is longer than a poll or a radio attempt may take.     *)
Pass ==
  /\ now < world.until /\ posting = None /\ announcing = None
  /\ poll # None => poll.asked = now
  /\ Tick
  /\ UNCHANGED <<world, city, poll, announcing, told, pages>>

ChannelNext ==
  \/ BeginPoll
  \/ /\ poll # None
     /\ \/ \E snapshot \in SUBSET world.reports : Poll511(snapshot)
        \/ \E notices \in Readings : PollCity(notices)
        \/ \E source \in poll.left : PollFails(source)
  \/ \E r \in Report : PublishReport(r) \/ RejectReport(r)
  \/ \E p \in Pending : PublishPlan(p) \/ RejectPlan(p)
  \/ PlanPosted \/ Finish
  \/ \E q \in world.requests : Ask(q)
  \/ TransmitPage \/ PageSent \/ NextPage
  \/ Begin \/ End \/ Pass

ChannelSpec == ChannelInit /\ [][ChannelNext]_channelVars

-----------------------------------------------------------------------------
(* What the theorems about what listeners are told trust the comparisons   *)
(* with, and no run needs: that they take no two closures for one ...      *)
Identified(w) ==
  /\ \A c \in Closure :
       /\ \A n \in w.notices, known \in Records(w.notices, c) : SameEvent(n, known) => n.about = c
       /\ \A n \in w.notices, m \in About(w.notices, c) : EventKey(n) = EventKey(m) => n.about = c
       /\ \A r \in w.reports, a \in Accounts(w.notices, c) : Equivalent(a, AlertOf[r]) => AboutOf[r] = c
  /\ \A r, q \in Report : EventOf[r] = EventOf[q] => AboutOf[r] = AboutOf[q]

(* ... and no closure for two.  Of a cancellation without a schedule that  *)
(* was read before what it cancels, they may think otherwise.              *)
CalledOff(notices) == {n \in notices : n.status \in Terminal /\ n.start = None}

Recognised(w) ==
  \A n \in w.notices :
    /\ \A known \in Records(w.notices, n.about) : known.latest.start # None => SameEvent(n, known)
    /\ \A known \in Records(CalledOff(w.notices), n.about) :
         SameEvent(n, known) => n \in CalledOff(w.notices)

ToldOK(t) ==
  /\ t.status \in Terminal \cup {"scheduled"} /\ t.by \in {"511", "city"}
  /\ t.at \in 0 .. now

(* Types.  Of a report page at work the index is within its list; what is  *)
(* shown of the city is in the saved history.                              *)
ChannelTypeOK ==
  /\ TypeOK
  /\ world \in Worlds
  /\ active \subseteq DOMAIN plans
  /\ cityAt # None => cityAt \in 0 .. now /\ plansSeen
  /\ poll # None => poll.asked \in 0 .. now /\ poll.left # {} /\ poll.left \subseteq world.sources
  /\ \A c \in Closure : told[c] # None => ToldOK(told[c])
  /\ posting = None \/ announcing = None
  /\ batch # NoBatch => /\ batch.place \in {"hold", "sending", "between"}
                        /\ batch.page \in 1 .. batch.count /\ batch.count <= PageMax
                        /\ batch.text # None => batch.text.index \in 1 .. Len(batch.list)
                        /\ posting = None /\ announcing = None

Told(c, by) == told'[c] # told[c] /\ told'[c].by = by

(* The city's notices do not announce again what they told last of a       *)
(* closure, over crashes, edits, old articles and several sources; but     *)
(* once, of the day before, as a reminder (planned.decision, claim).       *)
CityNews ==
  [][\A c \in Closure : Told(c, "city") /\ told[c] # None /\ told[c].by = "city" =>
       \/ told'[c].facts # told[c].facts
       \/ told'[c].published > told[c].at /\ now - told[c].at >= 2 * Day]_channelVars

(* A cancellation, postponement or reopening is announced only to those    *)
(* who were told of the closure, by the city or by 511                     *)
(* (planned.decision, inherit_511).                                        *)
CancelledToTold ==
  [][\A c \in Closure : Told(c, "city") /\ told'[c].status \in Terminal => told[c] # None]_channelVars

(* A record of a closure that counts again, on the word of an article that *)
(* says it is back or is later than a cancellation that was read, of       *)
(* whatever source.                                                        *)
TakenBack(record, c) ==
  /\ record.latest.about = c /\ record.latest.status = "scheduled"
  /\ \E n, m \in About(world.notices, c) :
       /\ {n.source, m.source} \subseteq record.aliases
       /\ n.status = "scheduled" /\ m.status \in Terminal
       /\ n.published > m.published \/ n.reinstated

(* A record that still calls the closure off, but at times or a segment    *)
(* that are not those 511 shows.                                           *)
ShownApart(record, c, r) ==
  /\ record.latest.about = c /\ record.latest.status \in Terminal /\ record.latest.start # None
  /\ ~Equivalent([record.latest EXCEPT !.status = "scheduled"], AlertOf[r])

(* What was called off comes back only on the word of an article that says *)
(* so or is later than a cancellation of it, not on one that is older than *)
(* all of them, cached or edited, nor because 511 still has it as the city *)
(* had it (planned.observe, _city_conflicts_511).  Of several              *)
(* cancellations any may be the one that it is later than: an article may  *)
(* be older than the one that was told (StaysCalledOff).                   *)
NoRevival ==
  [][\A c \in Closure :
       told[c] # None /\ told[c].status \in Terminal /\ told'[c] # told[c] /\ told'[c].status = "scheduled" =>
         \E k \in DOMAIN plans :
           \/ TakenBack(plans[k], c)
           \/ told'[c].by = "511" /\ ShownApart(plans[k], c, posting')]_channelVars

(* "A cached pre-cancellation article is not reinstatement evidence", and  *)
(* traffic/README: "An explicit reinstatement or newly published           *)
(* replacement can restore a cancelled event."  That is, the city's word   *)
(* brings a closure back only by an article that says so or is published   *)
(* after the cancellation that was told.                                   *)
StaysCalledOff ==
  [][\A c \in Closure :
       Told(c, "city") /\ told[c] # None /\ told[c].status \in Terminal /\ told'[c].status = "scheduled" =>
         \/ told'[c].published > told[c].published
         \/ \E n \in world.notices : n.about = c /\ n.reinstated]_channelVars

(* A page goes to the radio only as the list is at that moment: its number *)
(* still counts the same reports (_handle_traffic_channel,                 *)
(* validate_report).                                                       *)
OneList ==
  [][batch # NoBatch /\ batch.place = "hold" /\ batch.text # None /\ batch' # NoBatch /\ batch'.place = "sending" =>
       /\ batch.text.of = Len(Items)
       /\ batch.text.item = Items[batch.text.index]]_channelVars

(* Of the pages up to his cursor a reader lacks no more than one for each  *)
(* batch that broke off, and the one under way (TrafficChannel.answer,     *)
(* which moves the cursor before the transmission).                        *)
NothingSkipped ==
  \A p \in Person : cursors[p] # None =>
    Cardinality((1 .. cursors[p].index) \ got[p])
      <= lost[p] + (IF batch # NoBatch /\ batch.person = p /\ batch.place # "between" THEN 1 ELSE 0)

=============================================================================

# Verification of Brașov Runners

TLA+ models of the site of a running club: people enter its races through a form and an
email link, wait in a line when the race is full, are offered places, sign a declaration and
wear a number; the club writes to them through two providers; jobs called from outside look
after the rest. The models are translated from the TypeScript under `src/src/modules`; TLC
checks them on small instances and TLAPS proves theorems about them for every value of their
constants.

## 1. The system

One Next.js process serves pages and server actions; PostgreSQL keeps everything; two
schedulers outside call the job routes. The modules under `src/src/modules` talk to each
other by function calls and by rows of the same database. What is concurrent is therefore:
transactions of different requests, the jobs' runs, the mail workers (which hold no
transaction open while a mail server answers), the reports a mail service sends back, and the
clock.

| Component | State | Operations | Hard behaviour | What makes it correct | Status |
|---|---|---|---|---|---|
| `registrations` - rules of places (`domain/`) | none | how many places are free for whom, when a hold ends | off-by-one at the last place, places kept for the club, an uncapped event | the operators agree with each other wherever two of them answer one question | modelled: `PlaceRules` |
| `registrations` - allocator (`service.ts`, `repository.ts`, `maintenance.ts`, `unsigned-release.ts`, `invitations.ts`) | `registrations`, `event_invitations`, `family_place_holds`, the event's columns | form, email link, signing, cancelling, invitations, the desk's verbs, the sweep, the offers | holds that lapse but are kept until wanted, entries racing to a nearly full line, the release at the deadline, the editor moving the capacity | never more places than there are, nobody passes the line, no place is taken for nobody, no place stays empty beside somebody who waits | partly: `Allocation` |
| `registrations` - family sittings (`family-sitting*.ts`, `family-gate.ts`, `family-signing.ts`) | `family_sittings`, held emails, the browser's seed | open, add a person, «Gata», confirm all, sign | one deadline for all, a message claimed while it is moved, a button that reads without a lock | nothing leaves early, one message instead of many, nobody is left out of every message | partly: `FamilySitting`, places in `Allocation` |
| `registrations` - race numbers (`bibs.ts`, `elite-list.ts`) | numbers on rows, elite lines, the audit log, spare numbers on the event | draw, hand, set, print spares, cancel, restart, erase | two series, an erasure outside the lock that draws take | no two people wear one number, none is worn twice in the event's life | partly: `RaceNumbers` |
| `notifications` - outbox (`outbox.ts`, `mailgun-stop.ts`, `hourly-pace.ts`, `deadline-rebase.ts`) | `email_outbox`, `platform_settings.mailgunStop` | queue, claim, hand back, send, mark, retry, give up | dead workers and their leases, lost answers, two roads, pauses and spent allowances | every email is sent or given up, sent again only for a lost answer, within the hour, by one worker | modelled: `Outbox`; deadlines in `Allocation` |
| `notifications` - delivery facts (`delivery-facts.ts`) | the facts on a refused row | note what a later send or report says | reports late, doubled and reordered; a probe without a lock | what is shown is what was reported, in any order | modelled: `DeliveryFacts` |
| `notifications` - relay of visitors' messages (`relay.ts`, `domain/road-failover.ts`) | one row per message | claim, ask a road, failover, give up | an answer lost after the service took it | not on both roads but for cause, never kept past its day | modelled: `Relay` |
| `notifications` - adapters, templates, rendering | - | plan the road, call, render | a road refusing in the middle of a batch | - | partly: `Outbox` holds the road, not the words |
| `action-tokens` | `email_action_tokens` | issue, replace, spend, switch | two links issued at once, a press beside a new issue | one works, acted on once, the newest | modelled: `ActionLinks`, `LinkLedger` |
| `content` - event editor | events, translations, versions | save, publish | a save that changes the places | a raised capacity serves the line | partly: `Allocation` |
| `content` - the shop (`shop/orders.ts`, `shop/service.ts`) | products, sizes, orders | order, pay, hand over, cancel, save, delete | two orders for the last piece, a form open while somebody orders, locks | no piece is created or lost, no deadlock | partly: `Shop` |
| `jobs` | the schedule cache, `platform_settings.jobCadence` | ping, run, plan the next work, wake | a promise of quiet landed after work was made, overlapping runs, lost wakes | quiet hides no due work; work is done at most a day late | partly: `JobSchedule`; what the maintenance job does in `Allocation` |
| everything else | single rows | input and display | - | - | not modelled, see section 7 |

How they interact: a request runs one service function; every function that may give or free
a place opens one transaction and takes the event's row lock first (`lockEventForCapacity`),
so such transactions of one event are serial. It queues emails in the outbox in the same
transaction, and at its end wakes the job whose promise of quiet its work breaks. After it, a
drain claims rows of the outbox, renders each (which issues its links), plans the deadline,
calls the mail server, and writes the mark and the moved deadline back, with no lock in
between. The job finds events that need the sweep by a query without the lock and then sweeps
each under it. The editor's save takes the same lock; the draw of a number takes it too, the
erasure of a person does not.

`PROJECT.json` lists the hazards of this code by line, with the properties that cover each.

## 2. The modules

| Module | Is |
|---|---|
| `PlaceRules` | the pure rules: `domain/capacity.ts`, `waitlist.ts`, `kept-places.ts`, `hold-deadlines.ts`, `unsigned-release.ts`, `invitations.ts`, `state-machine.ts`. One operator per function, no variables. |
| `Allocation`, `AllocationProperties` | the allocator of one event - its rows, its transactions, the job's sweeps, the sends that move a deadline - and what is claimed of it |
| `Outbox` | the queue of emails under several workers, two roads and their limits |
| `Relay` | one visitor's message on its two roads |
| `FamilySitting` | one address that enters several people |
| `JobSchedule` | the calls, runs and promises of one job |
| `ActionLinks` | the links of one registration, statement by statement under READ COMMITTED |
| `LinkLedger` | the abstract specification of links that `ActionLinks` implements |
| `Shop` | one product of one size, its writers and their row locks |
| `DeliveryFacts` | what later messages say about an earlier refusal |
| `RaceNumbers` | the numbers of one event |
| `MCAllocation`, `MCMail`, `MCClub` | the instances TLC runs: the small sets, and the composition of components |
| `Allocation_proofs`, `Places_proofs`, `Counts_proofs`, `Promises_proofs` | the allocator's theorems and their proofs: types, counted places, the line and the door, the promises; each extends the one before |
| `Outbox_proofs`, `Messages_proofs`, `Job_proofs`, `Club_proofs` | those of the other components |

`MCMail` composes the four components about messages and `MCClub` five others. The components
of one share no row, so a behaviour is one component's, with the others still (`part` says
whose): their product would multiply the states and show nothing new. Where components do
meet - a place and its email's deadline, a sitting and its places - one module holds both sides
(`Allocation`).

### Allocation: state

| Variable | Code |
|---|---|
| `db.ev` | the event's columns the allocator reads under its lock, and whether the unsigned places were released (`unsigned_released_for`) |
| `db.reg[p]` | the registration of the person `p`: `status`, `hold_expires_at`, `email_link_expires_at`, `waitlisted_at`, the lapse reason, the hidden list, the source. One row per address and event, as its unique index says; `ABSENT` is no row |
| `db.inv[p]`, `db.fam[p]` | the open invitation of `p`; the family place held for `p` |
| `db.mail` | first emails still queued, with the instant they were queued |
| `db.verified` | people whose address was proved once |
| `now` | the clock every transaction reads once, at its beginning |
| `entering` | entries that passed the form's early look at the line, which runs without the lock |
| `sending` | the email between the plan of its deadline and the write of it |

A column that is read in no state of a row is NULL there; that is what `WellFormed` says,
and the theorem `TypeCorrect` proves that every transaction keeps it.

### Allocation: actions

A transaction under the event's lock is one action. Its body is a chain of operators from a
database to the database the code leaves, in the order of the code's calls - sweep, serve
the line, count, place, serve the line again - so the trailing sweeps are part of the action.
Where the code may throw and roll back, the operator yields a set of databases, empty when it
does. The table names the code of the less obvious ones; `PROJECT.json` maps all of them.

| Action | Code |
|---|---|
| `PassWaitlistCheck` | `assertWaitlistCanTakeOneMore`, before the transaction |
| `Submit`, `SubmitByStaff`, `SubmitVouched` | `submitRegistration` with its three channels |
| `SubmitInSitting`, `HoldFamilyPlace`, `ConfirmFamilyEntry` | a family sitting's forms and confirmation |
| `ConfirmEmail`, `ExpireEmailLinks` | the email link and its lapse |
| `SignDeclaration`, `ConfirmByStaff` | a place becomes confirmed |
| `Promote`, `OfferPlaceTo`, `GivePlaceNow`, `SetOutside` | what the staff decide |
| `Unregister` | the person or the staff cancel |
| `Invite`, `AcceptInvitation`, `ResendInvitation`, `WithdrawInvitation`, `SweepLapsedInvitations` | invitations |
| `EditEvent` | what a save does to the places |
| `Maintenance` | the job: the query without the lock and the sweep under it |
| `PlanSend`, `OfferAccepted`, `DeclarationAccepted`, `ApplyRebase`, `SendGivesUp`, `WorkerStops` | one email: planned, accepted, marked, its deadline moved; failed; or its worker gone |

### Outbox

`rows` is `email_outbox`, `stopRecord` is `platform_settings.mailgunStop`, `batch[w]` is what
the worker `w` holds in memory between its statements, `setting` what the club and the
platform have set. The code's instants are kept as the time left until them, so a tick is the
same step at any hour. `accepted` (what the providers really took), `unaccounted` (lost
answers, outlived leases, dead workers) and `told` (a pause already written down) are read by
properties only.

| Action | Code |
|---|---|
| `Enqueue`, `ReplaceRow` | `enqueueEmail`, and the writers that withdraw or replace a queued row |
| `ScheduledClaim`, `PressClaim` | `claimOutboxBatchWithStop`, by the job and by a press: both roads' shares, the hour's room, the probe under a stop, the newsletter put off |
| `HandBack` | `releaseForPause`: the rest of the batch once the road closed under it |
| `Withdraw`, `RenderFails` | a row withdrawn since the claim; a render that throws |
| `Send` | the call outside every transaction, with each road's possible answers, the lost one included |
| `Record` | the outcome written by the row's id: mark, backoff, give-up, the stop that is noted or cleared |
| `Crash`, `Tick` | a worker dies in its batch; time passes and leases run out |
| `RetryFailed` | `retryFailedEmails` |
| `MailgunSays` | `applyMailgunEvent` |

### Relay

`message` is the row with its failures per road, `hand` the worker that holds it with what it
read, `taken` the roads whose service really has it. `TakeMessage` is the claim; `Ask` picks
the road by the plan of `domain/road-failover.ts`; `Sent`, `Refused`, `HeldForThePace`,
`Failed`, `NoRoad` are the answers and what is written for each; `WorkerStops`, `ComesDue` and
`DayPasses` are the crash, the backoff and the day after which it is given up.

### FamilySitting

`sitting` is the row, `mail` the outbox's rows about the family, `half` the browser's seed,
`pressing` what the button has read and not yet written. `FirstForm`, `OpenFromSeed`,
`Continue`, `NextForm` and `FormOpensAnother` are `family-sitting.ts`'s doors; `Release` is
«Gata»; `Claims`, `Leaves`, `Hitch` and `RenderConfirmation` the outbox's side (`family-gate.ts`
keeps a held message, `family-signing.ts` writes the confirmation); `PressReads`, `PressWrites`,
`PressFails` the button of `family-sitting-confirm.ts` in the two halves its missing lock makes
of it; `PressOwn` and `Sign` a person's own link.

### JobSchedule

`cache` holds the entries of the job's promises ("nothing due until"), one per slot, each
written once; `chore` the rows that will need the job; `run` the pings at work; `forgetting` a
request that has committed and not yet ended. `PingAnswered` and `PingRuns` are `ping.ts`;
`RunWorks`, `ReadPlan`, `PlanLands`, `RunEndsEarly` the run, `next-work.ts` and the promise it
leaves (`schedule.ts`, `schedule-cache.ts`); `Commit`, `CommitForgotten`, `RunMakesWork` the
write paths, with the wake each owes or forgets; `RequestEnds`, `RequestDies` when the wake is
applied or lost; `Evict`, `ChangeInterval`, `ForgetSchedules`, `JobTick` the rest.

### ActionLinks and LinkLedger

`token` is `email_action_tokens`; `work` what each session's open transaction has done and
locked. An issue is `StartIssue`, `Invalidate`, `Insert` (or `InsertRefused` at the unique
index) and `CommitIssue`; a press is `Press` - one conditional UPDATE - and `CommitPress` or
`RollBack`. A statement waits for rows another session has locked and rereads them, as READ
COMMITTED does. `LinkLedger` says what the emails promise without transactions: `NewLink`,
`Act`, `ActAndRenew`.

### Shop

`writer` holds what each open transaction wants and how many of its row locks it has: the
product, then the size, then the order. `BeginPlace`, `BeginMove`, `BeginSave`, `BeginDelete`
open one, `TakeLock` takes the next lock or waits, `PlaceOrder`, `MoveOrder`, `SaveProduct`,
`DeleteProduct` are what it does under them, `GiveUp` a rollback; `WindowEnds` the end of the
time in which a member may cancel.

### DeliveryFacts

`letter` holds the rows with the facts kept on a refused one; `refusing` the transaction that
holds the participant's advisory lock; `noting` how far each send is: its probe without a lock,
its try-lock, its mark. `RefuseAtSend` is the provider's own answer, the only refusal
that may be the account's; `Delivered`, `Complained` and `Bounced` are Mailgun's reports about
a message that left, in any order and any number; `slipped` names the refusals committed in the window the code's own
comment accepts.

### RaceNumbers

`giving` is the transaction that holds the event's lock: `BeginDraw`, `BeginHand`, `BeginSet`,
`BeginElite`, `BeginSpares`, two `ReadNext` (what rows and elite lines wear, what the audit log
retired - in the code's order), and a commit of its kind or `GivingFails`. An erasure is
`ReadForErasure`, `RecordErasure`, `DeleteErased`, outside that lock. `worn` and `lost` are
read by properties only.

### Abstractions

- A person is one address; the form's other columns, consent, wording and prices are left out.
- A request reads the clock once, and its transaction runs in one unit of it.
- `Allocation`: a sitting's people are confirmed one by one; the code confirms them in one
  transaction, which is one of the interleavings of the model as long as none of them is
  refused. The hold of a person whose declaration that button keeps back counts in the code from
  the moment the request may leave (`familyHeldDeclaration`), in the model from the press, as for
  anybody else. A column nobody reads in a status is NULL there: `Moved` clears the instant of
  joining the line, the code leaves it on the row. One email is in flight at a time; the many workers are `Outbox`'s. `SubmitByStaff`
  and `SetOutside` stand for the several doors of the staff that call the same function. The
  registration window is open from the first instant; members-only doors, the grace after an
  outage of email, place markers without a place, a date moved while holds run, the offer to
  move to another event and the erasure of a person are not modelled.
- `FamilySitting` leaves out the same person's form sent again within a sitting, the button's
  refusals of single people, a family message that fails for good, signers outside any
  confirmed family, and the cookie.
- `RaceNumbers` has one status, `ended`, for a row cancelled or expired: both start again and
  are erased alike. It leaves out the renumbering of a whole event and the move of a range; `Shop`
  several products in one order and the order of products on a page.
- `JobSchedule` leaves out the throttle, the budget's own reading (a minimum interval stands
  for what it decides), the health screens, the daylight-saving hour and the minutes of grace,
  and reads a plan's two queries as one step. A run whose answer is sent before it ends goes on
  the same, so nothing of it is lost.
- An expired link is one that nobody presses any more.
- Ghost variables (named above) remember what the code cannot know, for the properties; each
  exception a property makes through one - `slipped`, `missed`, `lost`, a run's own new work -
  is either a window the code's comments accept or one of the disagreements of section 4.

## 3. What TLC checks

Every run has one mutant per property in `PROJECT.json`: a plausible bug of the mapped code
(an off-by-one, a dropped guard, a swapped order) under which the property fails in that
same run. The mutants are written beside the operators they replace.

| Run | Instance | Properties |
|---|---|---|
| `desk` | three people, one place, all the desk's verbs on one of them; 58,870 states | `NoOverbooking`, `LineNotOvertaken`, `LongestWaitingServedFirst`, `NoHoldReleasedInVain` |
| `limit` | two places of which the club keeps one, a line of one, offers that outlive holds, the unsigned places released at a deadline before the close; 54,518 states | `LineWithinItsLimit`, `DoorNeverAdmitsInVain`, `KeptPlacesStayWithTheClub`, `FreePlacesAreTheClubs` |
| `reserved` | a relative in a sitting, an invited person, a newcomer, one place; 146,783 states | `NoOverbooking`, `FamilyReservationHonoured`, `InvitationTurnsIntoPlace` |
| `emails` | two people, emails that queue, are retried, fail or leave late; 213,338 states | `TypeOK`, `PlaceWaitsForItsEmail`, `OfferPromiseKept` |
| `job` | two people, the editor moving the cap both ways and off, under the scheduler's fairness; 13,048 states | `PlacesGivenWithinCapacity`, `MaintenanceSettles`, `CappedLineServed`, `StartedRaceCloses` |
| `mail` | two workers on two emails in seven deployments, a message on its two roads, a family of two, a job with two pings and two pieces of work; 316,938 states | `MailTypeOK`, `SentAgainOnlyForALostAnswer`, `OneWorkerPerRow`, `HourNotOverrun`, `NoKnockDuringAPause`, `ComplaintStands`, `SecondRoadOnlyWhenReleased`, `QuietHidesOnlyWhatRaced`, `AtMostADayLate`, `NothingWaitsForEver` |
| `club` | three links in two sessions, two writers on two orders, two letters, two runners on three numbers, a family of three in two sittings; 1,024,178 states | `ClubTypeOK`, `LinksKeepTheLedger`, `NoCircularWait`, `StockConserved`, `FactsInAnyOrder`, `SentAgainIsKnown`, `NoTwoWearOne`, `NumberNeverReissued`, `HeldUntilDone`, `OneMessageForTheFamily`, `EverybodyIsNamed` |

**What the new questions are.** Of the outbox: does anything leave twice without a lost
answer, a dead worker or an outlived lease to blame; do two workers ever hold one row; is the
provider's hour overrun however claims and answers interleave; is a paused provider knocked at
by anybody but a batch under way; does a complaint survive a bounce reported after it; does
every email end. Of the relay: do both services get a message only for a reason the plan
names. Of the sitting: does nothing leave before «Gata» or the window's end, is there one
message and not several, is everybody in some message. Of the job: can a cached "nothing due"
hide work that was committed before the promise was read, and how late is the latest. Of the
links: is every interleaving of statements a behaviour of the ledger. Of the shop: does the
number on the shelf survive a form saved over an order, can its writers deadlock. Of the
delivery facts: do they come out the same in whatever order the reports come. Of the numbers:
can a draw beside an erasure hand out a number that was worn.

**Why these bounds.** *Allocation.* Three people are the fewest for one to hold a place, one
to wait and one to arrive, which every property about the line needs; the runs that do without
the third ask questions of the clock and the mail. One place is full after one person; two
with one kept separate the public count from the staff's. Four units of clock, with holds,
offers and links of one, let a hold be given, lapse, be kept, be wanted and be released, on
both sides of the close (3) and of the start (4). The emails run gives links three units, so
that a place may be given late in it. `limit` asks about the line rather than about the end of
holds and stops the clock at 2: the deadline at 1 and the close are reached, and a hold given
at 0 lapses before either.

*The outbox.* Two emails and two workers are the fewest for a claim beside a claim and for a
batch that is cut in the middle. The seven deployments (`MCSettings`) each open one kind of
trouble - a pause with a press, dying workers, an hour of one with both roads, every refusal
with the fallback on, every refusal with only the spill-over to Gmail on and a newsletter's row
in the queue, runs that outlive their lease, late reports - because their product is
out of reach and each question needs one or two of them at once. A lease, the hour and the
day's allowance last two ticks and a pause one, so that each can end inside another.
*The relay* tries six times in its day, with failover after two failures and the pin released
after three: both thresholds are passed on either road, and a worker may stop twice.
*A family*: two or three people, one of them kept rather than registered, a window of two of
four ticks. In `club` a third person, a second sitting and a send that fails do not meet
(`Apart`). *A job*: a day of four ticks, slots of one, hours of two, work due now, in three
ticks or past a day, two pings, one setback and one change of the interval, of which
`OneTrouble` says what does not meet. *Links*: three rows give a link, its replacement and the
replacement's own; two sessions are one that issues and one that presses, or two that issue.
*Shop*: two pieces, two orders, two writers, one save. *Numbers*: two runners on three
numbers, the hidden list's series beginning at the last, so that both series meet at their
ends; a spare band, an elite line and an erasure do not meet (`OneAtATime`). *Facts*: a
confirmation or other message refused after or before a number's, at two instants.

**Deadlock** is switched off: bounded clocks and counters end every behaviour, and an event in
which everybody left for good, or a queue with nothing in it, really may stop. The deadlock the
code could have, of row locks, is the invariant `NoCircularWait`.

**Fairness.** `job`: `WF(Maintenance)` only. The scheduler calls the job again and again, and
the job runs whenever its query finds the event. Nothing is asked of the people, the staff, the
mail or even the clock. `MaintenanceSettles` is claimed only while the line is served by the
system and registration is open: where only the staff offer places the job's query may keep
finding an event whose sweep rightly does nothing.
`mail`: weakly fair are the clock, each worker's next step and the scheduled claim, which the
scheduler calls with no room for the newsletter at worst (so nothing is said of the newsletter,
which may be put off from day to day). In the relay the claim, the backoff and the end of the
day are weakly fair, and a try is strongly fair: the pace of Gmail spaces sends out, and does
not hold the same message back at every one of its turns. In the sitting the clock, the claim
and the send. Crashes, failures and lost answers are bounded and never fair. `club` and the
job's part of `mail` check safety only.

**Refinement.** `LinksKeepTheLedger` is `LinkLedger`'s whole specification under the mapping in
`ActionLinks` (`L == INSTANCE LinkLedger WITH ...`): a row's state shows only once its
transaction committed, and a statement that shows nothing is a stutter.

## 4. Where the code and its documents disagree

Five runs are expected to fail; each checks a sentence of the repository that the code does
not keep. `PROJECT.json` quotes them.

| Run | Sentence | What happens |
|---|---|---|
| `desk_overbooks` | no overbooking from the desk, ever | an offer lapses unswept, the editor lowers the capacity to the count without it, the desk confirms its holder |
| `cap_lifted` | a cap lifted while people wait offers them the places | lifted while the line is served by hand, then put back on its own: neither the save nor the job serves an uncapped line any more |
| `held_family_place` | the person's own held place goes before the count | it goes before the line is served too, and the line takes it |
| `declaration_promise` | a hold is not lapsed before its first email is sent and the deadline moved | the mark is written first and the deadline second: a sweep between them releases the place |
| `invited_after_close` | the registration takes the invitation over | after the close its hold is computed from the close and is over at once |

Fourteen more were met while the components were translated and the theorems proved. No run is spent on each; the
models do what the code does, and where a property would fail on one, its exception names it.

| Where | What happens |
|---|---|
| `registrations/service.ts:1403` | the cap is lifted while somebody waits in a full line served by hand: the form's look at the line asks nothing of an event without a cap, the allocator asks the line for room, and a newcomer is mailed a link whose press is refused (the premise of `DoorNeverAdmitsInVain`) |
| `infrastructure/email/delivery.ts:368` | a row of the Gmail road that Gmail does not take goes on to Mailgun during a pause. The fourth road of `accepted`, `spilled`, is this one; `HourNotOverrun` and `NoKnockDuringAPause` leave it out |
| `notifications/mailgun-stop.ts:101` | the record keeps the stop that ends later, so a pause met beside an allowance spent until midnight is remembered by its row alone; that row replaced, and with the fallback off, the next claim knocks (the exception `AllowanceTookItsPlace`) |
| `notifications/outbox.ts:621` | the newsletter's due rows are put off to the reset with the mark of a pause that is over, and until the reset - a day, a month - every claim reads a pause of the whole road |
| `notifications/outbox.ts:440` | nothing reads the attempt count of a row whose worker died: a message that kills its process is claimed for ever |
| `action-tokens/repository.ts:146` | of two renders of one purpose the second is refused by the index, and its email is marked failed for good (`InsertRefused`) |
| `registrations/admin-service.ts:1786` | an erasure records the number its caller read; one given since is lost to the log (`lost`), and may be drawn again |
| `notifications/render.ts:1612` | an email whose answer is lost replaces the link of one that arrived |
| `notifications/relay.ts:37` | the pin that avoids doubles is released after enough tries |
| `notifications/relay.ts:366` | a message given up is committed before its audit entry and its notice |
| `registrations/family-sitting-confirm.ts:172` | the button writes back the list it read: who joined in between is on none (`missed`) |
| `jobs/schedule-cache.ts:145` | a run's own new work may be hidden behind the promise of a run beside it |
| `jobs/next-work.ts:73` | what falls due between the maintenance's step and its plan is in neither; its promise lands for the whole quiet |
| `app/api/internal/jobs/registration-maintenance/route.ts:11` | the comment's hour is a day by now, which is what `AtMostADayLate` says |

Smaller remarks. `domain/waitlist.ts:128` says that the form's look at the line admits
"exactly" when the allocator would give a place. The look does not sweep first, so the two
differ in two narrow windows: between the lapse of an invitation or of a held place and the
next sweep the door may turn away somebody the allocator would still admit, and between the
release's deadline and the first sweep after it the door may admit somebody the allocator then
refuses; `DoorNeverAdmitsInVain` is what holds outside of the second, where there is a cap. And
where more places are claimed than there are - only the desk, confirming lapsed offers after a
lowered cap, brings that about - the door counts every lapsed hold as free and the allocator lets
one go. Of two who joined the line in the same instant the smaller row is the first, and the
service of the line may pass the other: `LineNotOvertaken` says "before" by instant and row, not
by instant alone. A relay message held for Gmail's pace is not given up at the end of its day until it is tried. Which of two facts an
account's refusal gets first depends on the order of a send and a report; both end it. A pause
heard again keeps the later of its two ends.

## 5. What TLAPS proves

Thirty-six theorems in eight modules, all from the named `ASSUME`s of the modules they are about,
which TLC evaluates in every run. None bounds a set or a number: "every" below means every
finite set of people, emails or workers, every capacity, duration and order of steps.

| Module | Theorem | Says |
|---|---|---|
| `Allocation_proofs` | `TypeCorrect` | every row of an event is well formed |
| `Places_proofs` | `NoOverbookingHolds` | claims on places never exceed the capacity, if the editor posts none below the stored one |
| | `KeptPlacesKept` | no claim of a visitor's own is added where the announced places are all claimed, whatever the editor posts |
| `Counts_proofs` | `LineWithinItsLimitHolds` | the line never outgrows its limit, if the editor only raises or lifts it |
| | `DoorNeverAdmitsInVainHolds` | whom the look at the line admits to a capped event the allocator would not refuse, if the editor posts no capacity below the stored one |
| `Promises_proofs` | `PlacesGivenWithinCapacityHolds` | a place given by the system goes with room for it, whatever the editor posts |
| | `PlaceWaitsForItsEmailHolds` | no place or offer expires while the email that tells of it is queued |
| | `OfferPromiseKeptHolds` | no offer expires before the deadline its email in flight names |
| | `LongestWaitingServedFirstHolds` | who is offered a place had waited longest, unless the staff chose |
| | `LineNotOvertakenHolds` | whoever comes by a place from outside the line passes nobody who goes on waiting, save by the club's own hand |
| | `FreePlacesAreTheClubsHolds` | under the rule that free places are the club's, no public entry takes one and the line is offered one by the club alone |
| | `FamilyReservationHonouredHolds` | a place reserved in a sitting is taken, or stays, or ends with its own link |
| | `InvitationTurnsIntoPlaceHolds` | an invitation used up leaves its person a place |
| `Outbox_proofs` | `QueueTypeCorrect` | the queue's types |
| | `OneWorkerPerRowHolds` | no two workers hold one email |
| | `ComplaintStandsHolds` | a complaint is never overwritten |
| | `SentAgainOnlyForALostAnswerHolds` | copies taken are at most one more than the losses to blame |
| | `NoKnockDuringAPauseHolds` | a recorded pause is kept by every batch claimed after it |
| | `HourNotOverrunHolds` | what Mailgun took in its window is within its hour |
| `Job_proofs` | `QuietHidesOnlyWhatRacedHolds` | a cached "nothing due" hides no work that was committed before the promise was read |
| `Club_proofs` | `LinkTypeCorrect` | the links' types |
| | `LinksImplementTheLedger` | the statements implement the ledger |
| | `OneLinkWorks` | at most one working link per purpose, through the refinement |
| | `NumbersTypeCorrect` | the numbers' types |
| | `NoTwoWearOneHolds` | no two registrations wear one number |
| | `NeverReissuedHolds` | a number once worn is nobody else's later, but for the `lost` |
| | `NoCircularWaitHolds` | writers never wait in a circle; no assumption at all |
| `Messages_proofs` | `SittingTypeCorrect` | the sittings' types |
| | `EverybodyIsNamedHolds` | nobody of a family is left without a message that names them |
| | `OneMessageForTheFamilyHolds` | the family's message is the only one of theirs still to be sent |
| | `HeldUntilDoneHolds` | what a sitting holds waits for «Gata» or for the end of its window |
| | `RelayTypeCorrect` | the relay's types |
| | `SecondRoadOnlyWhenReleasedHolds` | two services have a message only when the first was released or in doubt |
| | `FactsTypeCorrect` | the delivery facts' types |
| | `FactsInAnyOrderHolds` | what is said of a bounce does not depend on the order of the reports |
| | `SentAgainIsKnownHolds` | an open refusal knows the last send of what it carried, but for the `slipped` |

**Places.** A transaction is a chain of operators on databases; there is one lemma per
operator that good rows go in and good rows come out (`ExpireByClockGood`,
`FillAvailableSpotsGood`, `AllocatedGood`, ...), resting on a few lemmas on single rows
(`MovedRow`, `NewRow`) and on the fact that no deadline is later than the start
(`HoldsEndByTheStart`). Each action then follows from the operators it is built of. `TypeOK`
is inductive as it stands because it contains `WellFormed`, which ties each column to the
status: without it the compare-and-set of a moved deadline (`RebasedGood`) could not be shown
to leave a deadline only where a place is held. `UnconfirmedStays` is not about types: the
sweep and the service of the line leave a row whose address is not yet confirmed where it is,
which is why a reservation can be written on it afterwards.

`NoOverbookingHolds` needs one assumption more, `~EditorMayLower`: a save measures a lower
capacity on `countOccupied`, which leaves out an offer whose deadline passed and that nobody
swept, so right after a lowering the claims may be too many; the runs that let the editor lower
it, `job` and `desk_overbooks`, do not check it. `NoOverbooking` is inductive beside `TypeOK`.
The argument is about the finite set `Claims(d, t)`, and every operator of a transaction is of
one of four kinds:

- it only takes claims away (`ExpireStaleHoldsSweeps`, `LeavingFits`, `TickFits`): the set
  shrinks, and so does its cardinality (`FitsWithFewer`). The sweeps also leave no lapsed offer
  behind (`AllOpen`), and that is why what the allocator counts after one, `Occupied`, is
  exactly the number of claims (`TakenIsClaimed`) - the fact every later step rests on;
- it counted first and found room for one, then adds one claim (`AvailabilityIsRoom`,
  `HasRoomIsRoom`, `FitsWithOneMore`);
- it puts one claim in the place of another: an invitation taken over, a reserved family place
  signed for, an offer confirmed (`FitsWithAnother`, `InvitationTakenOver`, `AdoptedPlaceFits`).
  Where the service of the line runs between the two, `OwnPlaceStays` shows the old claim is
  still there when the new one is written;
- it serves the line: `FirstOfIsShort` shows that the `n` longest waiting are at most `n`, by
  an injection from them into `0..n-1`, each to the number of people before them, and
  `FitsWithMany` adds that many claims.

`EditFits` is the only lemma that uses `~EditorMayLower`. The others speak of a number `n` of
places that covers what the allocator counted before (`Held`) and what the channel may take
(`Allowed`), and bounds what is claimed after (`Fits`, `Within`); the theorems choose `n`. With `n` the capacity it
is `NoOverbooking`. With `n` what is announced - the capacity less the places kept for the club -
it is `KeptPlacesKept`: an action property, it only asks about steps that take the count up, so
the state before them has room or nothing is claimed of the step, and `TypeOK` is invariant
enough, whatever the editor posts.

`PlacesGivenWithinCapacityHolds` is the same count for every action of everybody, the desk
included, and the editor may lower. Its one exception is the finding of `desk_overbooks`. It needs
the invariant of the promises below: an invitation taken over must have been the only place of its
person, or the count would go up by a step that counted nothing.

**The door.** The look at the line (`WaitlistCanTakeOneMore`) counts once, without the lock; the
allocator sweeps twice, serves the line, counts, and may let one lapsed hold go. That the first
never says yes where the second says no has two halves. Where somebody waits, the look says yes
only if the line has room, and no sweep takes that room away: offers that end leave the line, and
those who are offered a place were in it (`RoomIsLeft`). Where nobody waits, the sweeps move
nothing the look counted (`StandsStill`): it leaves lapsed offers, reservations and invitations out,
exactly those a sweep ends. Then either a place is free, or the look saw a lapsed hold, and the
allocator, finding nothing free, lets one go (`OneHoldGoes`). One is enough only because no more
is claimed than there is, which is `NoOverbooking`. The proof did not close where the event has no
cap, and TLC found the state: hence the premise `capacity # None`, and the first of the fourteen
of section 4.

**The line.** `LineWithinItsLimit` counts those who wait and the offers still open, outside the
hidden list. Its theorem is about the behaviours in which the editor only raises or lifts the
limit (`LimitStands`): a save that lowers it asks nobody who waits to leave, and the run
`limit`, which checks the property, gives the editor one limit. The inductive invariant
`LineInv` is the property, restated as the cardinality of one set (`LineIsCounted`), with two
facts more. Nobody on the hidden list waits or has an offer: otherwise clearing the mark would
put one more person in the line (`Outsider`). And what an email in flight will do fits
(`SendFits`): the offer it announces is still kept open by its place in the queue, and the
deadline it plans is not later than the moment such offers close (`PlannedByTheClose`). So
where the write of a deadline comes late, after the sweep, it moves it only for an offer that
was counted all along, or to a moment that is over (`RebasedOfferFine`). An operator of a
transaction `Keeps` the line when it lets nobody in, and one operator - the last of an entry,
under the lock - lets in one person after it counted (`AllocatedFine`).

**The promises.** Seven action properties say what no step does to one person. A step of the
allocator is rarely about one person: an entry sweeps everybody's deadlines, frees their places,
serves the line and only then writes its own row, and some run the sweep or the line twice. So
the proof says first what each operator of a transaction leaves of *the others*.
`Treats(d, e, x, t)`: from `d` to `e` everybody but `x`, who acts, is only swept or offered a
place; nobody passes anybody in the line (`Behind`); an invitation goes only when its time is
over; and whoever is `Spared` in `d` - the race is ahead, and the deadline too, or the email that
tells of it is queued - is spared in `e`. It is closed under composition (`TreatsTwice`), which is
why the number and order of sweeps in a transaction do not matter. `FirstOfInOrder` gives the
order of the line from the choice of the `n` longest waiting. An action then is honest
(`HonestStep`) when the one row it is about shows what the promises say of it (`OwnRow`) and it
treats the rest (`TreatedHonest`); there is one lemma for each action.

`LineNotOvertaken` needs more of the one who acts: that the count which let them in left nobody in
the line with an earlier turn. `TakesNoTurn(d, e, x, t)` says so of a part of a transaction, and
since nobody but `x` joins the line or changes their place in it (`TreatedWaits`), it may be composed with
sweeps and offers before it and after it (`TurnAfter`, `TurnBefore`): it is enough to know it of
the one operator that let `x` in. Either the allocator found nobody waiting, since where somebody
waits a newcomer joins them (`NobodyWaits`); or `x` was put in the line and offered a place from
it, in its order (`InLineTreats`).

`FreePlacesAreTheClubs` speaks of the rules after the step, and the deadline's release may turn
them in the middle of it. So `Treats` also carries `RulesStand` - only that release changes whose
the free places are, and once none is due none becomes due - and `OffersAreOpen`: whoever is
offered a place is offered it when no release is to come and the places are not the club's. The
line is served only after a sweep, which leaves no release to come (`ExpiredNotDue`); hence the
rules of an offer are those the transaction ends with. For an entry by the public door
(`DoorIsClosed`) there is nothing but the line: a claim it could take over is one it had
before, and where places are the club's the allocator counts no room for it.

The properties are about a step, but need three facts of the state before it, the invariant
`Promises`, proved along with them. `SendFits` is that of the line: an offer at the mail server is
still in the queue, so no deadline counts yet, and the deadline rendered is not after the close
of such offers; hence `OfferPromiseKept`. A declaration leaves the queue in one transaction and
moves its deadline in another, and there the promise is broken (`declaration_promise`). A
reservation of a sitting ends by the close of entries (`ReservationsEndByClose`): otherwise a
reserved person could confirm at an instant when no place is given any more. And whoever has a
live invitation has no other place, nor one in the line (`InvitedHaveNoPlace`): otherwise an
invitation could be used up over an offer or a place already held. The proof showed that one
assumption on the constants was too weak: with an hour to sign of zero minutes a place given in a transaction
would be swept by the same transaction. The club's form and its reader refuse less than ten
minutes (`DEADLINE_RULES`), and `DeadlinesAssumption` now says `HoldTime` is not zero.

**The queue.** `QueueInv` is `TypeOK` with what makes it inductive. `Leased`: where no run
outlives its lease, whatever a worker holds is `PROCESSING` under a lease that still runs - so
it is not due, and a claim, which takes only what is due, takes nothing another holds; this is
also why a complaint stands, since no worker has a result left to write over it. `SentIsOut`:
a message that left is neither waiting nor tried any more. `MarkedFits` and `BatchFits` say the
little a claim and a record need of marks and of a worker's own row. The claims choose the oldest by `Min`, so the
numbers of a finite set have a least one (`LeastIsOne`, by the well-foundedness of the strict
subset order in the library).
`SentAgainOnlyForALostAnswer` says nothing of the future, so it is not inductive: a row with
one copy out and two workers about to send it would break it two steps later. `AllPaid` counts
those chances too - for each email, the copies taken, plus the workers who may still have it
taken, plus one if it will still be tried, are at most one more than the losses on its account.
A claim moves the one from "still tried" to a holder, or is paid by the lease that ran out; a
send moves it from a holder to a copy, or is paid by a lost answer; a crash is paid by itself; a
record moves it back. That one holds also where runs outlive their leases, which
`OneWorkerPerRow` does not.

A pause is kept in two memories: the record, which outlives the pause unless an allowance that
ends later takes its place (`Remembered`), and each worker's own (`Keeps`): a batch claimed
during the pause is carried by Gmail, or knows the pause, or is all Gmail's own, because a claim
under a stop that closes Mailgun's road takes nothing of it (`ClosedRoad`). A later step of the
batch knows `NoLess`. `RoadsKnown` says what the answers mean to the worker that reads them: it
carries others' mail only with the switch on, and an answer that brings a stop of its own is not
the pause itself. Then only a send knocks (`KnocksBySending`), and the send of a row that does not
wait is one of the three exceptions the property names. It was this proof that found the old
form of the property false, with three emails: the record may forget a pause (section 4).

`HourInv` is the hour's account. What it is charged with is `Counted`: the rows sent in the window
and the rows in the hands of a worker that may ask Mailgun - a set of rows, not a sum, so a row
that goes from a worker's hand to the window is counted once throughout. A claim adds to it, and
what it adds is within `HourRoom` (`RoadClaimFits`, by an injection from the oldest rows into the
room), which left out all that was counted before (`CountedByAClaim`); every other step only
takes away. What Mailgun took is not more than what is counted: each message is the only one of
its row (`TakenOnce`) and is written down on it, no younger than the row says, or in the result of
the worker that sent it (`AllWritten`). With a run that outlives its lease `TakenOnce` fails, which is
why the property speaks of the others.

**The job.** `JobInv` has three parts. `RowsTyped`. `QuietBounded`: no promise exceeds the longest
quiet, since every cap of the plan ends within a day of the run (`QuietIs`, through `WindowIs` and
`FloorIs`); this is where `JobAssumption` is used - the longest interval the settings offer, stretched to its
boundary, ends before the daily window does at its furthest, as the choices of `schedule.ts` do. `WorkForetold`: a promise a
run is about to leave, and one that no wake has forgotten, ends before any work known at the time,
or that work is among what the run could not have seen. A commit of new work is the step that
matters: a run that has not read yet will see it; one that has read will count it among its
`unseen`; an entry in the cache is forgotten by the wake, or the work is further off than any
promise reaches, which is what `QuietBounded` is for. `AtMostADayLate` stays with TLC, and is not
meant for every value of the constants: a run of the outbox may take one due row and leave the
rest, so beyond the instance's two rows the delay would also grow with their number.

**The links.** `LinkInv` says, of every open transaction, what READ COMMITTED lets it rely on:
what it spent or is replacing is live until it ends (`SpentIsLive`, `OldIsLive`), two
transactions' locks are apart (`LocksAreApart`), past the insert the purpose is this
transaction's alone (`RowIsNew`, `InsertedAlone` - the unique index), and of the committed rows
of a purpose one is live (`OneLive`). A commit then maps to a step of the ledger and every other
statement to a stutter. `OneLinkWorks` is the ledger's own invariant, carried over.

**The numbers.** `NumbersInv` follows the two reads of a draw: what is worn by anybody at any
time was read by the transaction that holds the lock, or will be by the reads it has left
(`WornIsRead`, `EverWornIsRead`). The order of the reads matters, rows first and the log second:
an erasure that records between them is seen by the second. `RecordsRetire` and `Accounted` say
that an erasure has its number in the log before the row goes, or among the `lost`.

**The shop.** Whoever keeps another waiting holds more locks than it (`BlockerIsFurther`),
because all take the rows in one order. There are at most three rows, so a chain of writers that
wait for each other ends, and a circle never would.

**A family's sitting.** `SittingInv` has fifteen parts, because neither of its two invariants is
inductive. `OneMessageForTheFamily` speaks of the people's messages, and what stops them is that
the sitting holds nothing but the family's (`FamilyStands`) while whoever still counts on a
message of their own has it held (`UnfinishedIsHeld`). `EverybodyIsNamed` is split in two
(`NamedInTwoHalves`). For those whose message was deleted: the button writes back only the
people it read, so the invariant says of a pressed button that whoever joined since is among the
`missed` (`PressStands`), and that those are in one sitting only (`MissedCameLate`). For the
signers: the confirmation is waiting, or is being rendered and names nobody yet, or names them
(`ConfirmationStands`, `SignersAreTold`). One thing was not seen before the proof asked for it:
the form that folds a family needs two people who still wait, and deletes both their messages.
If both could confirm themselves by their own link afterwards, the next form would count one
and fold nothing, so `FamilyStands` keeps one person who can be confirmed by the family's message
alone. A seed may open a sitting later than the form it came with: `SeedsHold` says the sitting
then lives at least as long as the seed, and `HeldApart` that of two sittings which hold one
message at most one can still move it. `HeldUntilDone` is an action property and needs
`TurnsKept`: a message never tried is due no earlier than its sitting's window. Every form ends
in `Settled`, whose lemmas (`SettledRow`, `SettledApart`, `SettledTogether`) say what it leaves of
the rows, and `FormKeeps` serves the three forms.

**The relay.** A worker acts on what it read at its claim. `HandFits` says the row is still what
it read, since nobody else may touch a `PROCESSING` row; `DoubtIsAllowed`, that only a road the
club allows is ever in doubt; `TakenIsKnown`, that a road which has the message has it in a row
that ended, in a doubt on the row, in the answer still in the worker's hand, or in one lost with
a worker (`unwritten`). The property then follows from how the plan pins a road in doubt
(`PlannedWell`). `FewFailures` is for the types: a road may be counted to `FailoverAfter` at
once.

**Delivery facts.** `FactsInAnyOrder` is nearly inductive, but a refusal computes its row in one
step and writes it in another, so `RefusalFits` says of the row in between that it still tells the
truth: deliveries and new messages wait for the same lock, and the one thing that may change
meanwhile, a send, is either on the row already or has still to look for it.
`SentAgainIsKnown` speaks only of the moment when every send has looked. `SendsAnswer` says what
holds before that moment: a send that an open refusal does not know of has still to look, or the
refusal slipped through between the probe and the lock (`slipped`). `RowsNoted` says the converse,
that what a refusal knows of was a send. The facts are minima and maxima of sets of instants, so
these have lemmas of their own (`SoonestIs`, `LatestIs`, `SoonestAdds`); `SameTold` and
`SameCarried` say when two states of the rows tell the same of one of them.

Only model-checked: all liveness (`MaintenanceSettles`, `CappedLineServed`,
`StartedRaceCloses`, `NothingWaitsForEver` - the provers have neither fairness nor `ENABLED`);
`StockConserved` (a sum over the orders: an induction over data, which the installed provers
cannot apply); `AtMostADayLate` (of the instance's two rows, see above); `NoHoldReleasedInVain`, which asks of one person what the chain
of sweeps inside a transaction left free for the others - `Treats` says what becomes of them, not
how many places were counted when somebody was passed over; and `MailTypeOK` and
`ClubTypeOK`, the compositions' conjunctions of types whose components have theorems of their own.

## 6. Running

    tlc -workers 2 -config Desk.cfg MCAllocation     # Limit, Reserved, Emails, Job, ...
    tlc -workers 2 -config Mail.cfg MCMail           # about two minutes
    tlc -workers 2 -config Club.cfg MCClub           # about three
    tlapm Outbox_proofs.tla                          # and the other seven *_proofs modules

## 7. Not modelled, and what is left

Most of the repository's lines are pages, forms, templates, editors and exports: they draw and
parse, and keep no state whose order of changes could be wrong. Of the parts with state:

| Part | Why |
|---|---|
| `resilience` (breaker, last good answers) | one process's memory, decided in one synchronous step: a property would restate its guard |
| `rate-limit` | one statement per hit |
| `rsvp`, `volunteers`, `newsletter`, `group-run-declarations` | rows behind a confirmed address, whose link, queue and sends are those of `ActionLinks` and `Outbox`; the rules of volunteers' roles and of answers are still to be modelled |
| `content`: pages, menu, gallery, questions, and the editor's versions and translations | one version guard on one row each |
| `legal-documents`, `staff-identity`, `person-session`, `results`, `event-checkpoints`, `routes`, `media`, `appearance`, `weather`, `feedback`, ... | single rows in, pages out |
| public cache | the framework's; only its write-once entries matter, and they are in `JobSchedule` |

What would come next, in order:

1. `NoHoldReleasedInVain` as a theorem: `Treats` would have to say what the count was when a
   person was passed over.
2. `Places`: the abstract ledger - a number of places, a set of holders, a line - that
   `Allocation` refines through its claims.
3. The button's refusals of single people, with the places of `Allocation` in one transaction.
4. `VersionGuard`, `VolunteerRoles`, `Rsvp`: small modules of one hazard each.

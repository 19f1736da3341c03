# Formal model of splite-backend

splite-backend is the API of a Venezuelan bill-splitting product: a waiter opens a bill, lines are added to it, the
bill is divided among the diners, and each diner pays at the till, by a declared *Pago Móvil* that the bank's movements
confirm, through a provider that notifies, or by a C2P charge raised against their bank. Invoices are then issued and
mailed. Around that stand a menu, the staff and their accounts, the rates of exchange, and a console from which the
platform bills the restaurants. Express handles the requests, PostgreSQL (READ COMMITTED) holds the state and Redis
volatile entries. Several processes may serve requests at once; row locks, unique indexes, foreign keys and one trigger
are the only coordination between them.

This directory holds TLA+ modules translated from that code, TLC instances that check them, and theorems about them
checked by TLAPS. `PROJECT.json` maps every definition to the lines it stands for, lists the components with what is and
is not modelled of each, and the hazards with the properties that watch them.

## 1. Inventory

| Component | State it keeps | Operations | What is hard |
|---|---|---|---|
| Payment ledger (`services/locks.js`, `payments.js`) | `bills.amount_paid_ves`, `bills.status`, `payments` | record, transition, apply to bill | three rails settle against one counter; the share refuses what the bill accepted |
| Bill routes and lines (`routes/bills.js`, `billItems.js`, `billOpen.js`) | `bills`, `bill_items` | open, add, re-count, remove, settle, void | edits under an agreed plan or payments in flight; one open bill per table |
| Splits (`splits.js`, `splitEngine.js`) | `bill_splits`, `bill_split_participants` | create (replacing the live plan), void, advance a share | the bill is read before the transaction; discard races payments; rounding |
| Declared payments and reconciliation (`paymentClaims.js`, `bankConnections.js`, `bankReconciliation.js`, `payments/validation`) | `payments`, `bank_movements`, `payment_bank_matches` | declare, confirm, reject, ingest, match | a movement backs at most one payment; matching reads without locks |
| C2P charges (`mercantilC2P.js`, `c2pMatcher.js`) | `payments`, `c2p_charges` | charge, settle, park, resolve | money moves at the bank, outside every transaction |
| Idempotency keys (`idempotency.js`) | `idempotency_keys` | begin, complete, abort, expire | a key released after money moved |
| Webhooks (`webhooks.js`) | `webhook_events_processed`, `payments` | receive | duplicates, reordering, an event before its payment |
| Fiscal invoicing (`fiscalInvoicing.js`, `fiscalNumbering.js`, `fiscalAllocation.js`, `invoiceIntents.js`, `fiscal/providers`) | `fiscal_invoice_requests`, `fiscal_invoices`, `fiscal_series`, `fiscal_counters`, `fiscal_invoice_intents` | draft, send, issue, look up, record, number, edit the series, fulfil an intent | the printer may not answer; no gap, no repeat; what is left to declare is read long before it is used |
| Invoice mail (`fiscalMail.js`) | `fiscal_invoice_deliveries` | schedule, send, sweep | sent twice, forgotten, a late failure over a success |
| Exchange rates (`fx.js`, `connectors/`) | `fx_rates`, memory | fetch, guard, fall back, refuse, purge | tomorrow's rates, outliers, stale memory |
| Accounts (`auth.js`, `loginThrottle.js`, `mfa.js`) | `users`, `refresh_sessions`, `user_mfa_recovery_codes`, Redis | login, enrol, confirm, remove, rotate, revoke | one token or code in two requests; lock-out that never ends |
| Staff and onboarding (`staff.js`, `staffInvitations.js`, `onboarding.js`) | `users`, `staff_invitations`, `restaurant_signups` | invite, accept, revoke, demote, verify | the last owner; one invitation answered twice |
| Operators (`operators.js`) | `platform_operators` | bootstrap, create, reset, activate, login | two browsers with the bootstrap phrase; one code sent twice |
| Plans (`plans.js`, `entitlements.js`) | `restaurants.plan_tier`, `audit_logs` | change, allow an invoice | two changes at once; the trail of them |
| Platform billing (`platformBilling.js`, `billingRun.js`, `subscriptionNotices.js`) | `restaurant_subscriptions`, `subscription_charges`, `subscription_payments`, notices, reminders | charge, pay, void, notify, confirm, renew, remind | a pass that stops half-way and is run again, or overlaps another |
| Tables, menu, guest sessions, guest orders, contacts | `tables`, `products`, sections, `guest_sessions`, Redis, `guest_orders`, `guest_contacts` | open, order, resolve a session, re-order, import, leave an address | orders decided on old reads, a cache with a life of its own, an import over a moving menu |
| Tips, dashboard (`tips.js`, `dashboard.js`) | reads only, `bills.server_id` | report a shift, poll the feed, claim a bill | commits behind the clock of a report |
| Receipts, metrics, HTTP wiring, DTOs, contract documents, logging | none | I/O, mapping | outside the model |

A route takes an idempotency key, calls a service, and the service opens one transaction that locks the bill
(`FOR UPDATE`), moves the counters and writes the payment. A payment names a share; `transitionPayment` credits that share
in the transaction that settles the payment. Reconciliation, webhooks and the C2P resolver re-enter the same functions
later; nothing else writes `amount_paid_ves`. What a payment declares to the treasury is derived from the lines of its bill
when its invoice is issued, and mailed after it. A rate and the plan are read before a transaction begins.

## 2. Modules

| Module | Stands for | Uses |
|---|---|---|
| `Money` | amounts in céntimos and their sums | – |
| `BillAccount` | the abstract promise of settlement: an account credited whole, once, never past what it owes | `Money` |
| `Ledger` | bills, payments, plans and shares, and every transaction that writes them | `Money`; refines `BillAccount` |
| `C2P` | one bill's C2P charges step by step: rows, calls, bank, clock, `resolve` | `Money` |
| `Webhooks` | the notifications of a provider, each delivery step by step | – |
| `Idempotency` | one idempotency key and the requests that carry it | – |
| `Matching`, `ClaimMatching` | the pure rules of matching; declared payments, movements, connections and reconciliations | `ClaimMatching` extends `Matching` |
| `Allocation`, `Dividing` | largest remainder and capped buckets; a bill's lines, its totals, the four ways to divide it and what each payment declares | `Dividing` extends `Allocation` |
| `Fiscal` | the invoices of one bill: requests, printer, own numbers, doubts, intents, the series | `Allocation` |
| `Delivery` | invoice mails, background sends and sweeps | – |
| `Tables`, `GuestSessions` | the room: tables, menu currency, bills, orders; the sessions of its diners and their cache | `GuestSessions` extends `Tables` |
| `Menu`, `Contacts` | sections, dishes, pictures and the import; addresses with their consent | – |
| `Access` | one account: password, second factor, recovery codes, refresh tokens, lock-out | – |
| `Rates` | the exchange rates of one process | – |
| `Staff`, `Operators`, `Plans`, `Subscriptions` | who works at a restaurant; who runs the console; the plan; what the restaurant owes the platform | – |
| `Reports` | the tips of a shift, the feed of payments, who serves a bill | – |
| `MCLedger`, `MCC2P`, `MCFiscal`, `MCWebhooks`, `MCDining`, `MCAccess`, `MCConsole`, `MCHouse` | the instances TLC checks | the modules named in section 3 |
| `LedgerProofs`, `ProviderProofs`, `FiscalProofs`, `RoomProofs`, `AccountProofs`, `ConsoleProofs`, `HouseProofs`, `MoneyProofs` | the theorems and their lemmas | the modules they prove about, `TLAPS` |

A wrong variant of an operator (its comment starts with "Wrong:") stands before some definitions. No specification uses
them: they are the plausible mistakes that show each property can fail.

*Granularity.* A committed transaction that locks what it reads before it reads it is one action; one that is refused or
rolled back leaves the tables alone and is a stuttering step. Wherever the code reads outside a lock, waits for something
outside the database, or runs several statements that others may come between, each of these is an action of its own, and
a variable holds what the request has read (`drafts`, `call`, `resolving`, `requests`, `work`, `jobs`, `calls`, `changes`,
`consoles`, `passes`, `senders`, `attempts`, ...). Requests, and the processes that run them, may die between any two of them.

### Money: Ledger, C2P, Webhooks, Idempotency

The four variables of `Ledger` are the four tables; `drafts` is what a splitting request read of its bill.

| Code | Action |
|---|---|
| `POST /bills` (with a total or to be itemised) | `OpenBill` |
| add, re-count, remove a line; guest orders (`billItems.js`) | `ChangeTotal`, with `Staled` for `markSplitsStale` |
| `POST /bills/:id/settle`, `/void` | `SettleBill`, `VoidBill` |
| `applyToBill`, `advanceShare` | `ApplyToBill`, `AdvanceShare`, parts of the actions below |
| `processSplitPayment` | `TakePayment` |
| `declareClaim`, `confirmClaim`, `rejectClaim` | `DeclareClaim`, `ConfirmClaim`, `RejectClaim` |
| `createC2PPayment`'s and `resolveC2PPayment`'s transactions | `SubmitC2P`, `SettleC2P`, `DoubtC2P`, `FailC2P`, `ParkC2P` |
| `POST /bills/:id/splits`, `voidSplit` | `ReadBillForSplit`, `CreateSplit`, `VoidSplit` |

`Transition` is `transitionPayment` with its table of legal moves, which the trigger on `payments` repeats; refunds appear
in that table but nothing in the program writes them. The sums behind a total are a free choice of the new total, and the
split engine a free choice of shares that add up: the ledger's guarantees must hold whichever they are.

`Ledger` takes the steps of a charge as transactions; `C2P` looks at what happens between them. `createC2PPayment` commits a
`PENDING` row (`Submit`), calls the bank (`Approve`, `Decline`, `HearNothing`) and writes the answer in another transaction.
`resolveC2PPayment` reads the row without a lock (`Ask`), searches the bank's movements (`Search`), matches (`Match`, which
reads the spent references), and decides under the row's lock. An approval may name the movement, only an id that no search
lists, or nothing (`Answers`), and an answer that `mapCharge` cannot read is taken for a refusal (`Misread`). The bank is
outside the program: at most one debit per charge, listed within the settlement window of fifteen minutes. Ages are three:
younger than that window, older, and past the six hours within which the code still searches.

A delivery of `Webhooks` is verified, looked up outside any transaction (`FindNew`) and settled in one that records its
event, if the event has an id (`Numbered`); the routes do neither for one without. In `Idempotency`, `begin`, `complete` and
`abort` are single statements, so each is an action, and so is each of `begin`'s three queries; between them stands the
operation (`Pay`), whose row carries the key under a unique index.

### Claims and the bank: ClaimMatching

A reconciliation reads the pending claims and the movements in two queries outside any transaction (`ReadClaims`,
`ReadMovements`), decides by `Matching`, and then writes and confirms claim by claim (`WriteVerdict`, `ConfirmByBank`,
`SkipClaim`). Movements arrive by poll, statement or notification (`ReceiveRows`, `StoreRow`, `MercantilInbound`), the owner
switches connections and their trust (`SetAuto`, `Remove`), staff confirm and reject (`ConfirmByHand`, `Reject`), and the
bill may fill up from the till (`PayAtTill`). References, phones and identity documents are sequences of digits because
the rules compare endings of them.

### Invoices: Fiscal, Dividing, Delivery

`issueForPayment` is a chain: `Prepare` (reached by `GuestAsks` or `Fulfil`), `Send`, `Issue`, `AskInDoubt`, then
`PersistPrinted`, `PersistOwn` or `NotIssued`; `jobs` holds where the process is, and it may throw or die at any link
(`Abandon`). `resolveUncertain` is `Ask` and `Record`, by several operators at once. `writeSeries` is `CheckSeries` and
`WriteSeries`, since it reads the counter without a lock; `takeCounter` locks it until its document commits. The printer is
outside the program (the repository has only the stand-in `providers/mock.js`): it issues a request at most once, has
decided by the time its call returns or times out, and answers a lookup truthfully or not at all.

`Dividing` is the arithmetic: totals of a bill from its lines, the split engine's four modes, payments by share or free,
and what each invoice declares per rate, in the order of the code and with its roundings. `Delivery` reads a row, sends,
and records, three steps with no claim on the row.

### The room: Tables, GuestSessions, Menu, Contacts

A request of `Tables` reads before its transaction because a rate may have to be fetched (`AskOpen`, `AskOrder`,
`ReadCurrency`, `CountOthers`), and the transaction is one step. A session is a row with its cap and an entry of the cache
whose life slides; `FindCached`, `Miss`, `ReadRow`, `Warm` are the steps of a resolve, and `LoseEntry` is Redis. An import of
`Menu` notes the last place (`BeginImport`), looks its sections up one at a time in the order of the page (`FindSection`), and
then writes line by line what is still free. `Contacts` has one statement per operation.

### People: Access, Staff, Operators, Plans, Subscriptions; Rates, Reports

`Access` follows a request from password to second factor and through the chain of refresh tokens: what it read of the
account (`Sight`), the slow check of the password and the step that lets it in are apart. The clock of the codes and the
window of failures advance beside it. `Staff` runs from the form of a lead to the accounts of a restaurant, and a request
speaks with the role of its token, which may be an old one. `Operators` reads a row, takes its time over the password and
then writes the step of the code in one guarded statement. `Plans` locks, counts, writes plan and audit entry, around an
invoice that asked for the plan before. `Subscriptions` has the console's transactions and nightly passes that renew, mark
and mail; a mail may go and its answer be lost (`unheard`). `Rates` fetches a page once for all who wait, checks each
currency against the last rate believed, and serves from memory, page or history. `Reports` stamps rows with the start of
their transaction and shows them from the commit on.

## 3. Runs

Every run checks its instance completely. Most instances hold several *parts* that share no variable; `part` is chosen in
the initial state, a behaviour runs the steps of one part only, and every other variable keeps its initial value. Since no
action of a part reads what another holds and every property is about one part, a run of the union shows what runs of the
parts alone would, without their product. Where a part has many initial states they are pinned while another part is
looked at (`MealInit`, `HouseInit`, `FiscalInit`).

Two instances go further and divide one component. In `account`, `CODES` and `TOKENS` are halves of `Access`: no step about a
code reads a session, none that turns tokens over reads anything of a code, and both are checked with the logins and the
activation they share. In `dining`, `MENU` runs the menu without its pictures and `PICTURES` without imports; neither reads
the other. The theorems of section 5 are about the whole `Next` of each module.

| Run | Instance | Shows |
|---|---|---|
| `plan` | `MCLedger`: 1 bill, 2 payments, 2 plans of 2 diners, 1 splitting request, amounts to 2 | both counters agree with the settled payments; no plan is discarded under a payment that may still settle a share; `Ledger` implements `BillAccount`, also where a plan was made over a stale balance |
| `charges` | `MCC2P`: 2 charges, 2 payers, 2 resolvers, a bill of 2, amounts to 3, a tip of 1, approvals with a movement, with another id, with none | the bill counts each settled charge once and a payer has no more charges settled with a movement than debits; such a movement is the payer's own; a diner told "refused" by the bank was not debited; a debit that resembles no other is not booked as a failure |
| `invoices` | `MCFiscal`: 2 payments, 3 requests, 2 operators, an exempt and a taxed bucket, 3 series, either provider; and 2 people over 2 bills of 2 lines in every mode | one document per payment, recorded as printed, numbered without gap or repeat, no intent told as issued without its invoice; the split and the declared amounts add up to the céntimo |
| `events` | `MCWebhooks`: 4 events of 2 payments, one of them without an id, 2 deliveries at once; 2 mails, 2 senders, 2 attempts; 2 charges in doubt, 1 resolver; 2 logins, locked after 2 failures for 2 ticks | money moves with its event and once; and, under fairness, news arrives, a mail is sent or given up, a doubt ends, a lock ends |
| `console` | `MCConsole`: 2 periods, 1 notice, 2 operators, 2 nightly passes; 2 people and 2 browsers; 2 changes of plan around an invoice | a notice is one payment, a charge that reads paid is covered or was settled short, a reminder that is known to have gone is not mailed again, an operator's code counts once, the bootstrap makes only the first operator, the audit tells the story of the plan |
| `dining` | `MCDining`: 1 table, 2 bills, 2 requests, 1 session, 2 currencies; 2 dishes, 2 sections, 1 import of 3 lines, 1 picture; 2 addresses, 3 requests | a bill that ended is not touched again, the cap of a session decides, an import is whole or nothing |
| `account` | `MCAccess`: 3 requests, 3 tokens, 2 steps of the clock, 1 enrolment, 2 sheets, locked after 2 failures for 2 ticks; 2 currencies over 2 days and the next | a code is accepted once, a token has one successor, an attempt that is refused does not count, a rate that is served was published |
| `house` | `MCHouse`: 3 requests with one key; 1 restaurant, 2 addresses, 2 invitations, 2 updates; 2 claims, 2 movements, 2 connections, 2 reconciliations; 2 payments, 2 waiters, 1 manager, pages of 1 | a key has one owner, keeps its response, and a replay is the outcome; the last owner stays and an invitation is answered once; the bank confirms with a movement of its own and overlooks nothing; claiming a bill takes it from nobody |
| `reuse`, `ahead`, `missed`, `exempt` (violations) | as `account`, `account`, `house`, `invoices` | see section 4 |

*Why the bounds suffice.* A race needs two actors, and a third only where one of them cleans up after another: two
payments, resolvers, reconciliations, passes, operators, waiters; three requests with one key (an owner, a failure that
frees the key, a retry that meets both), three requests at one account (a limit of two failures is passed by a third that was
under way), three requests for documents (an issue in doubt, the one that replaces it, another
diner's). A confusion needs two things that may be confused: charges, movements, claims, codes, plans. Amounts reach 2
because a payment must be able to leave something owing and to pass the total; in `charges` two amounts and a tip let
charges differ. Two plans are the live one and its replacement; of three series one is exhausted by its first document, one
widens it, one is a form that must not be entered. An import's three lines name one dish twice and two sections in the
other order than they stand. Two days and the next are what it takes to publish ahead, fall back, and
purge. The theorems of section 5 hold for any number of these.

*Deadlock* is not checked: identifiers, periods and clocks are bounded, and a system whose bills are closed and whose
identifiers are used has nothing left to do.

*`CONSTRAINT Sighted`* leaves out the successors of a state in which a process runs without its baselines, because it could
not read them or because a currency had no row when it started; such a state is itself checked, and `GuessesNothing` promises
nothing of it: the guard has nothing to compare with and accepts any number (`fx.js:40`, `fx.test.js:87`).

*Fairness* is stated in `events` only, where something must eventually happen, and each conjunct is asked of a disjunction
of one action of each part: an action of another part is never enabled, so this is the fairness of the part's own action.
- *Events.* The provider resends what was not accepted, and an attempt that keeps being made is not dropped every time
  (strong fairness of resending, looking up and ending, per event); a transaction that started commits (weak).
- *Mails.* The sweep is a scheduled job (weak), and is not cut at the same step for ever (strong for its three steps).
- *Doubts.* No job resolves charges: staff do, from the list of unresolved ones, so a cashier who may resolve a charge keeps
  doing so (strong), a request to resolve proceeds (weak), the bank lists what it debited, and time reaches the settlement
  window. `Prompt` leaves out two things that would make the property easier or pointless: no charge waits six hours, so a
  doubt must end without its window expiring, and no resolution is interrupted. `charges` has both.
- *Locks.* Redis lets the key of a counter expire (weak), whatever attempts go on; nothing is asked of the program or of those
  who try.

## 4. What the code does and the documents do not say

Four are runs that TLC finds violated, with their quotations in `PROJECT.json`:

- `reuse` (`auth.js:338`). Presenting a used refresh token revokes every session inside the transaction that the refusal then
  rolls back; only the audit line stays.
- `ahead` (`fx.js:236`). A rate for tomorrow is refused to the caller it was fetched for and given, out of memory, to the next.
- `missed` (`dashboard.js:295`). A page cut at its limit answers the server's clock as cursor; what was cut off is older.
- `exempt` (`fiscalInvoiceBuilder.js:65`). Whoever claimed only an exempt line pays, and declares, VAT and service of others.

The models contain the following behaviours too. They were met while reading, and no property is stated of them.

*Money.* `createSplit` divides the balance the route read before its transaction (`splits.js:70`); a payment or edit between
the two leaves a plan of a balance that no longer exists, which migration 022 meant `STALE` to exclude. Two equal charges of
one payer in doubt: resolving the second first spends the first one's movement, and the first is then failed as safe to
retry (`mercantilC2P.js:632`). An approval with a payment id and no reference stores the id, which no search lists, and one
with neither stores nothing (`mercantilC2P.js:102`, `:274`). The movement of that debit stays free and may settle another
charge of the same payer and amount, so one debit is credited twice, where the comment at `:99` has the id keep references
unique; `CreditsBackedByDebits` therefore bounds only the charges settled with a movement. A body that is `null` makes
`mapCharge` throw, and what is thrown without a mark is taken for a refusal: the charge is `FAILED` and the diner told so
though the bank may have debited (`mercantilC2P.js:248`), where `payments/providers/mercantil/c2p.js:340` has a body that
says neither yes nor no indeterminate; `RefusalMeansNoDebit` and `LoneDebitKept` leave it out. A notification without an
event id settles and records nothing, at any number of deliveries (`webhooks.js:114`, `:278`): the money is right, but
nothing tells a duplicate. A charge left `PENDING` by a process that died is listed, and resolving it replies that something
else did (`mercantilC2P.js:449`). A movement that confirmed nothing because staff confirmed by hand stays unspent, where
`docs/bank-connections.md` says it is spent either way; an invoice intent waits for ever if the process dies after the claim
was confirmed (`paymentClaims.js:351`). An event of a provider that is ignored is recorded as processed.

*Invoices.* Two drafts in flight read the same amount as left to declare (`fiscalInvoicing.js:280`): together the invoices
add up to the bill and declare too much of one rate and too little of another. An issue that throws or dies after `SENT`
leaves a row neither failed nor in doubt (`fiscalInvoicing.js:394`). The series is found unused by an unlocked read before
it is replaced (`fiscalNumbering.js:161`). In an itemised split each claimant of a shared line is weighed by the first part
of its division, and where the split asks for more than the lines, the printed lines do not sum to the invoice. Nothing
claims a mail's row, so background and sweep may both send it, and a late failure overwrites a success.

*Room.* One open bill per table is the unique index of `bills`, here a guard of the two actions that open one. The idle time
of a guest session ends its cache entry, never the session; a resolve that re-warms the cache after a close leaves an entry
behind. The menu's currency counts unlocked and then writes (`menu.js:484`), and a bill opened in the former currency takes
no lines. A table can be switched off with an open bill. Positions of sections and dishes may tie; deleting a switched-off
section shows its dishes again; ordering asks only whether the product is on. `withdraw` of `guestContacts.js` has no
caller.

*Rates.* A currency that the guard rejects is served from an old cache entry without a bound on its age while another is
accepted; a failed load of the baselines is not retried. The purge takes its advisory lock through the pool.

*People and reports.* An operator's reset between a login's read and its write lets a code of the old authenticator through,
and a session issued before the reset works again once the account is activated. A login that read the account before it was
deactivated, or before a second factor was confirmed, or before its sessions were revoked, still gets a session
(`auth.js:83`). When Redis does not answer, the throttle lets every attempt through; that path is not modelled. A
subscription suspended between the pass's read and `createCharge` is charged once more; a death between mark and mail loses
the reminder; voiding reads payments it does not lock (`platformBilling.js:402`), so a void charge may hold money, and two
halves paid at once are each too little to close their charge. Two nightly passes that overlap renew one after the other,
and the second may bill the period after the next ahead of its time (`billingRun.js:44`). A mail whose answer was lost is
unmarked and mailed again by the next pass (`billingRun.js:159`), where the comment at `:22` has each mail sent once;
`RemindedOnce` speaks of what a pass heard. An invoice allowed under a plan can be issued after the downgrade. A payment
whose transaction began before the end of a shift and commits after its report is in no report until it is run again, and
the feed skips it as well; the sums of a report come from three statements.

## 5. Proofs

TLAPS checks every theorem for all values of the constants; nothing is assumed but the named `ASSUME`s of the modules. Those
say that constants are of the kind the code gives them (finite sets, natural numbers, an order of tiers; for a bill's lines, the
CHECKs of `010_bill_items.sql` and that every line's rate is one of `Vats`), that the stand-in
for "nothing" is no row of the tables, and, in `Rates`, that the outlier is one: `OutlierAssumption` puts it further from
every published rate than the guard lets a rate move, since an error within the band is believed by the program too.

Except for four liveness properties, named at the end, every property of every passing run is a theorem. An invariant is
proved as `Init => I`, `I /\ [Next]_vars => I'` with one step per action, and an action property from the same `I`.

*Sums* (`MoneyProofs`). The ledger's sums are by counting: the total of amounts over a set is
the number of pairs of an element and one of its céntimos. The library's theorems on cardinality then give that the total
over the empty set is 0, that adding an element adds its amount, and that a total depends only on the set's own amounts.

*Ledger* (`LedgerProofs`). Neither `LedgerAgrees` nor `ShareAgrees` is inductive alone: a payment on a bill that does not
exist, or one naming a share with no row, would break them one step later. The invariant is `LedgerInv == TypeInv /\
LedgerAgrees /\ ShareAgrees`, where `TypeInv` types the rows with what travels with their status (`BillRow`, `SplitRow`,
`Recorded`): a closed bill is accounted for, a voided bill or plan was paid nothing, nothing is paid past what is owed. A
step either leaves settled money alone (`MoneyStill`) or settles exactly one payment (`Settles`). `InFlightKeepsItsPlan`
follows as an action property, by cases on who discards a plan. The refinement `ImplementsBillAccount` maps the tables to
`SeenBills` and `SeenPayments`; a settling step is the abstract `Credit` and needs `LedgerInv` for its guards (the payment
was not credited before, the bill is open, the sum does not pass what is due), every other step is `Open`, `Reprice`,
`WriteOff`, `Cancel` or a stutter.

*C2P* (`ProviderProofs`). `ChargesOK` is, per charge, `Asking` (the row exists before the bank is asked; what the request
believes of the bank is true) and `Spent` (a reference written is that of a debit that could be the charge's own; a failed
charge was refused, or misread, or is past its window and resembles another; what is past its window is no longer unlisted);
`InOrder`; `SpentOnce`; per cashier `Sound` (the movements held are listed and could be the charge's, and an absence about to
be taken for proof is one); and `Booked` (the bill holds what was settled). `Lone` charges are what makes the third part
true: with two alike, absence proves nothing. `CreditsAreBacked` counts by an injection from the charges settled with a
movement to debits, whatever approvals carry; the other half of it is `Booked`.

*Webhooks*: `MoneyWithItsEvent`, which counts what was credited against the payments that settled, with the types of
deliveries; `AcceptedWasProcessed` beside it, for events with and without an id.

*Fiscal* (`FiscalProofs`). `OneDocument` is not inductive: a request may be failed while the printer is asked about it, or
persisted while another took its payment. `IssueInv` adds what a request's row implies about its documents and its process
(`RequestRow`), the unique index (`OnePerPayment`), and that a lookup's answer is still true when recorded (`AnswerFits`).
`Register`: the printer's documents are the stored drafts; `Numbered`: every number is below the counter. The proofs let a
draft be anything: `DraftFor` matters to the sums alone, which are next.

*Arithmetic* (`FiscalProofs`). `SumOver` and `AllocateCapped` are recursive functions, and the library's induction theorems
cannot be instantiated. `BySize`, `OneByOne` and `StepByStep` are induction with the *set* of what a claim holds of in the
place of an operator, from the library's well-founded minimum; with them `SumUnfolds` shows that the fold takes one element
off at a time, and the `Total...` lemmas what sums do (add, scale, split, swap rows for columns, stay near when their terms
do). `AllocateExact`: ranks of remainders are a bijection (`Places`, `AheadRanks`), so exactly the céntimos left are handed
out, and never to a part with no remainder. `AllocateCappedExact`: every turn either hands out all or loses a bucket
(`RoundFits`), so the rounds suffice. `BillIsRight`: the slots of every bill make up its due, in any currency.

The invariant is `DividingInv`: the bill is that of its lines, `PaymentsRight` (every invoice is of what was paid, only members
of the plan are linked to it), no slot is overdrawn, and the plan is exact. `DeclaredToTheCentimo` needs the third part
inductively: an invoice must fit into what is left (`InvoiceFits`, by the caps and then by `AllocateWithZerosExact` inside a
rate), and if all that was paid is declared and nothing is overdrawn, nothing is left over (`AllDeclared`). `SplitIsExact` is
about the moment a plan is made. By items, the table of what each person owes per claim sums to the balance by rows as it
does by columns (`OwedForLine`, `ItemsAreAll`); each claim goes through three roundings, whose errors add to less than two
céntimos (`OneClaim`: the third errs only where a claim has several people), and a person's claims add theirs (`ItemsNear`).
`Parts`, the unit in which a claim's due is stated without a fraction, is any common multiple of the sizes of groups.

*Room* (`RoomProofs`). `DoorOK` (types, what a request saw is still there, whoever is at the door is there about a session
that exists) with `EndedBillsAreLeft` from the steps alone, `CapsAgree` (an entry that carries a cap carries its row's) for
`CapDecides`. `Menu` needs `FoundStand`: what an import found, one section after another, exists until it writes, renamed or
not; `LeastNatural` gives the lines their places. For the addresses, a withdrawn one consents to nothing.

*Accounts and rates* (`AccountProofs`). `Chained`: an exchanged token is revoked for good and claimed by one request at a time.
`PastCodes`: an accepted code belongs to a replaced secret, or to a step not after the last, or is no longer on the sheet.
`Bounded`: the failures that counted and the attempts still under way are fewer than the limit and the requests together; who is
let in found the count below the limit, and only such an attempt can count (`RefusalsDoNotCount`).
`RatesOK`: what is young is in memory, and unless the process is blind, every currency keeps a row whatever is purged, and what
is on record, in memory, under way and given was published.

*Console* (`ConsoleProofs`). `Waiting` (a payment from a notice holds it locked and undecided, and only one does),
`SeenIsRecorded` for `PaidIsExplained` (the sum a transaction read before it waited for the charge is at most what is
recorded now, so a decision on it errs towards leaving the charge open), `Marked` (who mails a reminder marked it, and what
it marked is not known to have gone), `Heard`, `CodesSpent` with `Forward` and `Behind` (a row only goes forward; accepted
codes are behind it), `FoundEmpty` (who found no operator holds the table), `OneHolds` and `ReadHolds` (one change holds the
restaurant, and what it read is still so).

*House* (`HouseProofs`). Keys: while a request works under the key the row is there, is not expired and has that request's
hash and no response but possibly its own, on its way to an error; one request owns it; and a stored response names a
request that paid. `ResponseKept` follows, because only an owner that has not been answered gives the key back. Staff:
`Grounded`, and `OwnersKept` (one update counts owners at a time, and its count stays true until it commits). Claims:
`ClaimsOK` (types, `SoundWork`: what a process is to confirm matches in every field; `Backed`: a movement backs a confirmed
claim and nothing else), and for `NothingOverlooked` the invariant `Looked`: until somebody disturbs a connection or a
movement ages, some process that has yet to read, or has read what there is, will see every overlooked claim. Reports:
`TipsInTheirShift` (a settled payment stays as it is, and is counted where it settled) and `HeldByOne`.

*Only model-checked.* `EventsArrive`, `MailSettles`, `DoubtEnds` and `LockoutEnds` are liveness under fairness, which TLAPS
does not prove here. Every invariant and action property of the passing runs is proved. The four violated properties are of
course not theorems. `ContactsType`, the two properties of addresses, `TipsCountedOnce` (no tip is in two shifts; some are
in none, section 4) and the other type and intermediate theorems are proved without being stated by a run, to keep the runs
to distinct questions.

## 6. What is not modelled, and what is left

`PROJECT.json` gives the reason for each component. HTTP wiring, contract documents and logging keep no state. Left out of
modelled components: refunds (nothing writes them), tender and display currencies, names and texts, sealed credentials and
the banks' formats, signatures (they decide only whether a delivery gets there), prices in the menu, the price list, the
customer and lines on a fiscal document, metrics and other read-only views. Two hazards have no property: the lock order of a
share payment against the replacement of a plan (`splits.js:260`), since a transaction is one step of `Ledger`, and the
charge left `PENDING` by a crash (`mercantilC2P.js:449`), which nothing in the code ends.

Four simplifications bound what the runs and theorems say. `Dividing.Share` leaves out the conversion and rounding that
`applyRate` makes of the weights of a share (`fiscalInvoicing.js:324`), and no bill of `Dividing` changes after its first
invoice. The process's clock and the database's `NOW()` are one clock in `GuestSessions`. An import writes its lines in one
step, so one that fails half-way is its `RollBack`; what races it are the sections it found before.

Worth doing next: `RowLocks`, the statements and locks of share payments, plan replacement and edits, to justify the
granularity of `Ledger`; an abstract one-shot operation that `Idempotency` implements, and a gapless register that `Fiscal`
implements; the safety of `Delivery`.

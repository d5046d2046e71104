# morocco-erp: TLA+ verification project

morocco-erp is a multi-tenant ERP for Moroccan companies: sales, stock, accounting, purchasing, treasury, point of
sale, payroll. This directory holds TLA+ models of its back end, the TLC configurations that check them on small
instances, and TLAPS proofs. `F` below is `src/backend/src/common/erp/erp-store.service.ts`.

## The system

The back end is a NestJS application. One injectable class, `ErpStoreService` (F, about 13 700 lines), holds the
state of all tenants in memory and implements every operation; the controllers and services of the feature modules
(`sales`, `inventory`, `billing`, `ledger`, `pos`, `payroll`, `production`, `crm`, `tenant`, `auth`, ...) delegate to
it one to one. The Prisma schema and service exist, but the store does not use them: a restart is a reset.

Consequences for the models:

- **A request is one atomic step.** Every operation of F is synchronous and Node runs it to its end, so requests
  interleave only between operations. What makes this code hard is the *order* of legal requests of several users
  (a delivery between somebody's order and somebody's adjustment), data that is stale by the time it is used, and
  requests that fail in the middle. Two modules look inside a request all the same: `LineLoops` (one line of a
  document after the other) and `Readiness` (one creation of a report after the other).
- **A failing request keeps what it did.** Only `createInvoice`, `adjustStock` and `createPurchaseReceipt` run under
  `withRollback` (F:12330), and two reports put a copy of the workspace back in a `finally`. Everything else that
  throws after its first assignment leaves a partial effect, and the models have an action for it
  (`RejectSalesOrder`, `RejectPosTransaction`, `RefuseCreditNote`, ...).
- **Nothing happens by itself.** There is no scheduler, queue worker, timer or retry in the back end: background jobs
  and webhook retries are requests that a user may never send. So no request is fair, and between requests nothing
  must eventually happen. Within a request something must: it ends (`RequestsEnd`).
- **No messages, no crashes to recover from.** Tenants share the map of workspaces, the users and the HTTP gate, and
  nothing else; the business modules have one workspace each.

### Inventory of the components

| Component (code) | State | Operations | What is hard | What makes it correct | Module |
| --- | --- | --- | --- | --- | --- |
| Stock and reservations (F:12793-12854) | per product `stockOnHand`, `reservedStock`; per warehouse `quantity`, `reserved` | moves, reservations, releases, called by all the others | two records kept in step by hand; partial failures | both records move together; reservations are covered | `Stock` |
| Sales (F:4253-4422, 6933) | `salesOrders`, `deliveryNotes` | order, deliver, cancel delivery, invoice, direct invoice, release stale orders, reset | cancel and redo; aborted loops | one posted note per delivered order; no order ships twice; confirmed orders stay reserved | `Sales`, `LineLoops` |
| Quotes (F:4019-4251, 4676) | `quotes` | create, revise, approve, accept, convert to an order or an invoice | conversions and acceptances in any order | what is sold is what was agreed; orders counted | `Quotes` |
| Transactions (F:12330) | snapshot of the workspace | run, undo | undo of a partial effect | all or nothing for invoices | `LineLoops` |
| Warehouse (F:3376-3643, 3944-4013, 6730-6773) | `stockTransfers`, `inventoryCounts`, `stockQuarantines` | adjust, receive, transfer, count, quarantine, edit a product | stale counts; checks on one record only | the two records reconcile; quarantined goods stay reserved | `Warehouse`, `Inventory` |
| Maintenance, warranty, production (F:5288, 7047, 7456) | `maintenanceSparePartReservations` | reserve and consume parts, replace, produce | reservations nobody releases; partial production | as above | `Warehouse`, `Inventory` |
| Billing (F:4372-4470, 4721, 7008, 9106) | `invoices`, `creditNotes`, `payments`, `sequences`, numbering settings, journal | invoice, draft invoices of service contracts, payment, credit note, cancellation, change of series, voiding of an entry | numbers taken by requests that fail, and by other documents of the same series; payments against credit notes in any order | numbers unique, none lost; never overpaid; invoice and ledger agree; credit limit | `Billing` |
| Ledger and periods (F:4946-5064, 13025) | `journalEntries`, `fiscalPeriods` | draft, edit, post, void an entry; entries of documents; lock, close, reopen a month | the month is locked, or the date moved, between two steps | nothing posted into or taken from a locked month | `Ledger` |
| Treasury (F:4758-4811, 7119-7161, 8140, 8666, 9292) | `cheques`, `depositBatches`, `expenseClaims` | receive, deposit, reject a cheque; approve and export a claim; reimburse; approve a till's day | a cheque in two batches; a claim approved again | a cheque names its last batch; an entry per approval | `Treasury` |
| Purchasing (F:2030, 3645-3904, 8838) | `purchaseRequests`, `purchaseOrders`, `purchaseReceipts`, `supplierInvoices`, cost of a product | request, order, approve, receive in parts, cancel a receipt, invoice, landed costs, adjust | receipts in parts; rounded averages; zero stock | lines, receipts and status agree; the goods account follows the value | `Procurement` |
| Point of sale (F:5070-5256) | `posSessions`, `posTransactions`, `cashDrawerMovements`, `posOfflineQueue` | open, sell, refund, move cash, close, replay the offline queue | tickets recorded before their sale fails, for its stock or its price; refunds after closing; replays on stock and sessions that have changed | one open session per cashier; stock and payments move together; nothing is added to a closed session | `Pos` |
| Payroll and leave (F:11918-12013, 12156-12215, 12904; `payroll.service.ts`) | `payrollRuns`, `leaveRequests`, `leaveBalances` | create, calculate, approve, post, reject, cancel; request and decide leave; two payslip calculators | three paths create the run of a month; salaries and staff change meanwhile; requests made together; ceilings and brackets | one live run per month; entries and posted runs one for one, but for entries voided by hand; approved payslips frozen; leave within the balance; both calculators agree to the centime | `Payroll`, `Payslip` |
| Authentication (F:807-906, 6265; `tenant.interceptor.ts`) | `users`, `sessions`, `passwordResets` | log in, refresh, revoke, ask for a token, reset, second factor | tokens and sessions older than the password | sessions end with their password; a token works once | `Access`, `Gate` |
| Tenants (F:612, 1687, 2585-2705, 6085-6303) | `tenant`, `companyProfileChanges`, `backgroundJobs`, `webhookEvents` | create, subscribe, change and review the profile, onboard, queue and run jobs, retry | several changes under one review; requests in another tenant's name | nothing shows as approved unreviewed; jobs in order; a lock lasts | `Tenancy`, `Gate` |
| Readiness reports (F:9164-10728) | none of their own: they create documents everywhere | four GET reports | they create, in locked months and tenants too; a rehearsal throws half-way | what is put back; what locks stop; what is created twice | `Readiness`, `Workflows` |
| Compliance reports, search, exports, Prisma, front end | none | read only, or not used | | | not modelled |

The components interact by direct calls inside one operation and by the shared workspace: sales, warehouse, production
and point of sale all write the same stock fields; sales, purchasing, treasury and payroll all post to the same journal
and look at the same fiscal periods; every document takes its number from the same counters; every request passes the
same gate.

## Modules

- `Stock` - the shared stock variables and the operators every handler is made of (`Move`, `Reserve`, `Release`, ...).
  The lines of a document are abstracted to a *demand*, the quantity per product. When a loop over the lines throws,
  what it leaves depends on how the demand was split and ordered; `Interrupted(done, need, room)` is the set of the
  possible leftovers over all splits.
- `Sales` - one action per operation of the sales flow, and one for each request that fails halfway.
- `LineLoops` - the same requests as the code runs them: one line after the other, the check of every line, the throw,
  and the snapshot of `withRollback`. It refines `Sales` (`ImplementsSales`), which justifies the demand abstraction
  and `Interrupted`, and every request of it ends.
- `Quotes` - extends `Sales` with what comes before an order. It remembers what was agreed (`agreed`), what was made
  (`made`) and how often a customer opened a converted quote again (`reopened`).
- `Warehouse` - the other operations on the same stock variables, with the papers they keep.
- `Inventory` - the composition of `Sales` and `Warehouse`: their steps interleaved on one stock.
- `Procurement` - on `Stock`: purchase papers, receipts line by line, the weighted average cost in whole centimes with
  the rounding of `r2`, and in `goods` what the last request posted to account 3111.
- `Billing` - invoices, payments and credit notes as amounts, with their numbers and customer entries, in one period.
  The settings may give any kind of document any prefix, so the numbers of an invoice series are also taken by quotes,
  orders, notes and the rest (`IssueOtherDocument`; `elsewhere` remembers which), and any entry may be voided by hand
  (`VoidJournalEntry`, also in `Payroll`) while its document stays as it is.
- `Ledger` - entries and months, while time goes from one month to the next; `Treasury` extends it with the documents
  that post to it.
- `Payroll` - the payroll runs month by month, and the leave requests and balances of a year, with the requests that
  change what they were computed from. A payslip of a run is the salary it was computed from; `Payslip` has the two
  calculations of its amounts, by the store and by `PayrollService`, each with its own tables. The two round with
  different functions (`Math.round` and `toFixed`) and what they round is a floating-point product, so that half a
  centime goes either way: a calculation is the *set* of the payslips it may give, every rounding choosing for itself.
- `Pos` - the tills, on the stock of `Stock`: sessions, tickets, refunds, drawer movements, and the offline queue, whose
  replay is a loop (`SyncOfflinePosQueue`, then one `SyncItem` per pending sale, no other request in between). A ticket
  is recorded before its stock is consumed and nothing is rolled back: `RejectPosTransaction` is the sale that throws,
  for want of stock or because no entry can be posted for what it comes to (a till refuses no price, so a ticket may
  come to zero or less). A ticket has an entry or not; one voided by hand since (module `Ledger`) still counts.
- `Gate` - who may change a tenant: the HTTP interceptor, `assertCanWrite` and the subscription. `Access` (users,
  sessions, tokens, a clock, restarts) and `Tenancy` (tenants, profiles, jobs, webhooks) extend it.
- `Workflows` - for each workflow of the readiness reports the sequence of documents it looks up and creates.
  `Readiness`, on `Gate`, executes the four reports over it, step by step, and throws where a creation is refused.
- `*Proofs` - the theorems: `SalesProofs` about `Sales`, `Quotes` and `Inventory`, `LoopProofs` about `LineLoops`,
  `CashProofs` about `Pos` and `Treasury` (with `Ledger`), `GateProofs` about `Access`, `Tenancy` and `Readiness`, and
  `BillingProofs`, `PayrollProofs`, `ProcurementProofs`. `Sums` has the lemmas on sums that all of them use.
- `MC*` - the instances TLC checks.

How state corresponds: variables are named after the fields they stand for (`onHand` is `product.stockOnHand`, `held`
is `warehouseStock.reserved`, ...; the comment of each declaration says which, and calls history what the code does
not keep). Actions have the name of the method, capitalised. Refusals that happen before any effect (unknown
identifiers, roles, and outside `Access`, `Tenancy` and `Readiness` the write gate) change nothing and are not actions.
An operator `XMutant` stands before `X`: it is `X` with a plausible bug, used to show that a property can fail; nothing
else refers to it (`BumpForgetful`, for `Bump`, is another one).

Abstractions common to all modules: quantities and amounts are whole numbers, centimes where rounding matters
(`Payslip`, `Procurement`); except in `Ledger` and `Treasury` every document bears today's date, so one fiscal period
matters; wording, audit records, evidence files and the list of stock moves are left out.

## Runs

| Run | What it asks | Instance |
| --- | --- | --- |
| `sales` | Do orders, notes and reservations stay consistent, and is what is sold what was agreed, when requests fail halfway, deliveries are cancelled and repeated, quotes revised, accepted and converted again? | `MCQuotes`: 2 products (symmetric), stock up to 2, 2 orders, 3 notes, 1 quote with 2 revisions, 3 documents made |
| `line_loops` | Is a whole loop, its throw, and its rollback one step of `Sales`, and does it end? | 2 products, up to 3 lines of quantity 1, stock up to 2, 2 orders, 2 notes |
| `inventory` | With sales and warehouse interleaved, who can take what another reserved, and do the two records of the stock move together? | 1 product, 2 warehouses, stock up to 1, one each of order, note, transfer, count, hold |
| `billing` | Numbers, settlement, ledger, credit limit, locked period | 1 customer with limit 3, 2 invoices of up to 2, 2 credit notes, 4 entries of which one may be void, counters up to 2, 2 series (symmetric), either of them for invoices, credit notes and other documents |
| `payroll` | One live run per month, entries for posted runs, approved payslips, leave balances, and the two payslip calculators | 1 employee, 1 month (that of the scale controls), 2 runs, 2 entries, 2 requests on 2 days of leave; payslips of about 3 400 monthly amounts up to 20 000 DH, those where a rounding falls on half a centime among them, with 0, 2 and 7 dependents |
| `pos` | Do stock and payments move together and closed sessions stay closed, through failures, refunds and replays? | 1 till, 1 product, stock up to 2, quantities up to 2, 2 sessions, 2 tickets that come to 1 or -1, 2 queued sales |
| `procurement` | Do order, receipts and status agree, and does the goods account follow the value of the stock? | an article and a service, an order of one or two lines, 2 receipts, one bill, an average cost of 5 against purchases at 2 (on negative stock the average then becomes negative), a charge of 5 |
| `treasury` | Does a locked month keep its entries; do cheques and batches, claims and entries agree? | 2 months, 2 entries, 1 cheque, 2 batches, 1 claim approved up to twice |
| `access` | Do sessions end with the password, and in time; does a token work once? | 1 user, 2 sessions, 3 tokens, 5 instants, lives of 1, 2 and 3 |
| `tenancy` | Is a profile shown as approved only after a review, do jobs run in order, does a lock last? | 2 tenants, 3 changes, 3 jobs, 2 retries |
| `readiness` | What do the four reports leave behind, wherever they throw? | 1 tenant, 2 reports, 1 document created between them, both roles, open and locked tenant and month |
| `stock_negative` | a statement of the code that the code does not keep (see Findings) | `MCInventory` with one warehouse |

Bounds (all named constants): `MaxQty`, `MaxStock` bound quantities and stock on both sides of zero; `MaxOrders`,
`MaxNotes`, `MaxQuotes`, `MaxRevision`, `MaxMade`, `MaxReopened`, `MaxTransfers`, `MaxCounts`, `MaxHolds`, `MaxInvoices`,
`MaxCreditNotes`, `MaxEntries`, `MaxVoids`, `MaxNumber`, `MaxRuns`, `MaxRequests`, `MaxSessions`, `MaxTickets`, `MaxQueue`,
`MaxReceipts`, `MaxBills`, `MaxCheques`, `MaxBatches`, `MaxClaims`, `MaxApprovals`, `MaxResets`, `MaxChanges`, `MaxJobs`,
`MaxRetries`, `MaxReports`, `MaxUserDocs`, `MaxLines` bound documents and requests; `MaxAmount`, `MaxSalary`, `MaxCash`,
`MaxCost` and `AcquiredDays` amounts; `LastMonth` and `MaxTime` time. A step that would exceed a bound is not taken. They
are enough for what the properties tell apart: two orders are needed for one to take the other's reservation, two
products for a loop to fail on the second line, three notes for deliver, cancel, deliver again next to another order,
two warehouses for a transfer, two invoices and two credit notes for numbers to collide and for a credit to be repeated,
two runs for a cancelled and a live one, two requests to compete for a balance, two tickets for a sale and its refund,
or for two replayed sales, two batches for a cheque deposited again, three tokens for one used, one
expired and one good, three profile changes for two under one review and one after it, two reports for the second to
find what the first left. Where a theorem states the same property, the bounds do not matter.

Deadlock is checked in every passing run but `readiness`: there a tenant that has been locked, which nothing opens
again from inside, has nothing left to do once the reports of the instance have been asked for.

Fairness is stated in `LineLoops` only, weak, on the steps *within* a request: a handler is a synchronous function, so
once it has begun Node executes nothing else before it returns or throws. No other fairness is justified by the code.

Properties worth a remark:

- `SalesStayCovered` holds in `Sales` alone and fails in `Inventory`: `OnlyUncheckedStepsOvercommit` says precisely
  which operations can make availability negative, namely those that look at the stock on hand only, or overwrite it.
- `ReservationsBacked` and `ClaimsStayBacked` isolate the one sales operation that breaks the promise of an order: a
  cancelled delivery puts the order back to `CONFIRMED` without reserving again (the test at
  `erp-store.service.spec.ts:305` expects just that).
- `StockReconciles` is an action property: the sum over warehouses and goods on the road differs from the product's
  total by a constant that only two operations change.
- `NumberingSound`: a number of an invoice series that no invoice has was taken by another document, which is all one
  can say where every kind of document may be given that series (F:4138).
- `LedgerAgrees` compares two lists written by different statements; its two exceptions, the reversal of a cancelled
  invoice and the entries somebody voids by hand (F:5000), are in the formula: the voided ones are the whole difference.
- `LedgerFollowsRuns` looks for the total in the ledger without a reference between the two lists: the code has one
  (the number of the run), but a cancelled run and its successor share it (`PAY-2026-05`). The entry may have been
  voided by hand, which leaves the run POSTED: the second half of the formula counts the entries that still stand.
- `LedgerFollowsRuns` and `BalancesFollowRequests` are about differences of two records, because a reset of the
  payroll sample wipes runs and requests but neither entries nor balances.
- `PayslipsAgree` is about the payslips of the runs: a salary stands for many monthly amounts, and for each of them the
  two calculators agree, for an employee without overtime, bonus or deductions, on the contribution to the CNSS exactly
  and on every other amount to within a centime. They do differ by one: the AMO of 10 025 DH is 226.565 DH.
- `GoodsFollowValue` excludes, by name, the two kinds of step that change the value without posting it (a sale, and the
  allocation of landed costs). It is exact but for a receipt, each line of which rounds the cost of its product once:
  half a centime per unit on hand and line. A receipt on negative stock may leave a negative average cost; `adjustStock`
  then posts its size on the side of the quantity (F:3636), and the formula takes costs by their size there.
- `LockedMonthFrozen` says who adds to a locked month: the handlers that post without `assertPeriodOpen`.
- `OrdersPerQuote` counts: one order, and one more per acceptance after a conversion, which the code allows.
- `ReportsRespectLocks` and `FoundAgain` say how far the creating reports are harmless: what is guarded, or looked up.
- `ClosedTillOnlyLoses` says all that is true of a closed session: no sale, movement or replay reaches it, refunds do,
  and the refund of a ticket with a negative total raises it.
- `StockFollowsPayments` lets stock move without money in two cases only: the ticket whose sale threw, and the refund of
  one that comes to an amount that cannot be posted; neither moves more than the ticket says.
- `FoundAgain` allows what one workflow creates at once when it finds nothing: two dunning policies (F:9255), one of
  everything else.

## Findings

- `stock_negative` (F:3628): an adjustment may take away what is reserved, the delivery looks at the reservations only,
  and the stock on hand ends below zero, which adjustStock itself refuses ("Le stock ne peut pas devenir négatif").

Other behaviour the models show, without a statement it contradicts, or with one too general to check:

- Stock: consuming a spare part lowers the warehouse row but not the stock on hand (F:7489), so the part stays for
  sale; the edition of a product refused at F:3398 has already stored the stock it refuses, below the reservations; an
  order whose lines fail keeps what it reserved; a warranty replacement is never released; production, delivery notes
  and product editions do not ask for the fiscal period.
- Sales: a credit note returns no goods; accepting a converted quote makes it convertible again (F:4676), so the same
  quote is ordered twice; an order may be made and an invoice too.
- Billing: a credit note refused for its blank reason keeps its number (F:4449), a gap on its series; a cancelled
  invoice can be paid; drafts of service contracts ignore the credit limit and may be generated twice for a month; the
  series of quotes or orders may be set to that of the invoices, whose numbers then have gaps; the entry of an invoice
  or a payment may be voided, and the invoice does not know.
- Ledger: the handlers that post without asking `assertPeriodOpen` (expense claims, reimbursements, till variances, the
  reversal of an invoice) add to a locked month; a claim exported once can be approved and booked again.
- Purchasing: landed costs change the cost of what is in stock without an entry; a cancelled receipt leaves its order
  received; a received order can be approved again, and then receives nothing more; a receipt on negative stock may
  make the average cost negative (F:3819), and adjustments then post on the wrong side (F:3637).
- Point of sale: a ticket is refunded as often as one asks (F:5158); a ticket whose sale failed counts in the cash a
  session should hold, and its refund returns goods that never left; a ticket that comes to zero or less takes its goods
  and is then refused by the ledger (F:5139), and its refund likewise (F:5179).
- Payroll: the entry of a posted run may be voided while the run stays POSTED; leave pending when the sample is reset
  stays pending for ever; after a run is cancelled the evidence of its month is made from the cancelled run.
- Reports: a GET of a readiness report creates documents (F:9541), through handlers that do not ask `assertCanWrite` in a
  locked tenant and for a READ_ONLY role too; the operations report closes the open till (F:9673).
- Tenants: onboarding by a partner overwrites the legal identity of another tenant, whatever the state of its gate; a
  locked tenant cannot unlock itself, somebody must ask in the name of another one.

Seen in reading and not modelled: the salary calculation charges contributions and tax on a bonus it does not pay
(`payroll.service.ts:180` and :213); a ticket paid by BANK debits the cash account (F:5140) and its refund credits the
bank account (F:5182); a count of QC holds (F:7445) does not see what existing orders have reserved.

## Proofs

For any values of the constants, from the assumptions each module names (`StockAssumption`, `SalesAssumption`,
`BillingAssumption`, ...: products, warehouses and employees are finite sets, the main warehouse exists, bounds, costs
and limits are natural numbers, the month of the scale controls is a month, a document of the largest lines fits a
demand; TLC evaluates them in every run), TLAPS checks:

| Module | Theorems (and the property of a run they state) |
| --- | --- |
| `SalesProofs`, about `Sales` | `SalesTypeCorrect`, `SalesCovered` (`SalesStayCovered`), `NotesCorrect` (`NotesMatchOrders`), `OrdersBacked` (`ReservationsBacked`), `FinishedOrdersStay` (`FinishedOrdersFinal`) |
| about `Quotes` | `QuotesTypeCorrect`, `QuotesSoldAsAgreed` (`SoldAsAgreed`), `OrdersCounted` (`OrdersPerQuote`), `QuotesImplementSales` (`QuotesSpec => SalesSpec`), `SalesStaySound` |
| about `Inventory` | `OvercommitOnlyUnchecked` (`OnlyUncheckedStepsOvercommit`), `RecordsReconcile` (`StockReconciles`), `ClaimsStay` (`ClaimsStayBacked`) |
| `LoopProofs` | `LoopKeepsPace`, `LoopsImplementSales` (`ImplementsSales`), `InvoicesAllOrNothing` (`InvoiceAllOrNothing`) |
| `BillingProofs` | `BillingTypeCorrect`, `NumbersSound` (`NumberingSound`), `PaymentsAlwaysSettle` (`PaymentsSettle`), `LockedPeriodStaysFrozen` (`LockedPeriodFreezesLedger`), `LedgerAlwaysAgrees` (`LedgerAgrees`), `LimitAlwaysHolds` (`LimitHolds`) |
| `CashProofs`, about `Pos` | `OneSessionPerCashier` (`OneOpenSession`), `ClosedTillNeverGains` (`ClosedTillOnlyLoses`), `StockAlwaysFollowsPayments` (`StockFollowsPayments`) |
| about `Treasury` | `TreasuryTypeCorrect`, `ChequesAlwaysMatch` (`ChequesMatchBatches`), `ClaimsBookedOnce` (`ClaimsBookedPerApproval`), `LockedMonthsStayFrozen` (`LockedMonthFrozen`) |
| `ProcurementProofs` | `OrdersAlwaysMatch` (`OrdersMatchReceipts`), `GoodsAlwaysFollow` (`GoodsFollowValue`) |
| `PayrollProofs` | `PayrollTypeCorrect`, `OneLiveRunAlways` (`OneLiveRun`), `ApprovedStayApproved` (`ApprovedRunsFrozen`), `LedgerAlwaysFollows` (`LedgerFollowsRuns`), `LeaveStaysWithinBalance` (`LeaveWithinBalance`), `BalancesAlwaysFollow` (`BalancesFollowRequests`), `PayslipsAlwaysAgree` (`PayslipsAgree`) |
| `GateProofs`, about `Access` | `AccessTypeCorrect`, `SessionsFollow` (`SessionsFollowPassword`), `SessionsAlwaysEnd` (`SessionsEnd`), `TokensUsedOnce` (`OneChangePerToken`) |
| about `Tenancy` | `TenancyTypeCorrect`, `ShownProfilesReviewed` (`ShownProfileReviewed`), `JobsDoneInOrder` (`JobsInOrder`), `LocksLast` (`LockLasts`) |
| about `Readiness` | `ReadinessTypeCorrect`, `RehearsalsPutBack` (`RehearsalsLeaveNoTrace`), `LocksRespected` (`ReportsRespectLocks`), `LookupsFindAgain` (`FoundAgain`) |

The inductive invariants, and why the properties alone are not enough:

- `Sales`: the type of stock and documents, `SalesStayCovered` and `NotesMatchOrders`. That reservations stay natural
  numbers needs the check of each delivery against them; that they stay covered needs that a delivery lowers both sides
  equally and never below zero; `NotesMatchOrders` needs its own second half (two posted notes never share an order),
  because cancelling one of two would leave a CONFIRMED order with a posted note. `ReservationsBacked` is inductive
  with these and with every product being tracked: a delivery releases what its own order claimed, and what the other
  orders claim is still covered by what remains.
- `Quotes`: seen from stock and documents every step is a step of `Sales` or a stutter, for which the lines of a quote
  must be a demand; so `SalesStaySound` follows from what is proved of `Sales`. About the quotes, the type (every
  document names a quote), `SoldAsAgreed` and `OrdersPerQuote` are inductive together.
- `Inventory`: the types, with `NotesMatchOrders`; reservations need not stay within the stock there. A sales step
  touches the stock in one of five ways (`SalesEffects`), so each theorem looks at the five and then at the warehouse
  handlers. Both sides of `StockReconciles` and `ClaimsStayBacked` are sums over warehouses and documents; each step
  changes one or two of their terms.
- `LineLoops`: while a request is executed, the workspace is the one it found, changed by the lines processed so far,
  and those lines did fit in it (`LoopInv`). So a loop that goes through changes the stock by the demand of its
  document, which is the step of `Sales`, and a loop that throws leaves a part of it that `Interrupted` allows, or
  nothing when `withRollback` undoes it. The refinement mapping shows the workspace as the request found it until the
  request ends, and that step is the one of `Sales`.
- `Billing`: numbers in use are at most their counter, pairwise different on both lists, and those of an invoice series
  fill it up to the counter from any invoice on, together with the numbers taken elsewhere (`Numbered`); an invoice's status follows from what was paid and credited
  (`Right`). The lemmas are about values, so that the scale controls, which issue, pay and credit in one step, use them
  in a row. `LedgerAgrees` needs in addition that no entry bears a number not yet given (`LedgerInv`), without which a
  new invoice would find entries of its own.
- `Pos`: a ticket that is no refund sells what may be sold, a payment names a ticket, and the replay loop has a pending
  sale as long as it runs, together with both invariants of the run (`PosInv`).
- `Treasury`: four ways in which a step may change the ledger (`LedgerChange`), which every action is shown to use; a
  cheque in a batch names the last one that lists it; claims have finitely many entries, counted per approval.
- `Procurement`: the type of stock and papers, receipts that name an order there is, and `OrdersMatchReceipts`
  (`ProcurementInv`). A receipt is a recursive function of its lines; `ReceiptEffect` is proved of the state after k
  lines for the smallest k at which it could fail. Each line adds its quantity to what the order has received, and
  moves the value of the stock by its cost up to half of what is on hand, because the average is a rounded quotient.
  That a partially received order did receive something needs that the total of a receipt is positive.
- `Payroll`: `OneLiveRun` with the type of staff and runs. A handler appends a run to a month without a live one
  (`AppendRun`), or replaces one by another of the same month that does not come back to life (`ReplaceRun`). The ledger
  has the total of every posted run (`JournalInv`). `LeaveWithinBalance` is not inductive: the invariant is that the
  pending days of a balance cover the sum of the open requests, and that taken and pending days stay within what was
  acquired (`LeaveInv`).
- `PayslipsAgree`: the store takes the rate of the bracket a salary is in and subtracts a constant; the tax slice by
  slice is the same number because the constants make the two agree at each bound. The proof goes bracket by bracket,
  for every salary, and not only for those TLC enumerates. The service subtracts the constant after rounding and the
  store before, which for whole constants allows the same results (`RoundedShift`), so every payslip of the service is
  one the store may give (`ServiceAsStore`); and two payslips of the store differ by a centime at most, since what the
  AMO or the expenses round up is taken from the taxable base, whose tax moves less (`TaxesClose`, `SharesClose`).
- `Access`: a session's refresh ends `RefreshLife` after its login and its access token at most `AccessLife` later; the
  number of a password is one more than the used tokens of its user.
- `Tenancy`: the identity an unapproved profile shows is that of its last change, which is pending (`ReviewInv`); done
  jobs come before queued ones.
- `Readiness`: while a report runs, a rehearsal has its copy, and any other report its month and what it may have gained
  so far (`Gained`). The proofs never look at which step of a chain is executed, so they use nothing of `Workflows` but how many documents a workflow creates at once (`Lot`).

Sums. The models add with `SumFunction`, a recursion over the subsets of a finite set. `Sums` proves what the other
modules use of it (one term split off, added or changed; the sum of two functions; sums compared) for every function
from a finite set to the integers, each time by looking at a smallest subset on which the statement could fail: this
needs well-foundedness of the strict subset order, which the library proves, and no induction over data.

What the proofs changed in the models: the tolerance of `GoodsFollowValue` was one rounding per receipt, which TLC had
confirmed on receipts of up to two lines and which is wrong from three lines of one product on; the formula now counts
the lines. Loops that were folds are recursive functions of the number of lines.

Only model-checked: `RequestsEnd`, the one liveness property, since it is temporal under fairness. Every other property
of a passing run is stated by a theorem. The theorems say nothing of the code beyond the models, whose abstractions are
listed above; and TLC has checked each invariant on its instance before it was proved.

## Not modelled

- Persistence: the Prisma service is not used; what a restart forgets is in `Access` and `Tenancy`.
- The front end: a client of the HTTP interface with fixtures of its own.
- Compliance reports, search and exports: they read the workspace and change nothing.
- Master data and registers (customers, suppliers, employees' files, vehicles, projects, leads, contracts, checklists,
  follow-ups, templates, ...): about half of F creates one record, or sets one field of it, with no constraint between
  two of them; what a model would say of them holds by its own shape. Their effect on the modelled state, where they
  have one, is in the modules above (`UpdateEmployee`, `UpdateProduct`, `Workflows`).
- Lots, serial numbers, bins and picking lists (they move no stock), bank statements, petty cash and loans, dunning and
  VAT declarations, plans and modules of a subscription, devices and notifications.
- The valuation of production (F:5313), negative prices of credit notes (F:12761) and the pay of bonuses: hazards listed
  without a property, with the reason.

## Running

In this directory: `tlc -workers 2 -config Quotes.cfg MCQuotes` (likewise for the others, see `PROJECT.json`; at most
two and a half minutes each), and `tlapm SalesProofs.tla` (likewise for `Sums` and the other `*Proofs` modules).

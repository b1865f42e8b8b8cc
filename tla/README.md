# Sylo carpooling: a model in TLA+

Sylo is a carpooling backend: a FastAPI application (`src/backend/app`) in
front of one PostgreSQL database, called by a Flutter application
(`src/frontend`).  Drivers publish rides, passengers book seats, drivers start
and complete rides, fares move between wallets.  Every HTTP request is a
coroutine with a database session of its own, several workers may run, and
nothing but the database's locks and constraints orders two requests.  What is
hard in it is therefore what happens *between* the statements of a request.

This directory holds specifications of that behaviour, configurations that
check them with TLC, and proofs checked by TLAPS.  All paths below are relative
to `src/backend/app/` unless they begin with `src/`.

## 1. Inventory

| Part | State it keeps | Operations | Interacts with | What makes it correct |
|---|---|---|---|---|
| rides v1 (`modules/rides/service.py`, `crud.py`) | `rides` (status, seats_available, route plan), `ride_bookings` | publish, edit, book, cancel, select route, start, complete, cancel ride, delete, pickup and dropoff, ride requests | drivers (counters), schedule guards, chat, notifications | seats are never oversold, a booking exists only on a ride that can carry it, lifecycle edges of ride and booking, plan and counters agree with the bookings |
| trips v2 (`modules/trips/service.py`) | the same `rides`, the legacy table `bookings` | start, complete, settle fares | rides, payments | agrees with the lifecycle of v1, settles each fare once |
| rides v2 (`modules/rides/service_v2.py`, `crud_v2.py`) | `rides`, `recurring_schedules`, subscriptions | patch, recurring series: create, subscribe, auto-book, materialise, cancel | rides v1, nightly task | one ride per schedule and date, all-or-nothing series, subscriptions follow their schedule |
| schedule guards (`service.py:1895-2100`, `schema_compat.py`) | advisory locks, trigger, exclusion constraint | overlap checks of drivers and passengers | rides, requests | nobody is in two cars at once |
| wallets and payouts (`modules/payments/crud.py`, `service.py`, `admin_payouts`) | `wallets`, `transactions`, `payouts` | top up, deduct, pay a ride, request, approve and reject payouts | trips, providers | balance equals the sum of its transactions and is never negative, a fare is neither lost nor paid twice |
| payment intents (`service_prompt10.py`, `idempotency.py`, `reconciliation.py`) | `payment_intents`, `idempotency_records`, `wallets` | initiate, webhook, payout, reconcile, expire keys | providers (repeated and reordered webhooks), wallets | an order credits at most once |
| notifications (`modules/notifications`) | sockets and offline queues in memory, notification rows, device tokens, dead letters | connect, disconnect, send, heartbeat, retry, sweep | every module | what is queued is delivered, in order, to the newest socket |
| safety AI (`modules/safety_ai/escalation.py`) and SOS (`modules/admin_sos`) | alerts in memory, incident rows | anomaly, answer, timeout, resolve, notes | telemetry, notifications | an unanswered alert reaches the admins |
| clustering (`modules/matching/ride_cluster_service.py`, `tasks/clustering_task.py`) | ride requests, rides, legacy bookings | periodic and manual runs | ride requests, rides | a request is accepted into one ride only |
| chat (`modules/chat`) | threads, messages | ensure thread, send, read | rides, bookings | no message in a closed thread, counters match messages |
| drivers and verification (`modules/drivers`, `modules/verification`) | profile status and flags, vehicles, documents | register, verify, suspend, edit, delete a document | rides (eligibility), admin | an unverified or suspended driver is not eligible |
| client session (`src/frontend/lib/core/services/api_client.dart`, `auth_service.dart`, `firebase_auth_service.dart`; `modules/auth`) | tokens in the preferences, `_isRefreshing` and `_queue` of the interceptor, `refresh_tokens` | attach the token, refresh on 401, retry, sign in, sign out | every endpoint | calls refused together cause one refresh, and each is answered once |
| ratings, telemetry, registration, users | rows | guarded inserts and reads | | |
| fares, maps, earnings, history, analytics, admin dashboards, help, health, middleware, cache | none of their own | formulas, reports, plumbing | | |

Legacy tables (`bookings` beside `ride_bookings`) and two API generations over
the same rows are a source of difficulty of their own.  `PROJECT.json` lists
each component with its status and each hazard at its line.

## 2. The modules

| Module | What it is |
|---|---|
| `RideBooking` | the core: concurrent requests on rides and bookings, at the grain of locks and commits |
| `RideContract` | what the ride endpoints promise: one atomic action per endpoint |
| `MCRideBooking` | instances of `RideBooking` for TLC |
| `RideBookingProofs` | theorems about `RideBooking`, checked by TLAPS |
| `Wallet` | wallets and their transactions: requests of several commits that fail, stop and are confirmed from outside |
| `MCWallet` | instances of `Wallet` for TLC |
| `AccountProofs` | theorems about `Wallet` and `Mailbox` |
| `RecurringSeries` | a recurring schedule, its subscriptions and the rides and seats materialised from it |
| `RecurringSeriesProofs` | theorems about `RecurringSeries` |
| `Timetable` | creation and change of the recurring schedules of a driver, and how they are kept apart |
| `TimetableProofs` | theorems about `Timetable` |
| `RideRequests` | ride requests, and every write of a ride that passes the overlap trigger |
| `DriverCalendar` | what the overlap guards promise a driver: a calendar without collisions |
| `RideRequestsProofs` | theorems about `RideRequests`, the refinement of `DriverCalendar` among them |
| `ChatThread` | the chat of one booking, against changes of its ride and booking |
| `ChatThreadProofs` | theorems about `ChatThread` |
| `Mailbox` | the live connection of one user, the offline queue and the deliveries |
| `DriverDocuments` | documents of a driver, the identity numbers they are checked against, the standing derived from them |
| `DriverDocumentsProofs` | theorems about `DriverDocuments` |
| `MCDriverDocuments` | instances of `DriverDocuments` for TLC |
| `ClientSession` | the token store and the interceptor of the mobile application, against the user, the clock and restarts |
| `ClientSessionProofs` | theorems about `ClientSession` |
| `MCJourneys` | `RecurringSeries`, `RideRequests`, `ChatThread` and `ClientSession` side by side |
| `MCDriving` | `RideBooking`, `DriverDocuments` and `Timetable` side by side |
| `MCAccount` | `Wallet` and `Mailbox` side by side |

### RideBooking

State and code:

| Variable | Code |
|---|---|
| `rideStatus`, `seatsAvailable`, `plan` | columns `status`, `seats_available` and the route metadata of `rides`; `"deleted"` stands for an absent row |
| `booking` | rows of `ride_bookings`: status, ride, passenger, seats, pickup and dropoff times (as booleans) |
| `totalRides` | `total_rides` of the driver profile; `total_earnings` is read and written back by the same two statements and is left out |
| `rowLock` | row lock of a ride: `FOR UPDATE`, or an `UPDATE` not yet committed |
| `slotLock` | the advisory lock `passenger-book-ride:<user>` |
| `pc`, `txn` | one request per session: where it is, and the rows its ORM session has loaded |

A request is a sequence of actions that each end at a lock acquisition or at a
commit, because other requests can be seen only there.  Statements between two
such points read the tables at one instant of READ COMMITTED.  The reads that
matter because something changes *after* them are kept as separate actions:
loading a ride, waiting for the advisory lock, the overlap query, waiting for
the row lock, the guards, the commit, and then the same again for the route
plan.

The point on which most of the results turn is the identity map of SQLAlchemy:
a session that has loaded a row keeps its attributes.  `book_ride` says
`SELECT ... FOR UPDATE` (`crud.py:868`), waits, and gets back the object
`book_ride_service` loaded at `service.py:3519`, with the status and the seats
of that time: neither `populate_existing` nor expiry is in effect
(`expire_on_commit=False`, `autoflush=False` in `db/session.py`).  These values are
the fields `seenStatus`, `seenSeats`, `seenTotal` of `txn`.  A query for rows not loaded
before, such as the duplicate check, does read the table.

| Actions | Handler |
|---|---|
| `BookLoad`, `BookSlotLock`, `BookSlots`, `BookRow`, `BookCheck`, `BookCommit` | `POST /bookings` |
| `PlanRead`, `PlanWrite` | `_recompute_and_persist_route_plan`, the tail of three handlers |
| `RouteLoad` | `PUT /{ride}/route-selection` |
| `CancelLoad`, `CancelCommit` | `PUT /bookings/{id}/cancel` |
| `StatusLoad`, `StatusCheck`, then `StatusCommit`, or for a completion `CompleteBookings`, `CompleteCommit`, `StatsCommit` | `PUT /{ride}/status` |
| `DeleteLoad`, `DeleteCommit` | `DELETE /{ride}` |
| `ExecLock`, `ExecCommit` | pickup and dropoff |
| `TripLock`, `TripCommit` | `POST /api/v2/trips/{ride}/start` and `/complete` |
| `PatchLoad`, `PatchCommit` | `PATCH /api/v2/rides/{ride}` with a status |
| `Abort` | a worker dies, a client goes, PostgreSQL aborts (a deadlock victim included); what was committed stays |

Abstractions, and why they keep what the properties speak of:

- Every transaction that writes a booking also locks or writes its ride, so the
  lock of the ride stands for the locks of its bookings, with one exception.  A completion sends the
  `UPDATE` of the bookings before the one of the ride, which is flushed at the commit (`autoflush=False`): from
  `CompleteBookings` to `CompleteCommit` it holds the active bookings of that time and not the ride, and
  `BookingFree` makes cancellations, deletions and executions wait for them.  A booking committed in between stays active.  Where a statement
  locks several rows the model takes them at once; a deadlock between two such
  statements ends, in PostgreSQL, in an abort of one of them, which is `Abort`.
- Time windows are a constant relation `Clashes`.  The guard also looks at ride
  requests and legacy bookings, which are left out here.  That a driver's own rides do not
  clash with one another is the subject of `RideRequests`.
- The geometry of the detour guard is a choice: it may refuse whenever somebody
  else is aboard.
- `Init` publishes the rides.  Publishing and editing them is in `RideRequests`.
- The route plan is the set of bookings it visits.  An exception in it is logged
  and dropped by the handlers: `Abort` at `planWrite`.
- `complete_trip` of a completed ride changes nothing here (it settles fares).
- Identities of bookings are not reused.  A request for a booking begins only
  while an identity is left for it (`IdentityLeft`); this and `MaxTotal` are
  the bounds of the model.

### RideContract and the refinement

`RideContract` has the same tables without sessions, locks or loaded rows, and
one atomic action per endpoint whose guards speak of the current tables.
`ImplementsContract` says that `RideBooking` implements it; its variables have
the same names, so the mapping is the identity.  It is checked with one request
at a time and no deaths: a statement about what each handler does, not about their races.  With two requests
at once it does not hold, and the violation runs say why: a request acts on what it has seen.

Seats are counted as pairs: a booking holds `<<b, 1>>` to `<<b, n>>`, and `SeatsOf` is the number of
pairs held.  The amounts of the wallet are counted the same way in `BalanceIsLedger`.  A sum over a set written as a cardinality
is the same number as a fold, and the prover can reason about it.

### Wallet

A request that moves money is not one transaction of the database.  It logs a
row of `transactions` and commits, changes `wallets.balance` under a row lock and
commits, records the outcome and commits; between these commits other requests
run, and a failure leaves what was committed.

| Variable | Code |
|---|---|
| `hasWallet`, `balance` | rows of `wallets` |
| `txn` | rows of `transactions`: status, owner, signed amount |
| `lock` | the row lock of `SELECT ... FOR UPDATE` in `crud.update_wallet_balance` |
| `applied` | history, not in the code: the transactions whose amount reached a balance |
| `pc`, `call` | one request per session: where it is, its arguments, the transaction it logged, the balance it read |

| Actions | Code |
|---|---|
| `OpenWallet` | `POST /wallet/create`, and reading a balance, which creates the wallet |
| `EnsureWallet` | `_ensure_wallet_for_user`, of the Prop Money operations |
| `LoadWallet` | the unlocked read: no wallet, or not enough money |
| `LogTransaction` | `crud.log_transaction` and its commit |
| `ProviderAnswers` | `mock_payment_process`, which is called with `simulate_success=True` |
| `LockWallet`, `RefuseDebit`, `ApplyBalance` | `crud.update_wallet_balance`: lock and read, second check, write and commit |
| `CompleteTransaction`, `MarkFailed` | `crud.update_transaction_status`, from the normal path and from the exception handlers |
| `Webhook` | `verify_payment_webhook_service`, at any time, as often as the provider likes |
| `StatementFails`, `Crash` | any statement raises; the process stops |

Abstractions:

- The public identifier `txn_id` that two services rewrite after logging is the
  identity of the row here.
- After a rollback the handlers of the Prop Money operations read an attribute
  of an expired object, which an asynchronous session may refuse.  Then the row
  stays PENDING: `StatementFails` at `markFailed`.
- A webhook loads a row and writes it in one action.  Nothing else it does
  depends on the loaded status.
- A read that fails after the commit of COMPLETED can make the `topup` handler
  write FAILED over it.  The resulting rows are those of a failure just before
  that commit, which the model has.
- A commit whose outcome the client never learns is a `Crash` after the commit.

### RecurringSeries

A recurring schedule is a promise of one ride per matching date.  No ride row exists until a
request or the nightly job needs it; a passenger who books the series gets a subscription and,
date after date, a ride, a seat and the link between the two, each with a commit of its own.

| Variable | Code |
|---|---|
| `scheduleActive` | `recurring_schedules.is_active` |
| `instance` | the rides with this schedule's id: status and date |
| `subscription`, `seat` | rows of `recurring_schedule_subscriptions`, and of `ride_bookings` on those rides |
| `driverBusy` | dates on which another ride of the driver has the slot, so that the trigger refuses an instance |
| `seriesAt`, `job` | one request per session: where it is, the date it works on, the rows it holds, what it made |
| `outside` | how often the endpoints of other modules have touched these rows |

| Actions | Code |
|---|---|
| `BeginSeries`, `Subscribe`, `Found`, `Ensure`, `BookSeat`, `SeatDone`, `LinkSeat`, `Record`, `NextDate`, `Refused`, `Unsubscribe` | `book_recurring_schedule_series_service` with its compensation |
| `Find`, `CreateInstance`, `SeriesReturn` | `_materialize_or_get_schedule_ride_for_date` |
| `BeginNightly`, `FanOut`, `Resume` | `materialize_scheduled_rides_service` and the subscriptions it books |
| `BeginResolve`, `BeginHome` | a passenger, and a driver, asking for the next ride |
| `BeginCancel`, `Undo`, `Undone`, `CloseSubscription` | cancellation of a subscription, seat by seat |
| `BeginUpdate`, `Purge` | edit of a schedule: `is_active` may change, rides without bookings may be purged |
| `Deactivate` | deactivation of a schedule |
| `PublishOther`, `WithdrawOther`, `SetInstance`, `BookAlone`, `CancelAlone` | other endpoints: rides of the driver outside the schedule, status changes, single bookings and cancellations |

`driverBusy` and `seat` abstract what `RideRequests` and `RideBooking` model in detail:
`book_ride_service` and `cancel_booking` are atomic here.  All dates lie in the future,
`started` stands for in progress and completed, and a database error other than the refusal
by the overlap trigger is left out.  An edit's new days and times are left out too: the next
materialisation uses the new ones, and no property compares the two.  The field `for` of a
seat is history: the subscription whose own request booked it.

### Timetable

A schedule is a set of days of the week, a time, a duration and a first and last date.  A driver's active
schedules should not promise two rides at once, and nothing in the database says so: each request judges what
it is about to write.  The judgement compares days of the week.  A ride that runs past midnight is cut in two
*segments*, and two schedules are refused if two segments meet on a day that occurs in the common part of their ranges of dates.

| Variable | Code |
|---|---|
| `row` | rows of `recurring_schedules`: days, time, duration (in `recurrence_meta`), dates, `is_active` |
| `published` | departures of the open rides the driver published one by one |
| `planAt`, `draft` | one request per session: where it is, the row it loaded, the row it wants |
| `blind` | history: schedules written, since the request judged, by one that its lock does not exclude; its own since it was loaded |

| Actions | Code |
|---|---|
| `BeginCreate`, `TakePlanLock`, `JudgeSchedules`, `JudgeRides`, `SaveNew` | `create_recurring_schedule_service`: two advisory locks, the other schedules, the rides date by date, the insert |
| `BeginUpdate`, `TakePlanLock`, `JudgeSchedules`, `SaveChange` | `update_user_schedule_service`: loads its row, takes a lock of another name, judges against the other schedules only; no lock and no judgement if the schedule stays inactive |
| `BeginPublishing`, `JudgePublish`, `InsertPublished`, `CancelPublished` | `create_ride_service` and the cancellation of its ride |
| `DeactivateSchedule` | `deactivate_schedule` |

`SaveChange` writes the columns whose wanted value differs from the loaded one, because the session has loaded the row
before it waits and the ORM writes differences.  Dates are numbers from a Monday, a `Day` has few
minutes and a `Week` few days; the clock stands still at `Now`.  What happens to
rides and seats of a changed schedule (the purge) is in `RecurringSeries`; seats, prices and the
detour buffer are left out; published rides have one duration.

### RideRequests and DriverCalendar

A driver is kept from two rides at once by four mechanisms of different reach: an advisory
lock per user taken by some handlers, a query of the driver's rides made by some, the row lock
of the ride, and the trigger `enforce_ride_time_overlap`, which takes an advisory lock of the
driver and queries once more.  `RideRequests` has every write of a ride that the trigger sees, with the
mechanisms of its own path.

| Variable | Code |
|---|---|
| `trip` | rows of `rides`, with the legacy booking an acceptance makes |
| `aboard` | passengers with an active row of `ride_bookings` |
| `ask` | rows of `ride_requests` |
| `askAt`, `deal` | one request per session; what it holds of locks follows from where it is |

| Actions | Code |
|---|---|
| `BeginPublish`, `QueryRides` | `create_ride_service` |
| `BeginInsert` | rides created from v2 without a query |
| `BeginAccept` | `accept_ride_request_service`: judged on an unlocked read |
| `BeginRetime`, `BeginReactivate` | edit of a departure time in v1; the v2 patch that opens a ride again |
| `Trigger`, `CommitInsert`, `CommitUpdate` | the statement that fires the trigger, and its commit |
| `BeginAsk`, `QueryAsks`, `InsertAsk` | `create_ride_request_service` |
| `BeginWithdraw`, `CommitWithdraw` | `cancel_ride_request_service` |
| `SetStatus`, `DeleteTrip`, `BoardTrip` | status changes, deletion and bookings, modelled in detail in `RideBooking` |

The trigger's query sees what was committed before it got its lock, because PostgreSQL takes a new
snapshot for each statement of a READ COMMITTED function.  Durations are one constant, `Length`,
and windows are half-open, as in the SQL.  `DriverCalendar` is the abstract specification:
rides enter and move in a calendar only where the driver is free.  `ImplementsCalendar` is
the refinement (`INSTANCE ... WITH`): the calendar holds the rides whose status the trigger looks for.

### ChatThread

| Variable | Code |
|---|---|
| `rideState`, `bookingState` | the rows the lock state is computed from |
| `thread` | rows of `chat_threads`: cached lock, reason, `message_count` |
| `message` | rows of `chat_thread_messages`, one per session that posted |
| `chatAt`, `chat` | one request per session: the copies of thread, ride and booking it works on |
| `late` | history: sessions for which the chat was never open since they began |

`BeginChat` to `CommitPost`, `CommitRead` and `CommitSync` are the steps of ensuring, reading,
marking, listing and posting; `Refresh`, `ReadRide`, `ReadBooking`, `Synced` those of
`sync_thread_lock_state`, which they all call; `MoveRide`, `CancelBooking`, `DeleteRide` are
other endpoints.  Posting through the legacy route is ensuring followed by posting in one
request; the legacy routes that read or mark are ensuring followed by the same steps, and are
not modelled as one request.  The status `booked` stands for every status that may send.

### Mailbox

Nothing here is in the database: connections, queue and dead letters are dictionaries of one
process, and what makes it hard is that a coroutine loses the event loop at some awaits and not at
others.  `running` is the coroutine that has the loop; an action that ends in an await that
suspends gives it back.

| Actions | Code |
|---|---|
| `Arrive`, `Check`, `Register`, `Flush`, `Drop`, `Confirm` | `connect`: accept, displace the older connection, register, flush the queue, confirm |
| `Disconnect`, `Unregister` | `disconnect`: the close suspends; the entries are deleted afterwards, whosever they are by then |
| `WakeUp`, `Ping` | `_heartbeat_loop` |
| `BeginDelivery`, `Retry`, `Channel`, `Send`, `Write`, `Sent`, `Queue`, `Push` | `NotificationService.send` with retries, `send_to_user` and the queue |
| `Leave`, `Depart`, `ClientDrops` | the endpoint's loop ends; the client disappears without a word |

The queue is its length: what the messages say plays no part.

### DriverDocuments

An upload stores a file, asks the OCR and face services, inserts a row and records an attempt,
in that order and with seconds between the steps; a deletion removes rows and files and demotes
the driver; a profile edit commits new identity numbers, one or both, and deletes the documents they concern
afterwards, one after the other.  What a session has read stays in it while it waits.

| Variable | Code |
|---|---|
| `rows`, `made` | `user_verifications`, numbered by creation |
| `files` | the upload directory |
| `number` | CNIC and driving licence of the profile |
| `driver` | `is_verified` and `status` (pending, active, inactive, suspended) of `driver_profiles` |
| `byHand`, `forgotten` | history, not in the code: some request has set the status itself; the rows that a profile edit left undeleted when a deletion failed |
| `docAt`, `paper` | one request per session |

| Actions | Code |
|---|---|
| `BeginUpload`, `Analyse`, `InsertRow`, `Attempt`, `Revisit` | upload; after a selfie, the documents are matched again |
| `BeginDelete`, `List`, `Remove`, `Unlink`, `LoadDriver`, `Demote` | deletion, also as the first half of selfie re-verification |
| `BeginIdentity`, `ReadNumber`, `Persist` | identity check; `Align` writes the flags of the profile |
| `BeginPatch`, `WriteNumber`, `RefreshNumber`, `NextDocument` | profile edit of `cnic`, `driving_license` or both: write, see what changed, delete document by document |
| `DeleteFails` | a deletion finds its rows gone and raises; a profile edit swallows that (`users/service.py:425`), skips the rest and answers success |
| `BeginStatus`, `SetStatus` | `PUT /drivers/status`, which asks for no verification |
| `BeginReview`, `BeginTrigger`, `Decide` | decision of an admin, and re-analysis |
| `BeginSync`, `CheckKyc`, `Settle` | the reads that promote or demote: the profile, and the eligibility check before publishing |

The verdicts of the face and OCR services are choices.  Manual review is disabled by default
(`core/config.py:68`), so a doubtful verdict is a rejection.  The field `face` of a row is history: the
selfie its verdict comes from.  Documents without a face or a number are left out, and so is `update_driver_verification`, which only
`verify_driver_documents_service` calls and no endpoint reaches.  A process that stops between the profile's commit
and the deletions leaves a checked document of the old number behind; the code has no
repair for it, and the model leaves crashes out.

### ClientSession

Every call of the Flutter application goes through one interceptor.  It runs on one event loop, so what
interleaves are the stretches between awaits: of the calls, of the user's sign-in and sign-out, and of nothing
else.  The first call refused with 401 sets `_isRefreshing` and asks for a new access token; calls refused
meanwhile put themselves in `_queue` and are completed by the first one, which sends them again or rejects them.

| Variable | Code |
|---|---|
| `storedAccess`, `storedRefresh`, `loggedIn` | the keys of `SharedPreferences`; an access token is live or dead, a refresh token the number of its sign-in |
| `ended` | `refresh_tokens` revoked or expired |
| `refreshing`, `parked` | `_isRefreshing`, `_queue` |
| `callAt`, `local` | each call: where it is, the header it carries, the tokens its `onError` holds |
| `account`, `leaving` | a sign-in or sign-out under way, which writes the keys one by one with an await after each |
| `answers` | history: how often the handler of a call was completed |

| Actions | Code |
|---|---|
| `Dispatch` | `onRequest` |
| `Reply`, `Refuse` | the server's answer: anything but 401, or 401 for a missing or expired token (`get_current_user`) |
| `Unauthorized`, `ReadRefresh`, `Grant`, `GiveUp`, `StoreAccess`, `RetryCall`, `RetryAll`, `RetryRefused`, `ClearAccess`, `ForgetRefresh` | `onError`, await by await, with `_retryAll`, `_failAll`, `AuthService.logout` and the server's `refresh_access_token` |
| `SignOut`, `Revoke`, `SignOutClears`, `SignIn` | `firebase_auth_service.dart` |
| `Expire`, `Restart` | a day or a week passes; the system ends the application: calls and queue are gone, the preferences stay |

Access tokens expire together (`Expire` ages all that were issued so far), the order of the queue plays no part, and the fields of
`local` a call does not use any more are reset, which nothing reads.  Calls to the authentication endpoints do
not go through this client.  Calls are alike, so one of those not made yet stands for all (`NextCall`).

### Components side by side

`MCJourneys`, `MCDriving` and `MCAccount` extend several of these modules, which have no variable in common.  A variable
`focus`, chosen in the initial state, says which of them moves; the others rest in their
initial states.  No interaction is hidden by this: where two of them touch the same table in the code, the
module that needs the other's writes has them as actions of its own (`BookAlone`, `MoveRide`, `SetStatus`,
`PublishOther`).  In `MCAccount`, `MailRests` lets a behaviour go on in which every connection and delivery is over, so that deadlock can be checked for the wallet.

## 3. What is checked

| Run | Instance | Shows |
|---|---|---|
| `serial` | rides: one session, two rides, two passengers, three bookings of one or two seats, all of v1 | `TypeOK`; `SeatConservation`: seats left plus seats taken is the capacity; `PlanCoversActive`: the stored plan visits exactly the passengers aboard; `RidesCredited`: one credit per completed ride; `ImplementsContract`.  One request after another and no deaths: the races and the crashes of the hazards cannot occur here |
| | documents: three clients, selfie, CNIC and licence, two numbers of each, all operations, one new row | `DrivingTypeOK`; `IdentityMatchesProfile`: no document stays checked against a number the profile has given up, but for the rows in `forgotten`; `VerifiedIsActive`: no race makes the two halves of a driver's standing disagree, but only a status set by hand |
| | timetable: two requests of any kind, two schedules, three weekly plans of which one runs past midnight, two departures, weeks of two days | `PromisesAreJudged`: nothing a request leaves active promises the driver to two rides at once |
| `concurrent` | two sessions, every endpoint, requests may die; one ride, one passenger, two bookings | `NoDuplicateActiveBooking`, `CancelledIsFinal`, `ExecutionOnlyInProgress` |
| `slots` | two sessions, two clashing rides, two passengers, two bookings, the endpoints that read under locks | `NoClashingBookings`, `TripStatusMonotone`, `EveryRequestEnds` |
| `Overbooking` | two passengers, one seat | violated: `NoOverbooking` |
| `Transitions` | two status requests | violated: `AllowedTransitions` |
| `OpenSeats` | one request at a time, v2 completes the ride | violated: `CompletionClosesBookings` |
| `ledger` | wallet: one wallet, two sessions, three transactions, all operations, any failure, callbacks that decline | `TypeOK`, `Solvent`: no overdraft; `BalanceIsLedger`: the balance is the sum of the applied amounts; `CompletedWasApplied`; `EveryCallEnds` |
| | mail: two connections, two deliveries, a queue of two, two attempts | `MailTypeOK`: the queue keeps its bound; `RegisteredIsWatched`: a registered connection has a heartbeat that will notice its end, or a coroutine about to remove it; `MailCallsEnd` |
| `Callbacks` | the same with callbacks that confirm, top-ups only | violated: `ConfirmedIsCredited` |
| `Refusals` | two deductions compete | violated: `RefusalRecorded` |
| `journeys` | series: two dates, one passenger, two requests of any kind, two steps of other endpoints | `OneRidePerDate`, `OneSeatPerDate`, `RefusalUndoesTheSeries`, `SeriesRequestsEnd` |
| | asks: two drivers, one passenger, two rides, two ride requests, three sessions, three departures of which neighbours overlap | `ImplementsCalendar`, `NoDriverDoubleBooked`, `NoClashingPending`, `AcceptedIsServed`, `AskCallsEnd` |
| | chat: two sessions of any kind, two thread keys, two changes of the ride | `OneThread`, `HistoryKeepsTalk`, `ClosedStaysSilent`, `ChatCallsEnd` |
| | client: three calls, two sign-ins, one expiry | `QueueHasRefresher`: whoever waits in the queue waits for a call that is refreshing; `AnsweredOnce`; `CallsSettle` |
| | all four | `JourneysTypeOK` |
| `SeriesAllOrNothing` | one series over two dates, one other ride of the driver | violated: `AllOrNothing` |
| `UploadOrder` | two uploads | violated: `UploadOrderDoesNotMatter` |

Bounds of `RideBooking`.  Each hazard needs two requests and one ride, or two rides and one
passenger; a third booking, larger parties and a second ride are there so that
counters and plans are sums over several rows.  `serial` gives bookings
more than one seat because restoring the wrong number is invisible with
parties of one.  Deadlock checking is off in these runs: when identities are used
up and every ride is closed, the model has no request left to make.

Bounds of `Wallet`.  Locks, checks and sums are per wallet, so one wallet is enough;
one credit and two debits of the same amount are the smallest case in which two
debits compete for money that covers one of them, and in which a lost update shows
in the sum.  A new wallet every time is the initial state, so creating it is part
of every behaviour.  Deadlock is checked: a session can always begin a request.

Bounds of `Mailbox`.  Two connections displace one another, two deliveries race with each other and with the connections, and
`MaxQueue` (100 in the code) and `MaxAttempts` are small so that the queue is full and the retries are used up.

Bounds of `journeys` and the documents.  A series needs two dates, so that the second can be refused after the
first was booked, and two requests that race, or one and other endpoints (`MaxOutside`).  Overlap is pairwise and each
write is judged on its own, so two rides, two requests and three departures suffice; the third session is for
the two who accept one request while its passenger cancels it.  One more thread key than the unique
index admits shows that the index is what keeps the thread unique.  The worst race of the documents needs three clients:
a change of both numbers, a deletion that makes it fail, and an identity check; `ThreeClients` of `MCDriverDocuments` says what each may call.  Three calls are one that refreshes, one that waits and one whose 401
arrives when the refresh is over; one expiry is enough to have every token dead, the new one included.  `MaxRows` bounds the uploads.  Sessions
serve one request each, so behaviours end and deadlock checking is off.

Bounds of `Timetable`.  The judgement is about pairs of schedules and the races are between pairs of requests; the
schedules of earlier requests are chosen in the initial state.  The three plans cover several weeks, meet by their hours, across
midnight and on a last date, and a change of one into another merges columns.  The mutant ignores the locks of
schedules; with `blind` or the exception of last dates taken out of the property TLC refutes it too.

Fairness of `journeys` and `Mailbox`.  Weak fairness of the next statement of each session or
coroutine that has begun, for the reasons given below; nothing is asked of clients, of other endpoints, or of
a socket.  For the client it is justified by Dio, which ends a call that gets no answer after 30 s (`connectTimeout`,
`receiveTimeout`).  The five termination properties say that no wait
for a lock or in a queue and no loop over rows or messages that others add to goes on for ever.  `CallsSettle` has the exception the code
has: a retry that waits behind itself, see below.

Fairness of `Wallet`.  Weak fairness of the next statement of each session: the
event loop resumes it.  Failures, crashes, callbacks and new requests are
unfair.  `EveryCallEnds` is stated up to the exhaustion of the transaction
identities, without which a request would wait at `log`.

Fairness of `RideBooking`.  `LiveSpec` asks strong fairness of the next step of each session that
has begun.  PostgreSQL queues the waiters of row and advisory locks in order of arrival and the
event loop resumes every coroutine, so a step that is possible again and again
is taken.  Nothing is asked of clients: no request need ever begin.  The
mutant of `EveryRequestEnds` is an advisory lock that survives its transaction, as a
session-level lock would: the passenger's next request waits for ever.

Each property of a passing run is paired with a mutated definition (the
operators marked *Variant* beside the definition they replace) under which
TLC refutes it.

### Where code and documentation disagree

- **Seats can be oversold** (`Overbooking`).  Two requests load the ride with one
  seat left; the first commits; the second gets the lock, still sees one seat and
  commits too, and `seats_available` is 0 with two seats sold.
- **The lifecycle has edges the table of transitions lacks** (`Transitions`).
  The status is judged as loaded and written later, without a lock.
- **v2 completion leaves bookings active** (`OpenSeats`).  It completes rows of
  the legacy table; the passenger's slot and chat stay open for a ride that is
  over.  Since a completion of v1 updates the bookings before the ride, a booking that commits in between
  stays active there too; the run shows the shorter path.
- **A confirmed payment may never be credited** (`Callbacks`).  The webhook writes the
  status only, although `routers.py:527` announces that it updates the wallet.  A
  top-up that died after logging its transaction is confirmed by the provider:
  COMPLETED, and the money is nowhere.  The mirror image is a callback that
  declines a transaction already credited.
- **A refused deduction stays PENDING** (`Refusals`).  `deduct_from_wallet_service`
  has no handler, so when the check under the lock refuses it, its logged transaction is
  never marked FAILED as `models.py:59` describes.

- **A refused series leaves seats behind** (`SeriesAllOrNothing`).  `service_v2.py:1324` calls the booking of a series
  all-or-nothing.  When the overlap trigger refuses the ride of a later date, the handler rolls back (`:332`), which expires every
  object of the session, and reads an attribute of the schedule next; an asynchronous session raises there, and again in
  the compensation, which therefore does not run.  Where the refusal is an ordinary one (no seat left, a clash of the
  passenger) the compensation does run, and `RefusalUndoesTheSeries` says it is complete.
- **The order of uploads matters** (`UploadOrder`).  `verification/service.py:1145` says that faces are matched
  again after a selfie upload so that it does not.  A document that was matched with the old selfie but is inserted after the new one's
  upload has matched what there was keeps its verdict.

The same two causes as in the first three (attributes loaded before the lock; a check and a commit without a
lock) also let a booking commit on a started ride, a cancellation commit after
the start, a deletion take a fresh booking with it (`crud.py:818`), and a plan be
rewritten after the start; a crash between the two commits of a completion leaves
a driver uncredited.  They are listed as hazards.  The patch of v2 compares the lower-case status with upper-case names, so
its guard refuses nothing; the action `PatchLoad` has no guard for that reason.

Seen in the models, where the code promises nothing that a property could quote:

- Two drivers may accept one pending ride request (`service.py:4297` judges an unlocked read); each gets a ride, and the passenger a
  legacy booking on both.  What `AcceptedIsServed` shows is that the request names one of them consistently.
- The end of a displaced endpoint calls `disconnect(user_id)`, which closes and forgets the newer connection
  (`websocket_manager.py:136`, `routers.py:428`); and what is queued during a flush is deleted with the queue (`:272`).
- `message_count` may lose increments (`chat/crud.py:315`).
- The creation of a schedule and a change of another one take locks of different names (`service_v2.py:830`, `:1753`), so each
  may miss the other and both stay active at the same hours; two changes of one schedule merge into a row neither judged
  (`crud_v2.py:606`).  These are the schedules in `blind` that `PromisesAreJudged` excepts.
- The ride of a schedule's last date that runs past midnight is not compared with another schedule's ride of the next
  day (`service_v2.py:168`), the other exception of that property.  A change of a schedule is not compared with rides at all.
- A change of both identity numbers whose first deletion fails, because another request has deleted those rows meanwhile, deletes nothing
  more, does not align the driver and reports success (`users/service.py:387-430`): the licence's row stays, checked against the old
  number.  These are the rows in `forgotten` that `IdentityMatchesProfile` excepts.
- `PUT /drivers/status` makes an unverified driver `active` and a verified one `inactive` or `pending` by one request
  (`drivers/service.py:313-347`); its description says that `active` "requires verification" (`drivers/routers.py:174`), which nothing
  there enforces, although the eligibility check before publishing asks for the documents again.  A
  demotion or alignment that has read the row before overwrites a status set meanwhile.  This is the exception
  `byHand` in `VerifiedIsActive`.
- A re-analysis overwrites the decision an admin takes while it runs (`verification/service.py:2896`).  A lost
  demotion heals at the next read of the profile, as its docstring says.

- A retry that is refused with 401 (its new token expired while the application slept) finds `_isRefreshing` set by its own call
  (`api_client.dart:88`), joins the queue, and waits for the call that waits for it; every later 401 joins them until the
  application is restarted.  This is the step `RetryRefused`, and the exception in `CallsSettle`.
- A retry that ends in any other error, 404 or a timeout included, reaches the `catch` of the refresh (`:137`), which
  deletes the fresh tokens: the user is logged out although the refresh succeeded.
- A refresh granted before a sign-out and stored after it leaves an access token in the preferences of a user who has signed out (`:115`).

Read in the code and not run: the seat booking of v2 (`crud_v2.py:284-428`, `book_seat_atomic` and its cancellation) fails in every
call; the nightly task reads `settings.DATABASE_URL`, which the settings lack, and is not registered with the scheduler, so
`BeginNightly` stands for its service function; the clusters of ride requests insert a booking status their enumeration lacks and are rolled back.

Read in the code while modelling the wallets, and not run: a top-up is marked FAILED after it was credited when
its last commit fails (`payments/service.py:227`); the settlement of a ride serialises
`Decimal` values with `json.dumps` and raises before it moves a fare (`:398`); a payout
request stores a user id where the foreign key wants a driver profile (`:518`);
the webhook of `service_prompt10.py:321` inserts a transaction without its mandatory
`txn_id`, and its payout (`:426`) names columns the model lacks, so neither commits.

## 4. What is proved

`RideBookingProofs` proves, for any sets of rides, passengers, drivers,
bookings and sessions (rides and bookings finite), any capacity and any subset of endpoints, from the assumptions of
`RideBooking` on its constants and from the hypothesis the table states:

| Theorem | Statement | Hypothesis |
|---|---|---|
| `TypeCorrect` | `Spec => []TypeOK`; `seatsAvailable` is a natural number however requests interleave | none |
| `LocksProtect` | `Spec => []RowInv`: a session in a section guarded by a row lock holds the lock of its ride | none |
| `NoDuplicates` | `Spec => []NoDuplicateActiveBooking` | none |
| `CancellationsStick` | `Spec => CancelledIsFinal` | none |
| `ExecutionsInProgress` | `Spec => ExecutionOnlyInProgress` | none |
| `NoClashes` | `Spec => []NoClashingBookings` | `LockedStatus`, `SymmetricClashes` |
| `TripsMoveForward` | `Spec => TripStatusMonotone` | `TripOps` |
| `NoOrphans` | `Spec => []GoneTogether`: a booking is deleted if and only if its ride is | none |
| `BookingLifecycle` | `Spec => [][\A b \in BookingIds : RecordKept(b)]_booking`: what a step may do to a booking | none |

No hypothesis says anything about the order or the number of requests: all requests race, on one ride or on several, and die where
they like.  The two hypotheses are about which endpoints are called and about the data:

- `LockedStatus`: the endpoints that write a ride's status as they loaded it, without a lock (the driver's status change and the patch of v2),
  are not called.  Such a write can bring back a ride that was closed meanwhile, beside a booking whose query did not count it, and with it
  `NoClashingBookings` is false.  So the theorem is about the locks: with every other endpoint, those of v2 trips included, they suffice.
  `TripOps` leaves out the deletion as well, for which the status `deleted` is no step forward.
- `SymmetricClashes`: the overlap query and the request compute a window alike, so that overlap is symmetric, up to the twelve hours at which
  a request caps a window.

`RecordKept` is what remains of the life cycle of a booking when every guard may be stale: it is inserted on a ride that exists at the
commit; it keeps its ride, passenger and seats; it never becomes active again; it becomes `completed` only on a ride in progress or by the commit
that completes the ride; it is deleted only with its ride.  What it does not say is as telling: a booking may be inserted on a started
or closed ride and a completed one may be cancelled, because those guards are judged on stale reads.

`TypeOK` is not inductive: that the subtraction in `BookCommit` stays a
natural number needs that the guards passed in `BookCheck` still hold of the
*loaded* seats, and that the ride of a waiting request is a ride.  `TypeInv` adds that (a session past
the check of a booking has enough seats in its `txn`; rows that are used name a
ride and a passenger).  The row-lock theorems need `RowInv`: a
session at `bookCheck`, `bookCommit`, `execCommit` or `tripCommit` holds the lock of the ride it
names, so no two sessions are in these sections for one ride, and what the guard
read under the lock is still true at the commit (no active booking of the passenger;
ride in progress and booking active), because every action that could change it waits
for the lock.  The completion, which holds bookings without their ride, is why `RowInv` also says what a request holds (`Holding`: the bookings a
completion has updated, the one a pickup or dropoff has locked), that no two requests hold a booking in common, and that those of a
completion are active until its commit.  Most actions leave all of this alone, which the lemmas on
frames say once.

The other theorems share an invariant of every behaviour, `Base`: `TypeInv`, `RowInv` and what a request knows at a step whatever the
others do (`Known`: a booking past its load names a passenger and a party, a request holding the ride's row
works on a ride that still exists, a trip handler's transition is legal under its lock; and, of the tables, that bookings are deleted together with
their rides, which is `NoOrphans`).  The lemmas that go with it say once for all what
the requests do: `StepKinds` that a step loads a request, ends one or moves it on, `StepWrites` which of the tables each kind of
commit changes and how.  `BookingLifecycle` follows from `Base` and `StepWrites`.  For
`NoClashes`, `SlotInv` adds that past the overlap query a request holds the passenger's advisory lock, so no other commits a booking of that
passenger until it ends, and that the query's answer is still true at the commit because no ride comes back to life (`NoneRevived`).

The actions of `Next` are gone through once for types, once for locks and once for the kinds of steps and their writes; the proofs
of the properties then have one step per kind.  Each invariant was checked with TLC before it was proved.

`AccountProofs` proves about `Wallet`, for any users, sessions, transactions, positive amounts, operations
and callbacks:

| Theorem | Statement |
|---|---|
| `TypeCorrect` | `Spec => []TypeOK` |
| `NeverOverdrawn` | `Spec => []Solvent` |
| `LedgerBalances` | `Spec => []BalanceIsLedger` |
| `EveryChangeIsLogged` | a step changes a balance only by the amount of one logged transaction that no earlier step used |
| `LogIsImmutable` | owner and amount of a logged transaction never change |
| `OnlyCallbacksConfirmUnpaid` | a step that makes a transaction COMPLETED finds its money moved, or is a `Webhook`; whatever outcomes callbacks bring |

`Solvent` is not inductive: `ApplyBalance` writes a value computed from an
earlier read.  The invariant `IInv` adds that a session at `apply` owns the row
lock (`LocksOK`), that what it read is still the balance and covers the debit
(`FundsOK`), that the row it logged describes it and belongs to it alone (`RowsOK`), and that
this row is applied at most once (`AppliedOK`).  The unlocked check of `LoadWallet` plays no
part in the argument.  For `LedgerBalances`, `Ledger` adds that the units of the applied transactions of a user are finitely many
and that their difference is the balance; the one action that applies a transaction adds a block of as many units as it adds to the balance, and
no action touches a block that is there, because the log is immutable.

About `Mailbox`, for any connections and notifications, any bound of the queue and of the retries:

| Theorem | Statement |
|---|---|
| `MailTypes` | `MailSpec => []MailTypeOK`, the queue's bound included |
| `AlwaysWatched` | `MailSpec => []RegisteredIsWatched` |

`RegisteredIsWatched` needs to know that a heartbeat which ends leaves somebody behind who unregisters.  Two ends are dangerous.  A registration could
start a heartbeat over one that is about to disconnect: but a connection registers once, and its heartbeat begins with that (`AboutToRegister` in
`BeatOK`).  A heartbeat that disconnects cancels itself, and if it then awaited the close of the socket it would end there, with the
connection still registered: but the heartbeat known for a registered connection is that connection's (`PulseOK`), pings that connection, and disconnects
only after it has found it closed, so that the close raises at once and nothing is awaited (`BeatOK`).  `EndpointOK` says where the calls of an endpoint return
to, so that no endpoint comes back to registering.

`RideRequestsProofs` proves, for any drivers, passengers, rides, requests, sessions,
departures and length, from `AsksAssumption` alone:

| Theorem | Statement |
|---|---|
| `AsksTypeCorrect` | `AsksSpec => []AsksTypeOK` |
| `NeverTwoRidesAtOnce` | `AsksSpec => []NoDriverDoubleBooked` |
| `RequestsImplementCalendar` | `AsksSpec => ImplementsCalendar`, the refinement |
| `PendingNeverClash` | `AsksSpec => []NoClashingPending` |
| `AcceptedAreServed` | `AsksSpec => []AcceptedIsServed` |

`NoDriverDoubleBooked` is about committed rides, and what the trigger saw must still hold at the commit.  The
inductive invariant `AInv` adds: a session that is past the trigger holds the driver's overlap lock
(`LocksOK`), so no two sessions are past it for one driver; the window it is about to commit is free
of committed rides of that driver (`GuardOK`), which every other commit for the driver would need the lock to disturb;
rows in use name a driver and a departure (`PlacedOK`); and what a session carries describes its row
(`DealsOK`).  Given `AInv`, each commit is `Put` of the calendar, a cancellation or deletion is `Withdraw`, and the rest
stutters: that is the refinement, and the queries some paths make before the trigger play no part in it.
`PInv` is the same argument for pending requests and the passenger's advisory lock, and `ServedOK`
says of an acceptance that the ride the accepted request names was inserted.

`ChatThreadProofs` proves, for any sessions and thread keys, any subset of operations and any number of changes of
the ride:

| Theorem | Statement |
|---|---|
| `ChatTypeCorrect` | `ChatSpec => []ChatTypeOK` |
| `OneThreadAlways` | `ChatSpec => []OneThread` |
| `TalkIsNeverLost` | `ChatSpec => []HistoryKeepsTalk` |
| `LateRequestsAreSilent` | `ChatSpec => ClosedStaysSilent` |

`CInv` adds to the types that a session past the insertion of a thread is the only one with an uncommitted row, and that there is
none beside it (`UniqueOK`).  `HInv` adds that the copy of the count a session holds counts messages that exist
(`TalkOK`), so that what it writes is at least 1 and at most the number of messages, though it may overwrite the
increment of another.  `LateOK` says of a session in `late` that, as long as it stays there, whatever it has
read of ride and booking forbids sending.

`ClientSessionProofs` proves, for any calls and any bounds:

| Theorem | Statement |
|---|---|
| `ClientTypes` | `ClientSpec => []ClientTypeOK` |
| `QueueNeverOrphaned` | `ClientSpec => []QueueHasRefresher` |
| `EveryAnswerOnce` | `ClientSpec => []AnsweredOnce` |

`SInv` says that the flag is set exactly while one call is between setting and resetting it (`HolderOK`), and that the queue
holds exactly the calls that wait, and only while the flag is set (`WaitersOK`).  That nobody else resets the flag is why
the holder finds none of the queued calls answered, and why the queue is empty when the flag falls.

`TimetableProofs` proves, for any schedules, requests, plans and departures, any length of a ride up to one day, and any
numbers of days in a week and minutes in a day:

| Theorem | Statement |
|---|---|
| `TimetableTypes` | `TimetableSpec => []TimetableTypeOK` |
| `PromisesKept` | `TimetableSpec => PromisesAreJudged` |

The first half of the argument is arithmetic.  The code never compares two rides of two schedules; it compares segments
of days of the week and asks whether that day occurs between the two dates both schedules run.  `JudgementFinds` says that
this misses no two rides that meet: two rides of at most a day that meet have segments that meet on one date, which is the
date of one of the departures or the day after; when that date lies within the dates of both, it has the weekday of the two segments and is
reached from the first common date (`Reached`).  The dates up to the last one of both in `PromisedTwice` are what that needs.  The second
half says that what was found still holds at the commit.  `TimetableInv` adds to the types that a request past its judgement agrees with every
active row that is not news to it (`JudgedOK`) and, if it creates, with the rides open now (`RidesOK`); that the row a change has loaded
is unchanged or was deactivated (`LoadedOK`), so that the merge of columns yields what was judged; and that two requests of one
kind are never both past their judgement unless one of them took no lock (`Apart`).

`DriverDocumentsProofs` proves, for any sessions and keys of documents, any subset of the operations and any numbers of analyses and
expiries:

| Theorem | Statement |
|---|---|
| `DocsTypes` | `DocSpec => []DocsTypeOK` |
| `StandingAgrees` | `DocSpec => []VerifiedIsActive` |
| `ChecksFollowNumbers` | `DocSpec => []IdentityMatchesProfile` |

`DocsInv` says of every row that its check was made against the number in the profile, or that it is in `forgotten`, or that a request that changed
the profile will delete it (`RowOK`, `Settled`): the request is about to find that the number is not the one it had read, is about to
list the rows of the document, or has listed this one, or has the document still ahead (`Covers`); one that fails on the way leaves
the rows ahead of it in `forgotten`.  A request that carries a check from an older number carries it for such a row, or for
one that was deleted, which its update misses (`SessionOK`).  The standing agrees because every write of the driver's row that a
session makes starts from a copy that agrees itself, until a status is set by hand (`Fits`).

`RecurringSeriesProofs` proves, for any dates, passengers, keys and requests, any subset of the jobs and any number of outside steps:

| Theorem | Statement |
|---|---|
| `SeriesTypes` | `SeriesSpec => []SeriesTypeOK` |
| `OneRideAlways` | `SeriesSpec => []OneRidePerDate` |
| `OneSeatAlways` | `SeriesSpec => []OneSeatPerDate` |
| `RefusalsUndone` | `SeriesSpec => RefusalUndoesTheSeries` |

`SeriesInv` adds to the types and the two uniqueness properties that what a request carries exists and fits its next statement (`JobFits`),
that seats name rides and subscriptions that were made (`SeatOK`), and that no two series requests have one
subscription (`OwnSub`).  The fourth theorem rests on `MadeFits`: a seat made for the subscription of a series request and still active
is one the request remembers, or, once it undoes them, one left to undo or one on a ride that started; since seats only
leave `active`, and other requests relink them without touching their history, no interleaving breaks this.  Every
action keeps rides, subscriptions and seats as the others rely on (`InstancesGo`, `SubsGo`, `SeatsGo`), so that what a request that
does not move has noted stays true (`OthersStay`); the proof of an action is about its own request alone.

Only model-checked:

- liveness, which is beyond the prover (`EveryCallEnds`, `EveryRequestEnds`, `SeriesRequestsEnd`, `AskCallsEnd`,
  `ChatCallsEnd`, `MailCallsEnd`, `CallsSettle`);
- `SeatConservation`, `PlanCoversActive`, `RidesCredited` and `ImplementsContract`: they hold of requests that come one after the other, which
  nothing in the code enforces, so a theorem about them would have to assume the races away;
- `CompletedWasApplied`, which holds as long as callbacks decline; with callbacks that confirm it is false, and what is proved is that
  they are the only source;
- `DrivingTypeOK` and `JourneysTypeOK` of the composed instances: conjunctions of the types of their components, each of which is
  proved for its component's specification.

Every other property of a passing run has its theorem.

## 5. Plan

What is left, in this order:

| Module | Subject |
|---|---|
| `RideRequests` | legacy bookings in the passenger's overlap query, and a booking beside a request |
| `RecurringSeries` | edits of days and times while a series is being booked, with the rows of `Timetable` |
| `Mailbox` | the dead-letter list and the sweep of stored notifications |
| `OccupiedSlots` | the windows `get_my_occupied_slots_service` shows a user against those the overlap queries refuse (`service.py:1914-2600`): open rides past their departure, durations over 720 minutes |
| `RideViews` | the buttons the detail and list views offer against what the endpoints accept (`service.py:3010-3440`) |

## 6. Not modelled

- Formulas over floating-point numbers (fares, scores, distances), OCR and face
  matching, the map and payment providers themselves, reports and dashboards,
  middleware, and the screens of the mobile application: they hold no shared state of their own.  They and the
  migrations (`src/backend/alembic`) are most of the lines of the repository.
- Operations that fail in every call and so never commit: the success path of the webhook and the payout of
  `service_prompt10.py`, payout requests, the settlement of fares, the seat booking of v2, and the
  clusters of ride requests.  A model of what they were meant to do would not be a model of the code.
- The escalation of alerts: stage 2 raises in every call (`safety_ai/escalation.py:247`) and falls through to stage 3, so
  there is one path without a choice.
- The notes of SOS incidents: one handler that reads a JSON column and writes it back.
- Ratings, telemetry and registration: single guarded inserts whose uniqueness is a constraint of
  the database.
- The dead-letter list and the sweep of stored notifications, vehicles, suspension of drivers, the views of occupied slots and of rides: see the plan.

## Running

    tlc -config RideBookingSerial.cfg MCDriving
    tlc -config WalletLedger.cfg MCAccount
    tlc -config Journeys.cfg MCJourneys
    tlc -config RideBookingConcurrent.cfg MCRideBooking
    tlc -config SeriesAllOrNothing.cfg RecurringSeries
    tlc -config UploadOrder.cfg MCDriverDocuments
    tlapm RideBookingProofs.tla
    tlapm AccountProofs.tla
    tlapm RideRequestsProofs.tla
    tlapm ChatThreadProofs.tla
    tlapm ClientSessionProofs.tla
    tlapm TimetableProofs.tla
    tlapm DriverDocumentsProofs.tla
    tlapm RecurringSeriesProofs.tla

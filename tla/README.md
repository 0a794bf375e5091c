# Vecinio in TLA+

Vecinio is a back end for communities of co-owners: a FastAPI application over
PostgreSQL (`src/`), and a small Vue client (`frontend/`). These modules model
what its requests do to the shared rows when they interleave, fail half-way or
wait for each other. TLC checks them on small instances; TLAPS proves, for any
number of requests and any sets of rows, all of the safety properties that
TLC finds to hold, the four refinements, and what the two calculations compute.

Paths below are relative to the repository, without its leading directory.

## 1. The system

### How the parts meet

Every HTTP request runs in an asyncio task with one database session and one
transaction (`interfaces/api/dependencies.py:20`). The handler builds
repositories and one use case over that session. Each `await` of a statement
lets other requests run; PostgreSQL runs each statement under READ COMMITTED, so
a statement sees what is committed when it starts, and its own transaction's
writes. `get_session` commits after the handler returns and before the response
is sent; any exception rolls back. There are no queues, callbacks or background
tasks on the server: components meet only in the rows they share, and a component
reads the rows of another (a vote reads accounts and communities, a group reads
communities). The browser client is the one place with callbacks: the answers to
its calls come in any order, and find a store and a view that may have changed.

What keeps racing requests apart is

- a `version` column on communities, owners, accounts, groups, quotas and votes:
  the aggregate is read, changed in memory and upserted `WHERE version =
  expected`; no row back means 412;
- unique indexes (CIF, NIF, email, owner of an account, group slug, the id of a
  unit, one active ballot per vote and unit): an insert waits for an open
  transaction that has touched the same key, then succeeds or fails; a failure
  rolls back the whole transaction and becomes 409 or 400, or 500 when nothing
  translates it;
- nothing at all, for ballots being superseded and for overlapping quotas.

### Components, their state, operations and correctness

| Component | State | Operations that change it | What makes it correct |
|---|---|---|---|
| Votes and ballots (`domain/vote`, `application/vote`) | votes with an end date and, once closed, a result; ballots, each perhaps superseded by another | create a vote, cast or correct a ballot, close a vote | one active ballot per unit that has voted; a history of corrections that is one line; one final result, which counts every unit that had voted; true answers; waits that end |
| Communities (`domain/community`, `application/community`) | communities with a CIF, their units and each unit's owners | register a community with its units, assign an owner to a unit | assignments are never lost; registrations are whole or absent; CIFs are unique; deadlocks end |
| Owners and accounts (`domain/owner`, `domain/identity`, `application/owner`, `application/identity`) | owners with a NIF, accounts with an email and perhaps an owner | register an owner, register an account, link the account to an owner | an owner has one account, an account one owner, for ever; refusals are true; waits end |
| Sessions (`application/identity/login.py`, `refresh_access_token.py`, `logout.py`) | refresh tokens, revoked or not; signed access tokens that are never stored | log in, refresh, log out | a token logged out is never exchanged again; what it issued before dies with it |
| Community groups (`domain/community_group`, `application/community_group`) | groups with a slug and two members or more | create, add a community, remove one | no racing change is lost; never fewer than two members; slugs are unique |
| Quotas (`domain/quota`, `application/quota`) | quotas with lines and an allocation per unit | create a quota | the split loses no cent and is the closest; overlaps come only from races |
| Browser client (`frontend/src`) | the tokens in localStorage and in the store of each tab, the view of each tab, calls under way | load, navigate, log in, log out, submit a form, close; answers to calls | a session logged out is not resumed by a later page load; no tab displays another session's units; a user is logged out by an answer only if it is to a call whose token had expired, or refuses a login |
| Calculations (`domain/*/value_objects.py`, `domain/quota/allocation.py`, `CommunityCreateView.vue`) | none | check an identifier, split a total, add up percentages | the split is the closest; one slip in an identifier is refused; form and server agree but for roundings, which are bounded |
| HTTP layer, schemas, migrations, empty stubs | none of their own | – | – |

The behaviours that are hard to test are listed as `hazards` in `PROJECT.json`,
each at its line, with the properties that cover it. The main ones: two casts that
both see no active ballot; a correction interrupted between its two saves; two
closers; a cast that outlives its vote; an aggregate saved whole over a newer
one; keys looked up before they are inserted; client-chosen unit ids inserted in
opposite orders; a refresh that overlaps a logout; a late 401 in a tab that has
logged in again; two tabs over one localStorage; roundings of a total.

## 2. The modules

A row is named by the request that inserts it (the code generates a fresh UUID
there), `None` is an absent row, and each request has a record with a program
counter `pc` naming the statement it is about to run. A request's uncommitted
writes are not in the row variables: they follow from its `pc` and record, and
reach the rows in its `...Commit` action. Row locks and index entries held by
open transactions are predicates over those records (`HoldsRow`,
`IndexInDoubt`, `RowLocked`, `...InDoubt`), and guard the statement that would
wait. `...Lost` is a process that dies or a connection that breaks at any step:
before the commit the writes vanish, after it they stand; no answer arrives.
Everything a handler does between two awaits is one action, checks in the order
of the code. An ended request keeps its answer.

| Module | Models | Kind |
|---|---|---|
| `Voting` | votes and ballots, with the links and ownerships other components commit | state machine |
| `VoteRegister` | what `Voting` promises: who stands for each unit and with which option; the first owner to cast is the one who may change it; closed once | abstract specification |
| `Community` | registration, assignment, and the list of an owner's units | state machine |
| `UnitOwners` | what `Community` promises: founded whole, then only owners gained | abstract specification |
| `Identity` | owners, accounts, links | state machine |
| `OwnerLinks` | what `Identity` promises: linked once, one account per owner | abstract specification |
| `Sessions` | login, refresh, logout, time | state machine |
| `Browser` | tabs of one browser over `Sessions`, which it EXTENDS: the tabs send its logins and logouts, and calls that its access tokens admit | state machine, composition |
| `CommunityGroup` | groups | state machine |
| `Membership` | what `CommunityGroup` promises: formed with two and a slug of its own, one member at a time, never below two | abstract specification |
| `Allocation` | `allocate_largest_remainder` | operators |
| `Quota` | creation of quotas, using `Allocation` | state machine |
| `Identifiers` | the controls of NIF, NIE and CIF | operators |
| `Percentages` | the sum of a new community's percentages, in the form and on the server | operators |
| `VotingProofs`, `CommunityProofs`, `IdentityProofs`, `CommunityGroupProofs`, `QuotaProofs` | theorems about the state machine of that name, and that it implements its abstract specification | proofs |
| `SessionsProofs` | theorems about `Sessions`, about `Browser`, and that every behaviour of `Browser` is one of `Sessions` | proofs |
| `AllocationProofs` | what `allocate_largest_remainder` computes, for every total and every community | proofs |
| `CalculationProofs` | the three properties of `MCCalculations`, for communities, identifiers and forms of which the run has a sample | proofs |
| `MC...` | instances for TLC, and the reference definitions of `MCCalculations` | instances |

`Voting` takes what the identity and community components commit as two actions,
`LinkOwner` and `AssignOwner`; they are the steps `OwnerLinks!Link` and
`UnitOwners!AddOwner`, which `Identity` and `Community` are shown to implement
(`LinksAreTaken` and `OwnershipIsTaken` prove it of every step of `Voting`).
So `Voting` composes with the components it reads through their abstract
specifications and not through their requests.

`Browser` extends `Sessions`: a login or logout that a tab sends is an arrival of
`Sessions`, and its answer is read off the request's record, so the server of the
tabs is the same model as that of other clients. A pair of tokens is named by the
login that issued it; the client never calls refresh.

A vote in `VoteRegister` has, for each unit, the owner who stands for it and an
option. `Voting` maps it from the active ballots, and a result from the ballots it
counts. A result may be older than the register (a cast that is late), which is
why `CloseWith` asks for owners who stand and not for their present options.

### Abstractions

- `Voting`: a result is the set of ballots its tallies count, with its time. What
  is sent for a new vote is `content`: valid, or one of the three faults that the
  code meets in different places (a blank option label, before the end date is
  looked at; an end date without a zone, which no handler answers for; anything that
  `Vote` refuses after it). An option of another vote is `None`. The clock counts end dates and dispatch times only. The account
  of a token always exists (accounts are never deleted).
- `Community`: an aggregate is read by two statements, the row and then its units
  (`selectinload`), and saved by three, the upsert, the delete and the insert;
  both are separate actions where they can interleave. `UnitLists` are the lists
  of unit ids a client may send: with repetitions, in either order, empty.
  A list of an owner's units is two statements and the handler's filter.
- `Browser`: the public views are one view, `login`, and the views that submit
  another, `form`; what was submitted leads to my-units, or, as from the form of a
  new community, to the view of what it made. A push to the view that is shown mounts nothing:
  `overlaid` is the session that view was mounted with, if another was logged in over it. A page load
  makes a new store and drops what the page before awaited. An error that is not
  a 401 changes nothing in the client, as a lost answer does;
- `Identity`: an insert that must wait for the email index and then for the
  owner index is two steps; `LinkOwnerToAccount` has the row lock of its account
  in between.
- `Sessions`: a row is live or revoked, with an expiry; `access` keeps every
  access token issued, which the code signs and forgets. A refresh looks at the clock
  twice without an await in between (`is_usable`, `create_access_token`); the model
  once, which is a difference of microseconds between lifetimes of minutes and days.
- `CommunityGroup`: a name is what `SlugOf` makes of it; two names may share a slug
  and a name may have none. The members of a new group are a set that is listed once or
  with a repetition, which is refused. A creation that is refused keeps its answer only.
- `Allocation`: exact integers, `Cent` ticks to a cent and coefficients in
  `Whole`-ths, so that half cents and inexact shares exist. ROUND_DOWN towards
  zero, ROUND_HALF_EVEN of `to_integral_value`, the stable sort and the slice by
  a possibly negative number are kept. A Decimal's 28 digits are not: amounts of
  a community stay far below them, and products of that length are beyond TLC's integers.
- `Identifiers`: characters in sequences, with the `$` of the patterns, which also
  matches before a last line break. `Percentages`: integers in units of the last
  decimal; both libraries round each sum to the digits they keep. `NifNumber` is the number
  its eight digits write, as a weighted sum.
- `Quota`: a request's lines are whether there are any, and their sum.

## 3. The runs

| Run | Asks | Bounds, and why they are enough |
|---|---|---|
| `VotingRaces` | one active ballot, no unit loses its ballot, one line of corrections, rows only superseded, one final result that counts the units that had voted, true answers; `VoteRegister` is implemented | three casts of two co-owners of one unit and a closer, or two casts and two closers: a first cast, a correction of it and a rival for the same index entry are three casts, a rival for the row of the vote a second closer; more add no new kind of conflict |
| `VotingWaits` | waits of casts and closers end | three casts, or a cast and two closers, without symmetry |
| `VotingPaths` | types, entitlement of ballots, no unhandled error in a tally | one request of each kind from an empty store, two communities, one account unlinked, every content of a vote: every answer is reached |
| `VotingLate` (violation) | ballots only in open votes | one cast, one closer |
| `CommunityScenarios` | types, whole registrations, no assignment lost or hidden from a list, deadlocked registrations answered; `UnitOwners`, in which CIFs are unique, is implemented | two registrations over two CIFs and two unit ids, in both orders (the smallest cycle of waits) or repeated; two assignments over two units and two owners with a list of an owner's units; a registration and an assignment that meet in one unit |
| `IdentityScenarios` | types, unique keys, true answers, claims end; `OwnerLinks` is implemented | two links of two accounts to two owners; two links and a registration for one owner; two accounts and a link; two owners of one NIF and an account, from an empty store |
| `BrowserTabs` | types; no exchange after logout, bounded access, revoked for ever, logouts take effect; localStorage forgets what was logged out, tabs show their own session's units, of the answers to calls, only those to expired ones end a session | two tabs, two logins (an earlier session and a later one) and two calls, so that each of them can be late; without tabs, a refresh and two logouts of one token (a refresh writes nothing, so a second meets no new conflict); life times 1 and 2 in 3 units of time, so that tokens expire between any two steps |
| `SessionsDead` (violation) | dead tokens are refused | one of each |
| `GroupScenarios` | types, members are the sum of committed changes; `Membership`, in which slugs are unique, is implemented | three changes of a group of two among three communities; two creations with one slug and a change, from an empty store, of lists with and without a repetition |
| `Calculations` | the split is the closest one and only whole cents are split; mistyped identifiers are refused, of characters after them all but one line break; forms agree with the server, or differ by roundings | all totals from -11 to 11 cents in half cents, up to four units in eighths; NIFs, NIEs and CIFs with all pairs of digits at two neighbouring places, which is all that a slip can touch since a control is a sum over places; up to three percentages on either side of what five digits keep, with the client's 20 digits scaled to 5 and the server's 28 to 6, so that forms are sent that add up only once rounded, and some of them are refused, or held back although the server would accept them |
| `QuotaPaths` | types, true answers, overlaps come from races | two creations over two days, a community without units, totals below, at and above zero |
| `QuotaNegative` (violation) | the route's documentation | one creation |

The MC modules of the larger runs start from one of several scenarios, each a state
the program can be in, whose requests have come, or will, or never do: those are
"Lost" at the start, which stands for a request that was lost before it did
anything. Each scenario holds the rivals of one kind of conflict; all of them at
once would multiply states and show no conflict more.

Every instance bounds the number of requests (the request sets are finite and a
request is used once), `MaxTime` bounds the clocks, `MaxDay` the calendar.
That two racing requests may both store overlapping ordinary quotas is accepted by
`docs/adr/0011`; `OverlapsComeFromRaces` shows that there is no other way to it.
Symmetry is used for requests of one kind only where no liveness is checked.
`CHECK_DEADLOCK FALSE` is set because every instance really stops: when all its
requests have been answered nothing is left to do.

### Fairness

`FairSpec` gives weak fairness to the progress of each request: the event loop
runs every task that can run, PostgreSQL wakes a statement once what it waits
for is gone, and its deadlock detector aborts a cycle (`RegisterDeadlocked` in
`Community`). Arrivals, time, losses and the surroundings have none: nothing makes
a client send a request or a connection break. Weak fairness is enough because a
wait is for a particular open transaction to end, and that transaction has its own
fairness. `LogoutsTakeEffect` and the waits of `Voting`, `Community` and `Identity`
are checked under it; the tabs have none, since nothing makes a user act or a
network answer.

### What the violations show

1. `VotingLate`: `CastBallot` compares its dispatch time with the end date and
   never looks at the result, so a cast dispatched in time may be stored, and
   answered 201, after the vote was closed by a result that does not count it. The
   route says "in an open vote".
2. `SessionsDead`: logging out an expired or revoked token is answered 204, where
   the route documents 401.
3. `QuotaNegative`: a total of minus one cent is answered 500, because it is split
   before it is checked and the split does not add up; the route documents 400.

## 4. The proofs

The theorems hold for any sets of requests, rows, owners, units, tabs and calls,
any life times and bounds, under the assumptions listed below. `PROJECT.json`
names each and the property it states. Every proof has the same plan: an inductive
invariant `IInv`; a frame lemma, "a step that rewrites the record of one request
keeps `IInv` if the new record fits and gets on with every other"; a lemma per
action that uses it; then the properties, the action properties and the step
lemma of the refinement, all from `IInv`. What the properties themselves lack to be
inductive is what open transactions are about to commit, and the proofs differ in
how the code keeps that under control:

- **`VotingProofs`**, in three stages. `TypeInv`: past a read, the row that was read
  exists. `HistoryInv` (one ballot, kept ballots, one line): `Phase`, a cast's ballot is
  stored exactly if it has committed; `Fits`, the ballot it supersedes is one of its
  vote, unit and owner; `Pending`, at its commit that ballot is the only active one
  of the unit; `Apart`, no two casts hold one row or one entry of the partial index.
  `ResultsInv`: who may have cast a stored ballot, since ownership only grows; the
  version of the row a close is about to write, so that of two closers one finds
  the other's version; and that a result holds one ballot for each unit that had voted at
  its dispatch, which corrections cannot take away. The refinement maps the active
  ballots of a vote to the register and each commit to `Open`, `Choose` or `CloseWith`.
- **`IdentityProofs`**: an insert holds its entry in a unique index to the end of its
  transaction (`RegistersApart`, `LinksApart`, `KindsApart`), so no two open
  transactions can commit one key, and a link that finds the version it has read finds
  an account without an owner.
- **`CommunityProofs`**: an assignment reads a community by two statements and writes
  all of its units. The version is read first and compared last, and each writer of units
  changes it under the row lock: if it is still the same, the units read are the
  units stored, whatever was committed between the two reads. A registration owns the
  entries of the units it has inserted. A list of units only grows stale
  towards units that were assigned after it was asked for.
- **`SessionsProofs`**: what a refresh has read is no newer than the row but no
  older than any logout answered before the refresh was sent, so it shows the token
  revoked. `BrowserIsAClient` shows every step of the tabs to be a step of `Sessions`
  or none, so the promises of the server hold with the browser (`ServerPromises`); the
  properties of the tabs need `SessionsOk` (every session in use is one that a login
  of a tab got as its answer, so it cannot come again) and `ViewsOk` (whose units a
  view shows, and where they are being awaited).
- **`CommunityGroupProofs`**: a change whose version is still stored has read the members
  that are still stored; a creation at its commit has the one entry of its slug. That the
  members are the sum of the changes is a statement about cardinalities, which goes with
  the invariant.
- **`AllocationProofs`**, for every total of whole cents that is not negative and all
  coefficients that add up to the whole: the amounts add up to the total
  (`CentsAddUp`), each is the unit's share to less than a cent (`SharesToTheCent`),
  and the split is the closest by least squares and, of equally close ones, the one
  that charges the first units (`ClosestSplit`). For the last, `Threshold` finds a
  remainder that no unit charged a cent more is below and no other is above;
  measured from it, charging a unit anything else adds to its square at least a
  multiple of the difference (`UnitsGrow`), and the differences of two splits of one
  total add up to nothing. Below zero the slice of the ranking counts from its end, so
  the amounts add up only if there is nothing to bump: exactly if every share is in whole
  cents (`NegativeTotals`; `RemaindersBelowZero` and `RemaindersAddUp` say what the
  truncation towards zero leaves over). Totals are recursive functions
  over sequences of any length. The induction theorems of the library take an operator
  and cannot be used, so `Induction` states the principle of a *set* of numbers,
  derived from the theorem that `<` is well founded.
- **`QuotaProofs`**: a request carries what it allocated to the row unchanged; what it
  has not seen to overlap had not been answered when it came. With `ClosestSplit`
  a created quota holds the closest split, and with `NegativeTotals` the totals that
  meet the internal error of `QuotaNegative` are known exactly: fractions of a cent, and
  totals below zero of which some share is not in whole cents (`InternalErrorsExactly`).
- **`CalculationProofs`**: `AllocationIsTheClosest` from `ClosestSplit`. For identifiers,
  `NifFindsSlips` and `CifFindsSlips` speak of every accepted identifier and not only
  of those the run enumerates: 23 divides no `w * d` and no `9 * w * d`
  for a power of ten `w` and a difference of digits `d`; doubling maps digits to
  digits one to one, and what it adds tells all digits apart but 0 and 9, so that 09
  and 90 are the one swap a CIF misses, and it always misses it (`CifMissesASwap`). For forms,
  `SubmittedIsAccepted` speaks of any number of units and any digits: of the numbers below
  the first that the client cannot write, a rounding keeps the multiples of `LastExact`,
  the last decimal the client adds up exactly, and it takes nothing from beyond to below (`BothKeep`). So
  the two running totals stay equal until they pass the first such number, which is
  beyond 100%, and from there on both stay beyond it (`TotalsKeepTogether`). With more
  decimals they need not be equal, but every addition below the first number beyond moves
  a total by half of `LastExact` at most (`TotalsAreNear`), so neither takes for 100% what is
  further from it than that for each unit (`WhatAddsUpIsNearlyFull`).

### Assumptions on constants, and why the code justifies them

- `NoneAssumption` (each module): an absent row is no row.
- `ChoiceAssumption` (`Voting`): the mark of an absent choice is no choice.
- `StartAssumption`, `UnitsAssumption`, `ListsAssumption`, `SlugAssumption`,
  `RequestsOfTabs`, `CallsAssumption`, `QuotaInputs`, `BoundsAssumption`,
  `TimeAssumption` (`Voting`), `DigitsAssumption`: the types
  of inputs. `DigitsAssumption` also asks that the client keeps no more digits than the
  server (20 of decimal.js, 28 of `decimal`), and that `Scale`, the decimals in which
  the model measures, is at least what the client adds up exactly (17): a finer measure
  can always be taken.
- `TimesAssumption` (`Sessions`): life times are natural numbers and that of a refresh
  token is not nought. It is 30 days (`application/identity/security.py:13`); with nought, the
  access token of a login would outlive its refresh token by a whole lifetime and
  `AccessDiesWithItsToken` would be false.
- `UnitsOfMeasure` (`Allocation`): a cent and the whole are at least one tick.
- `CoefficientsAssumption` (`Quota`): the coefficients of a community are positive and
  add up to the whole, or there are none. `Community._check_units_are_valid`
  (`domain/community/community.py:81`) lets no other community be stored, and
  nothing changes a coefficient later.

### Only model-checked

- Liveness (`RequestsAreAnswered`, `RegistrationsAreAnswered`, `ClaimsAreAnswered`,
  `LogoutsTakeEffect`): it needs fairness and ENABLED, which the prover does not
  support.
- The three properties of the violation runs, which do not hold.

### What the proofs changed

`LiveCallsEndNoSession` said that, when the answer to a call ends a session, some
expired access token was the cause. With a second client that refreshes the same
token that is not true: the token sent had expired and another, just issued, had not. It now
says that such an answer changes nothing while *every* access token of the session is live.
The bounds of `MCCalculations` and the coefficients of `Quota` had no assumptions.
`AnswersAreTrue` of `Quota` now asks for the closest split, which is what is proved.
`MistypedIdentifiersAreRefused` excused 09 and 90 in a CIF; it now says that these are
accepted for each other, always. It excused a line break after an identifier, too; it
says now that each identifier may have one, and no other character. The sums of `Percentages` were folds over powers `10^n`,
of which the provers know nothing; they are recursive functions now, and its
assumption relates the digits of client and server.

## 5. Not modelled

The Argon2, JWT and SHA-256 computations, patterns of e-mail addresses, phones and
postal codes, schemas, serialisation and wording of responses (no state); reads of
one aggregate, which every writing request does too; migrations; the empty audit
log, outbox and events. The exhaustion of the connection pool and PostgreSQL's own
failures other than a lost transaction are left out too. Of the client, the
registration form and the page of a community: they submit or display without
touching the session.

Read while modelling, and not the subject of a run:

- `docs/adr/0012-frontend-stack.md:21` says that the Authorization header is
  "skipped for public `/auth/*` calls"; `frontend/src/api/client.js:9` attaches it
  to every call. The public routes ignore it.
- `frontend/src/views/CommunityCreateView.vue:33` uses decimal.js so that a total
  that displays as 100 does not fail on the server. `FormsAgreeWithTheServer` shows
  it for percentages that keep to 17 decimals, three fewer than the digits of
  decimal.js. With more, sums are rounded and the two may disagree either way, but
  only about totals within half of the 17th decimal, for each unit, of 100.
- A login answered after its user has left the form for my-units shows the units
  of the session before until the view is left: `StrangersSeeNothing` names this
  exception (`overlaid`) and excludes every other way: what stays is the units of the
  session the view was mounted with, and never those of a third.
- `src/interfaces/api/routers/owners.py:39` answers 409 when "An owner with this NIF/NIE
  already exists."; one line break after an identifier makes a second spelling of it, which
  the unique index takes for another. `MistypedIdentifiersAreRefused` shows that every identifier
  has this spelling and no other.
- An `end_date` without a zone cannot be compared with the clock
  (`src/domain/vote/vote.py:107`): a TypeError that no handler answers, so 500. It is an answer
  of `CreateEnds` in `Voting`.
- A late 401 logs out whoever uses the tab by then, and revokes their refresh token:
  `docs/adr/0012-frontend-stack.md:24` wants a logout "on any 401". `LiveCallsEndNoSession` allows
  it for calls whose token had expired, and nothing else.
- A tab without a session, or with an older one, empties localStorage when its
  password is wrong or a late 401 comes: other tabs go on with what they hold.

## 6. Plan

Done, in this order: the state machines and their runs (`Voting`; `Community` and
`UnitOwners`; `Identity` and `OwnerLinks`; `Sessions`; `CommunityGroup` and
`Membership`; `Allocation`; `Quota`; `Browser`; `VoteRegister`; `Identifiers` and
`Percentages`; the list of an owner's units), then the proofs (`VotingProofs`,
`IdentityProofs`, `CommunityProofs`, `SessionsProofs`, `CommunityGroupProofs`,
`AllocationProofs`, `QuotaProofs`, `CalculationProofs`).

Left to extend: nothing that would meet a new conflict. The tally of a result by
option and weight is a sum that a model would only write again.

Left to prove: nothing within the prover's reach that a run checks. Consequences of the abstract
specifications (`VoteRegister`, `UnitOwners`, `OwnerLinks`, `Membership`) are not
stated again: each reads off one guard of theirs, and the detailed modules already
prove the same of the program's own rows.

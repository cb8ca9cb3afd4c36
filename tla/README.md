# Family Time: a verification project

Family Time (`src/`) is a small Go server that lets a parent block apps, sites
or the whole internet for groups of devices in a UniFi home network. This
directory holds TLA+ models of its logic, the TLC configurations that check
them on small instances, and TLAPS proofs of theorems about them.

    tlc -config RaceIds.cfg MCRuleSync.tla     # model-check one instance
    tlapm RuleSyncProofs.tla                   # check the proofs of a module

Contents: 1 the system, 2 the modules and how they correspond to the code,
3 the runs, 4 bounds, 5 fairness and assumptions, 6 abstractions, 7 the proofs,
8 what the runs found, 9 what is not modelled, 10 the plan.

## 1. The system

### Components

| Component | Code | State | Operations |
|---|---|---|---|
| Rule handlers | `internal/server/rules_handlers.go` | locals of each request | `handleRuleCreate`, `handleRuleUpdate`, `handleRuleDelete`, `handlePause`, `handleUnpause`, `handlePauseDelay`, `handleRules` |
| Profile handlers | `internal/server/handlers.go` | locals of each request | `handleProfileCreate`, `handleProfileUpdate`, `handleProfileDelete`, device list |
| Enrollment | `internal/server/enroll_handlers.go` | locals of each request | `handleEnroll`: the calling phone joins a group and leaves its former one |
| Janitor | `internal/server/janitor.go` | `Server.suspects`: what looked wrong at the last pass | `RunJanitor` (ticker), `CleanupOnce` |
| Store | `internal/store/store.go` | data behind a mutex, one JSON file | `Load`, `Snapshot`, `Update`, `IsConfigured` |
| Gateway client | `internal/unifi` | HTTP client with pinned certificate | create, update, delete and list traffic rules, list and rename clients |
| Translation | `internal/rules` | none | `Translate`, `ActiveNow`, `OneTimeUntil`, `OneTimeStart`, `Expired` |
| Sessions and settings | `internal/server/auth.go`, `settings_handlers.go` | PIN hash, secret, pinned gateway; login guard | setup, login, change of PIN, gateway settings, trust of a certificate |
| Device list | `handlers.go`, `unifi/client.go` | none | `handleDevices`: groups joined with the gateway's clients, read in pages |
| Web client | `web/static/js/app.js` | copies of groups and devices, as loaded | calls the API; moves a device between groups by two saves and a roll-back |
| Start-up | `cmd/familytime/main.go` | none | flags, `.env`, starts server and janitor |

### How they interact

A rule of the family lives twice: as a record (`FamilyRule`) in the store, and
as a traffic rule on the gateway. The record holds the gateway's id of the
traffic rule (`UnifiRuleIDs`). Every handler works the same way:

1. take a **snapshot** of the store and check the request against it;
2. **call the gateway**, once or several times, each call up to ten seconds;
3. **update the store** (an atomic change of the data, then of the file).

There is no lock around the three. Go serves every request in a goroutine of
its own, so two requests, or a request and the janitor, interleave at every
call. The gateway changes by itself too: a parent deletes or makes rules in
the UniFi app. The janitor repairs what is left over: every five minutes it
lists the gateway's rules, compares them with a snapshot, deletes the spent
one-time rules, and, when it sees the same thing at two passes in a row, deletes
rules of its own prefix that nobody tracks and forgets stored rules that are
gone.

### What is hard

- **Interleaving.** Decisions are made on a snapshot that is old by the time
  they are carried out: a profile is deleted while a rule is made for it, two
  edits reach gateway and store in opposite orders, the janitor's listing is
  older than the store it compares it with.
- **Partial failure.** A retarget loop stops half-way; a save fails after the
  gateway changed; a call is carried out and its answer lost.
- **Crashes** between any two of these steps, and within a save.
- **Eventual repair** by a janitor that can fail as well.
- **Copies.** The page works on groups and devices it loaded earlier and writes
  whole groups; a page of clients is read by offset while clients come and go.
- **Credentials that change under a request.** The certificate a host presents,
  the stored PIN, the secret and the gateway may all change between the steps
  of a request that reads them; the login guard is looked at before a guess and
  changed after it.
- **Clock arithmetic.** A pause is stored as a clock time and an end, and its
  day is worked out again later, around midnight, in minutes, by three readers
  (the gateway, the screen, the janitor) that must agree.

### What makes each component correct

- *Handlers and janitor together*: ids have one owner; nothing deleted comes
  back; rules made in the UniFi app are never touched; what a request answered
  with success says is what the gateway enforces; no group is left with rules
  and no device; a device is in one group; pauses do not stack; what fails
  half-way is repaired in the end.
- *Store*: an update happens entirely or not at all, its caller is told the
  truth, and nothing told or shown is lost by a crash; a file it cannot read is
  never replaced.
- *Translation*: the window a parent asked for is the one enforced, the one
  shown and the one the janitor waits for.
- *Sessions and settings*: an accepted session belongs to somebody who knows the
  PIN; host, key and certificate in the store belong together; a change that was
  answered is not undone by one asked for before; guessing is slowed down.
- *Device list*: a connected client is listed, and once, unless others left or
  joined ahead of the reader.
- *Web client with the handlers*: a move moves; one failure strands no device;
  the gateway shows the names people gave.

`PROJECT.json` lists the hazards line by line under `hazards`.

## 2. The modules

| Module | What it is |
|---|---|
| `RuleSync` | handlers, janitor, gateway and the UniFi app, with the store as a durable register |
| `MCRuleSync` | sets of initial families and the symmetry for its instances |
| `RuleSyncProofs` | type correctness of `RuleSync`, the invariant about ids, and what follows from it |
| `RuleSyncSoloProofs` | requests that do not overlap: pauses, profiles, store and gateway |
| `RuleSyncLeftProofs` | on top of it: nothing is left behind as long as nothing fails and edits keep out of the janitor's passes |
| `RuleSyncOrphanProofs` | what the janitor's second sighting guarantees |
| `Register` | abstract: one durable value |
| `Store` | every step of loading and saving, crashes; implements `Register` |
| `StoreProofs` | the store's invariant, its properties, the refinement |
| `Schedule` | the clock arithmetic of one rule while time passes |
| `MCSchedule` | an instance of it with a short day and week |
| `ScheduleProofs` | clocks of any length, and the invariant about the stored window |
| `Access` | setup, login and its lock, PIN, gateway and certificate, sessions |
| `MCAccess` | the mixes of requests its run covers, and the symmetry |
| `AccessProofs` | the invariants about the store, the requests and the cookies, the order of changes, and the login guard |
| `Listing` | `ListClients`: pages by offset while clients come and go |
| `Devices` | the browser's pages, enrolling phones and the handlers behind them; extends `Listing` |
| `MCDevices` | the mixes of jobs its runs cover, and the symmetry |
| `DevicesProofs` | the invariants about lists, names and moves |

They meet at four seams. `RuleSync` takes every `store.Update` and every
`store.Snapshot` as one indivisible step, and a crash as something that keeps
the stored data: `Store` has all the steps inside and `IsRegister` is the proof
that seen from outside they are such steps. `RuleSync` knows of a window only
whether it has ended (`elapsed`): `Schedule` has what "ended" means, and that
it is the same for everybody concerned (`SpentIsOver`). `Devices` composes the
page with `handleProfileUpdate` and `handleEnroll`: a save is checked, stored and
pushed in steps of their own, and what happens to the gateway's rules between check
and store is `RuleSync`'s matter. `Access` shares nothing with them but the store.

### RuleSync

State. `profiles` and `rules` are the store, `gw` is the gateway, `task` holds
the local variables of each request being served, `janitor` and `suspects`
those of the janitor's pass and what it keeps between passes. `used` is the
set of ids handed out, for `store.NewID` and the gateway hand out no id twice.

One action is **one store access or one gateway call**, with the local
computation that follows it up to the next one:

| Code | Actions |
|---|---|
| snapshot and checks at the head of a handler | `RuleCreate`, `RuleUpdate`, `RuleDelete`, `ProfileUpdate`, `ProfileDelete`, `Enroll`, `Pause`, `Unpause`, `Grant` |
| `handleProfileCreate`, whose checks run inside the update | `ProfileCreate` |
| `removePauseRules`, its snapshot | `Clear` |
| one `DeleteTrafficRule` (`deleteGatewayRules`, `updateOnGateway`) | `Delete`, `DeleteError` |
| one `UpdateTrafficRule`: done, not found (then recreate), failed | `Put`, `PutError` |
| one `CreateTrafficRule` | `Create`, `CreateError` |
| `store.Update` that forgets rules (and the profile) | `Drop` |
| `store.Update` that writes rules and profiles | `Commit` |
| `persistPartialProfileUpdate`, `persistPartialEnroll` | `Partial` |
| the save fails; the compensating delete of `createFamilyRule` | `SaveError`, `Compensate` |
| `CleanupOnce`: listing, snapshot and decision, deletes, update | `JanitorList`, `JanitorPlan`, `JanitorDelete`, `JanitorDrop`, `JanitorError` |
| the UniFi app; the passing of time; a crash and restart | `AppDelete`, `AppCreate`, `Elapse`, `Crash` |

An error action has two outcomes where the code cannot tell them apart: the
call was not carried out, or it was and the answer was lost.

Ghost variables, which no guard of the program reads: `told`, the rules whose
last save was answered with an error; in a task, `cover`, the rules its answer
is about, and `old`, whether it ran at the last pass. (`old` is read by
`ShortRequests`, an assumption about time: section 5.)

Definitions introduced by "Slip" are mistakes the code does not make. They are
used by no action; put in the place of the definition after them they show
that a property is able to fail (`mutants` in `PROJECT.json`).

### Store and Register

`Store` follows `Update`: lock, copy, apply, create a temporary file, write
it, rename it over the old one, change memory, unlock. `SaveError` is a
failure of any of the file operations, with the deferred removal of the
temporary file. `Crash` is possible between any two. A value of the store is
the set of updates in it, since an update applies to whatever the last one left.
`Damage` is a person who edits the file while the server is down: `Load` then
refuses (`LoadError`), and the server does not start.

`Register` is the promise: one value, an update that takes effect at one instant
or never, callers who are told the truth or nothing. The refinement mapping is
`value <- file.holds`, `spoilt <- file.kind = "damaged"`: an update takes effect
with the rename, not when memory changes or the caller is answered.

### Schedule

State: the clock in seconds, one rule's schedule in the store and on the
gateway, and two ghosts, the window the parent asked for and the moment up to
which a parent gave time. Actions: a pause in each of its forms (without end,
for some minutes, until morning, delayed or not), a grant of more time, resume,
rules with any schedule of the form, the janitor's cleanup, and a second that
passes. `TranslateSchedule`, `ActiveNow`, `Expired`, `OneTimeUntil`,
`OneTimeStart`, `NextMorning` bear the names of the code's functions. `Enforced`
is the gateway, outside this repository, as `translate.go` uses it.

### Access

State. `gateway`, `pin`, `secret` are the store, `guard` is the login guard,
`task` the locals of each request, `cookies` what browsers hold, `presented` the
certificate each host shows just then. One action is one access to the store, to
the guard or to the gateway:

| Code | Actions |
|---|---|
| the heads of `handleSetup`, `handleLogin`, `handleSettingsPIN`, `handleSettingsGateway`, `handleTrustCert`, behind `auth` | `Setup`, `Login`, `NewPin`, `NewGateway`, `TrustCert` |
| `FetchCertFingerprint`, `Version`, `FirstSite`, with the pinned certificate | `Fetch`, `Version`, `FirstSite`, `Error` |
| the three `store.Update`s | `SaveSetup`, `SaveGateway`, `SavePin` |
| `checkPIN` on a snapshot; `guard.fail`, `guard.reset` | `CheckPin`, `CountFailure`, `Reset` |
| `issueSession`, with a snapshot of its own | `IssueSession` |
| logout and expiry; time; new certificates; a restart, which loses the guard | `Discard`, `Tick`, `Firmware`, `Restart` |

Ghosts: changes are numbered as they are asked for; `answered` and `old` say
which were answered with success and which a later one has replaced, a stored
gateway says which change chose its host (`of`) and which pinned its certificate
(`by`), and `crossed` marks a request, and the session or gateway that comes of
it, that another change overtook. `vouched` has what validations succeeded
with, `failed` the times of failed logins in a row.

### Listing and Devices

`Listing` is the loop of `ListClients`: one `Page` per call, with any number of
entries up to the limit, while `Leave` and `Join` move the others along the list.
It counts, per reader, who left or joined ahead of the offset.

`Devices` adds the store's groups with the names of their devices, the gateway's
aliases, the page's copies, jobs, and the saves the server is serving for each job
(`request`). A job is a click or an enrolling phone; a request may outlive it:

| Code | Actions |
|---|---|
| `reassignDevice`: remove, add, put back, refresh | `Move`, a save for each PUT, then the loads |
| the group editor and `saveGroup` | `Save`, a save, then the loads |
| `goGroups`, `loadCore`, `loadDevices` | `Open`, `LoadProfiles`, `LoadDevices`, `ShowDevices`, `LoadFails` |
| `handleEnroll` up to its save | `Enroll`, the pages, then `EnrollUnknown`, `EnrollRefused` or `EnrollChecked` |
| `handleProfileUpdate`, its snapshot and checks | `PutChecked`, `PutRefused` |
| the update of the store, of both handlers | `Saved`, `SaveFails` |
| one `RenameClient`; the answer | `Push`; `Answered` |
| the browser or the phone stops waiting | `GivesUp` |
| a turn of the loop of `ListClients`; clients that come and go; a rename in the UniFi app | `ReadPage`, `Churn`, `AppRename` |

A request keeps what its snapshot told it: the groups it will write (`writes`) and the
names it will push (`names`). `SaveFails` has two outcomes: nothing was stored, or the
gateway failed on a rule and the intent was stored without names pushed. A request that
is given up (`GivesUp`) never arrives, arrives later (`"sent"`), or goes on in the server
to its end, with or without its pushes; so a save may be stored while the one that
undoes it is served.

Ghosts: `alone`, the page was up to date and each device in one group (`Parted`) when the
job began, and no other job has changed a group since; `done`, which saves were answered
with success, and `"late"` if the server had yet to store one when it was given up;
`given`, the devices a request gives a name; `owed`, those whose stored name the gateway
should have.

## 3. The runs

| Run | Shows | States, time |
|---|---|---|
| `RaceIds` | two handlers create, edit, delete, retarget, unpause and delete the group, while rules vanish in the UniFi app: no two rules share a gateway id, nothing deleted comes back | 153 000, 13 s |
| `RaceJanitor` | two handlers, the janitor, one fault, rules made and deleted in the app: types; a rule deleted as an orphan belongs to nobody; foreign rules are untouched | 476 000, 37 s |
| `OneAtATime` | all ten requests and a crash, one after the other, with one fault, beside the janitor: pauses do not stack, a device has one group, rules have a group and the group a device, nothing is left behind, gateway and store agree | 2 500 000, 82 s |
| `Eventually` | one handler, the janitor, two faults or crashes: orphans, vanished rules and spent windows go | 99 000, 32 s |
| `Store` | three updates, readers, failures, crashes, damage: nothing told or shown is lost, a failed update leaves nothing, no reset; the store implements the register | 6 600, 1 s |
| `Schedule` | every pause, grant and schedule at every second of three short days: window, screen, gateway and janitor agree | 182 000, 36 s |
| `Access` | two requests at a time, in four mixes (first setup, PIN, gateway, guessing): sessions, pinning, order of changes, spacing of guesses | 645 000, 20 s |
| `Devices` | one or two jobs, in six mixes, with up to two failures: moves, edits, enrollments, saves that end late, names, pages | 986 000, 86 s |
| `PauseTwice`, `EditTwice`, `ForgetRecreated`, `MoveFails` | a statement of a comment in the code, and a behaviour that refutes it (section 8) | 1-2 s each |

The properties, each stated in its module where it is defined:

- `OneRulePerGatewayId`, `NoResurrection`, `ForeignUntouched` hold whatever is
  interleaved and whatever fails.
- `OrphanOnly` holds of requests that do not recreate a rule in two overlapping
  edits; `RaceJanitor` therefore leaves `RuleUpdate` out, and section 8 says why.
- `OnePause`, `OneProfilePerDevice`, `RulesHaveProfile`, `RulesHaveDevices`,
  `InSync`, `NothingLeftBehind` are what the snapshot checks achieve when
  requests do not overlap. None of them holds when they do: `PauseTwice` and
  `EditTwice` show two, and section 8 describes the others. `NothingLeftBehind` also
  needs that no edit or move of rules falls into a pass of the janitor (`PassesApart`):
  `ForgetRecreated` is a behaviour with one request and no fault in which one does.
- `PinnedTogether`, `ValidMeansKnown`, `AnswersHold` hold for any requests at any
  time. The two exceptions they name (`crossed`) are real: a
  session signed with the secret of a later snapshot, and a host that
  re-trusting a certificate writes back.
- `AttemptsAreSpaced`: as many guesses can pass the look at the guard together as
  there are requests at a time, and no more than that fail within one lock.
- `ListedOnce` bounds what paging can miss or repeat by what left or joined.
- `MoveDoesWhatItSays`, `OneFaultNeverStrands`: a move from a page that is up to
  date, with each device in one group, that nothing crosses, without and with one
  failure. After one failure the device is in the old or the new group; it can be in
  both, and is so only if the server had yet to store a save the browser gave up.
- `NamesAgree`: names given by edits and enrollments, whatever overlaps, but for names
  stored while another request had yet to push another name for the device. Those
  pushes cross, and section 8 says what comes of it.
- `OrphansGo`, `VanishedGo`, `SpentGo` are liveness: the janitor's repairs.
- All of these but the three of liveness are proved too, for every value of the
  constants, under the hypotheses section 7 names.
- Every property has a mutant: one mapped definition replaced by a plausible
  mistake, under which TLC finds the property violated by the same run.

Every action, and every disjunct of each, is taken in some passing run.

## 4. Bounds

| Constant | Value | Why it is enough |
|---|---|---|
| `Handlers` | 2 in the races, 1 otherwise | an anomaly of snapshots needs one stale and one recent request; the theorems are for any number |
| `ProfileIds` | 1, 2 for groups | devices move between two groups |
| `RuleIds` | 1 or 2 | two rules to share an id, or two pauses to stack |
| `GwIds` | 2 or 3 | the first id, a recreated one, and one more made in the app or recreated twice. A gateway out of ids refuses a create (`CreateError`): this is the bound on ids, and it adds no behaviour an error does not have |
| `Bodies`, `Timed` | one lasting content, one one-time window | the properties tell apart only whether a window ends |
| `MaxFaults` | 0 to 2 | failed calls, failed saves, lost answers and crashes, counted together |
| `Kinds` | by run | which requests and events of the world an instance has |
| `Updates` | 3 | one before, one during and one after a crash |
| `Second`, `Day`, `Week` | 4, 8, 3 | a moment at the minute and three within it; a window before, over and after midnight; a week with a turn |
| `Morning`, `Delays`, `Durations` | 2; 1, 3; 2, 4 | mornings the same day and the next, grants shorter and longer than the pause |
| `Horizon` | 96 | three days; the clock starts anywhere in them |

In the races families start with one device in each group (`OneEach`);
`OneAtATime` also starts with one group still to be created (`Growing`). Its
constraint `Passes` keeps edits and moves of rules out of the janitor's passes, and lets
no pass begin after the fault. It has no `Elapse`, which only makes it longer: the janitor
removes spent rules in `Eventually`, and the theorems of section 7 have time pass too.

`Access`: two requests at a time, two hosts, certificates and PINs, one key (what is
proved holds for any number). `Tries` 2, `Unit` 1, `Doublings` 2 and `Cap` 3 give a
first, a doubled and a capped lock within `MaxFails` 5 failures and a `Horizon` of
6 units; the code has 5 tries, 30 seconds, 5 doublings and 15 minutes. A mix bounds
the changes asked for: three, so that a third can meet two that crossed.

`Devices`: two devices and two groups (a device that moves and one that stays or
moves the other way, a group it leaves and one it joins), one name that is not an
address, pages of at most two entries, any starting order of the list and any
starting place of each device, with or without rules. Each mix bounds the jobs
(`MaxJobs`) and failures (`MaxFaults`): one move with two failures takes the
roll-back and its failure, two moves with one failure cross each other.

## 5. Fairness and assumptions

`FairSpec` is used by `Eventually` only. It has

- weak fairness of each handler's `Succeed(h) \/ Err(h)`: every gateway call
  ends within the ten seconds of the client's timeout (`client.go`), with an
  answer or an error, and store updates do no waiting;
- weak fairness of `JanitorStep`: `RunJanitor` starts a pass at every tick of
  five minutes, and a pass makes calls that end.

No fairness is assumed of the world (the app, time) nor of new requests.
Faults are finite (`MaxFaults`), so that from some moment on calls succeed: a
gateway that never answers again can be repaired by nobody.

`ShortRequests`: a request that runs at the moment one pass takes its snapshot
has been answered when the next pass begins. Passes are five minutes apart and
a call takes ten seconds at most, so this holds of every request with fewer
than some thirty calls, and as long as a pass ends before the next tick. A
profile with dozens of rules behind a gateway that answers at the last moment
would break it. The code relies on it silently with "second consecutive
sighting"; `OrphanOnly` and the liveness properties rest on it, and of the
theorems only `OrphansAreOrphans` and `OrphansWithoutEdits`.

## 6. Abstractions

- Lists of rules and ids are sets: where the code runs down a list the model
  takes the members in any order, which includes the code's.
- `UnifiRuleIDs` is one id. `createFamilyRule` stores one and every update keeps
  or replaces one; `TypeCorrect` shows that a stored rule always has it. The
  branch of `updateOnGateway` for other lengths is therefore not reachable.
- Content of rules (domains, apps, schedules) is a member of `Bodies`.
  Validation that depends on the content alone is left out.
- The pushes of device names are in `Devices`, not in `RuleSync`: their results
  change nothing there.
- In `Devices` the calls about rules between the check of a save and its update are
  one step with the update; a client's alias is read when the listing ends; one push
  is one call, of the two `RenameClient` makes.
- The gateway answers a create that it carries out with the rule it made. With an
  empty body `CreateTrafficRule` would return no error and no id (`client.go:150`), and
  an empty id would be stored. No such answer is modelled.
- In `Access` the clock is read and the guard changed in one step, since moments
  within one unit are one; the site of a gateway is a function of its host, and
  the key from the environment one of `Keys`. PINs and hosts of a bad form are
  refused at the head, by their form alone, and left out. A cookie's thirty days
  and a logout are one action, `Discard`.
- A plain-HTTP gateway has no certificate to pin; only tests use one.
- One time zone and no change of the clock in `Schedule`; the lists of weekdays
  are sets, as the form sends them.
- A loss of power is left out of `Store`: `save` does not sync the file, so what
  the disk holds then depends on the file system.

## 7. The proofs

Every invariant and every action property that a passing run checks is also a
theorem, and so is the refinement. The theorems hold for every value of the
constants that satisfies the named `ASSUME`s of the module, which TLC evaluates in
every run: kinds of objects are distinct (`NoneAssumption`, `IdsAssumption`,
`OwnersAssumption`, `TargetsAssumption`), the loaded families are ones validation
accepts (`LoadedAssumption`), bounds are numbers. Hypotheses beyond those are in
the statement of a theorem and named below.

**Types and ids** (`RuleSyncProofs`). `TypeCorrect` is `Spec => []TypeOK`. `TypeOK`
says that a stored rule has a gateway id. That is not inductive: what a commit
writes has an id only because of where its request has been. `Shape` adds it, for
each place of a request.

`IdsAreUnique`, `ForeignRulesAreSafe`, `GoneStaysGone`: the danger is that ids are
kept in local variables while the world changes. The invariant `IdInv` follows an
id through all of them. `Claim(f, u)` says somebody (the store or a request) takes
`u` for the gateway id of rule `f`; `Owned(u)` adds the ids somebody is about to
delete and those the janitor has listed.

- `ClaimsOK`: an id is claimed for one rule only;
- `OwnedOK`: an owned id has been handed out and is not a foreign rule's.

Each step is shown to be `Tame`: it gives an id to no new rule unless the id is
being created in that step, and changes the gateway at an id only if it owns it.
`TameKeeps` then gives the invariant in one place for all steps. Uniqueness is
`ClaimsOK` read off the store. Foreign rules are safe because a handler changes
only what it owns. `GoneStaysGone` needs only types: a commit that is not a
creation writes only where something is stored.

**Requests one at a time** (`RuleSyncSoloProofs`). `PausesDoNotStack`,
`DevicesHaveOneProfile`, `RulesKeepProfile`, `RulesKeepDevices` and
`GatewayFollowsStore` have the hypothesis `OneByOne`: a request begins when no other
is running. The janitor, the app, time, failures and crashes may come between its
steps. `OneHandlerIsOneByOne` shows that every behaviour with one handler is such,
which is the instance of the run; `PauseTwice` and `EditTwice` refute two of the five
without the hypothesis. The invariant `SoloInv` says, at each place of a request,
what the store will be when it commits (`ProfilesOK`: no device in two profiles, no
profile with rules without one), that what it remembers of a rule is what is stored
(`ItemOK`), that each rule it is about is still to be rewritten or enforced as it
will be stored (`RewritesOK`), and that it creates only what its snapshot still
allows (`CreatesOK`). `RestInSync` is the same for the rules no request is at.

**Nothing left behind** (`RuleSyncLeftProofs`). `NothingStays` is about a home with its
janitor, and has one more hypothesis: `[]PassesApart`, no edit or move of rules runs
during a pass. (That nothing has failed is in the property.) Without it the statement is
false, because the janitor may drop the record of a rule that an edit has just
recreated: `ForgetRecreated`. `LeftOK` says that a traffic rule of this program is
recorded or remembered by the request that made it, and that what a request is about to
drop, or to record under a new id, is gone from the gateway. `PassOK` says the same of
the janitor: of a rule missed once and enforced again the pass has seen the traffic rule
in its listing, and one it will drop has none left, or one it deletes first; and a rule
still being created is none of these. `OneAtATime` checks the property with the janitor
under `Passes`.

**The second sighting** (`RuleSyncOrphanProofs`). `OrphansAreOrphans`: what the
janitor deletes as an orphan belongs to nobody, whatever interleaves, under
`[]EditsApart`: no edit of a rule overlaps another request that rewrites the same
rule. `OrphansWithoutEdits` needs no hypothesis but that rules are not edited, which
is the instance `RaceJanitor` checks. `OrphanInv` says that a request that has made a
suspect was running when it became one (`SuspectsOK`), and that when the next pass
has its listing no such request is left (`PassOK`, from `ShortRequests`). This is
where the five minutes between passes enter.

**Store** (`StoreProofs`): `StoreInv` says who holds the lock and where an
update is (`LockOK`), how memory, working copy and file are related at each
place (`MemoryOK`), whether an update is in the file (`FileOK`) and what was told
(`TellOK`). From it follow `StoreTypeOK`, `StoreKeeps`, `StoreForgets`,
`StoreNeverResets` and `StoreRefines`: `Rename` maps to `Take`, `Swap` to
`Acknowledge`, `SaveError` and `Reject` to `Refuse`, `Snapshot` to `Look`,
`Damage` to `Spoil`, everything else to a stutter.

**Schedule** (`ScheduleProofs`): for any length of a minute, a day and a week, so
also for 60, 1440 and 7. A first part is about clocks: a moment is its minute and
its seconds, a minute its day and its clock time, and moments are compared by them.
`ScheduleInv` says that the gateway has the translation of what is stored and that a
pause is the window it was asked for, shorter than a day, and begins after the time
that was given. `WindowsOpenAsAsked` is the heart: a window stored as a clock time and
an end is read back with the day it was asked for, because less than a day lies
between. The others compare its readers: `ScreenShowsGateway` and `ScreenShowsEnd` (the
screen with the gateway, which for recurring windows goes through the ones that open
today and opened yesterday), `SpentEnforcesNothing` (the janitor), `GrantsAreHonoured`
and `PausesAreKept` (a grant).

**Access** (`AccessProofs`): `AccessInv` has the types, what each request holds at
each of its places (`Locals`), that a request about to save a gateway was vouched
for (`SaveVouched`), that one about to sign a session knows the PIN or was crossed
(`SignerKnows`), that cookies are signed with the stored secret or an older one
(`CookiesOK`), and that protected requests run only once there is a gateway.
`PinnedTogether` alone is not inductive: the three are written from locals that
three calls filled, while the certificate changes. `GatewayIsVouched` and
`SessionsAreKnown` are read off it.

*Order of changes*: `Replaced(i, p)` says that change `i` of part `p` is not to
return: it was answered, and a later one is stored or was answered. `ChangeInv` says
that such changes were answered (`Numbered`), and that neither the stored PIN and
gateway nor a gateway about to be trusted anew is such a one (`Holding`). Most steps
are shown to follow (`FollowChange`): they leave every request's change as it was or
end it. `AnswersAreKept` is `AnswersHold`.

*The login guard*: `GuessesAreSpaced`, for any finite set of requests at a time.
`GuardInv` says that the guard is what the failures in a row make it, and `Spaced`
that while the lock of a failure lasts, those that failed since and those that have
passed the guard and may still fail are fewer than the slots: whoever failed had a
slot, and nobody passes while it lasts. `PowersAssumption` says of the powers of two
that they are numbers and grow, which the provers do not know.

**Listing and Devices** (`DevicesProofs`), for any finite sets of devices and groups,
any limit, and any number of jobs and failures. `DevicesAreTyped`: types.

- `ListsMissAndRepeatNoMore`: `ListInv` counts, for a reader, the clients ahead of its
  offset that it has not listed (`Skipped`) and those behind it that it will list again
  (`Due`). A client that leaves or joins ahead of the offset pushes at most one client
  over it; a page changes neither count but by turning what is due into a repetition.
- `GivenNamesReachTheGateway` follows the names through the requests: `NameInv` says that
  a request writes every name it will push and pushes every one it gives (`RequestOK`),
  and that an owed device has one name, that every push still to come for it is of this
  name, and that the gateway has it or such a push is to come (`OwingOK`). A name stored
  while another one is still to be pushed is not owed (`Crossed`); whoever stores another
  name, or renames in the app, releases the debt.
- `UndisturbedMovesMove`, `OneFailureStrandsNobody`: `MoveInv` says what groups and requests
  are at each place of a move nobody disturbed, with its request not arrived, checked or
  stored: at the first save (`Removing`: the page's copies are true), at the second
  (`Adding`: the device is in no group until it is stored), at the roll-back (`Returning`:
  one thing has failed, and the device is not in its old group until it is put back) and
  after the last answer (`Over`). Beside the last two an add that was given up may be in
  the server (`Straggling`): until it is stored the new group is what it was.

Two attempts failed for a good reason and changed a ghost:

- `PausesAreKept`: a grant was compared with the moment the pause was asked for, but
  the stored window begins at that moment's minute. With two seconds to a minute the
  difference does not show; `Schedule` now has four.
- `UndisturbedMovesMove`: a move from an up-to-date page is refused when the device is
  in two groups, which a move and an enrollment that crossed *earlier* can bring about.
  That takes a third job, one more than the run has. `alone` now says that each device
  was in one group when the move began; section 8 lists the behaviour.

Only model-checked are the three liveness properties of `Eventually`: liveness under
fairness is beyond this prover, as is `ENABLED`. `ForgetsOnlyVanished` and
`FirstFailureChangesNothing` have no theorem: runs refute them.

## 8. What the runs found

Four runs refute a statement of a comment in the code; `PROJECT.json` quotes the
comments.

| Run | What happens |
|---|---|
| `PauseTwice` | both requests find no pause to replace, both create one: "tapping Pause twice must not stack rules" |
| `EditTwice` | two edits of a profile's devices reach gateway and store in opposite orders: both report success, the gateway blocks other devices than the store shows |
| `ForgetRecreated` | an edit recreates a vanished rule after the janitor's listing, the janitor forgets it: it enforces, unknown, until two later passes delete it |
| `MoveFails` | the first save of a move fails on a rule; the server stores the new membership all the same, the page takes it that "nothing changed on the backend" and stops: the device is in no group |

The first three need two requests, or a request and a pass, within seconds; the
last needs one failed call.

Other behaviours of the models, which no run of their own shows:

- a rule created while its profile is deleted is stored after it and keeps
  enforcing (`RulesHaveProfile` with two handlers);
- the last device leaves a group while a first rule is created for it, which then
  has no device (`RulesHaveDevices` with two handlers);
- two edits of a vanished rule recreate it twice, and the id that was untracked
  for two passes is tracked again when the janitor deletes it (`OrphanOnly` with
  `RuleUpdate`, two handlers and three ids, twenty steps): a third edit records the
  id again between the janitor's decision and its call, so "an in-flight rule write
  can never be mistaken for an orphan" (`server.go:47`) asks for edits that do not
  overlap; without the janitor one of the two recreated rules is left over;
- two overlapping edits of groups each find a device free in their own snapshot; so
  do a move and an enrollment, after which every move of that device is refused,
  from an up-to-date page as well, until it is taken out of one of the groups;
- a pause until morning asked in the very minute of the morning is refused after
  the old pause is gone; a one-time rule made to last by an edit after the
  janitor's snapshot is deleted by that pass; the gateway ends a one-time window
  at the beginning of the minute the screen shows as its last;
- two setups that overlap are both answered with success, and the PIN is the one
  saved last; a login whose PIN was checked before a change of PIN gets a session
  signed with the new secret; re-trusting a certificate writes back the host and
  key of the gateway it began with;
- a save from a page loaded before an enrollment puts the phone out of its group
  again; two moves at once may strand a device by the roll-back of one;
- when a second save fails half-way (stored and answered with an error) the
  roll-back is refused by the guard against two groups, and the message that the
  device "is currently unassigned" is wrong: it is in its new group;
- when the browser gives up the second save while the server is serving it, the
  roll-back may be checked before that save is stored: both are stored, and the device
  is in two groups after one failure (in order: the first save answered, the
  second checked, `GivesUp`, the roll-back checked, the second stored, the roll-back
  stored);
- pushes of names cross without any failure: an edit stores one name, an enrollment
  stores and pushes another, then the edit pushes its own, and the gateway keeps a name
  the store does not have;
- a device that is added to a group and renamed in the same edit is not pushed to
  the gateway, as only members of before count.

## 9. Not modelled

- *Start-up, flags, `.env`, releases, scripts, the landing page*: no state after
  the start.
- *The rest of the web client*: rendering, search, navigation, and forms that
  send one request each (rules, pauses, settings), whose requests are modelled.
- *`handleState`, `handleTestConnection`, `handleSettingsGet`, `handleEnrollWhoami`,
  the lists of rules and presets*: they read and change nothing.
- *Domain syntax, presets, wording, hashing*: data.
- *A change of gateway during a rule request*: every call takes the stored gateway
  anew (`api()`), so one request may speak to two gateways. `RuleSync` has one.

## 10. Plan

Done, in order: `RuleSync` and its races; `Register`, `Store` and their refinement;
`Schedule`; `Access`; `Listing` and `Devices`; then the theorems, until every
invariant and action property of the passing runs had one.

Next:

1. An abstract specification of a home's groups (a device joins, leaves or moves in
   one step) that `Devices` implements as long as jobs do not cross.
2. Shorter proofs where steps repeat: the handlers' heads in `RuleSyncSoloProofs`, the
   saves in `DevicesProofs`.

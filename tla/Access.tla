------------------------------- MODULE Access -------------------------------
(***************************************************************************)
(* Who may use Family Time, and which gateway it talks to                   *)
(* (internal/server/auth.go, settings_handlers.go): setup, login and its    *)
(* lock, the change of PIN, the change of gateway and the trust of a new    *)
(* certificate, with the sessions they give out.                            *)
(*                                                                         *)
(* As everywhere in the server nothing is locked across a request: one      *)
(* action is one access to the store, to the login guard or to the gateway. *)
(* A time is a number of units, Unit of them being the first lock.          *)
(***************************************************************************)
EXTENDS Integers, Sequences, FiniteSets

CONSTANTS
  Handlers,   \* slots for requests that are being served at the same time
  Hosts, Keys, Certs, Pins,
  Tries,      \* failed logins before the first lock (5)
  Unit, Doublings, Cap,   \* the lock: first (30 s), how often doubled (5), longest (15 min)
  Horizon,    \* bound on the clock
  MaxFails,   \* bound on failed logins in a row
  Mixes,      \* instances: which requests, how many changes, from which store
  None

Kinds == {"Setup", "Login", "NewPin", "NewGateway", "TrustCert", "Tick",
          "Firmware", "Restart"}

\* A stored gateway.  Ghosts: the request that chose its host and key (of), the
\* one that pinned its certificate (by), and whether another choice of gateway
\* was stored while that request ran (crossed).
Gateway == [host : Hosts, key : Keys, cert : Certs, of : Nat, by : Nat, crossed : BOOLEAN]
Secrets == Nat
\* A session cookie: the secret it is signed with.  Ghosts: the PIN its holder
\* gave, and whether the PIN was changed after that and before the cookie was
\* signed.
Cookie == [secret : Secrets, pin : Pins, crossed : BOOLEAN]

ASSUME NumbersAssumption ==
  /\ Tries \in Nat \ {0} /\ Unit \in Nat /\ Doublings \in Nat /\ Cap \in Nat
  /\ Horizon \in Nat /\ MaxFails \in Nat
\* What the provers are not told of powers: those a lock is made of are numbers,
\* and grow.
ASSUME PowersAssumption ==
  \A a, b \in 0 .. Doublings : 2 ^ a \in Nat /\ (a <= b => 2 ^ a <= 2 ^ b)
ASSUME NoneAssumption == None \notin Pins /\ None \notin Gateway
ASSUME MixesAssumption ==
  Mixes \subseteq [kinds : SUBSET Kinds, changes : Nat, configured : BOOLEAN]

VARIABLES
  gateway,    \* store: Data.Gateway, or None
  pin,        \* store: the PIN that Data.Auth.PINHash is of, or None
  secret,     \* store: Data.Auth.SessionSecret; 0 for none, a new one is the next number
  guard,      \* Server.guard
  clock,
  task,       \* handler slot -> the request it is serving
  cookies,    \* the sessions in the browsers of the home
  presented,  \* host -> the certificate it presents
  mix,        \* which instance of Mixes this is; never changes
  asked,      \* changes asked for so far
  chosen,     \* the change the stored PIN comes from (ghost)
  vouched,    \* host, key and certificate a validation succeeded with (ghost)
  failed,     \* times of the last failed logins in a row (ghost)
  answered,   \* what was changed -> the changes answered with success (ghost)
  old         \* what was changed -> the changes a later one has replaced (ghost)

store == <<gateway, pin, secret, chosen>>
ghosts == <<vouched, answered, old>>
world == <<presented, cookies, mix>>
vars == <<store, guard, clock, task, world, asked, failed, ghosts>>

-----------------------------------------------------------------------------
(* Requests.                                                               *)

\* What each request changes when it succeeds: the PIN, which host, which
\* certificate.
Parts == {"pin", "host", "cert"}
Changes(kind) ==
  CASE kind = "Setup" -> Parts
    [] kind = "NewPin" -> {"pin"}
    [] kind = "NewGateway" -> {"host", "cert"}
    [] kind = "TrustCert" -> {"cert"}
    [] OTHER -> {}

Places == {"idle", "fetch", "version", "site", "save", "check", "fail", "reset", "issue"}

\* The locals of a request: the PIN given and the one wanted, the gateway to
\* validate and the certificate fetched from it.  Ghosts: its number, the
\* changes answered before it was asked (after), and what has crossed it.
Idle == [kind |-> "none", pc |-> "idle", given |-> None, wanted |-> None,
         host |-> None, key |-> None, cert |-> None, of |-> 0, id |-> 0,
         after |-> [p \in Parts |-> {}], crossed |-> FALSE]

\* A handler starts on a request that may change something.
Change(h, kind, pc, locals) ==
  /\ kind \in mix.kinds
  /\ task[h].pc = "idle"
  /\ asked < mix.changes
  /\ asked' = asked + 1
  /\ task' = [task EXCEPT ![h] = [locals EXCEPT !.kind = kind, !.pc = pc,
                                  !.id = asked + 1, !.after = answered]]

At(h, pc)     == task[h].pc = pc
Goto(h, pc)   == task' = [task EXCEPT ![h].pc = pc]
Finish(h)     == task' = [task EXCEPT ![h] = Idle]

IsConfigured == gateway # None /\ pin # None

\* Slip: a session outlives the secret it was signed with.
AnySession(c) == c.secret > 0
\* validSession: signed with the stored secret.  Its expiry is Discard.
ValidSession(c) == c.secret = secret /\ secret > 0
Authorized == \E c \in cookies : ValidSession(c)

\* The answer of a change: nothing answered before it was asked is in force.
Answered(h) ==
  LET t == task[h]
  IN  /\ answered' = [p \in Parts |->
                        answered[p] \union {i \in {t.id} : p \in Changes(t.kind)}]
      /\ old' = [p \in Parts |->
                   old[p] \union {i \in t.after[p] : p \in Changes(t.kind)}]

-----------------------------------------------------------------------------
(* The heads of the handlers.                                               *)

\* Both checks of handleSetup on what is typed concern its form alone.
Setup(h) ==
  /\ ~IsConfigured
  /\ \E host \in Hosts, key \in Keys, p \in Pins :
       Change(h, "Setup", "fetch",
         [Idle EXCEPT !.host = host, !.key = key, !.given = p, !.wanted = p])
  /\ UNCHANGED <<store, guard, clock, world, failed, ghosts>>

\* Slip: the lock is lifted a unit too early.
AllowedEarly  == clock + 1 >= guard.until
Allowed == clock >= guard.until

Login(h) ==
  /\ "Login" \in mix.kinds
  /\ At(h, "idle")
  /\ IsConfigured
  /\ Allowed
  /\ \E p \in Pins :
       task' = [task EXCEPT ![h] = [Idle EXCEPT !.kind = "Login", !.pc = "check", !.given = p]]
  /\ UNCHANGED <<store, guard, clock, world, asked, failed, ghosts>>

NewPin(h) ==
  /\ Authorized
  /\ \E p, q \in Pins :
       Change(h, "NewPin", "check", [Idle EXCEPT !.given = p, !.wanted = q])
  /\ UNCHANGED <<store, guard, clock, world, failed, ghosts>>

NewGateway(h) ==
  /\ Authorized
  /\ \E host \in Hosts, key \in Keys :
       Change(h, "NewGateway", "fetch", [Idle EXCEPT !.host = host, !.key = key])
  /\ UNCHANGED <<store, guard, clock, world, failed, ghosts>>

\* handleTrustCert validates the host and key of a snapshot.
TrustCert(h) ==
  /\ Authorized
  /\ Change(h, "TrustCert", "fetch",
       [Idle EXCEPT !.host = gateway.host, !.key = gateway.key, !.of = gateway.of,
                    !.crossed = gateway.crossed])
  /\ UNCHANGED <<store, guard, clock, world, failed, ghosts>>

-----------------------------------------------------------------------------
(* Validating a gateway: its certificate, then two calls to it.             *)

\* FetchCertFingerprint takes whatever certificate the host presents.
Fetch(h) ==
  /\ At(h, "fetch")
  /\ task' = [task EXCEPT ![h].cert = presented[task[h].host], ![h].pc = "version"]
  /\ UNCHANGED <<store, guard, clock, world, asked, failed, ghosts>>

\* Slip: a client built without the fingerprint.
Unpinned(h) == TRUE
\* pinnedTLSConfig: the host presents the certificate the client was built with.
Pinned(h) == presented[task[h].host] = task[h].cert

Version(h) ==
  /\ At(h, "version")
  /\ Pinned(h)
  /\ Goto(h, "site")
  /\ UNCHANGED <<store, guard, clock, world, asked, failed, ghosts>>

FirstSite(h) ==
  /\ At(h, "site")
  /\ Pinned(h)
  /\ Goto(h, "save")
  /\ vouched' = vouched \union {<<task[h].host, task[h].key, presented[task[h].host]>>}
  /\ UNCHANGED <<store, guard, clock, world, asked, failed, answered, old>>

\* A call, or the save, fails: the request changes nothing.
Error(h) ==
  /\ task[h].pc \in {"fetch", "version", "site", "save"}
  /\ Finish(h)
  /\ UNCHANGED <<store, guard, clock, world, asked, failed, ghosts>>

-----------------------------------------------------------------------------
(* The updates of the store.                                                *)

\* Others the PIN is changed under after they gave it, and others the gateway
\* is changed under while they validate the one they read.
CrossedBy(h, parts) ==
  {g \in Handlers \ {h} :
     \/ "pin" \in parts /\ task[g].pc \in {"reset", "issue"}
     \/ "host" \in parts /\ task[g].kind = "TrustCert"}
Stored(h, parts, next) ==
  task' = [g \in Handlers |->
             IF g = h THEN next
             ELSE [task[g] EXCEPT !.crossed = @ \/ g \in CrossedBy(h, parts)]]

NewSetting(t) ==
  [host |-> t.host, key |-> t.key, cert |-> t.cert, by |-> t.id, crossed |-> t.crossed,
   of |-> IF t.kind = "TrustCert" THEN t.of ELSE t.id]

\* Slip: the certificate alone is written, to whatever gateway is stored.
CertOnly(t) ==
  IF t.kind = "TrustCert" /\ gateway # None
  THEN [gateway EXCEPT !.cert = t.cert, !.by = t.id] ELSE NewSetting(t)
\* Slips: the fingerprint is not written; a host that has one keeps it.
Fingerprintless(t) == [NewSetting(t) EXCEPT !.cert = None]
KeepPinned(t) ==
  IF gateway # None /\ gateway.host = t.host
  THEN [NewSetting(t) EXCEPT !.cert = gateway.cert, !.by = gateway.by] ELSE NewSetting(t)
\* validateAndStoreGateway and handleSetup write all of it.
Setting(t) == NewSetting(t)

\* Slip: the sessions stay.
SameSecret == IF secret = 0 THEN 1 ELSE secret
NewSecret == secret + 1

SaveSetup(h) ==
  /\ At(h, "save") /\ task[h].kind = "Setup"
  /\ gateway' = Setting(task[h])
  /\ pin' = task[h].wanted
  /\ chosen' = task[h].id
  /\ secret' = NewSecret
  /\ Stored(h, Parts, [task[h] EXCEPT !.pc = "issue"])
  /\ UNCHANGED <<guard, clock, world, asked, failed, ghosts>>

\* The answer follows the update at once.
SaveGateway(h) ==
  /\ At(h, "save") /\ task[h].kind \in {"NewGateway", "TrustCert"}
  /\ gateway' = Setting(task[h])
  /\ Stored(h, Changes(task[h].kind), Idle)
  /\ Answered(h)
  /\ UNCHANGED <<pin, secret, chosen, guard, clock, world, asked, failed, vouched>>

SavePin(h) ==
  /\ At(h, "save") /\ task[h].kind = "NewPin"
  /\ pin' = task[h].wanted
  /\ chosen' = task[h].id
  /\ secret' = NewSecret
  /\ Stored(h, {"pin"}, [task[h] EXCEPT !.pc = "reset", !.given = task[h].wanted])
  /\ UNCHANGED <<gateway, guard, clock, world, asked, failed, ghosts>>

-----------------------------------------------------------------------------
(* PINs and sessions.                                                       *)

\* checkPIN on a snapshot.  A wrong current PIN in Settings is not counted.
CheckPin(h) ==
  /\ At(h, "check")
  /\ LET t == task[h]
     IN  \/ t.given = pin /\ t.kind = "Login" /\ Goto(h, "reset")
         \/ t.given = pin /\ t.kind = "NewPin" /\ Goto(h, "save")
         \/ t.given # pin /\ t.kind = "Login" /\ Goto(h, "fail")
         \/ t.given # pin /\ t.kind = "NewPin" /\ Finish(h)
  /\ UNCHANGED <<store, guard, clock, world, asked, failed, ghosts>>

Least(a, b) == IF a < b THEN a ELSE b

LockFor(fails) == Least(Unit * 2 ^ Least(fails - Tries, Doublings), Cap)

\* Slip: only the fifth failure locks.
OnlyThe(fails) == fails = Tries
Locks(fails) == fails >= Tries

\* guard.fail: the clock is read and the guard changed in one step, as moments
\* within a unit are one.
CountFailure(h) ==
  LET fails == guard.fails + 1
  IN  /\ At(h, "fail")
      /\ fails <= MaxFails
      /\ guard' = [fails |-> fails,
                   until |-> IF Locks(fails) THEN clock + LockFor(fails) ELSE guard.until]
      /\ failed' = Append(failed, clock)
      /\ Finish(h)
      /\ UNCHANGED <<store, clock, world, asked, ghosts>>

NoFailures == [fails |-> 0, until |-> 0]

Reset(h) ==
  /\ At(h, "reset")
  /\ guard' = NoFailures
  /\ failed' = <<>>
  /\ Goto(h, "issue")
  /\ UNCHANGED <<store, clock, world, asked, ghosts>>

\* issueSession signs with the secret of a snapshot of its own.
IssueSession(h) ==
  /\ At(h, "issue")
  /\ cookies' = cookies \union
       {[secret |-> secret, pin |-> task[h].given, crossed |-> task[h].crossed]}
  /\ Finish(h)
  /\ Answered(h)
  /\ UNCHANGED <<store, guard, clock, presented, mix, asked, failed, vouched>>

-----------------------------------------------------------------------------
(* The world.                                                               *)

\* A cookie expires after thirty days, or its browser logs out.
Discard ==
  /\ \E c \in cookies : cookies' = cookies \ {c}
  /\ UNCHANGED <<store, guard, clock, task, presented, mix, asked, failed, ghosts>>

Tick ==
  /\ "Tick" \in mix.kinds
  /\ clock' = Least(clock + 1, Horizon)
  /\ UNCHANGED <<store, guard, task, world, asked, failed, ghosts>>

\* A firmware update makes the gateway a new certificate, or another machine
\* answers at its address.
Firmware ==
  /\ "Firmware" \in mix.kinds
  /\ \E host \in Hosts, cert \in Certs :
       presented' = [presented EXCEPT ![host] = cert]
  /\ UNCHANGED <<store, guard, clock, task, cookies, mix, asked, failed, ghosts>>

\* The server dies and starts again: requests and the guard are lost, the
\* store and the cookies are not.
Restart ==
  /\ "Restart" \in mix.kinds
  /\ task' = [h \in Handlers |-> Idle]
  /\ guard' = NoFailures
  /\ failed' = <<>>
  /\ UNCHANGED <<store, clock, world, asked, ghosts>>

\* An empty store, or one that was set up before.
Init ==
  /\ mix \in Mixes
  /\ presented \in [Hosts -> Certs]
  /\ guard = NoFailures /\ clock = 0 /\ asked = 0 /\ failed = <<>>
  /\ chosen = 0
  /\ task = [h \in Handlers |-> Idle]
  /\ answered = [p \in Parts |-> {}] /\ old = [p \in Parts |-> {}]
  /\ \/ /\ ~mix.configured
        /\ gateway = None /\ pin = None /\ secret = 0
        /\ cookies = {} /\ vouched = {}
     \/ /\ mix.configured
        /\ secret = 1
        /\ \E host \in Hosts, key \in Keys, p \in Pins :
             /\ gateway = [host |-> host, key |-> key, cert |-> presented[host],
                           of |-> 0, by |-> 0, crossed |-> FALSE]
             /\ pin = p
             /\ cookies = {[secret |-> 1, pin |-> p, crossed |-> FALSE]}
             /\ vouched = {<<host, key, presented[host]>>}

Step(h) ==
  \/ Setup(h) \/ Login(h) \/ NewPin(h) \/ NewGateway(h) \/ TrustCert(h)
  \/ Fetch(h) \/ Version(h) \/ FirstSite(h) \/ Error(h)
  \/ SaveSetup(h) \/ SaveGateway(h) \/ SavePin(h)
  \/ CheckPin(h) \/ CountFailure(h) \/ Reset(h) \/ IssueSession(h)

Next == (\E h \in Handlers : Step(h)) \/ Discard \/ Tick \/ Firmware \/ Restart

Spec == Init /\ [][Next]_vars

-----------------------------------------------------------------------------
(* Properties.                                                              *)

Task == [kind : Kinds \union {"none"}, pc : Places,
         given : Pins \union {None}, wanted : Pins \union {None},
         host : Hosts \union {None}, key : Keys \union {None},
         cert : Certs \union {None}, of : Nat, id : Nat,
         after : [Parts -> SUBSET Nat], crossed : BOOLEAN]

\* Every variable holds a value of its type.
TypeOK ==
  /\ gateway \in Gateway \union {None}
  /\ pin \in Pins \union {None}
  /\ secret \in Secrets /\ chosen \in Nat /\ asked \in Nat
  /\ guard \in [fails : Nat, until : Nat] /\ clock \in Nat
  /\ task \in [Handlers -> Task]
  /\ cookies \subseteq Cookie
  /\ presented \in [Hosts -> Certs]
  /\ mix \in Mixes
  /\ vouched \subseteq Hosts \X Keys \X Certs
  /\ failed \in Seq(Nat)
  /\ answered \in [Parts -> SUBSET Nat] /\ old \in [Parts -> SUBSET Nat]

\* The stored host, key and pinned certificate belong together: one validation
\* succeeded with exactly the three, whatever changed during it and whatever
\* other change of settings ran beside it.
PinnedTogether ==
  gateway # None => <<gateway.host, gateway.key, gateway.cert>> \in vouched

\* A session the server accepts is held by somebody who gave the PIN that is
\* stored now ("invalidates every existing session cookie"); the one exception
\* is a PIN that was changed between the check of a request's own PIN and the
\* signing of its session, which takes the secret of a later snapshot.
ValidMeansKnown ==
  \A c \in cookies : ValidSession(c) => c.pin = pin \/ c.crossed

\* A change a parent was told is made is in force until the next: no PIN,
\* certificate or host stays or comes back that a change, asked for after it was
\* answered and answered itself, was to replace.  Re-trusting a certificate also writes the host
\* and key it began with, so the host may be an old one when another gateway was
\* chosen in the meantime.
AnswersHold ==
  /\ chosen \notin old["pin"]
  /\ gateway # None =>
       /\ gateway.by \notin old["cert"]
       /\ gateway.of \in old["host"] => gateway.crossed

\* Guessing is slowed down although nothing is locked between the look at the
\* guard and the count of the failure: from the first lock on, at most as many
\* guesses fail within a lock as there are requests at a time.
AttemptsAreSpaced ==
  LET H == Cardinality(Handlers)
  IN  \A i \in Tries..(Len(failed) - H) : failed[i + H] >= failed[i] + LockFor(i)
=============================================================================
